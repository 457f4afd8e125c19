----------------------------- MODULE MCDaicard -----------------------------
(***************************************************************************)
(* Instances of Daicard: days in the life of a wallet. Each plan says what    *)
(* the channel and the key own at the start, what the user and others do      *)
(* (each click once), how many payments come in, how many calls may fail,     *)
(* and which rates the hub may get. One ether is worth two dai at first.     *)
(***************************************************************************)
EXTENDS Daicard

Of(eth, dai, tip) ==
  [eth |-> [user |-> eth[1], hub |-> eth[2]], dai |-> [user |-> dai[1], hub |-> dai[2]],
   tip |-> [user |-> tip[1], hub |-> tip[2]]]
Owns(eth, dai) == [eth |-> eth, dai |-> dai, tip |-> 0]

Day(balances, owned, clicks) ==
  [bal |-> balances, chain |-> owned, rate |-> 2, sai |-> 0, clicks |-> clicks,
   payments |-> 0, incoming |-> 0, failures |-> 0, rates |-> {}]

\* Ether arrives, is deposited, and swapped, twice over; the hub restarts.
Funded == Day(Of(<<1, 0>>, <<0, 4>>, <<0, 0>>), Owns(0, 0), {"restart", "fund"})

\* Tokens and ether on chain, some or as many as fit; something fails.
Tokens == [Day(Of(<<0, 0>>, <<0, 8>>, <<0, 0>>), Owns(2, 2), {}) EXCEPT !.failures = 1]

Full == Day(Of(<<0, 0>>, <<0, 8>>, <<0, 0>>), Owns(1, 8), {})

\* Cashing out, in ether next to the poller's swap, and in tokens while paid.
CashedOut == Day(Of(<<1, 2>>, <<2, 4>>, <<0, 0>>), Owns(0, 0), {"cashoutEther"})
PaidMeanwhile ==
  [Day(Of(<<1, 0>>, <<2, 4>>, <<0, 0>>), Owns(0, 0), {"cashoutTokens"}) EXCEPT !.payments = 1]

\* Cashing out next to a link that is sent, and next to left-over SAI.
LinkCashedOut ==
  Day(Of(<<0, 0>>, <<2, 4>>, <<0, 0>>), Owns(0, 0), {"link", "cashoutTokens"})
SaiCashedOut ==
  [Day(Of(<<0, 0>>, <<2, 4>>, <<0, 0>>), Owns(0, 0), {"withdrawSai", "cashoutTokens"})
     EXCEPT !.sai = 1]

\* Tips bought and sold, in calls that fail, too.
TipsBought ==
  [Day(Of(<<0, 0>>, <<2, 6>>, <<2, 0>>), Owns(0, 0), {"buyTips", "sellTips"})
     EXCEPT !.failures = 1]

\* A link sent next to a swap, at a rate that changes; a payment that is tried
\* again; a link redeemed, here or elsewhere.
LinkSent ==
  [Day(Of(<<1, 0>>, <<2, 4>>, <<0, 0>>), Owns(0, 0), {"link"}) EXCEPT !.rates = {4}]
Sent == Day(Of(<<0, 0>>, <<2, 4>>, <<0, 0>>), Owns(0, 0), {"p2p"})
LinkRedeemed == Day(Of(<<0, 0>>, <<0, 0>>, <<0, 0>>), Owns(0, 0), {"redeem", "elsewhere"})

Reloaded == Day(Of(<<1, 0>>, <<0, 2>>, <<0, 0>>), Owns(0, 0), {"reload"})
SaiLeft ==
  [Day(Of(<<0, 0>>, <<2, 4>>, <<0, 0>>), Owns(0, 0), {"withdrawSai"})
     EXCEPT !.sai = 1, !.failures = 1]

Days == {Funded, Tokens, Full, CashedOut, PaidMeanwhile, LinkCashedOut, SaiCashedOut,
         TipsBought, LinkSent, Sent, LinkRedeemed, Reloaded, SaiLeft}
=============================================================================
