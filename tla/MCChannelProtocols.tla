------------------------- MODULE MCChannelProtocols -------------------------
(***************************************************************************)
(* Instances of ChannelProtocols for TLC.  The openings are channels that   *)
(* the protocols themselves reach from a freshly funded one, so that the    *)
(* bound on the number of runs is spent on the interesting ones.            *)
(***************************************************************************)
EXTENDS ChannelProtocols

CONSTANTS d1, d2  \* two app definitions

\* Each party has deposited once: two installs and two uninstalls of the
\* refund app, each adding two to the version of the free balance.
Funded ==
  [SetupChannel EXCEPT !.fb.ver = 8, !.fb.bal = [p \in Parties |-> 2]]

\* Alice has proposed an app in which she stakes one.
FirstProposal == NextProposal(Funded, d1, Alice, 1, 0)
OneProposed == AddProposal(Funded, FirstProposal)

\* Alice and Bob have each proposed an app.
SecondProposal == NextProposal(OneProposed, d2, Bob, 1, 0)
TwoProposed == AddProposal(OneProposed, SecondProposal)

\* The first of them is installed, and its call has returned.
OneInstalled ==
  RemoveProposal(InstallApp(TwoProposed, FirstProposal), FirstProposal.id)

\* A proposer stakes one, the other party nothing.
OneSided == {[own |-> 1, other |-> 0]}

\* One or two, so that two proposals of one app differ.
OneOrTwo == {[own |-> 1, other |-> 0], [own |-> 2, other |-> 0]}

=============================================================================
