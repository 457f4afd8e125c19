----------------------------- MODULE MCDisputes -----------------------------
(***************************************************************************)
(* Instances of Disputes for TLC: a channel with 3 of P1's and 1 of P2's.   *)
(***************************************************************************)
EXTENDS Disputes, TLC

CONSTANTS App, Period

MCApps == {FB, App}

FreeBalance(x, y, active) ==
  [kind |-> "identity", transfers |-> [p \in Parties |-> IF p = P1 THEN x ELSE y],
   activeApps |-> active]

Transfer(from, stage, x, y, turn) ==
  [kind |-> "transfer", from |-> from, stage |-> stage, turnNum |-> turn,
   transfers |-> [p \in Parties |-> IF p = P1 THEN x ELSE y]]

Linked(from, stage, x, y, turn) ==
  [Transfer(from, stage, x, y, turn) EXCEPT !.kind = "linked"]

SimpleLinked(from, x, y, claimed) ==
  [kind |-> "simpleLinked", from |-> from, claimed |-> claimed,
   transfers |-> [p \in Parties |-> IF p = P1 THEN x ELSE y]]

Fb(version, state) ==
  [app |-> FB, version |-> version, timeout |-> 2, state |-> state]

Of(version, timeout, state) ==
  [app |-> App, version |-> version, timeout |-> timeout, state |-> state]

\* An app is installed with 2 of P1's, an action taken on it, maybe a second
\* one; the app is uninstalled.
Installed(updates, x, y) ==
  <<Fb(2, FreeBalance(1, 1, {App}))>> \o updates \o <<Fb(3, FreeBalance(1 + x, 1 + y, {}))>>

Around(updates, x, y) == <<Fb(1, FreeBalance(3, 1, {}))>> \o Installed(updates, x, y)

\* A transfer sends 1 and is ended by whose turn it is then.
Sends(timeout) ==
  Around(<<Of(1, timeout, Transfer(P1, "MONEY_SENT", 1, 1, 1)),
           Of(2, timeout, Transfer(P1, "CHANNEL_CLOSED", 1, 1, 2))>>, 1, 1)

\* The state of a transfer is updated twice before the action.
Updated(timeout) ==
  Around(<<Of(1, timeout, Transfer(P1, "POST_FUND", 2, 0, 0)),
           Of(2, timeout, Transfer(P1, "MONEY_SENT", 0, 2, 1))>>, 0, 2)

\* It is installed and its state is updated once.
Unmoved(timeout) ==
  <<Fb(2, FreeBalance(1, 1, {App})), Of(1, timeout, Transfer(P1, "POST_FUND", 2, 0, 0))>>

Claims(timeout) ==
  <<Fb(2, FreeBalance(1, 1, {App})),
    Of(1, timeout, Linked(P1, "POST_FUND", 2, 0, 1)),
    Of(2, timeout, Linked(P1, "PAYMENT_CLAIMED", 0, 2, 2))>>

Redeems(timeout) ==
  Around(<<Of(1, timeout, SimpleLinked(P1, 2, 0, TRUE))>>, 0, 2)

\* A game is installed for 1 of each; the moves are signed one by one.
Game(updates) == <<Fb(2, FreeBalance(2, 0, {App}))>> \o updates

Played(kind, turn, more) == [kind |-> kind, stake |-> 2, turnNum |-> turn] @@ more

\* P1 has committed to a number, then P2; whose dice show more is in the hash.
Rolls(timeout) ==
  LET committed == [stage |-> "P1_COMMITTED_TO_HASH", commitHash |-> 1, first |-> 0,
                    second |-> 0]
  IN Game(<<Of(1, timeout, Played("highRoller", 1, committed)),
            Of(2, timeout, Played("highRoller", 2,
                 [committed EXCEPT !.stage = "P2_COMMITTED_TO_NUM", !.second = 2]))>>)

\* Hashes by product: P1 wins with 1 and 1, P2 with 1 and 2.
MCHash == [n \in 0..4 |-> CASE n = 1 -> <<5, 6, 1, 2>> [] n = 2 -> <<6, 1, 5, 13>>
                            [] OTHER -> <<3, 4, 4, 3>>]

\* One square is left, on which P1 gets three in a row, and does.
Crosses(timeout) ==
  LET x == {<<0, 0>>, <<0, 1>>, <<1, 2>>, <<2, 1>>}
      board == [s \in Squares |-> IF s = <<0, 2>> THEN Nobody
                                  ELSE IF s \in x THEN P1 ELSE P2]
      last == Played("ticTacToe", 8, [board |-> board, winner |-> Nobody])
      win == [type |-> "PLAY_AND_WIN", square |-> <<0, 2>>, line |-> Claim("COL", 0)]
  IN Game(<<Of(8, timeout, last), Of(9, timeout, ApplyPlay(last, win))>>)

\* One is left to take.
Takes(timeout) ==
  Game(<<Of(1, timeout, Played("nim", 1, [pileHeights |-> [i \in Piles |-> i \div 2]]))>>)

AllHistories ==
  {Sends(Period), Unmoved(Period), Claims(Period), Updated(0), Redeems(0),
   Rolls(Period), Crosses(Period), Takes(Period)}

\* Another contract is named in the behaviours of the others: Unmoved, Redeems
\* and Takes, which put few actions on chain.
MCOwnOnly ==
  {Sends(Period), Claims(Period), Updated(0), Rolls(Period), Crosses(Period)}

\* Another contract: it puts a link that P2 has claimed in the place of any state,
\* and pays all there is to P2.
MCOtherStates == {SimpleLinked(P1, Deposited, 0, TRUE)}
MCOtherOutcomes ==
  {[pays |-> [p \in Parties |-> IF p = P1 THEN 0 ELSE Deposited], allOrNothing |-> FALSE,
    activeApps |-> {}]}

=============================================================================
