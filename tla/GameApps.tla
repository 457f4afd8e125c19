------------------------------ MODULE GameApps ------------------------------
(***************************************************************************)
(* The games of modules/cf-apps: two parties stake `stake` and take turns;   *)
(* the outcome names who gets it (TwoPartyFixedOutcome). Pure functions of   *)
(* the state, as the ChallengeRegistry calls them.                           *)
(*                                                                         *)
(* A state is a record with the `kind` of the contract, the `stake`, the     *)
(* versionNumber, here `turnNum`, and the fields of its contract. The number *)
(* a player of HighRoller commits to is hidden by a salted hash; here the    *)
(* hash is the number. What the hash of the two numbers' product is cut into *)
(* is the constant Hash.                                                     *)
(***************************************************************************)
EXTENDS Integers, FiniteSets

CONSTANTS
  P1, P2,   \* the participants of every app, in signing-key order
  Numbers,  \* what the players of HighRoller may choose
  Hash      \* four numbers for every product of two of them

Games == {"highRoller", "ticTacToe", "nim"}
Split == "SPLIT_AND_SEND_TO_BOTH_ADDRS"

\* participants[versionNumber % 2]
Mover(state) == IF state.turnNum % 2 = 0 THEN P1 ELSE P2

-----------------------------------------------------------------------------
(* HighRollerApp                                                            *)

RollActions == [type : {"COMMIT_TO_HASH", "COMMIT_TO_NUM", "REVEAL_NUM"}, number : Numbers]

RollAccepts(state, action) ==
  \/ /\ action.type = "COMMIT_TO_HASH" /\ state.stage = "WAITING_FOR_P1_COMMITMENT"
  \/ /\ action.type = "COMMIT_TO_NUM" /\ state.stage = "P1_COMMITTED_TO_HASH"
     /\ action.number # 0
  \/ /\ action.type = "REVEAL_NUM" /\ state.stage = "P2_COMMITTED_TO_NUM"
     /\ action.number = state.commitHash

ApplyRoll(state, action) ==
  LET next == [state EXCEPT !.turnNum = @ + 1] IN
  CASE action.type = "COMMIT_TO_HASH" ->
         [next EXCEPT !.stage = "P1_COMMITTED_TO_HASH", !.commitHash = action.number]
    [] action.type = "COMMIT_TO_NUM" ->
         [next EXCEPT !.stage = "P2_COMMITTED_TO_NUM", !.second = action.number]
    [] action.type = "REVEAL_NUM" /\ action.number = 0 ->
         [next EXCEPT !.stage = "P1_TRIED_TO_SUBMIT_ZERO"]
    [] OTHER -> [next EXCEPT !.stage = "P1_REVEALED_NUM", !.first = action.number]

\* bytes8toDiceRoll of the four parts of the hash: two dice for each player.
\* (The comment says from 1 to 6; they show 0 to 5.)
getPlayerRolls(randomness) == [i \in 1..4 |-> Hash[randomness][i] % 6]

\* calculateRandomSalt, highRoller and getWinningAmounts.
Rolled(num1, num2) ==
  LET roll == getPlayerRolls(num1 * num2)
      first == roll[1] + roll[2]
      second == roll[3] + roll[4]
  IN IF first > second THEN P1 ELSE IF first < second THEN P2 ELSE Split

RollWinner(state) ==
  CASE state.stage = "P1_COMMITTED_TO_HASH" -> P1
    [] state.stage = "P1_REVEALED_NUM" -> Rolled(state.first, state.second)
    [] OTHER -> P2

-----------------------------------------------------------------------------
(* TicTacToeApp. A square holds the player who has played on it, or nobody.  *)

Three == 0..2
Squares == Three \X Three
Nobody == "EMPTY_SQUARE"

\* The squares of a WinClaim; the index counts for columns and rows.
Claim(type, idx) ==
  CASE type = "COL" -> {<<idx, y>> : y \in Three}
    [] type = "ROW" -> {<<x, idx>> : x \in Three}
    [] type = "DIAG" -> {<<x, x>> : x \in Three}
    [] type = "CROSS_DIAG" -> {<<2 - x, x>> : x \in Three}

WinClaims == {Claim(type, idx) : type \in {"COL", "ROW", "DIAG", "CROSS_DIAG"}, idx \in Three}

\* A move may come with the claim of a line or of a draw; DRAW without a move.
PlayActions ==
  [type : {"PLAY", "PLAY_AND_DRAW"}, square : Squares, line : {{}}]
    \cup [type : {"PLAY_AND_WIN"}, square : Squares, line : WinClaims]
    \cup [type : {"DRAW"}, square : {<<0, 0>>}, line : {{}}]

playMove(state, square) == [state EXCEPT !.board[square] = Mover(state)]

assertBoardIsFull(state) == \A s \in Squares : state.board[s] # Nobody
assertWin(player, state, line) == \A s \in line : state.board[s] = player

PlayAccepts(state, action) ==
  LET played == playMove(state, action.square) IN
  IF action.type = "DRAW" THEN assertBoardIsFull(state)
  ELSE /\ state.board[action.square] = Nobody
       /\ action.type = "PLAY_AND_WIN" => assertWin(Mover(state), played, action.line)
       /\ action.type = "PLAY_AND_DRAW" => assertBoardIsFull(played)

\* A game that has been won can go on; whoever has won by then stays the winner
\* until another line or a draw is claimed.
ApplyPlay(state, action) ==
  LET next == [(IF action.type = "DRAW" THEN state ELSE playMove(state, action.square))
                 EXCEPT !.turnNum = @ + 1]
  IN CASE action.type = "PLAY" -> next
       [] action.type = "PLAY_AND_WIN" -> [next EXCEPT !.winner = Mover(state)]
       [] OTHER -> [next EXCEPT !.winner = Split]

\* While the game is on, whoever is to move gets the stake.
PlayWinner(state) == IF state.winner = Nobody THEN Mover(state) ELSE state.winner

-----------------------------------------------------------------------------
(* NimApp                                                                   *)

Piles == 0..2
TakeActions(amounts) == [type : {"TAKE"}, pileIdx : Piles, takeAmnt : amounts]

TakeAccepts(state, action) == state.pileHeights[action.pileIdx] >= action.takeAmnt

ApplyTake(state, action) ==
  [state EXCEPT !.pileHeights[action.pileIdx] = @ - action.takeAmnt, !.turnNum = @ + 1]

-----------------------------------------------------------------------------
(* What the contracts have in common.                                       *)

RollStages == {"WAITING_FOR_P1_COMMITMENT", "P1_COMMITTED_TO_HASH",
               "P2_COMMITTED_TO_NUM", "P1_REVEALED_NUM", "P1_TRIED_TO_SUBMIT_ZERO"}

GameStates ==
  [kind : {"highRoller"}, stake : Nat, turnNum : Nat, stage : RollStages,
   commitHash : Numbers \cup {0}, first : Numbers \cup {0}, second : Numbers \cup {0}]
  \cup [kind : {"ticTacToe"}, stake : Nat, turnNum : Nat,
        board : [Squares -> {P1, P2, Nobody}], winner : {P1, P2, Split, Nobody}]
  \cup [kind : {"nim"}, stake : Nat, turnNum : Nat, pileHeights : [Piles -> Nat]]

GameActions(state, amounts) ==
  CASE state.kind = "highRoller" -> RollActions
    [] state.kind = "ticTacToe" -> PlayActions
    [] state.kind = "nim" -> TakeActions(amounts)

GameAccepts(state, action) ==
  CASE state.kind = "highRoller" -> RollAccepts(state, action)
    [] state.kind = "ticTacToe" -> PlayAccepts(state, action)
    [] state.kind = "nim" -> TakeAccepts(state, action)

ApplyGame(state, action) ==
  CASE state.kind = "highRoller" -> ApplyRoll(state, action)
    [] state.kind = "ticTacToe" -> ApplyPlay(state, action)
    [] state.kind = "nim" -> ApplyTake(state, action)

\* Nim: the one to move, also when nothing is left to take.
Winner(state) ==
  CASE state.kind = "highRoller" -> RollWinner(state)
    [] state.kind = "ticTacToe" -> PlayWinner(state)
    [] state.kind = "nim" -> Mover(state)

\* TwoPartyFixedOutcomeInterpreter: the winner gets the stake; halves of an odd
\* stake differ by one.
FixedOutcome(winner, stake) ==
  [p \in {P1, P2} |->
     IF winner = Split THEN IF p = P1 THEN stake \div 2 ELSE stake - stake \div 2
     ELSE IF p = winner THEN stake ELSE 0]
=============================================================================
