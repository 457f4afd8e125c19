---------------------------- MODULE AppContracts ----------------------------
(***************************************************************************)
(* The app contracts whose states are put on chain in a dispute: whose turn *)
(* a state is, what an action makes of it, and the outcome it stands for.   *)
(* All are pure functions of the state (CounterfactualApp.sol).             *)
(*                                                                         *)
(* A state of an app is a record: its contract `kind`, the `transfers` it   *)
(* promises (party to amount), the party `from` whose money it is           *)
(* (transfers[0].to), and the fields of that contract. A free balance is    *)
(* the state of the IdentityApp: its balances are its `transfers`. The games  *)
(* are in GameApps.                                                         *)
(***************************************************************************)
EXTENDS GameApps

Parties == {P1, P2}
Other(p) == IF p = P1 THEN P2 ELSE P1

ASSUME TwoParticipants == P1 # P2

Stages == {"POST_FUND", "MONEY_SENT", "PAYMENT_CLAIMED", "CHANNEL_CLOSED"}

Money == [Parties -> Nat]

AppStates ==
  [kind : {"transfer", "linked"}, from : Parties, stage : Stages, turnNum : Nat,
   transfers : Money]
  \cup [kind : {"simpleLinked"}, from : Parties, claimed : BOOLEAN, transfers : Money]
  \cup GameStates

(***************************************************************************)
(* Contracts without getTurnTaker inherit CounterfactualApp's, which        *)
(* reverts: no action on their states can be put on chain.                  *)
(***************************************************************************)
HasTurns(state) == state.kind \in {"transfer", "linked"} \cup Games

TurnTaker(state) == IF state.turnNum % 2 = 0 THEN P1 ELSE P2

\* What decodes as an action of the contract: SEND_MONEY and END_CHANNEL of the
\* transfer app; one of a linked transfer either hashes to the link or does not.
Actions(state, money) ==
  CASE state.kind = "transfer" ->
         [type : {"SEND_MONEY"}, amount : money]
           \cup [type : {"END_CHANNEL"}, amount : {0}]
    [] state.kind = "linked" -> [type : {"preImage", "wrongPreImage"}, amount : {0}]
    [] state.kind \in Games -> GameActions(state, money)
    [] OTHER -> {}

\* The actions of a contract that do not make applyAction revert.
Accepts(state, action) ==
  \/ /\ state.kind = "transfer"
     /\ \/ action.type = "END_CHANNEL"
        \/ /\ action.type = "SEND_MONEY"
           /\ state.stage = "POST_FUND"
           /\ action.amount <= state.transfers[state.from]
  \/ /\ state.kind = "linked"
     /\ action.type \in {"preImage", "wrongPreImage"}
  \/ state.kind \in Games /\ GameAccepts(state, action)

\* The money of `from` that `amount` of is given to the other party.
Moved(transfers, from, amount) ==
  [transfers EXCEPT ![from] = @ - amount, ![Other(from)] = @ + amount]

\* A claimed link exchanges the two transfers, a wrong pre-image leaves them.
ApplyAction(state, action) ==
  CASE state.kind \in Games -> ApplyGame(state, action)
    [] action.type = "SEND_MONEY" ->
         [state EXCEPT !.stage = "MONEY_SENT", !.turnNum = @ + 1,
                       !.transfers = Moved(@, state.from, action.amount)]
    [] action.type = "preImage" ->
         [state EXCEPT !.stage = "PAYMENT_CLAIMED", !.turnNum = @ + 1,
                       !.transfers = [p \in Parties |-> @[Other(p)]]]
    [] OTHER ->
         [state EXCEPT !.stage = "CHANNEL_CLOSED", !.turnNum = @ + 1]

\* SimpleLinkedTransferApp: its state holds the pre-image, right or not.
LinkOutcome(state) ==
  [p \in Parties |->
     IF (p = state.from) = state.claimed THEN 0 ELSE state.transfers[state.from]]

\* What computeOutcome encodes, as the interpreter of the app reads it: what each
\* party is paid, and whether it pays all or reverts; of the free balance
\* (IdentityApp) also which apps it has funded.
ComputeOutcome(state) ==
  [pays |-> CASE state.kind = "simpleLinked" -> LinkOutcome(state)
              [] state.kind \in Games -> FixedOutcome(Winner(state), state.stake)
              [] OTHER -> state.transfers,
   allOrNothing |-> state.kind \in Games,
   activeApps |-> IF state.kind = "identity" THEN state.activeApps ELSE {}]

=============================================================================
