-------------------------- MODULE ChallengeRegistry --------------------------
(***************************************************************************)
(* The ChallengeRegistry contract (modules/cf-adjudicator-contracts): of    *)
(* every app the challenge in progress and the outcome computed when one    *)
(* had ended. Each action is a transaction that is not reverted.            *)
(*                                                                         *)
(* Blocks are counted from the other end: `left` is challenge.finalizesAt   *)
(* minus the number of the current block, so that a challenge set with a    *)
(* timeout has that many blocks left and the clock needs no bound. Below -1 *)
(* nothing depends on it.                                                   *)
(*                                                                         *)
(* A challenge is filed under appIdentityToHash, the hash of the channel's   *)
(* nonce and the participants. The appDefinition in the AppIdentity of a     *)
(* call is not in that hash, and no signature is on it, so the contract that *)
(* is asked for a turn taker, a new state or an outcome is the one the       *)
(* caller has named: the app's own (AppContracts), or another, of which      *)
(* nothing is known but what it may answer.                                  *)
(***************************************************************************)
EXTENDS AppContracts

CONSTANTS
  Apps, None,
  OtherStates,   \* what applyAction of another contract may return
  OtherOutcomes  \* what its computeOutcome may, as the app's interpreter reads it

ASSUME OtherContracts ==
  OtherOutcomes \subseteq [pays : Money, allOrNothing : BOOLEAN, activeApps : SUBSET Apps]

VARIABLES
  challenge,  \* appChallenges: [Apps -> status, state, version, left]
  outcome     \* appOutcomes: [Apps -> None or the outcome set]

registryVars == <<challenge, outcome>>

\* What `delete appChallenges[identityHash]` leaves, and what is there at first.
NoChallenge == [status |-> "none", state |-> None, version |-> 0, left |-> 0]

RegistryInit ==
  /\ challenge = [a \in Apps |-> NoChallenge]
  /\ outcome = [a \in Apps |-> None]

\* finalizesAt >= block.number of a challenge that has a deadline.
Open(c) == c.status = "deadline" /\ c.left >= 0

\* A mutant: what has ended can be set again.
MaySetAlways(c, version) == version > c.version

\* The guards setState and setStateWithAction share.
MaySet(c, version) ==
  /\ c.status = "none" \/ Open(c)
  /\ version > c.version

\* A mutant: one block early.
EndedAtDeadline(c) == c.status = "explicit" \/ (c.status = "deadline" /\ c.left <= 0)

\* When setOutcome runs: one block after isStateFinalized says so.
Ended(c) == c.status = "explicit" \/ (c.status = "deadline" /\ c.left < 0)

\* A mutant: forgets what needs no deadline.
IsPastDeadline(c) == c.status = "deadline" /\ c.left <= 0

IsStateFinalized(c) ==
  c.status = "explicit" \/ (c.status = "deadline" /\ c.left <= 0)

(***************************************************************************)
(* An update is a state of an app that all its participants have signed,    *)
(* with a version and a timeout. No timeout means that it is final at once. *)
(***************************************************************************)
SetState(u) ==
  /\ MaySet(challenge[u.app], u.version)
  /\ challenge' = [challenge EXCEPT ![u.app] =
       [status |-> IF u.timeout > 0 THEN "deadline" ELSE "explicit",
        state |-> u.state, version |-> u.version, left |-> u.timeout]]
  /\ UNCHANGED outcome

\* The state the action leads to is stored under the version of the one it
\* was taken on, with a deadline whatever the timeout.
Progress(u, state) ==
  /\ MaySet(challenge[u.app], u.version)
  /\ challenge' = [challenge EXCEPT ![u.app] =
       [status |-> "deadline", state |-> state, version |-> u.version, left |-> u.timeout]]
  /\ UNCHANGED outcome

SetStateWithAction(u, action) ==
  /\ HasTurns(u.state) /\ Accepts(u.state, action)
  /\ Progress(u, ApplyAction(u.state, action))

\* The same call, naming another contract: whose turn it is and where the
\* action leads is for that one to say.
SetStateWithOtherAction(u) == \E state \in OtherStates : Progress(u, state)

\* A valid action of the turn taker removes the challenge, version included;
\* where it leads is not recorded.
Remove(a) ==
  /\ Open(challenge[a])
  /\ challenge' = [challenge EXCEPT ![a] = NoChallenge]
  /\ UNCHANGED outcome

RespondToChallenge(a, action) ==
  /\ HasTurns(challenge[a].state) /\ Accepts(challenge[a].state, action)
  /\ Remove(a)

\* The same call, naming another contract, which may accept anything of anyone.
RespondWithOtherAction(a) == Remove(a)

\* A mutant: the challenge need not have ended.
SetOutcomeEarly(a) ==
  /\ challenge[a].status # "none"
  /\ outcome' = [outcome EXCEPT ![a] = ComputeOutcome(challenge[a].state)]
  /\ UNCHANGED challenge

SetOutcome(a) ==
  /\ Ended(challenge[a])
  /\ outcome' = [outcome EXCEPT ![a] = ComputeOutcome(challenge[a].state)]
  /\ UNCHANGED challenge

\* The same call, naming another contract.
SetOtherOutcome(a) ==
  /\ Ended(challenge[a])
  /\ \E result \in OtherOutcomes : outcome' = [outcome EXCEPT ![a] = result]
  /\ UNCHANGED challenge

\* The signatures asked for are those of an update of this state and version:
\* whoever holds it can cancel. The version stays.
CancelChallenge(u) ==
  /\ Open(challenge[u.app])
  /\ u.state = challenge[u.app].state /\ u.version = challenge[u.app].version
  /\ challenge' = [challenge EXCEPT ![u.app] = [@ EXCEPT !.status = "none", !.left = 0]]
  /\ UNCHANGED outcome

\* A block is mined.
NextBlock ==
  /\ challenge' = [a \in Apps |->
       IF Open(challenge[a]) THEN [challenge[a] EXCEPT !.left = @ - 1]
                             ELSE challenge[a]]
  /\ UNCHANGED outcome

=============================================================================
