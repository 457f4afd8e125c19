---------------------------- MODULE SharedLedger ----------------------------
(***************************************************************************)
(* What the channel protocols promise about the free balance, the state     *)
(* both parties can take to the chain: it has ONE history.  A new state is  *)
(* agreed only on top of the latest one, only when both parties are at the  *)
(* latest one, and the party that has it first takes it over in the same    *)
(* step.  The other party can then only catch up, and until it does nothing *)
(* more can be agreed.                                                      *)
(*                                                                         *)
(* Abstract: it stands for no code.  ChannelProtocols refines it.           *)
(***************************************************************************)
EXTENDS Naturals

CONSTANTS
  Members,  \* the parties
  States,   \* records with a version, `ver`, among their fields
  First     \* the state agreed before the behaviour starts

VARIABLES
  agreed,   \* every state that a party ever took over
  view      \* the state each party would take to the chain

ledgerVars == <<agreed, view>>

Latest == CHOOSE s \in agreed : \A t \in agreed : t.ver <= s.ver

LedgerInit == agreed = {First} /\ view = [p \in Members |-> First]

\* p adopts whatever newer state it likes, and that state becomes agreed.
Agree(p) ==
  /\ \A q \in Members : view[q] = Latest
  /\ view'[p] \in States
  /\ view'[p].ver > Latest.ver
  /\ agreed' = agreed \cup {view'[p]}
  /\ \A q \in Members \ {p} : view'[q] = view[q]

CatchUp(p) ==
  /\ view' = [view EXCEPT ![p] = Latest]
  /\ UNCHANGED agreed

LedgerNext == \E p \in Members : Agree(p) \/ CatchUp(p)

LedgerSpec == LedgerInit /\ [][LedgerNext]_ledgerVars

=============================================================================
