---------------------------- MODULE HubChannels ----------------------------
(***************************************************************************)
(* How a client gets its channel with the hub (modules/node, modules/client, *)
(* the setup protocol of modules/cf-core). connect() asks the hub for the    *)
(* row of its channel; without one it listens for the event CREATE_CHANNEL,  *)
(* for 30 seconds, and asks the hub to create it. The hub runs the setup     *)
(* protocol, and saves the row when its own cf-core emits that event.        *)
(*                                                                         *)
(* LinkedTransfers and UserWithdrawals extend this module: without a row the *)
(* hub does nothing for a user.                                             *)
(***************************************************************************)
EXTENDS Integers, FiniteSetsExt

CONSTANTS
  Users, None,
  Plans         \* what may happen in a behaviour, see below

(***************************************************************************)
(* A plan bounds a behaviour: who has a channel from the beginning; how often *)
(* the others call connect(), and resolveLinkedTransfer and withdraw are      *)
(* called; which payments are sent; how often the hub and clients restart;    *)
(* and which faults may occur.                                              *)
(***************************************************************************)
ASSUME HubConstants ==
  /\ None \notin Users
  /\ \A bounds \in Plans :
       /\ bounds.opened \subseteq Users
       /\ {bounds.connects, bounds.resolves, bounds.withdrawals,
           bounds.restarts, bounds.clientRestarts} \subseteq Nat
       /\ bounds.faults \subseteq
            {"offline", "timeout", "missed", "deposit", "submit", "late"}

VARIABLES
  plan,
  restarts,  \* of the hub
  rows,      \* the rows of every user in the table channel
  stored,    \* whether the cf-core of hub and user has the channel in store
  attempt    \* the calls of connect()

channelVars == <<rows, stored, attempt>>
hubChannelVars == <<plan, restarts, channelVars>>

Attempts == 1..Max({p.connects : p \in Plans} \cup {0})
Fault(f) == f \in plan.faults

\* The client's side of a call, and what the hub does for it.
NoAttempt == [user |-> None, client |-> "idle", hub |-> "none"]

HubChannelsInit ==
  /\ plan \in Plans
  /\ restarts = 0
  /\ rows = [u \in Users |-> IF u \in plan.opened THEN 1 ELSE 0]
  /\ stored = [u \in Users |-> [hub |-> u \in plan.opened, user |-> u \in plan.opened]]
  /\ attempt = [c \in Attempts |-> NoAttempt]

HasRow(u) == rows[u] > 0
Connected(u) ==
  \/ u \in plan.opened
  \/ \E c \in Attempts : attempt[c].user = u /\ attempt[c].client = "connected"

-----------------------------------------------------------------------------
\* connect(): the user has no other call of it under way.
Connect(c, u) ==
  /\ c <= plan.connects /\ attempt[c].client = "idle"
  /\ \A d \in Attempts : d < c => attempt[d].client # "idle"
  /\ \A d \in Attempts : attempt[d].user = u => attempt[d].client = "failed"
  /\ u \notin plan.opened
  /\ attempt' = [attempt EXCEPT ![c] =
       [user |-> u, client |-> IF HasRow(u) THEN "connected" ELSE "waiting",
        hub |-> IF HasRow(u) THEN "none" ELSE "asked"]]
  /\ UNCHANGED <<plan, restarts, rows, stored>>

HubGoto(c, pc) == attempt' = [attempt EXCEPT ![c].hub = pc]

\* create of the hub's channel service. That it throws does not reach the
\* client, which waits for the event.
Create(c) ==
  /\ attempt[c].hub = "asked"
  /\ HubGoto(c, IF HasRow(attempt[c].user) THEN "failed" ELSE "queued")
  /\ UNCHANGED <<plan, restarts, rows, stored>>

\* All creations share one queue of the hub's cf-core.
Creating == {c \in Attempts : attempt[c].hub \in {"proposed", "signed", "stored"}}

\* A mutant: the store is not asked.
RunAnySetup(c) ==
  /\ attempt[c].hub = "queued" /\ Creating = {}
  /\ HubGoto(c, "proposed")
  /\ UNCHANGED <<plan, restarts, rows, stored>>

\* executeMethodImplementation: a channel that is in the store is not set up
\* again, and then no event is emitted.
RunSetup(c) ==
  /\ attempt[c].hub = "queued" /\ Creating = {}
  /\ HubGoto(c, IF stored[attempt[c].user].hub THEN "done" ELSE "proposed")
  /\ UNCHANGED <<plan, restarts, rows, stored>>

(***************************************************************************)
(* The setup protocol. The client, responding, persists the channel, whatever *)
(* it had, and sends its signature; its cf-core then emits CREATE_CHANNEL to  *)
(* whoever still listens. The hub persists after.                            *)
(***************************************************************************)
Listening(u) == {d \in Attempts : attempt[d].user = u /\ attempt[d].client = "waiting"}

SetupResponder(c) ==
  LET u == attempt[c].user IN
  /\ attempt[c].hub = "proposed"
  /\ stored' = [stored EXCEPT ![u].user = TRUE]
  /\ attempt' = [d \in Attempts |->
       [attempt[d] EXCEPT !.hub = IF d = c THEN "signed" ELSE @,
                          !.client = IF d \in Listening(u) THEN "connected" ELSE @]]
  /\ UNCHANGED <<plan, restarts, rows>>

\* A mutant: no event, so no row.
SetupInitiatorSilently(c) ==
  /\ attempt[c].hub = "signed"
  /\ stored' = [stored EXCEPT ![attempt[c].user].hub = TRUE]
  /\ HubGoto(c, "done")
  /\ UNCHANGED <<plan, restarts, rows>>

SetupInitiator(c) ==
  /\ attempt[c].hub = "signed"
  /\ stored' = [stored EXCEPT ![attempt[c].user].hub = TRUE]
  /\ HubGoto(c, "stored")
  /\ UNCHANGED <<plan, restarts, rows>>

\* The wait for the client's signature ends without it.
SetupTimeout(c) ==
  /\ Fault("offline")
  /\ attempt[c].hub \in {"proposed", "signed"}
  /\ HubGoto(c, "failed")
  /\ UNCHANGED <<plan, restarts, rows, stored>>

\* makeAvailable, on the hub's event: a row more, even if there is one.
MakeAvailable(c) ==
  /\ attempt[c].hub = "stored"
  /\ rows' = [rows EXCEPT ![attempt[c].user] = @ + 1]
  /\ HubGoto(c, "done")
  /\ UNCHANGED <<plan, restarts, stored>>

\* 30 seconds without the event: because it cannot come any more, or is late.
ConnectTimeout(c) ==
  /\ attempt[c].client = "waiting"
  /\ Fault("timeout") \/ \A d \in Attempts :
       attempt[d].user = attempt[c].user => attempt[d].hub \in {"none", "done", "failed", "lost"}
  /\ attempt' = [attempt EXCEPT ![c].client = "failed"]
  /\ UNCHANGED <<plan, restarts, rows, stored>>

-----------------------------------------------------------------------------
\* What a restart of the hub loses of this: the calls under way.
CreationsLost ==
  /\ attempt' = [c \in Attempts |->
       IF attempt[c].hub \in {"asked", "queued", "proposed", "signed", "stored"}
       THEN [attempt[c] EXCEPT !.hub = "lost"] ELSE attempt[c]]
  /\ UNCHANGED <<rows, stored>>

CreationStep(c) ==
  \/ Create(c) \/ RunSetup(c) \/ SetupResponder(c) \/ SetupInitiator(c)
  \/ MakeAvailable(c) \/ ConnectTimeout(c)

HubChannelsNext ==
  \E c \in Attempts :
    \/ \E u \in Users : Connect(c, u)
    \/ CreationStep(c) \/ SetupTimeout(c)

\* Handlers run on and timers fire.
HubChannelsFairness == \A c \in Attempts : WF_hubChannelVars(CreationStep(c))

-----------------------------------------------------------------------------
HubChannelsTypeOK ==
  /\ plan \in Plans /\ restarts \in 0..plan.restarts
  /\ rows \in [Users -> Nat]
  /\ stored \in [Users -> [hub : BOOLEAN, user : BOOLEAN]]
  /\ attempt \in [Attempts ->
       [user : Users \cup {None}, client : {"idle", "waiting", "connected", "failed"},
        hub : {"none", "asked", "queued", "proposed", "signed", "stored", "done",
               "failed", "lost"}]]

(***************************************************************************)
(* One channel for every user: however many calls create it, the table never *)
(* has two rows for it, and a row stands for a channel that both parties have *)
(* in store.                                                                *)
(***************************************************************************)
OneChannel ==
  \A u \in Users :
    /\ rows[u] <= 1
    /\ rows[u] = 1 => stored[u].hub /\ stored[u].user

(***************************************************************************)
(* Nobody is shut out: users whose channel the hub has in store, but not in   *)
(* its table, so that it neither finds it nor creates it again, get it there  *)
(* in the end, unless the hub restarts in between.                          *)
(***************************************************************************)
ShutOut(u) == stored[u].hub /\ ~HasRow(u)

NobodyShutOut ==
  (\E u \in Users : ShutOut(u)) ~> (restarts > 0 \/ \A u \in Users : ~ShutOut(u))
=============================================================================
