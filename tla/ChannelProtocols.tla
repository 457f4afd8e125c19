-------------------------- MODULE ChannelProtocols --------------------------
(***************************************************************************)
(* Two cf-core nodes running the two-party channel protocols of             *)
(* modules/cf-core/src/protocol over the messaging service, each with its   *)
(* own store, and the locking service that serialises the calls.            *)
(*                                                                         *)
(* A run is one execution of a protocol, named by its processID.  Its       *)
(* initiating half lives in ini[r], its responding half in rsp[r].  Both    *)
(* halves compute the channel they will persist (`post`) from the store as  *)
(* they find it when they start, and write the WHOLE channel when they are  *)
(* done: whatever was persisted in between is overwritten.  Installing and  *)
(* uninstalling write the signed commitment first, in a step of its own: a  *)
(* node can restart with the one written and not the other.                 *)
(*                                                                         *)
(* Messages are a set: they may overtake one another, because the handlers  *)
(* of two messages interleave at their first await.                         *)
(***************************************************************************)
EXTENDS StateChannel, FiniteSets

CONSTANTS
  MaxRuns,      \* bound: how many runs are started
  Terms,        \* deposits a proposal can ask for: records [own, other]
  Started,      \* protocols the applications on top of the nodes call
  Opening,      \* the channel both parties have persisted to begin with
  SharedLocks,  \* TRUE iff the nodes were given a locking service
  Faults        \* subset of {"loss", "late", "lapse", "crash"}, see below

(***************************************************************************)
(* What may go wrong, besides the interleavings:                            *)
(*   loss   a message is lost (NATS delivers at most once)                  *)
(*   late   a message or a handler is slower than the 60 s that             *)
(*          IO_SEND_AND_WAIT waits, so that the sender has given up when    *)
(*          it takes effect                                                 *)
(*   lapse  a run outlives the lease of its locks                           *)
(*   crash  a node restarts: its store survives, its runs do not, nor does  *)
(*          a message that it had yet to send after it persisted            *)
(***************************************************************************)
AllProtocols ==
  {"propose", "install", "uninstall", "takeAction", "update", "reject"}

ASSUME ConstantsType ==
  /\ MaxRuns \in Nat
  /\ Terms \subseteq [own : Nat, other : Nat]
  /\ Started \subseteq AllProtocols
  /\ Opening \in Channel
  /\ SharedLocks \in BOOLEAN
  /\ Faults \subseteq {"loss", "late", "lapse", "crash"}

\* Apps and proposals are kept in Maps, under sequence numbers that were counted
\* when they were given out.
ASSUME OpeningNumbered ==
  /\ \A i, j \in DOMAIN Opening.apps : Opening.apps[i].id = Opening.apps[j].id => i = j
  /\ \A id \in AppIds(Opening) : id <= Opening.np
  /\ \A q \in Opening.props :
       /\ q.id <= Opening.np
       /\ ~HasApp(Opening, q.id)
       /\ \A t \in Opening.props : t.id = q.id => t = q
  /\ Opening.fb.active = AppIds(Opening)

Runs == 1..MaxRuns

VARIABLES
  store,  \* store[p]: the channel p has persisted
  past,   \* every free balance either party has persisted (history)
  held,   \* held[p]: every commitment p ever had both signatures on (history)
  ini,    \* initiating half of each run
  rsp,    \* responding half of each run
  net,    \* messages sent and not yet handled
  locks   \* leases of the locking service: records [name, run]

vars == <<store, past, held, ini, rsp, net, locks>>

-----------------------------------------------------------------------------
(* Commitments.  A commitment record stands for what is hashed and signed;  *)
(* a signature is the record itself, so that checking a signature against   *)
(* the commitment computed locally is testing for membership.               *)

SetFreeBalance(c) == [kind |-> "freeBalance", state |-> c.fb]

SetAppState(a) == [kind |-> "app", id |-> a.id, ver |-> a.ver, st |-> a.st]

\* constructConditionalTransactionData: for the app with the greatest
\* sequence number, with the limit its interpreter is allowed to pay.
Conditional(c) ==
  LET a == MostRecentlyInstalled(c)
  IN  [kind |-> "conditional", id |-> a.id, pot |-> Pot(a)]

-----------------------------------------------------------------------------
(* The parameters of a run, its locks, its messages.                        *)

NoOp == [proto |-> "none"]

ChannelLock == <<"multisig">>
AppLock(id) == <<"app", id>>

\* Mutant of LockNames: what changes one app takes the lock of that app only.
LockNamesAppOnly(op) ==
  CASE op.proto \in {"propose", "install"}              -> {ChannelLock}
    [] op.proto \in {"uninstall", "takeAction", "update"} -> {AppLock(op.id)}
    [] OTHER                                            -> {}

\* getRequiredLockNames of the controllers.  Rejecting runs outside the queue
\* although the controller names a lock, see RejectInitiator.
LockNames(op) ==
  CASE op.proto \in {"propose", "install"}      -> {ChannelLock}
    [] op.proto \in {"uninstall", "takeAction"} -> {ChannelLock, AppLock(op.id)}
    [] op.proto = "update"                      -> {AppLock(op.id)}
    [] OTHER                                    -> {}

Message(r, n, to, op, sigs) ==
  [run |-> r, n |-> n, to |-> to, op |-> op, sigs |-> sigs]

Request(r, p, op, sigs) == Message(r, 1, Other(p), op, sigs)

\* Every message after the first carries UNASSIGNED_SEQ_NO and no parameters.
Reply(r, n, to, sigs) == Message(r, n, to, NoOp, sigs)

\* `Blank` stands where a half has no channel to persist.
Blank == [np |-> 0, props |-> {}, apps |-> <<>>,
          fb |-> [ver |-> 0, bal |-> [p \in Parties |-> 0], active |-> {}]]

NoHalf(p, pc) == [by |-> p, pc |-> pc, op |-> NoOp, post |-> Blank]
IdleIni == NoHalf(Alice, "idle")
IdleRsp == [pc |-> "idle", op |-> NoOp, post |-> Blank]
DoneRsp == [pc |-> "done", op |-> NoOp, post |-> Blank]

Responder(r) == Other(ini[r].by)

Active(r) == ini[r].pc \in {"persist", "wait2", "written", "wait4"}

\* No message of run r is on its way and no handler is about to send one.
Quiet(r) == /\ \A m \in net : m.run # r
            /\ rsp[r].pc \notin {"verified", "written"}

\* Mutant of Outwaited: the timer is shorter than an answer can take.
OutwaitedAtOnce(r) == r \in Runs

\* Whoever waits for an answer of run r has waited longer than any can take.
Outwaited(r) == "late" \in Faults \/ Quiet(r)

-----------------------------------------------------------------------------
(* Starting a run and leaving it.                                           *)

\* The node's own p-queue of each lock name is free.
QueuesFree(p, op) ==
  \A s \in Runs : Active(s) /\ ini[s].by = p
                    => LockNames(op) \cap LockNames(ini[s].op) = {}

LeasesFree(op) ==
  SharedLocks => \A k \in locks : k.name \notin LockNames(op)

\* executeMethod: the queues and then the leases of all the lock names, then
\* the implementation, which reads the store and starts the protocol.
Start(r, p, op, pc, post) ==
  /\ op.proto \in Started
  /\ ini[r].pc = "idle"
  /\ \A s \in 1..(r - 1) : ini[s].pc # "idle"
  /\ QueuesFree(p, op)
  /\ LeasesFree(op)
  /\ ini' = [ini EXCEPT ![r] = [by |-> p, pc |-> pc, op |-> op, post |-> post]]
  /\ locks' = IF SharedLocks
                THEN locks \cup {[name |-> n, run |-> r] : n \in LockNames(op)}
                ELSE locks

\* PERSIST_STATE_CHANNEL: the whole channel is saved.
Persist(p, c) ==
  /\ store' = [store EXCEPT ![p] = c]
  /\ past' = past \cup {c.fb}

\* The call returns or throws; the leases it still has are released.
Leave(r, how) ==
  /\ ini' = [ini EXCEPT ![r] = NoHalf(ini[r].by, how)]
  /\ locks' = {k \in locks : k.run # r}

-----------------------------------------------------------------------------
(* Two-message protocols: request, reply.  `Signed` is the commitment both  *)
(* sides sign, computed from the channel the run will persist.              *)

Signed(op, post) ==
  CASE op.proto = "propose" ->
         [kind |-> "app", id |-> post.np, ver |-> 0, st |-> op.own]
    [] op.proto = "uninstall" -> SetFreeBalance(post)
    [] OTHER -> SetAppState(GetApp(post, op.id))

SendRequest(r, p, op, post) ==
  net' = net \cup {Request(r, p, op, {Signed(op, post)})}

\* Mutant of Respond: the reply leaves before the channel is persisted.
RespondReplyingFirst(m, possible, post) ==
  LET valid == possible /\ (m.op.proto # "reject" => Signed(m.op, post) \in m.sigs)
  IN  /\ net' = (net \ {m}) \cup
                   IF valid /\ m.op.proto # "reject"
                     THEN {Reply(m.run, 2, Other(m.to), {Signed(m.op, post)})}
                     ELSE {}
      /\ rsp' = IF valid
                  THEN [rsp EXCEPT ![m.run] =
                          [pc |-> "verified", op |-> m.op, post |-> post]]
                  ELSE rsp
      /\ UNCHANGED <<store, past, held, ini, locks>>

\* handleReceivedProtocolMessage starts the responding half at once, under no
\* lock.  When the channel does not allow the transition or the signature is
\* not valid on what it computes, it throws and sends nothing.
Respond(m, possible, post) ==
  /\ net' = net \ {m}
  /\ rsp' = IF possible /\ (m.op.proto # "reject" => Signed(m.op, post) \in m.sigs)
              THEN [rsp EXCEPT ![m.run] =
                      [pc |-> "verified", op |-> m.op, post |-> post]]
              ELSE rsp
  /\ UNCHANGED <<store, past, held, ini, locks>>

\* The app that the event names which tells the responder's application of the
\* call: getOutgoingEventDataFromProtocol takes it from the channel persisted
\* where the parameters do not hold it.
EventApp(op, post) ==
  CASE op.proto = "propose" -> MostRecentlyProposed(post).id
    [] op.proto = "install" -> MostRecentlyInstalled(post).id
    [] OTHER -> op.id

\* The initiating half of run r has both signatures on these commitments.
InitiatorHolds(r, cs) == held' = [held EXCEPT ![ini[r].by] = @ \cup cs]

ResponderHolds(r, cs) == held' = [held EXCEPT ![Responder(r)] = @ \cup cs]

\* Of the two-message protocols only uninstall has a WRITE_COMMITMENT, which
\* comes before the channel is persisted; the signatures on an app state are
\* held from when the state is.
UninstallWrite(r) ==
  /\ rsp[r].pc = "verified" /\ rsp[r].op.proto = "uninstall"
  /\ ResponderHolds(r, {Signed(rsp[r].op, rsp[r].post)})
  /\ rsp' = [rsp EXCEPT ![r].pc = "written"]
  /\ UNCHANGED <<store, past, ini, net, locks>>

\* The responder persists, then replies.  An abandoned reject message only
\* makes it persist.
PersistAndReply(r) ==
  LET op == rsp[r].op
      post == rsp[r].post
  IN  /\ op.proto # "install"
      /\ rsp[r].pc = IF op.proto = "uninstall" THEN "written" ELSE "verified"
      /\ Persist(Responder(r), post)
      /\ IF op.proto = "reject"
           THEN UNCHANGED <<held, net>>
           ELSE /\ ResponderHolds(r, {Signed(op, post)})
                /\ net' = net \cup {Reply(r, 2, ini[r].by, {Signed(op, post)})}
      /\ rsp' = [rsp EXCEPT ![r] = DoneRsp]
      /\ UNCHANGED <<ini, locks>>

\* The initiator gets the reply to its request and checks the signature.  One
\* that proposed has persisted already.
Finish(r, proto) ==
  /\ ini[r].pc = "wait2"
  /\ ini[r].op.proto = proto
  /\ \E m \in net :
       /\ m.run = r /\ m.n = 2
       /\ net' = net \ {m}
       /\ IF Signed(ini[r].op, ini[r].post) \in m.sigs
            THEN /\ IF proto = "propose" THEN UNCHANGED <<store, past>>
                                         ELSE Persist(ini[r].by, ini[r].post)
                 /\ InitiatorHolds(r, {Signed(ini[r].op, ini[r].post)})
                 /\ Leave(r, "returned")
            ELSE /\ Leave(r, "threw")
                 /\ UNCHANGED <<store, past, held>>
  /\ UNCHANGED rsp

-----------------------------------------------------------------------------
(* Propose.  The initiator persists the proposal, and with it the next      *)
(* sequence number, BEFORE it sends anything.  The funds check of           *)
(* beforeExecution precedes the lock; it guards nothing read under it.      *)

ProposeInitiator(r, p) ==
  \E d \in Defs, t \in Terms :
    LET op == [proto |-> "propose", def |-> d, own |-> t.own, other |-> t.other]
        q  == NextProposal(store[p], d, p, t.own, t.other)
    IN  /\ Start(r, p, op, "persist", AddProposal(store[p], q))
        /\ UNCHANGED <<store, past, held, rsp, net>>

ProposePersist(r) ==
  /\ ini[r].pc = "persist"
  /\ ini[r].op.proto = "propose"
  /\ Persist(ini[r].by, ini[r].post)
  /\ ini' = [ini EXCEPT ![r].pc = "wait2"]
  /\ SendRequest(r, ini[r].by, ini[r].op, ini[r].post)
  /\ UNCHANGED <<held, rsp, locks>>

\* The responder names the app by its OWN next sequence number.
ProposeResponder(m) ==
  /\ m.n = 1 /\ m.op.proto = "propose"
  /\ LET c == store[m.to]
         q == NextProposal(c, m.op.def, Other(m.to), m.op.own, m.op.other)
     IN  Respond(m, TRUE, AddProposal(c, q))

ProposeFinish(r) == Finish(r, "propose")

-----------------------------------------------------------------------------
(* Uninstall, take action, update: what their controllers let pass to the    *)
(* protocol, and the protocol.                                              *)

\* An installed app, and so never the free balance.
UninstallParams(c) == [proto : {"uninstall"}, id : AppIds(c)]

\* An installed app and an action its contract accepts: what the proposer of
\* the app would get is what there is to move.
TakeActionParams(c) ==
  UNION {[proto : {"takeAction"}, id : {id}, amount : 1..GetApp(c, id).st] :
           id \in AppIds(c)}

\* An installed app and a state of it, whatever its contract makes of it.
UpdateParams(c) ==
  UNION {[proto : {"update"}, id : {id}, st : 0..Pot(GetApp(c, id))] :
           id \in AppIds(c)}

\* Mutant of UninstallInitiator: it persists before it sends, as propose does.
UninstallInitiatorPersisting(r, p) ==
  \E op \in UninstallParams(store[p]) :
    LET post == UninstallApp(store[p], op.id)
    IN  /\ Start(r, p, op, "wait2", post)
        /\ SendRequest(r, p, op, post)
        /\ Persist(p, post)
        /\ UNCHANGED <<held, rsp>>

UninstallInitiator(r, p) ==
  \E op \in UninstallParams(store[p]) :
    LET post == UninstallApp(store[p], op.id)
    IN  /\ Start(r, p, op, "wait2", post)
        /\ SendRequest(r, p, op, post)
        /\ UNCHANGED <<store, past, held, rsp>>

UninstallResponder(m) ==
  /\ m.n = 1 /\ m.op.proto = "uninstall"
  /\ IF HasApp(store[m.to], m.op.id)
       THEN Respond(m, TRUE, UninstallApp(store[m.to], m.op.id))
       ELSE Respond(m, FALSE, Blank)

\* The reply carries the signature that was missing: WRITE_COMMITMENT.
UninstallCountersign(r) ==
  /\ ini[r].pc = "wait2" /\ ini[r].op.proto = "uninstall"
  /\ \E m \in net :
       /\ m.run = r /\ m.n = 2
       /\ net' = net \ {m}
       /\ IF SetFreeBalance(ini[r].post) \in m.sigs
            THEN /\ InitiatorHolds(r, {SetFreeBalance(ini[r].post)})
                 /\ ini' = [ini EXCEPT ![r].pc = "written"]
                 /\ UNCHANGED locks
            ELSE /\ Leave(r, "threw")
                 /\ UNCHANGED held
  /\ UNCHANGED <<store, past, rsp>>

UninstallFinish(r) ==
  /\ ini[r].pc = "written" /\ ini[r].op.proto = "uninstall"
  /\ Persist(ini[r].by, ini[r].post)
  /\ Leave(r, "returned")
  /\ UNCHANGED <<held, rsp, net>>

\* applyAction of the app contract: an action moves `amount` from what the
\* proposer of the app would get to what the other party would get.
ApplyAction(c, id, amount) == SetState(c, id, GetApp(c, id).st - amount)

TakeActionInitiator(r, p) ==
  \E op \in TakeActionParams(store[p]) :
    LET post == ApplyAction(store[p], op.id, op.amount)
    IN  /\ Start(r, p, op, "wait2", post)
        /\ SendRequest(r, p, op, post)
        /\ UNCHANGED <<store, past, held, rsp>>

\* The responder applies the action to its own latest state of the app.
TakeActionResponder(m) ==
  /\ m.n = 1 /\ m.op.proto = "takeAction"
  /\ IF /\ HasApp(store[m.to], m.op.id)
        /\ m.op.amount <= GetApp(store[m.to], m.op.id).st
       THEN Respond(m, TRUE, ApplyAction(store[m.to], m.op.id, m.op.amount))
       ELSE Respond(m, FALSE, Blank)

TakeActionFinish(r) == Finish(r, "takeAction")

UpdateInitiator(r, p) ==
  \E op \in UpdateParams(store[p]) :
    LET post == SetState(store[p], op.id, op.st)
    IN  /\ Start(r, p, op, "wait2", post)
        /\ SendRequest(r, p, op, post)
        /\ UNCHANGED <<store, past, held, rsp>>

\* The states of an app, in this model, are the ways to share its pot.
UpdateResponder(m) ==
  /\ m.n = 1 /\ m.op.proto = "update"
  /\ IF /\ HasApp(store[m.to], m.op.id)
        /\ m.op.st <= Pot(GetApp(store[m.to], m.op.id))
       THEN Respond(m, TRUE, SetState(store[m.to], m.op.id, m.op.st))
       ELSE Respond(m, FALSE, Blank)

UpdateFinish(r) == Finish(r, "update")

-----------------------------------------------------------------------------
(* Install.  Four messages: signature on the conditional transaction; both  *)
(* signatures of the responder; signature on the free balance; ack.         *)

\* The party a proposal was made to installs it.
InstallInitiator(r, p) ==
  \E q \in store[p].props :
    LET op   == [proto |-> "install", q |-> q]
        post == InstallApp(store[p], q)
    IN  /\ q.by = Other(p)
        /\ CanInstallApp(store[p], q)
        /\ Start(r, p, op, "wait2", post)
        /\ net' = net \cup {Request(r, p, op, {Conditional(post)})}
        /\ UNCHANGED <<store, past, held, rsp>>

\* The responder installs the terms the message carries; it does not look up
\* its own proposal.  It has signed the new free balance before the initiator
\* has, and waits for the initiator's signature.
InstallResponder(m) ==
  LET me   == m.to
      post == InstallApp(store[me], m.op.q)
  IN  /\ m.n = 1 /\ m.op.proto = "install"
      /\ IF CanInstallApp(store[me], m.op.q) /\ Conditional(post) \in m.sigs
           THEN /\ rsp' = [rsp EXCEPT ![m.run] =
                             [pc |-> "wait3", op |-> m.op, post |-> post]]
                /\ held' = [held EXCEPT ![me] = @ \cup {Conditional(post)}]
                /\ net' = (net \ {m}) \cup
                            {Reply(m.run, 2, Other(me),
                                   {Conditional(post), SetFreeBalance(post)})}
           ELSE /\ net' = net \ {m}
                /\ UNCHANGED <<rsp, held>>
      /\ UNCHANGED <<store, past, ini, locks>>

\* The initiator now holds the new free balance with both signatures.  (Its
\* two WRITE_COMMITMENTs are one step: the first, of the conditional
\* transaction, gives it nothing without the second.)
InstallCountersign(r) ==
  LET post == ini[r].post
      both == {Conditional(post), SetFreeBalance(post)}
  IN  /\ ini[r].pc = "wait2" /\ ini[r].op.proto = "install"
      /\ \E m \in net :
           /\ m.run = r /\ m.n = 2
           /\ net' = net \ {m}
           /\ IF both \subseteq m.sigs
                THEN /\ InitiatorHolds(r, both)
                     /\ ini' = [ini EXCEPT ![r].pc = "written"]
                     /\ UNCHANGED locks
                ELSE /\ InitiatorHolds(r, {Conditional(post)} \cap m.sigs)
                     /\ Leave(r, "threw")
      /\ UNCHANGED <<store, past, rsp>>

\* It persists, and only then gives the responder its signature.
InstallPersist(r) ==
  /\ ini[r].pc = "written" /\ ini[r].op.proto = "install"
  /\ Persist(ini[r].by, ini[r].post)
  /\ ini' = [ini EXCEPT ![r].pc = "wait4"]
  /\ net' = net \cup {Reply(r, 3, Responder(r), {SetFreeBalance(ini[r].post)})}
  /\ UNCHANGED <<held, rsp, locks>>

InstallWrite(r) ==
  /\ rsp[r].pc = "wait3"
  /\ \E m \in net :
       /\ m.run = r /\ m.n = 3
       /\ net' = net \ {m}
       /\ IF SetFreeBalance(rsp[r].post) \in m.sigs
            THEN /\ ResponderHolds(r, {SetFreeBalance(rsp[r].post)})
                 /\ rsp' = [rsp EXCEPT ![r].pc = "written"]
            ELSE /\ rsp' = [rsp EXCEPT ![r] = DoneRsp]
                 /\ UNCHANGED held
  /\ UNCHANGED <<store, past, ini, locks>>

\* The responder persists, acknowledges, and drops the proposal of the app its
\* event names.
InstallComplete(r) ==
  LET post == rsp[r].post
  IN  /\ rsp[r].pc = "written" /\ rsp[r].op.proto = "install"
      /\ Persist(Responder(r), RemoveProposal(post, EventApp(rsp[r].op, post)))
      /\ net' = net \cup {Reply(r, 4, ini[r].by, {})}
      /\ rsp' = [rsp EXCEPT ![r] = DoneRsp]
      /\ UNCHANGED <<held, ini, locks>>

\* After the protocol the controller reads the store again, removes the
\* proposal and saves.
InstallFinish(r) ==
  LET p == ini[r].by
  IN  /\ ini[r].pc = "wait4"
      /\ \E m \in net : /\ m.run = r /\ m.n = 4
                        /\ net' = net \ {m}
      /\ Persist(p, RemoveProposal(store[p], ini[r].op.q.id))
      /\ Leave(r, "returned")
      /\ UNCHANGED <<held, rsp>>

-----------------------------------------------------------------------------
(* Reject.  The decorator registers executeMethodImplementation itself, so  *)
(* the call never goes through the queue: no lock.                          *)

RejectInitiator(r, p) ==
  \E q \in store[p].props :
    /\ q.by = Other(p)
    /\ Start(r, p, [proto |-> "reject", id |-> q.id], "persist",
             RemoveProposal(store[p], q.id))
    /\ UNCHANGED <<store, past, held, rsp, net>>

RejectPersist(r) ==
  LET p == ini[r].by
  IN  /\ ini[r].pc = "persist" /\ ini[r].op.proto = "reject"
      /\ Persist(p, ini[r].post)
      /\ net' = net \cup {Request(r, p, ini[r].op, {})}
      /\ Leave(r, "returned")
      /\ UNCHANGED <<held, rsp>>

\* handleRejectProposalMessage, also outside the queue.
RejectReceived(m) ==
  /\ m.n = 1 /\ m.op.proto = "reject"
  /\ LET c == store[m.to]
     IN  Respond(m, HasProposal(c, m.op.id) \/ HasApp(c, m.op.id),
                 RemoveProposal(c, m.op.id))

-----------------------------------------------------------------------------
(* Time, failures and restarts.                                             *)

\* Mutant of TimeoutInitiator: the wait for the last message has no timer.
TimeoutFirstWaitOnly(r) ==
  /\ ini[r].pc = "wait2"
  /\ Outwaited(r)
  /\ Leave(r, "threw")
  /\ UNCHANGED <<store, past, held, rsp, net>>

\* Promise.race of IO_SEND_AND_WAIT is won by the timer; the call throws.
TimeoutInitiator(r) ==
  /\ ini[r].pc \in {"wait2", "wait4"}
  /\ Outwaited(r)
  /\ Leave(r, "threw")
  /\ UNCHANGED <<store, past, held, rsp, net>>

TimeoutResponder(r) ==
  /\ rsp[r].pc = "wait3"
  /\ "late" \in Faults \/ (Quiet(r) /\ ini[r].pc \notin {"wait2", "written"})
  /\ rsp' = [rsp EXCEPT ![r] = DoneRsp]
  /\ UNCHANGED <<store, past, held, ini, net, locks>>

\* A message after the first that nobody waits for any more has no deferral
\* to resolve and no seq to start a protocol with: it is ignored.
IgnoreUnexpected(m) ==
  /\ \/ m.n = 2 /\ ini[m.run].pc # "wait2"
     \/ m.n = 3 /\ rsp[m.run].pc # "wait3"
     \/ m.n = 4 /\ ini[m.run].pc # "wait4"
  /\ net' = net \ {m}
  /\ UNCHANGED <<store, past, held, ini, rsp, locks>>

Lose(m) ==
  /\ Faults \cap {"loss", "crash"} # {}
  /\ net' = net \ {m}
  /\ UNCHANGED <<store, past, held, ini, rsp, locks>>

\* Mutant of LeaseExpires: a lease can be shorter than the call it protects.
LeaseExpiresEarly(k) ==
  /\ locks' = locks \ {k}
  /\ UNCHANGED <<store, past, held, ini, rsp, net>>

\* A lease ends with its run still going, or the run was lost in a restart.
LeaseExpires(k) ==
  /\ \/ "lapse" \in Faults /\ Active(k.run)
     \/ ~Active(k.run) /\ Outwaited(k.run)
  /\ locks' = locks \ {k}
  /\ UNCHANGED <<store, past, held, ini, rsp, net>>

\* A half that had written a commitment and not yet the channel is "torn": its
\* operation and channel are kept for the properties to name, see Torn.
Crash(p) ==
  LET mine(r) == Active(r) /\ ini[r].by = p
      its(r)  == Responder(r) = p /\ rsp[r].pc \in {"verified", "wait3", "written"}
  IN  /\ "crash" \in Faults
      /\ \E r \in Runs : mine(r) \/ its(r)
      /\ ini' = [r \in Runs |->
                   IF ~mine(r) THEN ini[r]
                   ELSE IF ini[r].pc = "written" THEN [ini[r] EXCEPT !.pc = "torn"]
                   ELSE NoHalf(p, "crashed")]
      /\ rsp' = [r \in Runs |->
                   IF ~its(r) THEN rsp[r]
                   ELSE IF rsp[r].pc = "written" THEN [rsp[r] EXCEPT !.pc = "torn"]
                   ELSE DoneRsp]
      /\ UNCHANGED <<store, past, held, net, locks>>

-----------------------------------------------------------------------------
(* Both nodes start from the same channel, with every earlier call over.    *)

Init ==
  /\ store = [p \in Parties |-> Opening]
  /\ past = {Opening.fb}
  /\ held = [p \in Parties |-> {}]
  /\ ini = [r \in Runs |-> IdleIni]
  /\ rsp = [r \in Runs |-> IdleRsp]
  /\ net = {}
  /\ locks = {}

\* Calls the applications make: nothing forces them to.
Call(r, p) ==
  \/ ProposeInitiator(r, p)
  \/ InstallInitiator(r, p)
  \/ UninstallInitiator(r, p)
  \/ TakeActionInitiator(r, p)
  \/ UpdateInitiator(r, p)
  \/ RejectInitiator(r, p)

\* What the nodes then do for run r, timers included.
InitiatorStep(r) ==
  \/ ProposePersist(r)
  \/ ProposeFinish(r)
  \/ InstallCountersign(r)
  \/ InstallPersist(r)
  \/ InstallFinish(r)
  \/ UninstallCountersign(r)
  \/ UninstallFinish(r)
  \/ TakeActionFinish(r)
  \/ UpdateFinish(r)
  \/ RejectPersist(r)
  \/ TimeoutInitiator(r)

ResponderStep(r) ==
  \/ UninstallWrite(r)
  \/ PersistAndReply(r)
  \/ InstallWrite(r)
  \/ InstallComplete(r)
  \/ TimeoutResponder(r)

Receive(m) ==
  \/ ProposeResponder(m)
  \/ InstallResponder(m)
  \/ UninstallResponder(m)
  \/ TakeActionResponder(m)
  \/ UpdateResponder(m)
  \/ RejectReceived(m)
  \/ IgnoreUnexpected(m)

Next ==
  \/ \E r \in Runs : \/ \E p \in Parties : Call(r, p)
                     \/ InitiatorStep(r)
                     \/ ResponderStep(r)
  \/ \E m \in net : Receive(m) \/ Lose(m)
  \/ \E k \in locks : LeaseExpires(k)
  \/ \E p \in Parties : Crash(p)

Spec == Init /\ [][Next]_vars

(***************************************************************************)
(* The event loops are never idle while a handler or a timer is ready; the  *)
(* locking service ends a lease nobody gives back.  Nothing is assumed of   *)
(* the applications, no message needs to arrive, and no call is rescued by  *)
(* a lease that ends while it is going on.                                  *)
(***************************************************************************)
Fairness ==
  /\ WF_vars(\E r \in Runs : InitiatorStep(r) \/ ResponderStep(r))
  /\ WF_vars(\E m \in net : Receive(m))
  /\ WF_vars(\E k \in locks : ~Active(k.run) /\ LeaseExpires(k))

FairSpec == Spec /\ Fairness

-----------------------------------------------------------------------------
(* Types.                                                                   *)

Op == {NoOp}
  \cup [proto : {"propose"}, def : Defs, own : Nat, other : Nat]
  \cup [proto : {"install"}, q : Proposal]
  \cup [proto : {"uninstall", "reject"}, id : AppId]
  \cup [proto : {"takeAction"}, id : AppId, amount : Nat]
  \cup [proto : {"update"}, id : AppId, st : Nat]

Commitment ==
  [kind : {"freeBalance"}, state : FreeBalance]
  \cup [kind : {"app"}, id : AppId, ver : Nat, st : Nat]
  \cup [kind : {"conditional"}, id : AppId, pot : Nat]

Messages == [run : Runs, n : 1..4, to : Parties, op : Op,
             sigs : SUBSET Commitment]

IniPc == {"idle", "persist", "wait2", "written", "wait4",
          "returned", "threw", "crashed", "torn"}
RspPc == {"idle", "verified", "wait3", "written", "done", "torn"}

\* Every variable stays within its type: in particular no free balance and no
\* app ever pays a negative amount (FreeBalanceClass.increment would throw).
TypeOK ==
  /\ store \in [Parties -> Channel]
  /\ past \subseteq FreeBalance
  /\ held \in [Parties -> SUBSET Commitment]
  /\ ini \in [Runs -> [by : Parties, pc : IniPc, op : Op, post : Channel]]
  /\ rsp \in [Runs -> [pc : RspPc, op : Op, post : Channel]]
  /\ net \subseteq Messages
  /\ locks \subseteq [name : {ChannelLock} \cup ({"app"} \X AppId), run : Runs]

-----------------------------------------------------------------------------
(* Safety.                                                                  *)

\* Every commitment either party ever had both signatures on.
Agreed == UNION {held[p] : p \in Parties}

\* The chain would accept either of two such commitments as the latest.
Contradict(c, d) ==
  /\ c # d
  /\ c.kind = d.kind
  /\ \/ c.kind = "freeBalance" /\ c.state.ver = d.state.ver
     \/ c.kind = "app" /\ c.id = d.id /\ c.ver = d.ver

\* Free balances whose commitment a party wrote down just before it restarted,
\* and that neither party has persisted.  Nothing reads them again: the next
\* run is computed from the channel before them.
Torn ==
  {SetFreeBalance(half.post) :
     half \in {h \in {ini[r] : r \in Runs} \cup {rsp[r] : r \in Runs} :
                h.pc = "torn" /\ h.post.fb \notin past}}

\* No two doubly signed states of one app, or of the free balance, have the
\* same version: ChallengeRegistry orders states by version alone, so a party
\* holding two could choose which one counts.  The exception is what the code
\* does not survive, a restart between WRITE_COMMITMENT and
\* PERSIST_STATE_CHANNEL (uninstall.ts:127, install.ts:147): the commitment it
\* leaves behind may contradict a later one, and no other ever does.
NoFork ==
  \A c, d \in (Agreed \cup {SetFreeBalance(Opening)}) \ Torn : ~Contradict(c, d)

\* A party never persists a free balance it has no double signature for, in
\* whatever order the two halves of the protocols persist and fail.
Enforceable ==
  \A p \in Parties :
    SetFreeBalance(store[p]) \in held[p] \cup {SetFreeBalance(Opening)}

\* Installing and uninstalling neither create nor destroy money, in either
\* party's books: the pots of the installed apps hold what left the free
\* balance, and the free balance names exactly those apps as active.
BooksBalance ==
  \A p \in Parties :
    /\ Worth(store[p]) = Worth(Opening)
    /\ store[p].fb.active = AppIds(store[p])

\* An answer to a call that waits for it carries the signature on what the call
\* is about to persist, the event of a proposal, an action or an update names
\* the app that was signed for, and as long as every call has returned, whatever was
\* lost or restarted beside it, the two nodes agree on the whole channel
\* (counter, proposals, apps and their order, free balance) whenever none is
\* in progress.
QuiescentAgreement ==
  /\ \A m \in net :
       m.n = 2 /\ ini[m.run].pc = "wait2" /\ ini[m.run].op.proto # "install"
         => Signed(ini[m.run].op, ini[m.run].post) \in m.sigs
  /\ \A r \in Runs :
       rsp[r].pc = "verified" /\ rsp[r].op.proto \notin {"uninstall", "reject"}
         => EventApp(rsp[r].op, rsp[r].post) = Signed(rsp[r].op, rsp[r].post).id
  /\ (\A r \in Runs : ini[r].pc \in {"idle", "returned"})
       => store[Alice] = store[Bob]

\* No stale write: under the lock of the channel the protocols never persist
\* an older counter, free balance or app state over a newer one.
StoresGoForward ==
  [][\A p \in Parties : NeverRegresses(store[p], store'[p])]_vars

\* numProposedApps only grows, as the name monotonicNumProposedApps says.
NumProposedGrows ==
  [][\A p \in Parties : store[p].np <= store'[p].np]_vars

\* Every app installed since the opening has a doubly signed conditional
\* transaction of its own, limited to its pot, the only way to get its money
\* out on chain: install.ts says that its initiator signs the one "for the
\* as-yet un-funded newly proposed AppInstance".
AppsHaveConditional ==
  \A p \in Parties : \A i \in DOMAIN store[p].apps :
    LET a == store[p].apps[i]
    IN  HasApp(Opening, a.id)
          \/ [kind |-> "conditional", id |-> a.id, pot |-> Pot(a)] \in held[p]

-----------------------------------------------------------------------------
(* Liveness and refinement.                                                 *)

\* Every call returns or throws and the locks it took become free, even if
\* its node restarts or its messages are lost.
LocksComeFree ==
  \A r \in Runs : (\E k \in locks : k.run = r) ~> (\A k \in locks : k.run # r)

Ledger ==
  INSTANCE SharedLedger WITH
    Members <- Parties,
    States  <- FreeBalance,
    First   <- Opening.fb,
    agreed  <- past,
    view    <- [p \in Parties |-> store[p].fb]

\* The free balance that the parties persist has one history, shared by both,
\* whatever is lost and wherever a node restarts: the protocols implement
\* SharedLedger.
OneHistory == Ledger!LedgerSpec

=============================================================================
