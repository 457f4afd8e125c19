---------------------------- MODULE ProcessQueue ----------------------------
(***************************************************************************)
(* How a call of a cf-core node gets the locks it names: one p-queue of     *)
(* concurrency 1 per lock name in each process (process-queue.ts), a task   *)
(* put in all the queues it names and run once it is at the head of all of  *)
(* them (queued-execution.ts), and the leases of the locking service that   *)
(* all processes share: LockService in the node process, the acquireLock    *)
(* and releaseLock requests in a client.                                    *)
(*                                                                         *)
(* The locks of one task are asked for side by side, so that a task can     *)
(* hold one lease while it waits for another.                               *)
(***************************************************************************)
EXTENDS Naturals, Sequences

CONSTANTS
  Processes,       \* processes with a cf-core node
  Remote,          \* those that reach the locking service by requests
  Tasks,           \* the calls, each made at most once
  Names,           \* lock names
  ProcOf,          \* ProcOf[t]: the process that calls t
  NamesOf,         \* NamesOf[t]: what getRequiredLockNames returns for t
  LockingService,  \* FALSE: only the queues of the process
  Faults,          \* subset of {"expire", "refuse", "unrelease", "fail"}
  NoTask

(***************************************************************************)
(*   expire     a lease ends after 90 s, whether its task is waiting for    *)
(*              another lock, running or done                               *)
(*   refuse     redlock runs out of retries, or the request of a remote     *)
(*              process times out                                           *)
(*   unrelease  the release request of a remote process is lost             *)
(*   fail       a task throws                                               *)
(***************************************************************************)
ASSUME QueueConstants ==
  /\ Remote \subseteq Processes
  /\ ProcOf \in [Tasks -> Processes]
  /\ NamesOf \in [Tasks -> SUBSET Names]
  /\ LockingService \in BOOLEAN
  /\ Faults \subseteq {"expire", "refuse", "unrelease", "fail"}
  /\ NoTask \notin Tasks

VARIABLES
  queue,   \* queue[p][k]: tasks waiting in p's queue of k
  entry,   \* entry[t][k]: how far the promise q.add returned for t has got
  lease,   \* lease[k]: the task in whose name the service has locked k
  task,    \* task[t]: the memoised promise of the task itself
  call,    \* call[t]: the promise addToManyQueues returned
  called   \* the tasks in the order they were added (history)

vars == <<queue, entry, lease, task, call, called>>

\* queued: behind others; acquiring: asking for the lease; held: its deferred
\* is resolved and it waits for the task; hung: a promise nobody settles.
EntryStates == {"none", "queued", "acquiring", "held", "settled", "rejected", "hung"}
TaskStates == {"idle", "running", "done", "failed"}
CallStates == {"none", "pending", "returned", "threw"}

Over(t) == task[t] \in {"done", "failed"}

\* Mutant of SlotTaken: the slot is free again once the lease is there.
SlotTakenBriefly(p, k) ==
  \E t \in Tasks : ProcOf[t] = p /\ entry[t][k] \in {"acquiring", "hung"}

\* The one slot of a p-queue of concurrency 1.
SlotTaken(p, k) ==
  \E t \in Tasks : ProcOf[t] = p /\ entry[t][k] \in {"acquiring", "held", "hung"}

Share(t, u) == NamesOf[t] \cap NamesOf[u] # {}

-----------------------------------------------------------------------------
Init ==
  /\ queue = [p \in Processes |-> [k \in Names |-> <<>>]]
  /\ entry = [t \in Tasks |-> [k \in Names |-> "none"]]
  /\ lease = [k \in Names |-> NoTask]
  /\ task = [t \in Tasks |-> "idle"]
  /\ call = [t \in Tasks |-> "none"]
  /\ called = <<>>

\* ProcessQueue.addTask and addToManyQueues.  With no names the task runs at
\* once, outside every queue.
AddTask(t) ==
  /\ call[t] = "none"
  /\ call' = [call EXCEPT ![t] = "pending"]
  /\ called' = Append(called, t)
  /\ queue' = [p \in Processes |-> [k \in Names |->
                 IF p = ProcOf[t] /\ k \in NamesOf[t]
                   THEN Append(queue[p][k], t) ELSE queue[p][k]]]
  /\ entry' = [entry EXCEPT ![t] =
       [k \in Names |-> IF k \in NamesOf[t] THEN "queued" ELSE "none"]]
  /\ task' = IF NamesOf[t] = {} THEN [task EXCEPT ![t] = "running"] ELSE task
  /\ UNCHANGED lease

\* Mutant of Dequeue: the newest task first.
DequeueNewest(p, k) ==
  LET n == Len(queue[p][k])
  IN  /\ n # 0
      /\ ~SlotTaken(p, k)
      /\ queue' = [queue EXCEPT ![p][k] = SubSeq(@, 1, n - 1)]
      /\ entry' = [entry EXCEPT ![queue[p][k][n]][k] =
                     IF LockingService THEN "acquiring" ELSE "held"]
      /\ UNCHANGED <<lease, task, call, called>>

\* A free p-queue starts its oldest task: with a locking service, that asks
\* for the lease first.
Dequeue(p, k) ==
  /\ queue[p][k] # <<>>
  /\ ~SlotTaken(p, k)
  /\ queue' = [queue EXCEPT ![p][k] = Tail(@)]
  /\ entry' = [entry EXCEPT ![Head(queue[p][k])][k] =
                 IF LockingService THEN "acquiring" ELSE "held"]
  /\ UNCHANGED <<lease, task, call, called>>

\* redlock sets the key when it does not exist.
Acquire(t, k) ==
  /\ entry[t][k] = "acquiring"
  /\ lease[k] = NoTask
  /\ lease' = [lease EXCEPT ![k] = t]
  /\ entry' = [entry EXCEPT ![t][k] = "held"]
  /\ UNCHANGED <<queue, task, call, called>>

\* The lease is not granted in time.  A remote process may have stopped
\* waiting for a request that is then granted all the same.
Refuse(t, k) ==
  /\ "refuse" \in Faults
  /\ entry[t][k] = "acquiring"
  /\ entry' = [entry EXCEPT ![t][k] = "rejected"]
  /\ \/ UNCHANGED lease
     \/ /\ ProcOf[t] \in Remote
        /\ lease[k] = NoTask
        /\ lease' = [lease EXCEPT ![k] = t]
  /\ UNCHANGED <<queue, task, call, called>>

\* Mutant of RunTask: the first queue to be ready starts the task.
RunTaskEagerly(t) ==
  /\ NamesOf[t] # {}
  /\ task[t] = "idle"
  /\ \E k \in NamesOf[t] : entry[t][k] = "held"
  /\ task' = [task EXCEPT ![t] = "running"]
  /\ UNCHANGED <<queue, entry, lease, call, called>>

\* waitForEveryQueueToFinish resolves when the last of the deferreds does.
RunTask(t) ==
  /\ NamesOf[t] # {}
  /\ task[t] = "idle"
  /\ \A k \in NamesOf[t] : entry[t][k] = "held"
  /\ task' = [task EXCEPT ![t] = "running"]
  /\ UNCHANGED <<queue, entry, lease, call, called>>

Complete(t) ==
  /\ task[t] = "running"
  /\ \/ task' = [task EXCEPT ![t] = "done"]
     \/ "fail" \in Faults /\ task' = [task EXCEPT ![t] = "failed"]
  /\ UNCHANGED <<queue, entry, lease, call, called>>

\* What becomes of the promise of the add when the lease was still there: the service
\* swallows what the task threw; without a service it comes through.
Settled(t) == IF LockingService \/ task[t] = "done" THEN "settled" ELSE "rejected"

\* Mutant of SettledLate: LockService never resolves once the lease is gone.
SettledNever(t) == IF ProcOf[t] \in Remote THEN "rejected" ELSE "hung"

\* The lease was gone: a remote process gets the error of its release request;
\* LockService resolves only `if (retVal)`, and a task that threw has none.
SettledLate(t) ==
  IF ProcOf[t] \in Remote THEN "rejected"
  ELSE IF task[t] = "done" THEN "settled" ELSE "hung"

\* Mutant of Release: the queued function does not return the promise it
\* makes, so that the queue does not wait for the task.
ReleaseUnawaited(t, k) ==
  /\ entry[t][k] = "held"
  /\ entry' = [entry EXCEPT ![t][k] = "settled"]
  /\ lease' = [lease EXCEPT ![k] = NoTask]
  /\ UNCHANGED <<queue, task, call, called>>

\* The callback of the lock has settled: the lease is given back, and the
\* promise of the add settles.
Release(t, k) ==
  /\ entry[t][k] = "held"
  /\ Over(t)
  /\ IF LockingService /\ lease[k] # t
       THEN /\ entry' = [entry EXCEPT ![t][k] = SettledLate(t)]
            /\ UNCHANGED lease
       ELSE /\ entry' = [entry EXCEPT ![t][k] = Settled(t)]
            /\ lease' = [lease EXCEPT ![k] = NoTask]
  /\ UNCHANGED <<queue, task, call, called>>

\* The release request never reaches the service.
LoseRelease(t, k) ==
  /\ "unrelease" \in Faults /\ LockingService /\ ProcOf[t] \in Remote
  /\ entry[t][k] = "held"
  /\ Over(t)
  /\ entry' = [entry EXCEPT ![t][k] = "rejected"]
  /\ UNCHANGED <<queue, lease, task, call, called>>

Expire(k) ==
  /\ "expire" \in Faults
  /\ lease[k] # NoTask
  /\ lease' = [lease EXCEPT ![k] = NoTask]
  /\ UNCHANGED <<queue, entry, task, call, called>>

\* Promise.all of the adds resolves; the memoised promise is awaited again, so
\* that what the task threw is thrown here.
Return(t) ==
  /\ call[t] = "pending"
  /\ Over(t)
  /\ \A k \in NamesOf[t] : entry[t][k] = "settled"
  /\ call' = [call EXCEPT ![t] = IF task[t] = "done" THEN "returned" ELSE "threw"]
  /\ UNCHANGED <<queue, entry, lease, task, called>>

\* Promise.all rejects with the first add that does.
Throw(t) ==
  /\ call[t] = "pending"
  /\ \E k \in NamesOf[t] : entry[t][k] = "rejected"
  /\ call' = [call EXCEPT ![t] = "threw"]
  /\ UNCHANGED <<queue, entry, lease, task, called>>

Next ==
  \/ \E t \in Tasks :
       \/ AddTask(t) \/ RunTask(t) \/ Complete(t) \/ Return(t) \/ Throw(t)
       \/ \E k \in NamesOf[t] : \/ Acquire(t, k) \/ Refuse(t, k)
                                \/ Release(t, k) \/ LoseRelease(t, k)
  \/ \E p \in Processes, k \in Names : Dequeue(p, k)
  \/ \E k \in Names : Expire(k)

Spec == Init /\ [][Next]_vars

(***************************************************************************)
(* Tasks end (every protocol has timers), the event loop and p-queue go on, *)
(* redlock keeps trying and stops trying, leases end.  Nobody has to call.  *)
(***************************************************************************)
Fairness ==
  /\ \A t \in Tasks : /\ WF_vars(RunTask(t)) /\ WF_vars(Complete(t))
                      /\ WF_vars(Return(t)) /\ WF_vars(Throw(t))
  /\ \A t \in Tasks, k \in Names :
       /\ WF_vars(k \in NamesOf[t] /\ (Acquire(t, k) \/ Refuse(t, k)))
       /\ WF_vars(k \in NamesOf[t] /\ (Release(t, k) \/ LoseRelease(t, k)))
  /\ \A p \in Processes, k \in Names : WF_vars(Dequeue(p, k))
  /\ \A k \in Names : WF_vars(Expire(k))

FairSpec == Spec /\ Fairness

-----------------------------------------------------------------------------
(* Properties.                                                              *)

Elements(s) == {s[i] : i \in DOMAIN s}

Queued(p, k) == Elements(queue[p][k])

VariablesOK ==
  /\ queue \in [Processes -> [Names -> Seq(Tasks)]]
  /\ entry \in [Tasks -> [Names -> EntryStates]]
  /\ lease \in [Names -> Tasks \cup {NoTask}]
  /\ task \in [Tasks -> TaskStates]
  /\ call \in [Tasks -> CallStates]
  /\ called \in Seq(Tasks)

\* Sequences without repetition.
Distinct(s) == \A i, j \in DOMAIN s : s[i] = s[j] => i = j

QueuesOK ==
  \A p \in Processes, k \in Names :
    /\ Queued(p, k) = {t \in Tasks : ProcOf[t] = p /\ entry[t][k] = "queued"}
    /\ Distinct(queue[p][k])

\* Types; and a queue holds, once each, exactly the tasks of its process whose
\* entry is still queued, so that none is lost or started twice.
TypeOK == VariablesOK /\ QueuesOK

Serial ==
  INSTANCE SerialExecution WITH
    running <- {t \in Tasks : task[t] = "running"},
    ended   <- {t \in Tasks : Over(t)}

\* As long as no lease ends early, a task that names a lock never runs while
\* another one that names it does, in whichever process, and runs only once.
SerialExecution == Serial!SerialSpec

\* Within one process that is so whatever becomes of the leases: the slots of
\* its p-queues are enough.
SerialInProcess ==
  \A t, u \in Tasks :
    t # u /\ ProcOf[t] = ProcOf[u] /\ Share(t, u)
      => ~(task[t] = "running" /\ task[u] = "running")

\* A call that throws because of a lock has not executed its task and never
\* will: a caller that tries again does nothing twice.
ThrewMeansNotDone ==
  \A t \in Tasks : call[t] = "threw" => task[t] \in {"idle", "failed"}

\* u was added before t.
Before(u, t) ==
  \E i, j \in DOMAIN called : i < j /\ called[i] = u /\ called[j] = t

\* A task begins only when every task its process was given earlier for one of
\* the same locks is over, or will never run.
InCallOrder ==
  [][\A t, u \in Tasks :
       /\ task[t] = "idle" /\ task'[t] = "running"
       /\ Before(u, t) /\ ProcOf[u] = ProcOf[t] /\ Share(t, u)
       => Over(u) \/ \E k \in NamesOf[u] : entry[u][k] = "rejected"]_vars

\* addToManyQueues "Executes a function call": every call is executed, or it
\* throws; none waits for ever.
CallsSettle ==
  \A t \in Tasks : call[t] = "pending" ~> call[t] \in {"returned", "threw"}

=============================================================================
