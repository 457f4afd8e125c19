------------------------- MODULE ProcessQueueProofs -------------------------
(***************************************************************************)
(* What ProcessQueue guarantees for any processes, calls and lock names.    *)
(* The inductive invariant says how far the promises of a task can have got *)
(* without one another:                                                     *)
(*   - a call not made yet has left no trace, one that is made has an entry *)
(*     for each of its names;                                               *)
(*   - a task that runs holds all its slots, and a slot has one occupant;   *)
(*   - an entry that came to its end did so because the task did.           *)
(***************************************************************************)
EXTENDS ProcessQueue, SequenceTheorems, TLAPS

InSlot(t, k) == entry[t][k] \in {"acquiring", "held", "hung"}

NotCalledYet ==
  \A t \in Tasks : call[t] = "none" =>
    task[t] = "idle" /\ \A k \in Names : entry[t][k] = "none"

CalledHasEntries ==
  \A t \in Tasks : call[t] # "none" =>
    \A k \in NamesOf[t] : entry[t][k] # "none"

OneInSlot ==
  \A t, u \in Tasks, k \in Names :
    ProcOf[t] = ProcOf[u] /\ InSlot(t, k) /\ InSlot(u, k) => t = u

RunningHolds ==
  \A t \in Tasks : task[t] = "running" =>
    \A k \in NamesOf[t] : entry[t][k] = "held"

EndedAfterTask ==
  \A t \in Tasks, k \in Names : entry[t][k] \in {"settled", "hung"} => Over(t)

IInv == /\ TypeOK
        /\ NotCalledYet
        /\ CalledHasEntries
        /\ OneInSlot
        /\ RunningHolds
        /\ EndedAfterTask

-----------------------------------------------------------------------------
(* Queues as sequences without repetition.                                  *)

\* Appending to a queue adds the new task and nothing else.
LEMMA AppendRange ==
  ASSUME NEW S, NEW s \in Seq(S), NEW x \in S
  PROVE  /\ Append(s, x) \in Seq(S)
         /\ Elements(Append(s, x)) = Elements(s) \cup {x}
         /\ Distinct(s) /\ x \notin Elements(s) => Distinct(Append(s, x))
<1> DEFINE a == Append(s, x)
           n == Len(s)
<1>1. /\ a \in Seq(S) /\ n \in Nat /\ DOMAIN s = 1..n /\ DOMAIN a = 1..(n + 1)
      /\ \A i \in 1..n : a[i] = s[i]
      /\ a[n + 1] = x
  OBVIOUS
<1> HIDE DEF a, n
<1>2. Elements(a) = Elements(s) \cup {x}
  <2>1. ASSUME NEW i \in DOMAIN a
        PROVE  a[i] \in {s[j] : j \in DOMAIN s} \cup {x}
    <3>1. i \in 1..n \/ i = n + 1 BY <1>1
    <3> QED BY <1>1, <3>1
  <2>2. ASSUME NEW j \in DOMAIN s
        PROVE  s[j] \in {a[i] : i \in DOMAIN a}
    <3>1. j \in DOMAIN a /\ a[j] = s[j] BY <1>1
    <3> QED BY <3>1
  <2>3. x \in {a[i] : i \in DOMAIN a}
    <3>1. n + 1 \in DOMAIN a BY <1>1
    <3> QED BY <1>1, <3>1
  <2> QED BY <2>1, <2>2, <2>3 DEF Elements
<1>3. Distinct(s) /\ x \notin Elements(s) => Distinct(a)
  <2> SUFFICES ASSUME Distinct(s), x \notin Elements(s),
                      NEW i \in DOMAIN a, NEW j \in DOMAIN a, a[i] = a[j]
               PROVE  i = j
    BY DEF Distinct
  <2>1. /\ i \in 1..n \/ i = n + 1
        /\ j \in 1..n \/ j = n + 1
    BY <1>1
  <2>2. CASE i \in 1..n /\ j \in 1..n BY <1>1, <2>2 DEF Distinct
  <2>3. CASE i \in 1..n /\ j = n + 1 BY <1>1, <2>3 DEF Elements
  <2>4. CASE i = n + 1 /\ j \in 1..n BY <1>1, <2>4 DEF Elements
  <2> QED BY <2>1, <2>2, <2>3, <2>4
<1> QED BY <1>1, <1>2, <1>3 DEF a

\* Taking the head of a queue removes that task and nothing else.
LEMMA TailRange ==
  ASSUME NEW S, NEW s \in Seq(S), s # <<>>, Distinct(s)
  PROVE  /\ Tail(s) \in Seq(S) /\ Head(s) \in S
         /\ Head(s) \in Elements(s)
         /\ Elements(Tail(s)) = Elements(s) \ {Head(s)}
         /\ Distinct(Tail(s))
<1> DEFINE b == Tail(s)
           n == Len(s)
<1>1. /\ b \in Seq(S) /\ Head(s) \in S /\ n \in Nat /\ n >= 1
      /\ DOMAIN s = 1..n /\ DOMAIN b = 1..(n - 1)
      /\ \A i \in 1..(n - 1) : b[i] = s[i + 1]
      /\ Head(s) = s[1]
  BY HeadTailProperties, LenProperties, EmptySeq
<1> HIDE DEF b, n
<1>2. 1 \in DOMAIN s BY <1>1
<1>3. Elements(b) = Elements(s) \ {Head(s)}
  <2>1. ASSUME NEW i \in DOMAIN b
        PROVE  b[i] \in {s[j] : j \in DOMAIN s} \ {Head(s)}
    <3>1. i + 1 \in DOMAIN s /\ b[i] = s[i + 1] /\ i + 1 # 1 BY <1>1
    <3>2. s[i + 1] # s[1] BY <1>2, <3>1 DEF Distinct
    <3> QED BY <1>1, <3>1, <3>2
  <2>2. ASSUME NEW j \in DOMAIN s, s[j] # Head(s)
        PROVE  s[j] \in {b[i] : i \in DOMAIN b}
    <3>1. j - 1 \in DOMAIN b /\ b[j - 1] = s[j] BY <1>1, <2>2
    <3> QED BY <3>1
  <2> QED BY <2>1, <2>2 DEF Elements
<1>4. Distinct(b)
  <2> SUFFICES ASSUME NEW i \in DOMAIN b, NEW j \in DOMAIN b, b[i] = b[j]
               PROVE  i = j
    BY DEF Distinct
  <2>1. /\ i + 1 \in DOMAIN s /\ b[i] = s[i + 1]
        /\ j + 1 \in DOMAIN s /\ b[j] = s[j + 1]
        /\ i \in Int /\ j \in Int
    BY <1>1
  <2>2. i + 1 = j + 1 BY <2>1 DEF Distinct
  <2> QED BY <2>1, <2>2
<1> QED BY <1>1, <1>2, <1>3, <1>4 DEF b, Elements

-----------------------------------------------------------------------------
(* The invariant is inductive.                                              *)

LEMMA InitIInv == Init => IInv
BY QueueConstants DEF Init, IInv, TypeOK, VariablesOK, QueuesOK, Queued, Elements, Distinct,
   EntryStates, TaskStates, CallStates, NotCalledYet, CalledHasEntries, OneInSlot,
   RunningHolds, EndedAfterTask, InSlot

\* Making a call puts its task at the end of each queue it names.
LEMMA AddTaskIInv ==
  ASSUME IInv, NEW t \in Tasks, AddTask(t)
  PROVE  IInv'
<1> USE QueueConstants
<1> DEFINE me == ProcOf[t]
<1>1. /\ me \in Processes /\ NamesOf[t] \in SUBSET Names
      /\ call[t] = "none" /\ task[t] = "idle"
      /\ \A k \in Names : entry[t][k] = "none"
  BY DEF IInv, NotCalledYet, AddTask
<1>2. /\ \A p \in Processes, k \in Names :
           queue'[p][k] = IF p = me /\ k \in NamesOf[t]
                            THEN Append(queue[p][k], t) ELSE queue[p][k]
      /\ \A u \in Tasks, k \in Names :
           entry'[u][k] = IF u = t THEN IF k \in NamesOf[t] THEN "queued" ELSE "none"
                                   ELSE entry[u][k]
  <2>1. queue' = [p \in Processes |-> [k \in Names |->
          IF p = me /\ k \in NamesOf[t] THEN Append(queue[p][k], t) ELSE queue[p][k]]]
    BY DEF AddTask
  <2>2. entry' = [entry EXCEPT ![t] =
          [k \in Names |-> IF k \in NamesOf[t] THEN "queued" ELSE "none"]]
    BY DEF AddTask
  <2> QED BY <1>1, <2>1, <2>2 DEF IInv, TypeOK, VariablesOK
<1>3. VariablesOK'
  <2>1. queue' \in [Processes -> [Names -> Seq(Tasks)]]
    BY DEF AddTask, IInv, TypeOK, VariablesOK
  <2>2. called' \in Seq(Tasks)
    BY DEF AddTask, IInv, TypeOK, VariablesOK
  <2> QED BY <2>1, <2>2 DEF AddTask, IInv, TypeOK, VariablesOK, EntryStates, TaskStates, CallStates
<1>4. QueuesOK'
  <2> SUFFICES ASSUME NEW p \in Processes, NEW k \in Names
               PROVE  /\ Queued(p, k)' = {u \in Tasks : ProcOf[u] = p /\ entry'[u][k] = "queued"}
                      /\ Distinct(queue'[p][k])
    BY DEF QueuesOK
  <2>1. /\ queue[p][k] \in Seq(Tasks)
        /\ Queued(p, k) = {u \in Tasks : ProcOf[u] = p /\ entry[u][k] = "queued"}
        /\ Distinct(queue[p][k])
    BY DEF IInv, TypeOK, VariablesOK, QueuesOK
  <2>2. CASE p = me /\ k \in NamesOf[t]
    <3>1. queue'[p][k] = Append(queue[p][k], t) BY <1>2, <2>2
    <3>2. t \notin Queued(p, k) BY <1>1, <2>1
    <3>3. /\ Elements(Append(queue[p][k], t)) = Queued(p, k) \cup {t}
          /\ Distinct(Append(queue[p][k], t))
      BY <2>1, <3>2, AppendRange DEF Queued
    <3>4. Queued(p, k)' = Queued(p, k) \cup {t} /\ Distinct(queue'[p][k])
      BY <3>1, <3>3 DEF Queued
    <3> QED BY <1>2, <2>1, <2>2, <3>4
  <2>3. CASE ~(p = me /\ k \in NamesOf[t])
    <3>1. queue'[p][k] = queue[p][k] BY <1>2, <2>3
    <3>2. Queued(p, k)' = Queued(p, k) BY <3>1 DEF Queued
    <3> QED BY <1>1, <1>2, <2>1, <2>3, <3>1, <3>2
  <2> QED BY <2>2, <2>3
<1>5. NotCalledYet' /\ CalledHasEntries'
  BY <1>2, <1>1 DEF AddTask, IInv, TypeOK, VariablesOK, NotCalledYet, CalledHasEntries
<1>6. OneInSlot'
  BY <1>2 DEF IInv, OneInSlot, InSlot
<1>7. RunningHolds'
  BY <1>1, <1>2 DEF AddTask, IInv, TypeOK, VariablesOK, RunningHolds
<1>8. EndedAfterTask'
  BY <1>1, <1>2 DEF AddTask, IInv, TypeOK, VariablesOK, EndedAfterTask, Over
<1> QED BY <1>3, <1>4, <1>5, <1>6, <1>7, <1>8 DEF IInv, TypeOK

\* A free slot takes the oldest task of its queue, and no other slot changes.
LEMMA DequeueIInv ==
  ASSUME IInv, NEW p \in Processes, NEW k \in Names, Dequeue(p, k)
  PROVE  IInv'
<1> USE QueueConstants
<1> DEFINE q == queue[p][k]
           t == Head(q)
<1>1. /\ q \in Seq(Tasks) /\ q # <<>> /\ Distinct(q)
      /\ Queued(p, k) = {u \in Tasks : ProcOf[u] = p /\ entry[u][k] = "queued"}
  BY DEF Dequeue, IInv, TypeOK, VariablesOK, QueuesOK
<1>2. /\ t \in Queued(p, k) /\ t \in Tasks /\ Tail(q) \in Seq(Tasks) /\ Distinct(Tail(q))
      /\ Elements(Tail(q)) = Queued(p, k) \ {t}
  BY <1>1, TailRange DEF Queued
<1>3. ProcOf[t] = p /\ entry[t][k] = "queued" BY <1>1, <1>2
<1>4. PICK s \in {"acquiring", "held"} : entry' = [entry EXCEPT ![t][k] = s]
  BY DEF Dequeue
<1>5. queue' = [queue EXCEPT ![p][k] = Tail(q)] /\ UNCHANGED <<lease, task, call, called>>
  BY DEF Dequeue
<1> HIDE DEF t
<1>6. \A u \in Tasks, n \in Names :
        entry'[u][n] = IF u = t /\ n = k THEN s ELSE entry[u][n]
  BY <1>2, <1>4 DEF IInv, TypeOK, VariablesOK
<1>7. VariablesOK'
  BY <1>2, <1>4, <1>5 DEF IInv, TypeOK, VariablesOK, EntryStates
<1>8. QueuesOK'
  <2> SUFFICES ASSUME NEW o \in Processes, NEW n \in Names
               PROVE  /\ Queued(o, n)' = {u \in Tasks : ProcOf[u] = o /\ entry'[u][n] = "queued"}
                      /\ Distinct(queue'[o][n])
    BY DEF QueuesOK
  <2>1. /\ Queued(o, n) = {u \in Tasks : ProcOf[u] = o /\ entry[u][n] = "queued"}
        /\ Distinct(queue[o][n])
    BY DEF IInv, TypeOK, QueuesOK
  <2>2. CASE o = p /\ n = k
    <3>1. queue'[o][n] = Tail(q) BY <1>5, <2>2 DEF IInv, TypeOK, VariablesOK
    <3>2. Queued(o, n)' = Queued(p, k) \ {t} BY <1>2, <3>1 DEF Queued
    <3>3. \A u \in Tasks : entry'[u][n] = "queued" <=> entry[u][k] = "queued" /\ u # t
      BY <1>6, <2>2
    <3>4. Queued(o, n)' = {u \in Tasks : ProcOf[u] = o /\ entry'[u][n] = "queued"}
      BY <1>1, <2>2, <3>2, <3>3
    <3> QED BY <1>2, <3>1, <3>4
  <2>3. CASE ~(o = p /\ n = k)
    <3>1. queue'[o][n] = queue[o][n] BY <1>5, <2>3 DEF IInv, TypeOK, VariablesOK
    <3>2. Queued(o, n)' = Queued(o, n) BY <3>1 DEF Queued
    <3> QED BY <1>3, <1>6, <2>1, <2>3, <3>1, <3>2
  <2> QED BY <2>2, <2>3
<1>9. NotCalledYet' /\ CalledHasEntries'
  BY <1>3, <1>5, <1>6 DEF IInv, NotCalledYet, CalledHasEntries
<1>10. OneInSlot'
  <2>1. \A u \in Tasks : ProcOf[u] = p => ~InSlot(u, k)
    BY DEF Dequeue, SlotTaken, InSlot
  <2> QED BY <1>3, <1>6, <2>1 DEF IInv, OneInSlot, InSlot
<1>11. RunningHolds'
  BY <1>3, <1>5, <1>6 DEF IInv, RunningHolds
<1>12. EndedAfterTask'
  BY <1>5, <1>6 DEF IInv, EndedAfterTask, Over
<1> QED BY <1>7, <1>8, <1>9, <1>10, <1>11, <1>12 DEF IInv, TypeOK

\* One entry moves from a live state of its own to another: what the actions
\* on leases have in common.
LEMMA EntryIInv ==
  ASSUME IInv, NEW t \in Tasks, NEW k \in Names, NEW s \in EntryStates,
         entry' = [entry EXCEPT ![t][k] = s],
         lease' \in [Names -> Tasks \cup {NoTask}],
         UNCHANGED <<queue, task, call, called>>,
         entry[t][k] \in {"acquiring", "held"},
         s \notin {"none", "queued"},
         task[t] = "running" => s = "held",
         s \in {"settled", "hung"} => Over(t)
  PROVE  IInv'
<1> USE QueueConstants
<1>1. \A u \in Tasks, n \in Names :
        entry'[u][n] = IF u = t /\ n = k THEN s ELSE entry[u][n]
  BY DEF IInv, TypeOK, VariablesOK
<1>2. VariablesOK' BY DEF IInv, TypeOK, VariablesOK
<1>3. QueuesOK'
  BY <1>1 DEF IInv, TypeOK, QueuesOK, Queued
<1>4. NotCalledYet' /\ CalledHasEntries'
  BY <1>1 DEF IInv, NotCalledYet, CalledHasEntries
<1>5. OneInSlot' BY <1>1 DEF IInv, OneInSlot, InSlot
<1>6. RunningHolds' BY <1>1 DEF IInv, RunningHolds
<1>7. EndedAfterTask' BY <1>1 DEF IInv, EndedAfterTask, Over
<1> QED BY <1>2, <1>3, <1>4, <1>5, <1>6, <1>7 DEF IInv, TypeOK

LEMMA StepIInv == IInv /\ [Next]_vars => IInv'
<1> USE QueueConstants
<1> SUFFICES ASSUME IInv, [Next]_vars PROVE IInv'
  OBVIOUS
<1>1. ASSUME NEW t \in Tasks, AddTask(t) PROVE IInv'
  BY <1>1, AddTaskIInv
<1>2. ASSUME NEW t \in Tasks, RunTask(t) PROVE IInv'
  <2>1. task' = [task EXCEPT ![t] = "running"] /\ task[t] = "idle"
        /\ UNCHANGED <<queue, entry, lease, call, called>>
        /\ NamesOf[t] # {} /\ NamesOf[t] \subseteq Names
        /\ \A k \in NamesOf[t] : entry[t][k] = "held"
    BY <1>2 DEF RunTask
  <2>2. VariablesOK' /\ QueuesOK'
    BY <2>1 DEF IInv, TypeOK, VariablesOK, QueuesOK, Queued, TaskStates
  <2>3. NotCalledYet' /\ CalledHasEntries' /\ OneInSlot' /\ RunningHolds'
    BY <2>1 DEF IInv, TypeOK, VariablesOK, NotCalledYet, CalledHasEntries, OneInSlot, InSlot, RunningHolds
  <2>4. EndedAfterTask'
    BY <2>1 DEF IInv, TypeOK, VariablesOK, EndedAfterTask, Over
  <2> QED BY <2>2, <2>3, <2>4 DEF IInv, TypeOK
<1>3. ASSUME NEW t \in Tasks, Complete(t) PROVE IInv'
  <2>1. PICK s \in {"done", "failed"} : task' = [task EXCEPT ![t] = s]
    BY <1>3 DEF Complete
  <2>2. task[t] = "running" /\ UNCHANGED <<queue, entry, lease, call, called>>
    BY <1>3 DEF Complete
  <2>3. VariablesOK' /\ QueuesOK'
    BY <2>1, <2>2 DEF IInv, TypeOK, VariablesOK, QueuesOK, Queued, TaskStates
  <2>4. NotCalledYet' /\ CalledHasEntries' /\ OneInSlot' /\ RunningHolds'
    BY <2>1, <2>2 DEF IInv, TypeOK, VariablesOK, NotCalledYet, CalledHasEntries, OneInSlot, InSlot, RunningHolds
  <2>5. EndedAfterTask'
    BY <2>1, <2>2 DEF IInv, TypeOK, VariablesOK, EndedAfterTask, Over
  <2> QED BY <2>3, <2>4, <2>5 DEF IInv, TypeOK
<1>4. ASSUME NEW t \in Tasks, Return(t) \/ Throw(t) PROVE IInv'
  <2>1. PICK s \in {"returned", "threw"} : call' = [call EXCEPT ![t] = s]
    BY <1>4 DEF Return, Throw
  <2>2. call[t] = "pending" /\ UNCHANGED <<queue, entry, lease, task, called>>
    BY <1>4 DEF Return, Throw
  <2> QED BY <2>1, <2>2 DEF IInv, TypeOK, VariablesOK, QueuesOK, Queued, CallStates,
        NotCalledYet, CalledHasEntries, OneInSlot, InSlot, RunningHolds, EndedAfterTask, Over
<1>5. ASSUME NEW t \in Tasks, NEW k \in NamesOf[t], Acquire(t, k) PROVE IInv'
  <2>1. k \in Names /\ "held" \in EntryStates BY DEF EntryStates
  <2>2. lease' \in [Names -> Tasks \cup {NoTask}]
    BY <1>5, <2>1 DEF Acquire, IInv, TypeOK, VariablesOK
  <2> QED BY <1>5, <2>1, <2>2, EntryIInv DEF Acquire
<1>6. ASSUME NEW t \in Tasks, NEW k \in NamesOf[t], Refuse(t, k) PROVE IInv'
  <2>1. k \in Names /\ "rejected" \in EntryStates BY DEF EntryStates
  <2>2. lease' \in [Names -> Tasks \cup {NoTask}]
    BY <1>6, <2>1 DEF Refuse, IInv, TypeOK, VariablesOK
  <2>3. task[t] # "running" BY <1>6 DEF Refuse, IInv, RunningHolds
  <2>4. /\ entry[t][k] \in {"acquiring", "held"}
        /\ entry' = [entry EXCEPT ![t][k] = "rejected"]
        /\ UNCHANGED <<queue, task, call, called>>
    BY <1>6 DEF Refuse
  <2>5. "rejected" \notin {"none", "queued", "settled", "hung"} OBVIOUS
  <2> QED BY <2>1, <2>2, <2>3, <2>4, <2>5, EntryIInv
<1>7. ASSUME NEW t \in Tasks, NEW k \in NamesOf[t], Release(t, k) PROVE IInv'
  <2>1. k \in Names BY <1>7
  <2>2. PICK s \in {"settled", "rejected", "hung"} : entry' = [entry EXCEPT ![t][k] = s]
    BY <1>7 DEF Release, Settled, SettledLate
  <2>3. lease' \in [Names -> Tasks \cup {NoTask}]
    BY <1>7, <2>1 DEF Release, IInv, TypeOK, VariablesOK
  <2>4. s \in EntryStates /\ task[t] # "running" BY <1>7, <2>2 DEF EntryStates, Release, Over
  <2> QED BY <1>7, <2>1, <2>2, <2>3, <2>4, EntryIInv DEF Release
<1>8. ASSUME NEW t \in Tasks, NEW k \in NamesOf[t], LoseRelease(t, k) PROVE IInv'
  <2>1. k \in Names /\ "rejected" \in EntryStates BY DEF EntryStates
  <2>2. task[t] # "running" BY <1>8 DEF LoseRelease, Over
  <2>3. lease' \in [Names -> Tasks \cup {NoTask}]
    BY <1>8 DEF LoseRelease, IInv, TypeOK, VariablesOK
  <2> QED BY <1>8, <2>1, <2>2, <2>3, EntryIInv DEF LoseRelease
<1>9. ASSUME NEW p \in Processes, NEW k \in Names, Dequeue(p, k) PROVE IInv'
  BY <1>9, DequeueIInv
<1>10. ASSUME NEW k \in Names, Expire(k) PROVE IInv'
  BY <1>10 DEF Expire, IInv, TypeOK, VariablesOK, QueuesOK, Queued, NotCalledYet,
     CalledHasEntries, OneInSlot, InSlot, RunningHolds, EndedAfterTask, Over
<1>11. CASE UNCHANGED vars
  BY <1>11 DEF vars, IInv, TypeOK, VariablesOK, QueuesOK, Queued, NotCalledYet,
     CalledHasEntries, OneInSlot, InSlot, RunningHolds, EndedAfterTask, Over
<1> QED BY <1>1, <1>2, <1>3, <1>4, <1>5, <1>6, <1>7, <1>8, <1>9, <1>10, <1>11 DEF Next

LEMMA Invariance == Spec => []IInv
<1>1. Init => IInv BY InitIInv
<1>2. IInv /\ [Next]_vars => IInv' BY StepIInv
<1> QED BY <1>1, <1>2, PTL DEF Spec

-----------------------------------------------------------------------------
(* Theorems.                                                                *)

\* Types; and no task is lost from a queue, or put in it twice.
THEOREM TypeCorrect == Spec => []TypeOK
<1>1. IInv => TypeOK BY DEF IInv
<1> QED BY <1>1, Invariance, PTL

\* However many calls a process makes over however many locks, and whatever
\* becomes of the leases, tasks that share a lock run one at a time in it.
THEOREM SerialInEveryProcess == Spec => []SerialInProcess
<1>1. IInv => SerialInProcess
  BY QueueConstants DEF IInv, OneInSlot, InSlot, RunningHolds, SerialInProcess, Share
<1> QED BY <1>1, Invariance, PTL

-----------------------------------------------------------------------------
(* Leases that last.  When none expires, a lease belongs to whoever holds   *)
(* the slot, so that slots exclude one another across processes too, and an *)
(* add fails only for a task that never ran or that threw.                  *)

HoldsLease ==
  \A t \in Tasks, k \in Names : entry[t][k] = "held" => lease[k] = t

LeasesLast == LockingService /\ "expire" \notin Faults

LEMMA InitHoldsLease == Init => HoldsLease
BY QueueConstants DEF Init, HoldsLease

LEMMA StepHoldsLease ==
  ASSUME LeasesLast, IInv, HoldsLease, [Next]_vars
  PROVE  HoldsLease'
<1> USE QueueConstants DEF IInv, TypeOK, VariablesOK, HoldsLease, LeasesLast
<1>1. ASSUME NEW t \in Tasks, AddTask(t) PROVE HoldsLease'
  BY <1>1 DEF AddTask
<1>2. ASSUME NEW t \in Tasks, RunTask(t) \/ Complete(t) \/ Return(t) \/ Throw(t)
      PROVE  HoldsLease'
  <2>1. UNCHANGED <<entry, lease>> BY <1>2 DEF RunTask, Complete, Return, Throw
  <2> QED BY <2>1
<1>3. ASSUME NEW t \in Tasks, NEW k \in NamesOf[t], Acquire(t, k) PROVE HoldsLease'
  BY <1>3 DEF Acquire
<1>4. ASSUME NEW t \in Tasks, NEW k \in NamesOf[t], Refuse(t, k) PROVE HoldsLease'
  BY <1>4 DEF Refuse
<1>5. ASSUME NEW t \in Tasks, NEW k \in NamesOf[t], Release(t, k) PROVE HoldsLease'
  <2>1. PICK s \in {"settled", "rejected"} : entry' = [entry EXCEPT ![t][k] = s]
    BY <1>5 DEF Release, Settled
  <2>2. lease[k] = t /\ lease' = [lease EXCEPT ![k] = NoTask]
    BY <1>5 DEF Release
  <2> QED BY <2>1, <2>2
<1>6. ASSUME NEW t \in Tasks, NEW k \in NamesOf[t], LoseRelease(t, k) PROVE HoldsLease'
  BY <1>6 DEF LoseRelease
<1>7. ASSUME NEW p \in Processes, NEW k \in Names, Dequeue(p, k) PROVE HoldsLease'
  BY <1>7 DEF Dequeue
<1>8. ASSUME NEW k \in Names, Expire(k) PROVE HoldsLease'
  BY <1>8 DEF Expire
<1>9. CASE UNCHANGED vars
  BY <1>9 DEF vars
<1> QED BY <1>1, <1>2, <1>3, <1>4, <1>5, <1>6, <1>7, <1>8, <1>9 DEF Next

\* Two tasks that share a lock never run together.
Apart ==
  \A t, u \in Tasks :
    t # u /\ Share(t, u) => ~(task[t] = "running" /\ task[u] = "running")

LEMMA SlotsKeepApart ==
  ASSUME IInv, HoldsLease \/ \A t, u \in Tasks : ProcOf[t] = ProcOf[u]
  PROVE  Apart
<1>1. CASE HoldsLease
  BY <1>1, QueueConstants DEF IInv, RunningHolds, HoldsLease, Apart, Share
<1>2. CASE \A t, u \in Tasks : ProcOf[t] = ProcOf[u]
  BY <1>2, QueueConstants DEF IInv, RunningHolds, OneInSlot, InSlot, Apart, Share
<1> QED BY <1>1, <1>2

LEMMA StepRefines ==
  ASSUME IInv, Apart', [Next]_vars
  PROVE  [Serial!SerialNext]_(Serial!serialVars)
<1> DEFINE running == {t \in Tasks : task[t] = "running"}
           ended == {t \in Tasks : Over(t)}
<1>1. ASSUME NEW t \in Tasks, task[t] = "idle", task' = [task EXCEPT ![t] = "running"]
      PROVE  Serial!Begin(t)
  <2>1. task \in [Tasks -> TaskStates] BY DEF IInv, TypeOK, VariablesOK
  <2>2. t \notin running \cup ended BY <1>1 DEF Over
  <2>3. \A u \in running : NamesOf[t] \cap NamesOf[u] = {}
    BY <1>1, <2>1, <2>2 DEF Apart, Share
  <2>4. running' = running \cup {t} /\ ended' = ended
    BY <1>1, <2>1 DEF Over
  <2> QED BY <2>2, <2>3, <2>4 DEF Serial!Begin
<1>2. ASSUME NEW t \in Tasks, Complete(t) PROVE Serial!End(t)
  <2>1. task \in [Tasks -> TaskStates] BY DEF IInv, TypeOK, VariablesOK
  <2>2. PICK s \in {"done", "failed"} : task' = [task EXCEPT ![t] = s]
    BY <1>2 DEF Complete
  <2>3. t \in running BY <1>2 DEF Complete
  <2>4. running' = running \ {t} /\ ended' = ended \cup {t}
    BY <2>1, <2>2 DEF Over
  <2> QED BY <2>3, <2>4 DEF Serial!End
<1>3. ASSUME UNCHANGED task PROVE UNCHANGED Serial!serialVars
  <2>1. running' = running /\ ended' = ended BY <1>3 DEF Over
  <2> QED BY <2>1 DEF Serial!serialVars
<1>4. ASSUME NEW t \in Tasks, AddTask(t)
      PROVE  Serial!Begin(t) \/ UNCHANGED Serial!serialVars
  <2>1. CASE NamesOf[t] = {}
    <3>1. task[t] = "idle" BY <1>4 DEF AddTask, IInv, NotCalledYet
    <3> QED BY <1>1, <1>4, <2>1, <3>1 DEF AddTask
  <2>2. CASE NamesOf[t] # {}
    BY <1>3, <1>4, <2>2 DEF AddTask
  <2> QED BY <2>1, <2>2
<1>5. ASSUME NEW t \in Tasks, RunTask(t) PROVE Serial!Begin(t)
  BY <1>1, <1>5 DEF RunTask
<1>6. ASSUME NEW t \in Tasks,
             \/ Return(t) \/ Throw(t)
             \/ \E k \in NamesOf[t] : Acquire(t, k) \/ Refuse(t, k) \/ Release(t, k) \/ LoseRelease(t, k)
      PROVE  UNCHANGED Serial!serialVars
  BY <1>3, <1>6 DEF Return, Throw, Acquire, Refuse, Release, LoseRelease
<1>7. ASSUME NEW p \in Processes, NEW k \in Names, Dequeue(p, k) \/ Expire(k)
      PROVE  UNCHANGED Serial!serialVars
  BY <1>3, <1>7 DEF Dequeue, Expire
<1>8. ASSUME NEW k \in Names, Expire(k) PROVE UNCHANGED Serial!serialVars
  BY <1>3, <1>8 DEF Expire
<1>9. ASSUME UNCHANGED vars PROVE UNCHANGED Serial!serialVars
  BY <1>3, <1>9 DEF vars
<1> QED BY <1>2, <1>4, <1>5, <1>6, <1>7, <1>8, <1>9 DEF Next, Serial!SerialNext

\* When no lease ends early, or when all calls are made in one process, the
\* queues implement SerialExecution.
THEOREM QueuesSerialise ==
  ASSUME LeasesLast \/ \A t, u \in Tasks : ProcOf[t] = ProcOf[u]
  PROVE  Spec => SerialExecution
<1>1. Init => Serial!SerialInit
  BY DEF Init, Over, Serial!SerialInit
<1>2. IInv /\ Apart' /\ [Next]_vars => [Serial!SerialNext]_(Serial!serialVars)
  BY StepRefines
<1>3. CASE LeasesLast
  <2>1. IInv /\ HoldsLease /\ [Next]_vars => HoldsLease' BY <1>3, StepHoldsLease
  <2>2. IInv /\ HoldsLease => Apart BY SlotsKeepApart
  <2> QED BY <1>1, <1>2, <2>1, <2>2, InitHoldsLease, Invariance, PTL
          DEF Spec, SerialExecution, Serial!SerialSpec
<1>4. CASE \A t, u \in Tasks : ProcOf[t] = ProcOf[u]
  <2>1. IInv => Apart BY <1>4, SlotsKeepApart
  <2> QED BY <1>1, <1>2, <2>1, Invariance, PTL DEF Spec, SerialExecution, Serial!SerialSpec
<1> QED BY <1>3, <1>4

-----------------------------------------------------------------------------
(* A call that throws has not executed its task.                            *)

RejectedNotDone ==
  \A t \in Tasks : \A k \in NamesOf[t] :
    entry[t][k] = "rejected" => task[t] \in {"idle", "failed"}

OverEntered ==
  \A t \in Tasks : Over(t) =>
    \A k \in NamesOf[t] : entry[t][k] \notin {"none", "queued", "acquiring"}

ThrewBecause ==
  \A t \in Tasks : call[t] = "threw" =>
    task[t] = "failed" \/ \E k \in NamesOf[t] : entry[t][k] = "rejected"

ThrowInv == RejectedNotDone /\ OverEntered /\ ThrewBecause

LEMMA StepThrowInv ==
  ASSUME LeasesLast, "unrelease" \notin Faults, IInv, HoldsLease, ThrowInv, [Next]_vars
  PROVE  ThrowInv'
<1> USE QueueConstants DEF IInv, TypeOK, VariablesOK, ThrowInv, RejectedNotDone,
        OverEntered, ThrewBecause, Over
<1>1. ASSUME NEW t \in Tasks, AddTask(t) PROVE ThrowInv'
  BY <1>1 DEF AddTask, NotCalledYet
<1>2. ASSUME NEW t \in Tasks, RunTask(t) PROVE ThrowInv'
  BY <1>2 DEF RunTask
<1>3. ASSUME NEW t \in Tasks, Complete(t) PROVE ThrowInv'
  <2>1. PICK s \in {"done", "failed"} : task' = [task EXCEPT ![t] = s]
    BY <1>3 DEF Complete
  <2> QED BY <1>3, <2>1 DEF Complete, RunningHolds
<1>4. ASSUME NEW t \in Tasks, Return(t) \/ Throw(t) PROVE ThrowInv'
  BY <1>4 DEF Return, Throw
<1>5. ASSUME NEW t \in Tasks, NEW k \in NamesOf[t], Acquire(t, k) PROVE ThrowInv'
  BY <1>5 DEF Acquire
<1>6. ASSUME NEW t \in Tasks, NEW k \in NamesOf[t], Refuse(t, k) PROVE ThrowInv'
  <2>1. entry[t][k] = "acquiring" BY <1>6 DEF Refuse
  <2>2. task[t] # "running" BY <2>1 DEF RunningHolds
  <2>3. ~Over(t) BY <2>1
  <2>4. task[t] = "idle" BY <2>2, <2>3 DEF TaskStates
  <2>5. entry' = [entry EXCEPT ![t][k] = "rejected"] /\ UNCHANGED <<task, call>>
    BY <1>6 DEF Refuse
  <2> QED BY <2>1, <2>4, <2>5
<1>7. ASSUME NEW t \in Tasks, NEW k \in NamesOf[t], Release(t, k) PROVE ThrowInv'
  <2>1. lease[k] = t BY <1>7 DEF Release, HoldsLease
  <2>2. entry' = [entry EXCEPT ![t][k] = "settled"] /\ entry[t][k] = "held"
    BY <1>7, <2>1 DEF Release, Settled, LeasesLast
  <2> QED BY <1>7, <2>2 DEF Release
<1>8. ASSUME NEW t \in Tasks, NEW k \in NamesOf[t], LoseRelease(t, k) PROVE ThrowInv'
  BY <1>8 DEF LoseRelease
<1>9. ASSUME NEW p \in Processes, NEW k \in Names, Dequeue(p, k) PROVE ThrowInv'
  <2>1. Head(queue[p][k]) \in Queued(p, k)
    BY <1>9, TailRange DEF Dequeue, QueuesOK, Queued
  <2>2. PICK h \in Tasks : h = Head(queue[p][k]) /\ entry[h][k] = "queued"
    BY <2>1 DEF QueuesOK
  <2>3. PICK s \in {"acquiring", "held"} : entry' = [entry EXCEPT ![h][k] = s]
    BY <1>9, <2>2 DEF Dequeue
  <2>4. UNCHANGED <<task, call>> BY <1>9 DEF Dequeue
  <2> QED BY <2>2, <2>3, <2>4
<1>10. ASSUME NEW k \in Names, Expire(k) PROVE ThrowInv'
  BY <1>10 DEF Expire
<1>11. CASE UNCHANGED vars
  BY <1>11 DEF vars
<1> QED BY <1>1, <1>2, <1>3, <1>4, <1>5, <1>6, <1>7, <1>8, <1>9, <1>10, <1>11 DEF Next

\* When no lease ends early and no release is lost, a call that throws has
\* not executed its task and never will, so that it can safely be made again.
THEOREM ThrownCallsAreNotDone ==
  ASSUME LeasesLast, "unrelease" \notin Faults
  PROVE  Spec => []ThrewMeansNotDone
<1>1. Init => ThrowInv
  BY QueueConstants DEF Init, ThrowInv, RejectedNotDone, OverEntered, ThrewBecause, Over
<1>2. IInv /\ HoldsLease /\ [Next]_vars => HoldsLease' BY StepHoldsLease
<1>3. IInv /\ HoldsLease /\ ThrowInv /\ [Next]_vars => ThrowInv' BY StepThrowInv
<1>4. ThrowInv => ThrewMeansNotDone
  BY DEF ThrowInv, RejectedNotDone, ThrewBecause, ThrewMeansNotDone
<1> QED BY <1>1, <1>2, <1>3, <1>4, InitHoldsLease, Invariance, PTL DEF Spec

-----------------------------------------------------------------------------
(* Calls are served in the order they are made.                             *)

CalledOK ==
  Distinct(called) /\ Elements(called) = {t \in Tasks : call[t] # "none"}

FirstInFirst ==
  \A p \in Processes, k \in Names : \A i, j \in DOMAIN queue[p][k] :
    i < j => Before(queue[p][k][i], queue[p][k][j])

NoOvertaking ==
  \A t, u \in Tasks, k \in Names :
    /\ ProcOf[t] = ProcOf[u] /\ k \in NamesOf[t] \cap NamesOf[u]
    /\ Before(u, t) /\ entry[t][k] # "queued"
    => entry[u][k] # "queued"

OrderInv == CalledOK /\ FirstInFirst /\ NoOvertaking

LEMMA BeforeFacts ==
  ASSUME IInv, CalledOK, NEW t, NEW u, Before(u, t)
  PROVE  /\ t \in Tasks /\ u \in Tasks /\ t # u
         /\ call[t] # "none" /\ call[u] # "none"
         /\ ~Before(t, u)
<1>1. called \in Seq(Tasks) BY DEF IInv, TypeOK, VariablesOK
<1>2. t \in Elements(called) /\ u \in Elements(called) BY DEF Before, Elements
<1>3. \A i \in DOMAIN called : i \in Int BY <1>1
<1> QED BY <1>2, <1>3 DEF CalledOK, Distinct, Before

\* Making a call changes nothing in the order of the earlier ones.
LEMMA AddTaskOrder ==
  ASSUME IInv, OrderInv, NEW t \in Tasks, AddTask(t)
  PROVE  OrderInv'
<1> USE QueueConstants
<1> DEFINE n == Len(called)
           After(x, y) == \E i, j \in DOMAIN called' :
                            i < j /\ called'[i] = x /\ called'[j] = y
<1>1. /\ called \in Seq(Tasks) /\ called' = Append(called, t)
      /\ call[t] = "none" /\ call' = [call EXCEPT ![t] = "pending"]
      /\ call \in [Tasks -> CallStates]
      /\ NamesOf[t] \subseteq Names /\ ProcOf[t] \in Processes
      /\ \A k \in Names : entry[t][k] = "none"
  BY DEF AddTask, IInv, TypeOK, VariablesOK, NotCalledYet
<1>2. /\ n \in Nat /\ DOMAIN called = 1..n /\ DOMAIN called' = 1..(n + 1)
      /\ \A i \in 1..n : called'[i] = called[i]
      /\ called'[n + 1] = t
  BY <1>1
<1> HIDE DEF n
<1>3. t \notin Elements(called) BY <1>1 DEF OrderInv, CalledOK
<1>4. CalledOK'
  BY <1>1, <1>3, AppendRange DEF OrderInv, CalledOK
<1>5. \A u, v : Before(u, v) => After(u, v)
  BY <1>2 DEF Before
<1>6. \A u, v : After(u, v) => Before(u, v) \/ (v = t /\ u # t)
  <2> SUFFICES ASSUME NEW i \in DOMAIN called', NEW j \in DOMAIN called', i < j
               PROVE  Before(called'[i], called'[j]) \/ (called'[j] = t /\ called'[i] # t)
    OBVIOUS
  <2>1. i \in 1..n /\ (j \in 1..n \/ j = n + 1) BY <1>2
  <2>2. called'[i] = called[i] /\ called'[i] # t BY <1>2, <1>3, <2>1 DEF Elements
  <2>3. CASE j \in 1..n
    <3>1. i \in DOMAIN called /\ j \in DOMAIN called /\ called'[j] = called[j]
      BY <1>2, <2>1, <2>3
    <3> QED BY <2>2, <3>1 DEF Before
  <2> QED BY <1>2, <2>1, <2>2, <2>3
<1>7. \A p \in Processes, k \in Names :
        queue'[p][k] = IF p = ProcOf[t] /\ k \in NamesOf[t]
                         THEN Append(queue[p][k], t) ELSE queue[p][k]
  BY DEF AddTask
<1>8. FirstInFirst'
  <2> SUFFICES ASSUME NEW p \in Processes, NEW k \in Names,
                      NEW i \in DOMAIN queue'[p][k], NEW j \in DOMAIN queue'[p][k], i < j
               PROVE  After(queue'[p][k][i], queue'[p][k][j])
    BY DEF FirstInFirst, Before
  <2> DEFINE q == queue[p][k]
             m == Len(q)
  <2>1. q \in Seq(Tasks) /\ Elements(q) = {u \in Tasks : ProcOf[u] = p /\ entry[u][k] = "queued"}
    BY DEF IInv, TypeOK, VariablesOK, QueuesOK, Queued
  <2>2. m \in Nat /\ DOMAIN q = 1..m BY <2>1
  <2> HIDE DEF q, m
  <2>3. CASE queue'[p][k] = q
    BY <1>5, <2>3 DEF OrderInv, FirstInFirst, q
  <2>4. CASE queue'[p][k] = Append(q, t)
    <3>1. /\ DOMAIN queue'[p][k] = 1..(m + 1) /\ queue'[p][k][m + 1] = t
          /\ \A a \in 1..m : queue'[p][k][a] = q[a]
      BY <2>1, <2>2, <2>4 DEF m
    <3>2. i \in 1..m /\ (j \in 1..m \/ j = m + 1) BY <2>2, <3>1
    <3>3. CASE j \in 1..m
      <4>1. i \in DOMAIN q /\ j \in DOMAIN q BY <2>2, <3>2, <3>3
      <4>2. Before(q[i], q[j]) BY <4>1 DEF OrderInv, FirstInFirst, q
      <4>3. After(q[i], q[j]) BY <1>5, <4>2
      <4> QED BY <3>1, <3>2, <3>3, <4>3
    <3>4. CASE j = m + 1
      <4>1. q[i] \in Elements(q) BY <2>2, <3>2 DEF Elements
      <4>2. q[i] \in Tasks /\ call[q[i]] # "none"
        BY <2>1, <4>1 DEF IInv, NotCalledYet
      <4>3. q[i] \in Elements(called) BY <4>2 DEF OrderInv, CalledOK
      <4>4. PICK a \in 1..n : called[a] = q[i] BY <1>2, <4>3 DEF Elements
      <4>5. a \in DOMAIN called' /\ n + 1 \in DOMAIN called' /\ a < n + 1
            /\ called'[a] = q[i] /\ called'[n + 1] = t
        BY <1>2, <4>4
      <4>6. After(q[i], t) BY <4>5
      <4> QED BY <3>1, <3>2, <3>4, <4>6
    <3> QED BY <3>2, <3>3, <3>4
  <2> QED BY <1>7, <2>3, <2>4 DEF q
<1>9. NoOvertaking'
  <2>1. \A u \in Tasks, k \in Names :
          entry'[u][k] = IF u = t THEN IF k \in NamesOf[t] THEN "queued" ELSE "none"
                                  ELSE entry[u][k]
    BY DEF AddTask, IInv, TypeOK, VariablesOK
  <2>2. \A v : ~Before(t, v)
    BY <1>1, BeforeFacts DEF OrderInv
  <2>3. ASSUME NEW v \in Tasks, NEW u \in Tasks, NEW k \in Names,
               ProcOf[v] = ProcOf[u], k \in NamesOf[v] \cap NamesOf[u],
               After(u, v), entry'[v][k] # "queued"
        PROVE  entry'[u][k] # "queued"
    <3>1. v # t BY <2>1, <2>3
    <3>2. Before(u, v) /\ u # t BY <1>6, <2>2, <2>3, <3>1
    <3> QED BY <2>1, <2>3, <3>1, <3>2 DEF OrderInv, NoOvertaking
  <2> QED BY <2>3 DEF NoOvertaking, Before
<1> QED BY <1>4, <1>8, <1>9 DEF OrderInv

\* The head of a queue was called before all others in it.
LEMMA DequeueOrder ==
  ASSUME IInv, OrderInv, NEW p \in Processes, NEW k \in Names, Dequeue(p, k)
  PROVE  OrderInv'
<1> USE QueueConstants
<1> DEFINE q == queue[p][k]
           t == Head(q)
           n == Len(q)
<1>1. /\ q \in Seq(Tasks) /\ q # <<>>
      /\ Elements(q) = {u \in Tasks : ProcOf[u] = p /\ entry[u][k] = "queued"}
  BY DEF Dequeue, IInv, TypeOK, VariablesOK, QueuesOK, Queued
<1>2. /\ n \in Nat /\ n >= 1 /\ DOMAIN q = 1..n /\ t = q[1]
      /\ DOMAIN Tail(q) = 1..(n - 1)
      /\ \A i \in 1..(n - 1) : Tail(q)[i] = q[i + 1]
  BY <1>1, HeadTailProperties, LenProperties, EmptySeq
<1>3. t \in Elements(q) BY <1>2 DEF Elements
<1>4. PICK s \in {"acquiring", "held"} : entry' = [entry EXCEPT ![t][k] = s]
  BY DEF Dequeue
<1>5. queue' = [queue EXCEPT ![p][k] = Tail(q)] /\ UNCHANGED <<call, called>>
  BY DEF Dequeue
<1>6. CalledOK' /\ \A u, v : Before(u, v)' <=> Before(u, v)
  BY <1>5 DEF OrderInv, CalledOK, Before
<1>7. \A u \in Elements(q) : u = t \/ Before(t, u)
  <2> TAKE u \in Elements(q)
  <2>1. PICK i \in 1..n : q[i] = u BY <1>2 DEF Elements
  <2>2. CASE i = 1 BY <1>2, <2>1, <2>2
  <2>3. CASE i # 1
    <3>1. 1 < i /\ 1 \in DOMAIN q /\ i \in DOMAIN q BY <1>2, <2>1, <2>3
    <3> QED BY <1>2, <2>1, <3>1 DEF OrderInv, FirstInFirst
  <2> QED BY <2>2, <2>3
<1>8. FirstInFirst'
  <2> SUFFICES ASSUME NEW o \in Processes, NEW l \in Names,
                      NEW i \in DOMAIN queue'[o][l], NEW j \in DOMAIN queue'[o][l], i < j
               PROVE  Before(queue'[o][l][i], queue'[o][l][j])
    BY <1>6 DEF FirstInFirst
  <2>1. CASE o = p /\ l = k
    <3>1. queue'[o][l] = Tail(q) BY <1>5, <2>1 DEF IInv, TypeOK, VariablesOK
    <3>2. /\ i \in 1..(n - 1) /\ j \in 1..(n - 1)
          /\ i + 1 \in DOMAIN q /\ j + 1 \in DOMAIN q /\ i + 1 < j + 1
      BY <1>2, <3>1
    <3>3. Before(q[i + 1], q[j + 1]) BY <3>2 DEF OrderInv, FirstInFirst
    <3> QED BY <1>2, <3>1, <3>2, <3>3
  <2>2. CASE ~(o = p /\ l = k)
    <3>1. queue'[o][l] = queue[o][l] BY <1>5, <2>2 DEF IInv, TypeOK, VariablesOK
    <3> QED BY <3>1 DEF OrderInv, FirstInFirst
  <2> QED BY <2>1, <2>2
<1> HIDE DEF t
<1>9. NoOvertaking'
  <2> SUFFICES ASSUME NEW v \in Tasks, NEW u \in Tasks, NEW l \in Names,
                      ProcOf[v] = ProcOf[u], l \in NamesOf[v] \cap NamesOf[u],
                      Before(u, v), entry'[v][l] # "queued"
               PROVE  entry'[u][l] # "queued"
    BY <1>6 DEF NoOvertaking
  <2>1. entry'[v][l] = (IF v = t /\ l = k THEN s ELSE entry[v][l])
        /\ entry'[u][l] = (IF u = t /\ l = k THEN s ELSE entry[u][l])
    BY <1>1, <1>3, <1>4 DEF IInv, TypeOK, VariablesOK
  <2>2. CASE v = t /\ l = k
    <3>1. u # t /\ ~Before(t, u) BY <2>2, BeforeFacts DEF OrderInv
    <3>2. u \notin Elements(q) BY <1>7, <3>1
    <3>3. ProcOf[u] = p BY <1>1, <1>3, <2>2
    <3> QED BY <1>1, <2>1, <2>2, <3>1, <3>2, <3>3
  <2>3. CASE ~(v = t /\ l = k)
    BY <2>1, <2>3 DEF OrderInv, NoOvertaking
  <2> QED BY <2>2, <2>3
<1> QED BY <1>6, <1>8, <1>9 DEF OrderInv

\* No other step puts an entry back in a queue.
LEMMA StepOrder ==
  ASSUME IInv, OrderInv, [Next]_vars
  PROVE  OrderInv'
<1> USE QueueConstants
<1>1. ASSUME UNCHANGED <<queue, call, called>>,
             \A t \in Tasks, k \in Names : entry'[t][k] = "queued" <=> entry[t][k] = "queued"
      PROVE  OrderInv'
  BY <1>1 DEF OrderInv, CalledOK, FirstInFirst, NoOvertaking, Before
<1>2. ASSUME NEW t \in Tasks, AddTask(t) PROVE OrderInv'
  BY <1>2, AddTaskOrder
<1>3. ASSUME NEW p \in Processes, NEW k \in Names, Dequeue(p, k) PROVE OrderInv'
  BY <1>3, DequeueOrder
<1>4. ASSUME NEW t \in Tasks, RunTask(t) \/ Complete(t) PROVE OrderInv'
  BY <1>1, <1>4 DEF RunTask, Complete
<1>5. ASSUME NEW t \in Tasks, Return(t) \/ Throw(t) PROVE OrderInv'
  <2>1. /\ UNCHANGED <<queue, entry, called>> /\ call[t] = "pending"
        /\ \E s \in {"returned", "threw"} : call' = [call EXCEPT ![t] = s]
    BY <1>5 DEF Return, Throw
  <2>2. \A u \in Tasks : call'[u] # "none" <=> call[u] # "none"
    BY <2>1 DEF IInv, TypeOK, VariablesOK
  <2> QED BY <2>1, <2>2 DEF OrderInv, CalledOK, FirstInFirst, NoOvertaking, Before
<1>6. ASSUME NEW t \in Tasks, NEW k \in NamesOf[t],
             Acquire(t, k) \/ Refuse(t, k) \/ Release(t, k) \/ LoseRelease(t, k)
      PROVE  OrderInv'
  <2>1. PICK s \in {"held", "rejected", "settled", "hung"} :
          entry' = [entry EXCEPT ![t][k] = s]
    BY <1>6 DEF Acquire, Refuse, Release, LoseRelease, Settled, SettledLate
  <2>2. entry[t][k] # "queued" /\ UNCHANGED <<queue, call, called>>
    BY <1>6 DEF Acquire, Refuse, Release, LoseRelease
  <2>3. \A u \in Tasks, l \in Names : entry'[u][l] = "queued" <=> entry[u][l] = "queued"
    BY <2>1, <2>2 DEF IInv, TypeOK, VariablesOK
  <2> QED BY <1>1, <2>2, <2>3
<1>7. ASSUME NEW k \in Names, Expire(k) PROVE OrderInv'
  BY <1>1, <1>7 DEF Expire
<1>8. CASE UNCHANGED vars
  BY <1>1, <1>8 DEF vars
<1> QED BY <1>2, <1>3, <1>4, <1>5, <1>6, <1>7, <1>8 DEF Next

\* What InCallOrder says of a step.
InOrder(t, u) ==
  /\ task[t] = "idle" /\ task'[t] = "running"
  /\ Before(u, t) /\ ProcOf[u] = ProcOf[t] /\ Share(t, u)
  => Over(u) \/ \E k \in NamesOf[u] : entry[u][k] = "rejected"

\* A task called earlier has left the queue and the slot of a shared lock when
\* a later one has that slot.
LEMMA StepInOrder ==
  ASSUME IInv, OrderInv, [Next]_vars, NEW t \in Tasks, NEW u \in Tasks
  PROVE  InOrder(t, u)
<1> SUFFICES ASSUME task[t] = "idle", task'[t] = "running",
                    Before(u, t), ProcOf[u] = ProcOf[t], Share(t, u)
             PROVE  Over(u) \/ \E k \in NamesOf[u] : entry[u][k] = "rejected"
  BY DEF InOrder
<1>1. t # u /\ call[t] # "none" /\ call[u] # "none" BY BeforeFacts DEF OrderInv
<1>2. RunTask(t)
  <2>1. task \in [Tasks -> TaskStates] BY DEF IInv, TypeOK, VariablesOK
  <2>2. ASSUME NEW v \in Tasks, AddTask(v) PROVE FALSE
    <3>1. v # t BY <1>1, <2>2 DEF AddTask
    <3> QED BY <2>1, <2>2, <3>1 DEF AddTask
  <2>3. ASSUME NEW v \in Tasks, RunTask(v) PROVE RunTask(t)
    BY <2>1, <2>3 DEF RunTask
  <2>4. ASSUME NEW v \in Tasks, Complete(v) PROVE FALSE
    BY <2>1, <2>4 DEF Complete
  <2> QED BY <2>2, <2>3, <2>4 DEF Next, vars, Return, Throw, Acquire, Refuse,
             Release, LoseRelease, Dequeue, Expire
<1>3. PICK k \in NamesOf[t] : k \in NamesOf[u] BY DEF Share
<1>4. k \in Names /\ entry[t][k] = "held"
  BY <1>2, QueueConstants DEF RunTask
<1>5. entry[u][k] # "queued" BY <1>3, <1>4 DEF OrderInv, NoOvertaking
<1>6. entry[u][k] # "none" BY <1>1, <1>3 DEF IInv, CalledHasEntries
<1>7. ~InSlot(u, k) BY <1>1, <1>4 DEF IInv, OneInSlot, InSlot
<1>8. entry[u][k] \in EntryStates BY <1>4 DEF IInv, TypeOK, VariablesOK
<1>9. entry[u][k] \in {"settled", "rejected"}
  BY <1>5, <1>6, <1>7, <1>8 DEF EntryStates, InSlot
<1> QED BY <1>3, <1>4, <1>9 DEF IInv, EndedAfterTask

\* Calls of one process over a common lock are executed in the order in which
\* they were made, whatever becomes of the leases.
THEOREM ServedInCallOrder == Spec => InCallOrder
<1>1. Init => OrderInv
  BY QueueConstants DEF Init, OrderInv, CalledOK, Distinct, Elements, FirstInFirst, NoOvertaking, Before
<1>2. IInv /\ OrderInv /\ [Next]_vars => OrderInv' BY StepOrder
<1>3. IInv /\ OrderInv /\ [Next]_vars => [\A t, u \in Tasks : InOrder(t, u)]_vars
  BY StepInOrder
<1> QED BY <1>1, <1>2, <1>3, Invariance, PTL DEF Spec, InCallOrder, InOrder

=============================================================================
