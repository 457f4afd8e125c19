-------------------------- MODULE SerialExecution --------------------------
(***************************************************************************)
(* What the process queues promise together: a task begins at most once,    *)
(* and never while another task that names a lock of its own is running.    *)
(*                                                                         *)
(* Abstract: it stands for no code.  ProcessQueue refines it.               *)
(***************************************************************************)
CONSTANTS
  Tasks,    \* what is executed
  NamesOf   \* NamesOf[t]: the lock names task t asks for

VARIABLES
  running,  \* tasks begun and not ended
  ended     \* tasks that have ended, well or badly

serialVars == <<running, ended>>

SerialInit == running = {} /\ ended = {}

Begin(t) ==
  /\ t \notin running \cup ended
  /\ \A u \in running : NamesOf[t] \cap NamesOf[u] = {}
  /\ running' = running \cup {t}
  /\ UNCHANGED ended

End(t) ==
  /\ t \in running
  /\ running' = running \ {t}
  /\ ended' = ended \cup {t}

SerialNext == \E t \in Tasks : Begin(t) \/ End(t)

SerialSpec == SerialInit /\ [][SerialNext]_serialVars

=============================================================================
