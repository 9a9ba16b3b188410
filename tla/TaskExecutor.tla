---------------------------- MODULE TaskExecutor ----------------------------
(***************************************************************************)
(* What the JavaScript runtime promises to the rest of the application,    *)
(* independently of threads, handlers and loopers: a serial executor.      *)
(* A task that was accepted is pending until it is run; at most one task   *)
(* runs at a time; a task is run at most once; and the task chosen is      *)
(* always the earliest pending one, by due time and then by the order of   *)
(* acceptance.  A submission may also be refused, which changes nothing    *)
(* here.  EngineThread refines this specification.                         *)
(***************************************************************************)
EXTENDS Naturals

CONSTANTS Task,    \* tasks, each with the fields due and seq
          NoTask   \* no task is running; not a task

VARIABLES pending,   \* accepted, not yet begun
          current,   \* the task being run, or NoTask
          finished   \* tasks run to their end

vars == <<pending, current, finished>>

(* The order in which an executor serves its tasks.                        *)
Earlier(m, n) ==
  \/ m.due < n.due
  \/ m.due = n.due /\ m.seq < n.seq

Init ==
  /\ pending = {}
  /\ current = NoTask
  /\ finished = {}

Submit ==
  \E m \in Task :
    /\ m \notin pending \union {current} \union finished
    /\ pending' = pending \union {m}
    /\ UNCHANGED <<current, finished>>

Begin ==
  /\ current = NoTask
  /\ \E m \in pending :
       /\ \A n \in pending \ {m} : Earlier(m, n)
       /\ pending' = pending \ {m}
       /\ current' = m
  /\ UNCHANGED finished

End ==
  /\ current # NoTask
  /\ finished' = finished \union {current}
  /\ current' = NoTask
  /\ UNCHANGED pending

Next == Submit \/ Begin \/ End

Spec == Init /\ [][Next]_vars
=============================================================================
