--------------------------- MODULE TaskLifecycle ---------------------------
(***************************************************************************)
(* What the task store promises, without leases, clocks, labels or an      *)
(* audit trail: a task is held by at most one worker at a time, it gets a  *)
(* holder only by being claimed from the pending pool, it goes back to the *)
(* pool only from "stalled", and an outcome once reached stays.            *)
(*                                                                         *)
(* A step may move several tasks at once (the lease sweep does), each of   *)
(* them along one of the alternatives of TaskStep.                         *)
(***************************************************************************)
EXTENDS TaskStates

CONSTANTS Task,     \* task identifiers
          Worker,   \* worker identifiers (workerId of the configuration)
          None      \* SQL NULL

VARIABLES status,   \* Task -> Status, "absent" before the row, "purged" after it
          holder    \* Task -> the worker the task was handed to, or None

vars == <<status, holder>>

LifecycleTypeOK ==
  /\ status \in [Task -> Status \union {"absent", "purged"}]
  /\ holder \in [Task -> Worker \union {None}]

Init ==
  /\ status = [t \in Task |-> "absent"]
  /\ holder = [t \in Task |-> None]

\* One step of one task, on its own pair of cells.
Enters(t) ==        \* the row is inserted
  /\ status[t] = "absent"
  /\ status'[t] = "pending"
  /\ holder'[t] = None

Claimed(t) ==       \* a worker takes it out of the pool
  /\ status[t] = "pending"
  /\ status'[t] = "claimed"
  /\ holder'[t] \in Worker

Advances(t) ==      \* the holder reports, or is found gone
  /\ status[t] \in InFlight \union {"stalled"}
  /\ status'[t] # "pending"
  /\ canTransition(status[t], status'[t])
  /\ holder'[t] = holder[t]

Released(t) ==      \* the user sends it back to the pool, or gives up on it
  /\ \/ status[t] = "stalled" /\ status'[t] = "pending"
     \/ canTransition(status[t], "failed") /\ status'[t] = "failed"
  /\ holder'[t] = None

Purged(t) ==        \* the channel is deleted with its records
  /\ status[t] \in Status
  /\ status'[t] = "purged"
  /\ holder'[t] = None

TaskStep(t) ==
  \/ Enters(t)
  \/ Claimed(t)
  \/ Advances(t)
  \/ Released(t)
  \/ Purged(t)

Next ==
  /\ \A t \in Task : TaskStep(t) \/ (status'[t] = status[t] /\ holder'[t] = holder[t])
  /\ status' \in [Task -> Status \union {"absent", "purged"}]
  /\ holder' \in [Task -> Worker \union {None}]

Spec == Init /\ [][Next]_vars

(***************************************************************************)
(* A task that somebody works on, or worked on when it stalled, has a      *)
(* holder; a task in the pool has none.                                    *)
(***************************************************************************)
HeldIffOut ==
  \A t \in Task :
    /\ status[t] \in InFlight \union {"stalled"} => holder[t] \in Worker
    /\ status[t] \in {"absent", "pending", "purged"} => holder[t] = None

\* An outcome is final: a finished task never changes again, except that
\* its record may be deleted with its channel.
OutcomeIsFinal ==
  [][\A t \in Task : status[t] \in Terminal => status'[t] \in {status[t], "purged"}]_vars

\* Work changes hands only through the pool: a task never passes from one
\* worker to another without having been released in between.
NoHandover ==
  [][\A t \in Task : holder[t] # None => holder'[t] \in {holder[t], None}]_vars

=============================================================================
