-------------------------- MODULE TaskStore_proofs --------------------------
(***************************************************************************)
(* Machine-checked proofs about the life of a task: about TaskLifecycle,   *)
(* which promises it, about TaskStore, which implements the promise, and   *)
(* about StoreCrash, where the control plane dies at any statement.  They  *)
(* hold for any sets of tasks, workers, channels, labels and agents, any   *)
(* lease and any number of crashes.                                        *)
(***************************************************************************)
EXTENDS StoreCrash, TLAPS, FiniteSetTheorems

-----------------------------------------------------------------------------
(***************************************************************************)
(* The abstract life of a task.  Its holder is a variable of its own; here *)
(* it goes by the name of the column that implements it.                   *)
(***************************************************************************)

(***************************************************************************)
(* A task somebody works on has a holder, a task in the pool has none: the *)
(* abstract content of the store's worker_id column.                       *)
(***************************************************************************)
THEOREM HeldIffOutCorrect == Lifecycle!Spec => [](Lifecycle!LifecycleTypeOK /\ Lifecycle!HeldIffOut)
<1> DEFINE IInv == Lifecycle!LifecycleTypeOK /\ Lifecycle!HeldIffOut
<1>1. Lifecycle!Init => IInv
  BY DEF Lifecycle!Init, Lifecycle!LifecycleTypeOK, Lifecycle!HeldIffOut, Lifecycle!InFlight
<1>2. IInv /\ [Lifecycle!Next]_Lifecycle!vars => IInv'
  <2> SUFFICES ASSUME IInv, [Lifecycle!Next]_Lifecycle!vars PROVE IInv'
    OBVIOUS
  <2>1. CASE UNCHANGED Lifecycle!vars
    BY <2>1 DEF Lifecycle!vars, Lifecycle!LifecycleTypeOK, Lifecycle!HeldIffOut
  <2>2. CASE Lifecycle!Next
    <3>1. Lifecycle!LifecycleTypeOK'
      BY <2>2 DEF Lifecycle!Next, Lifecycle!LifecycleTypeOK
    <3>2. ASSUME NEW t \in Task
          PROVE  /\ status'[t] \in Lifecycle!InFlight \union {"stalled"} => workerId'[t] \in Worker
                 /\ status'[t] \in {"absent", "pending", "purged"} => workerId'[t] = None
      <4> USE <2>2 DEF Lifecycle!Next, Lifecycle!LifecycleTypeOK, Lifecycle!HeldIffOut, Lifecycle!InFlight
      <4>1. CASE Lifecycle!Enters(t)
        BY <4>1 DEF Lifecycle!Enters
      <4>2. CASE Lifecycle!Claimed(t)
        BY <4>2 DEF Lifecycle!Claimed
      <4>3. CASE Lifecycle!Advances(t)
        BY <4>3 DEF Lifecycle!Advances, Lifecycle!canTransition, Lifecycle!Transitions
      <4>4. CASE Lifecycle!Released(t)
        BY <4>4 DEF Lifecycle!Released
      <4>5. CASE Lifecycle!Purged(t)
        BY <4>5 DEF Lifecycle!Purged
      <4>6. CASE status'[t] = status[t] /\ workerId'[t] = workerId[t]
        BY <4>6
      <4> QED
        BY <4>1, <4>2, <4>3, <4>4, <4>5, <4>6 DEF Lifecycle!TaskStep
    <3> QED
      BY <3>1, <3>2 DEF Lifecycle!HeldIffOut
  <2> QED
    BY <2>1, <2>2
<1> QED
  BY <1>1, <1>2, PTL DEF Lifecycle!Spec

(***************************************************************************)
(* An outcome once reached stays, by the transition table alone.           *)
(***************************************************************************)
THEOREM OutcomeIsFinalCorrect == Lifecycle!Spec => Lifecycle!OutcomeIsFinal
<1> DEFINE A == \A t \in Task : status[t] \in Lifecycle!Terminal => status'[t] \in {status[t], "purged"}
<1>1. [Lifecycle!Next]_Lifecycle!vars => [A]_Lifecycle!vars
  <2> SUFFICES ASSUME Lifecycle!Next, NEW t \in Task, status[t] \in Lifecycle!Terminal
               PROVE  status'[t] \in {status[t], "purged"}
    OBVIOUS
  <2> QED
    BY DEF Lifecycle!Next, Lifecycle!TaskStep, Lifecycle!Enters, Lifecycle!Claimed,
           Lifecycle!Advances, Lifecycle!Released, Lifecycle!Purged, Lifecycle!Terminal,
           Lifecycle!InFlight, Lifecycle!canTransition, Lifecycle!Transitions
<1> QED
  BY <1>1, PTL DEF Lifecycle!Spec, Lifecycle!OutcomeIsFinal

(***************************************************************************)
(* A task never passes straight from one worker to another: claims happen  *)
(* only in the pool, and there nobody holds it.                            *)
(***************************************************************************)
THEOREM NoHandoverCorrect == Lifecycle!Spec => Lifecycle!NoHandover
<1> DEFINE A == \A t \in Task : workerId[t] # None => workerId'[t] \in {workerId[t], None}
<1>1. Lifecycle!HeldIffOut /\ [Lifecycle!Next]_Lifecycle!vars => [A]_Lifecycle!vars
  <2> SUFFICES ASSUME Lifecycle!HeldIffOut, Lifecycle!Next, NEW t \in Task, workerId[t] # None
               PROVE  workerId'[t] \in {workerId[t], None}
    OBVIOUS
  <2> QED
    BY DEF Lifecycle!HeldIffOut, Lifecycle!Next, Lifecycle!TaskStep, Lifecycle!Enters,
           Lifecycle!Claimed, Lifecycle!Advances, Lifecycle!Released, Lifecycle!Purged
<1> QED
  BY <1>1, HeldIffOutCorrect, PTL DEF Lifecycle!Spec, Lifecycle!NoHandover

-----------------------------------------------------------------------------
(***************************************************************************)
(* The methods of the store.                                               *)
(***************************************************************************)

(***************************************************************************)
(* Where a report can take a task, and from where: never into the pool and *)
(* never out of it.  This is what applyReport needs of REPORT_TARGET and   *)
(* the transition table together.                                          *)
(***************************************************************************)
LEMMA ReportTargets ==
  ASSUME NEW report \in Report
  PROVE  /\ Target(report) \in {"running", "rejected", "waiting", "completed", "failed"}
         /\ Target(report) \in Status
  BY DEF Report, Target, Status

LEMMA ReportMoves ==
  ASSUME NEW s, NEW report \in Report, canTransition(s, Target(report))
  PROVE  s \in InFlight \union {"stalled"}
  BY ReportTargets DEF canTransition, Transitions, InFlight

\* A decision of the user is taken from stalled, running or waiting.
LEMMA ResolutionMoves ==
  ASSUME NEW s, NEW action \in {"retry", "abandon"}, canTransition(s, Resolution[action])
  PROVE  /\ Resolution[action] \in {"pending", "failed"}
         /\ Resolution[action] = "pending" => s = "stalled"
         /\ Resolution[action] = "failed" => s \in {"running", "waiting", "stalled"}
         /\ action = "retry" <=> Resolution[action] = "pending"
  BY DEF Resolution, canTransition, Transitions

(***************************************************************************)
(* No method writes a value outside the column's type.                     *)
(***************************************************************************)
LEMMA TypeStep == TypeOK /\ [StoreNext]_storeVars => TypeOK'
<1> SUFFICES ASSUME TypeOK, [StoreNext]_storeVars PROVE TypeOK'
  OBVIOUS
<1> USE DEF TypeOK, identity
<1>1. ASSUME NEW t \in Task, NEW c \in Channel, NEW l \in Label,
             NEW a \in Agent \union {None}, createTask(t, c, l, a)
      PROVE  TypeOK'
  BY <1>1 DEF createTask, insertRow, Logs, Status
<1>2. ASSUME NEW w \in Worker, NEW labels \in SUBSET Label, NEW t \in Task,
             claimNext(w, labels, t)
      PROVE  TypeOK'
  BY <1>2, LeaseAssumption DEF claimNext, Logs, Status, LeaseValue
<1>3. ASSUME NEW t \in Task, NEW report \in Report, applyReport(t, report)
      PROVE  TypeOK'
  BY <1>3, ReportTargets DEF applyReport, reportRow, Logs
<1>4. ASSUME NEW t \in Task, NEW a \in Agent, setAgent(t, a)
      PROVE  TypeOK'
  BY <1>4 DEF setAgent, agentRow, Logs
<1>5. ASSUME NEW t \in Task, NEW action \in {"retry", "abandon"}, resolveStalled(t, action)
      PROVE  TypeOK'
  BY <1>5 DEF resolveStalled, resolveRow, Logs, Resolution, Status
<1>6. ASSUME NEW rows, Stall(rows)
      PROVE  TypeOK'
  BY <1>6 DEF Stall, StallLogging, Status
<1>7. ASSUME NEW w \in Worker, NEW ids \in SUBSET Task, extendWaitingLeases(w, ids)
      PROVE  TypeOK'
  BY <1>7, LeaseAssumption DEF extendWaitingLeases, LeaseValue
<1>8. ASSUME NEW c \in Channel, purgeTasks(c)
      PROVE  TypeOK'
  BY <1>8, LeaseAssumption DEF purgeTasks
<1>9. CASE Tick
  BY <1>9, LeaseAssumption DEF Tick, LeaseValue
<1>10. CASE UNCHANGED storeVars
  BY <1>10 DEF storeVars, taskVars
<1> QED
  BY <1>1, <1>2, <1>3, <1>4, <1>5, <1>6, <1>7, <1>8, <1>9, <1>10
  DEF StoreNext, UserStep, recoverWorkerTasks, sweepExpiredLeases

(***************************************************************************)
(* Every column keeps its type: in particular no method writes a status    *)
(* outside the protocol's, and a lease is never longer than LeaseSeconds.  *)
(***************************************************************************)
THEOREM TypeCorrect == StoreSpec => []TypeOK
<1>1. StoreInit => TypeOK
  BY LeaseAssumption DEF StoreInit, TypeOK, LeaseValue
<1> QED
  BY <1>1, TypeStep, PTL DEF StoreSpec

(***************************************************************************)
(* HeldAndLeased is inductive together with the types.                     *)
(***************************************************************************)
LEMMA HeldAndLeasedStep == TypeOK /\ HeldAndLeased /\ [StoreNext]_storeVars => HeldAndLeased'
<1> SUFFICES ASSUME TypeOK, HeldAndLeased, [StoreNext]_storeVars PROVE HeldAndLeased'
  OBVIOUS
<1> USE NoneAssumption DEF TypeOK, HeldAndLeased, identity
<1>1. ASSUME NEW t \in Task, NEW c \in Channel, NEW l \in Label,
             NEW a \in Agent \union {None}, createTask(t, c, l, a)
      PROVE  HeldAndLeased'
  BY <1>1 DEF createTask, insertRow, Logs, InFlight
<1>2. ASSUME NEW w \in Worker, NEW labels \in SUBSET Label, NEW t \in Task,
             claimNext(w, labels, t)
      PROVE  HeldAndLeased'
  BY <1>2, LeaseAssumption DEF claimNext, Logs, InFlight
<1>3. ASSUME NEW t \in Task, NEW report \in Report, applyReport(t, report)
      PROVE  HeldAndLeased'
  BY <1>3, ReportTargets, ReportMoves DEF applyReport, reportRow, Logs, InFlight
<1>4. ASSUME NEW t \in Task, NEW a \in Agent, setAgent(t, a)
      PROVE  HeldAndLeased'
  BY <1>4 DEF setAgent, agentRow, Logs
<1>5. ASSUME NEW t \in Task, NEW action \in {"retry", "abandon"}, resolveStalled(t, action)
      PROVE  HeldAndLeased'
  BY <1>5, ResolutionMoves DEF resolveStalled, resolveRow, Logs, InFlight
<1>6. ASSUME NEW rows \in SUBSET Task, \A t \in rows : status[t] \in InFlight, Stall(rows)
      PROVE  HeldAndLeased'
  BY <1>6 DEF Stall, StallLogging, InFlight
<1>7. ASSUME NEW w \in Worker, NEW ids \in SUBSET Task, extendWaitingLeases(w, ids)
      PROVE  HeldAndLeased'
  BY <1>7, LeaseAssumption DEF extendWaitingLeases, InFlight
<1>8. ASSUME NEW c \in Channel, purgeTasks(c)
      PROVE  HeldAndLeased'
  BY <1>8 DEF purgeTasks, InFlight
<1>9. CASE Tick
  BY <1>9 DEF Tick, LeaseValue
<1>10. CASE UNCHANGED storeVars
  BY <1>10 DEF storeVars, taskVars
<1>11. ASSUME NEW w \in Worker, recoverWorkerTasks(w)
       PROVE  HeldAndLeased'
  BY <1>11, <1>6 DEF recoverWorkerTasks, HeldBy
<1>12. CASE sweepExpiredLeases
  BY <1>12, <1>6 DEF sweepExpiredLeases
<1> QED
  BY <1>1, <1>2, <1>3, <1>4, <1>5, <1>7, <1>8, <1>9, <1>10, <1>11, <1>12 DEF StoreNext, UserStep

(***************************************************************************)
(* Every task in flight or stalled has a holder and a lease, so the sweep  *)
(* and the recovery find it; every task in the pool has neither.           *)
(***************************************************************************)
THEOREM HeldAndLeasedCorrect == StoreSpec => []HeldAndLeased
<1>1. StoreInit => HeldAndLeased
  BY DEF StoreInit, HeldAndLeased, InFlight
<1> QED
  BY <1>1, HeldAndLeasedStep, TypeCorrect, PTL DEF StoreSpec

(***************************************************************************)
(* The audit trail and the table agree at every moment: what the newest    *)
(* task_events row says is what the status column says.                    *)
(***************************************************************************)
THEOREM AuditCorrect == StoreSpec => []AuditExplainsStatus
<1>1. StoreInit => AuditExplainsStatus
  BY DEF StoreInit, AuditExplainsStatus, Row, Status
<1>2. TypeOK /\ AuditExplainsStatus /\ [StoreNext]_storeVars => AuditExplainsStatus'
  <2> SUFFICES ASSUME TypeOK, AuditExplainsStatus, [StoreNext]_storeVars
               PROVE  AuditExplainsStatus'
    OBVIOUS
  <2> USE DEF AuditExplainsStatus, Row, TypeOK, identity
  <2>1. ASSUME NEW t \in Task, NEW c \in Channel, NEW l \in Label,
               NEW a \in Agent \union {None}, createTask(t, c, l, a)
        PROVE  AuditExplainsStatus'
    BY <2>1 DEF createTask, insertRow, Logs, Explains, Target
  <2>2. ASSUME NEW w \in Worker, NEW labels \in SUBSET Label, NEW t \in Task,
               claimNext(w, labels, t)
        PROVE  AuditExplainsStatus'
    BY <2>2 DEF claimNext, Logs, Explains, Target
  <2>3. ASSUME NEW t \in Task, NEW report \in Report, applyReport(t, report)
        PROVE  AuditExplainsStatus'
    BY <2>3 DEF applyReport, reportRow, Logs, Explains, Report
  <2>4. ASSUME NEW t \in Task, NEW a \in Agent, setAgent(t, a)
        PROVE  AuditExplainsStatus'
    BY <2>4 DEF setAgent, agentRow, Logs, Explains, Target
  <2>5. ASSUME NEW t \in Task, NEW action \in {"retry", "abandon"}, resolveStalled(t, action)
        PROVE  AuditExplainsStatus'
    BY <2>5 DEF resolveStalled, resolveRow, Logs, Resolution, Explains
  <2>6. ASSUME NEW rows, Stall(rows)
        PROVE  AuditExplainsStatus'
    BY <2>6 DEF Stall, StallLogging, Explains, Target
  <2>7. ASSUME NEW w \in Worker, NEW ids \in SUBSET Task, extendWaitingLeases(w, ids)
        PROVE  AuditExplainsStatus'
    BY <2>7 DEF extendWaitingLeases
  <2>8. ASSUME NEW c \in Channel, purgeTasks(c)
        PROVE  AuditExplainsStatus'
    BY <2>8 DEF purgeTasks, Status
  <2>9. CASE Tick
    BY <2>9 DEF Tick
  <2>10. CASE UNCHANGED storeVars
    BY <2>10 DEF storeVars, taskVars
  <2> QED
    BY <2>1, <2>2, <2>3, <2>4, <2>5, <2>6, <2>7, <2>8, <2>9, <2>10
    DEF StoreNext, UserStep, recoverWorkerTasks, sweepExpiredLeases
<1> QED
  BY <1>1, <1>2, TypeCorrect, PTL DEF StoreSpec

(***************************************************************************)
(* A task leaves the pool only through claimNext: the fact behind the      *)
(* order of claims and behind the exclusive hand-out.                      *)
(***************************************************************************)
LEMMA PoolLeftByClaim ==
  ASSUME TypeOK, StoreNext, NEW t \in Task, status[t] = "pending", status'[t] = "claimed"
  PROVE  \E w \in Worker, labels \in SUBSET Label : claimNext(w, labels, t)
<1>1. ASSUME NEW u \in Task, NEW c \in Channel, NEW l \in Label,
             NEW a \in Agent \union {None}, createTask(u, c, l, a)
      PROVE  FALSE
  BY <1>1 DEF createTask, insertRow, Logs, TypeOK
<1>2. ASSUME NEW u \in Task, NEW report \in Report, applyReport(u, report)
      PROVE  FALSE
  BY <1>2, ReportMoves DEF applyReport, reportRow, Logs, TypeOK, InFlight
<1>3. ASSUME NEW u \in Task, NEW a \in Agent, setAgent(u, a)
      PROVE  FALSE
  BY <1>3 DEF setAgent, agentRow, Logs
<1>4. ASSUME NEW u \in Task, NEW action \in {"retry", "abandon"}, resolveStalled(u, action)
      PROVE  FALSE
  BY <1>4, ResolutionMoves DEF resolveStalled, resolveRow, Logs, TypeOK
<1>5. ASSUME NEW rows, Stall(rows)
      PROVE  FALSE
  BY <1>5 DEF Stall, StallLogging
<1>6. ASSUME NEW w \in Worker, NEW ids \in SUBSET Task, extendWaitingLeases(w, ids)
      PROVE  FALSE
  BY <1>6 DEF extendWaitingLeases
<1>7. ASSUME NEW c \in Channel, purgeTasks(c)
      PROVE  FALSE
  BY <1>7 DEF purgeTasks
<1>8. CASE Tick
  BY <1>8 DEF Tick
<1>9. ASSUME NEW w \in Worker, NEW labels \in SUBSET Label, NEW u \in Task,
             claimNext(w, labels, u)
      PROVE  u = t
  BY <1>9 DEF claimNext, Logs, TypeOK
<1> QED
  BY <1>1, <1>2, <1>3, <1>4, <1>5, <1>6, <1>7, <1>8, <1>9
  DEF StoreNext, UserStep, recoverWorkerTasks, sweepExpiredLeases

\* A task keeps its place in the line: the key claimNext sorts by is the stamp
\* of the insertion, for as long as the task is there.
TurnsKept == \A t \in Task : createdAt[t] = arrived[t]

LEMMA NewRowTakesItsTurn ==
  ASSUME TypeOK, TurnsKept, NEW t \in Task, NEW c, NEW l, NEW a, insertRow(t, c, l, a)
  PROVE  TurnsKept'
<1>1. PICK n \in 0 .. MaxStamp : /\ createdAt' = [createdAt EXCEPT ![t] = n]
                                 /\ arrived' = [arrived EXCEPT ![t] = n]
  BY DEF insertRow
<1> QED
  BY <1>1 DEF TypeOK, TurnsKept

LEMMA TurnsKeptStep == TypeOK /\ TurnsKept /\ [StoreNext]_storeVars => TurnsKept'
<1> SUFFICES ASSUME TypeOK, TurnsKept, [StoreNext]_storeVars PROVE TurnsKept'
  OBVIOUS
<1>1. ASSUME UNCHANGED identity PROVE TurnsKept'
  BY <1>1 DEF identity, TurnsKept
<1>2. ASSUME NEW t \in Task, NEW c \in Channel, NEW l \in Label,
             NEW a \in Agent \union {None}, createTask(t, c, l, a)
      PROVE  TurnsKept'
  BY <1>2, NewRowTakesItsTurn DEF createTask
<1>3. ASSUME NEW w \in Worker, NEW labels \in SUBSET Label, NEW t \in Task,
             claimNext(w, labels, t)
      PROVE  TurnsKept'
  BY <1>1, <1>3 DEF claimNext
<1>4. ASSUME NEW t \in Task, NEW report \in Report, applyReport(t, report)
      PROVE  TurnsKept'
  BY <1>1, <1>4 DEF applyReport, reportRow
<1>5. ASSUME NEW t \in Task, NEW a \in Agent, setAgent(t, a)
      PROVE  TurnsKept'
  BY <1>1, <1>5 DEF setAgent, agentRow
<1>6. ASSUME NEW t \in Task, NEW action \in {"retry", "abandon"}, resolveStalled(t, action)
      PROVE  TurnsKept'
  BY <1>1, <1>6 DEF resolveStalled, resolveRow
<1>7. ASSUME NEW rows, Stall(rows)
      PROVE  TurnsKept'
  BY <1>1, <1>7 DEF Stall, StallLogging
<1>8. ASSUME NEW w \in Worker, NEW ids \in SUBSET Task, extendWaitingLeases(w, ids)
      PROVE  TurnsKept'
  BY <1>1, <1>8 DEF extendWaitingLeases
<1>9. ASSUME NEW c \in Channel, purgeTasks(c)
      PROVE  TurnsKept'
  BY <1>9 DEF purgeTasks, TurnsKept
<1>10. CASE Tick
  BY <1>1, <1>10 DEF Tick
<1>11. CASE UNCHANGED storeVars
  BY <1>1, <1>11 DEF storeVars, taskVars, identity
<1> QED
  BY <1>2, <1>3, <1>4, <1>5, <1>6, <1>7, <1>8, <1>9, <1>10, <1>11
  DEF StoreNext, UserStep, recoverWorkerTasks, sweepExpiredLeases

LEMMA ClaimsTakeTheFirst ==
  ASSUME TypeOK, TurnsKept, StoreNext, NEW t \in Task, NEW u \in Task,
         status[t] = "pending", status'[t] = "claimed",
         status[u] = "pending", label[u] = label[t]
  PROVE  arrived[t] <= arrived[u]
<1>1. PICK w \in Worker, labels \in SUBSET Label : claimNext(w, labels, t)
  BY PoolLeftByClaim
<1>2. createdAt[t] <= createdAt[u]
  BY <1>1 DEF claimNext, Claimable
<1> QED
  BY <1>2 DEF TurnsKept

(***************************************************************************)
(* No task is overtaken in the pool by one of its label that came after    *)
(* it, whatever labels the claiming worker asked for and however often     *)
(* either of them was handed out, stalled and retried before.              *)
(***************************************************************************)
THEOREM FirstComeFirstServedCorrect == StoreSpec => FirstComeFirstServed
<1> DEFINE A == \A t, u \in Task :
                  /\ status[t] = "pending" /\ status'[t] = "claimed"
                  /\ status[u] = "pending" /\ label[u] = label[t]
                  => arrived[t] <= arrived[u]
<1>1. StoreInit => TurnsKept
  BY DEF StoreInit, TurnsKept
<1>2. TypeOK /\ TurnsKept /\ [StoreNext]_storeVars => [A]_storeVars
  BY ClaimsTakeTheFirst
<1> QED
  BY <1>1, <1>2, TurnsKeptStep, TypeCorrect, PTL DEF StoreSpec, FirstComeFirstServed

\* No method gives a task in flight that is not waiting a later lease.
LEMMA LeasesRunDown ==
  ASSUME TypeOK, HeldAndLeased, StoreNext, NEW t \in Task,
         status[t] \in {"claimed", "running"}, status'[t] \in InFlight
  PROVE  lease'[t] <= lease[t]
<1>0. lease[t] \in LeaseValue /\ lease[t] # None
  BY NoneAssumption DEF TypeOK, HeldAndLeased, InFlight
<1>1. lease[t] \in Int /\ (lease'[t] = lease[t] => lease'[t] <= lease[t])
  BY <1>0, LeaseAssumption DEF LeaseValue
<1> USE DEF TypeOK, InFlight, identity
<1>2. ASSUME NEW u \in Task, NEW c \in Channel, NEW l \in Label,
             NEW a \in Agent \union {None}, createTask(u, c, l, a)
      PROVE  lease'[t] <= lease[t]
  BY <1>1, <1>2 DEF createTask, insertRow, Logs
<1>3. ASSUME NEW w \in Worker, NEW labels \in SUBSET Label, NEW u \in Task,
             claimNext(w, labels, u)
      PROVE  lease'[t] <= lease[t]
  BY <1>1, <1>3 DEF claimNext, Logs, Claimable
<1>4. ASSUME NEW u \in Task, NEW report \in Report, applyReport(u, report)
      PROVE  lease'[t] <= lease[t]
  BY <1>1, <1>4 DEF applyReport, reportRow, Logs
<1>5. ASSUME NEW u \in Task, NEW a \in Agent, setAgent(u, a)
      PROVE  lease'[t] <= lease[t]
  BY <1>1, <1>5 DEF setAgent, agentRow, Logs
<1>6. ASSUME NEW u \in Task, NEW action \in {"retry", "abandon"}, resolveStalled(u, action)
      PROVE  lease'[t] <= lease[t]
  BY <1>1, <1>6, ResolutionMoves DEF resolveStalled, resolveRow, Logs
<1>7. ASSUME NEW rows, Stall(rows)
      PROVE  lease'[t] <= lease[t]
  BY <1>1, <1>7 DEF Stall, StallLogging
<1>8. ASSUME NEW w \in Worker, NEW ids \in SUBSET Task, extendWaitingLeases(w, ids)
      PROVE  lease'[t] <= lease[t]
  BY <1>1, <1>8 DEF extendWaitingLeases
<1>9. ASSUME NEW c \in Channel, purgeTasks(c)
      PROVE  lease'[t] <= lease[t]
  BY <1>1, <1>9 DEF purgeTasks
<1>10. CASE Tick
  BY <1>0, <1>1, <1>10 DEF Tick
<1> QED
  BY <1>2, <1>3, <1>4, <1>5, <1>6, <1>7, <1>8, <1>9, <1>10
  DEF StoreNext, UserStep, recoverWorkerTasks, sweepExpiredLeases

(***************************************************************************)
(* A heartbeat, or anything else, never lengthens the lease of a claimed   *)
(* or running task, so a silent agent is found one lease after the claim.  *)
(***************************************************************************)
THEOREM WorkNeverProlonged == StoreSpec => WorkIsNeverProlonged
<1> DEFINE A == \A t \in Task :
                  status[t] \in {"claimed", "running"} /\ status'[t] \in InFlight
                  => lease'[t] <= lease[t]
<1>1. TypeOK /\ HeldAndLeased /\ [StoreNext]_storeVars => [A]_storeVars
  BY LeasesRunDown
<1> QED
  BY <1>1, TypeCorrect, HeldAndLeasedCorrect, PTL DEF StoreSpec, WorkIsNeverProlonged

-----------------------------------------------------------------------------
(***************************************************************************)
(* Refinement.  Each method moves each task along one alternative of the   *)
(* abstract step, or leaves it alone.                                      *)
(***************************************************************************)
AbstractStep(t) ==
  Lifecycle!TaskStep(t) \/ (status'[t] = status[t] /\ workerId'[t] = workerId[t])

LEMMA StepsRefine ==
  ASSUME TypeOK, HeldAndLeased, StoreNext, NEW t \in Task
  PROVE  AbstractStep(t)
<1> USE DEF AbstractStep, Lifecycle!TaskStep, TypeOK, identity
<1>1. ASSUME NEW u \in Task, NEW c \in Channel, NEW l \in Label,
             NEW a \in Agent \union {None}, createTask(u, c, l, a)
      PROVE  AbstractStep(t)
  BY <1>1 DEF createTask, insertRow, Logs, Lifecycle!Enters, HeldAndLeased
<1>2. ASSUME NEW w \in Worker, NEW labels \in SUBSET Label, NEW u \in Task,
             claimNext(w, labels, u)
      PROVE  AbstractStep(t)
  BY <1>2 DEF claimNext, Logs, Claimable, Lifecycle!Claimed
<1>3. ASSUME NEW u \in Task, NEW report \in Report, applyReport(u, report)
      PROVE  AbstractStep(t)
  <2>1. Target(report) # "pending" /\ status[u] \in InFlight \union {"stalled"}
    BY <1>3, ReportTargets, ReportMoves DEF applyReport, reportRow, Logs
  <2> QED
    BY <1>3, <2>1 DEF applyReport, reportRow, Logs, Lifecycle!Advances, Lifecycle!InFlight, InFlight,
                      Lifecycle!canTransition, canTransition, Lifecycle!Transitions, Transitions
<1>4. ASSUME NEW u \in Task, NEW a \in Agent, setAgent(u, a)
      PROVE  AbstractStep(t)
  BY <1>4 DEF setAgent, agentRow, Logs
<1>5. ASSUME NEW u \in Task, NEW action \in {"retry", "abandon"}, resolveStalled(u, action)
      PROVE  AbstractStep(t)
  BY <1>5, ResolutionMoves
  DEF resolveStalled, resolveRow, Logs, Lifecycle!Released, Lifecycle!canTransition, canTransition,
      Lifecycle!Transitions, Transitions
<1>6. ASSUME NEW rows \in SUBSET Task, \A u \in rows : status[u] \in InFlight, Stall(rows)
      PROVE  AbstractStep(t)
  BY <1>6 DEF Stall, StallLogging, Lifecycle!Advances, Lifecycle!InFlight, InFlight,
              Lifecycle!canTransition, Lifecycle!Transitions
<1>7. ASSUME NEW w \in Worker, recoverWorkerTasks(w)
      PROVE  AbstractStep(t)
  BY <1>6, <1>7 DEF recoverWorkerTasks, HeldBy
<1>8. CASE sweepExpiredLeases
  BY <1>6, <1>8 DEF sweepExpiredLeases
<1>9. ASSUME NEW w \in Worker, NEW ids \in SUBSET Task, extendWaitingLeases(w, ids)
      PROVE  AbstractStep(t)
  BY <1>9 DEF extendWaitingLeases
<1>10. ASSUME NEW c \in Channel, purgeTasks(c)
       PROVE  AbstractStep(t)
  BY <1>10 DEF purgeTasks, Row, Lifecycle!Purged, Lifecycle!Status, Status
<1>11. CASE Tick
  BY <1>11 DEF Tick
<1> QED
  BY <1>1, <1>2, <1>3, <1>4, <1>5, <1>7, <1>8, <1>9, <1>10, <1>11 DEF StoreNext, UserStep

(***************************************************************************)
(* The task table implements the abstract life of a task, with worker_id   *)
(* as the holder.                                                          *)
(***************************************************************************)
THEOREM Refinement == StoreSpec => ImplementsLifecycle
<1>1. StoreInit => Lifecycle!Init
  BY DEF StoreInit, Lifecycle!Init
<1>2. TypeOK /\ TypeOK' /\ HeldAndLeased /\ [StoreNext]_storeVars => [Lifecycle!Next]_Lifecycle!vars
  <2>1. CASE UNCHANGED storeVars
    BY <2>1 DEF storeVars, taskVars, Lifecycle!vars
  <2>2. ASSUME TypeOK, TypeOK', HeldAndLeased, StoreNext PROVE Lifecycle!Next
    BY <2>2, StepsRefine DEF AbstractStep, Lifecycle!Next, TypeOK, Lifecycle!Status, Status
  <2> QED
    BY <2>1, <2>2
<1> QED
  BY <1>1, <1>2, TypeCorrect, HeldAndLeasedCorrect, PTL DEF StoreSpec, ImplementsLifecycle, Lifecycle!Spec

(***************************************************************************)
(* Hence no report, sweep, recovery, retry or abandon ever touches a       *)
(* finished task: the theorem of the abstract module, by refinement.       *)
(***************************************************************************)
THEOREM OutcomeFinal == StoreSpec => OutcomeIsFinal
  BY Refinement, OutcomeIsFinalCorrect DEF ImplementsLifecycle, OutcomeIsFinal

-----------------------------------------------------------------------------
(***************************************************************************)
(* The control plane dies at any statement.                                *)
(***************************************************************************)

\* A scan moves rows in flight only.
LEMMA ScanCutMoves ==
  ASSUME NEW rows \in SUBSET Task, \A t \in rows : status[t] \in InFlight, ScanCut(rows)
  PROVE  \E done \in SUBSET Task, logged \in SUBSET Task :
           (\A t \in done : status[t] \in InFlight) /\ StallLogging(done, logged)
<1>1. PICK done \in SUBSET rows :
        \/ StallLogging(done, done)
        \/ \E t \in rows \ done : StallLogging(done \union {t}, done)
  BY DEF ScanCut
<1>2. CASE StallLogging(done, done)
  BY <1>2
<1>3. ASSUME NEW t \in rows \ done, StallLogging(done \union {t}, done)
      PROVE  \E some \in SUBSET Task, logged \in SUBSET Task :
               (\A u \in some : status[u] \in InFlight) /\ StallLogging(some, logged)
  <2>1. done \union {t} \in SUBSET Task /\ done \in SUBSET Task
    OBVIOUS
  <2>2. \A u \in done \union {t} : status[u] \in InFlight
    OBVIOUS
  <2> QED
    BY <1>3, <2>1, <2>2
<1> QED
  BY <1>1, <1>2, <1>3

LEMMA ScansAreOfTasks ==
  /\ \A w \in Worker : HeldBy(w) \in SUBSET Task /\ \A t \in HeldBy(w) : status[t] \in InFlight
  /\ LET rows == { t \in Task : status[t] \in InFlight /\ Expired(t) }
     IN  rows \in SUBSET Task /\ \A t \in rows : status[t] \in InFlight
  BY DEF HeldBy

(***************************************************************************)
(* What a call cut short leaves behind is well formed, keeps holders and   *)
(* leases where they belong, and is a step of the life of every task.      *)
(***************************************************************************)
LEMMA CutKeeps ==
  ASSUME TypeOK, HeldAndLeased, Interrupted
  PROVE  TypeOK' /\ HeldAndLeased' /\ \A t \in Task : AbstractStep(t)
<1> DEFINE Good == TypeOK' /\ HeldAndLeased' /\ \A t \in Task : AbstractStep(t)
<1> USE DEF TypeOK, identity, NotLogged
<1>0. ASSUME UNCHANGED storeVars PROVE Good
  BY <1>0 DEF storeVars, taskVars, HeldAndLeased, AbstractStep
<1>1. ASSUME NEW t \in Task, NEW c \in Channel, NEW l \in Label, NEW a \in Agent \union {None},
             insertRow(t, c, l, a), NotLogged
      PROVE  Good
  <2>1. TypeOK'
    BY <1>1 DEF insertRow, Status
  <2>2. HeldAndLeased'
    BY <1>1 DEF insertRow, HeldAndLeased, InFlight
  <2>3. \A u \in Task : AbstractStep(u)
    BY <1>1 DEF insertRow, HeldAndLeased, AbstractStep, Lifecycle!TaskStep, Lifecycle!Enters
  <2> QED
    BY <2>1, <2>2, <2>3
<1>2. ASSUME NEW t \in Task, NEW report \in Report, reportRow(t, report), NotLogged
      PROVE  Good
  <2>0. /\ Target(report) \in Status /\ Target(report) # "pending"
        /\ Target(report) \in {"running", "rejected", "waiting", "completed", "failed"}
        /\ status[t] \in InFlight \union {"stalled"}
    BY <1>2, ReportTargets, ReportMoves DEF reportRow
  <2>1. TypeOK'
    BY <1>2, <2>0 DEF reportRow
  <2>2. HeldAndLeased'
    BY <1>2, <2>0 DEF reportRow, HeldAndLeased, InFlight
  <2>3. \A u \in Task : AbstractStep(u)
    BY <1>2, <2>0 DEF reportRow, AbstractStep, Lifecycle!TaskStep, Lifecycle!Advances,
       Lifecycle!InFlight, InFlight, Lifecycle!canTransition, canTransition,
       Lifecycle!Transitions, Transitions
  <2> QED
    BY <2>1, <2>2, <2>3
<1>3. ASSUME NEW t \in Task, NEW a \in Agent, agentRow(t, a), NotLogged
      PROVE  Good
  BY <1>3 DEF agentRow, HeldAndLeased, AbstractStep
<1>4. ASSUME NEW t \in Task, NEW action \in {"retry", "abandon"}, resolveRow(t, action), NotLogged
      PROVE  Good
  <2>1. TypeOK'
    BY <1>4 DEF resolveRow, Resolution, Status
  <2>2. HeldAndLeased'
    BY <1>4, ResolutionMoves DEF resolveRow, HeldAndLeased, InFlight
  <2>3. \A u \in Task : AbstractStep(u)
    BY <1>4, ResolutionMoves
    DEF resolveRow, AbstractStep, Lifecycle!TaskStep, Lifecycle!Released,
        Lifecycle!canTransition, canTransition, Lifecycle!Transitions, Transitions
  <2> QED
    BY <2>1, <2>2, <2>3
<1>5. ASSUME NEW rows \in SUBSET Task, \A t \in rows : status[t] \in InFlight, ScanCut(rows)
      PROVE  Good
  <2>1. PICK done \in SUBSET Task, logged \in SUBSET Task :
          (\A t \in done : status[t] \in InFlight) /\ StallLogging(done, logged)
    BY <1>5, ScanCutMoves
  <2>2. TypeOK'
    BY <2>1 DEF StallLogging, Status
  <2>3. HeldAndLeased'
    BY <2>1 DEF StallLogging, HeldAndLeased, InFlight
  <2>4. \A u \in Task : AbstractStep(u)
    BY <2>1 DEF StallLogging, AbstractStep, Lifecycle!TaskStep, Lifecycle!Advances,
       Lifecycle!InFlight, InFlight, Lifecycle!canTransition, Lifecycle!Transitions
  <2> QED
    BY <2>2, <2>3, <2>4
<1>6. ASSUME NEW w \in Worker, NEW ids \in SUBSET Task, extendWaitingLeases(w, ids)
      PROVE  Good
  <2>1. StoreNext
    BY <1>6 DEF StoreNext
  <2> QED
    BY <2>1, TypeStep, HeldAndLeasedStep, StepsRefine
<1> QED
  <2>1. ASSUME NEW w \in Worker, ScanCut(HeldBy(w)) PROVE Good
    BY <1>5, <2>1, ScansAreOfTasks
  <2>2. ASSUME ScanCut({ t \in Task : status[t] \in InFlight /\ Expired(t) }) PROVE Good
    BY <1>5, <2>2, ScansAreOfTasks
  <2>3. Good
    <3> HIDE DEF Good, TypeOK, identity, NotLogged
    <3> QED
      BY <1>0, <1>1, <1>2, <1>3, <1>4, <1>6, <2>1, <2>2 DEF Interrupted, ClaimCut
  <2> QED
    BY <2>3

CrashIInv == CrashTypeOK /\ HeldAndLeased

LEMMA TickIsStep == Tick => StoreNext
BY DEF StoreNext

LEMMA CrashIInvStep == CrashIInv /\ [CrashNext]_crashVars => CrashIInv'
<1> SUFFICES ASSUME CrashIInv, [CrashNext]_crashVars PROVE CrashIInv'
  OBVIOUS
<1> USE DEF CrashIInv, CrashTypeOK
<1>1. CASE StoreNext /\ UNCHANGED <<alive, outages>>
  BY <1>1, TypeStep, HeldAndLeasedStep
<1>2. CASE GoDown
  <2>1. TypeOK' /\ HeldAndLeased'
    BY <1>2, CutKeeps DEF GoDown
  <2>2. outages' \in 0 .. MaxOutages
    BY <1>2, CrashAssumption DEF GoDown
  <2>3. alive' \in BOOLEAN
    BY <1>2, Zenon DEF GoDown
  <2> QED
    BY <2>1, <2>2, <2>3
<1>3. CASE UNCHANGED storeVars /\ alive' \in BOOLEAN /\ outages' = outages
  BY <1>3, TypeStep, HeldAndLeasedStep
<1> QED
  BY <1>1, <1>2, <1>3, TickIsStep DEF CrashNext, ComeUp, crashVars

(***************************************************************************)
(* Through outages at any statement, every task in flight or stalled keeps *)
(* a holder and a lease, so that the sweep after the restart finds it.     *)
(***************************************************************************)
THEOREM CrashHeldAndLeased == CrashSpec => [](CrashTypeOK /\ HeldAndLeased)
<1>1. CrashInit => CrashIInv
  BY LeaseAssumption, CrashAssumption
  DEF CrashInit, StoreInit, CrashIInv, CrashTypeOK, TypeOK, LeaseValue, HeldAndLeased, InFlight
<1> QED
  BY <1>1, CrashIInvStep, PTL DEF CrashSpec, CrashIInv

(***************************************************************************)
(* Through outages at any statement, the table still implements the        *)
(* abstract life of a task: no half-executed method shows.                 *)
(***************************************************************************)
THEOREM CrashRefinement == CrashSpec => ImplementsLifecycle
<1>1. CrashInit => Lifecycle!Init
  BY DEF CrashInit, StoreInit, Lifecycle!Init
<1>2. CrashIInv /\ CrashIInv' /\ [CrashNext]_crashVars => [Lifecycle!Next]_Lifecycle!vars
  <2> SUFFICES ASSUME CrashIInv, CrashIInv', [CrashNext]_crashVars
               PROVE  [Lifecycle!Next]_Lifecycle!vars
    OBVIOUS
  <2> USE DEF CrashIInv, CrashTypeOK
  <2>1. CASE UNCHANGED storeVars
    BY <2>1 DEF storeVars, taskVars, Lifecycle!vars
  <2>2. CASE \A t \in Task : AbstractStep(t)
    BY <2>2 DEF AbstractStep, Lifecycle!Next, TypeOK, Lifecycle!Status, Status
  <2>3. CASE StoreNext
    BY <2>2, <2>3, StepsRefine
  <2>4. CASE GoDown
    BY <2>2, <2>4, CutKeeps DEF GoDown
  <2> QED
    BY <2>1, <2>3, <2>4, TickIsStep DEF CrashNext, ComeUp, crashVars
<1>3. CrashSpec => []CrashIInv
  BY CrashHeldAndLeased DEF CrashIInv
<1> QED
  BY <1>1, <1>2, <1>3, PTL DEF CrashSpec, ImplementsLifecycle, Lifecycle!Spec

(***************************************************************************)
(* Hence an outcome outlives every crash, and no crash passes a task from  *)
(* one worker to another.                                                  *)
(***************************************************************************)
THEOREM CrashOutcomeFinal == CrashSpec => OutcomeIsFinal /\ Lifecycle!NoHandover
  BY CrashRefinement, OutcomeIsFinalCorrect, NoHandoverCorrect DEF ImplementsLifecycle, OutcomeIsFinal

\* claimNext is a transaction: a crash inside it hands nothing out.
LEMMA CutsClaimNothing ==
  ASSUME TypeOK, Interrupted, NEW t \in Task, status[t] = "pending", status'[t] = "claimed"
  PROVE  FALSE
<1> USE DEF TypeOK, NotLogged
<1>1. ASSUME NEW u \in Task, NEW c \in Channel, NEW l \in Label, NEW a \in Agent \union {None},
             insertRow(u, c, l, a)
      PROVE  FALSE
  BY <1>1 DEF insertRow
<1>2. ASSUME NEW u \in Task, NEW report \in Report, reportRow(u, report)
      PROVE  FALSE
  BY <1>2, ReportTargets DEF reportRow
<1>3. ASSUME NEW u \in Task, NEW a \in Agent, agentRow(u, a)
      PROVE  FALSE
  BY <1>3 DEF agentRow
<1>4. ASSUME NEW u \in Task, NEW action \in {"retry", "abandon"}, resolveRow(u, action)
      PROVE  FALSE
  BY <1>4, ResolutionMoves DEF resolveRow
<1>5. ASSUME NEW done, NEW logged, StallLogging(done, logged)
      PROVE  FALSE
  BY <1>5 DEF StallLogging
<1>6. ASSUME NEW w \in Worker, NEW ids \in SUBSET Task, extendWaitingLeases(w, ids)
      PROVE  FALSE
  BY <1>6 DEF extendWaitingLeases
<1>7. ASSUME UNCHANGED storeVars PROVE FALSE
  BY <1>7 DEF storeVars, taskVars
<1> QED
  <2> HIDE DEF TypeOK, NotLogged
  <2> QED
    BY <1>1, <1>2, <1>3, <1>4, <1>5, <1>6, <1>7 DEF Interrupted, ClaimCut, ScanCut

\* A method cut short moves no task in the line.
LEMMA CutsKeepTurns ==
  ASSUME TypeOK, TurnsKept, Interrupted
  PROVE  TurnsKept'
<1>1. ASSUME UNCHANGED identity PROVE TurnsKept'
  BY <1>1 DEF identity, TurnsKept
<1>2. ASSUME NEW t \in Task, NEW c \in Channel, NEW l \in Label,
             NEW a \in Agent \union {None}, insertRow(t, c, l, a)
      PROVE  TurnsKept'
  BY <1>2, NewRowTakesItsTurn
<1>3. ASSUME NEW t \in Task, NEW report \in Report, reportRow(t, report)
      PROVE  TurnsKept'
  BY <1>1, <1>3 DEF reportRow
<1>4. ASSUME NEW t \in Task, NEW a \in Agent, agentRow(t, a)
      PROVE  TurnsKept'
  BY <1>1, <1>4 DEF agentRow
<1>5. ASSUME NEW t \in Task, NEW action \in {"retry", "abandon"}, resolveRow(t, action)
      PROVE  TurnsKept'
  BY <1>1, <1>5 DEF resolveRow
<1>6. ASSUME NEW done, NEW logged, StallLogging(done, logged)
      PROVE  TurnsKept'
  BY <1>1, <1>6 DEF StallLogging
<1>7. ASSUME NEW w \in Worker, NEW ids \in SUBSET Task, extendWaitingLeases(w, ids)
      PROVE  TurnsKept'
  BY <1>1, <1>7 DEF extendWaitingLeases
<1>8. ASSUME UNCHANGED storeVars PROVE TurnsKept'
  BY <1>1, <1>8 DEF storeVars, taskVars, identity
<1> QED
  BY <1>2, <1>3, <1>4, <1>5, <1>6, <1>7, <1>8 DEF Interrupted, ClaimCut, ScanCut

(***************************************************************************)
(* No crash costs a task its turn: not the cut retry, which may leave the  *)
(* row in the pool without its entry, and not the cut claim, which hands   *)
(* nothing out.                                                            *)
(***************************************************************************)
THEOREM CrashFirstComeFirstServed == CrashSpec => FirstComeFirstServed
<1> DEFINE A == \A t, u \in Task :
                  /\ status[t] = "pending" /\ status'[t] = "claimed"
                  /\ status[u] = "pending" /\ label[u] = label[t]
                  => arrived[t] <= arrived[u]
<1>1. CrashInit => TurnsKept
  BY DEF CrashInit, StoreInit, TurnsKept
<1>2. TypeOK /\ TurnsKept /\ StoreNext => A
  BY ClaimsTakeTheFirst
<1>3. TypeOK /\ GoDown => A
  BY CutsClaimNothing DEF GoDown
<1>4. CrashIInv /\ TurnsKept /\ [CrashNext]_crashVars => [A]_storeVars /\ TurnsKept'
  <2> HIDE DEF A
  <2>1. CrashIInv /\ TurnsKept /\ [CrashNext]_crashVars => [A]_storeVars
    BY <1>2, <1>3, TickIsStep DEF CrashNext, ComeUp, crashVars, CrashIInv, CrashTypeOK
  <2>2. CrashIInv /\ TurnsKept /\ [CrashNext]_crashVars => TurnsKept'
    BY TurnsKeptStep, CutsKeepTurns, TickIsStep
    DEF CrashNext, GoDown, ComeUp, crashVars, CrashIInv, CrashTypeOK
  <2> QED
    BY <2>1, <2>2
<1>5. CrashSpec => []CrashIInv
  BY CrashHeldAndLeased DEF CrashIInv
<1> QED
  BY <1>1, <1>4, <1>5, PTL DEF CrashSpec, FirstComeFirstServed

\* What a crash leaves of a method is no later lease either.
LEMMA CutsLengthenNothing ==
  ASSUME TypeOK, HeldAndLeased, Interrupted, NEW t \in Task,
         status[t] \in {"claimed", "running"}, status'[t] \in InFlight
  PROVE  lease'[t] <= lease[t]
<1>0. lease[t] \in LeaseValue /\ lease[t] # None
  BY NoneAssumption DEF TypeOK, HeldAndLeased, InFlight
<1>1. lease[t] \in Int /\ (lease'[t] = lease[t] => lease'[t] <= lease[t])
  BY <1>0, LeaseAssumption DEF LeaseValue
<1> USE DEF TypeOK, InFlight, NotLogged
<1>2. ASSUME NEW u \in Task, NEW c \in Channel, NEW l \in Label, NEW a \in Agent \union {None},
             insertRow(u, c, l, a)
      PROVE  lease'[t] <= lease[t]
  BY <1>1, <1>2 DEF insertRow
<1>3. ASSUME NEW u \in Task, NEW report \in Report, reportRow(u, report)
      PROVE  lease'[t] <= lease[t]
  BY <1>1, <1>3 DEF reportRow
<1>4. ASSUME NEW u \in Task, NEW a \in Agent, agentRow(u, a)
      PROVE  lease'[t] <= lease[t]
  BY <1>1, <1>4 DEF agentRow
<1>5. ASSUME NEW u \in Task, NEW action \in {"retry", "abandon"}, resolveRow(u, action)
      PROVE  lease'[t] <= lease[t]
  BY <1>1, <1>5, ResolutionMoves DEF resolveRow
<1>6. ASSUME NEW done, NEW logged, StallLogging(done, logged)
      PROVE  lease'[t] <= lease[t]
  BY <1>1, <1>6 DEF StallLogging
<1>7. ASSUME NEW w \in Worker, NEW ids \in SUBSET Task, extendWaitingLeases(w, ids)
      PROVE  lease'[t] <= lease[t]
  BY <1>1, <1>7 DEF extendWaitingLeases
<1>8. ASSUME UNCHANGED storeVars PROVE lease'[t] <= lease[t]
  BY <1>1, <1>8 DEF storeVars, taskVars
<1> QED
  <2> HIDE DEF TypeOK, InFlight, NotLogged
  <2> QED
    BY <1>2, <1>3, <1>4, <1>5, <1>6, <1>7, <1>8 DEF Interrupted, ClaimCut, ScanCut

(***************************************************************************)
(* No crash lengthens the lease of a claimed or running task.              *)
(***************************************************************************)
THEOREM CrashWorkNeverProlonged == CrashSpec => WorkIsNeverProlonged
<1> DEFINE A == \A t \in Task :
                  status[t] \in {"claimed", "running"} /\ status'[t] \in InFlight
                  => lease'[t] <= lease[t]
<1>1. TypeOK /\ HeldAndLeased /\ StoreNext => A
  BY LeasesRunDown
<1>2. TypeOK /\ HeldAndLeased /\ GoDown => A
  BY CutsLengthenNothing DEF GoDown
<1>3. CrashIInv /\ [CrashNext]_crashVars => [A]_storeVars
  <2> HIDE DEF A
  <2> QED
    BY <1>1, <1>2, TickIsStep DEF CrashNext, ComeUp, crashVars, CrashIInv, CrashTypeOK
<1>4. CrashSpec => []CrashIInv
  BY CrashHeldAndLeased DEF CrashIInv
<1> QED
  BY <1>3, <1>4, PTL DEF CrashSpec, WorkIsNeverProlonged

-----------------------------------------------------------------------------
(***************************************************************************)
(* The gaps in the trail.                                                  *)
(***************************************************************************)

\* A task whose row and newest entry stay, or are written together, is no
\* new gap.
LEMMA StepsExplain ==
  ASSUME TypeOK, StoreNext
  PROVE  Unexplained' \subseteq Unexplained
<1> DEFINE Good == Unexplained' \subseteq Unexplained
<1> USE DEF TypeOK, Unexplained, Row, identity
<1>1. ASSUME NEW t \in Task, NEW c \in Channel, NEW l \in Label, NEW a \in Agent \union {None},
             createTask(t, c, l, a)
      PROVE  Good
  BY <1>1 DEF createTask, insertRow, Logs, Explains
<1>2. ASSUME NEW w \in Worker, NEW labels \in SUBSET Label, NEW t \in Task,
             claimNext(w, labels, t)
      PROVE  Good
  BY <1>2 DEF claimNext, Logs, Explains, Target
<1>3. ASSUME NEW t \in Task, NEW report \in Report, applyReport(t, report)
      PROVE  Good
  BY <1>3 DEF applyReport, reportRow, Logs, Explains, Report
<1>4. ASSUME NEW t \in Task, NEW a \in Agent, setAgent(t, a)
      PROVE  Good
  BY <1>4 DEF setAgent, agentRow, Logs, Explains
<1>5. ASSUME NEW t \in Task, NEW action \in {"retry", "abandon"}, resolveStalled(t, action)
      PROVE  Good
  BY <1>5 DEF resolveStalled, resolveRow, Logs, Resolution, Explains
<1>6. ASSUME NEW rows, Stall(rows)
      PROVE  Good
  BY <1>6 DEF Stall, StallLogging, Explains, Target
<1>7. ASSUME NEW w \in Worker, NEW ids \in SUBSET Task, extendWaitingLeases(w, ids)
      PROVE  Good
  BY <1>7 DEF extendWaitingLeases
<1>8. ASSUME NEW c \in Channel, purgeTasks(c)
      PROVE  Good
  BY <1>8 DEF purgeTasks, Status
<1>9. CASE Tick
  BY <1>9 DEF Tick
<1> QED
  BY <1>1, <1>2, <1>3, <1>4, <1>5, <1>6, <1>7, <1>8, <1>9
  DEF StoreNext, UserStep, recoverWorkerTasks, sweepExpiredLeases

\* Whatever a crash cuts short, it leaves one gap more at most.
LEMMA CutLeavesOneGap ==
  ASSUME TypeOK, Interrupted
  PROVE  \E g : Unexplained' \subseteq Unexplained \union {g}
<1> DEFINE Good == \E g : Unexplained' \subseteq Unexplained \union {g}
<1> USE DEF TypeOK, Unexplained, Row, identity, NotLogged
<1>0. ASSUME UNCHANGED storeVars PROVE Good
  BY <1>0 DEF storeVars, taskVars
<1>1. ASSUME NEW t \in Task, NEW c \in Channel, NEW l \in Label, NEW a \in Agent \union {None},
             insertRow(t, c, l, a), NotLogged
      PROVE  Good
  <2>1. Unexplained' \subseteq Unexplained \union {t}
    BY <1>1 DEF insertRow
  <2> QED
    BY <2>1
<1>2. ASSUME NEW t \in Task, NEW report \in Report, reportRow(t, report), NotLogged
      PROVE  Good
  <2>1. Unexplained' \subseteq Unexplained \union {t}
    BY <1>2 DEF reportRow
  <2> QED
    BY <2>1
<1>3. ASSUME NEW t \in Task, NEW a \in Agent, agentRow(t, a), NotLogged
      PROVE  Good
  BY <1>3 DEF agentRow
<1>4. ASSUME NEW t \in Task, NEW action \in {"retry", "abandon"}, resolveRow(t, action), NotLogged
      PROVE  Good
  <2>1. Unexplained' \subseteq Unexplained \union {t}
    BY <1>4 DEF resolveRow
  <2> QED
    BY <2>1
<1>5. ASSUME NEW rows \in SUBSET Task, ScanCut(rows)
      PROVE  Good
  <2>1. PICK done \in SUBSET rows :
          \/ StallLogging(done, done)
          \/ \E t \in rows \ done : StallLogging(done \union {t}, done)
    BY <1>5 DEF ScanCut
  <2>2. CASE StallLogging(done, done)
    BY <2>2 DEF StallLogging, Explains, Target
  <2>3. ASSUME NEW t \in rows \ done, StallLogging(done \union {t}, done)
        PROVE  Good
    <3>1. Unexplained' \subseteq Unexplained \union {t}
      BY <2>3 DEF StallLogging, Explains, Target
    <3> QED
      BY <3>1
  <2> QED
    BY <2>1, <2>2, <2>3
<1>6. ASSUME NEW w \in Worker, NEW ids \in SUBSET Task, extendWaitingLeases(w, ids)
      PROVE  Good
  BY <1>6 DEF extendWaitingLeases
<1>7. Good
  <2> HIDE DEF Good, TypeOK, identity, NotLogged
  <2> QED
    BY <1>0, <1>1, <1>2, <1>3, <1>4, <1>5, <1>6, ScansAreOfTasks DEF Interrupted, ClaimCut
<1> QED
  BY <1>7

LEMMA OneMore ==
  ASSUME NEW S, NEW T, NEW g, NEW n \in Nat, IsFiniteSet(S), Cardinality(S) <= n,
         T \subseteq S \union {g}
  PROVE  IsFiniteSet(T) /\ Cardinality(T) <= n + 1
<1>0. Cardinality(S) \in Nat
  BY FS_CardinalityType
<1>1. /\ IsFiniteSet(S \union {g})
      /\ Cardinality(S \union {g}) = IF g \in S THEN Cardinality(S) ELSE Cardinality(S) + 1
  BY FS_AddElement, Zenon
<1>2. IsFiniteSet(T) /\ Cardinality(T) <= Cardinality(S \union {g})
  BY <1>1, FS_Subset
<1> QED
  BY <1>0, <1>1, <1>2, FS_CardinalityType

(***************************************************************************)
(* However many tasks there are and wherever the outages fall, the trail   *)
(* never lacks more entries than there were outages.                       *)
(***************************************************************************)
THEOREM GapsBounded == CrashSpec => []GapsAreBounded
<1> DEFINE Few == IsFiniteSet(Unexplained) /\ Cardinality(Unexplained) <= outages
<1>1. CrashInit => Few
  <2>1. CrashInit => Unexplained = {}
    BY DEF CrashInit, StoreInit, Unexplained, Row, Status
  <2> QED
    BY <2>1, FS_EmptySet DEF CrashInit
<1>2. CrashIInv /\ Few /\ [CrashNext]_crashVars => Few'
  <2> SUFFICES ASSUME CrashIInv, Few, [CrashNext]_crashVars PROVE Few'
    OBVIOUS
  <2>0. outages \in Nat
    BY CrashAssumption DEF CrashIInv, CrashTypeOK
  <2>1. CASE Unexplained' \subseteq Unexplained /\ outages' = outages
    BY <2>0, <2>1, FS_Subset, FS_CardinalityType
  <2>2. CASE UNCHANGED storeVars /\ outages' = outages
    BY <2>1, <2>2 DEF storeVars, taskVars, Unexplained, Row
  <2>3. CASE StoreNext /\ outages' = outages
    BY <2>1, <2>3, StepsExplain DEF CrashIInv, CrashTypeOK
  <2>4. CASE GoDown
    <3>1. PICK g : Unexplained' \subseteq Unexplained \union {g}
      BY <2>4, CutLeavesOneGap DEF GoDown, CrashIInv, CrashTypeOK
    <3> QED
      BY <2>0, <2>4, <3>1, OneMore DEF GoDown
  <2> QED
    BY <2>2, <2>3, <2>4, TickIsStep DEF CrashNext, ComeUp, crashVars
<1>3. CrashSpec => []CrashIInv
  BY CrashHeldAndLeased DEF CrashIInv
<1>4. Few => GapsAreBounded
  BY DEF GapsAreBounded
<1> QED
  BY <1>1, <1>2, <1>3, <1>4, PTL DEF CrashSpec

=============================================================================
