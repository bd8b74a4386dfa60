----------------------- MODULE ExecutionPlane_proofs -----------------------
(***************************************************************************)
(* Machine-checked proofs about ExecutionPlane, for any numbers of         *)
(* workers, loops, tasks, attempts and crashes: the workers use the task   *)
(* table as TaskStore allows, so that its theorems hold of the whole; no   *)
(* agent is started without consent; in the first claim of a task, table   *)
(* and worker agree and the loop can be reached; and, with one loop per    *)
(* worker, no loop leaves a task before its lease is over.  The screen of  *)
(* WorkerScreen does nothing to all this that its user could not do        *)
(* without it.                                                             *)
(***************************************************************************)
EXTENDS WorkerScreen, TaskStore_proofs

-----------------------------------------------------------------------------
(***************************************************************************)
(* The composition.                                                        *)
(***************************************************************************)

Quiet == UNCHANGED storeVars

\* What a call may do to the table.
LEMMA CallsAreStoreSteps ==
  ASSUME NEW t \in Task, NEW report \in Report, Answered(t, report) \/ Thrown(t, report)
  PROVE  StoreNext \/ Quiet
  BY DEF Answered, Thrown, StoreNext, Quiet, storeVars

LEMMA LoopStepsStore ==
  ASSUME NEW l \in Loop, LoopStep(l), Working(l) => loop[l].task \in Task
  PROVE  StoreNext \/ Quiet
<1> USE DEF Quiet, storeVars
<1>1. ASSUME NEW t \in Task, Claim(l, t)
      PROVE  StoreNext
  <2>1. claimNext(WorkerOf(l), Label, t) /\ WorkerOf(l) \in Worker
    BY <1>1 DEF Claim, At, WorkerOf, Loop
  <2>2. Label # {}
    BY <2>1 DEF claimNext, Claimable
  <2> QED
    BY <2>1, <2>2 DEF StoreNext
<1>2. CASE Gate(l)
  BY <1>2, CallsAreStoreSteps DEF Gate, At, Working, Report
<1>3. CASE Start(l)
  BY <1>3, CallsAreStoreSteps DEF Start, At, Working, Report
<1>4. CASE Consume(l) \/ GiveUp(l)
  BY <1>4 DEF Consume, GiveUp
<1>5. CASE AskWhileRunning(l)
  BY <1>5, CallsAreStoreSteps DEF AskWhileRunning, At, Working, Report
<1>6. CASE Resume(l)
  BY <1>6, CallsAreStoreSteps DEF Resume, At, Working, Report
<1>7. CASE Conclude(l)
  BY <1>7, CallsAreStoreSteps DEF Conclude, LastReport, Working, Report
<1> QED
  BY <1>1, <1>2, <1>3, <1>4, <1>5, <1>6, <1>7 DEF LoopStep

LEMMA StepsOfStore ==
  ASSUME \A l \in Loop : Working(l) => loop[l].task \in Task, [Next]_vars
  PROVE  [StoreNext]_storeVars
<1> USE DEF Quiet, storeVars
<1>1. ASSUME NEW l \in Loop, LoopStep(l)
      PROVE  StoreNext \/ Quiet
  BY <1>1, LoopStepsStore
<1>2. ASSUME NEW l \in Loop, AdapterFails(l)
      PROVE  Quiet
  BY <1>2 DEF AdapterFails
<1>3. ASSUME NEW t \in Task, NEW k \in Attempt,
             (\E outcome \in Outcome : AgentReports(t, k, outcome)) \/ AgentAsks(t, k) \/ AgentDies(t, k)
      PROVE  Quiet
  BY <1>3 DEF AgentReports, AgentAsks, AgentDies
<1>4. ASSUME NEW w \in Worker, Heartbeat(w)
      PROVE  StoreNext
  <2>1. { t \in Task : approver[w][t] # None } \in SUBSET Task
    OBVIOUS
  <2> QED
    BY <1>4, <2>1 DEF Heartbeat, StoreNext
<1>5. ASSUME NEW w \in Worker, Crash(w) \/ Restart(w)
      PROVE  StoreNext \/ Quiet
  BY <1>5 DEF Crash, Restart, StoreNext
<1>6. CASE Outside
  BY <1>6 DEF Outside, Arrive, Purge, StoreNext
<1>7. CASE Elapse
  BY <1>7 DEF Elapse, StoreNext
<1>8. CASE ByHand
  BY ZenonT(60), <1>8 DEF ByHand, Decide, Finish, ChooseAgent, Resolve, StoreNext, UserStep
<1>9. CASE UNCHANGED vars
  BY <1>9 DEF vars
<1> QED
  BY <1>1, <1>2, <1>3, <1>4, <1>5, <1>6, <1>7, <1>8, <1>9 DEF Next, Autonomous

-----------------------------------------------------------------------------
(***************************************************************************)
(* What a worker holds.  The types alone are not inductive: a step uses    *)
(* the task and attempt of a run, and a decision the loop it is for.       *)
(***************************************************************************)

RunsAreOfClaims ==
  \A l \in Loop : Working(l) => loop[l].task \in Task /\ loop[l].attempt \in Attempt

\* A resolver is the one of a loop of this worker that waits for this task.
ApproversWait ==
  \A w \in Worker, t \in Task :
    LET l == approver[w][t]
    IN  l # None => WorkerOf(l) = w /\ loop[l].task = t /\ Awaiting(l)

WorkerInv == WorkerTypeOK /\ RunsAreOfClaims /\ ApproversWait

LEMMA LoopsOfWorkers ==
  ASSUME NEW l \in Loop
  PROVE  WorkerOf(l) \in Worker /\ l # None
BY LoopAssumption DEF Loop, WorkerOf

LEMMA GotoPlace ==
  ASSUME WorkerTypeOK, NEW l \in Loop, NEW pc \in Pc, Goto(l, pc)
  PROVE  loop' \in [Loop -> Place]
<1>1. loop[l] \in Place BY DEF WorkerTypeOK
<1>2. [loop[l] EXCEPT !.pc = pc] \in Place BY <1>1 DEF Place
<1>3. loop' = [loop EXCEPT ![l] = [loop[l] EXCEPT !.pc = pc]] BY DEF Goto
<1> QED BY <1>2, <1>3 DEF WorkerTypeOK

LEMMA FinallyKeeps ==
  ASSUME WorkerInv, NEW l \in Loop, Working(l), Finally(l)
  PROVE  /\ loop' \in [Loop -> Place]
         /\ items' \in [Loop -> Seq(Item)]
         /\ \A m \in Loop : Len(items'[m]) <= MaxQueue
         /\ queueOf' \in [Worker -> [Task -> Loop \union {None}]]
         /\ approver' \in [Worker -> [Task -> Loop \union {None}]]
         /\ RunsAreOfClaims' /\ ApproversWait'
<1> USE ExecutionAssumption, LeaseAssumption, LoopsOfWorkers
<1>1. loop' \in [Loop -> Place]
  BY DEF Finally, WorkerInv, WorkerTypeOK, Idle, Place, Pc
<1>2. items' \in [Loop -> Seq(Item)] /\ \A m \in Loop : Len(items'[m]) <= MaxQueue
  BY DEF Finally, WorkerInv, WorkerTypeOK
<1>3. /\ queueOf' \in [Worker -> [Task -> Loop \union {None}]]
      /\ approver' \in [Worker -> [Task -> Loop \union {None}]]
  BY DEF Finally, WorkerInv, WorkerTypeOK
<1>4. RunsAreOfClaims'
  BY DEF Finally, WorkerInv, WorkerTypeOK, RunsAreOfClaims, Working, Idle
<1>5. ApproversWait'
  BY DEF Finally, WorkerInv, WorkerTypeOK, ApproversWait, Awaiting
<1> QED
  BY <1>1, <1>2, <1>3, <1>4, <1>5

LEMMA AskHumanKeeps ==
  ASSUME WorkerInv, NEW l \in Loop, Working(l), NEW pc \in {"awaitStart", "awaitRun"},
         AskHuman(l, pc)
  PROVE  /\ loop' \in [Loop -> Place]
         /\ approver' \in [Worker -> [Task -> Loop \union {None}]]
         /\ RunsAreOfClaims' /\ ApproversWait'
<1> USE LoopsOfWorkers
<1>1. loop' \in [Loop -> Place]
  BY GotoPlace DEF AskHuman, WorkerInv, Pc
<1>2. approver' \in [Worker -> [Task -> Loop \union {None}]]
  BY DEF AskHuman, WorkerInv, WorkerTypeOK
<1>3. RunsAreOfClaims'
  BY DEF AskHuman, Goto, WorkerInv, WorkerTypeOK, RunsAreOfClaims, Working
<1>4. ApproversWait'
  BY DEF AskHuman, Goto, WorkerInv, WorkerTypeOK, RunsAreOfClaims, ApproversWait, Awaiting, Working
<1> QED
  BY <1>1, <1>2, <1>3, <1>4

LEMMA ListeningPlace ==
  ASSUME WorkerTypeOK, NEW l \in Loop
  PROVE  /\ Listening(l) \in Place /\ Listening(l).pc = "running"
         /\ Listening(l).task = loop[l].task /\ Listening(l).attempt = loop[l].attempt
<1>1. loop[l] \in Place
  BY DEF WorkerTypeOK
<1>2. "running" \in Pc /\ 0 \in 0 .. MaxAttempts /\ LeaseSeconds \in 0 .. LeaseSeconds
  BY LeaseAssumption, ExecutionAssumption DEF Pc
<1>3. Listening(l) \in Place
  BY <1>1, <1>2 DEF Listening, Place
<1>4. Listening(l).pc = "running"
  BY <1>1 DEF Listening, Place
<1>5. Listening(l).task = loop[l].task
  BY <1>1 DEF Listening, Place
<1>6. Listening(l).attempt = loop[l].attempt
  BY <1>1 DEF Listening, Place
<1> QED
  BY <1>3, <1>4, <1>5, <1>6

\* Every step of a loop.
LEMMA LoopStepKeeps ==
  ASSUME WorkerInv, NEW l \in Loop, LoopStep(l)
  PROVE  WorkerInv'
<1> USE ExecutionAssumption, LeaseAssumption, LoopsOfWorkers
<1>1. ASSUME NEW t \in Task, Claim(l, t)
      PROVE  WorkerInv'
  <2> DEFINE place == [Idle EXCEPT !.pc = "gate", !.task = t, !.attempt = claims[t] + 1]
  <2>1. claims[t] + 1 \in Attempt /\ claims' \in [Task -> 0 .. MaxAttempts]
    BY <1>1 DEF Claim, WorkerInv, WorkerTypeOK, Attempt
  <2>2. /\ place \in Place /\ place.pc = "gate"
        /\ place.task = t /\ place.attempt = claims[t] + 1
    <3>1. /\ "gate" \in Pc /\ 0 \in 0 .. MaxAttempts /\ 0 \in 0 .. LeaseSeconds
          /\ claims[t] + 1 \in 0 .. MaxAttempts
      BY <2>1 DEF Pc, Attempt
    <3> QED
      BY <3>1 DEF Idle, Place
  <2>3. loop' = [loop EXCEPT ![l] = place] \/ loop' = loop
    BY <1>1 DEF Claim
  <2> HIDE DEF place
  <2>4. loop' \in [Loop -> Place]
    BY <2>2, <2>3 DEF WorkerInv, WorkerTypeOK
  <2>5. WorkerTypeOK'
    BY <1>1, <2>1, <2>4 DEF Claim, WorkerInv, WorkerTypeOK
  <2>6. RunsAreOfClaims'
    BY <2>1, <2>2, <2>3 DEF WorkerInv, WorkerTypeOK, RunsAreOfClaims, Working
  <2>7. approver' = approver /\ loop[l].pc = "idle"
    BY <1>1 DEF Claim, At
  <2>8. ApproversWait'
    <3>1. \A m \in Loop : Awaiting(m) => loop'[m] = loop[m]
      BY <2>3, <2>7 DEF WorkerInv, WorkerTypeOK, Awaiting
    <3> QED
      <4>1. SUFFICES ASSUME NEW w \in Worker, NEW u \in Task, approver[w][u] # None
                     PROVE  /\ WorkerOf(approver[w][u]) = w
                            /\ loop'[approver[w][u]].task = u
                            /\ loop'[approver[w][u]].pc \in {"awaitStart", "awaitRun"}
        BY <2>7 DEF ApproversWait, Awaiting
      <4>2. approver[w][u] \in Loop
        BY <4>1 DEF WorkerInv, WorkerTypeOK
      <4> QED
        BY <3>1, <4>1, <4>2 DEF WorkerInv, ApproversWait, Awaiting
  <2> QED
    BY <2>5, <2>6, <2>8 DEF WorkerInv
<1>2. CASE Gate(l)
  <2>1. Working(l) /\ loop[l].task \in Task /\ loop[l].attempt \in Attempt
    BY <1>2 DEF Gate, At, Working, WorkerInv, RunsAreOfClaims
  <2>2. CASE Finally(l) /\ consent' = consent
    BY <1>2, <2>1, <2>2, FinallyKeeps DEF Gate, WorkerInv, WorkerTypeOK, Finally
  <2>3. CASE AskHuman(l, "awaitStart") /\ consent' = consent
    BY <1>2, <2>1, <2>3, AskHumanKeeps DEF Gate, WorkerInv, WorkerTypeOK, AskHuman
  <2>4. CASE /\ Goto(l, "starting") /\ UNCHANGED <<items, queueOf, approver, override>>
             /\ consent' = consent \union {<<loop[l].task, loop[l].attempt>>}
    <3>1. WorkerTypeOK'
      <4>1. loop' \in [Loop -> Place]
        BY <2>4, GotoPlace DEF WorkerInv, Pc
      <4>2. consent' \subseteq Task \X Attempt
        BY <2>1, <2>4 DEF WorkerInv, WorkerTypeOK
      <4> QED
        BY <1>2, <2>4, <4>1, <4>2 DEF Gate, WorkerInv, WorkerTypeOK
    <3>2. RunsAreOfClaims'
      BY <2>1, <2>4 DEF Goto, WorkerInv, WorkerTypeOK, RunsAreOfClaims, Working
    <3>3. ApproversWait'
      BY <1>2, <2>4 DEF Gate, At, Goto, WorkerInv, WorkerTypeOK, ApproversWait, Awaiting
    <3> QED
      BY <3>1, <3>2, <3>3 DEF WorkerInv
  <2> QED
    BY <1>2, <2>2, <2>3, <2>4 DEF Gate
<1>3. CASE Start(l)
  <2>1. Working(l) /\ loop[l].task \in Task /\ loop[l].attempt \in Attempt
    BY <1>3 DEF Start, At, Working, WorkerInv, RunsAreOfClaims
  <2>2. CASE Finally(l) /\ UNCHANGED proc
    BY <1>3, <2>1, <2>2, FinallyKeeps DEF Start, WorkerInv, WorkerTypeOK, Finally
  <2>3. CASE /\ loop' = [loop EXCEPT ![l] = Listening(l)]
             /\ queueOf' = [queueOf EXCEPT ![WorkerOf(l)][loop[l].task] = l]
             /\ proc' = [proc EXCEPT ![loop[l].task][loop[l].attempt] =
                                       [st |-> "working", at |-> WorkerOf(l)]]
             /\ UNCHANGED <<items, approver, override>>
    <3>1. WorkerTypeOK'
      <4>1. loop' \in [Loop -> Place]
        BY <2>3, ListeningPlace DEF WorkerInv, WorkerTypeOK
      <4>2. queueOf' \in [Worker -> [Task -> Loop \union {None}]]
        BY <2>3 DEF WorkerInv, WorkerTypeOK
      <4>3. proc' \in [Task -> [Attempt -> [st : {"none", "working", "asking", "denied", "ended"},
                                          at : Worker \union {None}]]]
        BY <2>3 DEF WorkerInv, WorkerTypeOK
      <4> QED
        BY <1>3, <2>3, <4>1, <4>2, <4>3 DEF Start, WorkerInv, WorkerTypeOK
    <3>2. RunsAreOfClaims'
      BY <2>1, <2>3, ListeningPlace DEF WorkerInv, WorkerTypeOK, RunsAreOfClaims, Working
    <3>3. loop[l].pc = "starting"
      BY <1>3 DEF Start, At
    <3>4. ApproversWait'
      BY <2>3, <3>3 DEF WorkerInv, WorkerTypeOK, ApproversWait, Awaiting
    <3> QED
      BY <3>1, <3>2, <3>4 DEF WorkerInv
  <2> QED
    BY <1>3, <2>2, <2>3 DEF Start
<1>4. CASE Consume(l)
  <2>1. /\ Working(l) /\ loop[l].task \in Task /\ loop[l].attempt \in Attempt
        /\ items[l] \in Seq(Item) /\ items[l] # <<>>
    BY <1>4 DEF Consume, At, Working, WorkerInv, WorkerTypeOK, RunsAreOfClaims
  <2>2. /\ Head(items[l]) \in Item /\ Tail(items[l]) \in Seq(Item)
        /\ Len(Tail(items[l])) = Len(items[l]) - 1 /\ Len(items[l]) \in Nat
    BY <2>1
  <2>3. items' \in [Loop -> Seq(Item)] /\ \A m \in Loop : Len(items'[m]) <= MaxQueue
    BY <1>4, <2>2 DEF Consume, WorkerInv, WorkerTypeOK
  <2>4. loop' \in [Loop -> Place]
    <3>1. PICK item \in Item :
             loop' = [loop EXCEPT ![l].pc = IF item.kind = "ask" THEN "asking" ELSE item.kind,
                                  ![l].asker = IF item.kind = "ask" THEN item.from ELSE 0]
      BY <1>4, <2>2 DEF Consume
    <3>2. item.kind \in {"completed", "failed", "ask"} /\ item.from \in 0 .. MaxAttempts
      BY DEF Item, Outcome, Human, Attempt
    <3> DEFINE pc == IF item.kind = "ask" THEN "asking" ELSE item.kind
               asker == IF item.kind = "ask" THEN item.from ELSE 0
    <3>3. pc \in Pc /\ asker \in 0 .. MaxAttempts
      BY <3>2 DEF Pc
    <3>4. loop' = [loop EXCEPT ![l].pc = pc, ![l].asker = asker]
      BY <3>1
    <3> HIDE DEF pc, asker
    <3>5. loop' = [loop EXCEPT ![l] = [loop[l] EXCEPT !.pc = pc, !.asker = asker]]
      BY <3>4 DEF WorkerInv, WorkerTypeOK
    <3>6. [loop[l] EXCEPT !.pc = pc, !.asker = asker] \in Place
      BY ZenonT(60), <3>3 DEF WorkerInv, WorkerTypeOK, Place
    <3> QED
      BY <3>5, <3>6 DEF WorkerInv, WorkerTypeOK
  <2>5. WorkerTypeOK'
    BY <1>4, <2>3, <2>4 DEF Consume, Shared, WorkerInv, WorkerTypeOK
  <2>6. RunsAreOfClaims'
    BY <1>4, <2>1 DEF Consume, WorkerInv, WorkerTypeOK, RunsAreOfClaims, Working
  <2>7. ApproversWait'
    BY <1>4 DEF Consume, At, WorkerInv, WorkerTypeOK, ApproversWait, Awaiting
  <2> QED
    BY <2>5, <2>6, <2>7 DEF WorkerInv
<1>5. CASE GiveUp(l)
  BY <1>5, FinallyKeeps DEF GiveUp, At, Working, Shared, WorkerInv, WorkerTypeOK, Finally
<1>6. CASE AskWhileRunning(l)
  <2>1. CASE Finally(l)
    BY <1>6, <2>1, FinallyKeeps DEF AskWhileRunning, At, Working, Shared, WorkerInv, WorkerTypeOK, Finally
  <2>2. CASE AskHuman(l, "awaitRun")
    BY <1>6, <2>2, AskHumanKeeps DEF AskWhileRunning, At, Working, Shared, WorkerInv, WorkerTypeOK, AskHuman
  <2> QED
    BY <1>6, <2>1, <2>2 DEF AskWhileRunning
<1>7. CASE Resume(l)
  <2>1. CASE Finally(l)
    BY <1>7, <2>1, FinallyKeeps DEF Resume, At, Working, Shared, WorkerInv, WorkerTypeOK, Finally
  <2>2. CASE /\ loop' = [loop EXCEPT ![l] = Listening(l)]
             /\ UNCHANGED <<items, queueOf, approver, override>>
    <3>1. WorkerTypeOK'
      <4>1. loop' \in [Loop -> Place]
        BY <2>2, ListeningPlace DEF WorkerInv, WorkerTypeOK
      <4> QED
        BY <1>7, <2>2, <4>1 DEF Resume, Shared, WorkerInv, WorkerTypeOK
    <3>2. RunsAreOfClaims'
      BY <1>7, <2>2 DEF Resume, At, Listening, WorkerInv, WorkerTypeOK, RunsAreOfClaims, Working
    <3>3. ApproversWait'
      BY <1>7, <2>2 DEF Resume, At, Listening, WorkerInv, WorkerTypeOK, ApproversWait, Awaiting
    <3> QED
      BY <3>1, <3>2, <3>3 DEF WorkerInv
  <2> QED
    BY <1>7, <2>1, <2>2 DEF Resume
<1>8. CASE Conclude(l)
  BY <1>8, FinallyKeeps DEF Conclude, LastReport, Working, Shared, WorkerInv, WorkerTypeOK, Finally
<1> QED
  BY <1>1, <1>2, <1>3, <1>4, <1>5, <1>6, <1>7, <1>8 DEF LoopStep

ProcState == {"none", "working", "asking", "denied", "ended"}
Proc == [st : ProcState, at : Worker \union {None}]
ProcType == [Task -> [Attempt -> Proc]]

LEMMA ProcStateKeeps ==
  ASSUME WorkerTypeOK, NEW t \in Task, NEW k \in Attempt, NEW st \in ProcState,
         proc' = [proc EXCEPT ![t][k].st = st]
  PROVE  proc' \in ProcType
<1>1. proc \in ProcType
  BY DEF WorkerTypeOK, ProcType, Proc, ProcState
<1>2. proc[t] \in [Attempt -> Proc] /\ proc[t][k] \in Proc
  BY <1>1 DEF ProcType
<1>3. [proc[t][k] EXCEPT !.st = st] \in Proc
  BY <1>2 DEF Proc
<1>4. [proc[t] EXCEPT ![k] = [proc[t][k] EXCEPT !.st = st]] \in [Attempt -> Proc]
  BY <1>2, <1>3
<1>5. proc' = [proc EXCEPT ![t] = [proc[t] EXCEPT ![k] = [proc[t][k] EXCEPT !.st = st]]]
  BY <1>1, <1>2 DEF ProcType
<1> QED
  BY <1>1, <1>4, <1>5 DEF ProcType

LEMMA AppendKeeps ==
  ASSUME WorkerInv, NEW l \in Loop, NEW item \in Item, Len(items[l]) < MaxQueue,
         items' = [items EXCEPT ![l] = Append(@, item)]
  PROVE  items' \in [Loop -> Seq(Item)] /\ \A m \in Loop : Len(items'[m]) <= MaxQueue
<1>1. items[l] \in Seq(Item)
  BY DEF WorkerInv, WorkerTypeOK
<1>2. /\ Append(items[l], item) \in Seq(Item) /\ Len(items[l]) \in Nat
      /\ Len(Append(items[l], item)) = Len(items[l]) + 1
  BY <1>1
<1>3. Len(Append(items[l], item)) <= MaxQueue
  BY <1>2, ExecutionAssumption
<1> HIDE <1>2
<1> QED
  BY <1>2, <1>3 DEF WorkerInv, WorkerTypeOK

LEMMA DeliverKeeps ==
  ASSUME WorkerInv, NEW w \in Worker, NEW t \in Task, NEW item \in Item, Deliver(w, t, item)
  PROVE  items' \in [Loop -> Seq(Item)] /\ \A m \in Loop : Len(items'[m]) <= MaxQueue
<1>1. queueOf[w][t] \in Loop
  BY DEF Deliver, WorkerInv, WorkerTypeOK
<1> QED
  BY <1>1, AppendKeeps DEF Deliver

\* What agents do.
LEMMA AgentStepKeeps ==
  ASSUME WorkerInv, NEW t \in Task, NEW k \in Attempt,
         (\E outcome \in Outcome : AgentReports(t, k, outcome)) \/ AgentAsks(t, k) \/ AgentDies(t, k)
  PROVE  WorkerInv'
<1>1. UNCHANGED <<loop, queueOf, approver, override, claims, consent, up, crashes>>
  BY DEF AgentReports, AgentAsks, AgentDies
<1>2. RunsAreOfClaims' /\ ApproversWait'
  BY <1>1 DEF WorkerInv, RunsAreOfClaims, ApproversWait, Working, Awaiting
<1>3. \E st \in {"asking", "ended"} : proc' = [proc EXCEPT ![t][k].st = st]
  BY DEF AgentReports, AgentAsks, AgentDies
<1>4. proc' \in ProcType
  BY <1>3, ProcStateKeeps DEF WorkerInv, ProcState
<1>5. Alive(t, k) => proc[t][k].at \in Worker
  BY DEF Alive, WorkerInv, WorkerTypeOK
<1>6. items' \in [Loop -> Seq(Item)] /\ \A m \in Loop : Len(items'[m]) <= MaxQueue
  <2>1. ASSUME NEW outcome \in Outcome, AgentReports(t, k, outcome)
        PROVE  items' \in [Loop -> Seq(Item)] /\ \A m \in Loop : Len(items'[m]) <= MaxQueue
    <3>1. [kind |-> outcome, from |-> k] \in Item
      BY DEF Item
    <3>2. CASE items' = items
      BY <3>2 DEF WorkerInv, WorkerTypeOK
    <3> QED
      BY <1>5, <2>1, <3>1, <3>2, DeliverKeeps DEF AgentReports
  <2>2. CASE AgentAsks(t, k)
    <3>1. [kind |-> "ask", from |-> k] \in Item
      BY DEF Item
    <3> QED
      BY <1>5, <2>2, <3>1, DeliverKeeps DEF AgentAsks
  <2>3. CASE AgentDies(t, k)
    BY <2>3 DEF AgentDies, WorkerInv, WorkerTypeOK
  <2> QED
    BY <2>1, <2>2, <2>3
<1> QED
  BY <1>1, <1>2, <1>4, <1>6 DEF WorkerInv, WorkerTypeOK, ProcType, Proc, ProcState

LEMMA AdapterFailsKeeps ==
  ASSUME WorkerInv, NEW l \in Loop, AdapterFails(l)
  PROVE  WorkerInv'
<1>1. /\ loop[l].task \in Task /\ loop[l].attempt \in Attempt
      /\ UNCHANGED <<loop, queueOf, approver, override, claims, consent, up, crashes>>
  BY DEF AdapterFails, WorkerInv, RunsAreOfClaims, Working
<1>2. RunsAreOfClaims' /\ ApproversWait'
  BY <1>1 DEF WorkerInv, RunsAreOfClaims, ApproversWait, Working, Awaiting
<1>3. proc' \in ProcType
  BY <1>1, ProcStateKeeps DEF AdapterFails, WorkerInv, ProcState
<1>4. [kind |-> "failed", from |-> loop[l].attempt] \in Item
  BY <1>1 DEF Item, Outcome
<1>5. items' \in [Loop -> Seq(Item)] /\ \A m \in Loop : Len(items'[m]) <= MaxQueue
  BY <1>4, AppendKeeps DEF AdapterFails
<1> QED
  BY <1>1, <1>2, <1>3, <1>5 DEF WorkerInv, WorkerTypeOK, ProcType, Proc, ProcState

\* What users do.
LEMMA DecideKeeps ==
  ASSUME WorkerInv, NEW w \in Worker, NEW t \in Task, NEW decision \in {"approve", "deny"},
         Decide(w, t, decision)
  PROVE  WorkerInv'
<1> DEFINE l == approver[w][t]
           next == After[loop[l].pc][decision]
           k == loop[l].asker
<1>1. /\ l \in Loop /\ WorkerOf(l) = w /\ loop[l].task = t /\ Awaiting(l)
      /\ loop[l].attempt \in Attempt /\ loop[l] \in Place
  BY SMTT(30) DEF Decide, WorkerInv, WorkerTypeOK, RunsAreOfClaims, ApproversWait, Working, Awaiting
<1>2. next \in {"starting", "rejecting", "resuming", "denying"}
  BY <1>1 DEF Awaiting, After
<1>3. /\ loop' = [loop EXCEPT ![l].pc = next]
      /\ approver' = [approver EXCEPT ![w][t] = None]
      /\ consent' = IF next = "starting" THEN consent \union {<<t, loop[l].attempt>>} ELSE consent
      /\ \/ proc' = proc
         \/ k # 0 /\ \E st \in {"working", "denied"} : proc' = [proc EXCEPT ![t][k].st = st]
      /\ UNCHANGED <<items, queueOf, override, claims, up, crashes>>
  <2>1. /\ loop' = [loop EXCEPT ![l].pc = next]
        /\ approver' = [approver EXCEPT ![w][t] = None]
        /\ consent' = IF next = "starting" THEN consent \union {<<t, loop[l].attempt>>} ELSE consent
        /\ UNCHANGED <<items, queueOf, override, claims, up, crashes>>
    BY DEF Decide, Goto
  <2>2. \/ proc' = proc
        \/ k # 0 /\ proc' = [proc EXCEPT ![t][k].st = IF decision = "approve" THEN "working" ELSE "denied"]
    BY DEF Decide
  <2>3. (IF decision = "approve" THEN "working" ELSE "denied") \in {"working", "denied"}
    OBVIOUS
  <2> HIDE DEF next, k, l
  <2> QED
    BY <2>1, <2>2, <2>3
<1>4. k \in 0 .. MaxAttempts
  BY <1>1 DEF Place
<1> HIDE DEF next, k
<1>5. loop' \in [Loop -> Place]
  BY <1>1, <1>2, <1>3 DEF WorkerInv, WorkerTypeOK, Place, Pc
<1>6. approver' \in [Worker -> [Task -> Loop \union {None}]]
  BY <1>3 DEF WorkerInv, WorkerTypeOK
<1>7. consent' \subseteq Task \X Attempt
  BY <1>1, <1>3 DEF WorkerInv, WorkerTypeOK
<1>8. proc' \in ProcType
  <2>1. k # 0 => k \in Attempt
    BY <1>4, ExecutionAssumption DEF Attempt
  <2> QED
    <3>1. CASE proc' = proc
      BY <3>1 DEF WorkerInv, WorkerTypeOK, ProcType, Proc, ProcState
    <3> QED
      BY <1>3, <2>1, <3>1, ProcStateKeeps DEF WorkerInv, ProcState
<1>9. RunsAreOfClaims'
  BY <1>1, <1>2, <1>3 DEF WorkerInv, WorkerTypeOK, RunsAreOfClaims, Working, Awaiting
<1>10. ApproversWait'
  <2>1. SUFFICES ASSUME NEW v \in Worker, NEW u \in Task, approver'[v][u] # None
                 PROVE  /\ WorkerOf(approver'[v][u]) = v
                        /\ loop'[approver'[v][u]].task = u
                        /\ loop'[approver'[v][u]].pc \in {"awaitStart", "awaitRun"}
    BY DEF ApproversWait, Awaiting
  <2>2. approver'[v][u] = approver[v][u] /\ <<v, u>> # <<w, t>>
    BY <1>3, <2>1 DEF WorkerInv, WorkerTypeOK
  <2>3. approver[v][u] \in Loop /\ approver[v][u] # l
    BY <1>1, <2>1, <2>2 DEF WorkerInv, WorkerTypeOK, ApproversWait
  <2> QED
    BY <1>3, <2>1, <2>2, <2>3 DEF WorkerInv, WorkerTypeOK, ApproversWait, Awaiting
<1> QED
  BY <1>3, <1>5, <1>6, <1>7, <1>8, <1>9, <1>10 DEF WorkerInv, WorkerTypeOK, ProcType, Proc, ProcState

LEMMA ByHandKeeps ==
  ASSUME WorkerInv, ByHand
  PROVE  WorkerInv'
<1>1. ASSUME NEW t \in Task, NEW w \in Worker,
             NEW decision \in {"approve", "deny"}, Decide(w, t, decision)
      PROVE  WorkerInv'
  BY <1>1, DecideKeeps
<1>2. ASSUME NEW t \in Task, NEW w \in Worker, NEW outcome \in Outcome, Finish(w, t, outcome)
      PROVE  WorkerInv'
  <2>1. [kind |-> outcome, from |-> Human] \in Item
    BY DEF Item
  <2>2. items' \in [Loop -> Seq(Item)] /\ \A m \in Loop : Len(items'[m]) <= MaxQueue
    BY <1>2, <2>1, DeliverKeeps DEF Finish
  <2> QED
    BY <1>2, <2>2 DEF Finish, WorkerInv, WorkerTypeOK, RunsAreOfClaims, ApproversWait, Working, Awaiting
<1>3. ASSUME NEW t \in Task, NEW w \in Worker, NEW a \in Agent, ChooseAgent(w, t, a)
      PROVE  WorkerInv'
  <2>1. /\ UNCHANGED <<loop, items, queueOf, approver, proc, claims, consent, up, crashes>>
        /\ RunsAreOfClaims' /\ ApproversWait'
    BY <1>3 DEF ChooseAgent, WorkerInv, RunsAreOfClaims, ApproversWait, Working, Awaiting
  <2>2. CASE approver[w][t] # None
    <3>1. approver[w][t] \in Loop /\ loop[approver[w][t]].attempt \in Attempt
      <4>1. approver[w][t] \in Loop
        BY <2>2 DEF WorkerInv, WorkerTypeOK
      <4>2. Working(approver[w][t])
        BY <2>2, <4>1 DEF WorkerInv, ApproversWait, Awaiting, Working
      <4> QED
        BY <4>1, <4>2 DEF WorkerInv, RunsAreOfClaims
    <3>2. override' = [override EXCEPT ![w][t] = loop[approver[w][t]].attempt]
      BY <1>3, <2>2 DEF ChooseAgent
    <3>3. override' \in [Worker -> [Task -> Attempt \union {None}]]
      BY <3>1, <3>2 DEF WorkerInv, WorkerTypeOK
    <3> QED
      BY <2>1, <3>3 DEF WorkerInv, WorkerTypeOK
  <2>3. CASE approver[w][t] = None
    BY <1>3, <2>1, <2>3 DEF ChooseAgent, WorkerInv, WorkerTypeOK
  <2> QED
    BY <2>2, <2>3
<1>4. ASSUME NEW t \in Task, NEW action \in {"retry", "abandon"}, Resolve(t, action)
      PROVE  WorkerInv'
  BY <1>4 DEF Resolve, WorkerInv, WorkerTypeOK, RunsAreOfClaims, ApproversWait, Working, Awaiting
<1> QED
  BY <1>1, <1>2, <1>3, <1>4 DEF ByHand

\* Crashes, restarts, and what happens outside.
LEMMA CrashKeeps ==
  ASSUME WorkerInv, NEW w \in Worker, Crash(w)
  PROVE  WorkerInv'
<1> USE ExecutionAssumption, LeaseAssumption
<1>1. Idle \in Place
  BY DEF Idle, Place, Pc
<1>2. loop' \in [Loop -> Place]
  BY <1>1 DEF Crash, WorkerInv, WorkerTypeOK
<1>3. items' \in [Loop -> Seq(Item)] /\ \A m \in Loop : Len(items'[m]) <= MaxQueue
  BY DEF Crash, WorkerInv, WorkerTypeOK
<1>4. /\ queueOf' \in [Worker -> [Task -> Loop \union {None}]]
      /\ approver' \in [Worker -> [Task -> Loop \union {None}]]
      /\ override' \in [Worker -> [Task -> Attempt \union {None}]]
  BY DEF Crash, WorkerInv, WorkerTypeOK
<1>5. proc' \in ProcType
  <2>1. PICK lost \in SUBSET (Task \X Attempt) :
          proc' = [t \in Task |-> [k \in Attempt |->
                    IF proc[t][k].at # w THEN proc[t][k]
                    ELSE IF <<t, k>> \in lost THEN [proc[t][k] EXCEPT !.st = "ended"]
                    ELSE IF proc[t][k].st = "asking" THEN [proc[t][k] EXCEPT !.st = "working"]
                    ELSE proc[t][k]]]
    BY DEF Crash
  <2>2. ASSUME NEW t \in Task, NEW k \in Attempt
        PROVE  /\ proc[t][k] \in Proc
               /\ [proc[t][k] EXCEPT !.st = "ended"] \in Proc
               /\ [proc[t][k] EXCEPT !.st = "working"] \in Proc
    <3>1. proc[t][k] \in Proc
      BY DEF WorkerInv, WorkerTypeOK, Proc, ProcState
    <3> QED
      BY <3>1 DEF Proc, ProcState
  <2> QED
    BY <2>1, <2>2 DEF ProcType
<1>6. up' \in SUBSET Worker /\ crashes' \in 0 .. MaxCrashes /\ UNCHANGED <<claims, consent>>
  BY DEF Crash, WorkerInv, WorkerTypeOK
<1>7. RunsAreOfClaims'
  BY DEF Crash, WorkerInv, WorkerTypeOK, RunsAreOfClaims, Working, Idle
<1>8. ApproversWait'
  BY DEF Crash, WorkerInv, WorkerTypeOK, ApproversWait, Awaiting
<1> QED
  BY <1>2, <1>3, <1>4, <1>5, <1>6, <1>7, <1>8 DEF WorkerInv, WorkerTypeOK, ProcType, Proc, ProcState

LEMMA ElapseKeeps ==
  ASSUME WorkerInv, Elapse
  PROVE  WorkerInv'
<1>1. ASSUME NEW l \in Loop
      PROVE  /\ loop'[l] \in Place /\ loop'[l].pc = loop[l].pc
             /\ loop'[l].task = loop[l].task /\ loop'[l].attempt = loop[l].attempt
  <2>1. loop[l] \in Place
    BY DEF WorkerInv, WorkerTypeOK
  <2>2. CASE loop[l].pc = "running" /\ loop[l].patience > 0
    <3>1. loop'[l] = [loop[l] EXCEPT !.patience = @ - 1]
      BY <2>2 DEF Elapse
    <3>2. loop[l].patience - 1 \in 0 .. LeaseSeconds
      BY <2>1, <2>2, LeaseAssumption DEF Place
    <3> QED
      BY <2>1, <3>1, <3>2 DEF Place
  <2>3. CASE ~ (loop[l].pc = "running" /\ loop[l].patience > 0)
    BY <2>1, <2>3 DEF Elapse
  <2> QED
    BY <2>2, <2>3
<1>2. loop' \in [Loop -> Place]
  BY <1>1 DEF Elapse
<1>3. UNCHANGED <<items, queueOf, approver, override, proc, claims, consent, up, crashes>>
  BY DEF Elapse
<1>4. RunsAreOfClaims'
  BY <1>1 DEF WorkerInv, RunsAreOfClaims, Working
<1>5. ApproversWait'
  <2>1. SUFFICES ASSUME NEW w \in Worker, NEW t \in Task, approver[w][t] # None
                 PROVE  /\ WorkerOf(approver[w][t]) = w
                        /\ loop'[approver[w][t]].task = t
                        /\ loop'[approver[w][t]].pc \in {"awaitStart", "awaitRun"}
    BY <1>3 DEF ApproversWait, Awaiting
  <2>2. approver[w][t] \in Loop
    BY <2>1 DEF WorkerInv, WorkerTypeOK
  <2> QED
    BY <1>1, <2>1, <2>2 DEF WorkerInv, ApproversWait, Awaiting
<1> QED
  BY <1>2, <1>3, <1>4, <1>5 DEF WorkerInv, WorkerTypeOK

LEMMA WorkerInvStep ==
  ASSUME WorkerInv, [Next]_vars
  PROVE  WorkerInv'
<1>1. CASE UNCHANGED workerVars
  BY <1>1 DEF workerVars, WorkerInv, WorkerTypeOK, RunsAreOfClaims, ApproversWait, Working, Awaiting
<1>2. ASSUME NEW w \in Worker, Heartbeat(w) \/ Crash(w) \/ Restart(w)
      PROVE  WorkerInv'
  <2>1. CASE Heartbeat(w)
    BY <1>1, <2>1 DEF Heartbeat
  <2>2. CASE Crash(w)
    BY <2>2, CrashKeeps
  <2>3. CASE Restart(w)
    BY <2>3 DEF Restart, WorkerInv, WorkerTypeOK, RunsAreOfClaims, ApproversWait, Working, Awaiting
  <2> QED
    BY <1>2, <2>1, <2>2, <2>3
<1>3. CASE Outside
  BY <1>1, <1>3 DEF Outside
<1>4. CASE UNCHANGED vars
  BY <1>1, <1>4 DEF vars
<1> QED
  BY <1>2, <1>3, <1>4, LoopStepKeeps, AdapterFailsKeeps, AgentStepKeeps, ElapseKeeps, ByHandKeeps
     DEF Next, Autonomous

-----------------------------------------------------------------------------
(***************************************************************************)
(* Consent.  A loop about to start an agent carries the consent for that   *)
(* attempt, and an agent never started belongs to no worker: otherwise a   *)
(* crash of that worker would give it a state.                             *)
(***************************************************************************)

StartsAreConsented ==
  \A l \in Loop : loop[l].pc = "starting" => <<loop[l].task, loop[l].attempt>> \in consent

UnstartedAreNowhere ==
  \A t \in Task, k \in Attempt : proc[t][k].st = "none" => proc[t][k].at = None

ConsentInv == StartsAreConsented /\ NoStartWithoutConsent /\ UnstartedAreNowhere

\* The step neither starts an agent nor sends a loop to start one.
StartsNothing ==
  /\ \A l \in Loop : \/ loop'[l].pc # "starting"
                      \/ /\ loop[l].pc = "starting"
                         /\ loop'[l].task = loop[l].task /\ loop'[l].attempt = loop[l].attempt
  /\ \A t \in Task, k \in Attempt :
       \/ proc'[t][k] = proc[t][k]
       \/ proc[t][k].st # "none" /\ proc'[t][k].st # "none"
  /\ consent \subseteq consent'

LEMMA StartsNothingKeeps ==
  ASSUME ConsentInv, StartsNothing
  PROVE  ConsentInv'
<1>1. StartsAreConsented'
  BY DEF ConsentInv, StartsAreConsented, StartsNothing
<1>2. NoStartWithoutConsent'
  BY DEF ConsentInv, NoStartWithoutConsent, StartsNothing
<1>3. UnstartedAreNowhere'
  BY DEF ConsentInv, UnstartedAreNowhere, StartsNothing
<1> QED
  BY <1>1, <1>2, <1>3 DEF ConsentInv

\* Where the agent of one attempt changes from a state other than "none".
LEMMA OneAgentMoves ==
  ASSUME WorkerInv, NEW t \in Task, NEW k \in Attempt, NEW st \in ProcState \ {"none"},
         proc[t][k].st # "none", proc' = [proc EXCEPT ![t][k].st = st]
  PROVE  \A u \in Task, j \in Attempt :
           \/ proc'[u][j] = proc[u][j]
           \/ proc[u][j].st # "none" /\ proc'[u][j].st # "none"
<1>1. proc \in ProcType
  BY DEF WorkerInv, WorkerTypeOK, ProcType, Proc, ProcState
<1>2. SUFFICES ASSUME NEW u \in Task, NEW j \in Attempt
               PROVE  \/ proc'[u][j] = proc[u][j]
                      \/ proc[u][j].st # "none" /\ proc'[u][j].st # "none"
  OBVIOUS
<1>3. CASE u = t /\ j = k
  <2>1. proc'[t][k] = [proc[t][k] EXCEPT !.st = st]
    BY <1>1 DEF ProcType
  <2>2. proc'[t][k].st = st
    BY <1>1, <2>1 DEF ProcType, Proc
  <2> QED
    BY <1>3, <2>2
<1>4. CASE ~ (u = t /\ j = k)
  BY <1>1, <1>4 DEF ProcType
<1> QED
  BY <1>3, <1>4

LEMMA LoopStepConsent ==
  ASSUME WorkerInv, ConsentInv, NEW l \in Loop, LoopStep(l)
  PROVE  ConsentInv'
<1>1. ASSUME NEW place \in Place, place.pc # "starting",
             loop' = [loop EXCEPT ![l] = place] \/ loop' = loop, UNCHANGED <<proc, consent>>
      PROVE  ConsentInv'
  BY <1>1, StartsNothingKeeps DEF StartsNothing, WorkerInv, WorkerTypeOK
<1>2. ASSUME NEW pc \in Pc \ {"starting"}, NEW asker,
             loop' = [loop EXCEPT ![l].pc = pc, ![l].asker = asker] \/ Goto(l, pc),
             UNCHANGED <<proc, consent>>
      PROVE  ConsentInv'
  <2>1. loop \in [Loop -> Place]
    BY DEF WorkerInv, WorkerTypeOK
  <2>2. \A m \in Loop : m # l => loop'[m] = loop[m]
    BY <1>2, <2>1 DEF Goto
  <2>3. loop'[l].pc = pc
    <3>1. CASE loop' = [loop EXCEPT ![l].pc = pc, ![l].asker = asker]
      BY <2>1, <3>1 DEF Place
    <3>2. CASE Goto(l, pc)
      BY <2>1, <3>2 DEF Goto, Place
    <3> QED
      BY <1>2, <3>1, <3>2
  <2> QED
    BY <1>2, <2>2, <2>3, StartsNothingKeeps DEF StartsNothing
<1>3. Idle \in Place /\ Idle.pc = "idle"
  BY ExecutionAssumption, LeaseAssumption DEF Idle, Place, Pc
<1>4. ASSUME Finally(l), UNCHANGED <<proc, consent>>
      PROVE  ConsentInv'
  BY <1>1, <1>3, <1>4 DEF Finally
<1>5. ASSUME NEW pc \in {"awaitStart", "awaitRun"}, AskHuman(l, pc), UNCHANGED <<proc, consent>>
      PROVE  ConsentInv'
  BY <1>2, <1>5 DEF AskHuman, Pc
<1>6. Listening(l) \in Place /\ Listening(l).pc = "running"
  BY ListeningPlace DEF WorkerInv
<1>7. ASSUME NEW t \in Task, Claim(l, t)
      PROVE  ConsentInv'
  <2> DEFINE place == [Idle EXCEPT !.pc = "gate", !.task = t, !.attempt = claims[t] + 1]
  <2>1. claims[t] + 1 \in 0 .. MaxAttempts
    BY <1>7, ExecutionAssumption DEF Claim, WorkerInv, WorkerTypeOK
  <2>2. "gate" \in Pc /\ 0 \in 0 .. MaxAttempts /\ 0 \in 0 .. LeaseSeconds
    BY ExecutionAssumption, LeaseAssumption DEF Pc
  <2>3. place \in Place /\ place.pc = "gate"
    BY <2>1, <2>2 DEF Idle, Place
  <2>4. (loop' = [loop EXCEPT ![l] = place] \/ loop' = loop) /\ UNCHANGED <<proc, consent>>
    BY <1>7 DEF Claim
  <2> HIDE DEF place
  <2> QED
    BY <1>1, <2>3, <2>4
<1>8. CASE Gate(l)
  <2>1. CASE /\ Goto(l, "starting") /\ UNCHANGED proc
             /\ consent' = consent \union {<<loop[l].task, loop[l].attempt>>}
    BY <2>1 DEF Goto, ConsentInv, StartsAreConsented, NoStartWithoutConsent, UnstartedAreNowhere,
                WorkerInv, WorkerTypeOK
  <2> QED
    BY <1>4, <1>5, <1>8, <2>1 DEF Gate
<1>9. CASE Start(l)
  <2>1. CASE /\ loop' = [loop EXCEPT ![l] = Listening(l)]
             /\ proc' = [proc EXCEPT ![loop[l].task][loop[l].attempt] =
                                       [st |-> "working", at |-> WorkerOf(l)]]
             /\ UNCHANGED consent
    <3>1. loop[l].pc = "starting" /\ <<loop[l].task, loop[l].attempt>> \in consent
      BY <1>9 DEF Start, At, ConsentInv, StartsAreConsented
    <3>2. loop[l].task \in Task /\ loop[l].attempt \in Attempt
      BY <3>1 DEF WorkerInv, RunsAreOfClaims, Working
    <3>3. StartsAreConsented'
      BY <1>6, <2>1 DEF ConsentInv, StartsAreConsented, WorkerInv, WorkerTypeOK
    <3>4. \A u \in Task, j \in Attempt :
            proc'[u][j] = IF u = loop[l].task /\ j = loop[l].attempt
                          THEN [st |-> "working", at |-> WorkerOf(l)] ELSE proc[u][j]
      BY <2>1, <3>2 DEF WorkerInv, WorkerTypeOK
    <3>5. NoStartWithoutConsent'
      BY <2>1, <3>1, <3>4 DEF ConsentInv, NoStartWithoutConsent
    <3>6. UnstartedAreNowhere'
      BY <3>4 DEF ConsentInv, UnstartedAreNowhere
    <3> QED
      BY <3>3, <3>5, <3>6 DEF ConsentInv
  <2> QED
    BY <1>4, <1>9, <2>1 DEF Start
<1>10. CASE Consume(l)
  <2>1. items[l] \in Seq(Item) /\ items[l] # <<>>
    BY <1>10 DEF Consume, WorkerInv, WorkerTypeOK
  <2>2. Head(items[l]) \in Item
    BY <2>1
  <2>3. Head(items[l]).kind \in {"completed", "failed", "ask"}
    BY <2>2 DEF Item, Outcome
  <2>4. (IF Head(items[l]).kind = "ask" THEN "asking" ELSE Head(items[l]).kind) \in Pc \ {"starting"}
    BY <2>3 DEF Pc
  <2> QED
    BY <1>2, <1>10, <2>4 DEF Consume, Shared
<1>11. CASE GiveUp(l) \/ Conclude(l)
  BY <1>4, <1>11 DEF GiveUp, Conclude, Shared
<1>12. CASE AskWhileRunning(l)
  BY <1>4, <1>5, <1>12 DEF AskWhileRunning, Shared
<1>13. CASE Resume(l)
  BY <1>1, <1>4, <1>6, <1>13 DEF Resume, Shared
<1> QED
  BY <1>7, <1>8, <1>9, <1>10, <1>11, <1>12, <1>13 DEF LoopStep

LEMMA AgentStepConsent ==
  ASSUME WorkerInv, ConsentInv, NEW t \in Task, NEW k \in Attempt,
         (\E outcome \in Outcome : AgentReports(t, k, outcome)) \/ AgentAsks(t, k) \/ AgentDies(t, k)
  PROVE  ConsentInv'
<1>1. proc[t][k].st # "none" /\ \E st \in {"asking", "ended"} : proc' = [proc EXCEPT ![t][k].st = st]
  BY DEF AgentReports, AgentAsks, AgentDies, Alive
<1>2. UNCHANGED <<loop, consent>>
  BY DEF AgentReports, AgentAsks, AgentDies
<1> QED
  BY <1>1, <1>2, OneAgentMoves, StartsNothingKeeps DEF StartsNothing, ProcState

LEMMA AdapterFailsConsent ==
  ASSUME WorkerInv, ConsentInv, NEW l \in Loop, AdapterFails(l)
  PROVE  ConsentInv'
<1> DEFINE t == loop[l].task
           k == loop[l].attempt
<1>1. /\ t \in Task /\ k \in Attempt /\ proc[t][k].st # "none"
      /\ proc' = [proc EXCEPT ![t][k].st = "ended"] /\ UNCHANGED <<loop, consent>>
  BY DEF AdapterFails, Alive, WorkerInv, RunsAreOfClaims, Working
<1> HIDE DEF t, k
<1> QED
  BY <1>1, OneAgentMoves, StartsNothingKeeps DEF StartsNothing, ProcState

LEMMA DecideConsent ==
  ASSUME WorkerInv, ConsentInv, NEW w \in Worker, NEW t \in Task,
         NEW decision \in {"approve", "deny"}, Decide(w, t, decision)
  PROVE  ConsentInv'
<1> DEFINE l == approver[w][t]
           next == After[loop[l].pc][decision]
           k == loop[l].asker
<1>1. /\ l \in Loop /\ loop[l].task = t /\ loop[l] \in Place
  BY SMTT(30) DEF Decide, WorkerInv, WorkerTypeOK, ApproversWait
<1>2. /\ loop' = [loop EXCEPT ![l].pc = next]
      /\ consent' = IF next = "starting" THEN consent \union {<<t, loop[l].attempt>>} ELSE consent
  BY DEF Decide, Goto
<1>3. \A u \in Task, j \in Attempt :
        \/ proc'[u][j] = proc[u][j]
        \/ proc[u][j].st # "none" /\ proc'[u][j].st # "none"
  <2>1. CASE proc' = proc
    BY <2>1
  <2>2. CASE k # 0 /\ proc[t][k].st = "asking"
    <3>1. k \in Attempt
      BY <1>1, <2>2, ExecutionAssumption DEF Place, Attempt
    <3>2. \E st \in ProcState \ {"none"} : proc' = [proc EXCEPT ![t][k].st = st]
      BY <2>2 DEF Decide, ProcState
    <3> HIDE DEF k
    <3> QED
      BY <2>2, <3>1, <3>2, OneAgentMoves
  <2> QED
    BY <2>1, <2>2 DEF Decide
<1> HIDE DEF l, next
<1>4. StartsAreConsented'
  BY <1>1, <1>2 DEF ConsentInv, StartsAreConsented, WorkerInv, WorkerTypeOK
<1>5. NoStartWithoutConsent' /\ UnstartedAreNowhere'
  BY <1>2, <1>3 DEF ConsentInv, NoStartWithoutConsent, UnstartedAreNowhere
<1> QED
  BY <1>4, <1>5 DEF ConsentInv

LEMMA CrashConsent ==
  ASSUME WorkerInv, ConsentInv, NEW w \in Worker, Crash(w)
  PROVE  ConsentInv'
<1>1. \A l \in Loop : loop'[l] = loop[l] \/ loop'[l].pc = "idle"
  BY DEF Crash, Idle
<1>2. ASSUME NEW t \in Task, NEW k \in Attempt
      PROVE  \/ proc'[t][k] = proc[t][k]
             \/ proc[t][k].st # "none" /\ proc'[t][k].st # "none"
  <2>1. proc[t][k] \in Proc
    BY DEF WorkerInv, WorkerTypeOK, Proc, ProcState
  <2>2. proc[t][k].at = w => proc[t][k].st # "none"
    BY NoneAssumption DEF ConsentInv, UnstartedAreNowhere
  <2>3. \/ proc'[t][k] = proc[t][k]
        \/ proc[t][k].at = w /\ \E st \in {"ended", "working"} : proc'[t][k] = [proc[t][k] EXCEPT !.st = st]
    BY DEF Crash
  <2> QED
    BY <2>1, <2>2, <2>3 DEF Proc
<1> QED
  BY <1>1, <1>2, StartsNothingKeeps DEF StartsNothing, Crash

LEMMA ConsentStep ==
  ASSUME WorkerInv, ConsentInv, [Next]_vars
  PROVE  ConsentInv'
<1>1. ASSUME UNCHANGED <<loop, proc, consent>>
      PROVE  ConsentInv'
  BY <1>1 DEF ConsentInv, StartsAreConsented, NoStartWithoutConsent, UnstartedAreNowhere
<1>2. ASSUME NEW w \in Worker, Heartbeat(w) \/ Crash(w) \/ Restart(w)
      PROVE  ConsentInv'
  BY <1>1, <1>2, CrashConsent DEF Heartbeat, Restart, workerVars
<1>3. CASE Outside \/ UNCHANGED vars
  BY <1>1, <1>3 DEF Outside, vars, workerVars
<1>4. CASE Elapse
  <2>1. \A l \in Loop : /\ loop'[l].pc = loop[l].pc
                        /\ loop'[l].task = loop[l].task /\ loop'[l].attempt = loop[l].attempt
    BY <1>4 DEF Elapse, WorkerInv, WorkerTypeOK, Place
  <2> QED
    BY <1>4, <2>1, StartsNothingKeeps DEF StartsNothing, Elapse
<1>5. CASE ByHand
  <2>1. ASSUME NEW t \in Task, NEW w \in Worker, NEW decision \in {"approve", "deny"}, Decide(w, t, decision)
        PROVE  ConsentInv'
    BY <2>1, DecideConsent
  <2> QED
    BY <1>1, <1>5, <2>1 DEF ByHand, Finish, ChooseAgent, Resolve
<1> QED
  BY <1>2, <1>3, <1>4, <1>5, LoopStepConsent, AdapterFailsConsent, AgentStepConsent
     DEF Next, Autonomous

-----------------------------------------------------------------------------
(***************************************************************************)
(* Who can be reached.  The maps are keyed by the task alone, so this is   *)
(* about the only run of a task that was claimed once: that it is the only *)
(* one follows from the numbers of the attempts.                           *)
(***************************************************************************)

RunsAreNumbered == \A l \in Loop : Working(l) => loop[l].attempt <= claims[loop[l].task]

OneRunPerClaim ==
  \A l, m \in Loop :
    l # m /\ Working(l) /\ Working(m) /\ loop[l].task = loop[m].task
    => loop[l].attempt # loop[m].attempt

\* From "started" until its last report a run has its queue in the map: it
\* comes back from an ask to the queue it left.
Registered == { "running", "asking", "awaitRun", "resuming" }

FirstRunReachable ==
  \A l \in Loop : Working(l) /\ claims[loop[l].task] = 1 =>
    /\ Awaiting(l) => approver[WorkerOf(l)][loop[l].task] = l
    /\ loop[l].pc \in Registered => queueOf[WorkerOf(l)][loop[l].task] = l

ReachInv == RunsAreNumbered /\ OneRunPerClaim /\ FirstRunReachable

\* A step of the run of l, which touches the maps under its task only.
StepsAlone(l) ==
  LET w == WorkerOf(l)
      t == loop[l].task
  IN  /\ Working(l) /\ UNCHANGED claims
      /\ \A m \in Loop : m # l => loop'[m] = loop[m]
      /\ \A v \in Worker, u \in Task :
           v # w \/ u # t => queueOf'[v][u] = queueOf[v][u] /\ approver'[v][u] = approver[v][u]
      /\ \/ loop'[l].pc = "idle"
         \/ /\ loop'[l].task = t /\ loop'[l].attempt = loop[l].attempt
            /\ loop'[l].pc \in {"awaitStart", "awaitRun"} => approver'[w][t] = l
            /\ loop'[l].pc \in Registered =>
                 \/ queueOf'[w][t] = l
                 \/ loop[l].pc \in Registered /\ queueOf'[w][t] = queueOf[w][t]

LEMMA OnlyRun ==
  ASSUME WorkerInv, ReachInv, NEW l \in Loop, NEW m \in Loop, Working(l), Working(m),
         loop[l].task = loop[m].task, claims[loop[l].task] = 1
  PROVE  l = m
<1>1. loop[l].attempt \in Attempt /\ loop[m].attempt \in Attempt
  BY DEF WorkerInv, RunsAreOfClaims
<1>2. loop[l].attempt = 1 /\ loop[m].attempt = 1
  BY <1>1, ExecutionAssumption DEF ReachInv, RunsAreNumbered, Attempt
<1> QED
  BY <1>2 DEF ReachInv, OneRunPerClaim

\* No run ends up with a number or a task it did not have.
LEMMA SameRuns ==
  ASSUME ReachInv, UNCHANGED claims,
         \A l \in Loop : \/ loop'[l].pc = "idle"
                         \/ /\ Working(l) /\ loop'[l].task = loop[l].task
                            /\ loop'[l].attempt = loop[l].attempt
  PROVE  RunsAreNumbered' /\ OneRunPerClaim'
BY DEF ReachInv, RunsAreNumbered, OneRunPerClaim, Working

LEMMA StepsAloneKeeps ==
  ASSUME WorkerInv, ReachInv, NEW l \in Loop, StepsAlone(l)
  PROVE  ReachInv'
<1>1. \A m \in Loop : \/ loop'[m].pc = "idle"
                      \/ /\ Working(m) /\ loop'[m].task = loop[m].task
                         /\ loop'[m].attempt = loop[m].attempt
  BY DEF StepsAlone, Working
<1>2. RunsAreNumbered' /\ OneRunPerClaim'
  BY <1>1, SameRuns DEF StepsAlone
<1>3. ASSUME NEW m \in Loop, Working(m)', claims'[loop'[m].task] = 1
      PROVE  /\ Awaiting(m)' => approver'[WorkerOf(m)][loop'[m].task] = m
             /\ loop'[m].pc \in Registered => queueOf'[WorkerOf(m)][loop'[m].task] = m
  <2>1. Working(m) /\ loop'[m].task = loop[m].task /\ claims[loop[m].task] = 1
    BY <1>1, <1>3 DEF Working, StepsAlone
  <2>2. CASE m = l
    BY <1>3, <2>1, <2>2 DEF StepsAlone, Working, Awaiting, ReachInv, FirstRunReachable
  <2>3. CASE m # l
    <3>1. loop[m].task # loop[l].task
      BY <2>1, <2>3, OnlyRun DEF StepsAlone
    <3>2. loop[m].task \in Task /\ WorkerOf(m) \in Worker
      BY <2>1, LoopsOfWorkers DEF WorkerInv, RunsAreOfClaims
    <3> QED
      BY <1>3, <2>1, <2>3, <3>1, <3>2 DEF StepsAlone, Working, Awaiting, ReachInv, FirstRunReachable
  <2> QED
    BY <2>2, <2>3
<1> QED
  BY <1>2, <1>3 DEF ReachInv, FirstRunReachable

\* A claim numbers a new run; if it is the first, nobody else had the task.
LEMMA ClaimReach ==
  ASSUME WorkerInv, ReachInv, NEW l \in Loop, NEW t \in Task, Claim(l, t)
  PROVE  ReachInv'
<1> DEFINE place == [Idle EXCEPT !.pc = "gate", !.task = t, !.attempt = claims[t] + 1]
<1>1. /\ claims \in [Task -> 0 .. MaxAttempts] /\ claims' = [claims EXCEPT ![t] = @ + 1]
      /\ UNCHANGED <<queueOf, approver>> /\ loop[l].pc = "idle"
  BY DEF WorkerInv, WorkerTypeOK, Claim, At
<1>2. place.pc = "gate" /\ place.task = t /\ place.attempt = claims[t] + 1
  BY DEF Idle
<1>3. /\ \A m \in Loop : m # l => loop'[m] = loop[m]
      /\ loop'[l] = place \/ loop'[l] = loop[l]
  BY DEF Claim, WorkerInv, WorkerTypeOK
<1> HIDE DEF place
<1>4. \A m \in Loop : Working(m) =>
        loop[m].task \in Task /\ loop[m].attempt \in 1 .. MaxAttempts
        /\ loop[m].attempt <= claims[loop[m].task]
  BY DEF WorkerInv, RunsAreOfClaims, ReachInv, RunsAreNumbered, Attempt
<1>5. claims[t] \in Nat /\ claims'[t] = claims[t] + 1 /\ \A u \in Task : u # t => claims'[u] = claims[u]
  BY <1>1, ExecutionAssumption
<1>6. \A u \in Task : claims[u] \in Nat
  BY <1>1, ExecutionAssumption
<1>7. ASSUME NEW m \in Loop, Working(m)'
      PROVE  \/ Working(m) /\ loop'[m] = loop[m]
             \/ m = l /\ loop'[m] = place
  BY <1>1, <1>3, <1>7 DEF Working
<1>8. RunsAreNumbered'
  BY <1>2, <1>4, <1>5, <1>6, <1>7, ExecutionAssumption DEF RunsAreNumbered
<1>9. OneRunPerClaim'
  BY <1>2, <1>4, <1>5, <1>7, ExecutionAssumption DEF OneRunPerClaim, ReachInv
<1>10. FirstRunReachable'
  <2> SUFFICES ASSUME NEW m \in Loop, Working(m)', claims'[loop'[m].task] = 1
               PROVE  /\ Awaiting(m)' => approver'[WorkerOf(m)][loop'[m].task] = m
                      /\ loop'[m].pc \in Registered => queueOf'[WorkerOf(m)][loop'[m].task] = m
    BY DEF FirstRunReachable
  <2>1. CASE Working(m) /\ loop'[m] = loop[m]
    <3>1. loop[m].task # t
      BY <1>4, <1>5, <2>1, ExecutionAssumption
    <3>2. claims[loop[m].task] = 1
      BY <1>4, <1>5, <2>1, <3>1
    <3> QED
      BY <1>1, <2>1, <3>2 DEF ReachInv, FirstRunReachable, Awaiting
  <2>2. CASE loop'[m] = place
    BY <1>2, <2>2 DEF Awaiting, Registered
  <2> QED
    BY <1>7, <2>1, <2>2
<1> QED
  BY <1>8, <1>9, <1>10 DEF ReachInv

LEMMA FinallyAlone ==
  ASSUME WorkerInv, NEW l \in Loop, Working(l), Finally(l), UNCHANGED claims
  PROVE  StepsAlone(l)
<1>1. loop'[l].pc = "idle"
  BY DEF Finally, WorkerInv, WorkerTypeOK, Idle
<1>2. \A m \in Loop : m # l => loop'[m] = loop[m]
  BY DEF Finally, WorkerInv, WorkerTypeOK
<1>3. \A v \in Worker, u \in Task :
        v # WorkerOf(l) \/ u # loop[l].task =>
          queueOf'[v][u] = queueOf[v][u] /\ approver'[v][u] = approver[v][u]
  BY DEF Finally, WorkerInv, WorkerTypeOK
<1> QED
  BY <1>1, <1>2, <1>3 DEF StepsAlone

\* A step of a run that goes on, with the maps as they are.
LEMMA GoesOnAlone ==
  ASSUME WorkerInv, NEW l \in Loop, Working(l), NEW place \in Place,
         loop' = [loop EXCEPT ![l] = place], UNCHANGED <<claims, queueOf, approver>>,
         place.task = loop[l].task, place.attempt = loop[l].attempt,
         place.pc \notin {"awaitStart", "awaitRun"},
         place.pc \in Registered => loop[l].pc \in Registered
  PROVE  StepsAlone(l)
<1>1. loop'[l] = place /\ \A m \in Loop : m # l => loop'[m] = loop[m]
  BY DEF WorkerInv, WorkerTypeOK
<1> QED
  BY <1>1 DEF StepsAlone

LEMMA GotoIs ==
  ASSUME WorkerInv, NEW l \in Loop, NEW pc \in Pc, Goto(l, pc)
  PROVE  \E place \in Place :
           /\ loop' = [loop EXCEPT ![l] = place]
           /\ place.pc = pc /\ place.task = loop[l].task /\ place.attempt = loop[l].attempt
<1> DEFINE place == [loop[l] EXCEPT !.pc = pc]
<1>1. loop[l] \in Place
  BY DEF WorkerInv, WorkerTypeOK
<1>2. /\ place \in Place /\ place.pc = pc
      /\ place.task = loop[l].task /\ place.attempt = loop[l].attempt
  BY <1>1 DEF Place
<1>3. loop' = [loop EXCEPT ![l] = place]
  BY DEF Goto
<1> HIDE DEF place
<1> QED
  BY <1>2, <1>3

LEMMA AskHumanAlone ==
  ASSUME WorkerInv, NEW l \in Loop, NEW pc \in {"awaitStart", "awaitRun"}, AskHuman(l, pc),
         Working(l), pc = "awaitRun" => loop[l].pc = "asking", UNCHANGED claims
  PROVE  StepsAlone(l)
<1>1. Goto(l, pc) /\ pc \in Pc
  BY DEF AskHuman, Pc
<1>2. PICK place \in Place :
        /\ loop' = [loop EXCEPT ![l] = place]
        /\ place.pc = pc /\ place.task = loop[l].task /\ place.attempt = loop[l].attempt
  BY <1>1, GotoIs
<1>3. loop'[l] = place /\ \A m \in Loop : m # l => loop'[m] = loop[m]
  BY <1>2 DEF WorkerInv, WorkerTypeOK
<1>4. loop[l].task \in Task /\ WorkerOf(l) \in Worker
  BY LoopsOfWorkers DEF WorkerInv, RunsAreOfClaims
<1>5. /\ queueOf' = queueOf /\ approver'[WorkerOf(l)][loop[l].task] = l
      /\ \A v \in Worker, u \in Task :
           v # WorkerOf(l) \/ u # loop[l].task => approver'[v][u] = approver[v][u]
  BY <1>4 DEF AskHuman, WorkerInv, WorkerTypeOK
<1> QED
  BY <1>2, <1>3, <1>5 DEF StepsAlone, Registered

LEMMA LoopStepReach ==
  ASSUME WorkerInv, ReachInv, NEW l \in Loop, LoopStep(l)
  PROVE  ReachInv'
<1>1. ASSUME NEW t \in Task, Claim(l, t)
      PROVE  ReachInv'
  BY <1>1, ClaimReach
<1>2. CASE Gate(l)
  <2>1. Working(l) /\ UNCHANGED claims /\ loop[l].pc = "gate"
    BY <1>2 DEF Gate, At, Working
  <2>2. CASE Goto(l, "starting") /\ UNCHANGED <<queueOf, approver>>
    BY <2>1, <2>2, GotoIs, GoesOnAlone, StepsAloneKeeps DEF Pc, Registered
  <2>3. CASE AskHuman(l, "awaitStart")
    BY <2>1, <2>3, AskHumanAlone, StepsAloneKeeps
  <2> QED
    BY <1>2, <2>1, <2>2, <2>3, FinallyAlone, StepsAloneKeeps DEF Gate
<1>3. CASE Start(l)
  <2>1. Working(l) /\ UNCHANGED claims
    BY <1>3 DEF Start, At, Working
  <2>2. CASE /\ loop' = [loop EXCEPT ![l] = Listening(l)]
             /\ queueOf' = [queueOf EXCEPT ![WorkerOf(l)][loop[l].task] = l]
             /\ UNCHANGED approver
    <3>1. loop'[l] = Listening(l) /\ \A m \in Loop : m # l => loop'[m] = loop[m]
      BY <2>2 DEF WorkerInv, WorkerTypeOK
    <3>2. /\ loop'[l].pc = "running" /\ loop'[l].task = loop[l].task
          /\ loop'[l].attempt = loop[l].attempt
      BY <3>1, ListeningPlace DEF WorkerInv
    <3>3. loop[l].task \in Task /\ WorkerOf(l) \in Worker
      BY <2>1, LoopsOfWorkers DEF WorkerInv, RunsAreOfClaims
    <3>4. /\ queueOf'[WorkerOf(l)][loop[l].task] = l
          /\ \A v \in Worker, u \in Task :
               v # WorkerOf(l) \/ u # loop[l].task => queueOf'[v][u] = queueOf[v][u]
      BY <2>2, <3>3 DEF WorkerInv, WorkerTypeOK
    <3>5. StepsAlone(l)
      BY <2>1, <2>2, <3>1, <3>2, <3>4 DEF StepsAlone
    <3> QED
      BY <3>5, StepsAloneKeeps
  <2> QED
    BY <1>3, <2>1, <2>2, FinallyAlone, StepsAloneKeeps DEF Start
<1>4. CASE Consume(l)
  <2> DEFINE item == Head(items[l])
             pc == IF item.kind = "ask" THEN "asking" ELSE item.kind
             asker == IF item.kind = "ask" THEN item.from ELSE 0
             place == [loop[l] EXCEPT !.pc = pc, !.asker = asker]
  <2>1. Working(l) /\ loop[l].pc = "running" /\ UNCHANGED <<claims, queueOf, approver>>
    BY <1>4 DEF Consume, At, Working, Shared
  <2>2. item \in Item
    BY <1>4 DEF Consume, WorkerInv, WorkerTypeOK
  <2>3. pc \in {"asking", "completed", "failed"} /\ asker \in 0 .. MaxAttempts
    BY <2>2, ExecutionAssumption DEF Item, Outcome, Human, Attempt
  <2>4. loop[l] \in Place
    BY DEF WorkerInv, WorkerTypeOK
  <2>5. loop' = [loop EXCEPT ![l] = place]
    BY <1>4 DEF Consume
  <2> HIDE DEF item, pc, asker
  <2>6. /\ place \in Place /\ place.pc = pc
        /\ place.task = loop[l].task /\ place.attempt = loop[l].attempt
    BY <2>3, <2>4 DEF Place, Pc
  <2> HIDE DEF place
  <2>7. StepsAlone(l)
    BY <2>1, <2>3, <2>5, <2>6, GoesOnAlone DEF Registered
  <2> QED
    BY <2>7, StepsAloneKeeps
<1>5. CASE GiveUp(l) \/ Conclude(l)
  <2>1. Working(l) /\ Finally(l) /\ UNCHANGED claims
    BY <1>5 DEF GiveUp, Conclude, At, Working, Shared, LastReport
  <2> QED
    BY <2>1, FinallyAlone, StepsAloneKeeps
<1>6. CASE AskWhileRunning(l)
  <2>1. Working(l) /\ loop[l].pc = "asking" /\ UNCHANGED claims
    BY <1>6 DEF AskWhileRunning, At, Working, Shared
  <2>2. AskHuman(l, "awaitRun") \/ Finally(l)
    BY <1>6 DEF AskWhileRunning
  <2> QED
    BY <2>1, <2>2, AskHumanAlone, FinallyAlone, StepsAloneKeeps
<1>7. CASE Resume(l)
  <2>1. Working(l) /\ loop[l].pc = "resuming" /\ UNCHANGED claims
    BY <1>7 DEF Resume, At, Working, Shared
  <2>2. CASE loop' = [loop EXCEPT ![l] = Listening(l)] /\ UNCHANGED <<queueOf, approver>>
    <3>1. WorkerTypeOK
      BY DEF WorkerInv
    <3> QED
      BY <2>1, <2>2, <3>1, ListeningPlace, GoesOnAlone, StepsAloneKeeps DEF Registered
  <2> QED
    BY <1>7, <2>1, <2>2, FinallyAlone, StepsAloneKeeps DEF Resume
<1> QED
  BY <1>1, <1>2, <1>3, <1>4, <1>5, <1>6, <1>7 DEF LoopStep

LEMMA DecideReach ==
  ASSUME WorkerInv, ReachInv, NEW w \in Worker, NEW t \in Task,
         NEW decision \in {"approve", "deny"}, Decide(w, t, decision)
  PROVE  ReachInv'
<1> DEFINE l == approver[w][t]
           next == After[loop[l].pc][decision]
<1>1. /\ l \in Loop /\ loop[l].task = t /\ WorkerOf(l) = w
      /\ loop[l].pc \in {"awaitStart", "awaitRun"}
  BY SMTT(30) DEF Decide, WorkerInv, WorkerTypeOK, ApproversWait, Awaiting
<1>2. Goto(l, next) /\ approver' = [approver EXCEPT ![w][t] = None] /\ UNCHANGED <<claims, queueOf>>
  BY DEF Decide
<1>3. /\ next \in {"starting", "rejecting", "resuming", "denying"}
      /\ next = "resuming" => loop[l].pc = "awaitRun"
  BY <1>1 DEF After
<1> HIDE DEF l, next
<1>4. PICK place \in Place :
        /\ loop' = [loop EXCEPT ![l] = place]
        /\ place.pc = next /\ place.task = loop[l].task /\ place.attempt = loop[l].attempt
  BY <1>1, <1>2, <1>3, GotoIs DEF Pc
<1>5. loop'[l] = place /\ \A m \in Loop : m # l => loop'[m] = loop[m]
  BY <1>1, <1>4 DEF WorkerInv, WorkerTypeOK
<1>6. \A v \in Worker, u \in Task : v # w \/ u # t => approver'[v][u] = approver[v][u]
  BY <1>2 DEF WorkerInv, WorkerTypeOK
<1>7. StepsAlone(l)
  BY <1>1, <1>2, <1>3, <1>4, <1>5, <1>6 DEF StepsAlone, Registered, Working
<1> QED
  BY <1>1, <1>7, StepsAloneKeeps

LEMMA CrashReach ==
  ASSUME WorkerInv, ReachInv, NEW w \in Worker, Crash(w)
  PROVE  ReachInv'
<1>1. /\ \A l \in Loop : IF WorkerOf(l) = w THEN loop'[l].pc = "idle" ELSE loop'[l] = loop[l]
      /\ UNCHANGED claims
  BY DEF Crash, Idle
<1>2. \A v \in Worker : v # w => queueOf'[v] = queueOf[v] /\ approver'[v] = approver[v]
  BY DEF Crash, WorkerInv, WorkerTypeOK
<1>3. RunsAreNumbered' /\ OneRunPerClaim'
  BY <1>1, SameRuns DEF Working
<1>4. FirstRunReachable'
  BY <1>1, <1>2, LoopsOfWorkers DEF ReachInv, FirstRunReachable, Working, Awaiting
<1> QED
  BY <1>3, <1>4 DEF ReachInv

LEMMA ReachStep ==
  ASSUME WorkerInv, ReachInv, [Next]_vars
  PROVE  ReachInv'
<1>1. ASSUME UNCHANGED <<loop, claims, queueOf, approver>>
      PROVE  ReachInv'
  BY <1>1 DEF ReachInv, RunsAreNumbered, OneRunPerClaim, FirstRunReachable, Working, Awaiting
<1>2. ASSUME NEW w \in Worker, Heartbeat(w) \/ Crash(w) \/ Restart(w)
      PROVE  ReachInv'
  BY <1>1, <1>2, CrashReach DEF Heartbeat, Restart, workerVars
<1>3. CASE Outside \/ UNCHANGED vars
  BY <1>1, <1>3 DEF Outside, vars, workerVars
<1>4. CASE Elapse
  <2>1. \A l \in Loop : /\ loop'[l].pc = loop[l].pc
                        /\ loop'[l].task = loop[l].task /\ loop'[l].attempt = loop[l].attempt
    BY <1>4 DEF Elapse, WorkerInv, WorkerTypeOK, Place
  <2>2. UNCHANGED <<claims, queueOf, approver>>
    BY <1>4 DEF Elapse
  <2> QED
    BY <2>1, <2>2 DEF ReachInv, RunsAreNumbered, OneRunPerClaim, FirstRunReachable, Working, Awaiting
<1>5. CASE ByHand
  <2>1. ASSUME NEW t \in Task, NEW w \in Worker, NEW decision \in {"approve", "deny"}, Decide(w, t, decision)
        PROVE  ReachInv'
    BY <2>1, DecideReach
  <2> QED
    BY <1>1, <1>5, <2>1 DEF ByHand, Finish, ChooseAgent, Resolve
<1>6. ASSUME NEW t \in Task, NEW k \in Attempt,
             (\E outcome \in Outcome : AgentReports(t, k, outcome)) \/ AgentAsks(t, k) \/ AgentDies(t, k)
      PROVE  ReachInv'
  BY <1>1, <1>6 DEF AgentReports, AgentAsks, AgentDies
<1>7. ASSUME NEW l \in Loop, AdapterFails(l)
      PROVE  ReachInv'
  BY <1>1, <1>7 DEF AdapterFails
<1> QED
  BY <1>2, <1>3, <1>4, <1>5, <1>6, <1>7, LoopStepReach DEF Next, Autonomous

-----------------------------------------------------------------------------
(***************************************************************************)
(* Table and worker about one task.  While a task is in its first claim    *)
(* only one run reports on it, so that the status in the table follows its *)
(* place; and a run that has not started its agent has none.               *)
(***************************************************************************)

Mirrored ==
  \A l \in Loop :
    Working(l) /\ claims[loop[l].task] = 1 /\ status[loop[l].task] \in InFlight
    => status[loop[l].task] \in StatusAt(loop[l].pc)

\* The places of a run before its agent is started.
Early == { "gate", "awaitStart", "starting", "rejecting" }

EarlyRunsHaveNoAgent ==
  \A l \in Loop : loop[l].pc \in Early => proc[loop[l].task][loop[l].attempt].st = "none"

AgentsAreNumbered ==
  \A t \in Task, k \in Attempt : proc[t][k].st # "none" => k <= claims[t]

MirrorInv == Mirrored /\ EarlyRunsHaveNoAgent /\ AgentsAreNumbered /\ RejectedRanNothing

\* No agent appears or disappears from the records.
SameAgents == \A t \in Task, k \in Attempt : proc'[t][k].st = "none" <=> proc[t][k].st = "none"

\* No run gets anywhere, and no task into a worker's hands or rejected.
NoProgress ==
  /\ UNCHANGED claims /\ SameAgents
  /\ \A l \in Loop : \/ loop'[l].pc = "idle"
                      \/ /\ loop'[l].pc = loop[l].pc /\ loop'[l].task = loop[l].task
                         /\ loop'[l].attempt = loop[l].attempt
  /\ \A t \in Task : status'[t] = status[t] \/ status'[t] \notin InFlight \union {"rejected"}

LEMMA NoProgressMirror ==
  ASSUME WorkerInv, MirrorInv, NoProgress
  PROVE  MirrorInv'
<1>1. \A l \in Loop : Working(l)' => /\ Working(l) /\ loop[l].task \in Task
                                     /\ loop[l].attempt \in Attempt
                                     /\ loop'[l].pc = loop[l].pc /\ loop'[l].task = loop[l].task
                                     /\ loop'[l].attempt = loop[l].attempt
  BY DEF NoProgress, Working, WorkerInv, RunsAreOfClaims
<1>2. Mirrored'
  BY <1>1 DEF MirrorInv, Mirrored, NoProgress
<1>3. EarlyRunsHaveNoAgent'
  BY <1>1 DEF MirrorInv, EarlyRunsHaveNoAgent, NoProgress, SameAgents, Working, Early
<1>4. AgentsAreNumbered'
  BY DEF MirrorInv, AgentsAreNumbered, NoProgress, SameAgents
<1>5. RejectedRanNothing'
  <2>1. ASSUME NEW t \in Task, claims[t] = 1 PROVE 1 \in Attempt
    BY <2>1, ExecutionAssumption DEF WorkerInv, WorkerTypeOK, Attempt
  <2> QED
    BY <2>1 DEF MirrorInv, RejectedRanNothing, NoProgress, SameAgents
<1> QED
  BY <1>2, <1>3, <1>4, <1>5 DEF MirrorInv

\* A step of the run of l, which reports on its task only.
ReportsAlone(l) ==
  LET t == loop[l].task
      k == loop[l].attempt
  IN  /\ Working(l) /\ UNCHANGED claims
      /\ \A m \in Loop : m # l => loop'[m] = loop[m]
      /\ \A u \in Task : u # t => status'[u] = status[u]
      /\ status'[t] = "rejected" => status[t] = "rejected" \/ loop[l].pc \in Early
      /\ \/ SameAgents
         \/ /\ \A u \in Task, j \in Attempt : u # t \/ j # k => proc'[u][j] = proc[u][j]
            /\ status'[t] # "rejected" /\ loop'[l].pc \notin Early
      /\ \/ loop'[l].pc = "idle"
         \/ /\ loop'[l].task = t /\ loop'[l].attempt = k
            /\ loop'[l].pc \in Early => loop[l].pc \in Early
            /\ claims[t] = 1 /\ status'[t] \in InFlight => status'[t] \in StatusAt(loop'[l].pc)

LEMMA ReportsAloneKeeps ==
  ASSUME WorkerInv, ReachInv, MirrorInv, NEW l \in Loop, ReportsAlone(l)
  PROVE  MirrorInv'
<1> DEFINE t == loop[l].task
           k == loop[l].attempt
<1>1. Working(l) /\ t \in Task /\ k \in Attempt /\ k \in Nat \ {0} /\ k <= claims[t]
  BY DEF ReportsAlone, WorkerInv, RunsAreOfClaims, ReachInv, RunsAreNumbered, Attempt
<1>2. UNCHANGED claims /\ \A u \in Task : claims[u] \in Nat
  BY ExecutionAssumption DEF ReportsAlone, WorkerInv, WorkerTypeOK
<1>3. ASSUME NEW m \in Loop, Working(m)'
      PROVE  /\ Working(m) /\ loop'[m].task = loop[m].task /\ loop'[m].attempt = loop[m].attempt
             /\ loop[m].task \in Task /\ loop[m].attempt \in Attempt
             /\ m # l => loop'[m] = loop[m]
  BY <1>3 DEF ReportsAlone, Working, WorkerInv, RunsAreOfClaims
<1>4. Mirrored'
  <2> SUFFICES ASSUME NEW m \in Loop, Working(m)', claims'[loop'[m].task] = 1,
                      status'[loop'[m].task] \in InFlight
               PROVE  status'[loop'[m].task] \in StatusAt(loop'[m].pc)
    BY DEF Mirrored
  <2>1. CASE m = l
    BY <1>2, <1>3, <2>1 DEF ReportsAlone, Working
  <2>2. CASE m # l
    <3>1. loop[m].task # t
      BY <1>1, <1>2, <1>3, <2>2, OnlyRun
    <3>2. status'[loop[m].task] = status[loop[m].task]
      BY <1>3, <3>1 DEF ReportsAlone
    <3> QED
      BY <1>2, <1>3, <2>2, <3>2 DEF MirrorInv, Mirrored
  <2> QED
    BY <2>1, <2>2
<1>5. EarlyRunsHaveNoAgent'
  <2> SUFFICES ASSUME NEW m \in Loop, loop'[m].pc \in Early
               PROVE  proc'[loop'[m].task][loop'[m].attempt].st = "none"
    BY DEF EarlyRunsHaveNoAgent
  <2>1. Working(m)'
    BY DEF Working, Early
  <2>2. loop[m].pc \in Early
    BY <1>3, <2>1 DEF ReportsAlone, Working
  <2>3. proc[loop[m].task][loop[m].attempt].st = "none"
    BY <2>2 DEF MirrorInv, EarlyRunsHaveNoAgent
  <2>4. CASE SameAgents
    BY <1>3, <2>1, <2>3, <2>4 DEF SameAgents
  <2>5. CASE ~SameAgents
    <3>1. /\ m # l
          /\ \A u \in Task, j \in Attempt : u # t \/ j # k => proc'[u][j] = proc[u][j]
      BY <2>5 DEF ReportsAlone
    <3>2. loop[m].task # t \/ loop[m].attempt # k
      BY <1>1, <1>3, <2>1, <3>1 DEF ReachInv, OneRunPerClaim
    <3> QED
      BY <1>3, <2>1, <2>3, <3>1, <3>2
  <2> QED
    BY <2>4, <2>5
<1>6. AgentsAreNumbered'
  BY <1>1, <1>2 DEF MirrorInv, AgentsAreNumbered, ReportsAlone, SameAgents
<1>7. RejectedRanNothing'
  <2> SUFFICES ASSUME NEW u \in Task, status'[u] = "rejected", claims[u] = 1
               PROVE  proc'[u][1].st = "none"
    BY <1>2 DEF RejectedRanNothing
  <2>1. 1 \in Attempt
    BY ExecutionAssumption DEF WorkerInv, WorkerTypeOK, Attempt
  <2>2. CASE u # t
    <3>1. proc[u][1].st = "none"
      BY <2>2 DEF ReportsAlone, MirrorInv, RejectedRanNothing
    <3> QED
      BY <2>1, <2>2, <3>1 DEF ReportsAlone, SameAgents
  <2>3. CASE u = t
    <3>1. k = 1 /\ SameAgents
      BY <1>1, <2>3 DEF ReportsAlone
    <3>2. proc[t][1].st = "none"
      BY <2>3, <3>1 DEF ReportsAlone, MirrorInv, RejectedRanNothing, EarlyRunsHaveNoAgent
    <3> QED
      BY <1>1, <2>1, <2>3, <3>1, <3>2 DEF SameAgents
  <2> QED
    BY <2>2, <2>3
<1> QED
  BY <1>4, <1>5, <1>6, <1>7 DEF MirrorInv

\* What a call of the run does to the table, and what its answer says.
LEMMA CallMoves ==
  ASSUME TypeOK, NEW t \in Task, NEW report \in Report, Answered(t, report) \/ Thrown(t, report)
  PROVE  /\ \A u \in Task : u # t => status'[u] = status[u]
         /\ \/ status'[t] = status[t]
            \/ canTransition(status[t], Target(report)) /\ status'[t] = Target(report)
         /\ Answered(t, report) =>
              canTransition(status[t], Target(report)) /\ status'[t] = Target(report)
<1>1. ASSUME applyReport(t, report)
      PROVE  /\ \A u \in Task : u # t => status'[u] = status[u]
             /\ canTransition(status[t], Target(report)) /\ status'[t] = Target(report)
  BY <1>1 DEF applyReport, reportRow, TypeOK
<1>2. ASSUME UNCHANGED taskVars PROVE status' = status
  BY <1>2 DEF taskVars
<1> QED
  BY <1>1, <1>2 DEF Answered, Thrown

\* A run that ends, with or without a last report.
LEMMA FinallyReports ==
  ASSUME TypeOK, WorkerInv, NEW l \in Loop, Working(l), Finally(l), UNCHANGED <<claims, proc>>,
         \/ UNCHANGED taskVars
         \/ \E report \in Report :
              /\ Answered(loop[l].task, report) \/ Thrown(loop[l].task, report)
              /\ report = "rejected" => loop[l].pc \in Early
  PROVE  ReportsAlone(l)
<1>1. loop'[l].pc = "idle" /\ \A m \in Loop : m # l => loop'[m] = loop[m]
  BY DEF Finally, WorkerInv, WorkerTypeOK, Idle
<1>2. loop[l].task \in Task
  BY DEF WorkerInv, RunsAreOfClaims
<1>3. /\ \A u \in Task : u # loop[l].task => status'[u] = status[u]
      /\ status'[loop[l].task] = "rejected" =>
           status[loop[l].task] = "rejected" \/ loop[l].pc \in Early
  <2>1. CASE UNCHANGED taskVars
    BY <2>1 DEF taskVars
  <2>2. ASSUME NEW report \in Report,
               Answered(loop[l].task, report) \/ Thrown(loop[l].task, report),
               report = "rejected" => loop[l].pc \in Early
        PROVE  <1>3!1 /\ <1>3!2
    BY <1>2, <2>2, CallMoves DEF Report, Target
  <2> QED
    BY <2>1, <2>2
<1> QED
  BY <1>1, <1>3 DEF ReportsAlone, SameAgents

\* A run that goes on after a report was taken.
LEMMA AnsweredGoesOn ==
  ASSUME TypeOK, WorkerInv, NEW l \in Loop, Working(l), NEW place \in Place,
         NEW report \in {"waiting", "resumed"}, Answered(loop[l].task, report),
         loop' = [loop EXCEPT ![l] = place], UNCHANGED <<claims, proc>>,
         place.task = loop[l].task, place.attempt = loop[l].attempt,
         Target(report) \in StatusAt(place.pc),
         place.pc \in Early => loop[l].pc \in Early
  PROVE  ReportsAlone(l)
<1>1. loop'[l] = place /\ \A m \in Loop : m # l => loop'[m] = loop[m]
  BY DEF WorkerInv, WorkerTypeOK
<1>2. loop[l].task \in Task /\ report \in Report
  BY DEF WorkerInv, RunsAreOfClaims, Report
<1>3. /\ \A u \in Task : u # loop[l].task => status'[u] = status[u]
      /\ status'[loop[l].task] = Target(report) /\ Target(report) # "rejected"
  BY <1>2, CallMoves DEF Target
<1> QED
  BY <1>1, <1>3 DEF ReportsAlone, SameAgents

\* A run that goes on without a report.
LEMMA SilentGoesOn ==
  ASSUME WorkerInv, MirrorInv, NEW l \in Loop, Working(l), NEW place \in Place,
         loop' = [loop EXCEPT ![l] = place], UNCHANGED <<claims, status>>, SameAgents,
         place.task = loop[l].task, place.attempt = loop[l].attempt,
         StatusAt(loop[l].pc) \subseteq StatusAt(place.pc),
         place.pc \in Early => loop[l].pc \in Early
  PROVE  ReportsAlone(l)
<1>1. loop'[l] = place /\ \A m \in Loop : m # l => loop'[m] = loop[m]
  BY DEF WorkerInv, WorkerTypeOK
<1>2. claims[loop[l].task] = 1 /\ status[loop[l].task] \in InFlight
      => status[loop[l].task] \in StatusAt(place.pc)
  BY DEF MirrorInv, Mirrored
<1> QED
  BY <1>1, <1>2 DEF ReportsAlone

LEMMA ClaimMirror ==
  ASSUME TypeOK, WorkerInv, ReachInv, MirrorInv, NEW l \in Loop, NEW t \in Task, Claim(l, t)
  PROVE  MirrorInv'
<1> DEFINE place == [Idle EXCEPT !.pc = "gate", !.task = t, !.attempt = claims[t] + 1]
<1>1. /\ claims \in [Task -> 0 .. MaxAttempts] /\ claims' = [claims EXCEPT ![t] = @ + 1]
      /\ claims[t] < MaxAttempts /\ UNCHANGED proc
  BY DEF WorkerInv, WorkerTypeOK, Claim
<1>2. place.pc = "gate" /\ place.task = t /\ place.attempt = claims[t] + 1
  BY DEF Idle
<1>3. /\ \A m \in Loop : m # l => loop'[m] = loop[m]
      /\ loop'[l] = place \/ loop'[l] = loop[l]
  BY DEF Claim, WorkerInv, WorkerTypeOK
<1>4. status'[t] = "claimed" /\ \A u \in Task : u # t => status'[u] = status[u]
  BY DEF Claim, claimNext, TypeOK
<1> HIDE DEF place
<1>5. \A m \in Loop : Working(m) =>
        loop[m].task \in Task /\ loop[m].attempt \in 1 .. MaxAttempts
        /\ loop[m].attempt <= claims[loop[m].task]
  BY DEF WorkerInv, RunsAreOfClaims, ReachInv, RunsAreNumbered, Attempt
<1>6. claims[t] \in Nat /\ claims'[t] = claims[t] + 1 /\ \A u \in Task : u # t => claims'[u] = claims[u]
  BY <1>1, ExecutionAssumption
<1>7. \A m \in Loop : loop'[m] = loop[m] \/ loop'[m] = place
  BY <1>3
<1>8. Mirrored'
  <2> SUFFICES ASSUME NEW m \in Loop, Working(m)', claims'[loop'[m].task] = 1,
                      status'[loop'[m].task] \in InFlight
               PROVE  status'[loop'[m].task] \in StatusAt(loop'[m].pc)
    BY DEF Mirrored
  <2>1. CASE loop'[m] = loop[m]
    <3>1. Working(m)
      BY <2>1 DEF Working
    <3>2. loop[m].task # t
      BY <1>5, <1>6, <2>1, <3>1, ExecutionAssumption
    <3> QED
      BY <1>4, <1>5, <1>6, <2>1, <3>1, <3>2 DEF MirrorInv, Mirrored
  <2>2. CASE loop'[m] = place
    BY <1>2, <1>4, <2>2 DEF StatusAt
  <2> QED
    BY <1>7, <2>1, <2>2
<1>9. EarlyRunsHaveNoAgent'
  <2>1. claims[t] + 1 \in Attempt /\ ~ (claims[t] + 1 <= claims[t])
    BY <1>1, <1>6, ExecutionAssumption DEF Attempt
  <2>2. proc[t][claims[t] + 1].st = "none"
    BY <2>1 DEF MirrorInv, AgentsAreNumbered
  <2> QED
    BY <1>1, <1>2, <1>7, <2>2 DEF MirrorInv, EarlyRunsHaveNoAgent
<1>10. AgentsAreNumbered'
  BY <1>1, <1>6, ExecutionAssumption DEF MirrorInv, AgentsAreNumbered, Attempt
<1>11. RejectedRanNothing'
  BY <1>1, <1>4, <1>6 DEF MirrorInv, RejectedRanNothing
<1> QED
  BY <1>8, <1>9, <1>10, <1>11 DEF MirrorInv

LEMMA StartMirror ==
  ASSUME TypeOK, WorkerInv, ReachInv, MirrorInv, NEW l \in Loop, Start(l)
  PROVE  MirrorInv'
<1> DEFINE t == loop[l].task
           k == loop[l].attempt
<1>1. Working(l) /\ UNCHANGED claims /\ t \in Task /\ k \in Attempt /\ "started" \in Report
  BY DEF Start, At, Working, WorkerInv, RunsAreOfClaims, Report
<1>2. CASE Thrown(t, "started") /\ Finally(l) /\ UNCHANGED proc
  BY <1>1, <1>2, FinallyReports, ReportsAloneKeeps
<1>3. CASE /\ Answered(t, "started") /\ loop' = [loop EXCEPT ![l] = Listening(l)]
           /\ proc' = [proc EXCEPT ![t][k] = [st |-> "working", at |-> WorkerOf(l)]]
  <2>1. loop'[l] = Listening(l) /\ \A m \in Loop : m # l => loop'[m] = loop[m]
    BY <1>3 DEF WorkerInv, WorkerTypeOK
  <2>2. loop'[l].pc = "running" /\ loop'[l].task = t /\ loop'[l].attempt = k
    BY <2>1, ListeningPlace DEF WorkerInv
  <2>3. status'[t] = "running" /\ \A u \in Task : u # t => status'[u] = status[u]
    BY <1>1, <1>3, CallMoves DEF Target
  <2>4. \A u \in Task, j \in Attempt : u # t \/ j # k => proc'[u][j] = proc[u][j]
    BY <1>1, <1>3 DEF WorkerInv, WorkerTypeOK
  <2>5. ReportsAlone(l)
    BY <1>1, <2>1, <2>2, <2>3, <2>4 DEF ReportsAlone, Early, StatusAt
  <2> QED
    BY <2>5, ReportsAloneKeeps
<1> QED
  BY <1>2, <1>3 DEF Start

LEMMA LoopStepMirror ==
  ASSUME TypeOK, WorkerInv, ReachInv, MirrorInv, NEW l \in Loop, LoopStep(l)
  PROVE  MirrorInv'
<1>0. ASSUME Working(l), Finally(l), UNCHANGED <<claims, proc>>, NEW report \in Report,
             Answered(loop[l].task, report) \/ Thrown(loop[l].task, report),
             report = "rejected" => loop[l].pc \in Early
      PROVE  MirrorInv'
  BY <1>0, FinallyReports, ReportsAloneKeeps
<1>1. CASE Gate(l)
  <2>1. Working(l) /\ UNCHANGED <<claims, proc>> /\ loop[l].pc = "gate"
    BY <1>1 DEF Gate, At, Working
  <2>2. CASE Goto(l, "starting") /\ UNCHANGED taskVars
    <3>1. PICK place \in Place :
            /\ loop' = [loop EXCEPT ![l] = place]
            /\ place.pc = "starting" /\ place.task = loop[l].task /\ place.attempt = loop[l].attempt
      BY <2>2, GotoIs DEF Pc
    <3>2. UNCHANGED status /\ SameAgents
      BY <2>1, <2>2 DEF taskVars, SameAgents
    <3>3. StatusAt(loop[l].pc) \subseteq StatusAt(place.pc)
      BY <2>1, <3>1 DEF StatusAt
    <3> QED
      BY <2>1, <3>1, <3>2, <3>3, SilentGoesOn, ReportsAloneKeeps DEF Early
  <2>3. CASE (Answered(loop[l].task, "rejected") \/ Thrown(loop[l].task, "rejected")) /\ Finally(l)
    BY <1>0, <2>1, <2>3 DEF Report, Early
  <2>4. CASE Answered(loop[l].task, "waiting") /\ AskHuman(l, "awaitStart")
    <3>1. PICK place \in Place :
            /\ loop' = [loop EXCEPT ![l] = place]
            /\ place.pc = "awaitStart" /\ place.task = loop[l].task /\ place.attempt = loop[l].attempt
      BY <2>4, GotoIs DEF AskHuman, Pc
    <3>2. Target("waiting") \in StatusAt(place.pc)
      BY <3>1 DEF Target, StatusAt
    <3> QED
      BY <2>1, <2>4, <3>1, <3>2, AnsweredGoesOn, ReportsAloneKeeps DEF Early
  <2>5. CASE Thrown(loop[l].task, "waiting") /\ Finally(l)
    BY <1>0, <2>1, <2>5 DEF Report
  <2> QED
    BY <1>1, <2>2, <2>3, <2>4, <2>5 DEF Gate
<1>2. CASE Consume(l)
  <2> DEFINE item == Head(items[l])
             pc == IF item.kind = "ask" THEN "asking" ELSE item.kind
             asker == IF item.kind = "ask" THEN item.from ELSE 0
             place == [loop[l] EXCEPT !.pc = pc, !.asker = asker]
  <2>1. Working(l) /\ loop[l].pc = "running" /\ UNCHANGED <<claims, status>> /\ SameAgents
    BY <1>2 DEF Consume, At, Working, Shared, taskVars, SameAgents
  <2>2. item \in Item
    BY <1>2 DEF Consume, WorkerInv, WorkerTypeOK
  <2>3. pc \in {"asking", "completed", "failed"} /\ asker \in 0 .. MaxAttempts
    BY <2>2, ExecutionAssumption DEF Item, Outcome, Human, Attempt
  <2>4. loop[l] \in Place
    BY DEF WorkerInv, WorkerTypeOK
  <2>5. loop' = [loop EXCEPT ![l] = place]
    BY <1>2 DEF Consume
  <2> HIDE DEF item, pc, asker
  <2>6. /\ place \in Place /\ place.pc = pc
        /\ place.task = loop[l].task /\ place.attempt = loop[l].attempt
    BY <2>3, <2>4 DEF Place, Pc
  <2> HIDE DEF place
  <2>7. StatusAt(loop[l].pc) \subseteq StatusAt(place.pc) /\ place.pc \notin Early
    BY <2>1, <2>3, <2>6 DEF StatusAt, Early
  <2>8. ReportsAlone(l)
    BY <2>1, <2>5, <2>6, <2>7, SilentGoesOn
  <2> QED
    BY <2>8, ReportsAloneKeeps
<1>3. CASE GiveUp(l)
  <2>1. Working(l) /\ Finally(l) /\ UNCHANGED <<claims, proc>> /\ UNCHANGED taskVars
    BY <1>3 DEF GiveUp, At, Working, Shared
  <2> QED
    BY <2>1, FinallyReports, ReportsAloneKeeps
<1>4. CASE AskWhileRunning(l)
  <2>1. Working(l) /\ loop[l].pc = "asking" /\ UNCHANGED <<claims, proc>>
    BY <1>4 DEF AskWhileRunning, At, Working, Shared
  <2>2. CASE Answered(loop[l].task, "waiting") /\ AskHuman(l, "awaitRun")
    <3>1. PICK place \in Place :
            /\ loop' = [loop EXCEPT ![l] = place]
            /\ place.pc = "awaitRun" /\ place.task = loop[l].task /\ place.attempt = loop[l].attempt
      BY <2>2, GotoIs DEF AskHuman, Pc
    <3>2. Target("waiting") \in StatusAt(place.pc) /\ place.pc \notin Early
      BY <3>1 DEF Target, StatusAt, Early
    <3> QED
      BY <2>1, <2>2, <3>1, <3>2, AnsweredGoesOn, ReportsAloneKeeps
  <2>3. CASE Thrown(loop[l].task, "waiting") /\ Finally(l)
    BY <1>0, <2>1, <2>3 DEF Report
  <2> QED
    BY <1>4, <2>2, <2>3 DEF AskWhileRunning
<1>5. CASE Resume(l)
  <2>1. Working(l) /\ loop[l].pc = "resuming" /\ UNCHANGED <<claims, proc>> /\ WorkerTypeOK
    BY <1>5 DEF Resume, At, Working, Shared, WorkerInv
  <2>2. CASE Answered(loop[l].task, "resumed") /\ loop' = [loop EXCEPT ![l] = Listening(l)]
    <3>1. Target("resumed") \in StatusAt(Listening(l).pc) /\ Listening(l).pc \notin Early
      BY <2>1, ListeningPlace DEF Target, StatusAt, Early
    <3> QED
      BY <2>1, <2>2, <3>1, ListeningPlace, AnsweredGoesOn, ReportsAloneKeeps
  <2>3. CASE Thrown(loop[l].task, "resumed") /\ Finally(l)
    BY <1>0, <2>1, <2>3 DEF Report
  <2> QED
    BY <1>5, <2>2, <2>3 DEF Resume
<1>6. CASE Conclude(l)
  <2>1. Working(l) /\ Finally(l) /\ UNCHANGED <<claims, proc>>
    BY <1>6 DEF Conclude, Working, Shared, LastReport
  <2>2. PICK report \in Report :
          /\ Answered(loop[l].task, report) \/ Thrown(loop[l].task, report)
          /\ report = "rejected" => loop[l].pc \in Early
    <3>1. /\ LastReport[loop[l].pc] \in Report
          /\ LastReport[loop[l].pc] = "rejected" => loop[l].pc \in Early
      BY <1>6 DEF Conclude, LastReport, Report, Early
    <3> QED
      BY <1>6, <3>1 DEF Conclude
  <2> QED
    BY <1>0, <2>1, <2>2
<1> QED
  BY <1>1, <1>2, <1>3, <1>4, <1>5, <1>6, ClaimMirror, StartMirror DEF LoopStep

LEMMA DecideMirror ==
  ASSUME WorkerInv, ReachInv, MirrorInv, NEW w \in Worker, NEW t \in Task,
         NEW decision \in {"approve", "deny"}, Decide(w, t, decision)
  PROVE  MirrorInv'
<1> DEFINE l == approver[w][t]
           next == After[loop[l].pc][decision]
           k == loop[l].asker
<1>1. /\ l \in Loop /\ loop[l] \in Place
      /\ loop[l].pc \in {"awaitStart", "awaitRun"}
  BY SMTT(30) DEF Decide, WorkerInv, WorkerTypeOK, ApproversWait, Awaiting
<1>2. Goto(l, next) /\ UNCHANGED <<claims, status>>
  BY DEF Decide, taskVars
<1>3. /\ next \in {"starting", "rejecting", "resuming", "denying"}
      /\ next \in Early => loop[l].pc \in Early
      /\ StatusAt(loop[l].pc) \subseteq StatusAt(next)
  <2>1. CASE loop[l].pc = "awaitStart"
    <3>1. next \in {"starting", "rejecting"}
      BY <2>1 DEF After
    <3> HIDE DEF next, l
    <3> QED
      BY <2>1, <3>1 DEF Early, StatusAt
  <2>2. CASE loop[l].pc = "awaitRun"
    <3>1. next \in {"resuming", "denying"}
      BY <2>2 DEF After
    <3> HIDE DEF next, l
    <3> QED
      BY <2>2, <3>1 DEF Early, StatusAt
  <2> QED
    BY <1>1, <2>1, <2>2
<1>4. SameAgents
  <2>1. CASE proc' = proc
    BY <2>1 DEF SameAgents
  <2>2. CASE k # 0 /\ proc[t][k].st = "asking"
    <3>1. k \in Attempt
      BY <1>1, <2>2, ExecutionAssumption DEF Place, Attempt
    <3>2. \E st \in ProcState \ {"none"} : proc' = [proc EXCEPT ![t][k].st = st]
      BY <2>2 DEF Decide, ProcState
    <3> HIDE DEF k
    <3>3. \A u \in Task, j \in Attempt :
            \/ proc'[u][j] = proc[u][j]
            \/ proc[u][j].st # "none" /\ proc'[u][j].st # "none"
      BY <2>2, <3>1, <3>2, OneAgentMoves
    <3> QED
      BY <3>3 DEF SameAgents
  <2> QED
    BY <2>1, <2>2 DEF Decide
<1> HIDE DEF l, next
<1>5. PICK place \in Place :
        /\ loop' = [loop EXCEPT ![l] = place]
        /\ place.pc = next /\ place.task = loop[l].task /\ place.attempt = loop[l].attempt
  BY <1>1, <1>2, <1>3, GotoIs DEF Pc
<1>6. Working(l)
  BY <1>1 DEF Working
<1> QED
  BY <1>1, <1>2, <1>3, <1>4, <1>5, <1>6, SilentGoesOn, ReportsAloneKeeps

\* Steps of the store that neither claim nor report.
LEMMA StoreLetsGo ==
  ASSUME TypeOK,
         \/ UNCHANGED taskVars \/ Tick \/ sweepExpiredLeases
         \/ \E w \in Worker : recoverWorkerTasks(w) \/ \E ids \in SUBSET Task : extendWaitingLeases(w, ids)
         \/ \E t \in Task : \/ \E a \in Agent : setAgent(t, a)
                            \/ \E action \in {"retry", "abandon"} : resolveStalled(t, action)
         \/ Arrive \/ Purge
  PROVE  \A t \in Task : status'[t] = status[t] \/ status'[t] \notin InFlight \union {"rejected"}
<1> USE DEF TypeOK, InFlight
<1>1. CASE UNCHANGED taskVars \/ Tick
  BY <1>1 DEF taskVars, Tick
<1>2. CASE sweepExpiredLeases
  BY <1>2 DEF sweepExpiredLeases, Stall, StallLogging
<1>3. ASSUME NEW w \in Worker, recoverWorkerTasks(w)
      PROVE  \A t \in Task : status'[t] = status[t] \/ status'[t] \notin InFlight \union {"rejected"}
  BY <1>3 DEF recoverWorkerTasks, Stall, StallLogging
<1>4. ASSUME NEW w \in Worker, NEW ids \in SUBSET Task, extendWaitingLeases(w, ids)
      PROVE  status' = status
  BY <1>4 DEF extendWaitingLeases
<1>5. ASSUME NEW u \in Task, NEW a \in Agent, setAgent(u, a)
      PROVE  status' = status
  BY <1>5 DEF setAgent, agentRow
<1>6. ASSUME NEW u \in Task, NEW action \in {"retry", "abandon"}, resolveStalled(u, action)
      PROVE  \A t \in Task : status'[t] = status[t] \/ status'[t] \notin InFlight \union {"rejected"}
  BY <1>6 DEF resolveStalled, resolveRow, Resolution
<1>7. CASE Arrive
  BY <1>7 DEF Arrive, createTask, insertRow
<1>8. CASE Purge
  BY <1>8 DEF Purge, purgeTasks
<1> QED
  BY <1>1, <1>2, <1>3, <1>4, <1>5, <1>6, <1>7, <1>8

LEMMA CrashMirror ==
  ASSUME TypeOK, WorkerInv, ConsentInv, MirrorInv, NEW w \in Worker, Crash(w)
  PROVE  MirrorInv'
<1>1. \A l \in Loop : loop'[l] = loop[l] \/ loop'[l].pc = "idle"
  BY DEF Crash, Idle
<1>2. ASSUME NEW t \in Task, NEW k \in Attempt
      PROVE  proc'[t][k].st = "none" <=> proc[t][k].st = "none"
  <2>1. proc[t][k] \in Proc
    BY DEF WorkerInv, WorkerTypeOK, Proc, ProcState
  <2>2. proc[t][k].at = w => proc[t][k].st # "none"
    BY NoneAssumption DEF ConsentInv, UnstartedAreNowhere
  <2>3. \/ proc'[t][k] = proc[t][k]
        \/ proc[t][k].at = w /\ \E st \in {"ended", "working"} : proc'[t][k] = [proc[t][k] EXCEPT !.st = st]
    BY DEF Crash
  <2> QED
    BY <2>1, <2>2, <2>3 DEF Proc
<1>3. UNCHANGED <<claims, status>>
  BY DEF Crash, taskVars
<1> QED
  BY <1>1, <1>2, <1>3, NoProgressMirror DEF NoProgress, SameAgents

LEMMA MirrorStep ==
  ASSUME TypeOK, WorkerInv, ConsentInv, ReachInv, MirrorInv, [Next]_vars
  PROVE  MirrorInv'
<1> DEFINE LetsGo == \A t \in Task : status'[t] = status[t] \/ status'[t] \notin InFlight \union {"rejected"}
<1>1. ASSUME UNCHANGED <<loop, proc, claims>>, LetsGo
      PROVE  MirrorInv'
  BY <1>1, NoProgressMirror DEF NoProgress, SameAgents
<1>2. ASSUME NEW w \in Worker, Heartbeat(w) \/ Crash(w) \/ Restart(w)
      PROVE  MirrorInv'
  <2>1. CASE Heartbeat(w)
    <3>1. { t \in Task : approver[w][t] # None } \in SUBSET Task
      OBVIOUS
    <3>2. LetsGo
      BY <2>1, <3>1, StoreLetsGo DEF Heartbeat
    <3> QED
      BY <1>1, <2>1, <3>2 DEF Heartbeat, workerVars
  <2>2. CASE Restart(w)
    <3>1. LetsGo
      BY <2>2, StoreLetsGo DEF Restart
    <3> QED
      BY <1>1, <2>2, <3>1 DEF Restart
  <2> QED
    BY <1>2, <2>1, <2>2, CrashMirror
<1>3. CASE Outside
  <2>1. LetsGo
    BY <1>3, StoreLetsGo DEF Outside
  <2> QED
    BY <1>1, <1>3, <2>1 DEF Outside, workerVars
<1>4. CASE Elapse
  <2>1. \A l \in Loop : /\ loop'[l].pc = loop[l].pc
                        /\ loop'[l].task = loop[l].task /\ loop'[l].attempt = loop[l].attempt
    BY <1>4 DEF Elapse, WorkerInv, WorkerTypeOK, Place
  <2>2. LetsGo
    BY <1>4, StoreLetsGo DEF Elapse
  <2>3. UNCHANGED <<proc, claims>>
    BY <1>4 DEF Elapse
  <2> QED
    BY <2>1, <2>2, <2>3, NoProgressMirror DEF NoProgress, SameAgents
<1>5. CASE ByHand
  <2>1. ASSUME NEW t \in Task, NEW w \in Worker, NEW decision \in {"approve", "deny"}, Decide(w, t, decision)
        PROVE  MirrorInv'
    BY <2>1, DecideMirror
  <2>2. ASSUME NEW t \in Task, NEW w \in Worker, NEW outcome \in Outcome, Finish(w, t, outcome)
        PROVE  MirrorInv'
    BY <1>1, <2>2, StoreLetsGo DEF Finish
  <2>3. ASSUME NEW t \in Task, NEW w \in Worker, NEW a \in Agent, ChooseAgent(w, t, a)
        PROVE  MirrorInv'
    <3>1. LetsGo
      BY <2>3, StoreLetsGo DEF ChooseAgent
    <3> QED
      BY <1>1, <2>3, <3>1 DEF ChooseAgent
  <2>4. ASSUME NEW t \in Task, NEW action \in {"retry", "abandon"}, Resolve(t, action)
        PROVE  MirrorInv'
    <3>1. LetsGo
      BY <2>4, StoreLetsGo DEF Resolve
    <3> QED
      BY <1>1, <2>4, <3>1 DEF Resolve
  <2> QED
    BY <1>5, <2>1, <2>2, <2>3, <2>4 DEF ByHand
<1>6. ASSUME NEW t \in Task, NEW k \in Attempt, NEW st \in {"asking", "ended"},
             proc[t][k].st # "none", proc' = [proc EXCEPT ![t][k].st = st],
             UNCHANGED <<taskVars, loop, claims>>
      PROVE  MirrorInv'
  <2>1. SameAgents
    BY <1>6, OneAgentMoves DEF SameAgents, ProcState
  <2>2. LetsGo
    BY <1>6 DEF taskVars
  <2> QED
    BY <1>6, <2>1, <2>2, NoProgressMirror DEF NoProgress
<1>7. ASSUME NEW t \in Task, NEW k \in Attempt,
             (\E outcome \in Outcome : AgentReports(t, k, outcome)) \/ AgentAsks(t, k) \/ AgentDies(t, k)
      PROVE  MirrorInv'
  <2>1. proc[t][k].st # "none" /\ \E st \in {"asking", "ended"} : proc' = [proc EXCEPT ![t][k].st = st]
    BY <1>7 DEF AgentReports, AgentAsks, AgentDies, Alive
  <2>2. UNCHANGED <<taskVars, loop, claims>>
    BY <1>7 DEF AgentReports, AgentAsks, AgentDies
  <2> QED
    BY <1>6, <2>1, <2>2
<1>8. ASSUME NEW l \in Loop, AdapterFails(l)
      PROVE  MirrorInv'
  <2>1. /\ loop[l].task \in Task /\ loop[l].attempt \in Attempt
        /\ proc[loop[l].task][loop[l].attempt].st # "none"
        /\ proc' = [proc EXCEPT ![loop[l].task][loop[l].attempt].st = "ended"]
        /\ UNCHANGED <<taskVars, loop, claims>>
    BY <1>8 DEF AdapterFails, Alive, WorkerInv, RunsAreOfClaims, Working
  <2> QED
    BY <1>6, <2>1
<1>9. CASE UNCHANGED vars
  BY <1>1, <1>9 DEF vars, workerVars, taskVars
<1> QED
  BY <1>2, <1>3, <1>4, <1>5, <1>7, <1>8, <1>9, LoopStepMirror DEF Next, Autonomous

-----------------------------------------------------------------------------
(***************************************************************************)
(* Leases and patience.  The newest run of a task in flight is a run of    *)
(* its holder, and a worker with one loop has no second run that could     *)
(* have the lease prolonged while this one listens.                        *)
(***************************************************************************)

HolderRuns ==
  \A l \in Loop :
    Current(l) /\ status[loop[l].task] \in InFlight => workerId[loop[l].task] = WorkerOf(l)

Patient ==
  \A l \in Loop :
    /\ Concurrency = 1 /\ Current(l) /\ loop[l].pc = "running"
    /\ status[loop[l].task] \in InFlight
    => lease[loop[l].task] <= loop[l].patience

LeaseInv == HolderRuns /\ Patient

\* No task gets into a worker's hands, and those there stay as they are.
LeasesRest ==
  \A t \in Task : status'[t] \in InFlight =>
    /\ status[t] \in InFlight
    /\ workerId'[t] = workerId[t] /\ lease'[t] = lease[t]

\* No run begins, and one that begins to listen has all its patience.
Onward ==
  /\ UNCHANGED claims
  /\ \A l \in Loop :
       \/ loop'[l].pc = "idle"
       \/ /\ Working(l) /\ loop'[l].task = loop[l].task /\ loop'[l].attempt = loop[l].attempt
          /\ loop'[l].pc = "running" => loop'[l] = loop[l] \/ loop'[l].patience = LeaseSeconds

LEMMA LeaseInNumbers ==
  ASSUME TypeOK, HeldAndLeased, NEW t \in Task, status[t] \in InFlight
  PROVE  lease[t] \in Int /\ lease[t] <= LeaseSeconds
BY LeaseAssumption DEF TypeOK, HeldAndLeased, LeaseValue

LEMMA RestKeepsLeases ==
  ASSUME TypeOK, HeldAndLeased, WorkerInv, LeaseInv, LeasesRest, Onward
  PROVE  LeaseInv'
<1>1. ASSUME NEW l \in Loop, Current(l)'
      PROVE  /\ Current(l) /\ loop[l].task \in Task /\ loop'[l].task = loop[l].task
             /\ loop'[l].pc = "running" => loop'[l] = loop[l] \/ loop'[l].patience = LeaseSeconds
  BY <1>1 DEF Onward, Current, Working, WorkerInv, RunsAreOfClaims
<1>2. HolderRuns'
  BY <1>1 DEF LeasesRest, LeaseInv, HolderRuns
<1>3. Patient'
  <2> SUFFICES ASSUME NEW l \in Loop, Concurrency = 1, Current(l)', loop'[l].pc = "running",
                      status'[loop'[l].task] \in InFlight
               PROVE  lease'[loop'[l].task] <= loop'[l].patience
    BY DEF Patient
  <2> DEFINE t == loop[l].task
  <2>1. Current(l) /\ t \in Task /\ loop'[l].task = t
    BY <1>1
  <2>2. status[t] \in InFlight /\ lease'[t] = lease[t]
    BY <2>1 DEF LeasesRest
  <2>3. CASE loop'[l] = loop[l]
    BY <2>1, <2>2, <2>3 DEF LeaseInv, Patient
  <2>4. CASE loop'[l].patience = LeaseSeconds
    BY <2>1, <2>2, <2>4, LeaseInNumbers
  <2> QED
    BY <1>1, <2>3, <2>4
<1> QED
  BY <1>2, <1>3 DEF LeaseInv

LEMMA ClaimLeases ==
  ASSUME TypeOK, WorkerInv, ReachInv, LeaseInv, NEW l \in Loop, NEW t \in Task, Claim(l, t)
  PROVE  LeaseInv'
<1> DEFINE place == [Idle EXCEPT !.pc = "gate", !.task = t, !.attempt = claims[t] + 1]
<1>1. claims \in [Task -> 0 .. MaxAttempts] /\ claims' = [claims EXCEPT ![t] = @ + 1]
  BY DEF WorkerInv, WorkerTypeOK, Claim
<1>2. place.pc = "gate" /\ place.task = t /\ place.attempt = claims[t] + 1
  BY DEF Idle
<1>3. /\ \A m \in Loop : m # l => loop'[m] = loop[m]
      /\ loop'[l] = place \/ loop'[l] = loop[l]
  BY DEF Claim, WorkerInv, WorkerTypeOK
<1>4. /\ workerId'[t] = WorkerOf(l)
      /\ \A u \in Task : u # t => status'[u] = status[u] /\ workerId'[u] = workerId[u]
                                  /\ lease'[u] = lease[u]
  BY DEF Claim, claimNext, TypeOK
<1> HIDE DEF place
<1>5. \A m \in Loop : Working(m) =>
        loop[m].task \in Task /\ loop[m].attempt \in 1 .. MaxAttempts
        /\ loop[m].attempt <= claims[loop[m].task]
  BY DEF WorkerInv, RunsAreOfClaims, ReachInv, RunsAreNumbered, Attempt
<1>6. claims[t] \in Nat /\ claims'[t] = claims[t] + 1 /\ \A u \in Task : u # t => claims'[u] = claims[u]
  BY <1>1, ExecutionAssumption
<1>7. ASSUME NEW m \in Loop, Current(m)'
      PROVE  \/ m = l /\ loop'[m] = place
             \/ Current(m) /\ loop'[m] = loop[m] /\ loop[m].task \in Task \ {t}
  <2>1. CASE loop'[m] = loop[m]
    <3>1. Working(m) /\ loop[m].attempt = claims'[loop[m].task]
      BY <1>7, <2>1 DEF Current, Working
    <3>2. loop[m].task # t
      BY <1>5, <1>6, <3>1, ExecutionAssumption
    <3> QED
      BY <1>5, <1>6, <2>1, <3>1, <3>2 DEF Current
  <2> QED
    BY <1>3, <2>1
<1>8. HolderRuns'
  BY <1>2, <1>4, <1>7 DEF LeaseInv, HolderRuns
<1>9. Patient'
  BY <1>2, <1>4, <1>7 DEF LeaseInv, Patient
<1> QED
  BY <1>8, <1>9 DEF LeaseInv

\* What is prolonged waits for a decision in this worker, whose one loop
\* then does not listen.
LEMMA HeartbeatLeases ==
  ASSUME TypeOK, WorkerInv, LeaseInv, NEW w \in Worker, Heartbeat(w)
  PROVE  LeaseInv'
<1> DEFINE rows == { t \in Task : approver[w][t] # None /\ workerId[t] = w /\ status[t] = "waiting" }
<1>1. /\ UNCHANGED <<status, workerId, loop, claims>>
      /\ \A t \in Task : t \notin rows => lease'[t] = lease[t]
  BY DEF Heartbeat, extendWaitingLeases, workerVars
<1>2. HolderRuns'
  BY <1>1 DEF LeaseInv, HolderRuns, Current, Working
<1>3. ASSUME NEW l \in Loop, Concurrency = 1, Current(l), loop[l].pc = "running",
             status[loop[l].task] \in InFlight
      PROVE  loop[l].task \in Task \ rows
  <2>1. loop[l].task \in Task /\ workerId[loop[l].task] = WorkerOf(l)
    BY <1>3 DEF LeaseInv, HolderRuns, Current, WorkerInv, RunsAreOfClaims
  <2>2. SUFFICES ASSUME loop[l].task \in rows PROVE FALSE
    BY <2>1
  <2> DEFINE m == approver[w][loop[l].task]
  <2>3. m \in Loop /\ WorkerOf(m) = w /\ WorkerOf(l) = w /\ Awaiting(m)
    BY <2>1, <2>2 DEF WorkerInv, WorkerTypeOK, ApproversWait
  <2> HIDE DEF m
  <2>4. m = l
    BY <1>3, <2>3 DEF Loop, WorkerOf
  <2> QED
    BY <1>3, <2>3, <2>4 DEF Awaiting
<1>4. Patient'
  BY <1>1, <1>3 DEF LeaseInv, Patient, Current, Working
<1> QED
  BY <1>2, <1>4 DEF LeaseInv

LEMMA ElapseLeases ==
  ASSUME TypeOK, HeldAndLeased, WorkerInv, LeaseInv, Elapse
  PROVE  LeaseInv'
<1>1. UNCHANGED <<status, workerId, claims>>
  BY DEF Elapse, Tick, taskVars
<1>2. \A l \in Loop :
        /\ loop[l] \in Place
        /\ loop'[l].pc = loop[l].pc /\ loop'[l].task = loop[l].task
        /\ loop'[l].attempt = loop[l].attempt
        /\ loop[l].pc = "running" => loop'[l].patience = IF loop[l].patience > 0
                                                         THEN loop[l].patience - 1 ELSE loop[l].patience
  BY DEF Elapse, WorkerInv, WorkerTypeOK, Place
<1>3. ASSUME NEW t \in Task, status[t] \in InFlight
      PROVE  lease'[t] = IF lease[t] = -1 THEN -1 ELSE lease[t] - 1
  <2>1. lease[t] # None
    BY <1>3 DEF HeldAndLeased
  <2>2. CASE Tick
    BY <2>1, <2>2 DEF Tick
  <2>3. CASE UNCHANGED taskVars /\ \A u \in Task : lease[u] \in {None, -1}
    BY <2>1, <2>3 DEF taskVars
  <2> QED
    BY <2>2, <2>3 DEF Elapse
<1>4. HolderRuns'
  BY <1>1, <1>2 DEF LeaseInv, HolderRuns, Current, Working
<1>5. Patient'
  <2> SUFFICES ASSUME NEW l \in Loop, Concurrency = 1, Current(l)', loop'[l].pc = "running",
                      status'[loop'[l].task] \in InFlight
               PROVE  lease'[loop'[l].task] <= loop'[l].patience
    BY DEF Patient
  <2> DEFINE t == loop[l].task
             p == loop[l].patience
  <2>1. Current(l) /\ loop'[l].task = t /\ loop[l].pc = "running" /\ status[t] \in InFlight
    BY <1>1, <1>2 DEF Current, Working
  <2>2. t \in Task /\ p \in Nat
    BY <1>2, <2>1, LeaseAssumption DEF Place, Current, WorkerInv, RunsAreOfClaims
  <2>3. lease[t] \in -1 .. LeaseSeconds
    BY <2>1, <2>2 DEF TypeOK, HeldAndLeased, LeaseValue
  <2>4. lease[t] <= p
    BY <2>1 DEF LeaseInv, Patient
  <2>5. /\ lease'[t] = IF lease[t] = -1 THEN -1 ELSE lease[t] - 1
        /\ loop'[l].patience = IF p > 0 THEN p - 1 ELSE p
    BY <1>2, <1>3, <2>1, <2>2
  <2> HIDE DEF t, p
  <2>6. lease'[t] <= loop'[l].patience
    BY <2>2, <2>3, <2>4, <2>5, LeaseAssumption
  <2> QED
    BY <2>1, <2>6
<1> QED
  BY <1>4, <1>5 DEF LeaseInv

\* Steps of the store that neither claim nor extend nor let time pass.
LEMMA StoreRests ==
  ASSUME TypeOK,
         \/ UNCHANGED taskVars \/ sweepExpiredLeases
         \/ \E w \in Worker : recoverWorkerTasks(w)
         \/ \E t \in Task : \/ \E a \in Agent : setAgent(t, a)
                            \/ \E report \in Report : applyReport(t, report)
                            \/ \E action \in {"retry", "abandon"} : resolveStalled(t, action)
         \/ Arrive \/ Purge
  PROVE  LeasesRest
<1> USE DEF TypeOK, InFlight, LeasesRest
<1>1. CASE UNCHANGED taskVars
  BY <1>1 DEF taskVars
<1>2. CASE sweepExpiredLeases
  BY <1>2 DEF sweepExpiredLeases, Stall, StallLogging
<1>3. ASSUME NEW w \in Worker, recoverWorkerTasks(w)
      PROVE  LeasesRest
  BY <1>3 DEF recoverWorkerTasks, Stall, StallLogging
<1>4. ASSUME NEW u \in Task, NEW a \in Agent, setAgent(u, a)
      PROVE  LeasesRest
  BY <1>4 DEF setAgent, agentRow
<1>5. ASSUME NEW u \in Task, NEW report \in Report, applyReport(u, report)
      PROVE  LeasesRest
  <2>1. Target(report) \in InFlight => status[u] \in InFlight
    BY <1>5 DEF applyReport, reportRow, canTransition, Transitions, Report, Target
  <2> QED
    BY <1>5, <2>1 DEF applyReport, reportRow
<1>6. ASSUME NEW u \in Task, NEW action \in {"retry", "abandon"}, resolveStalled(u, action)
      PROVE  LeasesRest
  BY <1>6 DEF resolveStalled, resolveRow, Resolution
<1>7. CASE Arrive
  BY <1>7 DEF Arrive, createTask, insertRow
<1>8. CASE Purge
  BY <1>8 DEF Purge, purgeTasks
<1> QED
  BY <1>1, <1>2, <1>3, <1>4, <1>5, <1>6, <1>7, <1>8

LEMMA CallsRest ==
  ASSUME TypeOK, NEW t \in Task, NEW report \in Report, Answered(t, report) \/ Thrown(t, report)
  PROVE  LeasesRest
BY StoreRests DEF Answered, Thrown

\* A step of l that does not claim.
LEMMA OneGoesOn ==
  ASSUME WorkerInv, NEW l \in Loop, Working(l), UNCHANGED claims, NEW place \in Place,
         loop' = [loop EXCEPT ![l] = place],
         \/ place.pc = "idle"
         \/ /\ place.task = loop[l].task /\ place.attempt = loop[l].attempt
            /\ place.pc = "running" => place.patience = LeaseSeconds
  PROVE  Onward
BY DEF Onward, Working, WorkerInv, WorkerTypeOK

LEMMA FinallyOnward ==
  ASSUME WorkerInv, NEW l \in Loop, Working(l), UNCHANGED claims, Finally(l)
  PROVE  Onward
BY DEF Onward, Working, WorkerInv, WorkerTypeOK, Finally, Idle

LEMMA GotoOnward ==
  ASSUME WorkerInv, NEW l \in Loop, Working(l), UNCHANGED claims, NEW pc \in Pc \ {"running"},
         Goto(l, pc)
  PROVE  Onward
BY GotoIs, OneGoesOn

LEMMA ListeningOnward ==
  ASSUME WorkerInv, NEW l \in Loop, Working(l), UNCHANGED claims,
         loop' = [loop EXCEPT ![l] = Listening(l)]
  PROVE  Onward
<1>1. WorkerTypeOK
  BY DEF WorkerInv
<1>2. Listening(l).patience = LeaseSeconds
  BY <1>1 DEF Listening, WorkerTypeOK, Place
<1> QED
  BY <1>1, <1>2, ListeningPlace, OneGoesOn

LEMMA LoopStepLeases ==
  ASSUME TypeOK, HeldAndLeased, WorkerInv, ReachInv, LeaseInv, NEW l \in Loop, LoopStep(l)
  PROVE  LeaseInv'
<1>0. ASSUME Working(l) PROVE loop[l].task \in Task
  BY <1>0 DEF WorkerInv, RunsAreOfClaims
<1>1. CASE Gate(l)
  <2>1. Working(l) /\ UNCHANGED claims
    BY <1>1 DEF Gate, At, Working
  <2>2. Onward
    BY <1>1, <2>1, FinallyOnward, GotoOnward DEF Gate, AskHuman, Pc
  <2>3. LeasesRest
    BY <1>0, <1>1, <2>1, CallsRest, StoreRests DEF Gate, Report
  <2> QED
    BY <2>2, <2>3, RestKeepsLeases
<1>2. CASE Start(l)
  <2>1. Working(l) /\ UNCHANGED claims
    BY <1>2 DEF Start, At, Working
  <2>2. Onward
    BY <1>2, <2>1, FinallyOnward, ListeningOnward DEF Start
  <2>3. LeasesRest
    BY <1>0, <1>2, <2>1, CallsRest DEF Start, Report
  <2> QED
    BY <2>2, <2>3, RestKeepsLeases
<1>3. CASE Consume(l)
  <2> DEFINE item == Head(items[l])
             pc == IF item.kind = "ask" THEN "asking" ELSE item.kind
             asker == IF item.kind = "ask" THEN item.from ELSE 0
             place == [loop[l] EXCEPT !.pc = pc, !.asker = asker]
  <2>1. Working(l) /\ UNCHANGED claims /\ UNCHANGED taskVars
    BY <1>3 DEF Consume, At, Working, Shared
  <2>2. item \in Item
    BY <1>3 DEF Consume, WorkerInv, WorkerTypeOK
  <2>3. pc \in {"asking", "completed", "failed"} /\ asker \in 0 .. MaxAttempts
    BY <2>2, ExecutionAssumption DEF Item, Outcome, Human, Attempt
  <2>4. loop[l] \in Place
    BY DEF WorkerInv, WorkerTypeOK
  <2>5. loop' = [loop EXCEPT ![l] = place]
    BY <1>3 DEF Consume
  <2> HIDE DEF item, pc, asker
  <2>6. /\ place \in Place /\ place.pc = pc
        /\ place.task = loop[l].task /\ place.attempt = loop[l].attempt
    BY <2>3, <2>4 DEF Place, Pc
  <2> HIDE DEF place
  <2>7. Onward
    BY <2>1, <2>3, <2>5, <2>6, OneGoesOn
  <2> QED
    BY <2>1, <2>7, StoreRests, RestKeepsLeases
<1>4. CASE GiveUp(l)
  <2>1. Working(l) /\ UNCHANGED claims /\ UNCHANGED taskVars /\ Finally(l)
    BY <1>4 DEF GiveUp, At, Working, Shared
  <2> QED
    BY <2>1, FinallyOnward, StoreRests, RestKeepsLeases
<1>5. CASE AskWhileRunning(l)
  <2>1. Working(l) /\ UNCHANGED claims
    BY <1>5 DEF AskWhileRunning, At, Working, Shared
  <2>2. Onward
    BY <1>5, <2>1, FinallyOnward, GotoOnward DEF AskWhileRunning, AskHuman, Pc
  <2>3. LeasesRest
    BY <1>0, <1>5, <2>1, CallsRest DEF AskWhileRunning, Report
  <2> QED
    BY <2>2, <2>3, RestKeepsLeases
<1>6. CASE Resume(l)
  <2>1. Working(l) /\ UNCHANGED claims
    BY <1>6 DEF Resume, At, Working, Shared
  <2>2. Onward
    BY <1>6, <2>1, FinallyOnward, ListeningOnward DEF Resume
  <2>3. LeasesRest
    BY <1>0, <1>6, <2>1, CallsRest DEF Resume, Report
  <2> QED
    BY <2>2, <2>3, RestKeepsLeases
<1>7. CASE Conclude(l)
  <2>1. Working(l) /\ UNCHANGED claims /\ Finally(l) /\ LastReport[loop[l].pc] \in Report
    BY <1>7 DEF Conclude, Working, Shared, LastReport, Report
  <2>2. LeasesRest
    BY <1>0, <1>7, <2>1, CallsRest DEF Conclude
  <2> QED
    BY <2>1, <2>2, FinallyOnward, RestKeepsLeases
<1> QED
  BY <1>1, <1>2, <1>3, <1>4, <1>5, <1>6, <1>7, ClaimLeases DEF LoopStep

LEMMA LeaseStep ==
  ASSUME TypeOK, HeldAndLeased, WorkerInv, ReachInv, LeaseInv, [Next]_vars
  PROVE  LeaseInv'
<1>1. ASSUME UNCHANGED <<loop, claims>>, LeasesRest
      PROVE  LeaseInv'
  <2>1. Onward
    BY <1>1 DEF Onward, Working
  <2> QED
    BY <1>1, <2>1, RestKeepsLeases
<1>2. ASSUME UNCHANGED <<loop, claims, taskVars>>
      PROVE  LeaseInv'
  BY <1>1, <1>2, StoreRests
<1>3. ASSUME NEW w \in Worker, Heartbeat(w) \/ Crash(w) \/ Restart(w)
      PROVE  LeaseInv'
  <2>1. CASE Crash(w)
    <3>1. Onward
      BY <2>1 DEF Crash, Onward, Idle, Working
    <3> QED
      BY <2>1, <3>1, StoreRests, RestKeepsLeases DEF Crash
  <2>2. CASE Restart(w)
    BY <1>1, <2>2, StoreRests DEF Restart
  <2> QED
    BY <1>3, <2>1, <2>2, HeartbeatLeases
<1>4. CASE Outside
  <2>1. LeasesRest
    BY <1>4, StoreRests DEF Outside
  <2> QED
    BY <1>1, <1>4, <2>1 DEF Outside, workerVars
<1>5. CASE ByHand
  <2>1. ASSUME NEW t \in Task, NEW w \in Worker, NEW decision \in {"approve", "deny"}, Decide(w, t, decision)
        PROVE  LeaseInv'
    <3> DEFINE l == approver[w][t]
               next == After[loop[l].pc][decision]
    <3>1. l \in Loop /\ Awaiting(l)
      BY SMTT(30), <2>1 DEF Decide, WorkerInv, WorkerTypeOK, ApproversWait
    <3>2. next \in {"starting", "rejecting", "resuming", "denying"}
      BY <3>1 DEF After, Awaiting
    <3>3. Goto(l, next) /\ UNCHANGED claims /\ UNCHANGED taskVars
      BY <2>1 DEF Decide
    <3> HIDE DEF l, next
    <3>4. Working(l)
      BY <3>1 DEF Awaiting, Working
    <3>5. Onward
      BY <3>1, <3>2, <3>3, <3>4, GotoOnward DEF Pc
    <3> QED
      BY <3>3, <3>5, StoreRests, RestKeepsLeases
  <2>2. ASSUME NEW t \in Task, NEW w \in Worker, NEW a \in Agent, ChooseAgent(w, t, a)
        PROVE  LeaseInv'
    BY <1>1, <2>2, StoreRests DEF ChooseAgent
  <2>3. ASSUME NEW t \in Task, NEW action \in {"retry", "abandon"}, Resolve(t, action)
        PROVE  LeaseInv'
    BY <1>1, <2>3, StoreRests DEF Resolve
  <2> QED
    BY <1>2, <1>5, <2>1, <2>2, <2>3 DEF ByHand, Finish
<1>6. ASSUME NEW t \in Task, NEW k \in Attempt,
             (\E outcome \in Outcome : AgentReports(t, k, outcome)) \/ AgentAsks(t, k) \/ AgentDies(t, k)
      PROVE  LeaseInv'
  BY <1>2, <1>6 DEF AgentReports, AgentAsks, AgentDies
<1>7. ASSUME NEW l \in Loop, AdapterFails(l)
      PROVE  LeaseInv'
  BY <1>2, <1>7 DEF AdapterFails
<1>8. CASE UNCHANGED vars
  BY <1>2, <1>8 DEF vars, workerVars
<1> QED
  BY <1>3, <1>4, <1>5, <1>6, <1>7, <1>8, LoopStepLeases, ElapseLeases DEF Next, Autonomous

-----------------------------------------------------------------------------
(***************************************************************************)
(* The theorems.                                                           *)
(***************************************************************************)

LEMMA WorkerInvCorrect == Spec => [](WorkerInv /\ ConsentInv)
<1>1. Init => WorkerInv /\ ConsentInv
  <2> SUFFICES ASSUME Init PROVE WorkerInv /\ ConsentInv
    OBVIOUS
  <2> USE ExecutionAssumption, LeaseAssumption
  <2>1. Idle \in Place /\ Idle.pc = "idle"
    BY DEF Idle, Place, Pc
  <2>2. NoProc \in Proc /\ NoProc.st = "none" /\ NoProc.at = None
    BY DEF NoProc, Proc, ProcState
  <2>3. <<>> \in Seq(Item) /\ Len(<<>>) = 0
    OBVIOUS
  <2>4. WorkerTypeOK
    BY <2>1, <2>2, <2>3 DEF Init, WorkerTypeOK, Proc, ProcState
  <2>5. RunsAreOfClaims /\ ApproversWait
    BY <2>1 DEF Init, RunsAreOfClaims, ApproversWait, Working
  <2>6. ConsentInv
    BY <2>1, <2>2 DEF Init, ConsentInv, StartsAreConsented, NoStartWithoutConsent, UnstartedAreNowhere
  <2> QED
    BY <2>4, <2>5, <2>6 DEF WorkerInv
<1>2. WorkerInv /\ ConsentInv /\ [Next]_vars => (WorkerInv /\ ConsentInv)'
  BY WorkerInvStep, ConsentStep
<1> QED
  BY <1>1, <1>2, PTL DEF Spec

(***************************************************************************)
(* The execution plane uses the task table only through its methods: every *)
(* behaviour of workers, agents and users is, as far as the table is       *)
(* concerned, one TaskStore allows.                                        *)
(***************************************************************************)
THEOREM UsesTheStore == Spec => StoreSpec
<1>1. Init => StoreInit
  BY DEF Init
<1>2. WorkerInv /\ [Next]_vars => [StoreNext]_storeVars
  BY StepsOfStore DEF WorkerInv, RunsAreOfClaims
<1> QED
  BY <1>1, <1>2, WorkerInvCorrect, PTL DEF Spec, StoreSpec

(***************************************************************************)
(* Every reachable state of the table, the workers and their agents is     *)
(* well typed, whatever the network loses and whoever crashes.             *)
(***************************************************************************)
THEOREM ExecTypeCorrect == Spec => []ExecTypeOK
BY UsesTheStore, TypeCorrect, WorkerInvCorrect, PTL DEF ExecTypeOK, WorkerInv

(***************************************************************************)
(* What is proved of the table alone holds of it under the execution       *)
(* plane: a task in flight has a holder and a lease.                       *)
(***************************************************************************)
THEOREM PlaneHeldAndLeased == Spec => []HeldAndLeased
BY UsesTheStore, HeldAndLeasedCorrect, PTL

(***************************************************************************)
(* The same of the abstract life: no lost or repeated call and no crash    *)
(* makes a finished task move again or hands a held task to another        *)
(* worker.                                                                 *)
(***************************************************************************)
THEOREM PlaneImplementsLifecycle == Spec => ImplementsLifecycle
BY UsesTheStore, Refinement, PTL

(***************************************************************************)
(* What no step may do to the table, no step of the workers does, with     *)
(* lost answers and retried claims: end a task twice or hand it over in    *)
(* anybody's hands, let a task be overtaken by one of its label that came  *)
(* later, or give work that is going on more time.                         *)
(***************************************************************************)
THEOREM PlaneActionsCorrect ==
  Spec => OutcomeIsFinal /\ Lifecycle!NoHandover /\ FirstComeFirstServed /\ WorkIsNeverProlonged
<1>1. Spec => OutcomeIsFinal /\ Lifecycle!NoHandover
  BY PlaneImplementsLifecycle, OutcomeIsFinalCorrect, NoHandoverCorrect DEF ImplementsLifecycle, OutcomeIsFinal
<1>2. Spec => FirstComeFirstServed /\ WorkIsNeverProlonged
  BY UsesTheStore, FirstComeFirstServedCorrect, WorkNeverProlonged
<1> QED
  BY <1>1, <1>2

(***************************************************************************)
(* No agent is started for an attempt nobody let pass: neither a lost      *)
(* call, a retry, a crash nor a decision meant for another loop stands in  *)
(* for the gate or the user.                                               *)
(***************************************************************************)
THEOREM ConsentCorrect == Spec => []NoStartWithoutConsent
BY WorkerInvCorrect, PTL DEF ConsentInv

LEMMA ReachInvCorrect == Spec => []ReachInv
<1>1. Init => ReachInv
  BY DEF Init, Idle, ReachInv, RunsAreNumbered, OneRunPerClaim, FirstRunReachable, Working
<1>2. WorkerInv /\ ReachInv /\ [Next]_vars => ReachInv'
  BY ReachStep
<1> QED
  BY <1>1, <1>2, WorkerInvCorrect, PTL DEF Spec

(***************************************************************************)
(* A loop that waits for a decision, or listens for a report, of a task    *)
(* claimed once can be reached: no other run, no restart and no lost call  *)
(* ever takes its entry out of the maps.                                   *)
(***************************************************************************)
THEOREM ReachableCorrect == Spec => []WaitersAreReachable
<1>1. ReachInv => WaitersAreReachable
  BY DEF ReachInv, FirstRunReachable, Registered, WaitersAreReachable
<1> QED
  BY <1>1, ReachInvCorrect, PTL

LEMMA MirrorInvCorrect == Spec => []MirrorInv
<1>1. Init => MirrorInv
  <2> SUFFICES ASSUME Init PROVE MirrorInv
    OBVIOUS
  <2>1. \A l \in Loop : loop[l].pc = "idle"
    BY DEF Init, Idle
  <2>2. \A t \in Task, k \in Attempt : proc[t][k].st = "none"
    BY DEF Init, NoProc
  <2>3. \A t \in Task : status[t] = "absent"
    BY DEF Init, StoreInit
  <2> QED
    BY <2>1, <2>2, <2>3 DEF MirrorInv, Mirrored, EarlyRunsHaveNoAgent, AgentsAreNumbered,
                            RejectedRanNothing, Working, Early
<1>2. TypeOK /\ WorkerInv /\ ConsentInv /\ ReachInv /\ MirrorInv /\ [Next]_vars => MirrorInv'
  BY MirrorStep
<1> QED
  BY <1>1, <1>2, UsesTheStore, TypeCorrect, WorkerInvCorrect, ReachInvCorrect, PTL DEF Spec

(***************************************************************************)
(* While a task is in its first attempt the table never says something     *)
(* else of it than the worker is doing, until the task is taken away.      *)
(***************************************************************************)
THEOREM MirrorCorrect == Spec => []ServerMirrorsRun
<1>1. WorkerInv /\ ReachInv /\ MirrorInv => ServerMirrorsRun
  BY DEF MirrorInv, Mirrored, ServerMirrorsRun, Current
<1> QED
  BY <1>1, WorkerInvCorrect, ReachInvCorrect, MirrorInvCorrect, PTL

(***************************************************************************)
(* A task rejected in its first attempt never had an agent.                *)
(***************************************************************************)
THEOREM RejectedCorrect == Spec => []RejectedRanNothing
BY MirrorInvCorrect, PTL DEF MirrorInv

(***************************************************************************)
(* With one loop per worker, no run stops listening for its agent before   *)
(* the lease of the task is over, whatever asks, heartbeats and other      *)
(* workers' late reports came in between.                                  *)
(***************************************************************************)
THEOREM PatienceCorrect == Spec => []PatienceOutlastsLease
<1>1. Init => LeaseInv
  BY DEF Init, Idle, LeaseInv, HolderRuns, Patient, Current, Working
<1>2. TypeOK /\ HeldAndLeased /\ WorkerInv /\ ReachInv /\ LeaseInv /\ [Next]_vars => LeaseInv'
  BY LeaseStep
<1>3. LeaseInv => PatienceOutlastsLease
  BY DEF LeaseInv, Patient, PatienceOutlastsLease, InFlight
<1> QED
  BY <1>1, <1>2, <1>3, UsesTheStore, TypeCorrect, HeldAndLeasedCorrect, WorkerInvCorrect,
     ReachInvCorrect, PTL DEF Spec

-----------------------------------------------------------------------------
(***************************************************************************)
(* The screen in front of it.                                              *)
(***************************************************************************)

LEMMA ScreenStep == [ScreenNext]_<<vars, screenVars>> => [Next]_vars
<1> SUFFICES ASSUME [ScreenNext]_<<vars, screenVars>> PROVE [Next]_vars
  OBVIOUS
<1>1. CASE Autonomous
  BY <1>1 DEF Next
<1>2. ASSUME NEW w \in Worker, BeginRefresh(w) \/ ReadOther(w) \/ Drop(w) PROVE UNCHANGED vars
  BY <1>2 DEF BeginRefresh, ReadOther, Drop
<1>3. ASSUME NEW w \in Worker, NEW r \in fetching[w], Show(w, r) PROVE UNCHANGED vars
  BY <1>3 DEF Show
<1>4. ASSUME NEW w \in Worker, NEW t \in Task, Click(w, t) PROVE ByHand
  <2>1. CASE \E decision \in {"approve", "deny"} : Decide(w, t, decision)
    BY <2>1 DEF ByHand
  <2>2. CASE \E outcome \in Outcome : Finish(w, t, outcome)
    BY <2>2 DEF ByHand
  <2>3. CASE \E action \in {"retry", "abandon"} : Resolve(t, action)
    BY <2>3 DEF ByHand
  <2>4. CASE \E a \in Agent : ChooseAgent(w, t, a)
    BY <2>4 DEF ByHand
  <2> QED
    BY <1>4, <2>1, <2>2, <2>3, <2>4 DEF Click
<1>5. CASE UNCHANGED <<vars, screenVars>>
  BY <1>5
<1> QED
  BY <1>1, <1>2, <1>3, <1>4, <1>5 DEF ScreenNext, Next

(***************************************************************************)
(* However old the screen is and in whatever order its answers come, a     *)
(* click on it is a call the execution plane knows: the screen adds        *)
(* nothing to what users may do to it.                                     *)
(***************************************************************************)
THEOREM ScreenUsesThePlane == ScreenSpec => Spec
<1>1. ScreenInit => Init
  BY DEF ScreenInit
<1> QED
  BY <1>1, ScreenStep, PTL DEF ScreenSpec, Spec

(***************************************************************************)
(* So a click on a stale screen starts no agent without consent, makes     *)
(* neither table nor worker say what is not so, and leaves no run without  *)
(* a lease.                                                                *)
(***************************************************************************)
THEOREM ScreenKeepsPlane ==
  ScreenSpec => [](HeldAndLeased /\ NoStartWithoutConsent /\ ServerMirrorsRun /\ RejectedRanNothing)
BY ScreenUsesThePlane, PlaneHeldAndLeased, ConsentCorrect, MirrorCorrect, RejectedCorrect, PTL

LEMMA StateAnswerTyped == ASSUME WorkerInv, NEW w \in Worker PROVE StateAnswer(w) \in StateSeen
<1>1. ASSUME NEW t \in Task, approver[w][t] # None
      PROVE  loop[approver[w][t]].pc \in Questions
  BY <1>1 DEF WorkerInv, ApproversWait, Awaiting, Questions
<1>2. [t \in Task |-> IF approver[w][t] = None THEN None ELSE loop[approver[w][t]].pc]
        \in [Task -> Questions \union {None}]
  BY <1>1
<1> QED
  BY <1>2 DEF StateAnswer, StateSeen

LEMMA TasksAnswerTyped == ASSUME NEW rows PROVE TasksAnswer(rows) \in RowsSeen
  BY DEF TasksAnswer, Marked, RowsSeen

\* What a screen may offer, and a refresh under way.
Offered == [Task -> SUBSET Buttons]
Fetched == [state : StateSeen \union {None}, rows : RowsSeen \union {None}, screen : Offered \union {None}]

LEMMA BothReadTyped == ASSUME NEW state, NEW rows PROVE BothRead(state, rows) \in Fetched
<1>1. Offers(state, rows) \in Offered
  BY DEF Offers, Offered, Buttons
<1> QED
  BY <1>1 DEF BothRead, Fetched

ScreenInv ==
  /\ seen \in [Worker -> Offered]
  /\ fetching \in [Worker -> SUBSET Fetched]
  /\ \A w \in Worker : IsFiniteSet(fetching[w]) /\ Cardinality(fetching[w]) <= MaxRefresh

\* One refresh is replaced by another, or ends; or one more begins.
LEMMA FetchKeeps ==
  ASSUME ScreenInv, NEW w \in Worker, NEW F \in SUBSET fetching[w], NEW g \in SUBSET Fetched,
         Fetch(w, F \union g), seen' \in [Worker -> Offered],
         \/ g = {}
         \/ (\E q : g = {q}) /\ (F # fetching[w] \/ Cardinality(fetching[w]) < MaxRefresh)
  PROVE  ScreenInv'
<1> DEFINE G == fetching[w]
<1>0. G \in SUBSET Fetched /\ IsFiniteSet(G) /\ Cardinality(G) <= MaxRefresh
  BY DEF ScreenInv
<1>1. fetching' = [fetching EXCEPT ![w] = F \union g] /\ fetching' \in [Worker -> SUBSET Fetched]
  BY DEF Fetch, ScreenInv
<1>2. F \subseteq G
  OBVIOUS
<1> HIDE DEF G
<1>3. IsFiniteSet(F) /\ Cardinality(F) <= Cardinality(G) /\ Cardinality(F) \in Nat /\ Cardinality(G) \in Nat
  BY <1>0, <1>2, FS_Subset, FS_CardinalityType
<1>4. F # G => Cardinality(F) # Cardinality(G)
  BY <1>0, <1>2, FS_Subset
<1>5. MaxRefresh \in Nat
  BY ScreenAssumption
<1>6. IsFiniteSet(F \union g) /\ Cardinality(F \union g) <= MaxRefresh
  <2>1. CASE g = {}
    <3>1. F \union g = F
      BY <2>1
    <3>2. Cardinality(F) <= MaxRefresh
      BY <1>0, <1>3, <1>5
    <3> QED
      BY <1>3, <3>1, <3>2
  <2>2. CASE (\E q : g = {q}) /\ (F # G \/ Cardinality(G) < MaxRefresh)
    <3> PICK q : g = {q}
      BY <2>2
    <3>1. IsFiniteSet(F \union {q}) /\ Cardinality(F \union {q}) \in {Cardinality(F), Cardinality(F) + 1}
      BY <1>3, FS_AddElement
    <3>2. Cardinality(F) < MaxRefresh
      BY <1>0, <1>3, <1>4, <1>5, <2>2
    <3> QED
      BY <1>3, <1>5, <3>1, <3>2
  <2> QED
    BY <2>1, <2>2 DEF G
<1> QED
  BY <1>1, <1>6 DEF ScreenInv

LEMMA ScreenInvStep ==
  ASSUME ScreenInv, WorkerInv, [ScreenNext]_<<vars, screenVars>> PROVE ScreenInv'
<1> DEFINE Shown == [Worker -> Offered]
<1>1. CASE UNCHANGED screenVars
  BY <1>1 DEF ScreenInv, screenVars
<1>2. ASSUME NEW w \in Worker, BeginRefresh(w) PROVE ScreenInv'
  <2>1. PICK q \in Fetched : Fetch(w, fetching[w] \union {q})
    <3>1. StateRead(StateAnswer(w)) \in Fetched
      BY StateAnswerTyped DEF StateRead, Fetched
    <3>2. \A rows : RowsRead(TasksAnswer(rows)) \in Fetched
      BY TasksAnswerTyped DEF RowsRead, Fetched
    <3> QED
      BY <1>2, <3>1, <3>2 DEF BeginRefresh
  <2>2. seen' \in Shown /\ Cardinality(fetching[w]) < MaxRefresh
    BY <1>2 DEF BeginRefresh, ScreenInv
  <2>3. {q} \in SUBSET Fetched /\ fetching[w] \in SUBSET fetching[w]
    OBVIOUS
  <2> QED
    BY <2>1, <2>2, <2>3, FetchKeeps
<1>3. ASSUME NEW w \in Worker, ReadOther(w) PROVE ScreenInv'
  <2>1. PICK r \in fetching[w], q \in Fetched : Fetch(w, (fetching[w] \ {r}) \union {q})
    <3>1. PICK r \in fetching[w] :
            \/ Fetch(w, (fetching[w] \ {r}) \union {BothRead(StateAnswer(w), r.rows)})
            \/ \E rows \in SUBSET Task :
                 Fetch(w, (fetching[w] \ {r}) \union {BothRead(r.state, TasksAnswer(rows))})
      BY <1>3 DEF ReadOther
    <3>2. BothRead(StateAnswer(w), r.rows) \in Fetched
      BY BothReadTyped
    <3>3. \A rows : BothRead(r.state, TasksAnswer(rows)) \in Fetched
      BY BothReadTyped
    <3> QED
      BY <3>1, <3>2, <3>3
  <2>2. seen' \in Shown
    BY <1>3 DEF ReadOther, ScreenInv
  <2>3. {q} \in SUBSET Fetched /\ fetching[w] \ {r} \in SUBSET fetching[w] /\ fetching[w] \ {r} # fetching[w]
    OBVIOUS
  <2> QED
    BY <2>1, <2>2, <2>3, FetchKeeps
<1>4. ASSUME NEW w \in Worker, NEW r \in fetching[w], Show(w, r) PROVE ScreenInv'
  <2>1. r.screen \in Offered
    <3>1. r \in Fetched
      BY DEF ScreenInv
    <3>2. r.screen # None
      BY <1>4 DEF Show
    <3> QED
      BY <3>1, <3>2 DEF Fetched
  <2>2. seen' \in Shown
    BY <1>4, <2>1 DEF Show, ScreenInv
  <2>3. Fetch(w, (fetching[w] \ {r}) \union {})
    BY <1>4 DEF Show, Fetch
  <2>4. fetching[w] \ {r} \in SUBSET fetching[w] /\ {} \in SUBSET Fetched
    OBVIOUS
  <2> QED
    BY <2>2, <2>3, <2>4, FetchKeeps
<1>5. ASSUME NEW w \in Worker, Drop(w) PROVE ScreenInv'
  <2>1. PICK r \in fetching[w] : Fetch(w, fetching[w] \ {r})
    BY <1>5 DEF Drop
  <2>2. Fetch(w, (fetching[w] \ {r}) \union {}) /\ seen' \in Shown
    BY <1>5, <2>1 DEF Drop, Fetch, ScreenInv
  <2>3. fetching[w] \ {r} \in SUBSET fetching[w] /\ {} \in SUBSET Fetched
    OBVIOUS
  <2> QED
    BY <2>2, <2>3, FetchKeeps
<1>6. ASSUME NEW w \in Worker, NEW t \in Task, Click(w, t) PROVE ScreenInv'
  BY <1>1, <1>6 DEF Click
<1>7. CASE UNCHANGED <<vars, screenVars>>
  BY <1>1, <1>7
<1> QED
  BY <1>1, <1>2, <1>3, <1>4, <1>5, <1>6, <1>7 DEF ScreenNext

(***************************************************************************)
(* What the screen shows is of its type however the two halves of its      *)
(* refreshes are mixed: the worker answers with a question only for a task *)
(* one of its loops waits with, never for one whose run has gone on or     *)
(* ended, and no more than MaxRefresh refreshes are under way.             *)
(***************************************************************************)
THEOREM ScreenTypeCorrect == ScreenSpec => []ScreenTypeOK
<1>1. ScreenInit => ScreenInv
  <2> SUFFICES ASSUME ScreenInit PROVE ScreenInv
    OBVIOUS
  <2>1. Blank \in Offered
    BY DEF Blank, Offered
  <2>2. IsFiniteSet({}) /\ Cardinality({}) = 0
    BY FS_EmptySet
  <2> QED
    BY <2>1, <2>2, ScreenAssumption DEF ScreenInit, ScreenInv
<1>2. ScreenInv /\ WorkerInv /\ [ScreenNext]_<<vars, screenVars>> => ScreenInv'
  BY ScreenInvStep
<1>3. ScreenSpec => []WorkerInv
  BY ScreenUsesThePlane, WorkerInvCorrect, PTL
<1>4. ScreenInv => ScreenTypeOK
  BY DEF ScreenInv, ScreenTypeOK, Fetched, Offered
<1> QED
  BY <1>1, <1>2, <1>3, <1>4, PTL DEF ScreenSpec

=============================================================================
