--------------------------- MODULE ExecutionPlane ---------------------------
(***************************************************************************)
(* Workers and their agents (apps/worker/src/worker.ts, index.ts) working  *)
(* against the task table of TaskStore.                                    *)
(*                                                                         *)
(* A worker runs Concurrency polling loops; each loop runs Worker.         *)
(* processOne over and over, one task at a time.  Between two awaits a     *)
(* loop is one step here.  A call to the control plane is one step too: it *)
(* is answered, refused (409, 404), or lost on the way there or back, and  *)
(* all but the first make processOne throw into its finally block.         *)
(*                                                                         *)
(* What the loops share is the worker's maps, keyed by the task id alone.  *)
(* An agent is known by <<task, attempt>>: the attempt is the number of    *)
(* the claim it was started under.  Adapters are external: an agent        *)
(* reports, asks or disappears at any time, and may outlive its worker     *)
(* (the Terminal window of claude-code does).                              *)
(***************************************************************************)
EXTENDS TaskStore, Sequences

CONSTANTS Concurrency,   \* polling loops of a worker
          Verdicts,      \* what the start gate may answer: allow, ask, deny
          Lossy,         \* may calls to the control plane be lost?
          MaxAttempts,   \* bound: claims of one task
          MaxQueue,      \* bound: reports waiting in one queue
          MaxCrashes     \* bound: crashes of worker processes

ASSUME ExecutionAssumption ==
  /\ Concurrency \in Nat \ {0} /\ MaxAttempts \in Nat /\ MaxQueue \in Nat /\ MaxCrashes \in Nat
  /\ Verdicts \subseteq {"allow", "ask", "deny"} /\ Lossy \in BOOLEAN

Loop == Worker \X (1 .. Concurrency)
WorkerOf(l) == l[1]
LoopsOf(w) == { l \in Loop : WorkerOf(l) = w }
Attempt == 1 .. MaxAttempts

ASSUME LoopAssumption == None \notin Loop

VARIABLES
  loop,       \* Loop -> where its processOne stands
  items,      \* Loop -> the ReportQueue its current run created
  queueOf,    \* Worker -> Task -> the loop whose queue this.queues holds
  approver,   \* Worker -> Task -> the loop whose resolver approvalResolvers
              \*   holds; pendingApprovals has the same keys
  override,   \* Worker -> Task -> for an entry of agentOverrides the attempt it was
              \*   made in; which agent it names nothing here depends on
  proc,       \* Task -> Attempt -> the agent process started for the attempt
  claims,     \* Task -> how often the task was claimed (the current attempt)
  consent,    \* the <<task, attempt>> the gate or the user let start (history)
  up,         \* the workers whose process is running
  crashes     \* how many crashes there were

workerVars == <<loop, items, queueOf, approver, override, proc, claims, consent, up, crashes>>
vars == <<taskVars, workerVars>>

\* The awaits of processOne, in the order of the source: gate.evaluate and
\* the report after it, waitForApproval, the report "started" or "rejected",
\* queue.next, and the reports that follow an item.
Pc == { "idle", "gate", "awaitStart", "starting", "rejecting", "running",
        "asking", "awaitRun", "resuming", "denying", "completed", "failed" }

Place == [pc : Pc, task : Task \union {None}, attempt : 0 .. MaxAttempts,
          asker : 0 .. MaxAttempts, patience : 0 .. LeaseSeconds]

Idle == [pc |-> "idle", task |-> None, attempt |-> 0, asker |-> 0, patience |-> 0]

NoProc == [st |-> "none", at |-> None]

Outcome == { "completed", "failed" }
Human == 0                                  \* sender of a report made in the UI
Item == [kind : Outcome \union {"ask"}, from : {Human} \union Attempt]

WorkerTypeOK ==
  /\ loop \in [Loop -> Place]
  /\ items \in [Loop -> Seq(Item)]
  /\ \A l \in Loop : Len(items[l]) <= MaxQueue
  /\ queueOf \in [Worker -> [Task -> Loop \union {None}]]
  /\ approver \in [Worker -> [Task -> Loop \union {None}]]
  /\ override \in [Worker -> [Task -> Attempt \union {None}]]
  /\ proc \in [Task -> [Attempt -> [st : {"none", "working", "asking", "denied", "ended"},
                                    at : Worker \union {None}]]]
  /\ claims \in [Task -> 0 .. MaxAttempts]
  /\ consent \subseteq Task \X Attempt
  /\ up \in SUBSET Worker
  /\ crashes \in 0 .. MaxCrashes

ExecTypeOK == TypeOK /\ WorkerTypeOK

Init ==
  /\ StoreInit
  /\ loop = [l \in Loop |-> Idle]
  /\ items = [l \in Loop |-> <<>>]
  /\ queueOf = [w \in Worker |-> [t \in Task |-> None]]
  /\ approver = [w \in Worker |-> [t \in Task |-> None]]
  /\ override = [w \in Worker |-> [t \in Task |-> None]]
  /\ proc = [t \in Task |-> [k \in Attempt |-> NoProc]]
  /\ claims = [t \in Task |-> 0]
  /\ consent = {}
  /\ up = Worker
  /\ crashes = 0

-----------------------------------------------------------------------------
(***************************************************************************)
(* Calls to the control plane.                                             *)
(***************************************************************************)

Refused(t, report) == ~(t \in Row /\ canTransition(status[t], Target(report)))

\* The promise of client.report resolves.
Answered(t, report) == applyReport(t, report)

\* It rejects: the server refused, or the request or the answer was lost.
Thrown(t, report) ==
  \/ Refused(t, report) /\ UNCHANGED taskVars
  \/ Lossy /\ UNCHANGED taskVars
  \/ Lossy /\ applyReport(t, report)

-----------------------------------------------------------------------------
(***************************************************************************)
(* processOne.                                                             *)
(***************************************************************************)

At(l, pc) == WorkerOf(l) \in up /\ loop[l].pc = pc

Goto(l, pc) == loop' = [loop EXCEPT ![l].pc = pc]

Shared == <<proc, claims, consent, up, crashes>>   \* nothing the loops' own steps touch

\* The finally block: whatever the maps hold under the task id is dropped,
\* and the loop polls again.
Finally(l) ==
  LET w == WorkerOf(l)
      t == loop[l].task
  IN  /\ loop' = [loop EXCEPT ![l] = Idle]
      /\ items' = [items EXCEPT ![l] = <<>>]
      /\ queueOf' = [queueOf EXCEPT ![w][t] = None]
      /\ approver' = [approver EXCEPT ![w][t] = None]
      /\ UNCHANGED override

\* waitForApproval: the entry under the task id is set, replacing any other.
AskHuman(l, pc) ==
  /\ Goto(l, pc)
  /\ approver' = [approver EXCEPT ![WorkerOf(l)][loop[l].task] = l]
  /\ UNCHANGED <<items, queueOf, override>>

\* Fault: one timeout for the whole run, not one per report.
ListeningOn(l) ==
  [loop[l] EXCEPT !.pc = "running", !.asker = 0,
                  !.patience = IF loop[l].pc = "starting" THEN LeaseSeconds ELSE @]

\* queue.next: a fresh timeout of leaseSeconds.
Listening(l) == [loop[l] EXCEPT !.pc = "running", !.patience = LeaseSeconds, !.asker = 0]

\* The claim is granted and the answer arrives, or is lost: then the task is
\* held by a worker that does not know of it.
Claim(l, t) ==
  /\ At(l, "idle")
  /\ claims[t] < MaxAttempts
  /\ claimNext(WorkerOf(l), Label, t)
  /\ claims' = [claims EXCEPT ![t] = @ + 1]
  /\ \/ loop' = [loop EXCEPT ![l] = [Idle EXCEPT !.pc = "gate", !.task = t,
                                       !.attempt = claims[t] + 1]]
     \/ Lossy /\ UNCHANGED loop
  /\ UNCHANGED <<items, queueOf, approver, override, proc, consent, up, crashes>>

\* Fault: when the wait cannot be reported, the agent is started unasked.
GateFailsOpen(l) ==
  /\ At(l, "gate")
  /\ "ask" \in Verdicts
  /\ \/ Answered(loop[l].task, "waiting") /\ AskHuman(l, "awaitStart")
     \/ /\ Thrown(loop[l].task, "waiting")
        /\ Goto(l, "starting")
        /\ UNCHANGED <<items, queueOf, approver, override>>
  /\ UNCHANGED Shared

Gate(l) ==
  /\ At(l, "gate")
  /\ \/ /\ "allow" \in Verdicts
        /\ Goto(l, "starting")
        /\ consent' = consent \union {<<loop[l].task, loop[l].attempt>>}
        /\ UNCHANGED <<taskVars, items, queueOf, approver, override>>
     \/ /\ "deny" \in Verdicts
        /\ Answered(loop[l].task, "rejected") \/ Thrown(loop[l].task, "rejected")
        /\ Finally(l)
        /\ UNCHANGED consent
     \/ /\ "ask" \in Verdicts
        /\ \/ Answered(loop[l].task, "waiting") /\ AskHuman(l, "awaitStart")
           \/ Thrown(loop[l].task, "waiting") /\ Finally(l)
        /\ UNCHANGED consent
  /\ UNCHANGED <<proc, claims, up, crashes>>

\* "started" is reported, the queue is registered and adapter.start is called;
\* the agent is the one of the override if there is one, else the row's.
Start(l) ==
  LET w == WorkerOf(l)
      t == loop[l].task
  IN  /\ At(l, "starting")
      /\ \/ /\ Answered(t, "started")
            /\ loop' = [loop EXCEPT ![l] = Listening(l)]
            /\ queueOf' = [queueOf EXCEPT ![w][t] = l]
            /\ proc' = [proc EXCEPT ![t][loop[l].attempt] = [st |-> "working", at |-> w]]
            /\ UNCHANGED <<items, approver, override>>
         \/ Thrown(t, "started") /\ Finally(l) /\ UNCHANGED proc
      /\ UNCHANGED <<claims, consent, up, crashes>>

\* The next item of the queue.  An ask is brought before the human; if the
\* control plane does not take the wait, the run ends and the ask with it.
Consume(l) ==
  LET t == loop[l].task
      item == Head(items[l])
  IN  /\ At(l, "running")
      /\ items[l] # <<>>
      /\ loop' = [loop EXCEPT ![l].pc = IF item.kind = "ask" THEN "asking" ELSE item.kind,
                              ![l].asker = IF item.kind = "ask" THEN item.from ELSE 0]
      /\ items' = [items EXCEPT ![l] = Tail(@)]
      /\ UNCHANGED <<taskVars, queueOf, approver, override>>
      /\ UNCHANGED Shared

\* No report for leaseSeconds: the loop leaves the task to the sweep.
GiveUp(l) ==
  /\ At(l, "running")
  /\ items[l] = <<>> /\ loop[l].patience = 0
  /\ Finally(l)
  /\ UNCHANGED <<taskVars, Shared>>

AskWhileRunning(l) ==
  /\ At(l, "asking")
  /\ \/ Answered(loop[l].task, "waiting") /\ AskHuman(l, "awaitRun")
     \/ Thrown(loop[l].task, "waiting") /\ Finally(l)
  /\ UNCHANGED Shared

\* Fault: the agent goes on although "resumed" was not taken.
ResumeRegardless(l) ==
  /\ At(l, "resuming")
  /\ Answered(loop[l].task, "resumed") \/ Thrown(loop[l].task, "resumed")
  /\ loop' = [loop EXCEPT ![l] = Listening(l)]
  /\ UNCHANGED <<items, queueOf, approver, override>>
  /\ UNCHANGED Shared

\* Fault: with the wait the queue is dropped too.
ResumeWithoutQueue(l) ==
  /\ At(l, "resuming")
  /\ \/ /\ Answered(loop[l].task, "resumed")
        /\ loop' = [loop EXCEPT ![l] = Listening(l)]
        /\ queueOf' = [queueOf EXCEPT ![WorkerOf(l)][loop[l].task] = None]
        /\ UNCHANGED <<items, approver, override>>
     \/ Thrown(loop[l].task, "resumed") /\ Finally(l)
  /\ UNCHANGED Shared

Resume(l) ==
  /\ At(l, "resuming")
  /\ \/ /\ Answered(loop[l].task, "resumed")
        /\ loop' = [loop EXCEPT ![l] = Listening(l)]
        /\ UNCHANGED <<items, queueOf, approver, override>>
     \/ Thrown(loop[l].task, "resumed") /\ Finally(l)
  /\ UNCHANGED Shared

\* Fault: a refusal in the middle of the work is reported like one before it.
LastReportOfAnyRefusal == [ rejecting |-> "rejected", denying |-> "rejected",
                            completed |-> "completed", failed |-> "failed" ]

\* The last report of a run; it is not repeated if it fails.
LastReport == [ rejecting |-> "rejected", denying |-> "failed",
                completed |-> "completed", failed |-> "failed" ]

Conclude(l) ==
  /\ WorkerOf(l) \in up
  /\ loop[l].pc \in DOMAIN LastReport
  /\ LET report == LastReport[loop[l].pc]
     IN  Answered(loop[l].task, report) \/ Thrown(loop[l].task, report)
  /\ Finally(l)
  /\ UNCHANGED Shared

LoopStep(l) ==
  \/ \E t \in Task : Claim(l, t)
  \/ Gate(l)
  \/ Start(l)
  \/ Consume(l)
  \/ GiveUp(l)
  \/ AskWhileRunning(l)
  \/ Resume(l)
  \/ Conclude(l)

-----------------------------------------------------------------------------
(***************************************************************************)
(* The worker's local API: reports of agents, decisions of its user.       *)
(***************************************************************************)

\* handleLocalReport
Deliver(w, t, item) ==
  LET l == queueOf[w][t]
  IN  /\ l # None
      /\ Len(items[l]) < MaxQueue
      /\ items' = [items EXCEPT ![l] = Append(@, item)]

Alive(t, k) == proc[t][k].st = "working" /\ proc[t][k].at \in up

\* The agent reports its outcome and is done; with no queue under the task
\* id it is told 404.
AgentReports(t, k, outcome) ==
  /\ Alive(t, k)
  /\ proc' = [proc EXCEPT ![t][k].st = "ended"]
  /\ \/ Deliver(proc[t][k].at, t, [kind |-> outcome, from |-> k])
     \/ queueOf[proc[t][k].at][t] = None /\ UNCHANGED items
  /\ UNCHANGED <<taskVars, loop, queueOf, approver, override, claims, consent, up, crashes>>

\* The agent asks and waits for the answer of that very request.
AgentAsks(t, k) ==
  /\ Alive(t, k)
  /\ proc' = [proc EXCEPT ![t][k].st = "asking"]
  /\ Deliver(proc[t][k].at, t, [kind |-> "ask", from |-> k])
  /\ UNCHANGED <<taskVars, loop, queueOf, approver, override, claims, consent, up, crashes>>

\* The agent goes away without a word: its window is closed, or it was
\* refused and stops.
AgentDies(t, k) ==
  /\ proc[t][k].st \in {"working", "denied"}
  /\ proc' = [proc EXCEPT ![t][k].st = "ended"]
  /\ UNCHANGED <<taskVars, loop, items, queueOf, approver, override, claims, consent, up, crashes>>

\* adapter.start rejects: the failure goes to the queue of the run that
\* called it, not through the map.
AdapterFails(l) ==
  LET t == loop[l].task
      k == loop[l].attempt
  IN  /\ loop[l].pc \notin {"idle", "gate", "awaitStart", "starting", "rejecting"}
      /\ Alive(t, k)
      /\ Len(items[l]) < MaxQueue
      /\ items' = [items EXCEPT ![l] = Append(@, [kind |-> "failed", from |-> k])]
      /\ proc' = [proc EXCEPT ![t][k].st = "ended"]
      /\ UNCHANGED <<taskVars, loop, queueOf, approver, override, claims, consent, up, crashes>>

\* What the loop does next, by the wait and the decision.
After == [ awaitStart |-> [approve |-> "starting", deny |-> "rejecting"],
           awaitRun   |-> [approve |-> "resuming", deny |-> "denying"] ]

\* decide: the resolver under the task id is called; its loop drops both map
\* entries, answers the ask it holds, and goes on to its next report.
Decide(w, t, decision) ==
  LET l == approver[w][t]
      next == After[loop[l].pc][decision]
      k == loop[l].asker
  IN  /\ w \in up
      /\ l # None
      /\ Goto(l, next)
      /\ approver' = [approver EXCEPT ![w][t] = None]
      /\ IF k # 0 /\ proc[t][k].st = "asking"
         THEN proc' = [proc EXCEPT ![t][k].st = IF decision = "approve" THEN "working" ELSE "denied"]
         ELSE UNCHANGED proc
      /\ consent' = IF next = "starting" THEN consent \union {<<t, loop[l].attempt>>} ELSE consent
      /\ UNCHANGED <<taskVars, items, queueOf, override, claims, up, crashes>>

\* POST /ui/tasks/:taskId/finish
Finish(w, t, outcome) ==
  /\ w \in up
  /\ Deliver(w, t, [kind |-> outcome, from |-> Human])
  /\ UNCHANGED <<taskVars, loop, queueOf, approver, override, proc, claims, consent, up, crashes>>

\* POST /ui/tasks/:taskId/agent: kept by the worker while the task waits for
\* a decision there, written to the row otherwise (refused unless pending).
ChooseAgent(w, t, a) ==
  /\ w \in up
  /\ IF approver[w][t] # None
     THEN override' = [override EXCEPT ![w][t] = loop[approver[w][t]].attempt] /\ UNCHANGED taskVars
     ELSE setAgent(t, a) /\ UNCHANGED override
  /\ UNCHANGED <<loop, items, queueOf, approver, proc, claims, consent, up, crashes>>

\* The interval timer: extend what waits for a decision here.
Heartbeat(w) ==
  /\ w \in up
  /\ extendWaitingLeases(w, { t \in Task : approver[w][t] # None })
  /\ UNCHANGED workerVars

-----------------------------------------------------------------------------
(***************************************************************************)
(* Crashes of the worker process, and everything outside it.               *)
(***************************************************************************)

\* The process dies with its maps; of its agents, those in lost die with it,
\* the others find the connection of a pending ask broken and go on.
Crash(w) ==
  /\ w \in up /\ crashes < MaxCrashes
  /\ up' = up \ {w}
  /\ crashes' = crashes + 1
  /\ loop' = [l \in Loop |-> IF WorkerOf(l) = w THEN Idle ELSE loop[l]]
  /\ items' = [l \in Loop |-> IF WorkerOf(l) = w THEN <<>> ELSE items[l]]
  /\ queueOf' = [queueOf EXCEPT ![w] = [t \in Task |-> None]]
  /\ approver' = [approver EXCEPT ![w] = [t \in Task |-> None]]
  /\ override' = [override EXCEPT ![w] = [t \in Task |-> None]]
  /\ \E lost \in SUBSET (Task \X Attempt) :
       proc' = [t \in Task |-> [k \in Attempt |->
                  IF proc[t][k].at # w THEN proc[t][k]
                  ELSE IF <<t, k>> \in lost THEN [proc[t][k] EXCEPT !.st = "ended"]
                  ELSE IF proc[t][k].st = "asking" THEN [proc[t][k] EXCEPT !.st = "working"]
                  ELSE proc[t][k]]]
  /\ UNCHANGED <<taskVars, claims, consent>>

\* main: the worker reports its restart before it polls; if that call fails
\* it goes on all the same.
Restart(w) ==
  /\ w \notin up
  /\ up' = up \union {w}
  /\ IF HeldBy(w) # {} THEN recoverWorkerTasks(w) \/ (Lossy /\ UNCHANGED taskVars)
                       ELSE UNCHANGED taskVars
  /\ UNCHANGED <<loop, items, queueOf, approver, override, proc, claims, consent, crashes>>

\* POST /ui/tasks/:taskId/resolve, or the same from the admin API.
Resolve(t, action) ==
  /\ resolveStalled(t, action)
  /\ UNCHANGED <<loop, items, queueOf, approver, override, proc, claims, consent, up, crashes>>

Arrive ==
  \E t \in Task, c \in Channel, l \in Label, a \in Agent \union {None} : createTask(t, c, l, a)
Purge == \E c \in Channel : purgeTasks(c)

Outside == (Arrive \/ sweepExpiredLeases \/ Purge) /\ UNCHANGED workerVars

\* Time passes for the leases and for the loops that wait for a report.
Elapse ==
  /\ \/ Tick
     \/ UNCHANGED taskVars /\ \A t \in Task : lease[t] \in {None, -1}
  /\ loop' = [l \in Loop |-> IF loop[l].pc = "running" /\ loop[l].patience > 0
                             THEN [loop[l] EXCEPT !.patience = @ - 1] ELSE loop[l]]
  /\ <<lease, loop>>' # <<lease, loop>>
  /\ UNCHANGED <<items, queueOf, approver, override, proc, claims, consent, up, crashes>>

\* What happens without the user of a worker.
Autonomous ==
  \/ \E l \in Loop : LoopStep(l) \/ AdapterFails(l)
  \/ \E t \in Task, k \in Attempt :
       \/ \E outcome \in Outcome : AgentReports(t, k, outcome)
       \/ AgentAsks(t, k)
       \/ AgentDies(t, k)
  \/ \E w \in Worker : Heartbeat(w) \/ Crash(w) \/ Restart(w)
  \/ Outside
  \/ Elapse

\* The calls of the local API that carry a decision of a user, by anyone, at
\* any time; which of them its screen offers is WorkerScreen's matter.
ByHand ==
  \E t \in Task :
    \/ \E w \in Worker :
         \/ \E decision \in {"approve", "deny"} : Decide(w, t, decision)
         \/ \E outcome \in Outcome : Finish(w, t, outcome)
         \/ \E a \in Agent : ChooseAgent(w, t, a)
    \/ \E action \in {"retry", "abandon"} : Resolve(t, action)

Next == Autonomous \/ ByHand

Spec == Init /\ [][Next]_vars

\* The process keeps its loops going and is brought up again after a crash;
\* the control plane keeps sweeping; time passes.  Nothing is assumed of
\* users, agents, heartbeats or the network.
Fairness ==
  /\ \A l \in Loop : WF_vars(LoopStep(l))
  /\ \A w \in Worker : WF_vars(Restart(w))
  /\ WF_vars(sweepExpiredLeases /\ UNCHANGED workerVars)
  /\ WF_vars(Elapse)

LiveSpec == Spec /\ Fairness

-----------------------------------------------------------------------------
(***************************************************************************)
(* Properties.                                                             *)
(***************************************************************************)

Working(l) == loop[l].pc # "idle"
Awaiting(l) == loop[l].pc \in {"awaitStart", "awaitRun"}

\* The run of l is for the newest claim of its task.
Current(l) == Working(l) /\ loop[l].attempt = claims[loop[l].task]

(***************************************************************************)
(* While a task is in its first attempt, the status the control plane      *)
(* shows and the point its worker has reached agree, through lost calls,   *)
(* crashes, asks and decisions: until the task is taken away (stalled,     *)
(* abandoned, purged) the worker never believes something else.            *)
(***************************************************************************)
StatusAt(pc) ==
  CASE pc = "gate" -> {"claimed"}
    [] pc = "starting" -> {"claimed", "waiting"}
    [] pc \in {"awaitStart", "rejecting", "awaitRun", "resuming", "denying"} -> {"waiting"}
    [] pc \in {"running", "asking", "completed", "failed"} -> {"running"}

ServerMirrorsRun ==
  \A l \in Loop :
    Current(l) /\ loop[l].attempt = 1 /\ status[loop[l].task] \in InFlight
    => status[loop[l].task] \in StatusAt(loop[l].pc)

(***************************************************************************)
(* No agent is ever started for an attempt that neither the gate let pass  *)
(* nor the user allowed: the consent to an earlier attempt does not count, *)
(* and neither a lost call nor a restart stands in for an answer.          *)
(***************************************************************************)
NoStartWithoutConsent ==
  \A t \in Task, k \in Attempt : proc[t][k].st # "none" => <<t, k>> \in consent

(***************************************************************************)
(* A task that ends "rejected" in its first attempt had no agent: the      *)
(* transition is for work that was refused before it began.                *)
(***************************************************************************)
RejectedRanNothing ==
  \A t \in Task : status[t] = "rejected" /\ claims[t] = 1 => proc[t][1].st = "none"

(***************************************************************************)
(* A worker stops waiting for an agent only when the lease of the task is  *)
(* over: the loop's own timeout never ends before the lease it relies on,  *)
(* whatever heartbeats and asks happened in between.  Otherwise a task     *)
(* would lose its listener while the control plane still counts on it.     *)
(* With two loops of one worker on a task (OneLoopPerTask) this is lost: a *)
(* wait of the older run prolongs the lease under the newer one.           *)
(***************************************************************************)
PatienceOutlastsLease ==
  \A l \in Loop :
    Concurrency = 1 /\ Current(l) /\ loop[l].pc = "running" /\ status[loop[l].task] = "running"
    => lease[loop[l].task] <= loop[l].patience

(***************************************************************************)
(* A loop that waits can be reached: the decision it waits for goes to its *)
(* resolver, the report it waits for to its queue.  The maps are keyed by  *)
(* the task alone, so this is said of tasks that were claimed once.        *)
(***************************************************************************)
WaitersAreReachable ==
  \A l \in Loop : Working(l) /\ claims[loop[l].task] = 1 =>
    /\ Awaiting(l) => approver[WorkerOf(l)][loop[l].task] = l
    /\ loop[l].pc = "running" => queueOf[WorkerOf(l)][loop[l].task] = l

(***************************************************************************)
(* A task stays in a worker's hands for good only if some worker's screen  *)
(* keeps offering the decision it waits for: whatever is lost or crashes,  *)
(* no task ends up claimed, running or waiting with nobody to act on it.   *)
(***************************************************************************)
StuckOnlyOnAHuman ==
  \A t \in Task :
    <>[](status[t] \in InFlight) => []<>(\E w \in up : approver[w][t] # None)

(***************************************************************************)
(* A loop always comes free again, or its user holds the decision it waits *)
(* for: a silent agent, a refused report or a stalled task never takes it  *)
(* away for good.                                                          *)
(***************************************************************************)
LoopsComeFree ==
  \A l \in Loop :
    []<>(\/ loop[l].pc = "idle"
         \/ Awaiting(l) /\ approver[WorkerOf(l)][loop[l].task] = l)

-----------------------------------------------------------------------------
(***************************************************************************)
(* What the documentation says of the program, and the code does not do.   *)
(***************************************************************************)

\* docs/configuration.md:417 and index.ts:281: no two loops work on one task.
OneLoopPerTask ==
  \A l, m \in Loop :
    l # m /\ WorkerOf(l) = WorkerOf(m) /\ Working(l) /\ Working(m) => loop[l].task # loop[m].task

\* worker.ts:155: decide answers false when there is no wait for the task.
DecideFailsOnlyWithoutWait ==
  \A w \in up, t \in Task :
    approver[w][t] = None => ~ \E l \in LoopsOf(w) : Awaiting(l) /\ loop[l].task = t

\* docs/api.md:431: when the agent reads "deny", its task has been failed.
DeniedMeansFailed ==
  \A t \in Task, k \in Attempt : proc[t][k].st = "denied" => status[t] = "failed"

\* docs/api.md:429: the ask is held until a human decides it, so that one
\* call gets the agent its answer.
AskIsHeld ==
  \A t \in Task, k \in Attempt :
    proc[t][k].st = "asking" =>
      \E l \in Loop :
        \/ loop[l].task = t /\ loop[l].asker = k
        \/ [kind |-> "ask", from |-> k] \in { items[l][i] : i \in DOMAIN items[l] }

\* state-machine.ts:9: waiting -> rejected means nothing has been executed.
RejectedStopsNothing ==
  [][\A t \in Task :
       status[t] = "waiting" /\ status'[t] = "rejected"
       => proc[t][claims[t]].st \notin {"working", "asking"}]_vars

\* docs/api.md:483: an agent named while its task waits is kept for the start
\* it waits for, not for a later one.
OverrideIsForThisStart ==
  [][\A t \in Task, k \in Attempt :
       LET w == proc'[t][k].at
       IN  proc[t][k].st = "none" /\ proc'[t][k].st # "none" /\ override[w][t] # None
           => override[w][t] = k]_vars

=============================================================================
