---------------------------- MODULE WorkerScreen ----------------------------
(***************************************************************************)
(* The screen of a worker's user (apps/worker-ui/src/App.tsx, api.ts) in   *)
(* front of the execution plane: the user sees what the last refresh that  *)
(* came back brought, and can do only what the screen then offers.         *)
(*                                                                         *)
(* A refresh is two requests in parallel: /ui/state, answered from the     *)
(* worker's memory, and /ui/tasks, which the worker fetches from the       *)
(* control plane.  The interval timer starts one without looking at those  *)
(* under way, so they overlap and come back in any order.                  *)
(*                                                                         *)
(* Abstractions: a click acts at once on a screen that may be arbitrarily  *)
(* old, which is what a request on its way amounts to; the refresh after a *)
(* successful click is one more tick; the tab is visible (a hidden tab     *)
(* does not poll and offers nothing to anybody).  Activity, settings and   *)
(* the detail pane are left out; the latter works like the one of          *)
(* TaskBrowser.  Of the two answers the model keeps the buttons they make  *)
(* the screen offer.  The instances give a worker one loop (MCWorkerScreen *)
(* assumes it), so that the phase of a task follows from its loop.         *)
(***************************************************************************)
EXTENDS ExecutionPlane

CONSTANTS PageLimit,  \* rows listTasks returns when no limit is asked for (50)
          MaxRefresh  \* bound: refreshes under way on one screen

ASSUME ScreenAssumption == PageLimit \in Nat \ {0} /\ MaxRefresh \in Nat \ {0}

VARIABLES
  seen,     \* Worker -> Task -> the buttons that the React states state and tasks give
  fetching  \* Worker -> the refreshes under way, with what they have read so far

screenVars == <<seen, fetching>>

\* What the screen makes of /ui/state: the question a task waits with, and
\* the tasks being worked on, in a phase other than awaiting_approval.
Questions == {"awaitStart", "awaitRun"}
StateSeen == [asked : [Task -> Questions \union {None}], busy : SUBSET Task]

\* What it makes of /ui/tasks: the rows, and those of them with buttons of their own.
RowsSeen == [Task -> {"pending", "stalled", "other", None}]

\* The buttons of a task: approve and deny under a question, done, retry and
\* give up, the choice of the agent.
Buttons == Questions \union {"finish", "retry", "agent"}

Blank == [t \in Task |-> {}]

ScreenTypeOK ==
  /\ seen \in [Worker -> [Task -> SUBSET Buttons]]
  /\ \A w \in Worker :
       /\ \A r \in fetching[w] :
            /\ r.state \in StateSeen \union {None}
            /\ r.rows \in RowsSeen \union {None}
            /\ r.screen \in [Task -> SUBSET Buttons] \union {None}
       /\ Cardinality(fetching[w]) <= MaxRefresh

ScreenInit ==
  /\ Init
  /\ seen = [w \in Worker |-> Blank]
  /\ fetching = [w \in Worker |-> {}]

-----------------------------------------------------------------------------
(***************************************************************************)
(* The two requests.                                                       *)
(***************************************************************************)

Active == { t \in Row : status[t] \notin Terminal }

\* Fault: only what is pending or in flight counts as not final.
listTasksInFlight(rows) ==
  LET listed == { t \in Active : status[t] # "stalled" }
  IN  /\ rows \subseteq listed
      /\ Cardinality(rows) = IF Cardinality(listed) < PageLimit THEN Cardinality(listed) ELSE PageLimit
      /\ \A t \in rows, u \in listed \ rows : createdAt[t] >= createdAt[u]

\* The newest rows that are not final, and no more of them than the limit;
\* among equal stamps the choice is the database's.
listTasks(rows) ==
  /\ rows \subseteq Active
  /\ Cardinality(rows) = IF Cardinality(Active) < PageLimit THEN Cardinality(Active) ELSE PageLimit
  /\ \A t \in rows, u \in Active \ rows : createdAt[t] >= createdAt[u]

\* A pending row differs from others by the choice of the agent, if there are any.
Marked(t) == status[t] = "stalled" \/ (status[t] = "pending" /\ Agent # {})

TasksAnswer(rows) ==
  [t \in Task |-> IF t \notin rows THEN None ELSE IF Marked(t) THEN status[t] ELSE "other"]

\* Phases gate, agent_running and reporting.
Busy(pc) == pc \in {"gate", "starting", "running", "completed", "failed"}

StateAnswer(w) ==
  [asked |-> [t \in Task |-> IF approver[w][t] = None THEN None ELSE loop[approver[w][t]].pc],
   busy |-> { t \in Task : \E l \in LoopsOf(w) : loop[l].task = t /\ Busy(loop[l].pc) }]

-----------------------------------------------------------------------------
(***************************************************************************)
(* refresh.                                                                *)
(***************************************************************************)

Fetch(w, set) == fetching' = [fetching EXCEPT ![w] = set]

\* A refresh with one answer: from the worker, from the control plane.
StateRead(state) == [state |-> state, rows |-> None, screen |-> None]
RowsRead(rows) == [state |-> None, rows |-> rows, screen |-> None]

\* A refresh with both: a question and the retry are in the row of their task,
\* the agent is chosen there, if there are any, before it starts.
Offers(state, rows) ==
  [t \in Task |->
     { q \in Questions : rows[t] # None /\ state.asked[t] = q }
     \union { b \in {"finish"} : t \in state.busy }
     \union { b \in {"retry"} : rows[t] = "stalled" }
     \union { b \in {"agent"} : /\ Agent # {}
                                /\ rows[t] = "pending" \/ (rows[t] # None /\ state.asked[t] # None) }]

BothRead(state, rows) == [state |-> None, rows |-> None, screen |-> Offers(state, rows)]

\* One of the two requests of a new refresh is answered.
BeginRefresh(w) ==
  /\ w \in up
  /\ Cardinality(fetching[w]) < MaxRefresh
  /\ \/ Fetch(w, fetching[w] \union {StateRead(StateAnswer(w))})
     \/ \E rows \in SUBSET Task :
          listTasks(rows) /\ Fetch(w, fetching[w] \union {RowsRead(TasksAnswer(rows))})
  /\ UNCHANGED <<vars, seen>>

\* So is the other.
ReadOther(w) ==
  /\ w \in up
  /\ \E r \in fetching[w] :
       \/ r.rows # None /\ Fetch(w, (fetching[w] \ {r}) \union {BothRead(StateAnswer(w), r.rows)})
       \/ /\ r.state # None
          /\ \E rows \in SUBSET Task :
               listTasks(rows)
               /\ Fetch(w, (fetching[w] \ {r}) \union {BothRead(r.state, TasksAnswer(rows))})
  /\ UNCHANGED <<vars, seen>>

\* Fault: the rows of the table are shown, the questions of the worker are not.
ShowRowsOnly(w, r) ==
  /\ r \in fetching[w] /\ r.screen # None
  /\ seen' = [seen EXCEPT ![w] = [t \in Task |-> r.screen[t] \ Questions]]
  /\ Fetch(w, fetching[w] \ {r})
  /\ UNCHANGED vars

\* Promise.all resolves: both parts are shown, whatever was shown since.
Show(w, r) ==
  /\ r \in fetching[w] /\ r.screen # None
  /\ seen' = [seen EXCEPT ![w] = r.screen]
  /\ Fetch(w, fetching[w] \ {r})
  /\ UNCHANGED vars

\* It rejects because one of the two failed: the screen stays as it was.
Drop(w) ==
  /\ Lossy
  /\ \E r \in fetching[w] : Fetch(w, fetching[w] \ {r})
  /\ UNCHANGED <<vars, seen>>

-----------------------------------------------------------------------------
(***************************************************************************)
(* What the screen offers, and the clicks on it.  A call that is refused   *)
(* changes nothing but the error banner.                                   *)
(***************************************************************************)

\* 승인, 거부: in the row of the task, if the state shows a question of its.
DecisionOffered(w, t) == seen[w][t] \intersect Questions # {}

\* 재시도, 포기
RetryOffered(w, t) == "retry" \in seen[w][t]

Click(w, t) ==
  /\ \/ DecisionOffered(w, t) /\ \E decision \in {"approve", "deny"} : Decide(w, t, decision)
     \/ "finish" \in seen[w][t] /\ w \in up /\ \E outcome \in Outcome : Finish(w, t, outcome)
     \/ RetryOffered(w, t) /\ w \in up /\ \E action \in {"retry", "abandon"} : Resolve(t, action)
     \/ "agent" \in seen[w][t] /\ \E a \in Agent : ChooseAgent(w, t, a)
  /\ UNCHANGED screenVars

ScreenNext ==
  \/ Autonomous /\ UNCHANGED screenVars
  \/ \E w \in Worker :
       \/ BeginRefresh(w)
       \/ ReadOther(w)
       \/ \E r \in fetching[w] : Show(w, r)
       \/ Drop(w)
       \/ \E t \in Task : Click(w, t)

\* The fairness of the execution plane, the interval timer of a visible tab,
\* and a control plane that answers again and again.
ScreenFairness ==
  /\ \A l \in Loop : WF_vars(LoopStep(l))
  /\ \A w \in Worker : WF_vars(Restart(w))
  /\ WF_vars(sweepExpiredLeases /\ UNCHANGED workerVars)
  /\ WF_vars(Elapse)
  /\ \A w \in Worker :
       /\ WF_screenVars(BeginRefresh(w))
       /\ SF_screenVars(ReadOther(w))
       /\ SF_screenVars(\E r \in fetching[w] : Show(w, r))

ScreenSpec == ScreenInit /\ [][ScreenNext]_<<vars, screenVars>>
LiveScreenSpec == ScreenSpec /\ ScreenFairness

-----------------------------------------------------------------------------
(***************************************************************************)
(* Properties.                                                             *)
(***************************************************************************)

\* The list may come without the task: there are enough others not older to
\* fill it.
MayBeLeftOut(t) ==
  Cardinality({ u \in Active \ {t} : createdAt[u] >= createdAt[t] }) >= PageLimit

(***************************************************************************)
(* No loop is stuck on a question nobody can see: again and again it is    *)
(* free, or the screen shows the buttons of the decision it waits for, or  *)
(* its task has been taken away (given up, purged, closed by a late        *)
(* report), or so many newer tasks are open that the list may leave it     *)
(* out.  The answers on the screen may be of any age and, where several    *)
(* refreshes are under way, arrive in any order.                           *)
(***************************************************************************)
LoopsFreeOrOffered ==
  \A l \in Loop :
    []<>(\/ loop[l].pc = "idle"
         \/ Awaiting(l) /\ loop[l].task \notin Active
         \/ Awaiting(l) /\ MayBeLeftOut(loop[l].task)
         \/ Awaiting(l) /\ DecisionOffered(WorkerOf(l), loop[l].task))

(***************************************************************************)
(* No task is at a dead end: again and again it is done, or in the pool,   *)
(* or left out by a list full of newer ones, or some screen has the        *)
(* buttons that would move it on.                                          *)
(***************************************************************************)
TasksMoveOrOffered ==
  \A t \in Task :
    []<>(\/ t \notin Active \/ status[t] = "pending" \/ MayBeLeftOut(t)
         \/ \E w \in Worker : DecisionOffered(w, t) \/ RetryOffered(w, t))

-----------------------------------------------------------------------------
(***************************************************************************)
(* What the program's texts say of it, and the code does not do.           *)
(***************************************************************************)

\* apps/worker-ui/src/App.tsx:156-157: while a task waits for approval, the thing
\* to do is in its row of the list, where approve and deny are.  The list
\* has the newest rows; claims go to the oldest.
WaitIsInTheList ==
  \A l \in Loop :
    Awaiting(l) /\ loop[l].task \in Active
    => \A rows \in SUBSET Task : listTasks(rows) => loop[l].task \in rows

\* The same lines: there is such a row.
WaitHasARow == \A l \in Loop : Awaiting(l) => loop[l].task \in Active

\* apps/worker-ui/src/App.tsx:271: the title of the button is the question
\* that is being answered.
AnswersWhatIsShown ==
  [][\A w \in Worker, t \in Task :
       approver[w][t] # None /\ approver'[w][t] = None /\ w \in up' /\ DecisionOffered(w, t)
       /\ Awaiting(approver[w][t]) /\ loop'[approver[w][t]].pc # "idle"
       => loop[approver[w][t]].pc \in seen[w][t]]_<<vars, screenVars>>

=============================================================================
