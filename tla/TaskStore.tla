----------------------------- MODULE TaskStore -----------------------------
(***************************************************************************)
(* The task table of the control plane (apps/control-plane/src/            *)
(* task-store.ts): one action per method that writes it.  Each method runs *)
(* to its end without yielding (better-sqlite3 is synchronous and the      *)
(* process has one thread), so each is atomic.  A call that throws         *)
(* TaskNotFoundError, TaskNotPendingError or InvalidTransitionError writes *)
(* nothing and is no step.                                                 *)
(*                                                                         *)
(* The callers are unconstrained here: any holder of the worker key may    *)
(* send any report for any task at any moment, which is all the routes of  *)
(* server.ts check.  ExecutionPlane says which of these calls the worker   *)
(* process really makes.                                                   *)
(*                                                                         *)
(* Abstractions: a lease is the time left of it, -1 once                   *)
(* lease_expires_at < now; created_at is a small stamp that grows with the *)
(* insertions; of the audit trail (task_events) only the last entry is     *)
(* kept; payload, preview and updated_at are left out.  One variable is    *)
(* not in the table: arrived, which no method reads.                       *)
(***************************************************************************)
EXTENDS TaskStates, Integers, FiniteSets

CONSTANTS Task,         \* task identifiers (random UUIDs, never reused)
          Worker,       \* worker identifiers
          Channel,      \* channels tasks come from
          Label,        \* labels of the catalogue
          Agent,        \* agent names a task may ask for
          LeaseSeconds, \* leaseSeconds of the claim request, in clock ticks
          MaxStamp,     \* bound: largest created_at stamp
          None          \* SQL NULL

ASSUME LeaseAssumption == LeaseSeconds \in Nat /\ MaxStamp \in Nat
ASSUME NoneAssumption ==
  None \notin Worker \union Channel \union Label \union Agent \union Int

VARIABLES
  status,     \* Task -> Status, or "absent" before INSERT, "purged" after DELETE
  workerId,   \* Task -> worker_id
  lease,      \* Task -> ticks left until lease_expires_at, None for NULL
  agent,      \* Task -> agent
  channel,    \* Task -> channel_id
  label,      \* Task -> label
  createdAt,  \* Task -> created_at
  arrived,    \* Task -> when it was inserted, in stamps (history)
  lastEvent   \* Task -> type of the newest row of task_events, None if no row

identity == <<channel, label, createdAt, arrived>>
taskVars == <<status, workerId, lease, agent, channel, label, createdAt, arrived, lastEvent>>
storeVars == taskVars

Row == { t \in Task : status[t] \in Status }    \* the rows of the table

Report == { "rejected", "started", "waiting", "resumed", "completed", "failed" }

\* REPORT_TARGET
Target(report) ==
  IF report \in {"started", "resumed"} THEN "running" ELSE report

LeaseValue == -1 .. LeaseSeconds

TypeOK ==
  /\ status \in [Task -> Status \union {"absent", "purged"}]
  /\ workerId \in [Task -> Worker \union {None}]
  /\ lease \in [Task -> LeaseValue \union {None}]
  /\ agent \in [Task -> Agent \union {None}]
  /\ channel \in [Task -> Channel \union {None}]
  /\ label \in [Task -> Label \union {None}]
  /\ createdAt \in [Task -> 0 .. MaxStamp] /\ arrived \in [Task -> 0 .. MaxStamp]
  /\ lastEvent \in [Task -> Report \union {"created", "claimed", "agent_assigned",
                                           "stalled", "retried", "abandoned", None}]

StoreInit ==
  /\ status = [t \in Task |-> "absent"]
  /\ workerId = [t \in Task |-> None]
  /\ lease = [t \in Task |-> None]
  /\ agent = [t \in Task |-> None]
  /\ channel = [t \in Task |-> None]
  /\ label = [t \in Task |-> None]
  /\ createdAt = [t \in Task |-> 0] /\ arrived = [t \in Task |-> 0]
  /\ lastEvent = [t \in Task |-> None]

-----------------------------------------------------------------------------
(***************************************************************************)
(* The methods.                                                            *)
(***************************************************************************)

\* A stamp for a new row: not before any row there is, and no gap wider than
\* one.  Two rows may carry the same millisecond.
NewStamp(n) ==
  /\ \A u \in Row : createdAt[u] <= n
  /\ n = 0 \/ \E u \in Row : n <= createdAt[u] + 1

\* The row a method writes, and behind it the entry in task_events: two
\* statements, each durable by itself (StoreCrash dies in between).
Logs(t, event) == lastEvent' = [lastEvent EXCEPT ![t] = event]

insertRow(t, c, l, a) ==
  /\ status[t] = "absent"
  /\ \E n \in 0 .. MaxStamp :
       /\ NewStamp(n)
       /\ createdAt' = [createdAt EXCEPT ![t] = n]
       /\ arrived' = [arrived EXCEPT ![t] = n]
  /\ status' = [status EXCEPT ![t] = "pending"]
  /\ channel' = [channel EXCEPT ![t] = c]
  /\ label' = [label EXCEPT ![t] = l]
  /\ agent' = [agent EXCEPT ![t] = a]
  /\ UNCHANGED <<workerId, lease>>

createTask(t, c, l, a) == insertRow(t, c, l, a) /\ Logs(t, "created")

\* The row SELECT ... ORDER BY created_at LIMIT 1 may return: among equal
\* stamps the order is the database's.
Claimable(t, labels) ==
  /\ status[t] = "pending"
  /\ label[t] \in labels
  /\ \A u \in Task :
       status[u] = "pending" /\ label[u] \in labels => createdAt[t] <= createdAt[u]

claimNext(w, labels, t) ==
  /\ Claimable(t, labels)
  /\ status' = [status EXCEPT ![t] = "claimed"]
  /\ workerId' = [workerId EXCEPT ![t] = w]
  /\ lease' = [lease EXCEPT ![t] = LeaseSeconds]
  /\ Logs(t, "claimed")
  /\ UNCHANGED <<agent, identity>>

\* The status alone decides whether a report is taken: neither the sender
\* nor the lease is looked at, and both cells stay as they are.
reportRow(t, report) ==
  /\ t \in Row
  /\ canTransition(status[t], Target(report))
  /\ status' = [status EXCEPT ![t] = Target(report)]
  /\ UNCHANGED <<workerId, lease, agent, identity>>

applyReport(t, report) == reportRow(t, report) /\ Logs(t, report)

agentRow(t, a) ==
  /\ status[t] = "pending"
  /\ agent' = [agent EXCEPT ![t] = a]
  /\ UNCHANGED <<status, workerId, lease, identity>>

setAgent(t, a) == agentRow(t, a) /\ Logs(t, "agent_assigned")

Resolution == [retry |-> "pending", abandon |-> "failed"]

\* Fault: a retried task goes to the end of the queue.
resolveRowToTheEnd(t, action) ==
  /\ t \in Row
  /\ canTransition(status[t], Resolution[action])
  /\ status' = [status EXCEPT ![t] = Resolution[action]]
  /\ workerId' = [workerId EXCEPT ![t] = None]
  /\ lease' = [lease EXCEPT ![t] = None]
  /\ \E n \in 0 .. MaxStamp : NewStamp(n) /\ createdAt' = [createdAt EXCEPT ![t] = n]
  /\ UNCHANGED <<agent, channel, label, arrived>>

\* resolveStalled: the only check is the transition's, so "abandon" is also
\* taken from running and waiting.
resolveRow(t, action) ==
  /\ t \in Row
  /\ canTransition(status[t], Resolution[action])
  /\ status' = [status EXCEPT ![t] = Resolution[action]]
  /\ workerId' = [workerId EXCEPT ![t] = None]
  /\ lease' = [lease EXCEPT ![t] = None]
  /\ UNCHANGED <<agent, identity>>

resolveStalled(t, action) ==
  resolveRow(t, action) /\ Logs(t, IF action = "retry" THEN "retried" ELSE "abandoned")

\* Both scans move a set of rows to stalled; holder and lease stay.  Some of
\* them get their entry: all, unless the process dies on the way.
StallLogging(rows, logged) ==
  /\ rows # {}
  /\ status' = [t \in Task |-> IF t \in rows THEN "stalled" ELSE status[t]]
  /\ lastEvent' = [t \in Task |-> IF t \in logged THEN "stalled" ELSE lastEvent[t]]
  /\ UNCHANGED <<workerId, lease, agent, identity>>

Stall(rows) == StallLogging(rows, rows)

HeldBy(w) == { t \in Task : workerId[t] = w /\ status[t] \in InFlight }

recoverWorkerTasks(w) == Stall(HeldBy(w))

\* lease_expires_at < now; a NULL lease never compares.
Expired(t) == lease[t] # None /\ lease[t] = -1

\* Fault: the sweep trusts every wait for a human.
sweepExceptWaiting ==
  Stall({ t \in Task : status[t] \in {"claimed", "running"} /\ Expired(t) })

sweepExpiredLeases == Stall({ t \in Task : status[t] \in InFlight /\ Expired(t) })

\* Fault: the lease is prolonged from its old end instead of from now.
extendFromOldEnd(w, ids) ==
  LET rows == { t \in ids : workerId[t] = w /\ status[t] = "waiting" }
  IN  /\ rows # {}
      /\ lease' = [t \in Task |-> IF t \in rows THEN lease[t] + LeaseSeconds ELSE lease[t]]
      /\ UNCHANGED <<status, workerId, agent, identity, lastEvent>>

\* Fault: a heartbeat prolongs running work too.
extendAnyInFlight(w, ids) ==
  LET rows == { t \in ids : workerId[t] = w /\ status[t] \in InFlight }
  IN  /\ rows # {}
      /\ lease' = [t \in Task |-> IF t \in rows THEN LeaseSeconds ELSE lease[t]]
      /\ UNCHANGED <<status, workerId, agent, identity, lastEvent>>

\* The heartbeat of worker w names the tasks in ids; only rows that are
\* waiting and its own are extended, and no audit entry is written.
extendWaitingLeases(w, ids) ==
  LET rows == { t \in ids : workerId[t] = w /\ status[t] = "waiting" }
  IN  /\ rows # {}
      /\ lease' = [t \in Task |-> IF t \in rows THEN LeaseSeconds ELSE lease[t]]
      /\ UNCHANGED <<status, workerId, agent, identity, lastEvent>>

\* The task part of ChannelRegistry.remove(c, {purge: true}): one transaction
\* deletes the channel's tasks, whatever their status, with their events.
purgeTasks(c) ==
  LET rows == { t \in Row : channel[t] = c }
      Cleared(f) == [t \in Task |-> IF t \in rows THEN None ELSE f[t]]
  IN  /\ rows # {}
      /\ status' = [t \in Task |-> IF t \in rows THEN "purged" ELSE status[t]]
      /\ createdAt' = [t \in Task |-> IF t \in rows THEN 0 ELSE createdAt[t]]
      /\ arrived' = [t \in Task |-> IF t \in rows THEN 0 ELSE arrived[t]]
      /\ workerId' = Cleared(workerId)
      /\ lease' = Cleared(lease)
      /\ agent' = Cleared(agent)
      /\ channel' = Cleared(channel)
      /\ label' = Cleared(label)
      /\ lastEvent' = Cleared(lastEvent)

\* The wall clock: every lease that still runs gets shorter.
Tick ==
  /\ lease' = [t \in Task |-> IF lease[t] = None \/ lease[t] = -1 THEN lease[t]
                                                                   ELSE lease[t] - 1]
  /\ lease' # lease
  /\ UNCHANGED <<status, workerId, agent, identity, lastEvent>>

-----------------------------------------------------------------------------
UserStep == \E t \in Task, action \in {"retry", "abandon"} : resolveStalled(t, action)

StoreNext ==
  \/ \E t \in Task, c \in Channel, l \in Label, a \in Agent \union {None} : createTask(t, c, l, a)
  \/ \E w \in Worker, labels \in (SUBSET Label) \ {{}}, t \in Task : claimNext(w, labels, t)
  \/ \E t \in Task, report \in Report : applyReport(t, report)
  \/ \E t \in Task, a \in Agent : setAgent(t, a)
  \/ UserStep
  \/ \E w \in Worker : recoverWorkerTasks(w)
  \/ \E w \in Worker, ids \in SUBSET Task : extendWaitingLeases(w, ids)
  \/ sweepExpiredLeases
  \/ \E c \in Channel : purgeTasks(c)
  \/ Tick

StoreSpec == StoreInit /\ [][StoreNext]_storeVars

\* The sweep runs on an interval timer of the control plane (index.ts), and
\* time passes.  Nothing is assumed of workers or users.
FairStoreSpec == StoreSpec /\ WF_storeVars(Tick) /\ WF_storeVars(sweepExpiredLeases)

-----------------------------------------------------------------------------
(***************************************************************************)
(* Properties.                                                             *)
(***************************************************************************)

(***************************************************************************)
(* A task a worker has, or had when it stalled, always carries its holder  *)
(* and a lease.  sweepExpiredLeases selects on lease_expires_at and        *)
(* recoverWorkerTasks on worker_id: a row in flight with a NULL there      *)
(* would be found by neither and stay in flight for ever.  A task in the   *)
(* pool carries neither.                                                   *)
(***************************************************************************)
HeldAndLeased ==
  \A t \in Task :
    /\ status[t] \in InFlight \union {"stalled"} => workerId[t] # None /\ lease[t] # None
    /\ status[t] \in {"absent", "pending", "purged"} => workerId[t] = None /\ lease[t] = None

(***************************************************************************)
(* The newest audit entry explains the status: no method changes one       *)
(* without the other.                                                      *)
(***************************************************************************)
Explains(event) ==
  IF event \in {"created", "agent_assigned", "retried"} THEN "pending"
  ELSE IF event = "abandoned" THEN "failed"
  ELSE Target(event)                        \* "claimed", "stalled" and reports

AuditExplainsStatus == \A t \in Row : status[t] = Explains(lastEvent[t])

(***************************************************************************)
(* First come, first served per label, whatever happened to a task since:  *)
(* it is taken from the pool only if no task of its label that arrived     *)
(* before it is waiting there.  claimNext orders by created_at; that this  *)
(* is still the order of arrival after assignments, stalls, recoveries,    *)
(* retries and crashes is what a retried task relies on to keep its turn.  *)
(***************************************************************************)
FirstComeFirstServed ==
  [][\A t, u \in Task :
       /\ status[t] = "pending" /\ status'[t] = "claimed"
       /\ status[u] = "pending" /\ label[u] = label[t]
       => arrived[t] <= arrived[u]]_storeVars

(***************************************************************************)
(* The time a worker has for a claimed or running task is never prolonged: *)
(* only a wait for a human stops the clock (the comment on                 *)
(* extendWaitingLeases).  Otherwise an agent that died in silence would    *)
(* keep its task.                                                          *)
(***************************************************************************)
WorkIsNeverProlonged ==
  [][\A t \in Task :
       status[t] \in {"claimed", "running"} /\ status'[t] \in InFlight
       => lease'[t] <= lease[t]]_storeVars

(***************************************************************************)
(* The store keeps the promise of TaskLifecycle.                           *)
(***************************************************************************)
Lifecycle == INSTANCE TaskLifecycle WITH holder <- workerId
ImplementsLifecycle == Lifecycle!Spec

(***************************************************************************)
(* A reported outcome survives everything that arrives after it: late or   *)
(* repeated reports, the sweep, a recovery, a retry or an abandon.  Only   *)
(* deleting the channel takes the record away.                             *)
(***************************************************************************)
OutcomeIsFinal == Lifecycle!OutcomeIsFinal

(***************************************************************************)
(* No task is lost in a worker's hands: one that stays claimed, running or *)
(* waiting for good does so because a wait for a human keeps being         *)
(* extended by heartbeats.                                                 *)
(***************************************************************************)
NeverHeldInSilence ==
  \A t \in Task :
    <>[](status[t] \in InFlight)
      => []<>(status[t] = "waiting" /\ lease[t] = LeaseSeconds)

(***************************************************************************)
(* What the comment in state-machine.ts (line 12) and the diagram of the   *)
(* README say: a task leaves "stalled" only by a decision of the user.     *)
(***************************************************************************)
StalledLeftOnlyByUser ==
  [][\A t \in Task :
       status[t] = "stalled" /\ status'[t] \in Status \ {"stalled"}
       => lastEvent'[t] \in {"retried", "abandoned"}]_storeVars

(***************************************************************************)
(* What docs/api.md (line 398) says of POST /tasks/:taskId/retry, by which *)
(* a user gives up on a task too: it takes stalled tasks only.             *)
(***************************************************************************)
GivenUpOnlyWhenStalled ==
  [][\A t \in Task :
       lastEvent[t] # "abandoned" /\ lastEvent'[t] = "abandoned"
       => status[t] = "stalled"]_storeVars

=============================================================================
