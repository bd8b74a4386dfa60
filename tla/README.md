# SAMDI in TLA+

SAMDI takes events from outside (webhooks), judges on a server which of them are
worth a task, and lets workers on the users' own machines claim the tasks, ask
for consent, run an agent and report back. This directory holds TLA+ modules of
that program, TLC instances that check them, and TLAPS proofs of what matters
most about them. Paths below are relative to the repository.

    tlc -workers 2 -config MCStoreCrash.cfg MCStoreCrash    # one run
    tlapm TaskStore_proofs.tla                              # one proof module

`PROJECT.json` lists the runs with their properties, the source lines behind
every definition, the findings, the hazards and the theorems. Definitions whose
comment begins with "Fault:" are not part of the model. Each is a wrong variant
of the definition after it and shows that some property would notice.

## 1. Inventory

| Part | State | Operations | Modelled in |
|---|---|---|---|
| Task state machine (`packages/task-domain/src/state-machine.ts`) | none | `canTransition`, `assertTransition` | `TaskStates`, `TaskLifecycle` |
| Task store (`apps/control-plane/src/task-store.ts`) | tables `tasks`, `task_events`, `payloads` | create, claim, report, assign agent, resolve, recover, heartbeat, lease sweep; purge (from the registry) | `TaskStore`, `StoreCrash`; the reading methods in `WorkerScreen`, `TaskBrowser` |
| Execution plane (`apps/worker/src/worker.ts`, `index.ts`, `control-plane-client.ts`) | the maps `queues`, `pendingApprovals`, `approvalResolvers`, `agentOverrides`, one report queue per run | `processOne`, local report API, approve/deny, finish, choose agent, heartbeat, start-up recovery | `ExecutionPlane` |
| Worker settings and loops (`worker-state.ts`, `applyConcurrency` in `index.ts`) | overrides, the state file, array `loops`, flag `stopping` | set and reset settings, start and stop loops, signals | `WorkerSettings` |
| Pipeline and thread store (`pipeline.ts`, `thread-store.ts`) | tables `context_threads`, `thread_events`; `timers`, `inFlight` | ingest, debounce timer, sweep, interpret, expire | `Pipeline` |
| Channel registry (`channel-registry.ts`, start of `index.ts`) | table `channels`, map `runtimes`, configuration file | sync, load, create, update, rotate key, disable, remove | `ChannelRegistry` |
| Control-plane routes (`server.ts`) | none | check a key, call the parts above and below | as the actions they call; keys in `TaskBrowser`, claim and heartbeat whole in `Presence` |
| Start gate (`packages/policy-gateway`) | policy | `evaluate` | `Judgement`; its verdict is an input of `ExecutionPlane` |
| Agent adapters (`packages/agent-adapter`) | an agent process | `start` | external, in `ExecutionPlane` |
| Interpreters (`packages/interpreter`) | none | `interpret`, `createInterpreter` | `Judgement`; delays and errors in `Pipeline`, refusal in `ChannelRegistry` |
| Worker registry (`worker-registry.ts`) | table `workers` | `seen`, `coveredLabels` | `Presence` |
| Worker screen (`apps/worker-ui/src/App.tsx`) | React states `state`, `tasks` | refresh; approve, deny, finish, retry, abandon, choose agent | `WorkerScreen` |
| Admin screen (`apps/control-plane-ui/src/App.tsx`, `api.ts`) | the key in local storage, `authed`, view, page, list, selection, detail, issued key, `busy` | refresh, log in and out, page, select; register, rotate, edit, disable, delete, inject | `TaskBrowser`, `ChannelConsole` |
| Configuration (`packages/config`) | none | load, merge, validate | `Configuration`, for one section in `Judgement` |
| Activity log, wire schemas, demo CLI, tool SDK | no state of the system | | not modelled |

### How the parts interact

* A source posts an event to a channel. `ChannelRegistry.authenticate` finds the
  runtime of its key; `Pipeline.ingest` makes a task at once (passthrough) or
  appends the event to a context thread and arms a debounce timer.
* The timer, or the control plane's interval, calls `runDue`: it reads the due
  threads, and one after the other asks the interpreter and applies its verdict
  (wait, discard, or create a task and close the thread).
* Worker loops claim tasks over HTTP, hold them under a lease, and report each
  change. The lease sweep moves what is overdue to `stalled`; heartbeats extend
  the leases of tasks that wait for a human; a restarted worker has the tasks of
  its previous life stalled. Only a user takes a task out of `stalled`.
* An agent talks to its worker alone, over the local report API. An `ask` is an
  HTTP request kept open until the user decides.
* Users and operators see the system through two screens that poll. A screen shows
  what its last refresh that came back brought, and offers only what that calls for.
* Every claim and every heartbeat tells the worker registry that a worker is there,
  and with which labels; the admin screen warns of labels nobody looks at.

### What is hard

The control plane is one single-threaded process on a synchronous database:
everything between two awaits is atomic. The only long await is the
interpreter's. Workers are processes of their own with several concurrent loops
that share maps keyed by the task id; calls are refused, lost, or answered
after the answer has ceased to matter. Reports carry no claim number. Three clocks run
against each other: lease, report timeout, heartbeat. The admin API changes
table and memory in two steps of which the second may throw. Row and audit entry are two
statements, and the control plane may die in between. Refreshes of a screen overlap,
and their answers come late, in any order, or not at all. The list of
hazards in `PROJECT.json` gives the line where each bites.

### What makes each part correct

* **Task store**: an outcome is final; a task is out with one holder at most and
  comes back to the pool only from `stalled`; whatever is in flight has holder
  and lease, so that sweep and recovery find it; the audit trail explains the
  status; the pool is first come, first served per label, also for a task that comes
  back to it; working time is never prolonged; nothing stays in flight in silence. All that, but for one audit entry
  per crash, survives the death of the control plane at any point.
* **Execution plane**: what the server shows and where the run stands agree;
  nothing starts without consent; `rejected` means nothing ran; a loop never gives up
  before the lease does; waiting loops are reachable.
* **Worker screen**: while a task is on its list (the newest 50), the task and the loop
  that runs it get stuck only on a decision it offers, however old what it shows;
  stated for workers of one loop. Behind a backlog, and for tasks that have no row any
  more, the code does not keep this (section 5).
* **Worker registry and heartbeats**: a worker with a loop that polls counts as there,
  with its present labels, and one all of whose loops wait for humans does so for the
  window after each heartbeat; a wait outlasts lost heartbeats.
* **Admin screen**: pages neither repeat nor omit a task; detail and list settle on
  what is selected and what is there; a wrong key is asked for again; nothing is
  purged unasked; no button is lost with an answer.
* **Worker settings**: changing the number of loops never leaves the worker
  without one, nor with more than allowed; the file says what memory says.
* **Pipeline**: `inFlight` is exact; no event is marked as seen unseen; a
  dispatched thread has a task; only events that arrive during an interpretation
  can be missed; every thread closes.
* **Channel registry**: the runtime reflects the row; every record's channel exists.
* **Interpreters, start gate, configuration**: labels stay inside the catalogue that
  was offered; a human is asked exactly about what the operator has not exempted;
  nothing blank starts; an override changes the key it names and no other.

## 2. Modules

`TaskStates` (statuses, transitions) is extended by `TaskLifecycle` (abstract)
and `TaskStore`; `TaskStore` implements `TaskLifecycle` under
`holder <- workerId`; `ExecutionPlane` extends `TaskStore` and drives it.
`StoreCrash` extends `TaskStore` too and lets the process die inside its methods;
`WorkerScreen` composes a screen with `ExecutionPlane`, `ChannelConsole` one with
`ChannelRegistry`. `Judgement` extends `Configuration`. `Pipeline`,
`WorkerSettings`, `Presence` and `TaskBrowser` stand alone: the little they need of
another part is in their abstractions, named at the top of each module.
`MC*` modules add symmetry, `*_proofs` modules the theorems.

### TaskStates, TaskLifecycle
`Transitions` is the table of `state-machine.ts`. `TaskLifecycle` is the promise
without leases, labels, clock or audit: each task enters the pool, is claimed,
advances, is released, is purged. `absent` is "before the INSERT", `purged`
"after the DELETE".

### TaskStore
One action per writing method; each is atomic because better-sqlite3 is
synchronous. A call that throws writes nothing and is no step. The callers are
unconstrained: the routes check a shared key, so anyone who holds it may send
any report about any task. A lease is the number of ticks left, `-1` once past;
`created_at` is a growing stamp in which two tasks may share a millisecond. The history
variable `arrived` keeps the stamp of the INSERT and is read by no action, so that
`FirstComeFirstServed` can ask whether the column a claim orders by is still that of the
arrival. Of the audit trail the newest entry is kept. A method that writes a row and then its entry is
the conjunction of two operators (`reportRow`, `Logs`), so that the next module can
take the first without the second.

### StoreCrash
The same methods, and a crash inside any of them. Better-sqlite3 runs each statement
as a transaction of its own, so a crash leaves what was executed: a row without its
entry, a scan that has done some of its rows, and for `claimNext` and the purge,
which are transactions, nothing (`GoDown`). `ComeUp` brings the process back; it repairs
nothing. Leases run on meanwhile.

### ExecutionPlane
A loop's `pc` is the await it stands at in `processOne`; what runs between two
awaits is one action, with the `finally` block as part of every way out. A call
to the control plane is answered, refused, or (`Lossy`) lost on the way there or
back; all but the first throw. `queueOf` and `approver` are the worker's maps:
they hold the *loop* whose queue or resolver is under a task id, and that is how a
run that ends can take away what belongs to another. `proc[t][k]` is the agent
of the k-th claim. Agents are external and do what the adapters cannot prevent:
report, ask, vanish, fail to start, outlive their worker. `Crash` drops
everything in memory; `Restart` reports itself first, and goes on if that call
fails.

### WorkerScreen
`fetching` holds the refreshes under way, each with the one of its two answers that
has arrived or, when both have, with the buttons they make the screen offer (`Offers`);
`Show` is `Promise.all` resolving, `Drop` its rejection. The interval timer starts a
refresh without looking at others. What users can do in `ExecutionPlane` they can do here
only by the buttons that are `seen`: decisions and the choice of an agent in the row of a
listed task, finishing in the pane of current tasks, retry in a stalled row.
`MayBeLeftOut` is the case of a backlog: enough other open tasks are not older than this one
to fill the list.

### Presence
A tick is the time in which a loop without work polls once more. Heartbeat interval
(`Beat`), window of `coveredLabels` (`Window`) and lease are numbers of ticks in no
relation to each other: in the code the window is always 300 s, and the interval a third
of a lease of up to an hour (`packages/config/src/schema.ts`:164, `index.ts`:370), 5 s at
least. A loop is free, claiming with the labels it read, or has a task with so much lease
left. A claim writes the worker down whether or not it gets a task; so does a heartbeat,
which is sent only while something waits for a human. A lease that is over stays so until
the sweep comes round (`Expire`).

### TaskBrowser
Requests of the admin screen's task list. A request is answered when it is sent, and
its answer stays in the bag `answers` for as long as it likes, which leaves every
answer as old as it can be. `Unauthorized` is the answer to a key that was wrong
when the request was sent; whatever the key is by then, `LogOut` follows.

### ChannelConsole
The buttons of the channel list over the actions of `ChannelRegistry`. A button is there if the row
*shown* calls for it. A new key travels in an answer of its own, the deletion in two
calls with a dialog between them that stops everything else on the screen
(`confirm` blocks the script).

### WorkerSettings
`loops` is the array of that name, in its order. New loops are appended, those
from the target on are told to stop, and a loop looks at that flag only between
two tasks. `Save` and `SaveFails` are `patch`: memory changes before the file is
written, and the write may fail or be cut off. Labels and default agent take the
same path and are one value, `rest`.

### Pipeline
A run is an execution of `runDue` with the rows it read (`due`); the head is the
thread it awaits the interpreter for. `Proceed` is the continuation after an
answer: it skips what is in flight and begins the next. Of a thread's
events only their number matters. `CrashDispatching` is a crash between the three
writes that follow a dispatch verdict. Channels differ only in what the
pipeline looks up: `llm`, `passthrough`, `off`, `gone`.

### ChannelRegistry
`row` is the table, `runtime` the map, `file` the configuration file. A
configuration is either sound or broken: the schema accepts mode `http` without
an address, the interpreter factory does not. `Serve` throws on those after the
row has been written. `Boot` is `syncFromConfig` followed by `load`, and may throw.

### Configuration, Judgement
`Pipeline` and `ExecutionPlane` let an interpreter and the gate answer anything;
`Judgement` computes those answers, for one event at a time. `claude`, `http` and
`evaluate` are the functions of the code; the channel may be edited while the
interpreter is asked, and the worker restarted with another file and another
`SAMDI_REQUIRE_APPROVAL` at any point, its policy being what
`loadWorkerConfig` makes of them. What lists a file may exempt is a parameter
(`LabelLists`, `ChannelLists`). `Configuration` is `deepMerge` and `compact`, next to a
reference that looks at paths only (`Overlay`). The code calls itself on nested
mappings; the overrides nest three deep at most (`agents`, `claude-code`), so three
calls are written out, each the same operator (`MergeBy`, `CompactBy`) given the one
inside it. That loses nothing of what the loader does and can be proved about.

## 3. Runs

| Run | Instance | States | Shows |
|---|---|---|---|
| `store` | 2 tasks, 2 workers, 2 labels, 1 channel, a lease that ends at the first tick, 1 crash, fairness | 679k | safety of the store and its refinement of `TaskLifecycle` through a crash inside any method, what a crash costs the audit trail, that a task keeps its turn, and that nothing stays in flight in silence |
| `exec` | 2 workers of 1 loop, 1 task, lost calls, 2 claims, 1 crash | 275k | status and run agree, consent, patience, answers that reach their loop |
| `screen` | 1 worker of 1 loop, 1 task claimed once, 2 refreshes under way, lost calls, 1 crash, fairness | 310k | task and loop are stuck only on what the screen offers |
| `screen_retry` | the same with 2 claims, 1 refresh at a time, no crash | 180k | the same for the loop, with leftovers of the first claim |
| `presence` | 3 loops, 2 lists of labels, restarts, lost calls; interval 2 ticks, window 1, lease 6 | 566k | whom the registry counts as there, and that waits outlast lost heartbeats |
| `console` | 1 channel, 2 sound and 1 broken configuration, 3 keys, 2 answers of each kind under way, fairness | 526k | memory and table agree, nothing is purged unasked, screen and buttons recover |
| `browser` | 2 tasks on pages of one, 2 keys, 2 requests under way, fairness | 415k | paging, late answers, the key gate |
| `pipeline` | 2 threads, 2 overlapping runs, 2 events, 1 crash, fairness | 294k | safety of the pipeline, and that threads close |
| `settings` | 3 loops allowed, 5 alive at once | 24k | the loops match the setting |
| `judgement` | 1 channel, 2 labels in configurations and 1 outside, every catalogue, 20 files, 3 values of the variable | 90k | labels, consent, blanks, overrides |

The runs `pipeline_twice` and `presence_stall` each show one counterexample
(section 5). Instances that check liveness use no symmetry. Further instances are kept to
be run by hand: `MCTaskStore` (no crash, lease of 2, and the audit trail exact),
`MCChannelRegistry` (2 channels, no screen), `MCExecutionPlane_live` (two claims of
a task: stuck only on a decision that *could* be offered), `MCExecutionPlane_two_tasks`
(1 worker of 2 loops, 2 tasks: what one run does to the maps does not disturb the other),
`MCWorkerScreen_backlog` (2 tasks, of which the list shows one), and those
of section 5.

Every module has a type invariant. The runs check those of `ExecutionPlane` and
`Pipeline`. All of them are proved, but
for the number of requests under way in `TaskBrowser` (`BrowserTypeOK`).

**Why the bounds are enough.** Tasks, threads and channels affect each other only in
pairs: two compete for the pool, a run works through two rows, a key is looked up
among two channels. Two workers are enough for a task to change hands, two loops for one run to disturb
another, two claims for a stale attempt against a
new one, and one lost call at every place for every order of losses within a run
(`Lossy` does not count them). A lease that ends at the first tick suffices for "before"
and "after" the end; `exec` takes one tick more, and `MCTaskStore` two, to tell a heartbeat in
time from one too late; the theorems are about any lease and any labels. One
crash reaches every point of a run, including the first run after the restart. The bounds
`MaxStamp`, `MaxAttempts`, `MaxQueue`, `MaxCrashes`, `MaxOutages`, `MaxEvents`, `MaxKeys` and
`MaxRunning`, and `MaxAnswers`, `MaxRequests`, `MaxRefresh`, `MaxTask`, cap counters and queues of the model and are guards of the action
that would exceed them. The 32 loops of the code are `MaxLoops`. In `judgement` one channel and one event are
enough because no decision looks at a second one; the catalogues are all lists of
at most two labels, which tells the first label from another and from none.
A screen needs two answers under way for one to overtake the other, and two tasks on
pages of one for a page behind the last. In `presence` two loops may differ in what
they sent and what they do, and a third keeps the worker busy beside them; its window is
shorter than the interval, as with leases of more than 900 s. The screens of workers have
one loop each (`OneLoop` in `MCWorkerScreen`), because the phase of a task then follows
from its loop. Overlapping refreshes, a second claim and a backlog each multiply the states of
the liveness check, so `screen`, `screen_retry` and `MCWorkerScreen_backlog` have one of
them each and no instance has two; with one task the exception `MayBeLeftOut` never
applies, with two it does whenever both are open.

`ServerMirrorsRun`, `RejectedRanNothing` and `WaitersAreReachable` speak of the first
attempt of a task only: after a stall and a retry the code breaks them, as section 5
shows. The first two, and `NoStartWithoutConsent`, also hold with two loops in one
worker (602k states). `PatienceOutlastsLease` is stated for workers of one loop: with
two, a late report of the first attempt starts the patience of the second anew.

`CHECK_DEADLOCK FALSE` is set where every task can be purged, after which
nothing is left to do.

### Fairness
* `TaskStore`: weak fairness of time and of the lease sweep. The sweep is a
  `setInterval` of the control plane. Users, workers and heartbeats owe nothing.
* `ExecutionPlane`: weak fairness of each loop's own steps (`while` loops with
  timeouts on their HTTP calls), of the restart after a crash, of the sweep and
  of time. Nothing is assumed of users, agents, heartbeats or the network, so a
  task may end stalled, and a loop may wait for ever for a human.
* `StoreCrash`: besides, the process is brought up again after a crash.
* `WorkerScreen`: that of the execution plane, but of each action in the presence of a
  screen; the interval timer of a visible tab fires, and not every refresh fails
  (strong fairness of the answers). Nothing is assumed of clicks.
* `TaskBrowser`, `ChannelConsole`: the timer fires, not all answers are lost, and
  every call is answered or fails, as `fetch` does. Nothing is assumed of clicks,
  of the user in the dialog, or of the server staying up.
* `Pipeline`: an asked interpreter answers or fails, time passes, every
  channel is swept again and again. The sweep's fairness is strong because an
  instance with few `Run`s may have none free; the program simply starts another
  execution at every interval.

## 4. Proofs

All statements hold for any sets of tasks, workers, labels, agents and channels
and any lease, under the assumptions named in the modules: `LeaseAssumption`,
`CrashAssumption`, `ExecutionAssumption`, `RegistryAssumption`, `SettingsAssumption`
(bounds are natural numbers, sound and broken configurations differ, a file that was
cut off is not a sound one), `ScreenAssumption` (a page and at least one refresh),
`JudgementAssumption` (what a file exempts are labels and channels), `MarkerAssumption`
(a refusal of the control plane is not a list or a detail), `PresenceAssumption` (interval and
lease are positive; nothing relates them to each other or to the window),
`PipelineAssumption` (finitely many threads: without that the order of the due ones
would not be a sequence), and those on `None` (NULL is not a value).

* `TaskStore_proofs`: `TypeCorrect`, `HeldAndLeasedCorrect`, `AuditCorrect`,
  `FirstComeFirstServedCorrect`, `WorkNeverProlonged`, `Refinement`, `OutcomeFinal`. Types, and types with
  `HeldAndLeased`, are inductive. That a task keeps its turn is not in the order by which a
  claim chooses (`ClaimsTakeTheFirst`) but in an invariant, `TurnsKept`: no assignment, stall,
  recovery or retry changes the stamp of the arrival, and a new row takes its own
  (`NewRowTakesItsTurn`). The refinement needs both: that a claimed
  task's holder is a worker, and that one out of the pool keeps it, is what
  `Claimed` and `Advances` ask, and no transition alone tells it. There is one lemma per action
  that a conjunct can be disturbed by. `OutcomeFinal` is not proved
  again: it follows from `Refinement` and the theorem about the abstract module.
  Three facts about the abstract task, `HeldIffOutCorrect`, `OutcomeIsFinalCorrect` and
  `NoHandoverCorrect`, are proved of `TaskLifecycle` and carried over.
  The same module has `StoreCrash`: `CrashHeldAndLeased`, `CrashRefinement`,
  `CrashOutcomeFinal`, `CrashFirstComeFirstServed`, `CrashWorkNeverProlonged`, `GapsBounded`. What a
  method leaves behind when it is cut is shown to keep the invariant of the store
  (`CutKeeps`) and to be a step of the abstract task or none: the audit entry plays no
  part in either; nor does a cut method claim anything, lengthen a lease or cost a task its
  turn (`CutsClaimNothing`, `CutsLengthenNothing`, `CutsKeepTurns`). For the trail, a complete method explains
  every row it touches (`StepsExplain`) and a cut one leaves one unexplained row more at
  most (`CutLeavesOneGap`); the count follows by the library's facts on cardinality.
* `ExecutionPlane_proofs`: `UsesTheStore` is the composition theorem, `Spec =>
  StoreSpec`: whatever workers, agents, users, crashes and lost calls do, the table
  sees nothing but calls of its methods (`StepsOfStore`). With it every theorem about
  `StoreSpec` holds of the whole execution plane; `PlaneHeldAndLeased`,
  `PlaneImplementsLifecycle` and `PlaneActionsCorrect` say so. `ExecTypeCorrect` needs to know where
  runs come from: `RunsAreOfClaims` (a run has a claim that was counted) and
  `ApproversWait` (who is in the map is at a wait), which is what makes `Decide` land
  at an existing place. `ConsentCorrect` needs that a loop at the point of starting
  has consent (`StartsAreConsented`), and that an attempt which has not come so far
  has no agent (`UnstartedAreNowhere`); each is then one lemma per kind of step.
  The properties of the first claim rest on three invariants. `ReachInv` numbers the
  runs: no two runs of a task have one number (`OneRunPerClaim`), none a number above
  the claims counted, so that the run of a task claimed once is alone, and nobody else
  empties its entries in the maps (`ReachableCorrect`). `MirrorInv` adds the table: only
  that run reports on the task, hence the status follows its place (`MirrorCorrect`), and
  a run before its start has no agent yet (`EarlyRunsHaveNoAgent`), which is what is left
  of a rejected task (`RejectedCorrect`). `LeaseInv` says that the newest run of a task in
  flight is a run of its holder (`HolderRuns`): with one loop, a heartbeat of that worker
  cannot name the task while its loop listens, and nobody else's heartbeat extends the row
  (`PatienceCorrect`). Steps are sorted by what they may move (`StepsAlone`,
  `ReportsAlone`, `NoProgress`, `LeasesRest`, `Onward`), and each kind is treated once.
  `ScreenUsesThePlane`, `ScreenSpec => Spec`, puts the screen in front: a click is a call
  users could make without it, so that consent and the rest hold behind stale answers
  (`ScreenKeepsPlane`). `ScreenTypeCorrect` needs `ApproversWait` again: the question a
  worker answers with is one a loop waits with at that moment. `WorkerScreen`
  abstracts the phase of a task as its loop's, which is the code's for one loop.
* `ChannelRegistry_proofs`: `RegistryTypeCorrect`, `RuntimeReflectsRowCorrect`,
  `RowsForAllCorrect`. Runtime and row are related only while the process is up, and
  the typing that a broken configuration is never *served* is what makes a failed
  edit harmless to the runtime: the lemmas `ServeType`, `SyncType`,
  `LoadType` carry it. `ScreenUsesTheRegistry` composes it with `ChannelConsole`,
  `ConsoleSpec => Spec`, so that they hold behind the admin screen too
  (`ScreenKeepsRegistry`); `NothingPurgedCorrect` needs only that the dialog asks about
  a channel (`AskingType`). `ConsoleTypeCorrect` is the type invariant of the screen, with
  the bounds on what is under way: the keys under way are keys the registry has issued
  (`KeysIssued`), and no second registration starts while one is under way (`Creates`).
* `Pipeline_proofs`: `PipelineTypeCorrect`, `InFlightCorrect`,
  `NothingMarkedUnseenCorrect`, `DispatchedHasTaskCorrect`, `MissedOnlyDuringCorrect`.
  Executions hold rows that other executions, events and removals have overtaken. The
  invariant says what such a row is still good for: its thread has lost no events
  unless it is gone (`RowsHold`), and what the interpreter was sent covers the row, the
  rest having arrived since (`SawHolds`). A step is cut in two views, that of a thread
  (`TableMoves`: nobody judged it, or one execution did) and that of the executions
  (`RunsMove`: none moves, all end, or one gives up its thread and takes one that is
  nobody's). Every action is shown to be such a move once; the conjuncts follow from
  the moves without looking at actions again.
* `Presence_proofs`: `PresenceTypeCorrect`, `ReachableIsCoveredCorrect`,
  `NewLabelsTakeHoldCorrect`, `WaitSurvivesMissesCorrect`, for every interval, window and
  lease. The registry's row is as
  young as the calls that were not lost (`RowIsFresh`) and as current as the claims
  under way (`ClaimsAreCurrent`, `RowIsCurrent`); a lease is its full length less the
  heartbeats missed (`LeaseIsAccounted`).
* `WorkerSettings_proofs`: `SettingsTypeCorrect`, `NeverRunsDryCorrect`,
  `NoSurplusCorrect`, `DiskMirrorsMemoryCorrect`. Neither property of the loops is
  inductive: with a stopped loop in front, lowering the setting would stop the only one
  left. What holds is where the others are: the first loop is never told to stop
  (`FirstGoesOn`), and none that goes on stands behind the setting (`GoOnInFront`),
  also after loops in the middle have left and the rest moved up (`Leaving`).

* `TaskBrowser_proofs`: `PagesPartitionCorrect`, `DetailFollowsSelectionCorrect`,
  `ShownTypeCorrect`. That pages neither repeat nor omit a row is a fact about `listTasks`
  in every state: the place of a row is the number of newer ones. The detail follows the
  selection because a load under way is cancelled, in the model as in the effect, when
  the selection changes; what is shown is what such a load was answered.
* `Judgement_proofs`: `JudgementTypeCorrect`, `AskedUnlessExemptCorrect`,
  `OnlyOfferedLabelsCorrect`, `NothingBlankStartsCorrect`,
  `EnvironmentWinsPathwiseCorrect`. The lemmas without state come first: what the merge
  makes of each file (`MergedIs`), what a file says at each path (`PathsOfFile`), that
  merging is overlaying paths (`Pathwise`), and that the policy made of the result means
  what file and environment say (`PolicyMeans`). The invariant then carries two facts the
  properties do not say: the policy is that of the file and environment of the last start,
  and a question carries the configuration it was asked under.

**Only model-checked.** Everything under fairness (`NeverHeldInSilence`,
`LoopsFreeOrOffered`, `TasksMoveOrOffered`, `RegisterComesBack`, `ConsoleCatchesUp`,
`ListCatchesUp`, `WrongKeyIsAskedFor`, `ThreadsClose`): the prover has no rule for
`ENABLED`. Of `BrowserTypeOK`, that no more than `MaxRequests` requests of a kind are
under way: they are a bag, whose size is a recursive sum and would need induction. Every
other invariant and action property of a run that passes is a theorem.

## 5. Where code and documents disagree

The first two are listed runs and findings, whose quotations are in
`PROJECT.json`. The others have a definition and an instance as well, which are to be
run by hand; TLC finds each violated. A `*_docs` instance names several properties: one is
active, the others are comments to be swapped in, since TLC stops at the first violation.

| Property | Instance | What it shows |
|---|---|---|
| `NotJudgedTwice` | `MCPipeline_twice` | `runDue` judges a row it read before another run closed it: two tasks from one thread |
| `SlowAnswersDoNotStall` | `MCPresence_stall` | a wait that begins late in its lease is swept before the first heartbeat, with no call lost (docs/api.md:366) |
| `StalledLeftOnlyByUser` | `MCTaskStore_docs` | a late `failed` report closes a stalled task without the user |
| `DecideFailsOnlyWithoutWait` | `MCExecutionPlane_docs` | after stall and retry, the end of the older run deletes the resolver of the newer one, which then waits for ever |
| `DisabledTakesNoEvents` | `MCChannelRegistry_docs` | rotating the key of a disabled channel revives it |
| `NewEventsStayDue` | `MCPipeline_docs` | an event that arrives during the interpretation is closed in with its thread |
| `GivenUpOnlyWhenStalled` | `MCTaskStore_docs` | abandon is taken for running and waiting tasks too (docs/api.md:398) |
| `OneLoopPerTask` | `MCExecutionPlane_docs` | after stall and retry, two loops of one worker are on the same task (docs/configuration.md:417) |
| `DeniedMeansFailed` | `MCExecutionPlane_docs` | the agent reads `deny` before the failure is reported (docs/api.md:431) |
| `AskIsHeld` | `MCExecutionPlane_docs` | an ask is dropped with the run that should have held it, its request hangs (docs/api.md:429) |
| `RejectedStopsNothing` | `MCExecutionPlane_docs` | a refusal of the old attempt rejects a task whose new agent is at work (state-machine.ts:9) |
| `OverrideIsForThisStart` | `MCExecutionPlane_docs` | an agent chosen in an old attempt outranks the one named after the retry (docs/api.md:483) |
| `TtlClosesThreads` | `MCPipeline_docs` | threads of a disabled or switched channel never expire (docs/configuration.md:114) |
| `AlwaysComesUp` | `MCChannelRegistry_docs` | a stored `http` channel without an address stops every later start (channel-registry.ts:136) |
| `ReplacedKeyIsDead` | `MCChannelRegistry_docs` | the old key of a broken row stays valid after it was rotated (channel-registry.ts:279) |
| `RowsAreKept` | `MCChannelRegistry_docs` | deletion deletes (docs/configuration.md:86) |
| `RaiseTakesEffect` | `MCWorkerSettings`, commented out | lowered and raised while busy, the loops stay below the setting (docs/api.md:461) |
| `WaitingIsCovered` | `MCPresence_docs` | with a lease of more than 900 s (up to 3600, `schema.ts`:164) the interval exceeds the window of 300 s: between heartbeats a worker whose loops all wait for humans is not counted as there (server.ts:272) |
| `UncoveredIsNotTaken` | `MCPresence_docs` | the first claim of a worker, or the first with a new label, may get a task no worker covered (worker-registry.ts:52) |
| `WaitIsInTheList` | `MCWorkerScreen_docs` | the list has the newest 50 rows, claims go to the oldest: behind a backlog a waiting task, and its buttons, are not on the screen (worker-ui `App.tsx`:156) |
| `WaitHasARow` | `MCWorkerScreen_docs` | a task purged or given up while its run waits has no row, and nobody can end the wait (the same lines) |
| `AnswersWhatIsShown` | `MCWorkerScreen_docs` | a click on the question of the start answers a question asked later (worker-ui `App.tsx`:271) |
| `GateOnlyForAWrongKey` | `MCTaskBrowser_docs` | a late 401 for an earlier key throws away the right one (control-plane-ui `App.tsx`:25) |
| `EmptyMeansNone` | `MCTaskBrowser_docs` | on a page behind the last the screen says there are no tasks, and hides the pager (`App.tsx`:228) |
| `PurgeIsAsAnnounced` | `MCChannelConsole_docs` | events that arrive while the dialog is open are purged unannounced (`App.tsx`:446) |
| `ShownKeyServes` | `MCChannelConsole_docs` | of two rotations the answer of the first may arrive last: the key shown is dead (`App.tsx`:71) |

`WaitSurvivesMisses` says how many lost heartbeats a wait outlasts, as a number of intervals.
The comment at the timer ("a third of the lease, so that one or two misses do no harm",
`index.ts`:368) presumes that the interval is a third: it is 5 s at least, so a lease of
less than 15 s outlasts fewer.

## 6. Not modelled, and plan

Left out for good: status codes and their texts, SQLite's own durability,
prompts and external processes, display code, the activity log (a ring of 200 entries
nothing reads back), the wire schemas (declarations, whose sets of messages the modules
take as theirs), the demo CLI (one call per command) and the tool SDK (an interface
without code). Of the screens: the forms for labels, concurrency and default agent, which
call the routes `WorkerSettings` models, and the overview, which only displays counts.

Not composed: `Pipeline` and `ChannelRegistry` with the store. The three meet in one
process without an await between them but the interpreter's, which `Pipeline` has with
edits, removals and crashes around it; what a task made there goes through is
independent of where it came from.

What is left, in order:

1. `Pipeline` composed with `TaskStore`, so that a thread's tasks are rows of the store
   and a removed channel purges both in one step.
2. The phase of a task as the map of the worker it is, so that `WorkerScreen` can have
   several loops.
3. Overlapping refreshes together with a second claim, and with a backlog.
