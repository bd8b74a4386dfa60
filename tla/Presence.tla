------------------------------ MODULE Presence ------------------------------
(***************************************************************************)
(* How a worker keeps in touch with the control plane: the claims of its   *)
(* polling loops and the heartbeat of its interval timer (apps/worker/src/ *)
(* index.ts, worker.ts), what worker-registry.ts writes down of both, and  *)
(* the leases the heartbeat extends.                                       *)
(*                                                                         *)
(* A tick is the time in which a loop without work polls once more and has *)
(* its answer: pollIntervalMs and the call.  Of time it is assumed that a  *)
(* call is answered, or fails, within the tick it is made in.  How long    *)
(* the other clocks run against each other is left open: the heartbeat     *)
(* interval is a third of the lease, but 5 s at least, the lease up to an  *)
(* hour, and the window is 300 s, shorter than the interval when the lease *)
(* is longer than 900 s.                                                   *)
(*                                                                         *)
(* Abstractions: one worker, a fixed number of loops (WorkerSettings has   *)
(* them come and go); the list of labels is a value; which task a claim    *)
(* gets, if any, is left open.                                             *)
(***************************************************************************)
EXTENDS Integers

CONSTANTS Loop,       \* the polling loops
          Labels,     \* values of the list of labels
          Beat,       \* heartbeatMs, in ticks
          Window,     \* withinSeconds of coveredLabels, in ticks
          LeaseTicks, \* leaseSeconds, in ticks
          None        \* undefined

ASSUME PresenceAssumption ==
  /\ Beat \in Nat \ {0} /\ Window \in Nat /\ LeaseTicks \in Nat \ {0}
  /\ Labels # {} /\ None \notin Labels \union [labels : Labels, age : Nat]

VARIABLES
  up,      \* is the worker running?
  labels,  \* state.labels
  doing,   \* what each loop is at
  beat,    \* ticks until the interval timer fires
  row,     \* the row of the table workers: labels, ticks since last_seen_at
  deaf,    \* was the last call to the control plane lost? (history)
  missed,  \* how many heartbeats in a row were lost (history)
  settled  \* ticks since the labels were changed, up to two (history)

vars == <<up, labels, doing, beat, row, deaf, missed, settled>>

\* A loop is free (has not polled since its last task), slept (polled, and
\* found nothing), late (the same, before the last tick), claiming, or has a
\* task: working, asking (a wait no heartbeat has named yet), told.
Free == { "free", "slept", "late" }
Held == { "working", "asking", "told" }

PresenceTypeOK ==
  /\ up \in BOOLEAN /\ labels \in Labels
  /\ doing \in [Loop -> [at : Free \union Held \union {"claiming"},
                         labels : Labels \union {None},   \* those of the claim under way
                         left : -1 .. LeaseTicks]]        \* of the lease; -1: swept
  /\ beat \in 0 .. Beat /\ deaf \in BOOLEAN
  /\ row \in [labels : Labels, age : 0 .. Window + 1] \union {None}
  /\ missed \in 0 .. LeaseTicks /\ settled \in 0 .. 2

At(a) == [at |-> a, labels |-> None, left |-> 0]

PresenceInit ==
  /\ up = TRUE /\ labels \in Labels
  /\ doing = [i \in Loop |-> At("free")]
  /\ beat = Beat /\ row = None /\ deaf = FALSE /\ missed = 0 /\ settled = 0

-----------------------------------------------------------------------------
Becomes(i, what) == doing' = [doing EXCEPT ![i] = what]

\* POST /ui/labels
SetLabels(v) ==
  /\ up /\ v # labels
  /\ labels' = v /\ settled' = 0
  /\ UNCHANGED <<up, doing, beat, row, deaf, missed>>

\* The process ends, and is started again, perhaps with other labels.  Calls
\* under way have reached the server before, or are lost.
Stop ==
  /\ up /\ up' = FALSE
  /\ doing' = [i \in Loop |-> At("free")]
  /\ beat' = Beat
  /\ UNCHANGED <<labels, row, deaf, missed, settled>>

Start(v) ==
  /\ ~up /\ up' = TRUE
  /\ labels' = v /\ settled' = IF v = labels THEN settled ELSE 0
  /\ missed' = 0
  /\ UNCHANGED <<doing, beat, row, deaf>>

-----------------------------------------------------------------------------
(***************************************************************************)
(* Claims.                                                                 *)
(***************************************************************************)

\* Fault: the loop keeps the labels of its last claim.
PollAsBefore(i) ==
  /\ up /\ doing[i].at \in Free
  /\ Becomes(i, [At("claiming") EXCEPT !.labels = IF row = None THEN labels ELSE row.labels])
  /\ UNCHANGED <<up, labels, beat, row, deaf, missed, settled>>

\* processOne reads the labels for each claim.
Poll(i) ==
  /\ up /\ doing[i].at \in Free
  /\ Becomes(i, [At("claiming") EXCEPT !.labels = labels])
  /\ UNCHANGED <<up, labels, beat, row, deaf, missed, settled>>

\* WorkerRegistry.seen
seen(ls) == row' = [labels |-> ls, age |-> 0]

\* A claim gets a task, with a fresh lease, or none.
Gets(i) == Becomes(i, [At("working") EXCEPT !.left = LeaseTicks])
GetsNone(i) == Becomes(i, At("slept"))

\* Fault: a worker is written down when it gets a task.
ClaimSeenWithTask(i) ==
  /\ doing[i].at = "claiming"
  /\ \/ Gets(i) /\ seen(doing[i].labels)
     \/ GetsNone(i) /\ UNCHANGED row
  /\ deaf' = FALSE
  /\ UNCHANGED <<up, labels, beat, missed, settled>>

\* POST /tasks/claim: the worker is written down, then a task is looked for.
\* An answer that is lost leaves the loop without one.
Claim(i) ==
  /\ doing[i].at = "claiming"
  /\ seen(doing[i].labels)
  /\ Gets(i) \/ GetsNone(i)
  /\ deaf' = FALSE
  /\ UNCHANGED <<up, labels, beat, missed, settled>>

\* The request is lost: the loop logs the error and sleeps.
LoseClaim(i) ==
  /\ doing[i].at = "claiming"
  /\ GetsNone(i)
  /\ deaf' = TRUE
  /\ UNCHANGED <<up, labels, beat, row, missed, settled>>

-----------------------------------------------------------------------------
(***************************************************************************)
(* A task's way through a loop, as far as its lease goes.                  *)
(***************************************************************************)

\* "waiting" is reported, at the gate or for an ask: the lease stays as it is.
\* Reports for a stalled task are refused, and the run ends.
Ask(i) ==
  /\ doing[i].at = "working" /\ doing[i].left >= 0
  /\ Becomes(i, [doing[i] EXCEPT !.at = "asking"])
  /\ UNCHANGED <<up, labels, beat, row, deaf, missed, settled>>

Decided(i) ==
  /\ doing[i].at \in {"asking", "told"} /\ doing[i].left >= 0
  /\ Becomes(i, [doing[i] EXCEPT !.at = "working"])
  /\ UNCHANGED <<up, labels, beat, row, deaf, missed, settled>>

\* The run ends: reported, refused, or given up.
End(i) ==
  /\ doing[i].at \in Held
  /\ Becomes(i, At("free"))
  /\ UNCHANGED <<up, labels, beat, row, deaf, missed, settled>>

-----------------------------------------------------------------------------
(***************************************************************************)
(* The heartbeat and the clock.                                            *)
(***************************************************************************)
Waiting == { i \in Loop : doing[i].at \in {"asking", "told"} }

\* Fault: the lease is prolonged by the interval, not set anew.
ExtendedByInterval ==
  doing' = [i \in Loop |->
              IF i \in Waiting /\ doing[i].left >= 0
              THEN [doing[i] EXCEPT !.at = "told",
                                    !.left = IF @ + Beat < LeaseTicks THEN @ + Beat ELSE LeaseTicks]
              ELSE doing[i]]

\* extendWaitingLeases: a task that has stalled is waiting no more.
Extended ==
  doing' = [i \in Loop |->
              IF i \in Waiting /\ doing[i].left >= 0
              THEN [doing[i] EXCEPT !.at = "told", !.left = LeaseTicks] ELSE doing[i]]

Beaten == beat' = Beat /\ UNCHANGED <<up, labels, settled>>

Lost ==
  /\ Waiting # {}
  /\ deaf' = TRUE
  /\ missed' = IF missed < LeaseTicks THEN missed + 1 ELSE missed
  /\ UNCHANGED <<doing, row>>

\* With nothing to wait for, nothing is sent.  The route writes the worker
\* down, with its labels of now, and extends what waits.  Or it never gets it.
Heartbeat ==
  /\ up /\ beat = 0 /\ Beaten
  /\ \/ Waiting = {} /\ UNCHANGED <<doing, row, deaf, missed>>
     \/ Waiting # {} /\ seen(labels) /\ Extended /\ deaf' = FALSE /\ missed' = 0
     \/ Lost

\* sweepExpiredLeases, at any time after the end of the lease.
Expire(i) ==
  /\ doing[i].at \in Held /\ doing[i].left = 0
  /\ Becomes(i, [doing[i] EXCEPT !.left = -1])
  /\ UNCHANGED <<up, labels, beat, row, deaf, missed, settled>>

\* The timer fires when it is due, and every loop without work has polled.
Tick ==
  /\ up => beat > 0 /\ \A i \in Loop : doing[i].at \in Held \union {"slept"}
  /\ beat' = IF up THEN beat - 1 ELSE beat
  /\ doing' = [i \in Loop |->
                 IF doing[i].at = "slept" THEN At("late")
                 ELSE IF doing[i].at \in Held /\ doing[i].left > 0
                 THEN [doing[i] EXCEPT !.left = @ - 1] ELSE doing[i]]
  /\ row' = IF row # None /\ row.age <= Window THEN [row EXCEPT !.age = @ + 1] ELSE row
  /\ settled' = IF settled < 2 THEN settled + 1 ELSE settled
  /\ UNCHANGED <<up, labels, deaf, missed>>

PresenceNext ==
  \/ \E v \in Labels : SetLabels(v) \/ Start(v)
  \/ Stop
  \/ \E i \in Loop :
       \/ Poll(i) \/ Claim(i) \/ LoseClaim(i)
       \/ Ask(i) \/ Decided(i) \/ End(i) \/ Expire(i)
  \/ Heartbeat
  \/ Tick

PresenceSpec == PresenceInit /\ [][PresenceNext]_vars

-----------------------------------------------------------------------------
(***************************************************************************)
(* Properties.                                                             *)
(***************************************************************************)

\* coveredLabels, and what the admin screen warns of
coveredLabels == IF row # None /\ row.age <= Window THEN {row.labels} ELSE {}

(***************************************************************************)
(* The alarm of the admin screen is false for so long only as the clocks   *)
(* of the two programs make it: unless its last call was lost, the labels  *)
(* of a worker count as looked at, whatever its other loops are busy with, *)
(* when a loop has polled and found nothing to do, and when one keeps a    *)
(* human waiting, for as long after each heartbeat as the window lasts.    *)
(***************************************************************************)
Polling == \E i \in Loop : doing[i].at \in {"slept", "late"}
KeptWaiting == \E i \in Loop : doing[i].at = "told"
SinceHeartbeat == Beat - beat

ReachableIsCovered ==
  /\ ~deaf /\ Polling /\ 1 <= Window => coveredLabels # {}
  /\ ~deaf /\ KeptWaiting /\ SinceHeartbeat <= Window => coveredLabels # {}

(***************************************************************************)
(* Two ticks after a change of its labels, a worker with a loop that polls *)
(* is known by the new ones: a claim sent earlier by another loop does not *)
(* bring the old ones back.                                                *)
(***************************************************************************)
NewLabelsTakeHold ==
  ~deaf /\ Polling /\ settled = 2 => row.labels = labels

(***************************************************************************)
(* A wait that one heartbeat has reached stalls only when so many          *)
(* heartbeats in a row were lost that the one after them comes too late:   *)
(* two of a lease of three intervals (the comment at the timer), but one   *)
(* when the lease is shorter than two times the 5 s the interval has at    *)
(* least.                                                                  *)
(***************************************************************************)
Expires(i) == doing[i].left >= 0 /\ doing'[i].left < 0

WaitSurvivesMisses ==
  [][\A i \in Loop :
       doing[i].at = "told" /\ Expires(i) => (missed + 1) * Beat >= LeaseTicks]_vars

-----------------------------------------------------------------------------
(***************************************************************************)
(* What the documentation says, and the program does not do.               *)
(***************************************************************************)

\* server.ts:272: the covered labels are those of workers that were alive of
\* late.  With an interval longer than the window, a worker whose loops all
\* keep a human waiting is not among them in between.
WaitingIsCovered == ~deaf /\ KeptWaiting => coveredLabels # {}

\* docs/api.md:366: a task does not stall because its human is slow.  The
\* lease an ask meets is what the work has left of it, and the next heartbeat
\* may come after its end.
SlowAnswersDoNotStall ==
  [][\A i \in Waiting : Expires(i) => missed > 0]_vars

\* worker-registry.ts:52: a task whose label is not covered is taken by nobody.
UncoveredIsNotTaken ==
  [][\A i \in Loop : doing[i].at = "claiming" /\ doing'[i].at = "working"
       => doing[i].labels \in coveredLabels]_vars

=============================================================================
