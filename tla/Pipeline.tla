------------------------------ MODULE Pipeline ------------------------------
(***************************************************************************)
(* Collector and interpreter of the control plane (apps/control-plane/src/ *)
(* pipeline.ts) over the table of context threads (thread-store.ts).       *)
(*                                                                         *)
(* Everything between two awaits is one step.  The only await that lets    *)
(* other requests in is the interpreter's: the promises awaited between    *)
(* markInterpreted, createTask and close are settled already, so only a    *)
(* crash of the process can come between those three writes.               *)
(*                                                                         *)
(* Abstractions: the events of a thread are the numbers 1 .. eventSeq, as  *)
(* append adds a row and counts it in one transaction; a Task made from a  *)
(* thread is the number of events its verdict was based on; a time stamp   *)
(* is the ticks since then; the channels differ neither in debounce nor in *)
(* ttl.  Of a channel only what the pipeline looks up is kept, and it      *)
(* changes freely (the admin API).  sweep visits the channels one after    *)
(* the other: each visit is a step here.  A passthrough channel's events   *)
(* become tasks at once and leave no state in the pipeline.                *)
(***************************************************************************)
EXTENDS Integers, Sequences, FiniteSets, SequencesExt

CONSTANTS Thread,     \* thread identifiers (random UUIDs, never reused)
          Channel,
          Key,        \* context keys sources give
          Run,        \* bound: executions of runDue at the same time
          Debounce,   \* debounceMs, in ticks
          Ttl,        \* ttlSeconds, in ticks
          MaxEvents,  \* bound: events of one thread
          MaxCrashes, \* bound: crashes of the control plane
          None        \* SQL NULL, undefined

ASSUME PipelineAssumption ==
  /\ IsFiniteSet(Thread)
  /\ Debounce \in Nat /\ Ttl \in Nat /\ MaxEvents \in Nat \ {0} /\ MaxCrashes \in Nat
  /\ None \notin Key \union Channel \union Int

VARIABLES
  mode,      \* Channel -> what channels.get(id) yields: "llm", "passthrough",
             \*   "off" (a row without runtime), "gone" (no row)
  thread,    \* Thread -> its row of context_threads
  tasks,     \* Thread -> the tasks inserted with its id, in their order
  timer,     \* Channel -> ticks until its setTimeout fires, None without one
  inFlight,  \* the set of that name
  run,       \* Run -> an execution of runDue
  crashes,   \* how many crashes there were
  judged,    \* Thread -> most events any verdict on it was based on (history)
  during     \* Thread -> events that arrived while the interpreter was
             \*   asked about the thread (history)

vars == <<mode, thread, tasks, timer, inFlight, run, crashes, judged, during>>

NoThread == [status |-> "none", channel |-> None, key |-> None,
             eventSeq |-> 0, interpretedSeq |-> 0, quiet |-> 0]

NoRun == [channel |-> None, due |-> <<>>, saw |-> 0]

\* A row as dueForInterpretation returned it: later writes do not show in it.
DueRow == [id : Thread, seq : 1 .. MaxEvents]

ThreadRow ==
  [status : {"none", "open", "dispatched", "discarded", "expired", "purged"},
   channel : Channel \union {None}, key : Key \union {None},
   eventSeq : 0 .. MaxEvents, interpretedSeq : 0 .. MaxEvents, quiet : 0 .. Ttl + 1]

RunRow == [channel : Channel \union {None}, due : Seq(DueRow), saw : 0 .. MaxEvents]

PipelineTypeOK ==
  /\ mode \in [Channel -> {"llm", "passthrough", "off", "gone"}]
  /\ thread \in [Thread -> ThreadRow]
  /\ tasks \in [Thread -> Seq(0 .. MaxEvents)]
  /\ timer \in [Channel -> 0 .. Debounce \union {None}]
  /\ inFlight \subseteq Thread
  /\ run \in [Run -> RunRow]
  /\ crashes \in 0 .. MaxCrashes
  /\ judged \in [Thread -> 0 .. MaxEvents]
  /\ during \in [Thread -> SUBSET (1 .. MaxEvents)]

Init ==
  /\ mode \in [Channel -> {"llm", "passthrough"}]
  /\ thread = [t \in Thread |-> NoThread]
  /\ tasks = [t \in Thread |-> <<>>]
  /\ timer = [c \in Channel |-> None]
  /\ inFlight = {}
  /\ run = [r \in Run |-> NoRun]
  /\ crashes = 0
  /\ judged = [t \in Thread |-> 0]
  /\ during = [t \in Thread |-> {}]

-----------------------------------------------------------------------------
Open(t) == thread[t].status = "open"

Busy(r) == run[r].due # <<>>            \* awaits the verdict on the head of due

Asked(t) == \E r \in Run : Busy(r) /\ Head(run[r].due).id = t

(***************************************************************************)
(* ingest: the open thread of the key takes the event, or a new one does.  *)
(* An event without a key gets a key of its own.                           *)
(***************************************************************************)
append(t, c, k) ==
  \/ /\ Open(t) /\ k # None
     /\ thread[t].channel = c /\ thread[t].key = k
     /\ thread[t].eventSeq < MaxEvents
     /\ thread' = [thread EXCEPT ![t].eventSeq = @ + 1, ![t].quiet = 0]
  \/ /\ thread[t].status = "none"
     /\ k = None \/ \A u \in Thread :
          ~(Open(u) /\ thread[u].channel = c /\ thread[u].key = k)
     /\ thread' = [thread EXCEPT ![t] = [NoThread EXCEPT
          !.status = "open", !.channel = c, !.key = k, !.eventSeq = 1]]

\* Fault: the delay is added to that of the timer that runs already.
ingestProlonging(t, c, k) ==
  /\ mode[c] = "llm"
  /\ append(t, c, k)
  /\ timer' = [timer EXCEPT ![c] = IF @ = None THEN Debounce ELSE @ + Debounce]
  /\ during' = IF Asked(t) THEN [during EXCEPT ![t] = @ \union {thread'[t].eventSeq}]
                           ELSE during
  /\ UNCHANGED <<mode, tasks, inFlight, run, crashes, judged>>

\* append, then scheduleInterpretation: the timer of the channel starts anew.
ingest(t, c, k) ==
  /\ mode[c] = "llm"
  /\ append(t, c, k)
  /\ timer' = [timer EXCEPT ![c] = Debounce]
  /\ during' = IF Asked(t) THEN [during EXCEPT ![t] = @ \union {thread'[t].eventSeq}]
                           ELSE during
  /\ UNCHANGED <<mode, tasks, inFlight, run, crashes, judged>>

-----------------------------------------------------------------------------
(***************************************************************************)
(* runDue.                                                                 *)
(***************************************************************************)

\* dueForInterpretation on the table tab, oldest event first; the order of
\* equal stamps is the database's.
Due(tab, c) ==
  LET ids == { t \in Thread : /\ tab[t].channel = c /\ tab[t].status = "open"
                              /\ tab[t].quiet >= Debounce
                              /\ tab[t].interpretedSeq < tab[t].eventSeq }
  IN  { [i \in DOMAIN s |-> [id |-> s[i], seq |-> tab[s[i]].eventSeq]] :
        s \in { o \in SetToSeqs(ids) :
                \A i, j \in DOMAIN o : i < j => tab[o[i]].quiet >= tab[o[j]].quiet } }

\* Fault: the events are those of the row the query returned.
ProceedFromRow(r, c, rows, tab, busy) ==
  LET rest == SelectSeq(rows, LAMBDA row : row.id \notin busy)
  IN  IF rest = <<>> THEN /\ run' = [run EXCEPT ![r] = NoRun]
                          /\ inFlight' = busy
      ELSE /\ run' = [run EXCEPT ![r] = [channel |-> c, due |-> rest, saw |-> Head(rest).seq]]
           /\ inFlight' = busy \union {Head(rest).id}

\* The for loop up to its next await: threads others are being asked about
\* are passed over, the first other one is marked and its events are read
\* and sent.  The row itself stays as the query returned it.
Proceed(r, c, rows, tab, busy) ==
  LET free == { i \in DOMAIN rows : rows[i].id \notin busy }
  IN  IF free = {} THEN /\ run' = [run EXCEPT ![r] = NoRun]
                        /\ inFlight' = busy
      ELSE \E i \in free :
             /\ \A n \in free : i <= n
             /\ run' = [run EXCEPT ![r] =
                   [channel |-> c, due |-> SubSeq(rows, i, Len(rows)),
                    saw |-> tab[rows[i].id].eventSeq]]
             /\ inFlight' = busy \union {rows[i].id}

runDue(r, c, tab) ==
  /\ ~Busy(r)
  /\ \E rows \in Due(tab, c) : Proceed(r, c, rows, tab, inFlight)

\* The timer's callback; a channel that is no longer interpreted is left.
FireTimer(r, c) ==
  /\ timer[c] = 0
  /\ timer' = [timer EXCEPT ![c] = None]
  /\ IF mode[c] = "llm" THEN runDue(r, c, thread) ELSE UNCHANGED <<run, inFlight>>
  /\ UNCHANGED <<mode, thread, tasks, crashes, judged, during>>

\* Fault: only threads the interpreter has answered for grow old.
ExpiredJudged(c) ==
  [t \in Thread |->
    IF thread[t].channel = c /\ Open(t) /\ thread[t].quiet > Ttl /\ judged[t] > 0
    THEN [thread[t] EXCEPT !.status = "expired"] ELSE thread[t]]

\* expireStale
Expired(c) ==
  [t \in Thread |->
    IF thread[t].channel = c /\ Open(t) /\ thread[t].quiet > Ttl
    THEN [thread[t] EXCEPT !.status = "expired"] ELSE thread[t]]

\* One channel's turn in sweep.
Sweep(r, c) ==
  /\ mode[c] = "llm"
  /\ thread' = Expired(c)
  /\ runDue(r, c, thread')
  /\ UNCHANGED <<mode, tasks, timer, crashes, judged, during>>

-----------------------------------------------------------------------------
(***************************************************************************)
(* The rest of interpretThread, once the interpreter has answered.  The    *)
(* row the run holds may be old, and the thread may have got new events,   *)
(* may have been closed, or may be gone: an UPDATE then changes nothing,   *)
(* and the interpreter was asked about no events at all.                   *)
(***************************************************************************)
InTable(t) == thread[t].status \notin {"none", "purged"}

\* Fault: everything that has arrived by now is called interpreted.
MarkedUpToNow(t, seq) ==
  IF InTable(t) THEN [thread EXCEPT ![t].interpretedSeq = thread[t].eventSeq] ELSE thread

\* markInterpreted and, unless status is "open", close.
Marked(t, seq) ==
  IF InTable(t) THEN [thread EXCEPT ![t].interpretedSeq = seq] ELSE thread

Closed(tab, t, status) ==
  IF InTable(t) THEN [tab EXCEPT ![t].status = status] ELSE tab

\* The loop goes on with the rest of its rows, or ends.
Continue(r, tab) ==
  Proceed(r, run[r].channel, Tail(run[r].due), tab, inFlight \ {Head(run[r].due).id})

\* Fault: after an error the thread is not taken out of inFlight.
FailsLeaking(r) ==
  /\ Busy(r)
  /\ Proceed(r, run[r].channel, Tail(run[r].due), thread, inFlight)
  /\ UNCHANGED <<mode, thread, tasks, timer, crashes, judged, during>>

\* The interpreter throws: nothing is recorded, the next sweep asks again.
Fails(r) ==
  /\ Busy(r)
  /\ Continue(r, thread)
  /\ UNCHANGED <<mode, thread, tasks, timer, crashes, judged, during>>

\* History: a verdict on the thread was based on this many events.
Judge(t, n) ==
  judged' = [judged EXCEPT ![t] = IF n > @ THEN n ELSE @]

\* needs_context and noise.
Waits(r) ==
  LET row == Head(run[r].due)
  IN  /\ Busy(r)
      /\ thread' = Marked(row.id, row.seq)
      /\ Judge(row.id, run[r].saw)
      /\ Continue(r, thread')
      /\ UNCHANGED <<mode, tasks, timer, crashes, during>>

Discards(r) ==
  LET row == Head(run[r].due)
  IN  /\ Busy(r)
      /\ thread' = Closed(Marked(row.id, row.seq), row.id, "discarded")
      /\ Judge(row.id, run[r].saw)
      /\ Continue(r, thread')
      /\ UNCHANGED <<mode, tasks, timer, crashes, during>>

\* fast_pass and complete.  Without the channel's row the INSERT of the task
\* violates its foreign key, and the error ends the whole execution of runDue.
Dispatches(r) ==
  LET row == Head(run[r].due)
      marked == Marked(row.id, row.seq)
  IN  /\ Busy(r)
      /\ Judge(row.id, run[r].saw)
      /\ IF mode[run[r].channel] # "gone"
         THEN /\ tasks' = [tasks EXCEPT ![row.id] = Append(@, run[r].saw)]
              /\ thread' = Closed(marked, row.id, "dispatched")
              /\ Continue(r, thread')
         ELSE /\ thread' = marked
              /\ run' = [run EXCEPT ![r] = NoRun]
              /\ inFlight' = inFlight \ {row.id}
              /\ UNCHANGED tasks
      /\ UNCHANGED <<mode, timer, crashes, during>>

-----------------------------------------------------------------------------
(***************************************************************************)
(* A crash of the control plane: the table stays, timers and executions    *)
(* are gone.  It may hit a run that is dispatching between its writes.     *)
(***************************************************************************)
Down ==
  /\ crashes < MaxCrashes
  /\ crashes' = crashes + 1
  /\ timer' = [c \in Channel |-> None]
  /\ inFlight' = {}
  /\ run' = [r \in Run |-> NoRun]
  /\ UNCHANGED <<mode, during>>

\* Fault: the thread is closed before its task is inserted.
CrashDispatchingClosedFirst(r, inserted) ==
  LET row == Head(run[r].due)
  IN  /\ Busy(r)
      /\ mode[run[r].channel] # "gone"
      /\ thread' = IF inserted THEN Closed(Marked(row.id, row.seq), row.id, "dispatched")
                               ELSE Marked(row.id, row.seq)
      /\ Judge(row.id, run[r].saw)
      /\ UNCHANGED tasks
      /\ Down

CrashDispatching(r, inserted) ==
  LET row == Head(run[r].due)
  IN  /\ Busy(r)
      /\ mode[run[r].channel] # "gone"
      /\ thread' = Marked(row.id, row.seq)
      /\ Judge(row.id, run[r].saw)
      /\ tasks' = IF inserted THEN [tasks EXCEPT ![row.id] = Append(@, run[r].saw)] ELSE tasks
      /\ Down

Crash == Down /\ UNCHANGED <<thread, tasks, judged>>

(***************************************************************************)
(* The admin API: a channel is edited, disabled, registered again, or      *)
(* removed with its records.  Runs that hold the old runtime go on.        *)
(***************************************************************************)
Reconfigure(c, m) ==
  /\ m # mode[c] /\ m # "gone"
  /\ mode' = [mode EXCEPT ![c] = m]
  /\ UNCHANGED <<thread, tasks, timer, inFlight, run, crashes, judged, during>>

RemoveChannel(c) ==
  /\ mode[c] # "gone"
  /\ mode' = [mode EXCEPT ![c] = "gone"]
  /\ LET mine(t) == thread[t].channel = c
     IN  /\ thread' = [t \in Thread |-> IF mine(t) THEN [NoThread EXCEPT !.status = "purged"]
                                                   ELSE thread[t]]
         /\ tasks' = [t \in Thread |-> IF mine(t) THEN <<>> ELSE tasks[t]]
  /\ UNCHANGED <<timer, inFlight, run, crashes, judged, during>>

Tick ==
  /\ thread' = [t \in Thread |-> IF Open(t) /\ thread[t].quiet <= Ttl
                                 THEN [thread[t] EXCEPT !.quiet = @ + 1] ELSE thread[t]]
  /\ timer' = [c \in Channel |-> IF timer[c] \in {None, 0} THEN timer[c] ELSE timer[c] - 1]
  /\ <<thread, timer>>' # <<thread, timer>>
  /\ UNCHANGED <<mode, tasks, inFlight, run, crashes, judged, during>>

-----------------------------------------------------------------------------
Answer(r) == Fails(r) \/ Waits(r) \/ Discards(r) \/ Dispatches(r)

Next ==
  \/ \E t \in Thread, c \in Channel, k \in Key \union {None} : ingest(t, c, k)
  \/ \E r \in Run, c \in Channel : FireTimer(r, c) \/ Sweep(r, c)
  \/ \E r \in Run : Answer(r) \/ \E inserted \in BOOLEAN : CrashDispatching(r, inserted)
  \/ Crash
  \/ \E c \in Channel : RemoveChannel(c) \/ \E m \in {"llm", "passthrough", "off"} : Reconfigure(c, m)
  \/ Tick

Spec == Init /\ [][Next]_vars

\* The interpreter answers or fails (its requests have timeouts), time
\* passes, and every interval sweeps every channel.  The sweep's fairness is
\* strong because a model with few Runs may have none free at times; the
\* program starts another execution at every interval.
Fairness ==
  /\ \A r \in Run : WF_vars(Answer(r))
  /\ \A c \in Channel : SF_vars(\E r \in Run : Sweep(r, c))
  /\ WF_vars(Tick)

LiveSpec == Spec /\ Fairness

-----------------------------------------------------------------------------
(***************************************************************************)
(* Properties.                                                             *)
(***************************************************************************)

(***************************************************************************)
(* inFlight is exactly what is being asked about, and no thread is asked   *)
(* about twice at a time: a thread left in it would never be interpreted   *)
(* again, one missing from it would be interpreted by two runs.            *)
(***************************************************************************)
InFlightIsExact ==
  /\ inFlight = { t \in Thread : Asked(t) }
  /\ \A r, q \in Run :
       Busy(r) /\ Busy(q) /\ Head(run[r].due).id = Head(run[q].due).id => r = q

(***************************************************************************)
(* No event is marked as interpreted that no verdict was based on: what    *)
(* arrives during an interpretation keeps its thread due (the comment on   *)
(* markInterpreted), as long as the thread stays open.                     *)
(***************************************************************************)
NothingMarkedUnseen == \A t \in Thread : thread[t].interpretedSeq <= judged[t]

(***************************************************************************)
(* "dispatched" means that there is a task (context.ts): a crash or a      *)
(* failed INSERT in the middle never leaves a closed thread without one.   *)
(***************************************************************************)
DispatchedHasTask == \A t \in Thread : thread[t].status = "dispatched" => tasks[t] # <<>>

(***************************************************************************)
(* A verdict that closes a thread was based on all its events, but for     *)
(* those that arrived while the interpreter was at work on the thread.     *)
(***************************************************************************)
MissedOnlyDuring ==
  \A t \in Thread : thread[t].status \in {"dispatched", "discarded"}
    => (judged[t] + 1 .. thread[t].eventSeq) \subseteq during[t]

(***************************************************************************)
(* Every thread of a channel that stays interpreted is closed in the end,  *)
(* even if the interpreter always fails, and through crashes.              *)
(***************************************************************************)
ThreadsClose ==
  \A t \in Thread, c \in Channel :
    <>[](mode[c] = "llm") => []<>~(Open(t) /\ thread[t].channel = c)

-----------------------------------------------------------------------------
(***************************************************************************)
(* What the comments and documents say of the program, and the code does   *)
(* not do.                                                                 *)
(***************************************************************************)

\* thread-store.ts:113 and pipeline.ts:40: the timer and the sweep do not
\* judge a thread twice.
NotJudgedTwice == \A t \in Thread : Len(tasks[t]) <= 1

\* thread-store.ts:130: an event that arrives during the interpretation
\* leaves its thread due for another.
NewEventsStayDue ==
  \A t \in Thread : thread[t].status \in {"dispatched", "discarded"}
    => judged[t] = thread[t].eventSeq

\* docs/configuration.md:114: a thread without events for ttlSeconds is
\* closed as expired.
TtlClosesThreads == \A t \in Thread : []<>~Open(t)

=============================================================================
