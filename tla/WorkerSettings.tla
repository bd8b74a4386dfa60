--------------------------- MODULE WorkerSettings ---------------------------
(***************************************************************************)
(* The settings a worker's user changes on its screen                      *)
(* (apps/worker/src/worker-state.ts), the file they are kept in, and the   *)
(* polling loops started and stopped to match them (applyConcurrency and   *)
(* pollLoop of index.ts).                                                  *)
(*                                                                         *)
(* Abstractions: of the three settings concurrency is one; labels and      *)
(* default agent, which take the same path through patch, are the other,   *)
(* "rest".  Writing the file is not atomic: it may fail with the file as   *)
(* it was or cut off, and a crash in the middle cuts it off as well.       *)
(***************************************************************************)
EXTENDS Naturals, Sequences, FiniteSets, SequencesExt

CONSTANTS MaxLoops,   \* largest concurrency taken (32 in the code)
          MaxRunning, \* bound: loops running at the same time
          Rest,       \* values of the other settings
          None        \* undefined

Setting == [concurrency : 1 .. MaxLoops, rest : Rest]
Override == [concurrency : 1 .. MaxLoops \union {None}, rest : Rest \union {None}]
NoOverride == [concurrency |-> None, rest |-> None]
Cut == [concurrency |-> None, rest |-> "cut"]     \* not JSON: read as no override
Loop == [stop : BOOLEAN, busy : BOOLEAN]

ASSUME SettingsAssumption ==
  /\ MaxLoops \in Nat \ {0} /\ MaxRunning \in Nat /\ MaxLoops <= MaxRunning
  /\ Rest # {} /\ None \notin Rest \union Nat
  /\ None \notin Override /\ Cut \notin Override

VARIABLES
  configured, \* the values of the configuration file
  overrides,  \* this.overrides
  disk,       \* what the state file holds, None without one
  loops,      \* the array of that name: may the loop go on, and has it a task
  stopping,   \* SIGTERM or SIGINT was received
  torn        \* a write of the state file has failed since the start (history)

vars == <<configured, overrides, disk, loops, stopping, torn>>

SettingsTypeOK ==
  /\ configured \in Setting
  /\ overrides \in Override
  /\ disk \in Override \union {None, Cut}
  /\ loops \in Seq(Loop) /\ Len(loops) <= MaxRunning
  /\ stopping \in BOOLEAN /\ torn \in BOOLEAN

\* The getter of that name.
concurrency(conf, o) == IF o.concurrency # None THEN o.concurrency ELSE conf.concurrency

-----------------------------------------------------------------------------
\* pollLoop runs up to its first await at once: a new loop is in its first turn,
\* unless the worker is stopping and the loop ends before it.
NewLoop(going) == [stop |-> FALSE, busy |-> going]

\* The loops and as many new ones as are missing to the target.
Grown(ls, target, going) ==
  ls \o [i \in 1 .. (IF Len(ls) < target THEN target - Len(ls) ELSE 0) |-> NewLoop(going)]

\* Fault: one loop too few is told to stop.
applyConcurrencyOffByOne(ls, target, going) ==
  LET grown == Grown(ls, target, going)
  IN  [i \in DOMAIN grown |-> IF i > target + 1 THEN [grown[i] EXCEPT !.stop = TRUE] ELSE grown[i]]

\* Fault: one loop too many is told to stop.
applyConcurrencyOneTooMany(ls, target, going) ==
  LET grown == Grown(ls, target, going)
  IN  [i \in DOMAIN grown |-> IF i >= target THEN [grown[i] EXCEPT !.stop = TRUE] ELSE grown[i]]

\* New loops up to the target; from the target on they are told to stop.  A
\* loop that was told to stop earlier counts as one, and is never told to go on.
applyConcurrency(ls, target, going) ==
  LET grown == Grown(ls, target, going)
  IN  [i \in DOMAIN grown |-> IF i > target THEN [grown[i] EXCEPT !.stop = TRUE] ELSE grown[i]]

\* main: read the state file, whatever it holds, and start the loops.
Boot(conf, file) ==
  LET o == IF file \in {None, Cut} THEN NoOverride ELSE file
  IN  /\ configured' = conf
      /\ overrides' = o
      /\ loops' = applyConcurrency(<<>>, concurrency(conf, o), TRUE)
      /\ stopping' = FALSE
      /\ torn' = FALSE

Init ==
  /\ configured \in Setting
  /\ overrides = NoOverride
  /\ disk = None
  /\ loops = applyConcurrency(<<>>, configured.concurrency, TRUE)
  /\ stopping = FALSE
  /\ torn = FALSE

-----------------------------------------------------------------------------
\* patch: an override equal to the configured value is no override, and the
\* last one to go takes the file with it.
Patched(field, value) ==
  [overrides EXCEPT ![field] = IF value = configured[field] THEN None ELSE value]

\* Fault: the file is left when the last override goes.
WrittenLeavingFile(o) == IF o = NoOverride THEN disk ELSE o

\* What the file is to hold.
Written(o) == IF o = NoOverride THEN None ELSE o

\* The new overrides are in memory before the file is written; if writing
\* throws, the route answers 400 and does not come to applyConcurrency.
Save(o) == overrides' = o /\ disk' = Written(o) /\ torn' = torn

SaveFails(o) ==
  /\ Written(o) # None \/ disk # None
  /\ overrides' = o
  /\ disk' \in {disk} \union (IF Written(o) = None THEN {} ELSE {Cut})
  /\ torn' = TRUE

\* What follows a successful write: the loops are adjusted.
Adjusted ==
  /\ loops' = applyConcurrency(loops, concurrency(configured, overrides'), ~stopping)
  /\ Len(loops') <= MaxRunning

\* The process ends with its last loop; until then its routes answer.
Up == loops # <<>>

\* POST /ui/concurrency
SetConcurrency(n) ==
  LET o == Patched("concurrency", n)
  IN  /\ Up
      /\ n \in 1 .. MaxLoops
      /\ \/ Save(o) /\ Adjusted
         \/ SaveFails(o) /\ UNCHANGED loops
      /\ UNCHANGED <<configured, stopping>>

\* POST /ui/labels, /ui/default-agent: read at the next claim.
SetRest(v) ==
  /\ Up
  /\ \/ Save(Patched("rest", v))
     \/ SaveFails(Patched("rest", v))
  /\ UNCHANGED <<configured, loops, stopping>>

\* POST /ui/labels with reset
Reset ==
  /\ Up
  /\ \/ Save(NoOverride) /\ Adjusted
     \/ SaveFails(NoOverride) /\ UNCHANGED loops
  /\ UNCHANGED <<configured, stopping>>

\* pollLoop looks at both flags before each claim, never in between.
Turn(i) ==
  /\ ~loops[i].busy
  /\ loops' = IF stopping \/ loops[i].stop THEN RemoveAt(loops, i)
                                           ELSE [loops EXCEPT ![i].busy = TRUE]
  /\ UNCHANGED <<configured, overrides, disk, stopping, torn>>

Done(i) ==
  /\ loops[i].busy
  /\ loops' = [loops EXCEPT ![i].busy = FALSE]
  /\ UNCHANGED <<configured, overrides, disk, stopping, torn>>

Signal ==
  /\ Up
  /\ stopping' = TRUE
  /\ UNCHANGED <<configured, overrides, disk, loops, torn>>

\* The process has ended after a signal, or crashes (perhaps while it writes
\* the file), and is started again; the configuration may have been edited.
Restart(conf) ==
  \/ Boot(conf, disk) /\ UNCHANGED disk
  \/ Up /\ disk' = Cut /\ Boot(conf, Cut)

Next ==
  \/ \E n \in 0 .. MaxLoops + 1 : SetConcurrency(n)
  \/ \E v \in Rest : SetRest(v)
  \/ Reset
  \/ \E i \in DOMAIN loops : Turn(i)
  \/ \E i \in DOMAIN loops : Done(i)
  \/ Signal
  \/ \E conf \in Setting : Restart(conf)

Spec == Init /\ [][Next]_vars

-----------------------------------------------------------------------------
(***************************************************************************)
(* Properties.                                                             *)
(***************************************************************************)
Lasting == { i \in DOMAIN loops : ~loops[i].stop }

(***************************************************************************)
(* However often the number of loops is changed, and whichever of them     *)
(* leave in between, one is always left to go on: the process, which ends  *)
(* when it has no loop, never ends itself by a change of its settings.     *)
(***************************************************************************)
NeverRunsDry == ~stopping => Lasting # {}

(***************************************************************************)
(* No more loops go on than the user allows, once those told to stop have  *)
(* finished, even if they leave in any order between two changes.          *)
(***************************************************************************)
NoSurplus == ~torn => Cardinality(Lasting) <= concurrency(configured, overrides)

(***************************************************************************)
(* A restart brings back what the screen showed: as long as every write    *)
(* succeeded, memory and file say the same.                                *)
(***************************************************************************)
DiskMirrorsMemory ==
  ~torn => IF disk \in {None, Cut} THEN overrides = NoOverride ELSE disk = overrides

\* docs/api.md:461 and worker-state.ts:75: a higher number takes effect at
\* once.  Here only: when no loop is on its way out any more.
RaiseTakesEffect ==
  ~torn /\ ~stopping /\ Lasting = DOMAIN loops
    => Len(loops) >= concurrency(configured, overrides)

=============================================================================
