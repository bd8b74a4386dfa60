--------------------------- MODULE Pipeline_proofs ---------------------------
(***************************************************************************)
(* Proofs about Pipeline, for any channels, keys and executions of runDue, *)
(* any finite set of threads and any bounds.                               *)
(*                                                                         *)
(* InFlightIsExact is inductive by itself.  What verdicts may do to the    *)
(* table needs to know what the executions hold in their hands while they  *)
(* wait: rows that may be old (RowsHold), and what the interpreter was     *)
(* sent (SawHolds).                                                        *)
(***************************************************************************)
EXTENDS Pipeline, SequenceTheorems, FiniteSetTheorems, TLAPS

\* A row read some time ago, against the table tab: a thread gets more events
\* but never fewer, unless it is gone.
RowHolds(row, tab) ==
  /\ tab[row.id].status # "none"
  /\ tab[row.id].status # "purged" => row.seq <= tab[row.id].eventSeq

RowsHold ==
  \A r \in Run : \A i \in DOMAIN run[r].due : RowHolds(run[r].due[i], thread)

\* What the interpreter was sent covers the row, and what it does not cover
\* has arrived since.
SawHolds ==
  \A r \in Run : Busy(r) /\ InTable(Head(run[r].due).id) =>
    LET row == Head(run[r].due)
    IN  /\ row.seq <= run[r].saw
        /\ (run[r].saw + 1 .. thread[row.id].eventSeq) \subseteq during[row.id]

-----------------------------------------------------------------------------
(***************************************************************************)
(* Due and Proceed.                                                        *)
(***************************************************************************)
LEMMA DueRows ==
  ASSUME NEW tab \in [Thread -> ThreadRow], NEW c, NEW rows \in Due(tab, c)
  PROVE  /\ rows \in Seq(DueRow)
         /\ \A i \in DOMAIN rows : RowHolds(rows[i], tab)
<1> DEFINE ids == { t \in Thread : /\ tab[t].channel = c /\ tab[t].status = "open"
                                   /\ tab[t].quiet >= Debounce
                                   /\ tab[t].interpretedSeq < tab[t].eventSeq }
           n == Cardinality(ids)
<1>1. n \in Nat
  BY PipelineAssumption, FS_Subset, FS_CardinalityType
<1>2. PICK s \in [1 .. n -> ids] :
        rows = [i \in DOMAIN s |-> [id |-> s[i], seq |-> tab[s[i]].eventSeq]]
  BY DEF Due, SetToSeqs
<1>3. DOMAIN rows = 1 .. n /\ \A i \in 1 .. n : rows[i] = [id |-> s[i], seq |-> tab[s[i]].eventSeq]
  BY <1>2
<1>4. ASSUME NEW i \in 1 .. n
      PROVE  /\ s[i] \in Thread /\ tab[s[i]].status = "open"
             /\ tab[s[i]].eventSeq \in 1 .. MaxEvents
  BY PipelineAssumption DEF ThreadRow
<1>5. \A i \in 1 .. n : rows[i] \in DueRow
  BY <1>3, <1>4 DEF DueRow
<1>6. rows \in [1 .. n -> DueRow]
  BY <1>2, <1>3, <1>5
<1>7. rows \in Seq(DueRow)
  <2> HIDE DEF n
  <2>1. rows \in UNION {[1 .. k -> DueRow] : k \in Nat} BY <1>1, <1>6
  <2> QED BY <2>1, SeqDef
<1>8. \A i \in 1 .. n : RowHolds(rows[i], tab)
  BY <1>3, <1>4, PipelineAssumption DEF RowHolds
<1> QED
  BY <1>3, <1>7, <1>8

LEMMA NoRunIsRun == NoRun \in RunRow /\ NoRun.due = <<>>
BY EmptySeq, PipelineAssumption DEF NoRun, RunRow

\* A free row is taken, or none is left.
TakesRow(r, rows, tab, busy) ==
  \/ run'[r] = NoRun /\ inFlight' = busy
  \/ \E i \in DOMAIN rows :
       /\ rows[i] \in DueRow /\ rows[i].id \notin busy
       /\ run'[r].due # <<>> /\ Head(run'[r].due) = rows[i]
       /\ run'[r].saw = tab[rows[i].id].eventSeq
       /\ inFlight' = busy \union {rows[i].id}

\* The rest of the rows goes on being what it was, and the first of them is
\* none of those others are being asked about.
LEMMA ProceedRows ==
  ASSUME NEW r \in Run, NEW c \in Channel \union {None}, NEW rows \in Seq(DueRow),
         NEW tab, tab \in [Thread -> ThreadRow], NEW busy, busy \in SUBSET Thread,
         run \in [Run -> RunRow], Proceed(r, c, rows, tab, busy)
  PROVE  /\ run' \in [Run -> RunRow] /\ inFlight' \in SUBSET Thread
         /\ \A q \in Run \ {r} : run'[q] = run[q]
         /\ \A j \in DOMAIN run'[r].due : \E i \in DOMAIN rows : run'[r].due[j] = rows[i]
         /\ TakesRow(r, rows, tab, busy)
<1> DEFINE free == { i \in DOMAIN rows : rows[i].id \notin busy }
<1>1. CASE free = {}
  <2>1. run' = [run EXCEPT ![r] = NoRun] /\ inFlight' = busy
    BY <1>1 DEF Proceed
  <2> QED
    BY <2>1, NoRunIsRun DEF TakesRow
<1>2. CASE free # {}
  <2>1. PICK i \in free :
          /\ run' = [run EXCEPT ![r] =
                [channel |-> c, due |-> SubSeq(rows, i, Len(rows)), saw |-> tab[rows[i].id].eventSeq]]
          /\ inFlight' = busy \union {rows[i].id}
    BY <1>2 DEF Proceed
  <2>2. /\ Len(rows) \in Nat /\ DOMAIN rows = 1 .. Len(rows) /\ i \in 1 .. Len(rows)
        /\ \A k \in 1 .. Len(rows) : rows[k] \in DueRow
    BY LenProperties, ElementOfSeq
  <2> DEFINE rest == SubSeq(rows, i, Len(rows))
  <2>3. /\ rest \in Seq(DueRow) /\ Len(rest) = Len(rows) - i + 1
        /\ \A k \in 1 .. Len(rows) - i + 1 : rest[k] = rows[i + k - 1]
    BY <2>2, SubSeqProperties
  <2>4. Head(rest) = rows[i]
    BY <2>2, HeadTailOfSubSeq
  <2>5. rest # <<>> /\ DOMAIN rest = 1 .. Len(rest)
    BY <2>2, <2>3, LenProperties
  <2>6. rows[i].id \in Thread /\ tab[rows[i].id].eventSeq \in 0 .. MaxEvents
    BY <2>2 DEF DueRow, ThreadRow
  <2>7. [channel |-> c, due |-> rest, saw |-> tab[rows[i].id].eventSeq] \in RunRow
    BY <2>3, <2>6 DEF RunRow
  <2>8. /\ run' \in [Run -> RunRow] /\ \A q \in Run \ {r} : run'[q] = run[q]
        /\ run'[r].due = rest /\ run'[r].saw = tab[rows[i].id].eventSeq
    BY <2>1, <2>7
  <2>9. \A j \in DOMAIN rest : \E k \in DOMAIN rows : rest[j] = rows[k]
    BY <2>2, <2>3, <2>5
  <2> QED
    BY <2>1, <2>2, <2>4, <2>5, <2>6, <2>8, <2>9 DEF TakesRow
<1> QED
  BY <1>1, <1>2

-----------------------------------------------------------------------------
(***************************************************************************)
(* What a step does to the table.                                          *)
(***************************************************************************)

\* The row at the head of a run that awaits a verdict.
LEMMA HeadOfRun ==
  ASSUME PipelineTypeOK, NEW r \in Run, Busy(r)
  PROVE  /\ Head(run[r].due) \in DueRow
         /\ Head(run[r].due).id \in Thread /\ Head(run[r].due).seq \in 1 .. MaxEvents
         /\ Tail(run[r].due) \in Seq(DueRow)
         /\ \A i \in DOMAIN Tail(run[r].due) :
              i + 1 \in DOMAIN run[r].due /\ Tail(run[r].due)[i] = run[r].due[i + 1]
         /\ 1 \in DOMAIN run[r].due /\ Head(run[r].due) = run[r].due[1]
         /\ run[r].channel \in Channel \union {None} /\ run[r].saw \in 0 .. MaxEvents
<1>1. run[r].due \in Seq(DueRow) /\ run[r].due # <<>>
  BY DEF PipelineTypeOK, RunRow, Busy
<1>2. /\ Len(run[r].due) \in Nat \ {0} /\ DOMAIN run[r].due = 1 .. Len(run[r].due)
  BY <1>1, EmptySeq, LenProperties
<1>3. /\ Head(run[r].due) \in DueRow /\ Tail(run[r].due) \in Seq(DueRow)
      /\ Len(Tail(run[r].due)) = Len(run[r].due) - 1
      /\ \A i \in 1 .. Len(Tail(run[r].due)) : Tail(run[r].due)[i] = run[r].due[i + 1]
  BY <1>1, HeadTailProperties
<1>4. DOMAIN Tail(run[r].due) = 1 .. Len(run[r].due) - 1
  BY <1>3, LenProperties
<1>5. Head(run[r].due) = run[r].due[1]
  BY <1>1, <1>2
<1>6. \A i \in DOMAIN Tail(run[r].due) :
        i + 1 \in DOMAIN run[r].due /\ Tail(run[r].due)[i] = run[r].due[i + 1]
  BY <1>2, <1>3, <1>4
<1>7. Head(run[r].due).id \in Thread /\ Head(run[r].due).seq \in 1 .. MaxEvents
  BY <1>3 DEF DueRow
<1>8. run[r].channel \in Channel \union {None} /\ run[r].saw \in 0 .. MaxEvents
  BY DEF PipelineTypeOK, RunRow
<1> QED
  BY <1>2, <1>3, <1>5, <1>6, <1>7, <1>8

\* A thread that was begun stays begun, one that is gone stays gone, and none
\* loses events.
Grows(t) ==
  /\ thread[t].status # "none" => thread'[t].status # "none"
  /\ thread[t].status # "none" /\ thread'[t].status # "purged"
       => thread[t].status # "purged" /\ thread[t].eventSeq <= thread'[t].eventSeq

LEMMA RowsKeep ==
  ASSUME PipelineTypeOK, thread' \in [Thread -> ThreadRow], NEW row \in DueRow,
         Grows(row.id), RowHolds(row, thread)
  PROVE  RowHolds(row, thread')
<1>1. row.id \in Thread /\ row.seq \in Int BY PipelineAssumption DEF DueRow
<1>2. thread[row.id].eventSeq \in Int /\ thread'[row.id].eventSeq \in Int
  BY <1>1, PipelineAssumption DEF PipelineTypeOK, ThreadRow
<1> QED BY <1>1, <1>2 DEF Grows, RowHolds

\* One row of the table, rewritten.
LEMMA OneRow ==
  ASSUME PipelineTypeOK, NEW t \in Thread, NEW new \in ThreadRow,
         thread' = [thread EXCEPT ![t] = new],
         thread[t].status # "none" => new.status # "none",
         thread[t].status # "none" /\ new.status # "purged"
           => thread[t].status # "purged" /\ thread[t].eventSeq <= new.eventSeq
  PROVE  /\ thread' \in [Thread -> ThreadRow]
         /\ \A u \in Thread : Grows(u)
<1>1. \A u \in Thread : thread'[u] = IF u = t THEN new ELSE thread[u]
  BY DEF PipelineTypeOK
<1>2. \A u \in Thread : thread[u].eventSeq <= thread[u].eventSeq
  BY PipelineAssumption DEF PipelineTypeOK, ThreadRow
<1> QED BY <1>1, <1>2 DEF Grows, PipelineTypeOK

\* Every row rewritten, or left as it was.
LEMMA AllRows ==
  ASSUME PipelineTypeOK, thread' \in [Thread -> ThreadRow],
         \A t \in Thread :
           \/ thread'[t].status = "purged"
           \/ /\ thread'[t].eventSeq = thread[t].eventSeq
              /\ thread[t].status \in {"none", "purged"} => thread'[t].status = thread[t].status
              /\ thread'[t].status = "none" => thread[t].status = "none"
  PROVE  \A t \in Thread : Grows(t)
<1>1. \A t \in Thread : thread[t].eventSeq <= thread[t].eventSeq
  BY PipelineAssumption DEF PipelineTypeOK, ThreadRow
<1> QED BY <1>1 DEF Grows

\* What a verdict writes.
LEMMA MarkedRow ==
  ASSUME PipelineTypeOK, NEW t \in Thread, NEW seq \in 1 .. MaxEvents,
         NEW marked, marked = Marked(t, seq)
  PROVE  /\ marked \in [Thread -> ThreadRow]
         /\ \A u \in Thread :
              /\ marked[u].status = thread[u].status /\ marked[u].eventSeq = thread[u].eventSeq
              /\ marked[u].interpretedSeq = IF u = t /\ InTable(t) THEN seq ELSE thread[u].interpretedSeq
<1>1. \A u \in Thread : thread[u] \in ThreadRow
  BY DEF PipelineTypeOK
<1>2. CASE InTable(t)
  <2> DEFINE new == [thread[t] EXCEPT !.interpretedSeq = seq]
  <2>1. /\ new \in ThreadRow /\ new.status = thread[t].status
        /\ new.eventSeq = thread[t].eventSeq /\ new.interpretedSeq = seq
    BY <1>1, PipelineAssumption DEF ThreadRow
  <2> HIDE DEF new
  <2>2. marked = [thread EXCEPT ![t] = new]
    BY <1>2 DEF Marked, new
  <2> QED BY <1>1, <1>2, <2>1, <2>2 DEF PipelineTypeOK
<1>3. CASE ~InTable(t)
  BY <1>1, <1>3 DEF Marked, PipelineTypeOK
<1> QED BY <1>2, <1>3

LEMMA ClosedRow ==
  ASSUME NEW tab, tab \in [Thread -> ThreadRow], NEW t \in Thread,
         NEW status, status \in {"dispatched", "discarded"}
  PROVE  /\ Closed(tab, t, status) \in [Thread -> ThreadRow]
         /\ \A u \in Thread :
              /\ Closed(tab, t, status)[u].eventSeq = tab[u].eventSeq
              /\ Closed(tab, t, status)[u].interpretedSeq = tab[u].interpretedSeq
              /\ Closed(tab, t, status)[u].status = IF u = t /\ InTable(t) THEN status ELSE tab[u].status
<1> DEFINE closed == Closed(tab, t, status)
<1>1. CASE InTable(t)
  <2> DEFINE new == [tab[t] EXCEPT !.status = status]
  <2>1. /\ new \in ThreadRow /\ new.status = status
        /\ new.eventSeq = tab[t].eventSeq /\ new.interpretedSeq = tab[t].interpretedSeq
    BY DEF ThreadRow
  <2> HIDE DEF new
  <2>2. closed = [tab EXCEPT ![t] = new]
    BY <1>1 DEF Closed, new
  <2> QED BY <1>1, <2>1, <2>2
<1>2. CASE ~InTable(t)
  BY <1>2 DEF Closed
<1> QED BY <1>1, <1>2

-----------------------------------------------------------------------------
(***************************************************************************)
(* Every step, seen from one thread, and seen from the executions.         *)
(***************************************************************************)

\* No verdict on t is written.  A row that was closed stays as it was.
Untouched(t) ==
  /\ judged'[t] >= judged[t] /\ during[t] \subseteq during'[t]
  /\ thread'[t].interpretedSeq \in {0, thread[t].interpretedSeq}
  /\ thread'[t].status \in {"dispatched", "discarded"}
       => /\ thread'[t].status = thread[t].status /\ thread'[t].eventSeq = thread[t].eventSeq
          /\ tasks[t] # <<>> => tasks'[t] # <<>>

\* Run r's verdict on t, in full or cut off by a crash.
Verdict(r, t) ==
  /\ Busy(r) /\ t = Head(run[r].due).id /\ InTable(t)
  /\ judged'[t] >= judged[t] /\ judged'[t] >= run[r].saw /\ during' = during
  /\ thread'[t].interpretedSeq = Head(run[r].due).seq
  /\ thread'[t].eventSeq = thread[t].eventSeq
  /\ tasks[t] # <<>> => tasks'[t] # <<>>
  /\ \/ thread'[t].status \in {"discarded", thread[t].status}
     \/ thread'[t].status = "dispatched" /\ tasks'[t] # <<>>

\* What arrives while t is being asked about is remembered.
Noticed(t) ==
  Asked(t) => (thread[t].eventSeq + 1 .. thread'[t].eventSeq) \subseteq during'[t]

TableMoves ==
  /\ thread' \in [Thread -> ThreadRow] /\ tasks' \in [Thread -> Seq(0 .. MaxEvents)]
  /\ judged' \in [Thread -> 0 .. MaxEvents]
  /\ during' \in [Thread -> SUBSET (1 .. MaxEvents)]
  /\ \A t \in Thread : Grows(t) /\ Noticed(t) /\ (Untouched(t) \/ \E r \in Run : Verdict(r, t))

\* The threads the executions other than r are asking about.
Others(r) == IF Busy(r) THEN inFlight \ {Head(run[r].due).id} ELSE inFlight

\* Execution r goes on to a row that is nobody else's, or ends.
RunMoves(r) ==
  /\ run' \in [Run -> RunRow] /\ \A q \in Run \ {r} : run'[q] = run[q]
  /\ \A j \in DOMAIN run'[r].due : RowHolds(run'[r].due[j], thread')
  /\ \/ run'[r] = NoRun /\ inFlight' = Others(r)
     \/ \E row \in DueRow :
          /\ row.id \notin Others(r) /\ inFlight' = Others(r) \union {row.id}
          /\ run'[r].due # <<>> /\ Head(run'[r].due) = row
          /\ run'[r].saw = thread'[row.id].eventSeq /\ RowHolds(row, thread')

RunsMove ==
  \/ run' = run /\ inFlight' = inFlight
  \/ run' = [r \in Run |-> NoRun] /\ inFlight' = {}
  \/ \E r \in Run : RunMoves(r) /\ UNCHANGED during

LEMMA NothingNew ==
  ASSUME PipelineTypeOK, NEW t \in Thread, thread'[t].eventSeq \in {0, thread[t].eventSeq}
  PROVE  Noticed(t)
<1>1. thread[t].eventSeq \in Nat
  BY PipelineAssumption DEF PipelineTypeOK, ThreadRow
<1>2. (thread[t].eventSeq + 1 .. thread'[t].eventSeq) = {}
  BY <1>1
<1> QED BY <1>2 DEF Noticed

\* What the untouched columns contribute to TableMoves.
LEMMA SameHistory ==
  ASSUME PipelineTypeOK
  PROVE  /\ \A t \in Thread : judged[t] >= judged[t] /\ thread[t].eventSeq <= thread[t].eventSeq
         /\ thread' = thread => thread' \in [Thread -> ThreadRow] /\ \A t \in Thread : Grows(t)
<1>1. \A t \in Thread : judged[t] \in Int /\ thread[t].eventSeq \in Int
  BY PipelineAssumption DEF PipelineTypeOK, ThreadRow
<1> QED BY <1>1 DEF PipelineTypeOK, Grows

LEMMA JudgeRaises ==
  ASSUME PipelineTypeOK, NEW t \in Thread, NEW n \in 0 .. MaxEvents, Judge(t, n)
  PROVE  /\ judged' \in [Thread -> 0 .. MaxEvents] /\ judged'[t] >= n
         /\ \A u \in Thread : judged'[u] >= judged[u]
<1>1. \A u \in Thread : judged[u] \in Int /\ judged[u] \in 0 .. MaxEvents
  BY PipelineAssumption DEF PipelineTypeOK
<1>2. \A u \in Thread : judged'[u] = IF u = t /\ n > judged[u] THEN n ELSE judged[u]
  BY DEF Judge, PipelineTypeOK
<1>3. n \in Int
  BY PipelineAssumption
<1>4. judged' \in [Thread -> 0 .. MaxEvents]
  BY <1>1 DEF Judge, PipelineTypeOK
<1> QED BY <1>1, <1>2, <1>3, <1>4

LEMMA AppendedTask ==
  ASSUME PipelineTypeOK, NEW t \in Thread, NEW n \in 0 .. MaxEvents,
         tasks' = [tasks EXCEPT ![t] = Append(@, n)]
  PROVE  /\ tasks' \in [Thread -> Seq(0 .. MaxEvents)] /\ tasks'[t] # <<>>
         /\ \A u \in Thread : tasks[u] # <<>> => tasks'[u] # <<>>
<1>1. tasks[t] \in Seq(0 .. MaxEvents)
  BY DEF PipelineTypeOK
<1>2. Append(tasks[t], n) \in Seq(0 .. MaxEvents) /\ Append(tasks[t], n) # <<>>
  BY <1>1, AppendProperties
<1> QED BY <1>2 DEF PipelineTypeOK

\* The three ways in which a verdict of run r ends in the table.
VerdictWrites(r) ==
  LET id == Head(run[r].due).id
      marked == Marked(id, Head(run[r].due).seq)
      inserted == tasks' = [tasks EXCEPT ![id] = Append(@, run[r].saw)]
  IN  /\ UNCHANGED tasks \/ inserted
      /\ \/ thread' = marked
         \/ thread' = Closed(marked, id, "discarded")
         \/ thread' = Closed(marked, id, "dispatched") /\ inserted

LEMMA VerdictMoves ==
  ASSUME PipelineTypeOK, NEW r \in Run, Busy(r), UNCHANGED during,
         Judge(Head(run[r].due).id, run[r].saw), VerdictWrites(r)
  PROVE  TableMoves
<1> DEFINE row == Head(run[r].due)
           id == row.id
<1>1. id \in Thread /\ row.seq \in 1 .. MaxEvents /\ run[r].saw \in 0 .. MaxEvents
  BY HeadOfRun
<1> HIDE DEF id
<1>2. /\ judged' \in [Thread -> 0 .. MaxEvents] /\ judged'[id] >= run[r].saw
      /\ \A u \in Thread : judged'[u] >= judged[u]
  BY <1>1, JudgeRaises DEF id
<1>3. /\ tasks' \in [Thread -> Seq(0 .. MaxEvents)]
      /\ \A u \in Thread : tasks[u] # <<>> => tasks'[u] # <<>>
  <2>1. CASE UNCHANGED tasks BY <2>1 DEF PipelineTypeOK
  <2>2. CASE tasks' = [tasks EXCEPT ![id] = Append(@, run[r].saw)]
    BY <1>1, <2>2, AppendedTask
  <2> QED BY <2>1, <2>2 DEF id, VerdictWrites
<1>4. /\ thread' \in [Thread -> ThreadRow]
      /\ \A u \in Thread :
           /\ thread'[u].eventSeq = thread[u].eventSeq
           /\ thread'[u].interpretedSeq = IF u = id /\ InTable(id) THEN row.seq ELSE thread[u].interpretedSeq
           /\ ~(u = id /\ InTable(id)) => thread'[u].status = thread[u].status
      /\ InTable(id) => \/ thread'[id].status \in {"discarded", thread[id].status}
                        \/ thread'[id].status = "dispatched" /\ tasks'[id] # <<>>
  <2> DEFINE marked == Marked(id, row.seq)
             discarded == Closed(marked, id, "discarded")
             dispatched == Closed(marked, id, "dispatched")
  <2>a. /\ marked \in [Thread -> ThreadRow]
        /\ \A u \in Thread :
             /\ marked[u].status = thread[u].status /\ marked[u].eventSeq = thread[u].eventSeq
             /\ marked[u].interpretedSeq = IF u = id /\ InTable(id) THEN row.seq ELSE thread[u].interpretedSeq
    BY <1>1, MarkedRow
  <2>b. /\ "discarded" \in {"dispatched", "discarded"}
        /\ "dispatched" \in {"dispatched", "discarded"}
    OBVIOUS
  <2> HIDE DEF marked
  <2>c. /\ discarded \in [Thread -> ThreadRow]
        /\ \A u \in Thread :
             /\ discarded[u].eventSeq = marked[u].eventSeq
             /\ discarded[u].interpretedSeq = marked[u].interpretedSeq
             /\ discarded[u].status = IF u = id /\ InTable(id) THEN "discarded" ELSE marked[u].status
    BY <1>1, <2>a, <2>b, ClosedRow
  <2>d. /\ dispatched \in [Thread -> ThreadRow]
        /\ \A u \in Thread :
             /\ dispatched[u].eventSeq = marked[u].eventSeq
             /\ dispatched[u].interpretedSeq = marked[u].interpretedSeq
             /\ dispatched[u].status = IF u = id /\ InTable(id) THEN "dispatched" ELSE marked[u].status
    BY <1>1, <2>a, <2>b, ClosedRow
  <2> HIDE DEF discarded, dispatched
  <2>1. CASE thread' = marked
    BY <1>1, <2>1, <2>a
  <2>2. CASE thread' = discarded
    BY <1>1, <2>2, <2>a, <2>c
  <2>3. CASE /\ thread' = dispatched
             /\ tasks' = [tasks EXCEPT ![id] = Append(@, run[r].saw)]
    <3>1. tasks'[id] # <<>> BY <1>1, <2>3, AppendedTask
    <3> QED BY <1>1, <2>3, <3>1, <2>a, <2>d
  <2> QED BY <2>1, <2>2, <2>3 DEF id, marked, discarded, dispatched, VerdictWrites
<1>5. \A u \in Thread : thread[u].eventSeq <= thread[u].eventSeq
  BY SameHistory
<1>6. ASSUME NEW u \in Thread PROVE Grows(u)
  <2>1. CASE u = id /\ InTable(id) BY <1>4, <1>5, <2>1 DEF Grows, InTable
  <2>2. CASE ~(u = id /\ InTable(id)) BY <1>4, <1>5, <2>2 DEF Grows
  <2> QED BY <2>1, <2>2
<1>7. ASSUME NEW u \in Thread PROVE Untouched(u) \/ Verdict(r, u)
  <2>1. CASE u = id /\ InTable(id)
    BY <1>2, <1>3, <1>4, <2>1 DEF Verdict, id
  <2>2. CASE ~(u = id /\ InTable(id))
    BY <1>2, <1>3, <1>4, <2>2 DEF Untouched
  <2> QED BY <2>1, <2>2
<1>8. during' \in [Thread -> SUBSET (1 .. MaxEvents)]
  BY DEF PipelineTypeOK
<1>9. \A u \in Thread : Noticed(u)
  BY <1>4, NothingNew
<1> QED BY <1>2, <1>3, <1>4, <1>6, <1>7, <1>8, <1>9 DEF TableMoves

LEMMA Onward ==
  ASSUME PipelineTypeOK, NEW r \in Run, NEW c \in Channel \union {None},
         NEW rows \in Seq(DueRow), thread' \in [Thread -> ThreadRow],
         \A i \in DOMAIN rows : RowHolds(rows[i], thread'),
         Proceed(r, c, rows, thread', Others(r))
  PROVE  RunMoves(r)
<1>1. Others(r) \in SUBSET Thread /\ run \in [Run -> RunRow]
  BY DEF Others, PipelineTypeOK
<1>2. /\ run' \in [Run -> RunRow] /\ \A q \in Run \ {r} : run'[q] = run[q]
      /\ \A j \in DOMAIN run'[r].due : \E i \in DOMAIN rows : run'[r].due[j] = rows[i]
      /\ TakesRow(r, rows, thread', Others(r))
  <2> DEFINE tab == thread'
             busy == Others(r)
  <2> HIDE DEF tab, busy
  <2>1. tab \in [Thread -> ThreadRow] /\ busy \in SUBSET Thread /\ Proceed(r, c, rows, tab, busy)
    BY <1>1 DEF tab, busy
  <2>2. run' \in [Run -> RunRow]
    BY <1>1, <2>1, ProceedRows
  <2>3. \A q \in Run \ {r} : run'[q] = run[q]
    BY <1>1, <2>1, ProceedRows
  <2>4. \A j \in DOMAIN run'[r].due : \E i \in DOMAIN rows : run'[r].due[j] = rows[i]
    BY <1>1, <2>1, ProceedRows
  <2>5. TakesRow(r, rows, tab, busy)
    BY <1>1, <2>1, ProceedRows
  <2> QED BY <2>2, <2>3, <2>4, <2>5 DEF tab, busy
<1>3. \A j \in DOMAIN run'[r].due : RowHolds(run'[r].due[j], thread')
  BY <1>2
<1>4. CASE run'[r] = NoRun /\ inFlight' = Others(r)
  BY <1>2, <1>3, <1>4 DEF RunMoves
<1>5. CASE ~(run'[r] = NoRun /\ inFlight' = Others(r))
  <2>1. PICK i \in DOMAIN rows :
          /\ rows[i] \in DueRow /\ rows[i].id \notin Others(r)
          /\ run'[r].due # <<>> /\ Head(run'[r].due) = rows[i]
          /\ run'[r].saw = thread'[rows[i].id].eventSeq
          /\ inFlight' = Others(r) \union {rows[i].id}
    BY <1>2, <1>5 DEF TakesRow
  <2>2. RowHolds(rows[i], thread')
    OBVIOUS
  <2> QED BY <1>2, <1>3, <2>1, <2>2 DEF RunMoves
<1> QED
  BY <1>4, <1>5

LEMMA Begins ==
  ASSUME PipelineTypeOK, NEW r \in Run, NEW c \in Channel,
         thread' \in [Thread -> ThreadRow], runDue(r, c, thread')
  PROVE  RunMoves(r)
<1>1. PICK rows \in Due(thread', c) : Proceed(r, c, rows, thread', inFlight)
  BY DEF runDue
<1>2. rows \in Seq(DueRow) /\ \A i \in DOMAIN rows : RowHolds(rows[i], thread')
  <2> DEFINE tab == thread'
  <2> HIDE DEF tab
  <2>1. tab \in [Thread -> ThreadRow] /\ rows \in Due(tab, c)
    BY DEF tab
  <2>2. rows \in Seq(DueRow) /\ \A i \in DOMAIN rows : RowHolds(rows[i], tab)
    BY <2>1, DueRows
  <2> QED BY <2>2 DEF tab
<1>3. Others(r) = inFlight
  BY DEF runDue, Others
<1> QED
  BY <1>1, <1>2, <1>3, Onward

LEMMA Continues ==
  ASSUME PipelineTypeOK, RowsHold, NEW r \in Run, Busy(r),
         thread' \in [Thread -> ThreadRow], \A t \in Thread : Grows(t), Continue(r, thread')
  PROVE  RunMoves(r)
<1> DEFINE rows == Tail(run[r].due)
<1>1. /\ rows \in Seq(DueRow) /\ run[r].channel \in Channel \union {None}
      /\ \A i \in DOMAIN rows : i + 1 \in DOMAIN run[r].due /\ rows[i] = run[r].due[i + 1]
  BY HeadOfRun
<1>2. ASSUME NEW i \in DOMAIN rows PROVE RowHolds(rows[i], thread')
  <2>1. rows[i] \in DueRow /\ RowHolds(rows[i], thread)
    BY <1>1, ElementOfSeq, LenProperties DEF RowsHold
  <2>2. rows[i].id \in Thread
    BY <2>1 DEF DueRow
  <2> QED BY <2>1, <2>2, RowsKeep
<1>3. Proceed(r, run[r].channel, rows, thread', Others(r))
  BY DEF Continue, Others
<1> QED
  BY <1>1, <1>2, <1>3, Onward

-----------------------------------------------------------------------------
(***************************************************************************)
(* Every step is such a move of the table and of the executions.           *)
(***************************************************************************)

\* Steps that give no verdict and leave tasks and the histories alone.
LEMMA PlainMoves ==
  ASSUME PipelineTypeOK, UNCHANGED <<tasks, judged, during>>,
         thread' \in [Thread -> ThreadRow], \A t \in Thread : Grows(t),
         \A t \in Thread :
           /\ thread'[t].eventSeq = thread[t].eventSeq
           /\ thread'[t].interpretedSeq = thread[t].interpretedSeq
           /\ thread'[t].status \in {"dispatched", "discarded"} => thread'[t].status = thread[t].status
  PROVE  TableMoves
<1>1. \A t \in Thread : Untouched(t) /\ Noticed(t)
  BY SameHistory, NothingNew DEF Untouched
<1> QED BY <1>1 DEF TableMoves, PipelineTypeOK

LEMMA SameTable ==
  ASSUME PipelineTypeOK, UNCHANGED <<thread, tasks, judged, during>>
  PROVE  TableMoves
<1>1. thread' \in [Thread -> ThreadRow] /\ \A t \in Thread : Grows(t)
  BY SameHistory
<1> QED BY <1>1, PlainMoves

LEMMA IngestMoves ==
  ASSUME PipelineTypeOK, NEW t \in Thread, NEW c \in Channel, NEW k \in Key \union {None},
         ingest(t, c, k)
  PROVE  TableMoves
<1>1. \A u \in Thread : thread[u] \in ThreadRow
  BY DEF PipelineTypeOK
<1>2. PICK new \in ThreadRow :
        /\ thread' = [thread EXCEPT ![t] = new] /\ new.status = "open"
        /\ new.interpretedSeq \in {0, thread[t].interpretedSeq}
        /\ \/ thread[t].status = "none"
           \/ thread[t].status = "open" /\ new.eventSeq = thread[t].eventSeq + 1
  <2>1. CASE /\ Open(t) /\ thread[t].eventSeq < MaxEvents
             /\ thread' = [thread EXCEPT ![t].eventSeq = @ + 1, ![t].quiet = 0]
    <3> DEFINE new == [thread[t] EXCEPT !.eventSeq = thread[t].eventSeq + 1, !.quiet = 0]
    <3>0. thread[t].eventSeq + 1 \in 0 .. MaxEvents /\ 0 \in 0 .. Ttl + 1
      BY <1>1, <2>1, PipelineAssumption DEF ThreadRow
    <3>1. new \in ThreadRow
      BY <1>1, <3>0 DEF ThreadRow
    <3>2. /\ new.status = thread[t].status /\ new.interpretedSeq = thread[t].interpretedSeq
          /\ new.eventSeq = thread[t].eventSeq + 1
      BY <1>1 DEF ThreadRow
    <3>3. thread' = [thread EXCEPT ![t] = new]
      BY <2>1 DEF PipelineTypeOK
    <3> QED BY <2>1, <3>1, <3>2, <3>3 DEF Open
  <2>2. CASE /\ thread[t].status = "none"
             /\ thread' = [thread EXCEPT ![t] = [NoThread EXCEPT
                  !.status = "open", !.channel = c, !.key = k, !.eventSeq = 1]]
    <3> DEFINE new == [NoThread EXCEPT !.status = "open", !.channel = c, !.key = k, !.eventSeq = 1]
    <3>0. 1 \in 0 .. MaxEvents /\ 0 \in 0 .. MaxEvents /\ 0 \in 0 .. Ttl + 1
      BY PipelineAssumption
    <3>1. new \in ThreadRow /\ new.status = "open" /\ new.interpretedSeq = 0
      BY <3>0 DEF ThreadRow, NoThread
    <3> QED BY <2>2, <3>1
  <2> QED BY <2>1, <2>2 DEF ingest, append
<1>3. thread[t].eventSeq \in Int /\ thread[t].eventSeq <= thread[t].eventSeq + 1
  BY <1>1, PipelineAssumption DEF ThreadRow
<1>4. thread' \in [Thread -> ThreadRow] /\ \A u \in Thread : Grows(u)
  BY <1>2, <1>3, OneRow
<1>5. thread'[t] = new /\ \A u \in Thread \ {t} : thread'[u] = thread[u]
  BY <1>2 DEF PipelineTypeOK
<1>6. during' \in [Thread -> SUBSET (1 .. MaxEvents)] /\ \A u \in Thread : during[u] \subseteq during'[u]
  <2>1. CASE during' = during BY <2>1 DEF PipelineTypeOK
  <2>2. CASE during' = [during EXCEPT ![t] = @ \union {thread'[t].eventSeq}]
    <3>1. thread'[t].eventSeq \in 1 .. MaxEvents
      <4>1. new.eventSeq \in 0 .. MaxEvents BY DEF ThreadRow
      <4>2. CASE new.eventSeq = thread[t].eventSeq + 1
        BY <1>1, <1>5, <4>1, <4>2, PipelineAssumption DEF ThreadRow
      <4>3. CASE thread[t].status = "none"
        <5>1. thread' = [thread EXCEPT ![t] = [NoThread EXCEPT
                !.status = "open", !.channel = c, !.key = k, !.eventSeq = 1]]
          BY <4>3 DEF ingest, append, Open
        <5>2. thread'[t].eventSeq = 1
          BY <5>1 DEF NoThread, PipelineTypeOK
        <5> QED BY <5>2, PipelineAssumption
      <4> QED BY <1>2, <4>2, <4>3
    <3> QED BY <2>2, <3>1 DEF PipelineTypeOK
  <2> QED BY <2>1, <2>2 DEF ingest
<1>7. \A u \in Thread : Untouched(u)
  BY <1>2, <1>5, <1>6, SameHistory DEF Untouched, ingest
<1>8. ASSUME NEW u \in Thread PROVE Noticed(u)
  <2>1. CASE u # t BY <1>5, <2>1, NothingNew
  <2>2. CASE u = t /\ Asked(t)
    <3>1. thread'[t].eventSeq \in during'[t]
      BY <2>2 DEF ingest, PipelineTypeOK
    <3>2. thread[t].eventSeq \in Nat /\ (thread'[t].eventSeq = thread[t].eventSeq + 1 \/ thread'[t].eventSeq = 1)
      <4>1. thread[t].eventSeq \in Nat BY <1>1, PipelineAssumption DEF ThreadRow
      <4>2. thread[t].status = "none" => thread' = [thread EXCEPT ![t] = [NoThread EXCEPT
              !.status = "open", !.channel = c, !.key = k, !.eventSeq = 1]]
        BY DEF ingest, append, Open
      <4>3. thread[t].status = "none" => thread'[t].eventSeq = 1
        BY <4>2 DEF NoThread, PipelineTypeOK
      <4> QED BY <1>2, <1>5, <4>1, <4>3
    <3>3. \A n \in thread[t].eventSeq + 1 .. thread'[t].eventSeq : n = thread'[t].eventSeq
      BY <3>2
    <3> QED BY <2>2, <3>1, <3>3 DEF Noticed
  <2>3. CASE u = t /\ ~Asked(t) BY <2>3 DEF Noticed
  <2> QED BY <2>1, <2>2, <2>3
<1> QED BY <1>4, <1>6, <1>7, <1>8 DEF TableMoves, PipelineTypeOK, ingest

\* Rows that only change their status to "expired", or their quiet time.
LEMMA AgeMoves ==
  ASSUME PipelineTypeOK, UNCHANGED <<tasks, judged, during>>,
         \/ \E c \in Channel : thread' = Expired(c)
         \/ thread' = [t \in Thread |-> IF Open(t) /\ thread[t].quiet <= Ttl
                                       THEN [thread[t] EXCEPT !.quiet = @ + 1] ELSE thread[t]]
  PROVE  TableMoves
<1>1. \A t \in Thread : thread[t] \in ThreadRow
  BY DEF PipelineTypeOK
<1>2. ASSUME NEW t \in Thread
      PROVE  /\ thread'[t] \in ThreadRow /\ thread'[t].eventSeq = thread[t].eventSeq
             /\ thread'[t].interpretedSeq = thread[t].interpretedSeq
             /\ \/ thread'[t].status = thread[t].status
                \/ thread[t].status = "open" /\ thread'[t].status = "expired"
  <2>1. CASE thread'[t] = thread[t] BY <1>1, <2>1
  <2>2. CASE Open(t) /\ thread'[t] = [thread[t] EXCEPT !.status = "expired"]
    BY <1>1, <2>2 DEF ThreadRow, Open
  <2>3. CASE thread[t].quiet <= Ttl /\ thread'[t] = [thread[t] EXCEPT !.quiet = @ + 1]
    BY <1>1, <2>3, PipelineAssumption DEF ThreadRow
  <2> QED BY <2>1, <2>2, <2>3 DEF Expired
<1>3. thread' \in [Thread -> ThreadRow]
  BY <1>2 DEF Expired
<1>4. \A t \in Thread : Grows(t)
  BY <1>2, <1>3, AllRows
<1> QED BY <1>2, <1>3, <1>4, PlainMoves

LEMMA RemoveMoves ==
  ASSUME PipelineTypeOK, NEW c \in Channel, RemoveChannel(c)
  PROVE  TableMoves
<1> DEFINE mine(t) == thread[t].channel = c
           purged == [NoThread EXCEPT !.status = "purged"]
<1>1. /\ thread' = [t \in Thread |-> IF mine(t) THEN purged ELSE thread[t]]
      /\ tasks' = [t \in Thread |-> IF mine(t) THEN <<>> ELSE tasks[t]]
  BY DEF RemoveChannel
<1>2. purged \in ThreadRow /\ purged.status = "purged" /\ purged.interpretedSeq = 0 /\ purged.eventSeq = 0
  BY PipelineAssumption DEF ThreadRow, NoThread
<1> HIDE DEF purged
<1>3. thread' \in [Thread -> ThreadRow] /\ tasks' \in [Thread -> Seq(0 .. MaxEvents)]
  BY <1>1, <1>2, EmptySeq DEF PipelineTypeOK
<1>4. \A t \in Thread : Grows(t)
  BY <1>1, <1>2, <1>3, AllRows
<1>5. \A t \in Thread : Untouched(t)
  BY <1>1, <1>2, SameHistory DEF Untouched, RemoveChannel
<1>6. \A t \in Thread : Noticed(t)
  BY <1>1, <1>2, NothingNew
<1> QED BY <1>3, <1>4, <1>5, <1>6 DEF TableMoves, PipelineTypeOK, RemoveChannel

LEMMA NextMoves ==
  ASSUME PipelineTypeOK, Next
  PROVE  TableMoves
<1>1. ASSUME NEW t \in Thread, NEW c \in Channel, NEW k \in Key \union {None}, ingest(t, c, k)
      PROVE  TableMoves
  BY <1>1, IngestMoves
<1>2. ASSUME NEW r \in Run, NEW c \in Channel, FireTimer(r, c) PROVE TableMoves
  BY <1>2, SameTable DEF FireTimer
<1>3. ASSUME NEW r \in Run, NEW c \in Channel, Sweep(r, c) PROVE TableMoves
  BY <1>3, AgeMoves DEF Sweep
<1>4. ASSUME NEW r \in Run, Fails(r) PROVE TableMoves
  BY <1>4, SameTable DEF Fails
<1>5. ASSUME NEW r \in Run, Waits(r) PROVE TableMoves
  BY <1>5, VerdictMoves DEF Waits, VerdictWrites
<1>6. ASSUME NEW r \in Run, Discards(r) PROVE TableMoves
  BY <1>6, VerdictMoves DEF Discards, VerdictWrites
<1>7. ASSUME NEW r \in Run, Dispatches(r) PROVE TableMoves
  BY <1>7, VerdictMoves DEF Dispatches, VerdictWrites
<1>8. ASSUME NEW r \in Run, NEW inserted \in BOOLEAN, CrashDispatching(r, inserted) PROVE TableMoves
  BY <1>8, VerdictMoves DEF CrashDispatching, Down, VerdictWrites
<1>9. CASE Crash
  BY <1>9, SameTable DEF Crash, Down
<1>10. ASSUME NEW c \in Channel, RemoveChannel(c) PROVE TableMoves
  BY <1>10, RemoveMoves
<1>11. ASSUME NEW c \in Channel, NEW m \in {"llm", "passthrough", "off"}, Reconfigure(c, m)
       PROVE  TableMoves
  BY <1>11, SameTable DEF Reconfigure
<1>12. CASE Tick
  BY <1>12, AgeMoves DEF Tick
<1> QED
  BY <1>1, <1>2, <1>3, <1>4, <1>5, <1>6, <1>7, <1>8, <1>9, <1>10, <1>11, <1>12 DEF Next, Answer

LEMMA NextRunsMove ==
  ASSUME PipelineTypeOK, RowsHold, Next, TableMoves
  PROVE  RunsMove
<1>1. thread' \in [Thread -> ThreadRow] /\ \A t \in Thread : Grows(t)
  BY DEF TableMoves
<1>2. ASSUME NEW r \in Run, NEW c \in Channel, FireTimer(r, c) PROVE RunsMove
  <2>1. CASE mode[c] = "llm"
    <3>1. runDue(r, c, thread') /\ UNCHANGED during BY <1>2, <2>1 DEF FireTimer
    <3> QED BY <1>1, <3>1, Begins DEF RunsMove
  <2>2. CASE mode[c] # "llm" BY <1>2, <2>2 DEF FireTimer, RunsMove
  <2> QED BY <2>1, <2>2
<1>3. ASSUME NEW r \in Run, NEW c \in Channel, Sweep(r, c) PROVE RunsMove
  BY <1>1, <1>3, Begins DEF Sweep, RunsMove
<1>4. ASSUME NEW r \in Run, Busy(r), Continue(r, thread'), UNCHANGED during PROVE RunsMove
  BY <1>1, <1>4, Continues DEF RunsMove
<1>5. ASSUME NEW r \in Run, Fails(r) PROVE RunsMove
  <2>1. Continue(r, thread') BY <1>5 DEF Fails
  <2> QED BY <1>4, <1>5, <2>1 DEF Fails
<1>6. ASSUME NEW r \in Run, Waits(r) PROVE RunsMove
  BY <1>4, <1>6 DEF Waits
<1>7. ASSUME NEW r \in Run, Discards(r) PROVE RunsMove
  BY <1>4, <1>7 DEF Discards
<1>8. ASSUME NEW r \in Run, Dispatches(r) PROVE RunsMove
  <2>1. CASE mode[run[r].channel] # "gone" BY <1>4, <1>8, <2>1 DEF Dispatches
  <2>2. CASE mode[run[r].channel] = "gone"
    <3>1. /\ run' = [run EXCEPT ![r] = NoRun] /\ inFlight' = Others(r)
          /\ UNCHANGED during
      BY <1>8, <2>2 DEF Dispatches, Others
    <3>2. /\ run' \in [Run -> RunRow] /\ run'[r] = NoRun /\ DOMAIN run'[r].due = {}
          /\ \A q \in Run \ {r} : run'[q] = run[q]
      BY <3>1, NoRunIsRun DEF PipelineTypeOK
    <3> QED BY <3>1, <3>2 DEF RunMoves, RunsMove
  <2> QED BY <2>1, <2>2
<1>9. CASE Down BY <1>9 DEF Down, RunsMove
<1>10. CASE UNCHANGED <<run, inFlight>> BY <1>10 DEF RunsMove
<1> QED
  BY <1>2, <1>3, <1>5, <1>6, <1>7, <1>8, <1>9, <1>10
     DEF Next, Answer, ingest, CrashDispatching, Crash, RemoveChannel, Reconfigure, Tick

-----------------------------------------------------------------------------
(***************************************************************************)
(* The invariant, conjunct by conjunct.                                    *)
(***************************************************************************)
IInv ==
  /\ PipelineTypeOK /\ InFlightIsExact /\ RowsHold /\ SawHolds
  /\ NothingMarkedUnseen /\ DispatchedHasTask /\ MissedOnlyDuring

LEMMA TypeStep ==
  ASSUME PipelineTypeOK, Next, TableMoves, RunsMove
  PROVE  PipelineTypeOK'
<1>1. mode' \in [Channel -> {"llm", "passthrough", "off", "gone"}]
  BY DEF Next, Answer, ingest, FireTimer, Sweep, Fails, Waits, Discards, Dispatches,
         CrashDispatching, Crash, Down, Reconfigure, RemoveChannel, Tick, PipelineTypeOK
<1>2. timer' \in [Channel -> 0 .. Debounce \union {None}]
  <2>1. CASE Tick
    <3>1. ASSUME NEW c \in Channel PROVE timer'[c] \in 0 .. Debounce \union {None}
      <4>1. timer[c] \in 0 .. Debounce \union {None} BY DEF PipelineTypeOK
      <4>2. timer'[c] = IF timer[c] \in {None, 0} THEN timer[c] ELSE timer[c] - 1
        BY <2>1 DEF Tick
      <4> QED BY <4>1, <4>2, PipelineAssumption
    <3> QED BY <2>1, <3>1 DEF Tick
  <2>2. CASE timer' = [c \in Channel |-> None] BY <2>2
  <2>3. ASSUME NEW c \in Channel, \/ timer' = [timer EXCEPT ![c] = Debounce]
                                  \/ timer' = [timer EXCEPT ![c] = None]
        PROVE  timer' \in [Channel -> 0 .. Debounce \union {None}]
    BY <2>3, PipelineAssumption DEF PipelineTypeOK
  <2>4. CASE timer' = timer BY <2>4 DEF PipelineTypeOK
  <2> QED
    BY <2>1, <2>2, <2>3, <2>4
       DEF Next, Answer, ingest, FireTimer, Sweep, Fails, Waits, Discards, Dispatches,
           CrashDispatching, Crash, Down, Reconfigure, RemoveChannel
<1>3. crashes' \in 0 .. MaxCrashes
  <2>1. CASE crashes' = crashes BY <2>1 DEF PipelineTypeOK
  <2>2. CASE Down BY <2>2, PipelineAssumption DEF Down, PipelineTypeOK
  <2> QED
    BY <2>1, <2>2 DEF Next, Answer, ingest, FireTimer, Sweep, Fails, Waits, Discards, Dispatches,
                      CrashDispatching, Crash, Reconfigure, RemoveChannel, Tick
<1>4. inFlight' \subseteq Thread /\ run' \in [Run -> RunRow]
  <2>1. CASE run' = run /\ inFlight' = inFlight BY <2>1 DEF PipelineTypeOK
  <2>2. CASE run' = [r \in Run |-> NoRun] /\ inFlight' = {} BY <2>2, NoRunIsRun
  <2>3. ASSUME NEW r \in Run, RunMoves(r) PROVE inFlight' \subseteq Thread /\ run' \in [Run -> RunRow]
    <3>1. Others(r) \subseteq Thread BY DEF Others, PipelineTypeOK
    <3>2. \A row \in DueRow : row.id \in Thread BY DEF DueRow
    <3> QED BY <2>3, <3>1, <3>2 DEF RunMoves
  <2> QED BY <2>1, <2>2, <2>3 DEF RunsMove
<1> QED BY <1>1, <1>2, <1>3, <1>4 DEF TableMoves, PipelineTypeOK

\* inFlight is what is asked about, and nothing is asked about twice: an
\* execution gives up the thread it holds and takes one that is nobody's.
LEMMA ExactStep ==
  ASSUME PipelineTypeOK, InFlightIsExact, RunsMove
  PROVE  InFlightIsExact'
<1>1. CASE run' = run /\ inFlight' = inFlight
  BY <1>1 DEF InFlightIsExact, Asked, Busy
<1>2. CASE run' = [r \in Run |-> NoRun] /\ inFlight' = {}
  BY <1>2, NoRunIsRun DEF InFlightIsExact, Asked, Busy
<1>3. ASSUME NEW r \in Run, RunMoves(r) PROVE InFlightIsExact'
  <2>1. \A t \in Thread : t \in Others(r) <=> \E q \in Run \ {r} : Busy(q) /\ Head(run[q].due).id = t
    BY DEF Others, InFlightIsExact, Asked
  <2>2. Others(r) \subseteq Thread BY DEF Others, PipelineTypeOK
  <2>3. \A q \in Run \ {r} : (Busy(q)' <=> Busy(q)) /\ run'[q] = run[q]
    BY <1>3 DEF RunMoves, Busy
  <2>4. CASE run'[r] = NoRun /\ inFlight' = Others(r)
    <3>1. ~Busy(r)' BY <2>4, NoRunIsRun DEF Busy
    <3> QED BY <2>1, <2>2, <2>3, <2>4, <3>1 DEF InFlightIsExact, Asked
  <2>5. ASSUME NEW row \in DueRow,
               row.id \notin Others(r), inFlight' = Others(r) \union {row.id},
               run'[r].due # <<>>, Head(run'[r].due) = row
        PROVE  InFlightIsExact'
    <3>1. row.id \in Thread BY DEF DueRow
    <3>2. Busy(r)' BY <2>5 DEF Busy
    <3>3. inFlight' = {t \in Thread : Asked(t)}'
      BY <2>1, <2>2, <2>3, <2>5, <3>1, <3>2 DEF Asked
    <3>4. \A q \in Run \ {r} : Busy(q)' => Head(run'[q].due).id # row.id
      BY <2>1, <2>3, <2>5, <3>1
    <3>5. \A p, q \in Run :
            Busy(p)' /\ Busy(q)' /\ Head(run'[p].due).id = Head(run'[q].due).id => p = q
      BY <2>3, <2>5, <3>4 DEF InFlightIsExact
    <3> QED BY <3>3, <3>5 DEF InFlightIsExact
  <2> QED BY <1>3, <2>4, <2>5 DEF RunMoves
<1> QED BY <1>1, <1>2, <1>3 DEF RunsMove

LEMMA RowsStep ==
  ASSUME PipelineTypeOK, RowsHold, TableMoves, RunsMove
  PROVE  RowsHold'
<1>1. ASSUME NEW q \in Run, run'[q] = run[q], NEW i \in DOMAIN run'[q].due
      PROVE  RowHolds(run'[q].due[i], thread')
  <2>1. run[q].due \in Seq(DueRow) BY DEF PipelineTypeOK, RunRow
  <2>2. run[q].due[i] \in DueRow BY <1>1, <2>1, LenProperties, ElementOfSeq
  <2>3. run[q].due[i].id \in Thread BY <2>2 DEF DueRow
  <2>4. RowHolds(run[q].due[i], thread) BY <1>1 DEF RowsHold
  <2> QED BY <1>1, <2>2, <2>3, <2>4, RowsKeep DEF TableMoves
<1>2. CASE run' = run
  BY <1>1, <1>2 DEF RowsHold
<1>3. CASE run' = [r \in Run |-> NoRun]
  <2>1. \A r \in Run : DOMAIN run'[r].due = {} BY <1>3, NoRunIsRun
  <2> QED BY <2>1 DEF RowsHold
<1>4. ASSUME NEW r \in Run, RunMoves(r) PROVE RowsHold'
  BY <1>1, <1>4 DEF RunMoves, RowsHold
<1> QED BY <1>2, <1>3, <1>4 DEF RunsMove

LEMMA SawStep ==
  ASSUME PipelineTypeOK, RowsHold, SawHolds, TableMoves, RunsMove
  PROVE  SawHolds'
\* An execution that waited before and still does.
<1>1. ASSUME NEW q \in Run, run'[q] = run[q], Busy(q)', InTable(Head(run[q].due).id)'
      PROVE  LET row == Head(run[q].due)
             IN  /\ row.seq <= run[q].saw
                 /\ (run[q].saw + 1 .. thread'[row.id].eventSeq) \subseteq during'[row.id]
  <2> DEFINE row == Head(run[q].due)
             t == row.id
  <2>1. Busy(q) BY <1>1 DEF Busy
  <2>2. t \in Thread /\ run[q].saw \in Int BY <2>1, HeadOfRun, PipelineAssumption
  <2>3. thread[t].status # "none"
    <3>1. RowHolds(row, thread) BY <2>1, HeadOfRun DEF RowsHold
    <3> QED BY <3>1 DEF RowHolds
  <2> HIDE DEF row, t
  <2>4. Grows(t) /\ Noticed(t) BY <2>2 DEF TableMoves
  <2>5. InTable(t) BY <1>1, <2>3, <2>4 DEF InTable, Grows, t, row
  <2>6. row.seq <= run[q].saw /\ (run[q].saw + 1 .. thread[t].eventSeq) \subseteq during[t]
    BY <2>1, <2>5 DEF SawHolds, t, row
  <2>7. during[t] \subseteq during'[t]
    BY <2>2 DEF TableMoves, Untouched, Verdict
  <2>8. (thread[t].eventSeq + 1 .. thread'[t].eventSeq) \subseteq during'[t]
    BY <2>1, <2>2, <2>4 DEF Noticed, Asked, t, row
  <2>9. thread[t].eventSeq \in Int /\ thread'[t].eventSeq \in Int
    BY <2>2, PipelineAssumption DEF PipelineTypeOK, TableMoves, ThreadRow
  <2>10. \A n \in run[q].saw + 1 .. thread'[t].eventSeq :
           n \in run[q].saw + 1 .. thread[t].eventSeq \/ n \in thread[t].eventSeq + 1 .. thread'[t].eventSeq
    BY <2>2, <2>9
  <2> QED BY <2>6, <2>7, <2>8, <2>10 DEF t, row
<1>2. CASE run' = run
  BY <1>1, <1>2 DEF SawHolds
<1>3. CASE run' = [r \in Run |-> NoRun]
  <2>1. \A r \in Run : ~Busy(r)' BY <1>3, NoRunIsRun DEF Busy
  <2> QED BY <2>1 DEF SawHolds
<1>4. ASSUME NEW r \in Run, RunMoves(r) PROVE SawHolds'
  <2>1. CASE run'[r] = NoRun
    <3>1. ~Busy(r)' BY <2>1, NoRunIsRun DEF Busy
    <3> QED BY <1>1, <1>4, <3>1 DEF RunMoves, SawHolds
  <2>2. ASSUME NEW row \in DueRow, Head(run'[r].due) = row,
               run'[r].saw = thread'[row.id].eventSeq, RowHolds(row, thread')
        PROVE  SawHolds'
    <3>1. row.id \in Thread BY DEF DueRow
    <3>2. thread'[row.id].eventSeq \in Int
      BY <3>1, PipelineAssumption DEF TableMoves, ThreadRow
    <3>3. (run'[r].saw + 1 .. thread'[row.id].eventSeq) = {} BY <2>2, <3>2
    <3>4. InTable(row.id)' => row.seq <= run'[r].saw
      BY <2>2 DEF InTable, RowHolds
    <3> QED BY <1>1, <1>4, <2>2, <3>3, <3>4 DEF RunMoves, SawHolds
  <2> QED BY <1>4, <2>1, <2>2 DEF RunMoves
<1> QED BY <1>2, <1>3, <1>4 DEF RunsMove

LEMMA VerdictsStep ==
  ASSUME IInv, TableMoves
  PROVE  NothingMarkedUnseen' /\ DispatchedHasTask' /\ MissedOnlyDuring'
<1> USE DEF IInv
<1>1. \A t \in Thread : /\ judged[t] \in Nat /\ judged'[t] \in Nat
                       /\ thread[t].eventSeq \in Nat /\ thread'[t].eventSeq \in Nat
                       /\ thread[t].interpretedSeq \in Nat
  BY PipelineAssumption DEF PipelineTypeOK, TableMoves, ThreadRow
<1>2. ASSUME NEW t \in Thread, Untouched(t)
      PROVE  /\ thread'[t].interpretedSeq <= judged'[t]
             /\ thread'[t].status = "dispatched" => tasks'[t] # <<>>
             /\ thread'[t].status \in {"dispatched", "discarded"}
                  => (judged'[t] + 1 .. thread'[t].eventSeq) \subseteq during'[t]
  <2>1. thread'[t].interpretedSeq <= judged'[t]
    BY <1>1, <1>2 DEF Untouched, NothingMarkedUnseen
  <2>2. thread'[t].status = "dispatched" => tasks'[t] # <<>>
    BY <1>2 DEF Untouched, DispatchedHasTask
  <2>3. ASSUME thread'[t].status \in {"dispatched", "discarded"}
        PROVE  (judged'[t] + 1 .. thread'[t].eventSeq) \subseteq during'[t]
    <3>1. (judged[t] + 1 .. thread[t].eventSeq) \subseteq during'[t] /\ thread'[t].eventSeq = thread[t].eventSeq
      BY <1>2, <2>3 DEF Untouched, MissedOnlyDuring
    <3> QED BY <1>1, <1>2, <3>1 DEF Untouched
  <2> QED BY <2>1, <2>2, <2>3
<1>3. ASSUME NEW t \in Thread, NEW r \in Run, Verdict(r, t)
      PROVE  /\ thread'[t].interpretedSeq <= judged'[t]
             /\ thread'[t].status = "dispatched" => tasks'[t] # <<>>
             /\ thread'[t].status \in {"dispatched", "discarded"}
                  => (judged'[t] + 1 .. thread'[t].eventSeq) \subseteq during'[t]
  <2> DEFINE seq == Head(run[r].due).seq
             saw == run[r].saw
  <2>a. Busy(r) /\ t = Head(run[r].due).id /\ InTable(t)
    BY <1>3 DEF Verdict
  <2>b. seq \in Int /\ saw \in Int
    BY <2>a, HeadOfRun, PipelineAssumption
  <2>1. seq <= saw /\ (saw + 1 .. thread[t].eventSeq) \subseteq during[t]
    BY <2>a DEF SawHolds
  <2>2. /\ judged'[t] >= saw /\ thread'[t].eventSeq = thread[t].eventSeq /\ during' = during
        /\ thread'[t].interpretedSeq = seq
    BY <1>3 DEF Verdict
  <2> HIDE DEF seq, saw
  <2>3. thread'[t].interpretedSeq <= judged'[t]
    BY <1>1, <2>b, <2>1, <2>2
  <2>4. thread'[t].status = "dispatched" => tasks'[t] # <<>>
    BY <1>3 DEF Verdict, DispatchedHasTask
  <2>5. (judged'[t] + 1 .. thread'[t].eventSeq) \subseteq during'[t]
    BY <1>1, <2>b, <2>1, <2>2
  <2> QED BY <2>3, <2>4, <2>5
<1> QED
  BY <1>2, <1>3 DEF TableMoves, NothingMarkedUnseen, DispatchedHasTask, MissedOnlyDuring

LEMMA Invariance == Spec => []IInv
<1>1. ASSUME Init PROVE IInv
  <2>1. NoThread \in ThreadRow
    <3>1. 0 \in 0 .. MaxEvents /\ 0 \in 0 .. Ttl + 1 BY PipelineAssumption
    <3> QED BY <3>1 DEF NoThread, ThreadRow
  <2>2. PipelineTypeOK
    BY <1>1, <2>1, NoRunIsRun, EmptySeq, PipelineAssumption DEF Init, PipelineTypeOK
  <2>3. \A r \in Run : ~Busy(r) /\ DOMAIN run[r].due = {}
    BY <1>1, NoRunIsRun DEF Init, Busy
  <2>4. \A t \in Thread : thread[t].status = "none" /\ thread[t].interpretedSeq = 0 /\ judged[t] = 0
    BY <1>1 DEF Init, NoThread
  <2>5. inFlight = {} BY <1>1 DEF Init
  <2>6. InFlightIsExact BY <2>3, <2>5 DEF InFlightIsExact, Asked
  <2>7. RowsHold /\ SawHolds BY <2>3 DEF RowsHold, SawHolds
  <2>8. NothingMarkedUnseen /\ DispatchedHasTask /\ MissedOnlyDuring
    BY <2>4 DEF NothingMarkedUnseen, DispatchedHasTask, MissedOnlyDuring
  <2> QED BY <2>2, <2>6, <2>7, <2>8 DEF IInv
<1>2. ASSUME IInv, [Next]_vars PROVE IInv'
  <2>1. CASE Next
    <3>1. TableMoves BY <1>2, <2>1, NextMoves DEF IInv
    <3>2. RunsMove BY <1>2, <2>1, <3>1, NextRunsMove DEF IInv
    <3>3. PipelineTypeOK' BY <1>2, <2>1, <3>1, <3>2, TypeStep DEF IInv
    <3>4. InFlightIsExact' BY <1>2, <3>2, ExactStep DEF IInv
    <3>5. RowsHold' BY <1>2, <3>1, <3>2, RowsStep DEF IInv
    <3>6. SawHolds' BY <1>2, <3>1, <3>2, SawStep DEF IInv
    <3>7. NothingMarkedUnseen' /\ DispatchedHasTask' /\ MissedOnlyDuring' BY <1>2, <3>1, VerdictsStep
    <3> QED BY <3>3, <3>4, <3>5, <3>6, <3>7 DEF IInv
  <2>2. CASE UNCHANGED vars
    BY <1>2, <2>2 DEF vars, IInv, PipelineTypeOK, InFlightIsExact, RowsHold, SawHolds, Asked, Busy,
       InTable, NothingMarkedUnseen, DispatchedHasTask, MissedOnlyDuring
  <2> QED BY <1>2, <2>1, <2>2
<1> QED BY <1>1, <1>2, PTL DEF Spec

(***************************************************************************)
(* Every row of the table, every execution of runDue and every timer is    *)
(* always of its type, whatever was written over whatever.                 *)
(***************************************************************************)
THEOREM PipelineTypeCorrect == Spec => []PipelineTypeOK
BY Invariance, PTL DEF IInv

(***************************************************************************)
(* inFlight always holds exactly the threads the interpreter is being      *)
(* asked about, each by one execution, through sweeps, timers, errors,     *)
(* removed channels and crashes.                                           *)
(***************************************************************************)
THEOREM InFlightCorrect == Spec => []InFlightIsExact
BY Invariance, PTL DEF IInv

(***************************************************************************)
(* No event is ever marked as interpreted that no verdict was based on.    *)
(***************************************************************************)
THEOREM NothingMarkedUnseenCorrect == Spec => []NothingMarkedUnseen
BY Invariance, PTL DEF IInv

(***************************************************************************)
(* A dispatched thread always has its task, wherever the process dies.     *)
(***************************************************************************)
THEOREM DispatchedHasTaskCorrect == Spec => []DispatchedHasTask
BY Invariance, PTL DEF IInv

(***************************************************************************)
(* What a closing verdict was not based on has always arrived while the    *)
(* interpreter was being asked about its thread.                           *)
(***************************************************************************)
THEOREM MissedOnlyDuringCorrect == Spec => []MissedOnlyDuring
BY Invariance, PTL DEF IInv

=============================================================================
