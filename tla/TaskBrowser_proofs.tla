------------------------- MODULE TaskBrowser_proofs -------------------------
(***************************************************************************)
(* Machine-checked proofs about TaskBrowser, for any number of tasks, any  *)
(* page size and any number of requests under way.                         *)
(***************************************************************************)
EXTENDS TaskBrowser, TLAPS, FiniteSetTheorems

-----------------------------------------------------------------------------
(***************************************************************************)
(* The pages.  A row is on the page that the number of newer rows puts it  *)
(* on, so what matters of a row is that number.                            *)
(***************************************************************************)

\* Any set of rows is finite, and a row has fewer newer ones than there are.
LEMMA RowsFinite ==
  ASSUME NEW rows \in SUBSET Task
  PROVE  IsFiniteSet(rows) /\ Cardinality(rows) \in 0 .. MaxTask
<1>1. IsFiniteSet(Task) /\ Cardinality(Task) = MaxTask
  BY FS_Interval, BrowserAssumption DEF Task
<1> QED
  BY <1>1, FS_Subset, FS_CardinalityType, BrowserAssumption

LEMMA NewerBelowTotal ==
  ASSUME NEW rows \in SUBSET Task, NEW t \in rows
  PROVE  Newer(t, rows) \in Nat /\ Newer(t, rows) < Cardinality(rows)
<1> DEFINE newer == { u \in rows : u > t }
<1>1. newer \in SUBSET (rows \ {t})
  BY BrowserAssumption DEF Task
<1>2. IsFiniteSet(rows) /\ Cardinality(rows) \in Nat
  BY RowsFinite, BrowserAssumption
<1>3. IsFiniteSet(rows \ {t}) /\ Cardinality(rows \ {t}) = Cardinality(rows) - 1
  BY <1>2, FS_RemoveElement
<1>4. IsFiniteSet(newer) /\ Cardinality(newer) <= Cardinality(rows \ {t})
  BY <1>1, <1>3, FS_Subset
<1>5. Cardinality(newer) \in Nat
  BY <1>4, FS_CardinalityType
<1> QED
  BY <1>2, <1>3, <1>4, <1>5 DEF Newer

LEMMA QuotientBounds ==
  ASSUME NEW n \in Nat, NEW k \in Nat \ {0}
  PROVE  /\ n \div k \in Nat /\ n \div k <= n
         /\ (n \div k) * k <= n /\ n < (n \div k) * k + k
  OBVIOUS

\* What comes before a page does not reach into it.
LEMMA PagesApart ==
  ASSUME NEW k \in Nat \ {0}, NEW p \in Nat, NEW q \in Nat, p < q
  PROVE  p * k + k <= q * k
  OBVIOUS

LEMMA PageOf ==
  ASSUME NEW v, NEW p \in Nat, NEW t
  PROVE  t \in listTasks(v, PageSize, p * PageSize).tasks
         <=> /\ t \in Matching(v)
             /\ p * PageSize <= Newer(t, Matching(v)) /\ Newer(t, Matching(v)) < p * PageSize + PageSize
  BY DEF listTasks

(***************************************************************************)
(* Whatever the table holds, the pages up to the last the pager goes to    *)
(* have every matching row, and no two have one in common.                 *)
(***************************************************************************)
THEOREM PagesPartitionCorrect == Spec => []PagesPartition
<1>1. PagesPartition
  <2> SUFFICES ASSUME NEW v \in View
               PROVE  LET last == { p \in 0 .. MaxTask : p = 0 \/ p * PageSize < listTasks(v, PageSize, 0).total }
                          Rows(p) == listTasks(v, PageSize, p * PageSize).tasks
                      IN  /\ \A t \in Matching(v) : \E p \in last : t \in Rows(p)
                          /\ \A p, q \in last : p # q => Rows(p) \intersect Rows(q) = {}
    BY DEF PagesPartition
  <2> DEFINE rows == Matching(v)
             last == { p \in 0 .. MaxTask : p = 0 \/ p * PageSize < listTasks(v, PageSize, 0).total }
             Rows(p) == listTasks(v, PageSize, p * PageSize).tasks
  <2>0. rows \in SUBSET Task /\ PageSize \in Nat \ {0} /\ MaxTask \in Nat
    BY BrowserAssumption DEF Matching
  <2>1. listTasks(v, PageSize, 0).total = Cardinality(rows)
    BY DEF listTasks
  <2>2. ASSUME NEW t \in rows
        PROVE  \E p \in last : t \in Rows(p)
    <3> DEFINE n == Newer(t, rows)
               place == n \div PageSize
    <3>1. n \in Nat /\ n < Cardinality(rows) /\ Cardinality(rows) \in 0 .. MaxTask
      BY <2>0, NewerBelowTotal, RowsFinite
    <3>2. /\ place \in Nat /\ place <= n
          /\ place * PageSize <= n /\ n < place * PageSize + PageSize
      BY <2>0, <3>1, QuotientBounds
    <3> HIDE DEF place, n
    <3>3. place * PageSize \in Int
      BY <2>0, <3>2
    <3>4. place \in last
      BY <2>0, <2>1, <3>1, <3>2, <3>3
    <3>5. t \in Rows(place)
      BY <3>2, PageOf DEF n
    <3> QED
      BY <3>4, <3>5
  <2>3. ASSUME NEW p \in last, NEW q \in last, NEW t \in Rows(p) \intersect Rows(q), p < q
        PROVE  FALSE
    <3>1. p \in Nat /\ q \in Nat
      BY <2>0
    <3>2. t \in rows /\ Newer(t, rows) < p * PageSize + PageSize /\ q * PageSize <= Newer(t, rows)
      BY <2>3, <3>1, PageOf
    <3>3. p * PageSize + PageSize <= q * PageSize
      BY <2>0, <2>3, <3>1, PagesApart
    <3>4. Newer(t, rows) \in Nat
      BY <2>0, <3>2, NewerBelowTotal
    <3>5. p * PageSize \in Int /\ q * PageSize \in Int
      BY <2>0, <3>1
    <3> QED
      BY <2>0, <3>2, <3>3, <3>4, <3>5
  <2>4. ASSUME NEW p \in last, NEW q \in last, p # q
        PROVE  Rows(p) \intersect Rows(q) = {}
    <3>1. p < q \/ q < p
      BY <2>0, <2>4
    <3> HIDE DEF last, Rows
    <3> QED
      BY <2>3, <3>1
  <2> QED
    BY <2>2, <2>4
<1> QED
  BY <1>1, PTL

-----------------------------------------------------------------------------
(***************************************************************************)
(* The detail pane.  The property speaks of the step in which an answer is *)
(* shown; what makes it true is that selecting a task cleans up the effect *)
(* of the one before, so that of the answers on their way those not        *)
(* cancelled are for the task selected now.                                *)
(***************************************************************************)
\* An answer may be shown while s is selected.
Current(a, s) == a \in Load /\ a.detail \in Detail /\ ~a.cancelled => a.detail.task = s

LoadsAreCurrent == \A a \in BagToSet(answers) : Current(a, selected)

\* An answer that is taken was there, and nothing else comes.
LEMMA TakenFrom ==
  ASSUME NEW a, Taken(a)
  PROVE  BagToSet(answers') \subseteq BagToSet(answers)
  BY DEF Taken, BagToSet, (-)

LEMMA SentTo ==
  ASSUME NEW a, Send(a)
  PROVE  BagToSet(answers') = BagToSet(answers) \union {a}
  BY DEF Send, BagToSet, (+), SetToBag

\* The answer to a refresh is not taken for one of the detail pane.
LEMMA ListIsNoLoad ==
  ASSUME NEW v, NEW limit, NEW offset
  PROVE  Guarded(listTasks(v, limit, offset)) \notin Load
<1>1. listTasks(v, limit, offset) \notin Load
  BY DEF listTasks, Load
<1> QED
  BY <1>1, MarkerAssumption DEF Guarded

LEMMA LoadsStep == LoadsAreCurrent /\ [Next]_vars => LoadsAreCurrent'
<1> SUFFICES ASSUME LoadsAreCurrent, [Next]_vars PROVE LoadsAreCurrent'
  OBVIOUS
<1>1. ASSUME BagToSet(answers') \subseteq BagToSet(answers), UNCHANGED selected
      PROVE  LoadsAreCurrent'
  BY <1>1 DEF LoadsAreCurrent, Current
<1>2. CASE Poll
  <2>1. PICK a : a \notin Load /\ BagToSet(answers') = BagToSet(answers) \union {a}
    BY <1>2, ListIsNoLoad, SentTo DEF Poll, Refresh
  <2> QED
    BY <1>2, <2>1 DEF Poll, screen, LoadsAreCurrent, Current
<1>3. ASSUME NEW t \in Task, Select(t)
      PROVE  LoadsAreCurrent'
  <2> DEFINE Cancel(a) == IF a \in Load THEN [a EXCEPT !.cancelled = TRUE] ELSE a
             asked == [detail |-> Guarded(getTaskDetail(t)), cancelled |-> FALSE]
  <2>1. BagToSet(answers') = { Cancel(a) : a \in BagToSet(answers) } \union {asked}
    BY <1>3 DEF Select, BagToSet, (+), SetToBag, BagOfAll
  <2>2. ASSUME NEW a \in BagToSet(answers) PROVE Current(Cancel(a), t)
    BY DEF Current, Load
  <2>3. Current(asked, t)
    <3>1. asked.detail \in Detail => asked.detail.task = t
      BY MarkerAssumption DEF Guarded, getTaskDetail
    <3> QED
      BY <3>1 DEF Current
  <2>4. selected' = t
    BY <1>3 DEF Select
  <2> QED
    BY <2>1, <2>2, <2>3, <2>4 DEF LoadsAreCurrent
<1>4. ASSUME NEW a \in Lists, Show(a) PROVE LoadsAreCurrent'
  BY <1>1, <1>4, TakenFrom DEF Show
<1>5. ASSUME NEW a \in Loads, ShowDetail(a) PROVE LoadsAreCurrent'
  BY <1>1, <1>5, TakenFrom DEF ShowDetail
<1>6. CASE Lose
  BY <1>1, <1>6, TakenFrom DEF Lose, screen
<1>7. ASSUME UNCHANGED <<selected, answers>> PROVE LoadsAreCurrent'
  BY <1>1, <1>7
<1>8. CASE Server \/ (\E v \in View : SetView(v)) \/ TurnPage
           \/ (\E k \in Key : Submit(k)) \/ Disconnect \/ UNCHANGED vars
  BY <1>7, <1>8 DEF Server, SetView, TurnPage, Submit, Disconnect, screen, vars
<1> QED
  BY <1>2, <1>3, <1>4, <1>5, <1>6, <1>8 DEF Next

LEMMA LoadsCurrentCorrect == Spec => []LoadsAreCurrent
<1>1. Init => LoadsAreCurrent
  BY DEF Init, LoadsAreCurrent, BagToSet, EmptyBag, SetToBag
<1> QED
  BY <1>1, LoadsStep, PTL DEF Spec

(***************************************************************************)
(* However late the answer for an earlier selection arrives, the detail    *)
(* pane changes to the selected task only.                                 *)
(***************************************************************************)
THEOREM DetailFollowsSelectionCorrect == Spec => DetailFollowsSelection
<1> DEFINE A == detail' # detail => detail' = None \/ detail'.task = selected'
<1>1. LoadsAreCurrent /\ [Next]_vars => [A]_vars
  <2> SUFFICES ASSUME LoadsAreCurrent, Next, detail' # detail PROVE detail'.task = selected'
    OBVIOUS
  <2>1. PICK a \in Loads : ShowDetail(a)
    BY DEF Next, Server, Poll, Show, Lose, SetView, TurnPage, Select, Submit, Disconnect, screen
  <2>2. a.detail \in Detail /\ ~a.cancelled /\ detail' = a.detail /\ selected' = selected
    BY <2>1 DEF ShowDetail
  <2> QED
    BY <2>1, <2>2 DEF LoadsAreCurrent, Current, Loads
<1> QED
  BY <1>1, LoadsCurrentCorrect, PTL DEF Spec, DetailFollowsSelection

-----------------------------------------------------------------------------
(***************************************************************************)
(* What is shown.  A page is as long as PAGE_SIZE at most, because no two  *)
(* rows have equally many newer ones; and the pager never leads behind the *)
(* tasks there can be, as the total it goes by is that of some answer.     *)
(***************************************************************************)
LEMMA NewerDecreases ==
  ASSUME NEW rows \in SUBSET Task, NEW t \in rows, NEW u \in rows, t < u
  PROVE  Newer(u, rows) < Newer(t, rows)
<1> DEFINE after(x) == { y \in rows : y > x }
<1>0. t \in Int /\ u \in Int /\ \A y \in rows : y \in Int
  BY BrowserAssumption DEF Task
<1>1. after(t) \in SUBSET Task /\ u \in after(t) /\ after(u) \in SUBSET (after(t) \ {u})
  <2>1. u \in after(t)
    OBVIOUS
  <2>2. \A y \in rows : y > u => y > t /\ y # u
    BY <1>0
  <2> QED
    BY <2>1, <2>2
<1>2. IsFiniteSet(after(t)) /\ Cardinality(after(t)) \in Nat
  BY <1>1, RowsFinite, BrowserAssumption
<1>3. IsFiniteSet(after(t) \ {u}) /\ Cardinality(after(t) \ {u}) = Cardinality(after(t)) - 1
  BY <1>1, <1>2, FS_RemoveElement
<1>4. IsFiniteSet(after(u)) /\ Cardinality(after(u)) <= Cardinality(after(t) \ {u})
  BY <1>1, <1>3, FS_Subset
<1>5. Cardinality(after(u)) \in Nat
  BY <1>4, FS_CardinalityType
<1> QED
  BY <1>2, <1>3, <1>4, <1>5 DEF Newer

LEMMA PageFits ==
  ASSUME NEW v, NEW p \in Nat
  PROVE  LET answer == listTasks(v, PageSize, p * PageSize)
         IN  answer \in List /\ Cardinality(answer.tasks) <= PageSize
<1> DEFINE rows == Matching(v)
           offset == p * PageSize
           shown == { t \in rows : offset <= Newer(t, rows) /\ Newer(t, rows) < offset + PageSize }
           places == offset .. (offset + PageSize - 1)
           place == [t \in shown |-> Newer(t, rows)]
<1>0. PageSize \in Nat \ {0} /\ offset \in Nat /\ rows \in SUBSET Task /\ shown \in SUBSET Task
  BY BrowserAssumption DEF Matching
<1>1. listTasks(v, PageSize, offset) = [tasks |-> shown, total |-> Cardinality(rows)]
  BY DEF listTasks
<1>2. Cardinality(rows) \in 0 .. MaxTask /\ IsFiniteSet(shown)
  BY <1>0, RowsFinite
<1> HIDE DEF offset
<1>3. place \in [shown -> places]
  <2>1. \A t \in shown : Newer(t, rows) \in Nat
    BY <1>0, NewerBelowTotal
  <2>2. \A t \in shown : Newer(t, rows) \in places
    BY <1>0, <2>1
  <2> QED
    BY <2>2
<1>4. ASSUME NEW t \in shown, NEW u \in shown, t # u PROVE place[t] # place[u]
  <2>1. t < u \/ u < t
    BY <1>0, <1>4, BrowserAssumption DEF Task
  <2>2. Newer(t, rows) < Newer(u, rows) \/ Newer(u, rows) < Newer(t, rows)
    BY <1>0, <2>1, NewerDecreases
  <2>3. Newer(t, rows) \in Nat /\ Newer(u, rows) \in Nat
    BY <1>0, NewerBelowTotal
  <2> QED
    BY <2>2, <2>3
<1>5. IsFiniteSet(places) /\ Cardinality(places) = PageSize
  BY <1>0, FS_Interval
<1> HIDE DEF shown, places, place
<1>6. place \in Injection(shown, places)
  BY <1>3, <1>4 DEF Injection, IsInjective
<1>7. Cardinality(shown) <= PageSize
  BY <1>5, <1>6, FS_Injection
<1>8. [tasks |-> shown, total |-> Cardinality(rows)] \in List
  BY <1>0, <1>2 DEF List
<1> QED
  BY <1>1, <1>7, <1>8 DEF offset

\* A list on its way is short enough to be shown.
ListsFit == \A a \in Lists : a \in List => Cardinality(a.tasks) <= PageSize

ShownIInv == ShownTypeOK /\ ListsFit

LEMMA ShownStep == ShownIInv /\ [Next]_vars => ShownIInv'
<1> SUFFICES ASSUME ShownIInv, [Next]_vars PROVE ShownIInv'
  OBVIOUS
<1> DEFINE ListsOK == Lists \subseteq List \union {Unauthorized} /\ ListsFit
<1>0. PageSize \in Nat \ {0} /\ MaxTask \in Nat
  BY BrowserAssumption
<1>a. ASSUME BagToSet(answers') \subseteq BagToSet(answers) PROVE ListsOK'
  BY <1>a DEF ShownIInv, ShownTypeOK, ListsFit, Lists
<1>b. UNCHANGED answers => ListsOK'
  BY <1>a
<1>1. CASE Server
  <2>1. table' \in [Task -> {"absent", "active", "final", "purged"}]
    BY <1>1 DEF Server, ShownIInv, ShownTypeOK
  <2> QED
    BY <1>1, <1>b, <2>1 DEF Server, screen, ShownIInv, ShownTypeOK
<1>2. CASE Poll
  <2> DEFINE a == Guarded(listTasks(view, PageSize, page * PageSize))
  <2>1. BagToSet(answers') = BagToSet(answers) \union {a}
    BY <1>2, SentTo DEF Poll, Refresh
  <2>2. a \in List \union {Unauthorized} /\ (a \in List => Cardinality(a.tasks) <= PageSize)
    BY <1>0, PageFits, MarkerAssumption DEF Guarded, ShownIInv, ShownTypeOK
  <2> HIDE DEF a
  <2>3. ListsOK'
    BY <2>1, <2>2 DEF ShownIInv, ShownTypeOK, ListsFit, Lists
  <2> QED
    BY <1>2, <2>3 DEF Poll, screen, ShownIInv, ShownTypeOK
<1>3. ASSUME NEW a \in Lists, Show(a) PROVE ShownIInv'
  <2>1. ListsOK'
    BY <1>3, <1>a, TakenFrom DEF Show
  <2>2. a \in List /\ a # Unauthorized => a.tasks \subseteq Task /\ a.total \in 0 .. MaxTask /\ Cardinality(a.tasks) <= PageSize
    BY <1>3 DEF ShownIInv, ListsFit, List
  <2>3. a \in List \union {Unauthorized}
    BY <1>3 DEF ShownIInv, ShownTypeOK
  <2> QED
    BY <1>3, <2>1, <2>2, <2>3 DEF Show, LogOut, ShownIInv, ShownTypeOK
<1>4. ASSUME NEW a \in Loads, ShowDetail(a) PROVE ShownIInv'
  <2>1. ListsOK'
    BY <1>4, <1>a, TakenFrom DEF ShowDetail
  <2> QED
    BY <1>4, <2>1 DEF ShowDetail, LogOut, ShownIInv, ShownTypeOK
<1>5. CASE Lose
  <2>1. ListsOK'
    BY <1>5, <1>a, TakenFrom DEF Lose
  <2> QED
    BY <1>5, <2>1 DEF Lose, screen, ShownIInv, ShownTypeOK
<1>6. ASSUME NEW v \in View, SetView(v) PROVE ShownIInv'
  BY <1>0, <1>6, <1>b DEF SetView, ShownIInv, ShownTypeOK
<1>7. CASE TurnPage
  <2>1. page' \in 0 .. MaxTask
    <3>1. CASE (page + 1) * PageSize < total /\ page' = page + 1
      <4>1. page + 1 <= (page + 1) * PageSize
        BY <1>0 DEF ShownIInv, ShownTypeOK
      <4> QED
        BY <1>0, <3>1, <4>1 DEF ShownIInv, ShownTypeOK
    <3>2. CASE page > 0 /\ page' = page - 1
      BY <1>0, <3>2 DEF ShownIInv, ShownTypeOK
    <3> QED
      BY <1>7, <3>1, <3>2 DEF TurnPage
  <2> QED
    BY <1>7, <1>b, <2>1 DEF TurnPage, ShownIInv, ShownTypeOK
<1>8. ASSUME NEW t \in Task, Select(t) PROVE ShownIInv'
  <2> DEFINE Cancel(a) == IF a \in Load THEN [a EXCEPT !.cancelled = TRUE] ELSE a
             asked == [detail |-> Guarded(getTaskDetail(t)), cancelled |-> FALSE]
  <2>1. BagToSet(answers') = { Cancel(a) : a \in BagToSet(answers) } \union {asked}
    BY <1>8 DEF Select, BagToSet, (+), SetToBag, BagOfAll
  <2>2. asked \in Load
    BY DEF Load, Guarded, getTaskDetail, Detail, ShownIInv, ShownTypeOK
  <2>3. ASSUME NEW a \in BagToSet(answers) PROVE Cancel(a) \in Load \/ Cancel(a) = a
    BY DEF Load
  <2>4. Lists' \subseteq Lists
    <3> HIDE DEF Cancel, asked
    <3> QED
      BY <2>1, <2>2, <2>3 DEF Lists
  <2>5. ListsOK'
    BY <2>4 DEF ShownIInv, ShownTypeOK, ListsFit
  <2> QED
    BY <1>8, <2>5 DEF Select, ShownIInv, ShownTypeOK
<1>9. CASE (\E k \in Key : Submit(k)) \/ Disconnect
  BY <1>9, <1>b DEF Submit, Disconnect, LogOut, screen, ShownIInv, ShownTypeOK
<1>10. CASE UNCHANGED vars
  BY <1>10, <1>b DEF vars, screen, ShownIInv, ShownTypeOK
<1> QED
  BY <1>1, <1>2, <1>3, <1>4, <1>5, <1>6, <1>7, <1>8, <1>9, <1>10 DEF Next

(***************************************************************************)
(* Whatever answers overtake each other, no list is longer than a page,    *)
(* and the pager stays within the tasks there can be.                      *)
(***************************************************************************)
THEOREM ShownTypeCorrect == Spec => []ShownTypeOK
<1>1. Init => ShownIInv
  <2> SUFFICES ASSUME Init PROVE ShownIInv
    OBVIOUS
  <2>1. Cardinality(tasks) = 0
    BY FS_EmptySet DEF Init
  <2>2. Lists = {}
    BY DEF Init, Lists, BagToSet, EmptyBag, SetToBag
  <2> QED
    BY <2>1, <2>2, BrowserAssumption DEF Init, View, ShownIInv, ShownTypeOK, ListsFit
<1> QED
  BY <1>1, ShownStep, PTL DEF Spec, ShownIInv

=============================================================================
