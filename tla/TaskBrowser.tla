---------------------------- MODULE TaskBrowser ----------------------------
(***************************************************************************)
(* The admin screen around its task list (apps/control-plane-ui/src/       *)
(* App.tsx, api.ts): the gate that asks for the admin key, the refreshes   *)
(* that bring a page of tasks, the pager, and the detail pane.             *)
(*                                                                         *)
(* Requests overlap.  An interval timer and every change of view, page or  *)
(* key start a refresh whatever is under way, and the answers come in any  *)
(* order or never.  Each is the answer to the key and the page that were   *)
(* current when it was asked for.                                          *)
(*                                                                         *)
(* Abstractions: a request is answered when it is sent and only its answer *)
(* takes time, which leaves every answer as old as it can get.  Of the     *)
(* task table only what listTasks tells apart is kept, whether a row is    *)
(* there and whether its status is final; tasks are numbered in the order  *)
(* of their created_at.  The other two requests of a refresh, overview and *)
(* channels, succeed and fail with the third.  The tab is visible, and the *)
(* only one: local storage is not changed by another.                      *)
(***************************************************************************)
EXTENDS Integers, FiniteSets, Bags

CONSTANTS MaxTask,     \* bound: tasks created
          PageSize,    \* PAGE_SIZE (25)
          MaxRequests, \* bound: requests under way
          Key,         \* keys a user may enter
          AdminKey,    \* the one the server takes
          Unauthorized, NotFound, \* the answers 401 and 404
          None

ASSUME BrowserAssumption ==
  /\ MaxTask \in Nat /\ MaxRequests \in Nat /\ PageSize \in 1 .. 200
  /\ AdminKey \in Key /\ None \notin Key \union Int /\ Unauthorized # NotFound

Task == 1 .. MaxTask
View == {"all", "active"}

VARIABLES
  table,    \* Task -> "absent", "active", "final" or "purged"
  key,      \* what local storage holds
  authed, view, page, total,  \* the React states of these names
  tasks,    \* the rows shown
  selected, \* selectedId
  detail,   \* the task the detail pane shows, with its status
  answers   \* the bag of answers on their way

screen == <<view, page, tasks, total, selected, detail>>
vars == <<table, key, authed, screen, answers>>

\* The answer to a refresh and that for the detail pane, which knows whether
\* its effect was cleaned up meanwhile.
List == [tasks : SUBSET Task, total : 0 .. MaxTask]
Detail == [task : Task, status : {"active", "final"}]
Load == [detail : Detail \union {Unauthorized, NotFound}, cancelled : BOOLEAN]

\* The markers are no rows.
ASSUME MarkerAssumption == {None, Unauthorized, NotFound} \intersect (Detail \union Load \union List) = {}

Lists == BagToSet(answers) \ Load
Loads == BagToSet(answers) \intersect Load

ShownTypeOK ==
  /\ table \in [Task -> {"absent", "active", "final", "purged"}]
  /\ key \in Key \union {None} /\ authed \in BOOLEAN
  /\ view \in View /\ page \in 0 .. MaxTask
  /\ tasks \subseteq Task /\ Cardinality(tasks) <= PageSize /\ total \in 0 .. MaxTask
  /\ selected \in Task \union {None}
  /\ detail \in Detail \union {None}
  /\ Lists \subseteq List \union {Unauthorized}

BrowserTypeOK == ShownTypeOK /\ IsABag(answers) /\ BagCardinality(answers) <= MaxRequests

\* A key may be stored from an earlier visit, even one that has been changed.
Init ==
  /\ table = [t \in Task |-> "absent"]
  /\ key \in Key \union {None}
  /\ authed = (key # None)
  /\ view = "all" /\ page = 0 /\ tasks = {} /\ total = 0
  /\ selected = None /\ detail = None
  /\ answers = EmptyBag

-----------------------------------------------------------------------------
(***************************************************************************)
(* The server.                                                             *)
(***************************************************************************)

Matching(v) == { t \in Task : table[t] = "active" \/ (v = "all" /\ table[t] = "final") }

Newer(t, rows) == Cardinality({ u \in rows : u > t })

\* Fault: pages overlap by one row.
listTasksOffByOne(v, limit, offset) ==
  LET rows == Matching(v)
  IN  [tasks |-> { t \in rows : offset <= Newer(t, rows) /\ Newer(t, rows) <= offset + limit },
       total |-> Cardinality(rows)]

\* ORDER BY created_at DESC LIMIT ? OFFSET ?, and the count.
listTasks(v, limit, offset) ==
  LET rows == Matching(v)
  IN  [tasks |-> { t \in rows : offset <= Newer(t, rows) /\ Newer(t, rows) < offset + limit },
       total |-> Cardinality(rows)]

getTaskDetail(t) ==
  IF table[t] \in {"active", "final"} THEN [task |-> t, status |-> table[t]] ELSE NotFound

\* Tasks are created, finished, and purged with their channel.
Server ==
  /\ \/ \E t \in Task : /\ table[t] = "absent" /\ \A u \in 1 .. t - 1 : table[u] # "absent"
                        /\ table' = [table EXCEPT ![t] = "active"]
     \/ \E t \in Task : table[t] = "active" /\ table' = [table EXCEPT ![t] = "final"]
     \/ \E rows \in (SUBSET Matching("all")) \ {{}} :
          table' = [t \in Task |-> IF t \in rows THEN "purged" ELSE table[t]]
  /\ UNCHANGED <<key, authed, screen, answers>>

\* The pre-handler: every route of the screen asks for the admin key.
Guarded(read) == IF key = AdminKey THEN read ELSE Unauthorized

-----------------------------------------------------------------------------
(***************************************************************************)
(* The screen.                                                             *)
(***************************************************************************)

Send(a) == answers' = answers (+) SetToBag({a}) /\ BagCardinality(answers') <= MaxRequests

Refresh == Send(Guarded(listTasks(view, PageSize, page * PageSize)))

\* Fault: only the first page keeps itself up to date.
PollFirstPage ==
  /\ authed /\ page = 0
  /\ Refresh
  /\ UNCHANGED <<table, key, authed, screen>>

\* The timer, or the effect that runs after view, page or authed has changed.
Poll ==
  /\ authed
  /\ Refresh
  /\ UNCHANGED <<table, key, authed, screen>>

\* Fault: a refused key is reported like any other error.
LogOutNever == UNCHANGED <<key, authed>>

\* handleError on a 401: the stored key is forgotten and the gate asks again.
LogOut == key' = None /\ authed' = FALSE

Taken(a) == answers' = answers (-) SetToBag({a})

\* The answer to a refresh arrives: it is shown, whatever view and page are
\* now, even behind the gate.
Show(a) ==
  /\ Taken(a)
  /\ IF a = Unauthorized THEN LogOut /\ UNCHANGED <<tasks, total>>
                         ELSE tasks' = a.tasks /\ total' = a.total /\ UNCHANGED <<key, authed>>
  /\ UNCHANGED <<table, view, page, selected, detail>>

\* Fault: an answer is shown although another task was selected meanwhile.
ShowDetailOfAny(a) ==
  /\ Taken(a)
  /\ IF a.detail = Unauthorized THEN LogOut ELSE UNCHANGED <<key, authed>>
  /\ detail' = IF a.detail \in Detail THEN a.detail ELSE detail
  /\ UNCHANGED <<table, view, page, tasks, total, selected>>

\* The answer for the detail pane: dropped if the effect was cleaned up, but
\* a 401 counts even then; any other error is only displayed.
ShowDetail(a) ==
  /\ Taken(a)
  /\ IF a.detail = Unauthorized THEN LogOut ELSE UNCHANGED <<key, authed>>
  /\ detail' = IF a.detail \in Detail /\ ~a.cancelled THEN a.detail ELSE detail
  /\ UNCHANGED <<table, view, page, tasks, total, selected>>

\* A request or its answer is lost: an error banner.
Lose ==
  /\ \E a \in BagToSet(answers) : Taken(a)
  /\ UNCHANGED <<table, key, authed, screen>>

SetView(v) ==
  /\ authed
  /\ view' = v /\ page' = 0
  /\ UNCHANGED <<table, key, authed, tasks, total, selected, detail, answers>>

\* The pager is there only if the shown total exceeds one page.
TurnPage ==
  /\ authed /\ total > PageSize
  /\ \/ page > 0 /\ page' = page - 1
     \/ (page + 1) * PageSize < total /\ page' = page + 1
  /\ UNCHANGED <<table, key, authed, view, tasks, total, selected, detail, answers>>

\* A row is clicked: the effect of the old selection is cleaned up, the new
\* one asks once.
Select(t) ==
  /\ authed /\ t \in tasks /\ t # selected
  /\ selected' = t
  /\ LET Cancel(a) == IF a \in Load THEN [a EXCEPT !.cancelled = TRUE] ELSE a
         asked == [detail |-> Guarded(getTaskDetail(t)), cancelled |-> FALSE]
     IN  answers' = BagOfAll(Cancel, answers) (+) SetToBag({asked})
  /\ BagCardinality(answers') <= MaxRequests
  /\ UNCHANGED <<table, key, authed, view, page, tasks, total, detail>>

\* The gate: a key is entered.
Submit(k) ==
  /\ ~authed
  /\ key' = k /\ authed' = TRUE
  /\ UNCHANGED <<table, screen, answers>>

\* The button that disconnects.
Disconnect ==
  /\ authed
  /\ LogOut
  /\ UNCHANGED <<table, screen, answers>>

Next ==
  \/ Server
  \/ Poll
  \/ \E a \in Lists : Show(a)
  \/ \E a \in Loads : ShowDetail(a)
  \/ Lose
  \/ \E v \in View : SetView(v)
  \/ TurnPage
  \/ \E t \in Task : Select(t)
  \/ \E k \in Key : Submit(k)
  \/ Disconnect

Spec == Init /\ [][Next]_vars

\* The timer fires, and of the answers to refreshes not all are lost.
Fairness == WF_vars(Poll) /\ SF_vars(\E a \in Lists : Show(a)) /\ SF_vars(\E a \in Loads : ShowDetail(a))

LiveSpec == Spec /\ Fairness

-----------------------------------------------------------------------------
(***************************************************************************)
(* Properties.                                                             *)
(***************************************************************************)

(***************************************************************************)
(* Going through the pages of a table that stands still, as far as the     *)
(* pager goes, shows every task exactly once.                              *)
(***************************************************************************)
PagesPartition ==
  \A v \in View :
    LET last == { p \in 0 .. MaxTask : p = 0 \/ p * PageSize < listTasks(v, PageSize, 0).total }
        Rows(p) == listTasks(v, PageSize, p * PageSize).tasks
    IN  /\ \A t \in Matching(v) : \E p \in last : t \in Rows(p)
        /\ \A p, q \in last : p # q => Rows(p) \intersect Rows(q) = {}

(***************************************************************************)
(* The detail pane never changes to a task that is not the selected one,   *)
(* however late the answer for an earlier selection arrives.               *)
(***************************************************************************)
DetailFollowsSelection ==
  [][detail' # detail => detail' = None \/ detail'.task = selected']_vars

(***************************************************************************)
(* If tasks, view and page stand still, the list becomes and stays what    *)
(* the table holds of that page: no answer for another view or page, or    *)
(* from an earlier table, remains on the screen.                           *)
(***************************************************************************)
ListCatchesUp ==
  <>[](authed /\ key = AdminKey) /\ <>[][FALSE]_<<table, view, page>>
  => <>[]([tasks |-> tasks, total |-> total] = listTasks(view, PageSize, page * PageSize))

(***************************************************************************)
(* A user whose key is not taken is asked for another.                     *)
(***************************************************************************)
WrongKeyIsAskedFor == (authed /\ key # AdminKey) ~> (~authed \/ key = AdminKey)

-----------------------------------------------------------------------------
(***************************************************************************)
(* What the program's texts say of it, and the code does not do.           *)
(***************************************************************************)

\* apps/control-plane-ui/src/App.tsx:25: the gate is shown only without a key
\* or with a wrong one.  A late 401 for an earlier key throws away the right one.
GateOnlyForAWrongKey ==
  [][answers' # answers /\ authed /\ ~authed' => key # AdminKey]_vars

\* apps/control-plane-ui/src/App.tsx:228-229: an empty list says there are no
\* tasks.  On a page behind the last it says so too, and hides the pager.
EmptyMeansNone == authed /\ tasks = {} /\ total > 0 => page * PageSize < total

=============================================================================
