--------------------------- MODULE ChannelConsole ---------------------------
(***************************************************************************)
(* The channels of the admin screen (apps/control-plane-ui/src/App.tsx,    *)
(* Channels; api.ts) in front of the registry, with a second admin, the    *)
(* sources of events and restarts beside it.                               *)
(*                                                                         *)
(* A button is there if the rows last shown call for it, whatever the      *)
(* table holds now.  A new key comes back in an answer, and answers come   *)
(* in any order: of two rotations the one that arrives last is shown.  A   *)
(* deletion is asked for twice, the second time with purge, and between    *)
(* the two the user reads a dialog that stops everything on the screen.    *)
(*                                                                         *)
(* Abstractions: a click reaches the server at once, on a screen that may  *)
(* be arbitrarily old; an error leaves everything as it was but for the    *)
(* banner.  The numbers in the dialog are those at the refusal.            *)
(***************************************************************************)
EXTENDS ChannelRegistry

CONSTANT MaxAnswers  \* bound: answers of each kind under way

ASSUME ConsoleAssumption == MaxAnswers \in Nat \ {0}

VARIABLES
  seen,     \* Channel -> the row shown, or None
  lists,    \* the answers to refreshes on their way
  issued,   \* issuedKey
  issuing,  \* the answers with a new key on their way
  busy,     \* the flag of create
  refused,  \* the channels whose refused deletion is on its way back
  asking,   \* the channel the dialog asks about, or None
  fresh     \* the channels with records younger than the refusal (history)

console == <<seen, lists, issued, issuing, busy, refused, asking, fresh>>

SeenRow == [source : {"config", "api"}, disabled : BOOLEAN]
Issue == [channel : Channel, key : Keys]

ConsoleTypeOK ==
  /\ RegistryTypeOK
  /\ seen \in [Channel -> SeenRow \union {None}]
  /\ lists \subseteq [Channel -> SeenRow \union {None}] /\ Cardinality(lists) <= MaxAnswers
  /\ issued \in Issue \union {None}
  /\ issuing \subseteq [issue : Issue, by : {"create", "rotate"}] /\ Cardinality(issuing) <= MaxAnswers
  /\ Cardinality({ a \in issuing : a.by = "create" }) <= IF busy THEN 1 ELSE 0  \* one at a time
  /\ busy \in BOOLEAN
  /\ refused \subseteq Channel /\ asking \in Channel \union {None} /\ fresh \subseteq Channel

ConsoleInit ==
  /\ Init
  /\ seen = [c \in Channel |-> None] /\ lists = {}
  /\ issued = None /\ issuing = {} /\ busy = FALSE
  /\ refused = {} /\ asking = None /\ fresh = {}

-----------------------------------------------------------------------------
\* confirm() stops the script: nothing is shown or clicked before it is answered.
Free == asking = None

Listed == [c \in Channel |-> IF Exists(c) THEN [source |-> row[c].source, disabled |-> row[c].disabled]
                                          ELSE None]

\* Fault: the list is fetched when the screen opens, and not again.
RefreshOnce ==
  /\ Free /\ process = "up" /\ \A c \in Channel : seen[c] = None
  /\ lists' = lists \union {Listed} /\ Cardinality(lists') <= MaxAnswers
  /\ UNCHANGED <<vars, seen, issued, issuing, busy, refused, asking, fresh>>

\* The timer, or onChanged after a call; the answer is on its way.
Refresh ==
  /\ Free /\ process = "up"
  /\ lists' = lists \union {Listed} /\ Cardinality(lists') <= MaxAnswers
  /\ UNCHANGED <<vars, seen, issued, issuing, busy, refused, asking, fresh>>

\* It arrives, or is lost.
Show(rows) ==
  /\ Free
  /\ seen' = rows /\ lists' = lists \ {rows}
  /\ UNCHANGED <<vars, issued, issuing, busy, refused, asking, fresh>>

LoseList ==
  /\ \E rows \in lists : lists' = lists \ {rows}
  /\ UNCHANGED <<vars, seen, issued, issuing, busy, refused, asking, fresh>>

-----------------------------------------------------------------------------
(***************************************************************************)
(* Keys.                                                                   *)
(***************************************************************************)

Own(c) == seen[c] # None /\ seen[c].source = "api"

Issuing(c, by) ==
  /\ issuing' = issuing \union {[issue |-> [channel |-> c, key |-> keys'], by |-> by]}
  /\ Cardinality(issuing') <= MaxAnswers

\* The button is dead while a registration is under way.  One that the server
\* refuses, or does not answer, leaves no trace here.
Create(c, conf) ==
  /\ Free /\ ~busy
  /\ create(c, conf)
  /\ Issuing(c, "create")
  /\ busy' = TRUE
  /\ UNCHANGED <<seen, lists, issued, refused, asking, fresh>>

Rotate(c) ==
  /\ Free /\ Own(c) /\ ~seen[c].disabled
  /\ rotateKey(c)
  /\ Issuing(c, "rotate")
  /\ UNCHANGED <<seen, lists, issued, busy, refused, asking, fresh>>

\* The key is shown in the place of any other; the button comes back.
ShowKey(a) ==
  /\ Free
  /\ issued' = a.issue
  /\ issuing' = issuing \ {a}
  /\ busy' = (busy /\ a.by # "create")
  /\ UNCHANGED <<vars, seen, lists, refused, asking, fresh>>

\* Fault: busy is reset behind the call, not in a finally block.
LoseKeyStuck(a) ==
  /\ Free
  /\ issuing' = issuing \ {a}
  /\ UNCHANGED <<vars, seen, lists, issued, busy, refused, asking, fresh>>

\* The answer is lost, and the key with it; finally gives the button back.
LoseKey(a) ==
  /\ Free
  /\ issuing' = issuing \ {a}
  /\ busy' = (busy /\ a.by # "create")
  /\ UNCHANGED <<vars, seen, lists, issued, refused, asking, fresh>>

Close ==
  /\ Free /\ issued # None /\ issued' = None
  /\ UNCHANGED <<vars, seen, lists, issuing, busy, refused, asking, fresh>>

-----------------------------------------------------------------------------
(***************************************************************************)
(* The other buttons.                                                      *)
(***************************************************************************)

SaveLabel(c, conf) == Free /\ Own(c) /\ update(c, conf) /\ UNCHANGED console

Disable(c) == Free /\ Own(c) /\ ~seen[c].disabled /\ disable(c) /\ UNCHANGED console

Inject(c) ==
  /\ Free /\ seen[c] # None /\ ~seen[c].disabled
  /\ Event(c)
  /\ fresh' = fresh \union {c}
  /\ UNCHANGED <<seen, lists, issued, issuing, busy, refused, asking>>

\* Fault: the first call carries the flag of the second.
RemoveAtOnce(c) ==
  /\ Free /\ Own(c)
  /\ remove(c, TRUE)
  /\ UNCHANGED console

\* The first call: the channel goes if no record refers to it; otherwise 409
\* comes back, with the numbers.
Remove(c) ==
  /\ Free /\ Own(c)
  /\ \/ remove(c, FALSE) /\ UNCHANGED console
     \/ /\ Editable(c) /\ c \in used
        /\ refused' = refused \union {c} /\ fresh' = fresh \ {c}
        /\ UNCHANGED <<vars, seen, lists, issued, issuing, busy, asking>>

Ask(c) ==
  /\ Free /\ c \in refused
  /\ asking' = c /\ refused' = refused \ {c}
  /\ UNCHANGED <<vars, seen, lists, issued, issuing, busy, fresh>>

\* The dialog is left; the second call may be refused too.
Answer ==
  /\ asking # None
  /\ remove(asking, TRUE) \/ UNCHANGED vars
  /\ asking' = None
  /\ UNCHANGED <<seen, lists, issued, issuing, busy, refused, fresh>>

Operator ==
  /\ (\E listed \in SUBSET Channel, conf \in Conf : Boot(listed, conf)) \/ Stop
  /\ UNCHANGED console

\* Another screen, or the API; nothing is purged there.
SecondAdmin ==
  /\ \E c \in Channel :
       \/ \E conf \in Conf : create(c, conf) \/ update(c, conf)
       \/ rotateKey(c) \/ disable(c) \/ remove(c, FALSE)
  /\ UNCHANGED console

FromSource(c) ==
  /\ Event(c)
  /\ fresh' = fresh \union {c}
  /\ UNCHANGED <<seen, lists, issued, issuing, busy, refused, asking>>

Alone ==
  \/ Refresh
  \/ \E rows \in lists : Show(rows)
  \/ LoseList
  \/ \E c \in Channel :
       \/ \E conf \in Sound : Create(c, conf) \/ SaveLabel(c, conf)
       \/ Rotate(c) \/ Disable(c) \/ Inject(c) \/ Remove(c) \/ Ask(c) \/ FromSource(c)
  \/ \E a \in issuing : ShowKey(a) \/ LoseKey(a)
  \/ Close
  \/ Answer
  \/ Operator

AloneSpec == ConsoleInit /\ [][Alone]_<<vars, console>>
ConsoleSpec == ConsoleInit /\ [][Alone \/ SecondAdmin]_<<vars, console>>

\* The timer fires; every call is answered or fails, and not all refreshes fail.
ConsoleFairness ==
  /\ WF_console(Refresh)
  /\ SF_console(\E rows \in lists : Show(rows))
  /\ SF_console(\E a \in issuing : ShowKey(a) \/ LoseKey(a))

LiveConsoleSpec == ConsoleSpec /\ ConsoleFairness

-----------------------------------------------------------------------------
(***************************************************************************)
(* Properties, besides those of the registry.                              *)
(***************************************************************************)

(***************************************************************************)
(* Records go only with a channel the user was asked about in a dialog     *)
(* that is still open: neither a stale row, nor two deletions under way,   *)
(* nor events that arrive between the two calls purge anything unasked.    *)
(***************************************************************************)
NothingPurgedUnasked ==
  [][\A c \in Channel : c \in used /\ c \notin used' => asking = c]_<<vars, console>>

(***************************************************************************)
(* The button that registers channels comes back whatever becomes of a     *)
(* call, unless the user leaves a dialog unanswered.                       *)
(***************************************************************************)
RegisterComesBack == []<>(~busy \/ asking # None)

(***************************************************************************)
(* When the table stands still and the server is up, the screen comes to   *)
(* show it, however many older answers were on their way.                  *)
(***************************************************************************)
ConsoleCatchesUp ==
  <>[](process = "up" /\ Free) /\ <>[][FALSE]_row => <>[](seen = Listed)

-----------------------------------------------------------------------------
(***************************************************************************)
(* What the comments in App.tsx say of the screen, and it does not do.     *)
(***************************************************************************)

\* App.tsx:446-447: records are deleted only after the user was told how many
\* and has agreed.  Those that arrive while the dialog is open go unannounced.
PurgeIsAsAnnounced ==
  [][\A c \in Channel : c \in used /\ c \notin used' => c \notin fresh]_<<vars, console>>

\* App.tsx:71: what is shown is the key just issued.  Of two rotations the
\* answer of the earlier may arrive last, and stand there for good.
ShownKeyServes ==
  \A c \in Channel :
    issued # None /\ issued.channel = c /\ Live(c) /\ row[c].source = "api" /\ issuing = {}
    => row[c].key = issued.key

=============================================================================
