----------------------- MODULE ChannelRegistry_proofs -----------------------
(***************************************************************************)
(* Proofs about ChannelRegistry, for any channels and configurations, and  *)
(* about the admin screen of ChannelConsole in front of it.                *)
(*                                                                         *)
(* RuntimeReflectsRow is inductive once the types are known.  RowsForAll   *)
(* is too, as only remove deletes a row, and it ends the channel's runtime *)
(* and the references to it in the same step.  Both hold behind the screen *)
(* as well, because all it does to the registry are the registry's calls.  *)
(***************************************************************************)
EXTENDS ChannelConsole, TLAPS, FiniteSetTheorems

USE DEF Conf, Keys, FileKey

\* Serve puts a well-typed runtime into the map, or leaves the map alone.
LEMMA ServeType ==
  ASSUME NEW c \in Channel, NEW r \in RowType,
         runtime \in [Channel -> RuntimeType \union {None}], Serve(c, r)
  PROVE  /\ runtime' \in [Channel -> RuntimeType \union {None}]
         /\ \A d \in Channel \ {c} : runtime'[d] = runtime[d]
         /\ r.conf \in Sound => runtime'[c] = [key |-> r.key, conf |-> r.conf]
         /\ r.conf \notin Sound => runtime'[c] = runtime[c]
BY DEF Serve, RowType, RuntimeType

\* A start gives every channel a well-typed row, and no row disappears.
LEMMA SyncType ==
  ASSUME NEW listed \in SUBSET Channel, NEW conf \in Conf,
         row \in [Channel -> RowType \union {None}]
  PROVE  /\ syncFromConfig(listed, conf) \in [Channel -> RowType \union {None}]
         /\ \A c \in Channel : Exists(c) => syncFromConfig(listed, conf)[c] # None
<1>1. [source |-> "config", key |-> 0, conf |-> conf, disabled |-> FALSE] \in RowType
  BY RegistryAssumption DEF RowType
<1> QED
  BY <1>1, NoneAssumption DEF syncFromConfig, Exists

\* Only the rows of working configurations are loaded when the start succeeds.
LEMMA LoadType ==
  ASSUME NEW tab \in [Channel -> RowType \union {None}],
         ~ \E c \in Channel : tab[c] # None /\ ~tab[c].disabled /\ tab[c].conf \in Broken
  PROVE  /\ Loaded(tab) \in [Channel -> RuntimeType \union {None}]
         /\ \A c \in Channel : Loaded(tab)[c] # None => tab[c] # None
BY DEF Loaded, RowType, RuntimeType

\* Every reachable state is well typed: in particular a broken configuration
\* may be in the table, but is never served.
THEOREM RegistryTypeCorrect == Spec => []RegistryTypeOK
<1>1. Init => RegistryTypeOK
  BY RegistryAssumption DEF Init, RegistryTypeOK
<1>2. RegistryTypeOK /\ [Next]_vars => RegistryTypeOK'
  <2> SUFFICES ASSUME RegistryTypeOK, [Next]_vars PROVE RegistryTypeOK'
    OBVIOUS
  <2> USE RegistryAssumption DEF RegistryTypeOK
  <2>1. ASSUME NEW listed \in SUBSET Channel, NEW conf \in Conf, Boot(listed, conf)
        PROVE  RegistryTypeOK'
    <3>1. row' \in [Channel -> RowType \union {None}]
      BY <2>1, SyncType DEF Boot
    <3>2. runtime' \in [Channel -> RuntimeType \union {None}] /\ process' \in {"up", "failed"}
      BY <2>1, <3>1, LoadType DEF Boot
    <3> QED
      BY <2>1, <3>1, <3>2 DEF Boot
  <2>2. CASE Stop
    BY <2>2 DEF Stop
  <2>3. ASSUME NEW c \in Channel, NEW conf \in Conf, create(c, conf)
        PROVE  RegistryTypeOK'
    <3> DEFINE r == [source |-> "api", key |-> keys + 1, conf |-> conf, disabled |-> FALSE]
    <3>1. r \in RowType /\ keys' \in 0 .. MaxKeys
      BY <2>3 DEF create, RowType
    <3>2. runtime' \in [Channel -> RuntimeType \union {None}]
      BY <2>3, <3>1, ServeType DEF create
    <3>3. replaced' \subseteq Channel \X Keys
      BY <2>3 DEF create, Exists, RowType
    <3> QED
      BY <2>3, <3>1, <3>2, <3>3 DEF create
  <2>4. ASSUME NEW c \in Channel, NEW conf \in Conf, update(c, conf)
        PROVE  RegistryTypeOK'
    <3> DEFINE r == [row[c] EXCEPT !.conf = conf]
    <3>1. r \in RowType
      BY <2>4 DEF update, Editable, Exists, RowType
    <3>2. runtime' \in [Channel -> RuntimeType \union {None}]
      BY <2>4, <3>1, ServeType DEF update
    <3> QED
      BY <2>4, <3>1, <3>2 DEF update
  <2>5. ASSUME NEW c \in Channel, rotateKey(c)
        PROVE  RegistryTypeOK'
    <3> DEFINE r == [row[c] EXCEPT !.key = keys + 1]
    <3>1. r \in RowType /\ keys' \in 0 .. MaxKeys /\ row[c].key \in Keys
      BY <2>5 DEF rotateKey, Editable, Exists, RowType
    <3>2. runtime' \in [Channel -> RuntimeType \union {None}]
      BY <2>5, <3>1, ServeType DEF rotateKey
    <3>3. replaced' \subseteq Channel \X Keys
      BY <2>5, <3>1 DEF rotateKey
    <3>4. row' \in [Channel -> RowType \union {None}]
      BY <2>5, <3>1 DEF rotateKey
    <3> QED
      BY <2>5, <3>1, <3>2, <3>3, <3>4 DEF rotateKey
  <2>6. ASSUME NEW c \in Channel, disable(c)
        PROVE  RegistryTypeOK'
    BY <2>6 DEF disable, Editable, Exists, RowType
  <2>7. ASSUME NEW c \in Channel, NEW purge \in BOOLEAN, remove(c, purge)
        PROVE  RegistryTypeOK'
    BY <2>7 DEF remove
  <2>8. ASSUME NEW c \in Channel, Event(c)
        PROVE  RegistryTypeOK'
    BY <2>8 DEF Event
  <2>9. CASE UNCHANGED vars
    BY <2>9 DEF vars
  <2> QED
    BY <2>1, <2>2, <2>3, <2>4, <2>5, <2>6, <2>7, <2>8, <2>9 DEF Next
<1> QED
  BY <1>1, <1>2, PTL DEF Spec

\* An enabled channel with a working configuration is served with the key and
\* the settings of its row, whatever edits failed half-way before.
THEOREM RuntimeReflectsRowCorrect == Spec => []RuntimeReflectsRow
<1>1. Init => RuntimeReflectsRow
  BY DEF Init, RuntimeReflectsRow
<1>2. RegistryTypeOK /\ RuntimeReflectsRow /\ [Next]_vars => RuntimeReflectsRow'
  <2> SUFFICES ASSUME RegistryTypeOK, RuntimeReflectsRow, [Next]_vars,
                      process' = "up", NEW d \in Channel, Live(d)', row'[d].conf \in Sound
               PROVE  runtime'[d] = [key |-> row'[d].key, conf |-> row'[d].conf]
    BY DEF RuntimeReflectsRow
  <2> USE DEF RegistryTypeOK, RuntimeReflectsRow, Live, Exists
  <2>1. ASSUME NEW listed \in SUBSET Channel, NEW conf \in Conf, Boot(listed, conf)
        PROVE  runtime'[d] = [key |-> row'[d].key, conf |-> row'[d].conf]
    BY <2>1 DEF Boot, Loaded
  <2>2. CASE Stop
    BY <2>2 DEF Stop
  <2>3. ASSUME NEW c \in Channel, NEW conf \in Conf, create(c, conf)
        PROVE  runtime'[d] = [key |-> row'[d].key, conf |-> row'[d].conf]
    <3> DEFINE r == [source |-> "api", key |-> keys + 1, conf |-> conf, disabled |-> FALSE]
    <3>1. r \in RowType
      BY <2>3, RegistryAssumption DEF create, RowType
    <3>2. process = "up" /\ row' = [row EXCEPT ![c] = r] /\ Serve(c, r)
      BY <2>3 DEF create
    <3>3. CASE d = c
      BY <3>1, <3>2, <3>3, ServeType
    <3>4. CASE d # c
      <4>1. row'[d] = row[d] /\ runtime'[d] = runtime[d]
        BY ZenonT(60), <3>1, <3>2, <3>4, ServeType
      <4> QED
        BY <3>2, <4>1
    <3> QED
      BY <3>3, <3>4
  <2>4. ASSUME NEW c \in Channel, NEW conf \in Conf, update(c, conf)
        PROVE  runtime'[d] = [key |-> row'[d].key, conf |-> row'[d].conf]
    <3> DEFINE r == [row[c] EXCEPT !.conf = conf]
    <3>1. r \in RowType /\ r.disabled = row[c].disabled
      BY <2>4, RegistryAssumption DEF update, Editable, RowType
    <3>2. /\ process = "up" /\ row' = [row EXCEPT ![c] = r]
          /\ IF row[c].disabled THEN runtime' = runtime ELSE Serve(c, r)
      BY <2>4 DEF update, Editable
    <3>3. CASE d = c
      <4>1. row'[d] = r /\ ~row[c].disabled
        BY <3>1, <3>2, <3>3
      <4> QED
        BY <3>1, <3>2, <3>3, <4>1, ServeType
    <3>4. CASE d # c
      <4>1. row'[d] = row[d] /\ runtime'[d] = runtime[d]
        BY <3>1, <3>2, <3>4, ServeType
      <4> QED
        BY <3>2, <4>1
    <3> QED
      BY <3>3, <3>4
  <2>5. ASSUME NEW c \in Channel, rotateKey(c)
        PROVE  runtime'[d] = [key |-> row'[d].key, conf |-> row'[d].conf]
    <3> DEFINE r == [row[c] EXCEPT !.key = keys + 1]
    <3>1. r \in RowType
      BY <2>5, RegistryAssumption DEF rotateKey, Editable, RowType
    <3>2. process = "up" /\ row' = [row EXCEPT ![c] = r] /\ Serve(c, r)
      BY <2>5 DEF rotateKey, Editable
    <3>3. CASE d = c
      BY <3>1, <3>2, <3>3, ServeType
    <3>4. CASE d # c
      <4>1. row'[d] = row[d] /\ runtime'[d] = runtime[d]
        BY ZenonT(60), <3>1, <3>2, <3>4, ServeType
      <4> QED
        BY <3>2, <4>1
    <3> QED
      BY <3>3, <3>4
  <2>6. ASSUME NEW c \in Channel, disable(c)
        PROVE  runtime'[d] = [key |-> row'[d].key, conf |-> row'[d].conf]
    <3>1. d # c
      BY <2>6 DEF disable, Editable, RowType
    <3> QED
      BY <2>6, <3>1 DEF disable, Editable
  <2>7. ASSUME NEW c \in Channel, NEW purge \in BOOLEAN, remove(c, purge)
        PROVE  runtime'[d] = [key |-> row'[d].key, conf |-> row'[d].conf]
    BY <2>7 DEF remove, Editable
  <2>8. ASSUME NEW c \in Channel, Event(c)
        PROVE  runtime'[d] = [key |-> row'[d].key, conf |-> row'[d].conf]
    BY <2>8 DEF Event
  <2>9. CASE UNCHANGED vars
    BY <2>9 DEF vars
  <2> QED
    BY <2>1, <2>2, <2>3, <2>4, <2>5, <2>6, <2>7, <2>8, <2>9 DEF Next
<1> QED
  BY <1>1, <1>2, RegistryTypeCorrect, PTL DEF Spec

\* No event is taken for, and no record names, a channel without a row.
THEOREM RowsForAllCorrect == Spec => []RowsForAll
<1>1. Init => RowsForAll
  BY DEF Init, RowsForAll
<1>2. RegistryTypeOK /\ RegistryTypeOK' /\ RowsForAll /\ [Next]_vars => RowsForAll'
  <2> SUFFICES ASSUME RegistryTypeOK, RegistryTypeOK', RowsForAll, [Next]_vars,
                      NEW d \in Channel, d \in used' \/ runtime'[d] # None
               PROVE  row'[d] # None
    BY DEF RowsForAll, Exists
  <2> USE DEF RegistryTypeOK, RowsForAll, Exists
  <2>1. ASSUME NEW listed \in SUBSET Channel, NEW conf \in Conf, Boot(listed, conf)
        PROVE  row'[d] # None
    <3>1. row[d] # None => row'[d] # None
      BY <2>1, SyncType DEF Boot
    <3> QED
      BY <2>1, <3>1 DEF Boot, Loaded
  <2>2. CASE Stop
    BY <2>2 DEF Stop
  <2>3. ASSUME NEW c \in Channel, NEW conf \in Conf, create(c, conf)
        PROVE  row'[d] # None
    <3> DEFINE r == [source |-> "api", key |-> keys + 1, conf |-> conf, disabled |-> FALSE]
    <3>1. r \in RowType
      BY <2>3, RegistryAssumption DEF create, RowType
    <3>2. row' = [row EXCEPT ![c] = r] /\ Serve(c, r) /\ used' = used
      BY <2>3 DEF create
    <3> QED
      BY <3>1, <3>2, ServeType, NoneAssumption
  <2>4. ASSUME NEW c \in Channel, NEW conf \in Conf, update(c, conf)
        PROVE  row'[d] # None
    <3> DEFINE r == [row[c] EXCEPT !.conf = conf]
    <3>1. r \in RowType
      BY <2>4, RegistryAssumption DEF update, Editable, RowType
    <3>2. /\ row' = [row EXCEPT ![c] = r] /\ used' = used
          /\ runtime' = runtime \/ Serve(c, r)
      BY <2>4 DEF update
    <3> QED
      BY <3>1, <3>2, ServeType, NoneAssumption
  <2>5. ASSUME NEW c \in Channel, rotateKey(c)
        PROVE  row'[d] # None
    <3> DEFINE r == [row[c] EXCEPT !.key = keys + 1]
    <3>1. r \in RowType
      BY <2>5, RegistryAssumption DEF rotateKey, Editable, RowType
    <3>2. row' = [row EXCEPT ![c] = r] /\ Serve(c, r) /\ used' = used
      BY <2>5 DEF rotateKey
    <3> QED
      BY <3>1, <3>2, ServeType, NoneAssumption
  <2>6. ASSUME NEW c \in Channel, disable(c)
        PROVE  row'[d] # None
    <3>1. [row[c] EXCEPT !.disabled = TRUE] \in RowType
      BY ZenonT(60), <2>6 DEF disable, Editable, RowType
    <3> QED
      BY <2>6, <3>1, NoneAssumption DEF disable
  <2>7. ASSUME NEW c \in Channel, NEW purge \in BOOLEAN, remove(c, purge)
        PROVE  row'[d] # None
    BY <2>7 DEF remove
  <2>8. ASSUME NEW c \in Channel, Event(c)
        PROVE  row'[d] # None
    BY <2>8 DEF Event
  <2>9. CASE UNCHANGED vars
    BY <2>9 DEF vars
  <2> QED
    BY <2>1, <2>2, <2>3, <2>4, <2>5, <2>6, <2>7, <2>8, <2>9 DEF Next
<1> QED
  BY <1>1, <1>2, RegistryTypeCorrect, PTL DEF Spec

-----------------------------------------------------------------------------
(***************************************************************************)
(* The admin screen.                                                       *)
(***************************************************************************)

AskingType == asking \in Channel \union {None}

\* What a step does to the registry, and when it deletes records.
LEMMA ScreenSteps ==
  ASSUME AskingType, [Alone \/ SecondAdmin]_<<vars, console>>
  PROVE  /\ AskingType' /\ [Next]_vars
         /\ \A c \in Channel : c \in used /\ c \notin used' => asking = c
<1> DEFINE Kept == \A c \in Channel : c \in used /\ c \notin used' => asking = c
           Goal == AskingType' /\ [Next]_vars /\ Kept
<1> SUFFICES Goal
  OBVIOUS
<1> USE DEF AskingType
<1>1. ASSUME UNCHANGED vars, UNCHANGED asking
      PROVE  Goal
  BY <1>1 DEF vars
<1>2. ASSUME NEW c \in Channel, NEW conf \in Conf, create(c, conf) \/ update(c, conf), UNCHANGED asking
      PROVE  Goal
  BY <1>2 DEF Next, create, update
<1>3. ASSUME NEW c \in Channel, UNCHANGED asking,
             rotateKey(c) \/ disable(c) \/ Event(c)
      PROVE  Goal
  BY <1>3 DEF Next, rotateKey, disable, Event
<1>4. ASSUME NEW c \in Channel, UNCHANGED asking, remove(c, FALSE)
      PROVE  Goal
  BY <1>4 DEF Next, remove
<1>5. CASE Answer
  <2>1. asking' \in Channel \union {None}
    BY <1>5 DEF Answer
  <2>2. CASE remove(asking, TRUE)
    BY <1>5, <2>1, <2>2 DEF Answer, Next, remove
  <2>3. CASE UNCHANGED vars
    BY <2>1, <2>3 DEF vars
  <2> QED
    BY <1>5, <2>2, <2>3 DEF Answer
<1>6. CASE Operator
  <2>1. UNCHANGED asking
    BY <1>6 DEF Operator, console
  <2>2. ASSUME NEW listed \in SUBSET Channel, NEW conf \in Conf, Boot(listed, conf)
        PROVE  Goal
    BY <2>1, <2>2 DEF Next, Boot
  <2>3. CASE Stop
    BY <2>1, <2>3 DEF Next, Stop
  <2> QED
    BY <1>6, <2>2, <2>3 DEF Operator
<1>7. CASE SecondAdmin
  BY <1>2, <1>3, <1>4, <1>7 DEF SecondAdmin, console
<1>8. ASSUME NEW c \in Channel, NEW conf \in Sound, Create(c, conf) \/ SaveLabel(c, conf)
      PROVE  Goal
  <2>1. conf \in Conf /\ UNCHANGED asking
    BY <1>8 DEF Create, SaveLabel, console
  <2>2. create(c, conf) \/ update(c, conf)
    BY <1>8 DEF Create, SaveLabel
  <2> HIDE DEF Goal
  <2> QED
    BY <1>2, <2>1, <2>2
<1>9. ASSUME NEW c \in Channel, Rotate(c) \/ Disable(c) \/ Inject(c) \/ FromSource(c)
      PROVE  Goal
  BY <1>3, <1>9 DEF Rotate, Disable, Inject, FromSource, console
<1>10. ASSUME NEW c \in Channel, Remove(c)
       PROVE  Goal
  BY <1>1, <1>4, <1>10 DEF Remove, console
<1>11. ASSUME NEW c \in Channel, Ask(c)
       PROVE  Goal
  BY <1>11 DEF Ask, vars
<1>12. CASE Refresh \/ LoseList \/ Close \/ (\E rows \in lists : Show(rows))
            \/ (\E a \in issuing : ShowKey(a) \/ LoseKey(a))
  BY <1>1, <1>12 DEF Refresh, LoseList, Close, Show, ShowKey, LoseKey
<1>13. CASE UNCHANGED <<vars, console>>
  BY <1>1, <1>13 DEF console
<1> HIDE DEF Goal
<1>14. CASE Alone
  <2>1. ASSUME NEW c \in Channel,
               \/ \E conf \in Sound : Create(c, conf) \/ SaveLabel(c, conf)
               \/ Rotate(c) \/ Disable(c) \/ Inject(c) \/ Remove(c) \/ Ask(c) \/ FromSource(c)
        PROVE  Goal
    BY <1>8, <1>9, <1>10, <1>11, <2>1
  <2> QED
    BY <1>5, <1>6, <1>12, <1>14, <2>1 DEF Alone
<1> QED
  BY <1>7, <1>13, <1>14

LEMMA AskingTypeCorrect == ConsoleSpec => []AskingType
<1>1. ConsoleInit => AskingType
  BY DEF ConsoleInit, AskingType
<1>2. AskingType /\ [Alone \/ SecondAdmin]_<<vars, console>> => AskingType'
  BY ScreenSteps
<1> QED
  BY <1>1, <1>2, PTL DEF ConsoleSpec

(***************************************************************************)
(* Two admins, late answers and stale screens do nothing to the registry   *)
(* but call its methods.                                                   *)
(***************************************************************************)
THEOREM ScreenUsesTheRegistry == ConsoleSpec => Spec
<1>1. ConsoleInit => Init
  BY DEF ConsoleInit
<1>2. AskingType /\ [Alone \/ SecondAdmin]_<<vars, console>> => [Next]_vars
  BY ScreenSteps
<1> QED
  BY <1>1, <1>2, AskingTypeCorrect, PTL DEF ConsoleSpec, Spec

(***************************************************************************)
(* Behind the screen, memory and table agree as they do without it.        *)
(***************************************************************************)
THEOREM ScreenKeepsRegistry == ConsoleSpec => [](RuntimeReflectsRow /\ RowsForAll)
BY ScreenUsesTheRegistry, RuntimeReflectsRowCorrect, RowsForAllCorrect, PTL

(***************************************************************************)
(* The records of a channel are deleted only while the user is asked about *)
(* that channel, whatever is clicked on however old a screen.              *)
(***************************************************************************)
THEOREM NothingPurgedCorrect == ConsoleSpec => NothingPurgedUnasked
<1>1. AskingType /\ [Alone \/ SecondAdmin]_<<vars, console>>
      => [\A c \in Channel : c \in used /\ c \notin used' => asking = c]_<<vars, console>>
  BY ScreenSteps
<1> QED
  BY <1>1, AskingTypeCorrect, PTL DEF ConsoleSpec, NothingPurgedUnasked

-----------------------------------------------------------------------------
(***************************************************************************)
(* The types of the screen.  ConsoleTypeOK bounds the answers under way by *)
(* counting them; what is inductive is that there are finitely many, and   *)
(* that of those to a registration there is one if busy is set, and none   *)
(* otherwise.                                                              *)
(***************************************************************************)
Creates == { a \in issuing : a.by = "create" }

RowsShown ==
  /\ seen \in [Channel -> SeenRow \union {None}]
  /\ lists \subseteq [Channel -> SeenRow \union {None}]
  /\ IsFiniteSet(lists) /\ Cardinality(lists) <= MaxAnswers

KeysIssued ==
  /\ issued \in Issue \union {None}
  /\ issuing \subseteq [issue : Issue, by : {"create", "rotate"}]
  /\ IsFiniteSet(issuing) /\ Cardinality(issuing) <= MaxAnswers
  /\ busy \in BOOLEAN
  /\ \A a, b \in Creates : a = b
  /\ Creates # {} => busy

Deletions == refused \subseteq Channel /\ AskingType /\ fresh \subseteq Channel

ConsoleIInv == RegistryTypeOK /\ RowsShown /\ KeysIssued /\ Deletions

LEMMA RowsShownKept == RowsShown /\ UNCHANGED <<seen, lists>> => RowsShown'
BY DEF RowsShown

LEMMA KeysIssuedKept == KeysIssued /\ UNCHANGED <<issued, issuing, busy>> => KeysIssued'
BY DEF KeysIssued, Creates

LEMMA DeletionsKept == Deletions /\ UNCHANGED <<refused, asking, fresh>> => Deletions'
BY DEF Deletions, AskingType

\* An answer is taken from those under way.
LEMMA OneLess ==
  ASSUME NEW S, IsFiniteSet(S), Cardinality(S) <= MaxAnswers, NEW x
  PROVE  IsFiniteSet(S \ {x}) /\ Cardinality(S \ {x}) <= MaxAnswers
BY FS_Subset, FS_CardinalityType, ConsoleAssumption

\* The rows an answer carries are those of the table.
LEMMA ListedType == RegistryTypeOK => Listed \in [Channel -> SeenRow \union {None}]
BY DEF RegistryTypeOK, Listed, SeenRow, Exists, RowType

\* A new key joins those under way; if its registration set busy, no other
\* registration was under way.
LEMMA IssuingKeeps ==
  ASSUME KeysIssued, NEW c \in Channel, NEW by \in {"create", "rotate"}, keys' \in Keys,
         Issuing(c, by), issued' = issued,
         IF by = "create" THEN ~busy /\ busy' = TRUE ELSE busy' = busy
  PROVE  KeysIssued'
<1> DEFINE a == [issue |-> [channel |-> c, key |-> keys'], by |-> by]
<1>1. a \in [issue : Issue, by : {"create", "rotate"}] /\ a.by = by
  BY DEF Issue
<1> HIDE DEF a
<1>2. issuing' = issuing \union {a} /\ Cardinality(issuing') <= MaxAnswers
  BY DEF Issuing, a
<1>3. IsFiniteSet(issuing')
  BY <1>2, FS_AddElement DEF KeysIssued
<1>4. Creates' = IF by = "create" THEN Creates \union {a} ELSE Creates
  BY <1>1, <1>2 DEF Creates
<1> QED
  BY <1>1, <1>2, <1>3, <1>4 DEF KeysIssued

\* An answer with a key arrives or is lost.
LEMMA AnswerKeeps ==
  ASSUME KeysIssued, NEW a \in issuing, issuing' = issuing \ {a},
         issued' \in {issued, a.issue}, busy' = (busy /\ a.by # "create")
  PROVE  KeysIssued'
<1>1. IsFiniteSet(issuing') /\ Cardinality(issuing') <= MaxAnswers
  BY OneLess DEF KeysIssued
<1>2. issued' \in Issue \union {None} /\ issuing' \subseteq [issue : Issue, by : {"create", "rotate"}]
  BY DEF KeysIssued
<1>3. Creates' = Creates \ {a} /\ busy' \in BOOLEAN
  BY DEF Creates, KeysIssued
<1>4. Creates' # {} => busy'
  <2> SUFFICES ASSUME NEW b \in Creates, b # a PROVE busy'
    BY <1>3
  <2>1. busy /\ a \notin Creates
    BY DEF KeysIssued
  <2>2. a.by # "create"
    BY <2>1 DEF Creates
  <2> QED
    BY <2>1, <2>2
<1> QED
  BY <1>1, <1>2, <1>3, <1>4 DEF KeysIssued

LEMMA ConsoleStep ==
  ASSUME ConsoleIInv, RegistryTypeOK', [Alone \/ SecondAdmin]_<<vars, console>>
  PROVE  ConsoleIInv'
<1> DEFINE Goal == RowsShown' /\ KeysIssued' /\ Deletions'
<1> SUFFICES Goal
  BY DEF ConsoleIInv
<1>0. RegistryTypeOK /\ RowsShown /\ KeysIssued /\ Deletions /\ keys' \in Keys
  BY DEF ConsoleIInv, RegistryTypeOK
<1>1. ASSUME UNCHANGED console PROVE Goal
  BY <1>0, <1>1, RowsShownKept, KeysIssuedKept, DeletionsKept DEF console
<1>2. CASE Refresh
  <2>1. lists' = lists \union {Listed} /\ Cardinality(lists') <= MaxAnswers
    BY <1>2 DEF Refresh
  <2>2. IsFiniteSet(lists')
    BY <1>0, <2>1, FS_AddElement DEF RowsShown
  <2>3. RowsShown'
    BY <1>0, <1>2, <2>1, <2>2, ListedType DEF RowsShown, Refresh
  <2> QED
    BY <1>0, <1>2, <2>3, KeysIssuedKept, DeletionsKept DEF Refresh
<1>3. ASSUME NEW rows \in lists, lists' = lists \ {rows}, seen' \in {seen, rows},
             UNCHANGED <<issued, issuing, busy, refused, asking, fresh>>
      PROVE  Goal
  <2>1. IsFiniteSet(lists') /\ Cardinality(lists') <= MaxAnswers
    BY <1>0, <1>3, OneLess DEF RowsShown
  <2>2. RowsShown'
    BY <1>0, <1>3, <2>1 DEF RowsShown
  <2> QED
    BY <1>0, <1>3, <2>2, KeysIssuedKept, DeletionsKept
<1>4. ASSUME NEW c \in Channel, NEW conf \in Sound, Create(c, conf)
      PROVE  Goal
  <2>1. Issuing(c, "create") /\ ~busy /\ busy' = TRUE /\ UNCHANGED <<seen, lists, issued, refused, asking, fresh>>
    BY <1>4 DEF Create
  <2> QED
    BY <1>0, <2>1, IssuingKeeps, RowsShownKept, DeletionsKept
<1>5. ASSUME NEW c \in Channel, Rotate(c)
      PROVE  Goal
  <2>1. Issuing(c, "rotate") /\ UNCHANGED <<seen, lists, issued, busy, refused, asking, fresh>>
    BY <1>5 DEF Rotate
  <2> QED
    BY <1>0, <2>1, IssuingKeeps, RowsShownKept, DeletionsKept
<1>6. ASSUME NEW a \in issuing, ShowKey(a) \/ LoseKey(a)
      PROVE  Goal
  <2>1. /\ issuing' = issuing \ {a} /\ issued' \in {issued, a.issue} /\ busy' = (busy /\ a.by # "create")
        /\ UNCHANGED <<seen, lists, refused, asking, fresh>>
    BY <1>6 DEF ShowKey, LoseKey
  <2> QED
    BY <1>0, <2>1, AnswerKeeps, RowsShownKept, DeletionsKept
<1>7. CASE Close
  <2>1. KeysIssued'
    BY <1>0, <1>7 DEF Close, KeysIssued, Creates
  <2> QED
    BY <1>0, <1>7, <2>1, RowsShownKept, DeletionsKept DEF Close
<1>8. ASSUME UNCHANGED <<seen, lists, issued, issuing, busy>>,
             refused' \subseteq Channel, asking' \in Channel \union {None}, fresh' \subseteq Channel
      PROVE  Goal
  BY <1>0, <1>8, RowsShownKept, KeysIssuedKept DEF Deletions, AskingType
<1>9. ASSUME NEW c \in Channel, Disable(c) PROVE Goal
  BY <1>1, <1>9 DEF Disable
<1>10. ASSUME NEW c \in Channel, Inject(c) \/ FromSource(c)
       PROVE  Goal
  BY <1>0, <1>8, <1>10 DEF Inject, FromSource, Deletions, AskingType
<1>11. ASSUME NEW c \in Channel, Remove(c)
       PROVE  Goal
  <2>1. CASE UNCHANGED console
    BY <1>1, <2>1
  <2>2. CASE /\ refused' = refused \union {c} /\ fresh' = fresh \ {c}
             /\ UNCHANGED <<seen, lists, issued, issuing, busy, asking>>
    BY <1>0, <1>8, <2>2 DEF Deletions, AskingType
  <2> QED
    BY <1>11, <2>1, <2>2 DEF Remove
<1>12. ASSUME NEW c \in Channel, Ask(c)
       PROVE  Goal
  BY <1>0, <1>8, <1>12 DEF Ask, Deletions, AskingType
<1>13. CASE Answer
  BY <1>0, <1>8, <1>13 DEF Answer, Deletions, AskingType
<1>14. CASE Operator \/ SecondAdmin
  BY <1>1, <1>14 DEF Operator, SecondAdmin
<1>15. ASSUME NEW rows \in lists, Show(rows) PROVE Goal
  BY <1>3, <1>15 DEF Show
<1>16. CASE LoseList
  BY <1>3, <1>16 DEF LoseList
<1>17. ASSUME NEW c \in Channel, NEW conf \in Sound, SaveLabel(c, conf) PROVE Goal
  BY <1>1, <1>17 DEF SaveLabel
<1>18. CASE UNCHANGED <<vars, console>>
  BY <1>1, <1>18
<1> HIDE DEF Goal
<1>19. CASE Alone
  <2>1. ASSUME NEW c \in Channel,
               \/ \E conf \in Sound : Create(c, conf) \/ SaveLabel(c, conf)
               \/ Rotate(c) \/ Disable(c) \/ Inject(c) \/ Remove(c) \/ Ask(c) \/ FromSource(c)
        PROVE  Goal
    BY <1>4, <1>5, <1>9, <1>10, <1>11, <1>12, <1>17, <2>1
  <2> QED
    BY <1>2, <1>6, <1>7, <1>13, <1>14, <1>15, <1>16, <1>19, <2>1 DEF Alone
<1> QED
  BY <1>14, <1>18, <1>19

(***************************************************************************)
(* Whatever overtakes what, the screen shows rows and keys of the registry *)
(* and no more than one registration is under way.                         *)
(***************************************************************************)
THEOREM ConsoleTypeCorrect == ConsoleSpec => []ConsoleTypeOK
<1>1. ConsoleInit => RowsShown /\ KeysIssued /\ Deletions
  <2> SUFFICES ASSUME ConsoleInit PROVE RowsShown /\ KeysIssued /\ Deletions
    OBVIOUS
  <2>1. IsFiniteSet({}) /\ Cardinality({}) = 0
    BY FS_EmptySet
  <2>2. RowsShown
    BY <2>1, ConsoleAssumption DEF ConsoleInit, RowsShown
  <2>3. KeysIssued
    <3>1. issuing = {} /\ issued = None /\ busy = FALSE
      BY DEF ConsoleInit
    <3>2. Creates = {}
      BY <3>1 DEF Creates
    <3>3. IsFiniteSet(issuing) /\ Cardinality(issuing) <= MaxAnswers
      BY <2>1, <3>1, ConsoleAssumption
    <3> QED
      BY <3>1, <3>2, <3>3 DEF KeysIssued
  <2> QED
    BY <2>2, <2>3 DEF ConsoleInit, Deletions, AskingType
<1>2. RegistryTypeOK /\ RegistryTypeOK' /\ RowsShown /\ KeysIssued /\ Deletions
      /\ [Alone \/ SecondAdmin]_<<vars, console>>
      => (RowsShown /\ KeysIssued /\ Deletions)'
  BY ConsoleStep DEF ConsoleIInv
<1>3. ConsoleSpec => []RegistryTypeOK
  BY ScreenUsesTheRegistry, RegistryTypeCorrect, PTL
<1>4. RegistryTypeOK /\ RowsShown /\ KeysIssued /\ Deletions => ConsoleTypeOK
  <2> SUFFICES ASSUME RowsShown, KeysIssued
               PROVE  Cardinality(Creates) <= IF busy THEN 1 ELSE 0
    BY DEF RowsShown, KeysIssued, Deletions, AskingType, ConsoleTypeOK, Creates
  <2>1. CASE Creates = {}
    BY <2>1, FS_EmptySet
  <2>2. ASSUME NEW a \in Creates PROVE Cardinality(Creates) <= IF busy THEN 1 ELSE 0
    <3>1. Creates = {a} /\ busy
      BY <2>2 DEF KeysIssued
    <3>2. Cardinality({a}) = 1
      BY FS_Singleton
    <3> QED
      BY <3>1, <3>2
  <2> QED
    BY <2>1, <2>2
<1> QED
  BY <1>1, <1>2, <1>3, <1>4, PTL DEF ConsoleSpec

=============================================================================
