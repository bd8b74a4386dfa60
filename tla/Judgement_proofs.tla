-------------------------- MODULE Judgement_proofs --------------------------
(***************************************************************************)
(* Proofs about Judgement, and about the merge of Configuration it uses.   *)
(*                                                                         *)
(* The first half has no state: what deepMerge and compact make of each of *)
(* the files and environments there are, what a file says path by path,    *)
(* and that the policy made of the two means exactly what they say.  The   *)
(* merge is kept apart from the rest by these lemmas: nothing below them   *)
(* unfolds it.                                                             *)
(*                                                                         *)
(* The invariant adds to the properties that the policy of the gate is the *)
(* one of the file and the environment the worker was started with, and    *)
(* that a question on its way carries the configuration it was asked       *)
(* under: without the first the gate's answer says nothing about the       *)
(* operator's, without the second the catalogue of the answer is unknown.  *)
(***************************************************************************)
EXTENDS Judgement, SequenceTheorems, TLAPS

LEMMA Kinds ==
  /\ \A v : Leaf(v) # undefined /\ ~isPlainObject(Leaf(v))
  /\ \A f : Map(f) # undefined /\ isPlainObject(Map(f)) /\ Map(f).map = f
  /\ ~isPlainObject(undefined)
  /\ \A v, w : Leaf(v) = Leaf(w) => v = w
<1>1. \A v : DOMAIN Leaf(v) = {"value"}
  BY DEF Leaf
<1>2. \A f : DOMAIN Map(f) = {"map"}
  BY DEF Map
<1>3. DOMAIN undefined = {"undefined"}
  BY DEF undefined
<1>4. \A v, w : Leaf(v) = Leaf(w) => v = w
  <2> SUFFICES ASSUME NEW v, NEW w, Leaf(v) = Leaf(w) PROVE v = w
    OBVIOUS
  <2>1. Leaf(v).value = v /\ Leaf(w).value = w
    BY DEF Leaf
  <2> QED
    BY <2>1
<1>5. \A f : Map(f).map = f
  BY DEF Map
<1> QED
  BY <1>1, <1>2, <1>3, <1>4, <1>5 DEF isPlainObject

Keys == {"requireApproval", "autoPassLabels", "autoPassChannels"}

IsSection(s) ==
  /\ s = [k \in DOMAIN s |-> s[k]]
  /\ DOMAIN s \subseteq Keys
  /\ "requireApproval" \in DOMAIN s => \E b \in BOOLEAN : s["requireApproval"] = Leaf(b)
  /\ "autoPassLabels" \in DOMAIN s => \E L \in SUBSET Label : s["autoPassLabels"] = Leaf(L)
  /\ "autoPassChannels" \in DOMAIN s => \E C \in SUBSET Channel : s["autoPassChannels"] = Leaf(C)

LEMMA SectionsAre == ASSUME NEW s \in Section PROVE IsSection(s)
<1>1. PICK r \in Perhaps("requireApproval", BOOLEAN),
           l \in Perhaps("autoPassLabels", LabelLists),
           c \in Perhaps("autoPassChannels", ChannelLists) :
        s = Spread(Spread(r, l), c)
  BY DEF Section
<1> HIDE DEF Leaf
<1>2. r = empty \/ \E b \in BOOLEAN : r = [k \in {"requireApproval"} |-> Leaf(b)]
  BY JudgementAssumption DEF Perhaps, Property
<1>3. l = empty \/ \E L \in SUBSET Label : l = [k \in {"autoPassLabels"} |-> Leaf(L)]
  BY JudgementAssumption DEF Perhaps, Property
<1>4. c = empty \/ \E C \in SUBSET Channel : c = [k \in {"autoPassChannels"} |-> Leaf(C)]
  BY JudgementAssumption DEF Perhaps, Property
<1>5. DOMAIN empty = {}
  BY DEF empty
<1>6. s = [k \in (DOMAIN r \union DOMAIN l) \union DOMAIN c |->
             IF k \in DOMAIN c THEN c[k] ELSE IF k \in DOMAIN l THEN l[k] ELSE r[k]]
  BY <1>1 DEF Spread
<1> QED
  BY <1>2, <1>3, <1>4, <1>5, <1>6 DEF IsSection, Keys

LEMMA FilesAre == ASSUME NEW f \in File
                  PROVE  \/ f = Map(empty)
                         \/ f = StartGate(null)
                         \/ \E s : IsSection(s) /\ f = StartGate(Map(s))
  BY SectionsAre DEF File

-----------------------------------------------------------------------------
(***************************************************************************)
(* What the merge makes of each file.                                      *)
(***************************************************************************)

LEMMA EmptyIs ==
  /\ DOMAIN empty = {}
  /\ \A key, v : DOMAIN Property(key, v) = {key} /\ Property(key, v)[key] = v
  BY DEF empty, Property

LEMMA CompactLeaf == ASSUME NEW key, NEW v, ~isPlainObject(v), v # undefined
                     PROVE  compactSecond(Map(Property(key, v))) = Map(Property(key, v))
<1> HIDE DEF Map, undefined, isPlainObject
<1>1. Map(Property(key, v)).map = [k \in {key} |-> v]
  BY Kinds DEF Property
<1>2. Defined(Map(Property(key, v))) = {key}
  BY <1>1 DEF Defined
<1> QED
  BY <1>1, <1>2 DEF compactSecond, CompactBy, Property

LEMMA CompactNothing == ASSUME NEW key
                        PROVE  compactSecond(Map(Property(key, undefined))) = undefined
<1>1. Map(Property(key, undefined)).map = [k \in {key} |-> undefined]
  BY Kinds DEF Property
<1>2. Defined(Map(Property(key, undefined))) = {}
  BY <1>1 DEF Defined
<1> QED
  BY <1>1, <1>2 DEF compactSecond, CompactBy

LEMMA CompactSection == ASSUME NEW m, isPlainObject(m), m # undefined
                        PROVE  compact(StartGate(m)) =
                                 IF compactSecond(m) = undefined THEN undefined
                                 ELSE StartGate(compactSecond(m))
<1>1. StartGate(m).map = [k \in {"startGate"} |-> m]
  BY Kinds DEF StartGate, Property
<1>2. Defined(StartGate(m)) = {"startGate"}
  BY <1>1 DEF Defined
<1> QED
  BY <1>1, <1>2 DEF compact, CompactBy, StartGate, Property

LEMMA Override ==
  /\ Overrides(StartGate(Map(Property("requireApproval", undefined)))) = Map(empty)
  /\ \A b \in BOOLEAN :
       Overrides(StartGate(Map(Property("requireApproval", Leaf(b))))) =
         StartGate(Map(Property("requireApproval", Leaf(b))))
<1>2. \A m : StartGate(m) # undefined
  BY Kinds DEF StartGate
<1>3. compact(StartGate(Map(Property("requireApproval", undefined)))) = undefined
  BY CompactSection, CompactNothing, Kinds
<1>4. ASSUME NEW b \in BOOLEAN
      PROVE  compact(StartGate(Map(Property("requireApproval", Leaf(b))))) =
               StartGate(Map(Property("requireApproval", Leaf(b))))
  BY CompactSection, CompactLeaf, Kinds
<1> QED
  BY <1>2, <1>3, <1>4 DEF Overrides

\* What the environment adds to a section.
Added(e) == Property("requireApproval", Leaf(e # "false"))

LEMMA MergeNothing == ASSUME NEW f, f.map = [k \in DOMAIN f.map |-> f.map[k]]
                      PROVE  deepMerge(f, Map(empty)) = Map(f.map)
<1>1. Defined(Map(empty)) = {}
  BY Kinds, EmptyIs DEF Defined
<1>2. \A g : (g = [k \in DOMAIN g |-> g[k]]) => Spread(g, [k \in {} |-> undefined]) = g
  BY DEF Spread
<1>3. \A P : deepMerge(f, Map(empty)) = Map(Spread(f.map, [k \in {} |-> undefined]))
  BY <1>1 DEF deepMerge, MergeBy
<1> QED
  BY <1>2, <1>3

LEMMA MergeSection == ASSUME NEW s, NEW e
                      PROVE  mergeSecond(Map(s), Map(Added(e))) = Map(Spread(s, Added(e)))
<1> DEFINE p == Added(e)
<1>1. p = [k \in {"requireApproval"} |-> Leaf(e # "false")]
  BY DEF Added, Property
<1>2. Defined(Map(p)) = {"requireApproval"}
  BY <1>1, Kinds DEF Defined
<1>3. ~isPlainObject(Map(p).map["requireApproval"])
  BY <1>1, Kinds
<1>4. mergeSecond(Map(s), Map(p)) = Map(Spread(s, [k \in {"requireApproval"} |-> p[k]]))
  BY <1>2, <1>3, Kinds DEF mergeSecond, MergeBy
<1> QED
  BY <1>1, <1>4

LEMMA MergeFile == ASSUME NEW f, NEW e, isPlainObject(f), DOMAIN f.map \subseteq {"startGate"}
                   PROVE  deepMerge(f, StartGate(Map(Added(e)))) =
                            StartGate(IF "startGate" \in DOMAIN f.map /\ isPlainObject(f.map["startGate"])
                                      THEN mergeSecond(f.map["startGate"], Map(Added(e)))
                                      ELSE Map(Added(e)))
<1> DEFINE m == Map(Added(e))
           g == IF "startGate" \in DOMAIN f.map /\ isPlainObject(f.map["startGate"])
                THEN mergeSecond(f.map["startGate"], m) ELSE m
<1>1. StartGate(m).map = [k \in {"startGate"} |-> m]
  BY Kinds DEF StartGate, Property
<1>2. isPlainObject(m) /\ m # undefined
  BY Kinds
<1>3. Defined(StartGate(m)) = {"startGate"}
  BY <1>1, <1>2 DEF Defined
<1> HIDE DEF m
<1>4. deepMerge(f, StartGate(m)) = Map(Spread(f.map, [k \in {"startGate"} |-> g]))
  BY <1>1, <1>2, <1>3 DEF deepMerge, MergeBy
<1>5. Spread(f.map, [k \in {"startGate"} |-> g]) = [k \in {"startGate"} |-> g]
  BY DEF Spread
<1> QED
  BY <1>4, <1>5 DEF StartGate, Property, m

LEMMA MergedIs == ASSUME NEW e \in Env
                  PROVE  /\ e = "" => \A f \in File : Merged(f, e) = f
                         /\ e # "" => /\ Merged(Map(empty), e) = StartGate(Map(Added(e)))
                                      /\ Merged(StartGate(null), e) = StartGate(Map(Added(e)))
                                      /\ \A s : Merged(StartGate(Map(s)), e) =
                                                  StartGate(Map(Spread(s, Added(e))))
<1>1. ASSUME e = "", NEW f \in File PROVE Merged(f, e) = f
  <2>1. Merged(f, e) = deepMerge(f, Map(empty))
    BY <1>1, Override DEF Merged, RequireApproval
  <2>2. PICK g : f = Map(g) /\ g = [k \in DOMAIN g |-> g[k]]
    <3>1. empty = [k \in DOMAIN empty |-> empty[k]]
      BY DEF empty
    <3>2. \A v : Property("startGate", v) = [k \in DOMAIN Property("startGate", v) |-> Property("startGate", v)[k]]
      BY DEF Property
    <3> QED
      BY <3>1, <3>2, FilesAre DEF StartGate
  <2> QED
    BY <2>1, <2>2, MergeNothing, Kinds
<1>2. ASSUME e # "", NEW f PROVE Merged(f, e) = deepMerge(f, StartGate(Map(Added(e))))
  BY <1>2, Override DEF Merged, RequireApproval, Added
<1>3. ASSUME e # "" PROVE Merged(Map(empty), e) = StartGate(Map(Added(e)))
  BY <1>2, <1>3, MergeFile, Kinds, EmptyIs
<1>4. ASSUME NEW v
      PROVE  deepMerge(StartGate(v), StartGate(Map(Added(e)))) =
               StartGate(IF isPlainObject(v) THEN mergeSecond(v, Map(Added(e))) ELSE Map(Added(e)))
  <2> DEFINE f == StartGate(v)
  <2>1. isPlainObject(f) /\ DOMAIN f.map = {"startGate"} /\ f.map["startGate"] = v
    BY Kinds, EmptyIs DEF StartGate
  <2> HIDE DEF f
  <2>2. deepMerge(f, StartGate(Map(Added(e)))) =
          StartGate(IF isPlainObject(v) THEN mergeSecond(v, Map(Added(e))) ELSE Map(Added(e)))
    BY <2>1, MergeFile
  <2> QED
    BY <2>2 DEF f
<1>5. ASSUME e # "" PROVE Merged(StartGate(null), e) = StartGate(Map(Added(e)))
  <2>1. ~isPlainObject(null)
    BY Kinds DEF null
  <2> QED
    BY <1>2, <1>4, <1>5, <2>1
<1>6. ASSUME e # "", NEW s
      PROVE  Merged(StartGate(Map(s)), e) = StartGate(Map(Spread(s, Added(e))))
  <2>1. isPlainObject(Map(s))
    BY Kinds
  <2>2. mergeSecond(Map(s), Map(Added(e))) = Map(Spread(s, Added(e)))
    BY MergeSection
  <2> QED
    BY <1>2, <1>4, <1>6, <2>1, <2>2
<1> QED
  BY <1>1, <1>3, <1>5, <1>6

LEMMA SpreadIs == ASSUME NEW s, NEW e
                  PROVE  /\ DOMAIN Spread(s, Added(e)) = DOMAIN s \union {"requireApproval"}
                         /\ Spread(s, Added(e))["requireApproval"] = Leaf(e # "false")
                         /\ \A k \in DOMAIN s : k # "requireApproval" => Spread(s, Added(e))[k] = s[k]
                         /\ Spread(s, Added(e)) = [k \in DOMAIN Spread(s, Added(e)) |-> Spread(s, Added(e))[k]]
<1> DEFINE p == Added(e)
<1>1. DOMAIN p = {"requireApproval"} /\ p["requireApproval"] = Leaf(e # "false")
  BY EmptyIs DEF Added
<1> HIDE DEF p
<1>2. Spread(s, p) = [k \in DOMAIN s \union {"requireApproval"} |->
                       IF k = "requireApproval" THEN Leaf(e # "false") ELSE s[k]]
  BY <1>1 DEF Spread
<1> QED
  BY <1>2 DEF p

LEMMA StillSection == ASSUME NEW e
                      PROVE  /\ \A s : IsSection(s) => IsSection(Spread(s, Added(e)))
                             /\ IsSection(Added(e))
                             /\ IsSection(empty)
                             /\ Spread(empty, Added(e)) = Added(e)
<1>1. ASSUME NEW s, IsSection(s) PROVE IsSection(Spread(s, Added(e)))
  <2> DEFINE t == Spread(s, Added(e))
  <2>1. /\ DOMAIN t = DOMAIN s \union {"requireApproval"}
        /\ t["requireApproval"] = Leaf(e # "false")
        /\ \A k \in DOMAIN s : k # "requireApproval" => t[k] = s[k]
        /\ t = [k \in DOMAIN t |-> t[k]]
    BY SpreadIs
  <2> HIDE DEF t
  <2>2. DOMAIN t \subseteq Keys
    BY <1>1, <2>1 DEF IsSection, Keys
  <2>3. \E b \in BOOLEAN : t["requireApproval"] = Leaf(b)
    BY <2>1, (e # "false") \in BOOLEAN
  <2>4. "autoPassLabels" \in DOMAIN t => \E L \in SUBSET Label : t["autoPassLabels"] = Leaf(L)
    BY <1>1, <2>1 DEF IsSection
  <2>5. "autoPassChannels" \in DOMAIN t => \E C \in SUBSET Channel : t["autoPassChannels"] = Leaf(C)
    BY <1>1, <2>1 DEF IsSection
  <2>6. IsSection(t)
    BY <2>1, <2>2, <2>3, <2>4, <2>5 DEF IsSection
  <2> QED
    BY <2>6 DEF t
<1>2. IsSection(empty)
  BY EmptyIs DEF IsSection, Keys, empty
<1>3. Spread(empty, Added(e)) = Added(e)
  BY DEF Spread, Added, empty, Property
<1> QED
  BY <1>1, <1>2, <1>3

-----------------------------------------------------------------------------
(***************************************************************************)
(* What each file says, path by path.                                      *)
(***************************************************************************)

LEMMA Joined == ASSUME NEW a, NEW b PROVE <<a>> \o <<b>> = <<a, b>>
<1> DEFINE S == {a, b}
           s == <<a>> \o <<b>>
           t == <<a, b>>
<1>1. /\ <<a>> \in Seq(S) /\ Len(<<a>>) = 1 /\ <<a>>[1] = a
      /\ <<b>> \in Seq(S) /\ Len(<<b>>) = 1 /\ <<b>>[1] = b
  OBVIOUS
<1>2. s \in Seq(S) /\ Len(s) = 2 /\ s[1] = a /\ s[2] = b
  BY <1>1
<1>3. t \in Seq(S) /\ Len(t) = 2 /\ t[1] = a /\ t[2] = b
  OBVIOUS
<1> HIDE DEF s, t
<1>4. Len(s) = Len(t) /\ \A i \in 1 .. Len(s) : s[i] = t[i]
  BY <1>2, <1>3
<1>5. s = t
  BY <1>2, <1>3, <1>4, SeqEqual
<1> QED
  BY <1>5 DEF s, t

LEMMA UnderOne == ASSUME NEW key, NEW v
                  PROVE  Under(key, { [at |-> <<>>, says |-> v] }) = { [at |-> <<key>>, says |-> v] }
<1> DEFINE p == [at |-> <<>>, says |-> v]
<1>1. <<key>> \o p.at = <<key>> /\ p.says = v
  OBVIOUS
<1>2. Prefixed(key, p) = [at |-> <<key>>, says |-> v]
  BY <1>1 DEF Prefixed
<1> HIDE DEF p
<1>3. Under(key, {p}) = {Prefixed(key, p)}
  BY DEF Under
<1> QED
  BY <1>2, <1>3 DEF p

LEMMA UnderSection ==
  ASSUME NEW key, NEW s
  PROVE  Under(key, { [at |-> <<k>>, says |-> s[k]] : k \in DOMAIN s }) =
           { [at |-> <<key, k>>, says |-> s[k]] : k \in DOMAIN s }
<1> DEFINE p(k) == [at |-> <<k>>, says |-> s[k]]
           longer(k) == [at |-> <<key, k>>, says |-> s[k]]
<1>1. \A k : Prefixed(key, p(k)) = longer(k)
  BY Joined DEF Prefixed
<1> HIDE DEF p, longer
<1>2. Under(key, { p(k) : k \in DOMAIN s }) = { longer(k) : k \in DOMAIN s }
  BY <1>1 DEF Under
<1> QED
  BY <1>2 DEF p, longer

LEMMA PathsOfSection ==
  ASSUME NEW s, IsSection(s)
  PROVE  pathsSecond(Map(s)) = { [at |-> <<k>>, says |-> s[k]] : k \in DOMAIN s }
<1>1. \A k \in DOMAIN s : ~isPlainObject(s[k])
  BY Kinds DEF IsSection, Keys
<1>2. \A k \in DOMAIN s : pathsThird(s[k]) = { [at |-> <<>>, says |-> s[k]] }
  BY <1>1 DEF pathsThird, PathsBy
<1>3. isPlainObject(Map(s)) /\ Map(s).map = s
  BY Kinds
<1>4. pathsSecond(Map(s)) = UNION { Under(k, pathsThird(s[k])) : k \in DOMAIN s }
  BY <1>3 DEF pathsSecond, PathsBy
<1>5. ASSUME NEW k \in DOMAIN s
      PROVE  Under(k, pathsThird(s[k])) = { [at |-> <<k>>, says |-> s[k]] }
  BY <1>2, UnderOne
<1> QED
  BY <1>4, <1>5

LEMMA PathsOfFile ==
  /\ Paths(Map(empty)) = {}
  /\ Paths(StartGate(null)) = { [at |-> <<"startGate">>, says |-> null] }
  /\ \A s : IsSection(s) =>
        Paths(StartGate(Map(s))) = { [at |-> <<"startGate", k>>, says |-> s[k]] : k \in DOMAIN s }
<1>1. Paths(Map(empty)) = {}
  BY Kinds, EmptyIs DEF Paths, PathsBy
<1>2. ASSUME NEW v PROVE Paths(StartGate(v)) = Under("startGate", pathsSecond(v))
  <2>1. isPlainObject(StartGate(v)) /\ StartGate(v).map = [k \in {"startGate"} |-> v]
    BY Kinds DEF StartGate, Property
  <2>2. Paths(StartGate(v)) = UNION { Under(k, pathsSecond(StartGate(v).map[k])) : k \in DOMAIN StartGate(v).map }
    BY <2>1 DEF Paths, PathsBy
  <2> QED
    BY <2>1, <2>2
<1>3. pathsSecond(null) = { [at |-> <<>>, says |-> null] }
  BY Kinds DEF pathsSecond, PathsBy, null
<1>4. Paths(StartGate(null)) = { [at |-> <<"startGate">>, says |-> null] }
  BY <1>2, <1>3, UnderOne
<1>5. ASSUME NEW s, IsSection(s)
      PROVE  Paths(StartGate(Map(s))) = { [at |-> <<"startGate", k>>, says |-> s[k]] : k \in DOMAIN s }
  BY <1>2, <1>5, PathsOfSection, UnderSection
<1> QED
  BY <1>1, <1>4, <1>5

\* One key of one section against another, and against the section as a whole.
LEMMA Ways == /\ \A a, k, l : SameWay(<<a, k>>, <<a, l>>) <=> k = l
              /\ \A a, l : SameWay(<<a>>, <<a, l>>)
<1>1. ASSUME NEW a, NEW k, NEW l PROVE SameWay(<<a, k>>, <<a, l>>) <=> k = l
  <2>1. /\ DOMAIN <<a, k>> = 1 .. 2 /\ <<a, k>>[1] = a /\ <<a, k>>[2] = k
        /\ DOMAIN <<a, l>> = 1 .. 2 /\ <<a, l>>[1] = a /\ <<a, l>>[2] = l
    OBVIOUS
  <2>2. \A i : i \in 1 .. 2 <=> i = 1 \/ i = 2
    OBVIOUS
  <2> DEFINE p == <<a, k>>
             q == <<a, l>>
  <2> HIDE DEF p, q
  <2>3. SameWay(p, q) <=> k = l
    BY <2>1, <2>2 DEF SameWay, p, q
  <2> QED
    BY <2>3 DEF p, q
<1>2. ASSUME NEW a, NEW l PROVE SameWay(<<a>>, <<a, l>>)
  <2>1. DOMAIN <<a>> = 1 .. 1 /\ <<a>>[1] = a /\ <<a, l>>[1] = a
    OBVIOUS
  <2>2. \A i \in DOMAIN <<a>> : i = 1
    BY <2>1
  <2> QED
    BY <2>1, <2>2 DEF SameWay
<1> QED
  BY <1>1, <1>2

LEMMA OverlayNothing == ASSUME NEW f PROVE Overlay(f, Map(empty)) = Paths(f)
  BY PathsOfFile DEF Overlay

LEMMA PathsOfAdded ==
  ASSUME NEW e
  PROVE  Paths(StartGate(Map(Added(e)))) =
           { [at |-> <<"startGate", "requireApproval">>, says |-> Leaf(e # "false")] }
<1>1. Paths(StartGate(Map(Added(e)))) =
        { [at |-> <<"startGate", k>>, says |-> Added(e)[k]] : k \in DOMAIN Added(e) }
  BY PathsOfFile, StillSection
<1>2. DOMAIN Added(e) = {"requireApproval"} /\ Added(e)["requireApproval"] = Leaf(e # "false")
  BY EmptyIs DEF Added
<1> QED
  BY <1>1, <1>2

LEMMA OverlayKey ==
  ASSUME NEW f, NEW e
  PROVE  Overlay(f, StartGate(Map(Added(e)))) =
           { [at |-> <<"startGate", "requireApproval">>, says |-> Leaf(e # "false")] }
           \union { b \in Paths(f) : ~SameWay(b.at, <<"startGate", "requireApproval">>) }
<1> DEFINE q == [at |-> <<"startGate", "requireApproval">>, says |-> Leaf(e # "false")]
<1>3. Paths(StartGate(Map(Added(e)))) = {q}
  BY PathsOfAdded
<1>4. q.at = <<"startGate", "requireApproval">>
  OBVIOUS
<1> HIDE DEF q
<1>5. Overlay(f, StartGate(Map(Added(e)))) = {q} \union { b \in Paths(f) : ~SameWay(b.at, q.at) }
  BY <1>3 DEF Overlay
<1> QED
  BY <1>4, <1>5 DEF q

LEMMA PathwiseOverSection ==
  ASSUME NEW s, IsSection(s), NEW e
  PROVE  Paths(StartGate(Map(Spread(s, Added(e))))) = Overlay(StartGate(Map(s)), StartGate(Map(Added(e))))
<1> DEFINE t == Spread(s, Added(e))
           path(g, k) == [at |-> <<"startGate", k>>, says |-> g[k]]
           q == [at |-> <<"startGate", "requireApproval">>, says |-> Leaf(e # "false")]
<1>1. /\ DOMAIN t = DOMAIN s \union {"requireApproval"}
      /\ t["requireApproval"] = Leaf(e # "false")
      /\ \A k \in DOMAIN s : k # "requireApproval" => t[k] = s[k]
  BY SpreadIs
<1>2. Paths(StartGate(Map(t))) = { path(t, k) : k \in DOMAIN t }
  BY StillSection, PathsOfFile
<1>3. Paths(StartGate(Map(s))) = { path(s, k) : k \in DOMAIN s }
  BY PathsOfFile
<1>4. \A k : SameWay(path(s, k).at, <<"startGate", "requireApproval">>) <=> k = "requireApproval"
  BY Ways
<1>5. path(t, "requireApproval") = q
  BY <1>1
<1>6. \A k \in DOMAIN s : k # "requireApproval" => path(t, k) = path(s, k)
  BY <1>1
<1>7. Overlay(StartGate(Map(s)), StartGate(Map(Added(e)))) =
        {q} \union { b \in Paths(StartGate(Map(s))) : ~SameWay(b.at, <<"startGate", "requireApproval">>) }
  BY OverlayKey
<1> HIDE DEF t, path, q
<1>8. { path(t, k) : k \in DOMAIN t } =
        {q} \union { b \in { path(s, k) : k \in DOMAIN s } :
                      ~SameWay(b.at, <<"startGate", "requireApproval">>) }
  BY <1>1, <1>4, <1>5, <1>6
<1> QED
  BY <1>2, <1>3, <1>7, <1>8 DEF t

LEMMA Pathwise ==
  ASSUME NEW f \in File, NEW e \in Env
  PROVE  Paths(Merged(f, e)) =
           Overlay(f, IF e = "" THEN Map(empty)
                      ELSE StartGate(Map(Property("requireApproval", Leaf(e # "false")))))
<1>1. CASE e = ""
  BY <1>1, MergedIs, OverlayNothing
<1>2. CASE e # ""
  <2> DEFINE q == [at |-> <<"startGate", "requireApproval">>, says |-> Leaf(e # "false")]
  <2> SUFFICES Paths(Merged(f, e)) = Overlay(f, StartGate(Map(Added(e))))
    BY <1>2 DEF Added
  <2>1. Paths(StartGate(Map(Added(e)))) = {q}
    BY PathsOfAdded
  <2>2. Overlay(f, StartGate(Map(Added(e)))) =
          {q} \union { b \in Paths(f) : ~SameWay(b.at, <<"startGate", "requireApproval">>) }
    BY OverlayKey
  <2>3. CASE f = Map(empty)
    BY <1>2, <2>1, <2>2, <2>3, MergedIs, PathsOfFile
  <2>4. CASE f = StartGate(null)
    <3>1. \A b \in Paths(f) : SameWay(b.at, <<"startGate", "requireApproval">>)
      BY <2>4, PathsOfFile, Ways
    <3> QED
      BY <1>2, <2>1, <2>2, <2>4, <3>1, MergedIs
  <2>5. ASSUME NEW s, IsSection(s), f = StartGate(Map(s))
        PROVE  Paths(Merged(f, e)) = Overlay(f, StartGate(Map(Added(e))))
    BY <1>2, <2>5, MergedIs, PathwiseOverSection
  <2> QED
    BY <2>3, <2>4, <2>5, FilesAre
<1> QED
  BY <1>1, <1>2

-----------------------------------------------------------------------------
(***************************************************************************)
(* What the policy of the gate means: exactly what the file says, where the *)
(* environment does not say otherwise.                                     *)
(***************************************************************************)

Given(s, key, default) == IF key \in DOMAIN s THEN s[key].value ELSE default

PolicyOf(s) == [requireApproval  |-> Given(s, "requireApproval", TRUE),
                autoPassLabels   |-> Given(s, "autoPassLabels", {}),
                autoPassChannels |-> Given(s, "autoPassChannels", {})]

LEMMA LeafIs == \A v : Leaf(v).value = v
  BY DEF Leaf

LEMMA ParsedIs == /\ Parsed(Map(empty)) = PolicyOf(empty)
                  /\ Parsed(StartGate(null)) = None
                  /\ \A s : Parsed(StartGate(Map(s))) = PolicyOf(s)
<1>1. Parsed(Map(empty)) = PolicyOf(empty)
  BY Kinds, EmptyIs DEF Parsed, PolicyOf, Given
<1>2. \A v : StartGate(v).map = [k \in {"startGate"} |-> v]
  BY Kinds DEF StartGate, Property
<1>3. ~isPlainObject(null)
  BY Kinds DEF null
<1>4. Parsed(StartGate(null)) = None
  BY <1>2, <1>3 DEF Parsed
<1>5. ASSUME NEW s PROVE Parsed(StartGate(Map(s))) = PolicyOf(s)
  <2> DEFINE m == StartGate(Map(s))
  <2>1. /\ "startGate" \in DOMAIN m.map
        /\ isPlainObject(m.map["startGate"])
        /\ m.map["startGate"].map = s
    <3>1. m.map = [k \in {"startGate"} |-> Map(s)]
      BY <1>2
    <3>2. "startGate" \in DOMAIN m.map /\ m.map["startGate"] = Map(s)
      BY <3>1
    <3> QED
      BY <3>2, Kinds
  <2> HIDE DEF m
  <2>2. Parsed(m) = PolicyOf(s)
    BY <2>1 DEF Parsed, PolicyOf, Given
  <2> QED
    BY <2>2 DEF m
<1> QED
  BY <1>1, <1>4, <1>5

LEMMA LoadedIs ==
  ASSUME NEW e \in Env
  PROVE  /\ loadWorkerConfig(Map(empty), e) = IF e = "" THEN PolicyOf(empty) ELSE PolicyOf(Added(e))
         /\ loadWorkerConfig(StartGate(null), e) = IF e = "" THEN None ELSE PolicyOf(Added(e))
         /\ \A s : StartGate(Map(s)) \in File =>
              loadWorkerConfig(StartGate(Map(s)), e) =
                IF e = "" THEN PolicyOf(s) ELSE PolicyOf(Spread(s, Added(e)))
<1>1. Map(empty) \in File /\ StartGate(null) \in File
  BY DEF File
<1>2. \A f \in File : e = "" => loadWorkerConfig(f, e) = Parsed(f)
  BY MergedIs DEF loadWorkerConfig
<1>3. e # "" => /\ loadWorkerConfig(Map(empty), e) = Parsed(StartGate(Map(Added(e))))
                /\ loadWorkerConfig(StartGate(null), e) = Parsed(StartGate(Map(Added(e))))
                /\ \A s : loadWorkerConfig(StartGate(Map(s)), e) = Parsed(StartGate(Map(Spread(s, Added(e)))))
  BY MergedIs DEF loadWorkerConfig
<1> QED
  BY <1>1, <1>2, <1>3, ParsedIs

LEMMA PolicyTyped == ASSUME NEW s, IsSection(s) PROVE PolicyOf(s) \in Policy
<1>1. Given(s, "requireApproval", TRUE) \in BOOLEAN
  BY LeafIs DEF Given, IsSection
<1>2. Given(s, "autoPassLabels", {}) \in SUBSET Label
  BY LeafIs DEF Given, IsSection
<1>3. Given(s, "autoPassChannels", {}) \in SUBSET Channel
  BY LeafIs DEF Given, IsSection
<1> QED
  BY <1>1, <1>2, <1>3 DEF PolicyOf, Policy

\* File f has the value w at this key of the section.
At(f, key, w) == \E p \in Paths(f) : p.at = <<"startGate", key>> /\ p.says = w

LEMMA AtIs ==
  /\ \A key, w : ~At(Map(empty), key, w)
  /\ \A key, w : ~At(StartGate(null), key, w)
  /\ \A s, key, w : IsSection(s) => (At(StartGate(Map(s)), key, w) <=> key \in DOMAIN s /\ s[key] = w)
<1>1. \A key, w : ~At(Map(empty), key, w)
  BY PathsOfFile DEF At
<1>2. ASSUME NEW key, NEW w PROVE ~At(StartGate(null), key, w)
  <2>1. <<"startGate">> # <<"startGate", key>>
    OBVIOUS
  <2> QED
    BY <2>1, PathsOfFile DEF At
<1>3. ASSUME NEW s, NEW key, NEW w, IsSection(s)
      PROVE  At(StartGate(Map(s)), key, w) <=> key \in DOMAIN s /\ s[key] = w
  <2> DEFINE path(k) == [at |-> <<"startGate", k>>, says |-> s[k]]
  <2>1. Paths(StartGate(Map(s))) = { path(k) : k \in DOMAIN s }
    BY <1>3, PathsOfFile
  <2>2. \A k : path(k).says = s[k] /\ (path(k).at = <<"startGate", key>> <=> k = key)
    OBVIOUS
  <2> HIDE DEF path
  <2> QED
    BY <2>1, <2>2 DEF At
<1> QED
  BY <1>1, <1>2, <1>3

\* What holds of the policy p that was made of file f and environment e.
Faithful(p, f, e) ==
  /\ p \in Policy
  /\ ~p.requireApproval <=> e = "false" \/ (e = "" /\ At(f, "requireApproval", Leaf(FALSE)))
  /\ \A x : x \in p.autoPassLabels <=> \E w : At(f, "autoPassLabels", w) /\ x \in w.value
  /\ \A x : x \in p.autoPassChannels <=> \E w : At(f, "autoPassChannels", w) /\ x \in w.value

LEMMA FaithfulOf ==
  ASSUME NEW f, NEW s, NEW e \in Env, IsSection(s),
         \/ f = StartGate(Map(s))
         \/ s = empty /\ f \in {Map(empty), StartGate(null)}
  PROVE  /\ e = "" => Faithful(PolicyOf(s), f, e)
         /\ e # "" => Faithful(PolicyOf(Spread(s, Added(e))), f, e)
<1>1. \A key, w : At(f, key, w) <=> key \in DOMAIN s /\ s[key] = w
  BY AtIs, EmptyIs
<1> DEFINE t == Spread(s, Added(e))
<1>2. /\ DOMAIN t = DOMAIN s \union {"requireApproval"}
      /\ t["requireApproval"] = Leaf(e # "false")
      /\ \A k \in DOMAIN s : k # "requireApproval" => t[k] = s[k]
      /\ t = [k \in DOMAIN t |-> t[k]]
  BY SpreadIs
<1>3. PolicyOf(s) \in Policy /\ PolicyOf(t) \in Policy
  BY PolicyTyped, StillSection
<1> HIDE DEF t
<1>4. \A g, x : /\ x \in PolicyOf(g).autoPassLabels <=>
                     "autoPassLabels" \in DOMAIN g /\ x \in g["autoPassLabels"].value
                /\ x \in PolicyOf(g).autoPassChannels <=>
                     "autoPassChannels" \in DOMAIN g /\ x \in g["autoPassChannels"].value
  BY DEF PolicyOf, Given
<1>5. PolicyOf(t).requireApproval = (e # "false")
  BY <1>2, LeafIs DEF PolicyOf, Given
<1>6. ~PolicyOf(s).requireApproval <=> "requireApproval" \in DOMAIN s /\ s["requireApproval"] = Leaf(FALSE)
  BY LeafIs DEF PolicyOf, Given, IsSection
<1>7. e = "" => Faithful(PolicyOf(s), f, e)
  BY <1>1, <1>3, <1>4, <1>6 DEF Faithful
<1>8. e # "" => Faithful(PolicyOf(t), f, e)
  <2>1. e # "" => (~PolicyOf(t).requireApproval <=> e = "false")
    BY <1>5
  <2>2. \A key \in {"autoPassLabels", "autoPassChannels"} : \A x :
          key \in DOMAIN t /\ x \in t[key].value <=> \E w : At(f, key, w) /\ x \in w.value
    BY <1>1, <1>2
  <2>3. \A x : x \in PolicyOf(t).autoPassLabels <=> \E w : At(f, "autoPassLabels", w) /\ x \in w.value
    BY <1>4, <2>2
  <2>4. \A x : x \in PolicyOf(t).autoPassChannels <=> \E w : At(f, "autoPassChannels", w) /\ x \in w.value
    BY <1>4, <2>2
  <2> QED
    BY <1>3, <2>1, <2>3, <2>4, Zenon DEF Faithful
<1> QED
  BY <1>7, <1>8 DEF t

LEMMA PolicyMeans ==
  ASSUME NEW f \in File, NEW e \in Env, loadWorkerConfig(f, e) # None
  PROVE  Faithful(loadWorkerConfig(f, e), f, e)
<1>1. IsSection(empty) /\ Spread(empty, Added(e)) = Added(e)
  BY StillSection
<1>2. CASE f = Map(empty)
  BY <1>1, <1>2, LoadedIs, FaithfulOf
<1>3. CASE f = StartGate(null)
  BY <1>1, <1>3, LoadedIs, FaithfulOf
<1>4. ASSUME NEW s, IsSection(s), f = StartGate(Map(s)) PROVE Faithful(loadWorkerConfig(f, e), f, e)
  BY <1>4, LoadedIs, FaithfulOf
<1> QED
  BY <1>2, <1>3, <1>4, FilesAre

-----------------------------------------------------------------------------
(***************************************************************************)
(* The interpreters, and the invariant.                                    *)
(***************************************************************************)

LEMMA OfferedIs == ASSUME NEW c \in Conf
                   PROVE  /\ ToSet(Offered(c)) \in SUBSET Label
                          /\ Head(Offered(c)) \in ToSet(Offered(c))
<1>1. PICK n \in 0 .. 2 : c.labels \in [1 .. n -> Label]
  BY DEF Conf, Catalogue
<1>2. c.labels \in Seq(Label)
  BY <1>1
<1>3. Offered(c) \in Seq(Label) /\ Offered(c) # <<>>
  BY <1>2 DEF Offered, Conf
<1> DEFINE o == Offered(c)
<1> HIDE DEF o
<1>4. o \in Seq(Label) /\ Len(o) \in Nat \ {0} /\ Head(o) = o[1]
  BY <1>3 DEF o
<1>5. \A i \in 1 .. Len(o) : o[i] \in Label
  BY <1>4
<1>6. ToSet(o) \in SUBSET Label /\ Head(o) \in ToSet(o)
  BY <1>4, <1>5 DEF ToSet
<1> QED
  BY <1>6 DEF o

\* A verdict that makes a task has a label of the catalogue that was offered.
LEMMA Verdicts ==
  ASSUME NEW c \in Conf, NEW reply \in Reply, Verdict(c, reply).verdict \in Dispatching
  PROVE  /\ Verdict(c, reply).label \in ToSet(Offered(c))
         /\ Verdict(c, reply).instruction \in Text
<1>1. NoTask.verdict \notin Dispatching
  BY DEF NoTask, Dispatching
<1> DEFINE labels == Offered(c)
<1>2. Head(labels) \in ToSet(labels)
  BY OfferedIs
<1> HIDE DEF labels
<1>3. /\ claude(labels, reply).verdict \in Dispatching => claude(labels, reply) = reply /\ reply.label \in ToSet(labels)
      /\ http(labels, reply).verdict \in Dispatching =>
           http(labels, reply) = IF reply.label \notin ToSet(labels) THEN [reply EXCEPT !.label = Head(labels)] ELSE reply
  BY <1>1 DEF claude, http
<1>4. /\ [reply EXCEPT !.label = Head(labels)].label = Head(labels)
      /\ [reply EXCEPT !.label = Head(labels)].instruction = reply.instruction
      /\ reply.instruction \in Text
  BY DEF Reply
<1> QED
  BY <1>2, <1>3, <1>4 DEF Verdict, labels

IInv ==
  /\ JudgementTypeOK
  /\ policy = loadWorkerConfig(file, env)
  /\ event.at = "asked" => event.conf \in Conf
  /\ AskedUnlessExempt
  /\ OnlyOfferedLabels
  /\ NothingBlankStarts

LEMMA LoadedTyped == ASSUME NEW f \in File, NEW e \in Env
                     PROVE  loadWorkerConfig(f, e) \in Policy \union {None}
  BY PolicyMeans DEF Faithful

LEMMA NoEventIs == NoEvent \in Event /\ NoEvent.at = "none"
  BY DEF NoEvent, Event, Phase

LEMMA InitIInv == Init => IInv
<1> SUFFICES ASSUME Init PROVE IInv
  OBVIOUS
<1>1. JudgementTypeOK
  BY LoadedTyped, NoEventIs DEF Init, JudgementTypeOK
<1>2. event.at = "none"
  BY NoEventIs DEF Init
<1> QED
  BY <1>1, <1>2 DEF Init, IInv, AskedUnlessExempt, OnlyOfferedLabels, NothingBlankStarts

\* The gate lets through what the operator has exempted, and nothing else.
LEMMA GateMeansExempt ==
  ASSUME IInv, policy # None
  PROVE  Exempt <=> \/ ~policy.requireApproval
                    \/ event.channel \in policy.autoPassChannels
                    \/ event.label \in policy.autoPassLabels
<1>1. Faithful(policy, file, env)
  BY PolicyMeans DEF IInv, JudgementTypeOK
<1>2. FileSays("requireApproval", FALSE) <=> At(file, "requireApproval", Leaf(FALSE))
  BY DEF FileSays, At
<1>3. \A key, x : FileExempts(key, x) <=> \E w : At(file, key, w) /\ x \in w.value
  BY DEF FileExempts, At
<1> QED
  BY <1>1, <1>2, <1>3 DEF Exempt, Faithful

\* What does not touch the event, the file, the environment or the policy.
LEMMA Untouched ==
  ASSUME IInv, conf' \in [Channel -> Conf], UNCHANGED <<event, file, env, policy>>
  PROVE  IInv'
<1>1. JudgementTypeOK' /\ (policy = loadWorkerConfig(file, env))'
  BY DEF IInv, JudgementTypeOK
<1>2. Exempt' <=> Exempt
  BY DEF Exempt, FileSays, FileExempts
<1> QED
  BY <1>1, <1>2 DEF IInv, AskedUnlessExempt, OnlyOfferedLabels, NothingBlankStarts

LEMMA ArriveIInv == ASSUME IInv, NEW c \in Channel, NEW payload \in Text, Arrive(c, payload)
                    PROVE  IInv'
<1>1. conf[c] \in Conf /\ conf[c].label \in Label
  BY DEF IInv, JudgementTypeOK, Conf
<1>2. /\ event' \in Event
      /\ event'.at \in {"pending", "asked"}
      /\ event'.at = "asked" => event'.conf = conf[c]
      /\ event'.at = "pending" => event'.label \in event'.offered
  <2>1. CASE conf[c].mode = "passthrough"
    <3>1. event' = [NoEvent EXCEPT !.at = "pending", !.channel = c, !.label = conf[c].label,
                                  !.instruction = payload, !.offered = {conf[c].label}]
      BY <2>1 DEF Arrive
    <3> QED
      BY <1>1, <3>1 DEF Event, Phase, NoEvent
  <2>2. CASE conf[c].mode # "passthrough"
    <3>1. event' = [NoEvent EXCEPT !.at = "asked", !.channel = c, !.conf = conf[c]]
      BY <2>2 DEF Arrive
    <3> QED
      BY <1>1, <3>1 DEF Event, Phase, NoEvent
  <2> QED
    BY <2>1, <2>2
<1>3. UNCHANGED <<conf, file, env, policy>>
  BY DEF Arrive
<1>4. JudgementTypeOK' /\ (policy = loadWorkerConfig(file, env))'
  BY <1>2, <1>3 DEF IInv, JudgementTypeOK
<1> QED
  BY <1>1, <1>2, <1>4 DEF IInv, AskedUnlessExempt, OnlyOfferedLabels, NothingBlankStarts

LEMMA AnswerIInv == ASSUME IInv, NEW reply \in Reply, Answer(reply) PROVE IInv'
<1> DEFINE verdict == Verdict(event.conf, reply)
<1>1. event.conf \in Conf /\ event \in Event
  BY DEF Answer, IInv, JudgementTypeOK
<1>2. ASSUME verdict.verdict \in Dispatching
      PROVE  /\ verdict.label \in ToSet(Offered(event.conf)) /\ verdict.label \in Label
             /\ verdict.instruction \in Text
             /\ ToSet(Offered(event.conf)) \in SUBSET Label
  BY <1>1, <1>2, Verdicts, OfferedIs
<1>3. event' = IF verdict.verdict \in Dispatching
               THEN [event EXCEPT !.at = "pending", !.conf = None, !.label = verdict.label,
                                  !.instruction = verdict.instruction,
                                  !.offered = ToSet(Offered(event.conf))]
               ELSE NoEvent
  BY DEF Answer
<1> HIDE DEF verdict
<1>4. /\ event' \in Event
      /\ event'.at \in {"pending", "none"}
      /\ event'.at = "pending" => event'.label \in event'.offered
  <2>1. CASE verdict.verdict \in Dispatching
    <3> DEFINE offered == ToSet(Offered(event.conf))
    <3>1. event' = [event EXCEPT !.at = "pending", !.conf = None, !.label = verdict.label,
                                 !.instruction = verdict.instruction, !.offered = offered]
      BY <1>3, <2>1
    <3>2. offered \in SUBSET Label /\ verdict.label \in offered
      BY <1>2, <2>1
    <3> HIDE DEF offered
    <3> QED
      BY <1>1, <1>2, <2>1, <3>1, <3>2 DEF Event, Phase
  <2>2. CASE verdict.verdict \notin Dispatching
    BY <1>3, <2>2, NoEventIs
  <2> QED
    BY <2>1, <2>2
<1>5. UNCHANGED <<conf, file, env, policy>>
  BY DEF Answer
<1>6. JudgementTypeOK' /\ (policy = loadWorkerConfig(file, env))'
  BY <1>4, <1>5 DEF IInv, JudgementTypeOK
<1> QED
  BY <1>4, <1>6 DEF IInv, AskedUnlessExempt, OnlyOfferedLabels, NothingBlankStarts

\* A step of the event that has its label and its instruction already.
LEMMA JudgedIInv ==
  ASSUME IInv, NEW phase \in {"pending", "awaiting", "running", "rejected", "stalled"},
         NEW approved \in BOOLEAN,
         event.at \notin {"none", "asked"},
         event' = [event EXCEPT !.at = phase, !.approved = approved],
         (conf' = conf) /\ JudgementTypeOK' /\ (policy = loadWorkerConfig(file, env))',
         phase \in {"awaiting", "running"} => event.instruction = "text",
         phase = "running" /\ ~approved => Exempt',
         phase = "awaiting" => ~Exempt'
  PROVE  IInv'
<1>1. /\ event'.at = phase /\ event'.approved = approved
      /\ event'.label = event.label /\ event'.offered = event.offered
      /\ event'.instruction = event.instruction
  BY DEF IInv, JudgementTypeOK, Event
<1> QED
  BY <1>1 DEF IInv, AskedUnlessExempt, OnlyOfferedLabels, NothingBlankStarts

LEMMA GateIInv == ASSUME IInv, Gate PROVE IInv'
<1> DEFINE allowed == \/ ~policy.requireApproval
                      \/ event.channel \in policy.autoPassChannels
                      \/ event.label \in policy.autoPassLabels
           phase == IF event.instruction # "text" THEN "rejected"
                    ELSE IF allowed THEN "running" ELSE "awaiting"
<1>1. allowed <=> Exempt
  BY GateMeansExempt DEF Gate
<1>2. event.at = "pending" /\ event \in Event /\ UNCHANGED <<conf, file, env, policy>>
  BY DEF Gate, IInv, JudgementTypeOK
<1>3. evaluate(policy, event) = IF event.instruction # "text" THEN "deny"
                                ELSE IF allowed THEN "allow" ELSE "ask"
  BY DEF evaluate
<1>4. event' = [event EXCEPT !.at = phase]
  BY <1>3 DEF Gate
<1> HIDE DEF allowed
<1>5. event' = [event EXCEPT !.at = phase, !.approved = event.approved]
  BY <1>2, <1>4 DEF Event
<1>6. event'.channel = event.channel /\ event'.label = event.label /\ event' \in Event
  BY <1>2, <1>4 DEF Event, Phase
<1>7. Exempt' <=> Exempt
  BY <1>2, <1>6 DEF Exempt, FileSays, FileExempts
<1>8. JudgementTypeOK' /\ (policy = loadWorkerConfig(file, env))'
  BY <1>2, <1>6 DEF IInv, JudgementTypeOK
<1>9. event.approved \in BOOLEAN
  BY <1>2 DEF Event
<1> QED
  BY <1>1, <1>2, <1>5, <1>7, <1>8, <1>9, JudgedIInv

LEMMA DecideIInv == ASSUME IInv, NEW decision \in {"approve", "deny"}, Decide(decision) PROVE IInv'
<1>1. event.at = "awaiting" /\ event \in Event /\ UNCHANGED <<conf, file, env, policy>>
  BY DEF Decide, IInv, JudgementTypeOK
<1>2. event.instruction = "text"
  BY <1>1 DEF IInv, NothingBlankStarts
<1> DEFINE phase == IF decision = "approve" THEN "running" ELSE "rejected"
           approved == IF decision = "approve" THEN TRUE ELSE event.approved
<1>3. event' = [event EXCEPT !.at = phase, !.approved = approved]
  BY <1>1 DEF Decide, Event
<1>4. approved \in BOOLEAN /\ (phase = "running" => approved)
  BY <1>1 DEF Event
<1>5. event' \in Event
  BY <1>1, <1>3, <1>4 DEF Event, Phase
<1>6. JudgementTypeOK' /\ (policy = loadWorkerConfig(file, env))'
  BY <1>1, <1>5 DEF IInv, JudgementTypeOK
<1> QED
  BY <1>1, <1>2, <1>3, <1>4, <1>6, JudgedIInv

LEMMA RestartIInv == ASSUME IInv, NEW f \in File, NEW e \in Env, Restart(f, e) PROVE IInv'
<1>1. event \in Event /\ policy' = loadWorkerConfig(f, e) /\ file' = f /\ env' = e /\ conf' = conf
  BY DEF Restart, IInv, JudgementTypeOK
<1>2. /\ event' \in Event
      /\ event'.at \notin {"awaiting", "running"}
      /\ event'.at = "asked" => event' = event
      /\ OnlyOfferedLabels => OnlyOfferedLabels'
  <2>1. CASE event.at \in {"awaiting", "running"}
    <3>1. event' = [event EXCEPT !.at = "stalled"]
      BY <2>1 DEF Restart
    <3> QED
      BY <1>1, <2>1, <3>1 DEF Event, Phase, OnlyOfferedLabels
  <2>2. CASE event.at \notin {"awaiting", "running"}
    <3>1. event' = event
      BY <2>2 DEF Restart
    <3> QED
      BY <1>1, <2>2, <3>1 DEF OnlyOfferedLabels
  <2> QED
    BY <2>1, <2>2
<1>3. JudgementTypeOK' /\ (policy = loadWorkerConfig(file, env))'
  BY <1>1, <1>2, LoadedTyped DEF IInv, JudgementTypeOK
<1> QED
  BY <1>2, <1>3 DEF IInv, AskedUnlessExempt, NothingBlankStarts

LEMMA RetryIInv == ASSUME IInv, Retry PROVE IInv'
<1>1. event.at = "stalled" /\ event \in Event /\ UNCHANGED <<conf, file, env, policy>>
  BY DEF Retry, IInv, JudgementTypeOK
<1>2. event' = [event EXCEPT !.at = "pending", !.approved = FALSE]
  BY DEF Retry
<1>3. JudgementTypeOK' /\ (policy = loadWorkerConfig(file, env))'
  <2>1. event' \in Event
    BY <1>1, <1>2 DEF Event, Phase
  <2> QED
    BY <1>1, <2>1 DEF IInv, JudgementTypeOK
<1> QED
  BY <1>1, <1>2, <1>3, JudgedIInv

LEMMA NextIInv == IInv /\ [Next]_vars => IInv'
<1> SUFFICES ASSUME IInv, [Next]_vars PROVE IInv'
  OBVIOUS
<1>1. ASSUME NEW c \in Channel, NEW payload \in Text, Arrive(c, payload) PROVE IInv'
  BY <1>1, ArriveIInv
<1>2. ASSUME NEW c \in Channel, NEW new \in Conf, Edit(c, new) PROVE IInv'
  <2>1. conf' \in [Channel -> Conf]
    BY <1>2 DEF Edit, IInv, JudgementTypeOK
  <2> QED
    BY <1>2, <2>1, Untouched DEF Edit
<1>3. ASSUME NEW reply \in Reply, Answer(reply) PROVE IInv'
  BY <1>3, AnswerIInv
<1>4. CASE Gate
  BY <1>4, GateIInv
<1>5. ASSUME NEW decision \in {"approve", "deny"}, Decide(decision) PROVE IInv'
  BY <1>5, DecideIInv
<1>6. ASSUME NEW f \in File, NEW e \in Env, Restart(f, e) PROVE IInv'
  BY <1>6, RestartIInv
<1>7. CASE Retry
  BY <1>7, RetryIInv
<1>8. CASE UNCHANGED vars
  BY <1>8, Untouched DEF vars, IInv, JudgementTypeOK
<1> QED
  BY <1>1, <1>2, <1>3, <1>4, <1>5, <1>6, <1>7, <1>8 DEF Next

LEMMA Invariant == Spec => []IInv
  BY InitIInv, NextIInv, PTL DEF Spec

-----------------------------------------------------------------------------
\* Type correctness, whatever the channels, the labels and the answers: the
\* worker has a whole policy or has not come up, and a label on an event is
\* one of a catalogue.
THEOREM JudgementTypeCorrect == Spec => []JudgementTypeOK
<1>1. IInv => JudgementTypeOK
  BY DEF IInv
<1> QED
  BY <1>1, Invariant, PTL

\* A human is asked about a task if and only if the operator has not exempted
\* it, as the file and the environment of the last start say: the policy the
\* gate goes by is the one that merging, defaults and parsing made of them.
THEOREM AskedUnlessExemptCorrect == Spec => []AskedUnlessExempt
<1>1. IInv => AskedUnlessExempt
  BY DEF IInv
<1> QED
  BY <1>1, Invariant, PTL

\* No interpreter can put a task under a label its channel did not offer,
\* whatever the model or the endpoint answered and however the channel was
\* edited while the question was open.
THEOREM OnlyOfferedLabelsCorrect == Spec => []OnlyOfferedLabels
<1>1. IInv => OnlyOfferedLabels
  BY DEF IInv
<1> QED
  BY <1>1, Invariant, PTL

\* No agent is started and no human is asked for an instruction without
\* content.
THEOREM NothingBlankStartsCorrect == Spec => []NothingBlankStarts
<1>1. IInv => NothingBlankStarts
  BY DEF IInv
<1> QED
  BY <1>1, Invariant, PTL

\* deepMerge over compact is an overlay of paths, for every file and every
\* environment: what the variable names wins, all else stays as it was.
THEOREM EnvironmentWinsPathwiseCorrect == Spec => []EnvironmentWinsPathwise
<1>1. IInv => EnvironmentWinsPathwise
  BY Pathwise DEF IInv, JudgementTypeOK, EnvironmentWinsPathwise
<1> QED
  BY <1>1, Invariant, PTL

=============================================================================
