--------------------------- MODULE Configuration ---------------------------
(***************************************************************************)
(* How environment, file and defaults become a configuration               *)
(* (packages/config/src/load.ts).                                          *)
(*                                                                         *)
(* A value is a mapping (Map), a scalar or list (Leaf), or undefined.  An  *)
(* undefined property and a property that is not there are different       *)
(* things until compact has been applied, as in the code.                  *)
(*                                                                         *)
(* deepMerge and compact call themselves.  What is merged over a file has  *)
(* mappings nested three deep at most (agents, claude-code), so there are  *)
(* three calls within each other, and they are written one by one: each is *)
(* the same operator, given the call inside it.                            *)
(***************************************************************************)
EXTENDS Sequences

Map(f) == [map |-> f]
Leaf(v) == [value |-> v]
undefined == [undefined |-> TRUE]
null == Leaf("null")
empty == [k \in {} |-> undefined]   \* without properties

\* { [key]: value }, and { ...below, ...above }.
Property(key, value) == [k \in {key} |-> value]
Spread(below, above) ==
  [k \in DOMAIN above \union DOMAIN below |-> IF k \in DOMAIN above THEN above[k] ELSE below[k]]

isPlainObject(v) == DOMAIN v = {"map"}

Defined(m) == { k \in DOMAIN m.map : m.map[k] # undefined }

\* Fault: a section that is patched is replaced.
shallowMerge(base, patch) ==
  Map(Spread(base.map, [k \in Defined(patch) |-> patch.map[k]]))

\* The patch over the base: mappings are merged key by key, anything else is
\* replaced, undefined replaces nothing.
MergeBy(inner(_, _), base, patch) ==
  LET merged(k) == IF /\ k \in DOMAIN base.map
                      /\ isPlainObject(base.map[k]) /\ isPlainObject(patch.map[k])
                   THEN inner(base.map[k], patch.map[k])
                   ELSE patch.map[k]
  IN  Map(Spread(base.map, [k \in Defined(patch) |-> merged(k)]))

mergeThird(base, patch) == MergeBy(LAMBDA b, p : p, base, patch)
mergeSecond(base, patch) == MergeBy(mergeThird, base, patch)
deepMerge(base, patch) == MergeBy(mergeSecond, base, patch)

\* Without its undefined properties; undefined if none is left.
CompactBy(call(_), m) ==
  LET inner(k) == IF isPlainObject(m.map[k]) THEN call(m.map[k]) ELSE m.map[k]
      kept == { k \in Defined(m) : inner(k) # undefined }
  IN  IF kept = {} THEN undefined ELSE Map([k \in kept |-> inner(k)])

compactThird(m) == CompactBy(LAMBDA v : v, m)
compactSecond(m) == CompactBy(compactThird, m)
compact(m) == CompactBy(compactSecond, m)

\* compact(...) ?? {}
Overrides(m) == IF compact(m) = undefined THEN Map(empty) ELSE compact(m)

-----------------------------------------------------------------------------
(***************************************************************************)
(* A reference to hold the merge against: a configuration is what it says  *)
(* at each path.                                                           *)
(***************************************************************************)
Prefixed(key, p) == [at |-> <<key>> \o p.at, says |-> p.says]
Under(key, paths) == { Prefixed(key, p) : p \in paths }

PathsBy(below(_), v) ==
  IF isPlainObject(v) THEN UNION { Under(k, below(v.map[k])) : k \in DOMAIN v.map }
  ELSE { [at |-> <<>>, says |-> v] }

pathsThird(v) == PathsBy(LAMBDA w : { [at |-> <<>>, says |-> w] }, v)
pathsSecond(v) == PathsBy(pathsThird, v)
Paths(v) == PathsBy(pathsSecond, v)

\* One of the two paths leads through the other.
SameWay(p, q) ==
  \A i \in DOMAIN p \intersect DOMAIN q : p[i] = q[i]

Overlay(base, patch) ==
  Paths(patch) \union { b \in Paths(base) : \A p \in Paths(patch) : ~SameWay(b.at, p.at) }

=============================================================================
