--------------------------- MODULE Presence_proofs ---------------------------
(***************************************************************************)
(* Proofs about Presence, for any number of loops, any lists of labels,    *)
(* any heartbeat interval, any lease and any window, longer or shorter     *)
(* than the interval.                                                      *)
(***************************************************************************)
EXTENDS Presence, TLAPS

-----------------------------------------------------------------------------
(***************************************************************************)
(* The inductive invariant.                                                *)
(***************************************************************************)

\* A worker that is not running does nothing.
DownIsIdle == ~up => \A i \in Loop : doing[i].at = "free"

\* The labels of a claim under way are those of now, unless they were changed
\* in this very tick.
ClaimsAreCurrent ==
  \A i \in Loop : doing[i].at = "claiming" =>
    /\ doing[i].labels \in Labels
    /\ settled > 0 => doing[i].labels = labels

\* How old the row of a worker can be that was not cut off: as old as the last
\* poll of any loop, or the last heartbeat that named a wait.
RowIsFresh ==
  ~deaf => \A i \in Loop :
    /\ doing[i].at = "slept" => row # None /\ row.age = 0
    /\ doing[i].at = "late"  => row # None /\ row.age <= 1
    /\ doing[i].at = "told"  => row # None /\ row.age <= SinceHeartbeat

\* Whose labels it has.
RowIsCurrent ==
  ~deaf => \A i \in Loop :
    \/ doing[i].at = "slept" /\ settled >= 1
    \/ doing[i].at = "late" /\ settled = 2
    => row # None /\ row.labels = labels

\* A lease a heartbeat has set is used up by the intervals of the lost ones
\* since, and by the one that is going on.
LeaseIsAccounted ==
  \A i \in Loop : doing[i].at = "told" /\ doing[i].left >= 0 =>
    doing[i].left + missed * Beat + SinceHeartbeat >= LeaseTicks

PresenceInv ==
  /\ PresenceTypeOK
  /\ DownIsIdle
  /\ ClaimsAreCurrent
  /\ RowIsFresh
  /\ RowIsCurrent
  /\ LeaseIsAccounted

-----------------------------------------------------------------------------
(***************************************************************************)
(* What the steps do to the loops.                                         *)
(***************************************************************************)
LoopState == [at : Free \union Held \union {"claiming"},
              labels : Labels \union {None},
              left : -1 .. LeaseTicks]

LEMMA AtIsState ==
  ASSUME NEW a \in Free
  PROVE  At(a) \in LoopState
BY PresenceAssumption DEF At, LoopState

LEMMA OneBecomes ==
  ASSUME PresenceTypeOK, NEW i \in Loop, NEW what, Becomes(i, what)
  PROVE  \A j \in Loop : doing'[j] = IF j = i THEN what ELSE doing[j]
BY DEF PresenceTypeOK, Becomes

LEMMA ToldIsState ==
  ASSUME NEW s \in LoopState
  PROVE  LET told == [s EXCEPT !.at = "told", !.left = LeaseTicks]
         IN  told \in LoopState /\ told.at = "told" /\ told.left = LeaseTicks
<1>1. "told" \in Free \union Held \union {"claiming"} BY DEF Held
<1>2. LeaseTicks \in -1 .. LeaseTicks BY PresenceAssumption
<1> QED BY <1>1, <1>2 DEF LoopState

\* A heartbeat leaves a loop alone, or gives the task it waits with a new lease.
LEMMA ExtendedLoop ==
  ASSUME PresenceTypeOK, Extended, NEW i \in Loop
  PROVE  /\ doing'[i] \in LoopState
         /\ \/ doing'[i] = doing[i] /\ (i \in Waiting => doing[i].left < 0)
            \/ i \in Waiting /\ doing'[i].at = "told" /\ doing'[i].left = LeaseTicks
<1>1. doing[i] \in LoopState BY DEF PresenceTypeOK, LoopState
<1>2. CASE i \in Waiting /\ doing[i].left >= 0
  BY <1>1, <1>2, ToldIsState DEF Extended
<1>3. CASE ~(i \in Waiting /\ doing[i].left >= 0)
  <2>1. doing'[i] = doing[i] BY <1>3 DEF Extended
  <2> QED BY <1>1, <1>3, <2>1 DEF LoopState
<1> QED BY <1>2, <1>3

\* What seen writes is a row.
LEMMA SeenRow ==
  ASSUME NEW ls \in Labels, seen(ls)
  PROVE  row' # None /\ row'.labels = ls /\ row'.age = 0
<1>1. [labels |-> ls, age |-> 0] \in [labels : Labels, age : Nat] OBVIOUS
<1> QED BY <1>1, PresenceAssumption DEF seen

\* A row grows older by a tick at most, and stays a row.
LEMMA OlderRow ==
  ASSUME PresenceTypeOK, row # None, Tick
  PROVE  row' # None /\ row'.labels = row.labels /\ row'.age <= row.age + 1
<1>1. row \in [labels : Labels, age : Nat] BY PresenceAssumption DEF PresenceTypeOK
<1>2. CASE row' = row BY <1>1, <1>2
<1>3. CASE row' = [row EXCEPT !.age = @ + 1]
  <2>1. row' \in [labels : Labels, age : Nat] BY <1>1, <1>3
  <2> QED BY <1>1, <1>3, <2>1, PresenceAssumption
<1> QED BY <1>2, <1>3 DEF Tick

LEMMA OneMoreInterval ==
  ASSUME NEW m \in Nat
  PROVE  (m + 1) * Beat = m * Beat + Beat /\ m * Beat \in Nat /\ m * Beat >= m
BY PresenceAssumption

LEMMA TypeStep ==
  ASSUME PresenceTypeOK, ClaimsAreCurrent, [PresenceNext]_vars
  PROVE  PresenceTypeOK'
<1> USE PresenceAssumption DEF PresenceTypeOK
<1>1. ASSUME NEW v \in Labels, SetLabels(v) \/ Start(v) PROVE PresenceTypeOK'
  <2>1. CASE SetLabels(v) BY <2>1 DEF SetLabels
  <2>2. CASE Start(v)
    <3>1. missed' \in 0 .. LeaseTicks /\ settled' \in 0 .. 2 BY <2>2 DEF Start
    <3> QED BY <2>2, <3>1 DEF Start
  <2> QED BY <1>1, <2>1, <2>2
<1>2. CASE Stop
  <2>1. At("free") \in LoopState BY AtIsState DEF Free
  <2>2. doing' \in [Loop -> LoopState] BY <1>2, <2>1 DEF Stop
  <2>3. beat' \in 0 .. Beat BY <1>2 DEF Stop
  <2>4. up' \in BOOLEAN /\ UNCHANGED <<labels, row, deaf, missed, settled>> BY <1>2 DEF Stop
  <2> QED BY <2>2, <2>3, <2>4 DEF LoopState
<1>3. ASSUME NEW i \in Loop, NEW what \in LoopState, Becomes(i, what)
      PROVE  doing' \in [Loop -> LoopState]
  BY <1>3 DEF Becomes, LoopState
<1>4. ASSUME NEW i \in Loop, Poll(i) PROVE PresenceTypeOK'
  <2>1. [At("claiming") EXCEPT !.labels = labels] \in LoopState BY DEF At, LoopState
  <2> QED BY <1>4, <2>1, <1>3 DEF Poll, LoopState
<1>5. ASSUME NEW i \in Loop, Claim(i) \/ LoseClaim(i) PROVE PresenceTypeOK'
  <2>1. /\ [At("working") EXCEPT !.left = LeaseTicks] \in LoopState
        /\ At("slept") \in LoopState
    BY AtIsState DEF At, LoopState, Held, Free
  <2>2. doing' \in [Loop -> LoopState]
    BY <1>5, <2>1, <1>3 DEF Claim, LoseClaim, Gets, GetsNone
  <2>3. row' \in [labels : Labels, age : 0 .. Window + 1] \union {None}
    BY <1>5 DEF Claim, LoseClaim, seen, ClaimsAreCurrent
  <2> QED BY <1>5, <2>2, <2>3 DEF Claim, LoseClaim, LoopState
<1>6. ASSUME NEW i \in Loop, Ask(i) \/ Decided(i) \/ End(i) \/ Expire(i)
      PROVE  PresenceTypeOK'
  <2>1. /\ [doing[i] EXCEPT !.at = "asking"] \in LoopState
        /\ [doing[i] EXCEPT !.at = "working"] \in LoopState
        /\ [doing[i] EXCEPT !.left = -1] \in LoopState
        /\ At("free") \in LoopState
    BY AtIsState DEF At, LoopState, Held, Free
  <2>2. doing' \in [Loop -> LoopState] BY <1>6, <2>1, <1>3 DEF Ask, Decided, End, Expire
  <2> QED BY <1>6, <2>2 DEF Ask, Decided, End, Expire, LoopState
<1>7. CASE Heartbeat
  <2>1. ASSUME Extended PROVE doing' \in [Loop -> LoopState]
    BY <2>1, ExtendedLoop DEF Extended
  <2>2. ASSUME UNCHANGED doing PROVE doing' \in [Loop -> LoopState]
    BY <2>2 DEF LoopState
  <2>3. doing' \in [Loop -> LoopState] BY <1>7, <2>1, <2>2 DEF Heartbeat, Lost
  <2>4. missed' \in 0 .. LeaseTicks BY <1>7 DEF Heartbeat, Lost
  <2>5. row' \in [labels : Labels, age : 0 .. Window + 1] \union {None}
    BY <1>7 DEF Heartbeat, Lost, seen
  <2>6. beat' \in 0 .. Beat BY <1>7 DEF Heartbeat, Beaten
  <2>8. deaf' \in BOOLEAN BY <1>7, Zenon DEF Heartbeat, Lost
  <2>7. UNCHANGED <<up, labels, settled>> BY <1>7 DEF Heartbeat, Beaten
  <2> QED BY <2>3, <2>4, <2>5, <2>6, <2>7, <2>8 DEF LoopState
<1>8. CASE Tick
  <2>1. ASSUME NEW i \in Loop, doing[i].at \in Held, doing[i].left >= 0
        PROVE  [doing[i] EXCEPT !.left = @ - 1] \in LoopState
    BY <2>1 DEF LoopState
  <2>2. doing' \in [Loop -> LoopState]
    BY <1>8, <2>1, AtIsState DEF Tick, LoopState, Free
  <2>3. row' \in [labels : Labels, age : 0 .. Window + 1] \union {None}
    BY <1>8 DEF Tick
  <2> QED BY <1>8, <2>2, <2>3 DEF Tick, LoopState
<1>9. CASE UNCHANGED vars BY <1>9 DEF vars
<1> QED BY <1>1, <1>2, <1>4, <1>5, <1>6, <1>7, <1>8, <1>9 DEF PresenceNext

LEMMA DownStep ==
  ASSUME PresenceTypeOK, DownIsIdle, [PresenceNext]_vars
  PROVE  DownIsIdle'
<1> USE DEF DownIsIdle, PresenceTypeOK
<1>1. ASSUME NEW v \in Labels, SetLabels(v) \/ Start(v) PROVE DownIsIdle'
  BY <1>1 DEF SetLabels, Start
<1>2. CASE Stop BY <1>2 DEF Stop, At
<1>3. ASSUME NEW i \in Loop,
             Poll(i) \/ Claim(i) \/ LoseClaim(i) \/ Ask(i) \/ Decided(i) \/ End(i) \/ Expire(i)
      PROVE  DownIsIdle'
  BY <1>3 DEF Poll, Claim, LoseClaim, Ask, Decided, End, Expire, Held
<1>4. CASE Heartbeat BY <1>4 DEF Heartbeat, Beaten
<1>5. CASE Tick BY <1>5 DEF Tick, Held
<1>6. CASE UNCHANGED vars BY <1>6 DEF vars
<1> QED BY <1>1, <1>2, <1>3, <1>4, <1>5, <1>6 DEF PresenceNext

LEMMA ClaimsStep ==
  ASSUME PresenceTypeOK, DownIsIdle, ClaimsAreCurrent, [PresenceNext]_vars
  PROVE  ClaimsAreCurrent'
<1> USE DEF ClaimsAreCurrent
<1>1. ASSUME NEW v \in Labels, SetLabels(v) \/ Start(v) PROVE ClaimsAreCurrent'
  BY <1>1 DEF SetLabels, Start, DownIsIdle
<1>2. CASE Stop BY <1>2 DEF Stop, At
<1>3. ASSUME NEW i \in Loop, Poll(i) PROVE ClaimsAreCurrent'
  BY <1>3, OneBecomes DEF Poll, At, PresenceTypeOK
<1>4. ASSUME NEW i \in Loop, NEW what, Becomes(i, what), what.at # "claiming",
             UNCHANGED <<labels, settled>>
      PROVE  ClaimsAreCurrent'
  BY <1>4, OneBecomes
<1>5. ASSUME NEW i \in Loop, Claim(i) \/ LoseClaim(i) PROVE ClaimsAreCurrent'
  BY <1>4, <1>5 DEF Claim, LoseClaim, Gets, GetsNone, At
<1>6. ASSUME NEW i \in Loop, Ask(i) \/ Decided(i) \/ End(i) \/ Expire(i)
      PROVE  ClaimsAreCurrent'
  BY <1>4, <1>6 DEF Ask, Decided, End, Expire, At, Held, PresenceTypeOK
<1>7. CASE Heartbeat
  <2>1. \A j \in Loop : doing'[j].at = "claiming" => doing'[j] = doing[j]
    BY <1>7 DEF Heartbeat, Extended, Waiting, Lost, PresenceTypeOK
  <2> QED BY <1>7, <2>1 DEF Heartbeat, Beaten
<1>8. CASE Tick
  BY <1>8 DEF Tick, At, Held, DownIsIdle, PresenceTypeOK
<1>9. CASE UNCHANGED vars BY <1>9 DEF vars
<1> QED BY <1>1, <1>2, <1>3, <1>5, <1>6, <1>7, <1>8, <1>9 DEF PresenceNext

-----------------------------------------------------------------------------
(***************************************************************************)
(* The row of the worker.                                                  *)
(***************************************************************************)
LEMMA RowIsFreshStep ==
  ASSUME PresenceTypeOK, DownIsIdle, ClaimsAreCurrent, RowIsFresh, [PresenceNext]_vars
  PROVE  RowIsFresh'
<1> USE DEF RowIsFresh, SinceHeartbeat
<1>1. ASSUME NEW v \in Labels, SetLabels(v) \/ Start(v) PROVE RowIsFresh'
  BY <1>1 DEF SetLabels, Start
<1>2. CASE Stop BY <1>2 DEF Stop, At
<1>3. ASSUME NEW i \in Loop, Poll(i) \/ Ask(i) \/ Decided(i) \/ End(i) PROVE RowIsFresh'
  <2>1. PICK what : /\ Becomes(i, what) /\ what.at \notin {"slept", "late", "told"}
                    /\ UNCHANGED <<beat, row, deaf>>
    BY <1>3 DEF Poll, Ask, Decided, End, At, PresenceTypeOK
  <2> QED BY <2>1, OneBecomes
<1>4. ASSUME NEW i \in Loop, Claim(i) PROVE RowIsFresh'
  <2>1. doing[i].labels \in Labels BY <1>4 DEF Claim, ClaimsAreCurrent
  <2>2. row' # None /\ row'.age = 0 BY <1>4, <2>1, SeenRow DEF Claim
  <2>3. SinceHeartbeat' >= 0
    BY <1>4, PresenceAssumption DEF Claim, SinceHeartbeat, PresenceTypeOK
  <2> QED BY <2>2, <2>3
<1>5. ASSUME NEW i \in Loop, LoseClaim(i) PROVE RowIsFresh'
  BY <1>5 DEF LoseClaim
<1>6. ASSUME NEW i \in Loop, Expire(i) PROVE RowIsFresh'
  <2>1. \A j \in Loop : doing'[j].at = doing[j].at
    BY <1>6, OneBecomes DEF Expire, PresenceTypeOK
  <2> QED BY <1>6, <2>1 DEF Expire
<1>7. CASE Heartbeat
  <2>1. CASE Waiting = {} /\ UNCHANGED <<doing, row, deaf, missed>>
    BY <1>7, <2>1 DEF Heartbeat, Beaten, Waiting
  <2>2. CASE seen(labels)
    <3>1. row' # None /\ row'.age = 0 BY <2>2, SeenRow DEF PresenceTypeOK
    <3>2. SinceHeartbeat' = 0 BY <1>7, PresenceAssumption DEF Heartbeat, Beaten, SinceHeartbeat
    <3> QED BY <3>1, <3>2
  <2>3. CASE Lost BY <2>3 DEF Lost
  <2> QED BY <1>7, <2>1, <2>2, <2>3 DEF Heartbeat
<1>8. CASE Tick
  <2> SUFFICES ASSUME ~deaf, NEW i \in Loop
               PROVE  /\ doing'[i].at # "slept"
                      /\ doing'[i].at = "late" => row' # None /\ row'.age <= 1
                      /\ doing'[i].at = "told" => row' # None /\ row'.age <= SinceHeartbeat'
    BY <1>8 DEF Tick
  <2>1. /\ doing'[i].at # "slept"
        /\ doing'[i].at = "late" => doing[i].at = "slept"
        /\ doing'[i].at = "told" => doing[i].at = "told"
    BY <1>8 DEF Tick, At, Held, DownIsIdle, PresenceTypeOK
  <2>2. row # None => row' # None /\ row'.age <= row.age + 1
    BY <1>8, OlderRow
  <2>3. row # None => row.age \in Nat /\ row'.age \in Nat
    BY <1>8, <2>2, PresenceAssumption DEF PresenceTypeOK, Tick
  <2>4. CASE doing'[i].at = "late" BY <2>1, <2>2, <2>3, <2>4
  <2>5. CASE doing'[i].at = "told"
    <3>1. up /\ beat' = beat - 1 BY <1>8, <2>1, <2>5 DEF Tick, DownIsIdle
    <3>2. SinceHeartbeat \in Int /\ SinceHeartbeat' = SinceHeartbeat + 1
      BY <3>1, PresenceAssumption DEF SinceHeartbeat, PresenceTypeOK
    <3>3. row # None /\ row.age <= SinceHeartbeat BY <2>1, <2>5
    <3> QED BY <2>1, <2>2, <2>3, <2>5, <3>2, <3>3
  <2> QED BY <2>1, <2>4, <2>5
<1>9. CASE UNCHANGED vars BY <1>9 DEF vars
<1> QED BY <1>1, <1>2, <1>3, <1>4, <1>5, <1>6, <1>7, <1>8, <1>9 DEF PresenceNext

LEMMA RowIsCurrentStep ==
  ASSUME PresenceTypeOK, DownIsIdle, ClaimsAreCurrent, RowIsCurrent, [PresenceNext]_vars
  PROVE  RowIsCurrent'
<1> USE DEF RowIsCurrent
<1>1. ASSUME NEW v \in Labels, SetLabels(v) PROVE RowIsCurrent'
  BY <1>1 DEF SetLabels
<1>2. ASSUME NEW v \in Labels, Start(v) PROVE RowIsCurrent'
  BY <1>2 DEF Start, DownIsIdle
<1>3. CASE Stop BY <1>3 DEF Stop, At
<1>4. ASSUME NEW i \in Loop, Poll(i) \/ Ask(i) \/ Decided(i) \/ End(i) PROVE RowIsCurrent'
  <2>1. PICK what : /\ Becomes(i, what) /\ what.at \notin {"slept", "late"}
                    /\ UNCHANGED <<labels, row, deaf, settled>>
    BY <1>4 DEF Poll, Ask, Decided, End, At, PresenceTypeOK
  <2> QED BY <2>1, OneBecomes
<1>5. ASSUME NEW i \in Loop, Claim(i) PROVE RowIsCurrent'
  <2>1. doing[i].labels \in Labels /\ (settled >= 1 => doing[i].labels = labels)
    BY <1>5 DEF Claim, ClaimsAreCurrent, PresenceTypeOK
  <2>2. settled >= 1 => row' # None /\ row'.labels = labels
    BY <1>5, <2>1, SeenRow DEF Claim
  <2> QED BY <1>5, <2>2 DEF Claim, PresenceTypeOK
<1>6. ASSUME NEW i \in Loop, LoseClaim(i) PROVE RowIsCurrent'
  BY <1>6 DEF LoseClaim
<1>7. ASSUME NEW i \in Loop, Expire(i) PROVE RowIsCurrent'
  <2>1. \A j \in Loop : doing'[j].at = doing[j].at
    BY <1>7, OneBecomes DEF Expire, PresenceTypeOK
  <2> QED BY <1>7, <2>1 DEF Expire
<1>8. CASE Heartbeat
  <2>1. CASE Waiting = {} /\ UNCHANGED <<doing, row, deaf, missed>>
    BY <1>8, <2>1 DEF Heartbeat, Beaten
  <2>2. CASE seen(labels)
    <3>1. row' # None /\ row'.labels = labels' BY <1>8, <2>2, SeenRow DEF Heartbeat, Beaten, PresenceTypeOK
    <3> QED BY <3>1
  <2>3. CASE Lost BY <2>3 DEF Lost
  <2> QED BY <1>8, <2>1, <2>2, <2>3 DEF Heartbeat
<1>9. CASE Tick
  <2> SUFFICES ASSUME ~deaf, NEW i \in Loop,
                      \/ doing'[i].at = "slept"
                      \/ doing'[i].at = "late" /\ settled' = 2
               PROVE  row' # None /\ row'.labels = labels'
    BY <1>9 DEF Tick
  <2>1. doing[i].at = "slept" /\ settled >= 1
    BY <1>9 DEF Tick, At, Held, DownIsIdle, PresenceTypeOK
  <2>2. row # None /\ row.labels = labels BY <2>1
  <2> QED BY <1>9, <2>2, OlderRow DEF Tick
<1>10. CASE UNCHANGED vars BY <1>10 DEF vars
<1> QED BY <1>1, <1>2, <1>3, <1>4, <1>5, <1>6, <1>7, <1>8, <1>9, <1>10 DEF PresenceNext

-----------------------------------------------------------------------------
(***************************************************************************)
(* The leases of waits.                                                    *)
(***************************************************************************)
LEMMA LeaseStep ==
  ASSUME PresenceTypeOK, DownIsIdle, LeaseIsAccounted, [PresenceNext]_vars
  PROVE  LeaseIsAccounted'
<1> USE DEF LeaseIsAccounted, SinceHeartbeat
<1>1. ASSUME NEW v \in Labels, SetLabels(v) PROVE LeaseIsAccounted'
  BY <1>1 DEF SetLabels
<1>2. ASSUME NEW v \in Labels, Start(v) PROVE LeaseIsAccounted'
  BY <1>2 DEF Start, DownIsIdle
<1>3. CASE Stop BY <1>3 DEF Stop, At
<1>4. ASSUME NEW i \in Loop,
             Poll(i) \/ Claim(i) \/ LoseClaim(i) \/ Ask(i) \/ Decided(i) \/ End(i) \/ Expire(i)
      PROVE  LeaseIsAccounted'
  <2>1. PICK what : /\ Becomes(i, what) /\ ~(what.at = "told" /\ what.left >= 0)
                    /\ UNCHANGED <<beat, missed>>
    BY <1>4 DEF Poll, Claim, LoseClaim, Gets, GetsNone, Ask, Decided, End, Expire, At, PresenceTypeOK
  <2> QED BY <2>1, OneBecomes
<1>5. CASE Heartbeat
  <2>1. CASE Waiting = {} /\ UNCHANGED <<doing, row, deaf, missed>>
    BY <1>5, <2>1 DEF Heartbeat, Beaten, Waiting
  <2>2. CASE Extended /\ missed' = 0
    <3>1. \A i \in Loop : doing'[i].at = "told" /\ doing'[i].left >= 0 => doing'[i].left = LeaseTicks
      BY <2>2, ExtendedLoop DEF Waiting, PresenceTypeOK
    <3>2. missed' * Beat + SinceHeartbeat' = 0
      BY <1>5, <2>2, PresenceAssumption DEF Heartbeat, Beaten, SinceHeartbeat
    <3>3. missed' * Beat \in Int /\ SinceHeartbeat' \in Int
      BY <1>5, <2>2, PresenceAssumption DEF Heartbeat, Beaten, SinceHeartbeat
    <3>4. ASSUME NEW l \in Int, NEW m \in Int, NEW n \in Int, m + n = 0 PROVE l + m + n >= l
      BY <3>4
    <3> QED BY <3>1, <3>2, <3>3, <3>4, PresenceAssumption
  <2>3. CASE Lost
    <3> SUFFICES ASSUME NEW i \in Loop, doing[i].at = "told", doing[i].left >= 0
                 PROVE  doing[i].left + missed' * Beat + SinceHeartbeat' >= LeaseTicks
      BY <2>3 DEF Lost
    <3> DEFINE M == missed * Beat
               MM == missed' * Beat
    <3>1. /\ doing[i].left \in Nat /\ missed \in Nat /\ missed <= LeaseTicks
          /\ LeaseTicks \in Nat /\ Beat \in Nat
      BY PresenceAssumption DEF PresenceTypeOK
    <3>2. SinceHeartbeat = Beat /\ SinceHeartbeat' = 0
      BY <1>5, <3>1 DEF Heartbeat, Beaten, SinceHeartbeat
    <3>3. doing[i].left + M + Beat >= LeaseTicks BY <3>2
    <3>4. M \in Nat /\ M >= missed /\ (missed + 1) * Beat = M + Beat BY <3>1, OneMoreInterval
    <3>5. MM = M + Beat \/ (MM = M /\ missed = LeaseTicks)
      BY <2>3, <3>1, <3>4 DEF Lost
    <3>6. doing[i].left + MM >= LeaseTicks
      <4> HIDE DEF M, MM
      <4> QED BY <3>1, <3>3, <3>4, <3>5
    <3>7. MM \in Nat BY <3>1, <3>4, <3>5
    <3> QED
      <4>1. MM + SinceHeartbeat' = MM /\ MM = missed' * Beat BY <3>2, <3>7
      <4> HIDE DEF MM
      <4> QED BY <3>1, <3>2, <3>6, <3>7, <4>1
  <2> QED BY <1>5, <2>1, <2>2, <2>3 DEF Heartbeat
<1>6. CASE Tick
  <2> SUFFICES ASSUME NEW i \in Loop, doing'[i].at = "told", doing'[i].left >= 0
               PROVE  doing'[i].left + missed' * Beat + SinceHeartbeat' >= LeaseTicks
    OBVIOUS
  <2>1. /\ doing[i].at = "told" /\ doing[i].left >= 0
        /\ doing'[i].left \in {doing[i].left, doing[i].left - 1}
    BY <1>6 DEF Tick, At, Held, PresenceTypeOK
  <2>2. missed' = missed /\ beat' = beat - 1 BY <1>6, <2>1 DEF Tick, DownIsIdle
  <2>3. SinceHeartbeat \in Int /\ SinceHeartbeat' = SinceHeartbeat + 1
    BY <2>2, PresenceAssumption DEF SinceHeartbeat, PresenceTypeOK
  <2>4. doing[i].left \in Int /\ LeaseTicks \in Int /\ doing'[i].left \in Int
    BY <2>1, PresenceAssumption DEF PresenceTypeOK
  <2>6. missed * Beat \in Int
    BY OneMoreInterval DEF PresenceTypeOK
  <2>5. doing[i].left + missed * Beat + SinceHeartbeat >= LeaseTicks BY <2>1
  <2> QED
    <3> DEFINE M == missed * Beat
    <3>1. M \in Int /\ missed' * Beat = M BY <2>2, <2>6
    <3>2. doing[i].left + M + SinceHeartbeat >= LeaseTicks BY <2>5
    <3> HIDE DEF M
    <3> QED BY <2>1, <2>3, <2>4, <3>1, <3>2
<1>7. CASE UNCHANGED vars BY <1>7 DEF vars
<1> QED BY <1>1, <1>2, <1>3, <1>4, <1>5, <1>6, <1>7 DEF PresenceNext

-----------------------------------------------------------------------------
(***************************************************************************)
(* The theorems.                                                           *)
(***************************************************************************)
LEMMA PresenceInvariant == PresenceSpec => []PresenceInv
<1>1. PresenceInit => PresenceInv
  <2> SUFFICES ASSUME PresenceInit PROVE PresenceInv OBVIOUS
  <2>1. At("free") \in LoopState /\ At("free").at = "free" BY AtIsState DEF Free, At
  <2>2. PresenceTypeOK
    <3>1. doing \in [Loop -> LoopState] BY <2>1 DEF PresenceInit
    <3>2. missed \in 0 .. LeaseTicks /\ settled \in 0 .. 2
      BY PresenceAssumption DEF PresenceInit
    <3>3. up \in BOOLEAN /\ deaf \in BOOLEAN BY DEF PresenceInit
    <3>5. beat \in 0 .. Beat BY PresenceAssumption DEF PresenceInit
    <3>4. labels \in Labels /\ row = None BY DEF PresenceInit
    <3> QED BY <3>1, <3>2, <3>3, <3>4, <3>5 DEF PresenceTypeOK, LoopState
  <2>3. \A i \in Loop : doing[i].at = "free" BY <2>1 DEF PresenceInit
  <2> QED BY <2>2, <2>3
    DEF PresenceInit, PresenceInv, DownIsIdle, ClaimsAreCurrent, RowIsFresh, RowIsCurrent,
        LeaseIsAccounted
<1>2. PresenceInv /\ [PresenceNext]_vars => PresenceInv'
  BY TypeStep, DownStep, ClaimsStep, RowIsFreshStep, RowIsCurrentStep, LeaseStep DEF PresenceInv
<1> QED BY <1>1, <1>2, PTL DEF PresenceSpec

(***************************************************************************)
(* Every reachable state is well typed: what a claim carries is a list of  *)
(* labels, and the row never grows older than the window looks.            *)
(***************************************************************************)
THEOREM PresenceTypeCorrect == PresenceSpec => []PresenceTypeOK
<1>1. PresenceInv => PresenceTypeOK BY DEF PresenceInv
<1> QED BY <1>1, PresenceInvariant, PTL

(***************************************************************************)
(* How long the alarm of coveredLabels can be false: a worker whose last   *)
(* call was not lost counts as there while a loop of it polls, and for the *)
(* length of the window after each heartbeat while one keeps a human       *)
(* waiting, be the window longer or shorter than the interval.             *)
(***************************************************************************)
THEOREM ReachableIsCoveredCorrect == PresenceSpec => []ReachableIsCovered
<1>1. PresenceInv => ReachableIsCovered
  <2> SUFFICES ASSUME PresenceInv, ~deaf,
                      \/ Polling /\ 1 <= Window
                      \/ KeptWaiting /\ SinceHeartbeat <= Window
               PROVE  coveredLabels # {}
    BY DEF ReachableIsCovered
  <2> USE DEF PresenceInv
  <2>1. row # None /\ row.age <= Window
    <3>1. row # None => row.age \in Nat BY PresenceAssumption DEF PresenceTypeOK
    <3>2. CASE Polling /\ 1 <= Window
      BY <3>1, <3>2, PresenceAssumption DEF Polling, RowIsFresh
    <3>3. CASE KeptWaiting /\ SinceHeartbeat <= Window
      <4>1. SinceHeartbeat \in Int BY PresenceAssumption DEF SinceHeartbeat, PresenceTypeOK
      <4> QED BY <3>1, <3>3, <4>1, PresenceAssumption DEF KeptWaiting, RowIsFresh
    <3> QED BY <3>2, <3>3
  <2> QED BY <2>1 DEF coveredLabels
<1> QED BY <1>1, PresenceInvariant, PTL

(***************************************************************************)
(* A change of the labels takes hold, whatever claims with the old ones    *)
(* are still under way.                                                    *)
(***************************************************************************)
THEOREM NewLabelsTakeHoldCorrect == PresenceSpec => []NewLabelsTakeHold
<1>1. PresenceInv => NewLabelsTakeHold
  BY DEF PresenceInv, RowIsCurrent, NewLabelsTakeHold, Polling, PresenceTypeOK
<1> QED BY <1>1, PresenceInvariant, PTL

(***************************************************************************)
(* A wait a heartbeat has named stalls only if so many heartbeats in a row *)
(* were lost that with the next interval the lease is over.                *)
(***************************************************************************)
THEOREM WaitSurvivesMissesCorrect == PresenceSpec => WaitSurvivesMisses
<1>1. ASSUME PresenceInv, PresenceNext, NEW i \in Loop, doing[i].at = "told", Expires(i)
      PROVE  (missed + 1) * Beat >= LeaseTicks
  <2>1. doing[i].left >= 0 /\ doing'[i].left < 0 BY <1>1 DEF Expires
  <2>2. doing[i].left \in Int /\ missed \in Int /\ LeaseTicks \in Int
    BY <1>1, PresenceAssumption DEF PresenceInv, PresenceTypeOK
  <2>3. doing[i].left = 0
    <3> USE <1>1 DEF PresenceInv, PresenceTypeOK
    <3>1. ASSUME NEW j \in Loop, Expire(j) PROVE doing[i].left = 0
      BY <2>1, <2>2, <3>1, OneBecomes DEF Expire
    <3>2. CASE Tick BY <2>1, <2>2, <3>2 DEF Tick, Held
    <3>3. ASSUME NEW j \in Loop, NEW what, Becomes(j, what), what.left \in Nat
          PROVE  FALSE
      BY <2>1, <2>2, <3>3, OneBecomes
    <3>4. ASSUME NEW j \in Loop,
                 Poll(j) \/ Claim(j) \/ LoseClaim(j) \/ Ask(j) \/ Decided(j) \/ End(j)
          PROVE  FALSE
      <4>1. PICK what : Becomes(j, what) /\ what.left \in Nat
        BY <3>4, PresenceAssumption DEF Poll, Claim, LoseClaim, Gets, GetsNone, Ask, Decided, End, At
      <4> QED BY <3>3, <4>1
    <3>5. CASE Heartbeat
      <4>1. CASE Extended BY <2>1, <2>2, <4>1, ExtendedLoop, PresenceAssumption
      <4> QED BY <2>1, <2>2, <3>5, <4>1 DEF Heartbeat, Lost
    <3>6. CASE Stop BY <2>1, <2>2, <3>6 DEF Stop, At
    <3>7. ASSUME NEW v \in Labels, SetLabels(v) \/ Start(v) PROVE FALSE
      BY <2>1, <2>2, <3>7 DEF SetLabels, Start
    <3> QED BY <3>1, <3>2, <3>4, <3>5, <3>6, <3>7 DEF PresenceNext
  <2>4. 0 + missed * Beat + SinceHeartbeat >= LeaseTicks
    BY <1>1, <2>1, <2>3 DEF PresenceInv, LeaseIsAccounted
  <2>5. SinceHeartbeat \in Int /\ SinceHeartbeat <= Beat
    BY <1>1, PresenceAssumption DEF PresenceInv, PresenceTypeOK, SinceHeartbeat
  <2>6. missed * Beat \in Nat /\ (missed + 1) * Beat = missed * Beat + Beat
    BY <1>1, OneMoreInterval DEF PresenceInv, PresenceTypeOK
  <2> QED
    <3> DEFINE M == missed * Beat
    <3>1. M \in Nat /\ (missed + 1) * Beat = M + Beat /\ M + SinceHeartbeat >= LeaseTicks
      BY <2>4, <2>5, <2>6
    <3> HIDE DEF M
    <3> QED BY <2>2, <2>5, <3>1, PresenceAssumption
<1>2. PresenceInv /\ [PresenceNext]_vars
      => [\A i \in Loop : doing[i].at = "told" /\ Expires(i) => (missed + 1) * Beat >= LeaseTicks]_vars
  BY <1>1
<1> QED BY <1>2, PresenceInvariant, PTL DEF PresenceSpec, WaitSurvivesMisses

=============================================================================
