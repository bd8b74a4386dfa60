----------------------- MODULE WorkerSettings_proofs -----------------------
(***************************************************************************)
(* Proofs about WorkerSettings, for any number of loops and any settings.  *)
(*                                                                         *)
(* What keeps a worker from running dry, and from running too many loops,  *)
(* is where in the array the loops that go on are: the first of them is    *)
(* never told to stop, and none stands behind the setting.                 *)
(***************************************************************************)
EXTENDS WorkerSettings, SequenceTheorems, FiniteSetTheorems, TLAPS

FirstGoesOn == ~stopping => loops # <<>> /\ ~loops[1].stop

GoOnInFront ==
  ~torn => \A i \in DOMAIN loops : ~loops[i].stop => i <= concurrency(configured, overrides)

IInv == SettingsTypeOK /\ FirstGoesOn /\ GoOnInFront /\ DiskMirrorsMemory

-----------------------------------------------------------------------------
(***************************************************************************)
(* The settings.                                                           *)
(***************************************************************************)
LEMMA NoOverrideIsOverride == NoOverride \in Override
BY DEF NoOverride, Override

LEMMA ConcurrencyType ==
  ASSUME NEW conf \in Setting, NEW o \in Override
  PROVE  concurrency(conf, o) \in 1 .. MaxLoops
BY DEF concurrency, Setting, Override

LEMMA PatchedConcurrency ==
  ASSUME SettingsTypeOK, NEW n \in 1 .. MaxLoops
  PROVE  /\ Patched("concurrency", n) \in Override
         /\ concurrency(configured, Patched("concurrency", n)) = n
<1>1. overrides \in [concurrency : 1 .. MaxLoops \union {None}, rest : Rest \union {None}]
  BY DEF SettingsTypeOK, Override
<1>2. n # None
  BY SettingsAssumption
<1> QED BY <1>1, <1>2 DEF Patched, Override, concurrency

LEMMA PatchedRest ==
  ASSUME SettingsTypeOK, NEW v \in Rest
  PROVE  /\ Patched("rest", v) \in Override
         /\ concurrency(configured, Patched("rest", v)) = concurrency(configured, overrides)
BY DEF Patched, Override, concurrency, SettingsTypeOK

\* A written file is read as what was written.
LEMMA WrittenIsRead ==
  ASSUME NEW o \in Override
  PROVE  IF Written(o) \in {None, Cut} THEN o = NoOverride ELSE Written(o) = o
BY SettingsAssumption DEF Written

-----------------------------------------------------------------------------
(***************************************************************************)
(* The array of loops.                                                     *)
(***************************************************************************)
LEMMA Adjusting ==
  ASSUME NEW ls \in Seq(Loop), NEW target \in 1 .. MaxLoops, NEW going \in BOOLEAN,
         NEW new, new = applyConcurrency(ls, target, going)
  PROVE  /\ new \in Seq(Loop) /\ new # <<>>
         /\ \A i \in DOMAIN new : ~new[i].stop => i <= target
         /\ ls = <<>> \/ ~ls[1].stop => ~new[1].stop
         /\ ls = <<>> => Len(new) = target
<1> DEFINE more == IF Len(ls) < target THEN target - Len(ls) ELSE 0
           added == [i \in 1 .. more |-> NewLoop(going)]
           grown == Grown(ls, target, going)
<1>1. Len(ls) \in Nat /\ target \in Nat /\ target >= 1 /\ more \in Nat
  BY LenProperties, SettingsAssumption
<1>2. NewLoop(going) \in Loop /\ NewLoop(going).stop = FALSE
  BY DEF NewLoop, Loop
<1>3. added \in Seq(Loop) /\ Len(added) = more /\ \A i \in 1 .. more : added[i] = NewLoop(going)
  <2> HIDE DEF more
  <2>1. added \in Seq(Loop)
    BY <1>1, <1>2, IsASeq
  <2> QED BY <1>1, <2>1, LenProperties
<1> HIDE DEF added
<1>4. /\ grown \in Seq(Loop) /\ Len(grown) = Len(ls) + more
      /\ \A i \in 1 .. Len(ls) + more : grown[i] = IF i <= Len(ls) THEN ls[i] ELSE added[i - Len(ls)]
  <2>1. grown = ls \o added
    BY DEF Grown, added
  <2>2. ls \o added \in Seq(Loop) /\ Len(ls \o added) = Len(ls) + Len(added)
    BY <1>3, ConcatProperties
  <2>3. \A i \in 1 .. Len(ls) + Len(added) :
          (ls \o added)[i] = IF i <= Len(ls) THEN ls[i] ELSE added[i - Len(ls)]
    BY <1>3, ConcatProperties
  <2> HIDE DEF more
  <2> QED BY <1>3, <2>1, <2>2, <2>3
<1>5. DOMAIN grown = 1 .. Len(ls) + more /\ Len(ls) + more >= 1 /\ Len(ls) + more \in Nat
  BY <1>1, <1>4, LenProperties
<1> HIDE DEF grown, more
<1>6. /\ DOMAIN new = 1 .. Len(ls) + more
      /\ \A i \in 1 .. Len(ls) + more :
           new[i] = IF i > target THEN [grown[i] EXCEPT !.stop = TRUE] ELSE grown[i]
      /\ new = [i \in 1 .. Len(ls) + more |-> new[i]]
  BY <1>5 DEF applyConcurrency, grown
<1>7. ASSUME NEW i \in 1 .. Len(ls) + more
      PROVE  new[i] \in Loop /\ (i > target => new[i].stop)
  <2>1. grown[i] \in Loop BY <1>4, <1>5, LenProperties
  <2> QED BY <1>6, <2>1 DEF Loop
<1>8. new \in Seq(Loop) /\ Len(new) = Len(ls) + more
  <2> DEFINE n == Len(ls) + more
  <2> HIDE DEF n
  <2>0. n \in Nat /\ new = [i \in 1 .. n |-> new[i]] /\ \A i \in 1 .. n : new[i] \in Loop
    BY <1>5, <1>6, <1>7 DEF n
  <2>1. new \in Seq(Loop) BY <2>0, IsASeq
  <2> QED BY <1>5, <1>6, <2>1, LenProperties
<1>9. new # <<>>
  BY <1>5, <1>8
<1>10. \A i \in DOMAIN new : ~new[i].stop => i <= target
  BY <1>1, <1>6, <1>7
<1>11. ls = <<>> \/ ~ls[1].stop => ~new[1].stop
  <2>1. new[1] = grown[1]
    <3>1. 1 \in 1 .. Len(ls) + more /\ ~(1 > target) BY <1>1, <1>5
    <3> QED BY <1>6, <3>1
  <2>2. CASE ls = <<>>
    <3>1. Len(ls) = 0 BY <2>2
    <3>2. grown[1] = added[1] /\ 1 \in 1 .. more BY <1>1, <1>4, <1>5, <3>1
    <3> QED BY <1>2, <1>3, <2>1, <3>2
  <2>3. CASE ls # <<>>
    <3>1. Len(ls) >= 1 BY <2>3, <1>1, EmptySeq
    <3> QED BY <1>1, <1>4, <1>5, <2>1, <2>3, <3>1
  <2> QED BY <2>2, <2>3
<1>12. ls = <<>> => Len(new) = target
  BY <1>1, <1>8 DEF more
<1> QED BY <1>8, <1>9, <1>10, <1>11, <1>12

\* Every loop is where it was, or one place further to the front.
MovedUp(new, ls) ==
  \A j \in DOMAIN new : new[j] = ls[j] \/ (new[j] = ls[j + 1] /\ j + 1 \in DOMAIN ls)

\* The loops behind one that leaves move up.
LEMMA Leaving ==
  ASSUME NEW ls \in Seq(Loop), NEW i \in DOMAIN ls, NEW new, new = RemoveAt(ls, i)
  PROVE  /\ new \in Seq(Loop) /\ Len(new) = Len(ls) - 1
         /\ MovedUp(new, ls)
         /\ i # 1 => new # <<>> /\ new[1] = ls[1]
<1> DEFINE n == Len(ls)
           before == SubSeq(ls, 1, i - 1)
           after == SubSeq(ls, i + 1, n)
<1>1. n \in Nat /\ DOMAIN ls = 1 .. n /\ i \in 1 .. n /\ \A j \in 1 .. n : ls[j] \in Loop
  BY LenProperties, ElementOfSeq
<1>2. /\ before \in Seq(Loop) /\ Len(before) = i - 1
      /\ \A j \in 1 .. i - 1 : before[j] = ls[j]
  <2>1. 1 \in Int /\ i - 1 \in Int /\ \A j \in 1 .. i - 1 : ls[j] \in Loop BY <1>1
  <2> QED BY <1>1, <2>1, SubSeqProperties
<1>3. /\ after \in Seq(Loop) /\ Len(after) = n - i
      /\ \A j \in 1 .. n - i : after[j] = ls[i + j]
  <2>1. i + 1 \in Int /\ n \in Int /\ \A j \in i + 1 .. n : ls[j] \in Loop BY <1>1
  <2> QED BY <1>1, <2>1, SubSeqProperties
<1> HIDE DEF before, after
<1>4. new = before \o after
  BY DEF RemoveAt, before, after
<1>5. new \in Seq(Loop) /\ Len(new) = n - 1
  <2>1. before \o after \in Seq(Loop) /\ Len(before \o after) = Len(before) + Len(after)
    BY <1>2, <1>3, ConcatProperties
  <2> QED BY <1>1, <1>2, <1>3, <1>4, <2>1
<1>6. \A j \in 1 .. n - 1 : new[j] = IF j <= i - 1 THEN before[j] ELSE after[j - (i - 1)]
  <2>1. \A j \in 1 .. Len(before) + Len(after) :
          (before \o after)[j] = IF j <= Len(before) THEN before[j] ELSE after[j - Len(before)]
    BY <1>2, <1>3, ConcatProperties
  <2> QED BY <1>1, <1>2, <1>3, <1>4, <2>1
<1>7. DOMAIN new = 1 .. n - 1
  BY <1>5, LenProperties
<1>8. ASSUME NEW j \in 1 .. n - 1
      PROVE  IF j <= i - 1 THEN new[j] = ls[j] ELSE new[j] = ls[j + 1] /\ j + 1 \in 1 .. n
  <2>1. CASE j <= i - 1 BY <1>1, <1>2, <1>6, <2>1
  <2>2. CASE ~(j <= i - 1)
    <3>1. j - (i - 1) \in 1 .. n - i /\ i + (j - (i - 1)) = j + 1 BY <1>1, <2>2
    <3>2. new[j] = after[j - (i - 1)] BY <1>6, <2>2
    <3>3. after[j - (i - 1)] = ls[i + (j - (i - 1))] BY <1>3, <3>1
    <3> QED BY <1>1, <2>2, <3>1, <3>2, <3>3
  <2> QED BY <2>1, <2>2
<1>9. i # 1 => new # <<>> /\ new[1] = ls[1]
  <2>1. i # 1 => 1 \in 1 .. n - 1 /\ 1 <= i - 1 BY <1>1
  <2> QED BY <1>5, <1>7, <1>8, <2>1
<1>10. MovedUp(new, ls)
  BY <1>1, <1>7, <1>8 DEF MovedUp
<1> QED BY <1>5, <1>9, <1>10

-----------------------------------------------------------------------------
(***************************************************************************)
(* The steps.                                                              *)
(***************************************************************************)

\* Adjusted, with the settings it follows.
LEMMA AdjustedKeeps ==
  ASSUME IInv, overrides' \in Override, configured' = configured, stopping' = stopping, Adjusted
  PROVE  /\ loops' \in Seq(Loop) /\ Len(loops') <= MaxRunning
         /\ FirstGoesOn' /\ GoOnInFront'
<1> DEFINE target == concurrency(configured, overrides')
<1>1. target \in 1 .. MaxLoops
  <2> DEFINE o == overrides'
  <2> HIDE DEF o
  <2>1. o \in Override BY DEF o
  <2>2. concurrency(configured, o) \in 1 .. MaxLoops
    BY <2>1, ConcurrencyType DEF IInv, SettingsTypeOK
  <2> QED BY <2>2 DEF o
<1> HIDE DEF target
<1>2. loops' = applyConcurrency(loops, target, ~stopping) /\ Len(loops') <= MaxRunning
  BY DEF Adjusted, target
<1>3. loops \in Seq(Loop) /\ (~stopping) \in BOOLEAN
  BY DEF IInv, SettingsTypeOK
<1>4. /\ loops' \in Seq(Loop) /\ loops' # <<>>
      /\ \A i \in DOMAIN loops' : ~loops'[i].stop => i <= target
      /\ loops = <<>> \/ ~loops[1].stop => ~loops'[1].stop
  <2> DEFINE new == loops'
  <2> HIDE DEF new
  <2>1. new = applyConcurrency(loops, target, ~stopping) BY <1>2 DEF new
  <2>2. new \in Seq(Loop) /\ new # <<>> BY <1>1, <1>3, <2>1, Adjusting
  <2>3. \A i \in DOMAIN new : ~new[i].stop => i <= target BY <1>1, <1>3, <2>1, Adjusting
  <2>4. loops = <<>> \/ ~loops[1].stop => ~new[1].stop BY <1>1, <1>3, <2>1, Adjusting
  <2> QED BY <2>2, <2>3, <2>4 DEF new
<1>5. FirstGoesOn'
  BY <1>4 DEF IInv, FirstGoesOn
<1>6. GoOnInFront'
  BY <1>4 DEF GoOnInFront, target
<1> QED BY <1>2, <1>4, <1>5, <1>6

\* A successful write, a failed one.
LEMMA SaveKeeps ==
  ASSUME IInv, NEW o \in Override, Save(o) \/ SaveFails(o)
  PROVE  /\ overrides' = o /\ disk' \in Override \union {None, Cut} /\ torn' \in BOOLEAN
         /\ DiskMirrorsMemory'
         /\ SaveFails(o) => torn'
<1>1. IF Written(o) \in {None, Cut} THEN o = NoOverride ELSE Written(o) = o
  BY WrittenIsRead
<1>2. Written(o) \in Override \union {None, Cut}
  BY <1>1
<1>3. CASE Save(o)
  BY <1>1, <1>2, <1>3 DEF Save, SaveFails, DiskMirrorsMemory, IInv, SettingsTypeOK
<1>4. CASE SaveFails(o)
  <2>1. disk' \in Override \union {None, Cut}
    BY <1>4 DEF SaveFails, IInv, SettingsTypeOK
  <2> QED BY <1>4, <2>1 DEF SaveFails, DiskMirrorsMemory
<1> QED BY <1>3, <1>4

LEMMA BootKeeps ==
  ASSUME NEW conf \in Setting, NEW file \in Override \union {None, Cut},
         Boot(conf, file), disk' = file
  PROVE  IInv'
<1> DEFINE o == IF file \in {None, Cut} THEN NoOverride ELSE file
           target == concurrency(conf, o)
<1>1. o \in Override
  BY NoOverrideIsOverride
<1>2. target \in 1 .. MaxLoops
  BY <1>1, ConcurrencyType
<1>3. /\ configured' = conf /\ overrides' = o /\ stopping' = FALSE /\ torn' = FALSE
      /\ loops' = applyConcurrency(<<>>, target, TRUE)
  BY DEF Boot
<1> HIDE DEF target
<1>4. /\ loops' \in Seq(Loop) /\ loops' # <<>> /\ Len(loops') = target /\ ~loops'[1].stop
      /\ \A i \in DOMAIN loops' : ~loops'[i].stop => i <= target
  <2> DEFINE new == loops'
             ls == <<>>
  <2>0. ls \in Seq(Loop) /\ TRUE \in BOOLEAN /\ ls = <<>> BY EmptySeq
  <2> HIDE DEF new, ls
  <2>1. new = applyConcurrency(ls, target, TRUE) BY <1>3, <2>0 DEF new
  <2>2. new \in Seq(Loop) /\ new # <<>> BY <1>2, <2>0, <2>1, Adjusting
  <2>3. \A i \in DOMAIN new : ~new[i].stop => i <= target BY <1>2, <2>0, <2>1, Adjusting
  <2>4. ~new[1].stop /\ Len(new) = target BY <1>2, <2>0, <2>1, Adjusting
  <2> QED BY <2>2, <2>3, <2>4 DEF new
<1>5. SettingsTypeOK'
  <2>1. target <= MaxRunning BY <1>2, SettingsAssumption
  <2>2. loops' \in Seq(Loop) /\ Len(loops') <= MaxRunning BY <1>4, <2>1
  <2>3. overrides' \in Override /\ configured' \in Setting /\ stopping' \in BOOLEAN /\ torn' \in BOOLEAN
    BY <1>1, <1>3
  <2>4. disk' \in Override \union {None, Cut} OBVIOUS
  <2> QED BY <2>2, <2>3, <2>4 DEF SettingsTypeOK
<1>6. FirstGoesOn'
  BY <1>4 DEF FirstGoesOn
<1>7. GoOnInFront'
  BY <1>3, <1>4 DEF GoOnInFront, target
<1>8. DiskMirrorsMemory'
  BY <1>3 DEF DiskMirrorsMemory
<1> QED BY <1>5, <1>6, <1>7, <1>8 DEF IInv

\* A write, and then the adjustment or the error.
LEMMA SetKeeps ==
  ASSUME IInv, NEW o \in Override, UNCHANGED <<configured, stopping>>,
         (Save(o) /\ Adjusted) \/ (SaveFails(o) /\ UNCHANGED loops)
  PROVE  IInv'
<1>1. /\ overrides' = o /\ disk' \in Override \union {None, Cut} /\ torn' \in BOOLEAN
      /\ DiskMirrorsMemory' /\ (SaveFails(o) => torn')
  BY SaveKeeps
<1>2. CASE Adjusted
  BY <1>1, <1>2, AdjustedKeeps DEF IInv, SettingsTypeOK
<1>3. CASE SaveFails(o) /\ UNCHANGED loops
  BY <1>1, <1>3 DEF IInv, SettingsTypeOK, FirstGoesOn, GoOnInFront
<1> QED BY <1>2, <1>3

LEMMA SetRestKeeps ==
  ASSUME IInv, NEW v \in Rest, SetRest(v)
  PROVE  IInv'
<1> DEFINE o == Patched("rest", v)
<1>1. o \in Override /\ concurrency(configured, o) = concurrency(configured, overrides)
  BY PatchedRest DEF IInv
<1> HIDE DEF o
<1>2. Save(o) \/ SaveFails(o)
  BY DEF SetRest, o
<1>3. /\ overrides' = o /\ disk' \in Override \union {None, Cut} /\ torn' \in BOOLEAN
      /\ DiskMirrorsMemory' /\ (SaveFails(o) => torn')
  BY <1>1, <1>2, SaveKeeps
<1>4. UNCHANGED <<configured, loops, stopping>>
  BY DEF SetRest
<1>5. torn => torn'
  BY <1>2, <1>3 DEF Save
<1>6. GoOnInFront'
  BY <1>1, <1>3, <1>4, <1>5 DEF IInv, GoOnInFront
<1> QED BY <1>1, <1>3, <1>4, <1>6 DEF IInv, SettingsTypeOK, FirstGoesOn

\* A loop takes a task or is done with one.
LEMMA BusyKeeps ==
  ASSUME IInv, NEW i \in DOMAIN loops, NEW b \in BOOLEAN, loops' = [loops EXCEPT ![i].busy = b],
         UNCHANGED <<configured, overrides, disk, stopping, torn>>
  PROVE  IInv'
<1> DEFINE n == Len(loops)
           new == [loops[i] EXCEPT !.busy = b]
<1>1. n \in Nat /\ DOMAIN loops = 1 .. n /\ \A j \in 1 .. n : loops[j] \in Loop
  BY LenProperties, ElementOfSeq DEF IInv, SettingsTypeOK
<1>2. new \in Loop /\ new.stop = loops[i].stop
  BY <1>1 DEF Loop
<1>3. loops \in [1 .. n -> Loop] /\ loops' = [loops EXCEPT ![i] = new]
  BY LenProperties DEF IInv, SettingsTypeOK
<1> HIDE DEF new, n
<1>4. loops' \in [1 .. n -> Loop] /\ \A j \in 1 .. n : loops'[j].stop = loops[j].stop
  BY <1>1, <1>2, <1>3
<1>5. loops' \in Seq(Loop) /\ Len(loops') = n /\ DOMAIN loops' = 1 .. n
  <2>1. loops' \in UNION {[1 .. k -> Loop] : k \in Nat} BY <1>1, <1>4
  <2>2. loops' \in Seq(Loop) BY <2>1, SeqDef
  <2>3. DOMAIN loops' = 1 .. n BY <1>4
  <2>4. Len(loops') \in Nat /\ DOMAIN loops' = 1 .. Len(loops') BY <2>2, LenProperties
  <2> QED BY <1>1, <2>2, <2>3, <2>4
<1>6. SettingsTypeOK'
  BY <1>5 DEF IInv, SettingsTypeOK, n
<1>7. loops # <<>> => loops' # <<>> /\ 1 \in 1 .. n
  <2>1. loops # <<>> => n # 0 BY EmptySeq DEF IInv, SettingsTypeOK, n
  <2> QED BY <1>1, <1>5, <2>1
<1>8. FirstGoesOn' /\ GoOnInFront'
  BY <1>1, <1>4, <1>5, <1>7 DEF IInv, FirstGoesOn, GoOnInFront
<1> QED BY <1>6, <1>8 DEF IInv, DiskMirrorsMemory

LEMMA TurnKeeps ==
  ASSUME IInv, NEW i \in DOMAIN loops, Turn(i)
  PROVE  IInv'
<1>1. UNCHANGED <<configured, overrides, disk, stopping, torn>>
  BY DEF Turn
<1>2. /\ loops \in Seq(Loop) /\ Len(loops) \in Nat /\ DOMAIN loops = 1 .. Len(loops)
      /\ \A j \in DOMAIN loops : loops[j] \in Loop
  BY LenProperties, ElementOfSeq DEF IInv, SettingsTypeOK
<1>3. CASE stopping \/ loops[i].stop
  <2>1. loops' = RemoveAt(loops, i) BY <1>3 DEF Turn
  <2>2. /\ loops' \in Seq(Loop) /\ Len(loops') = Len(loops) - 1
        /\ MovedUp(loops', loops)
        /\ i # 1 => loops' # <<>> /\ loops'[1] = loops[1]
    <3> DEFINE new == loops'
    <3> HIDE DEF new
    <3>1. new = RemoveAt(loops, i) BY <2>1 DEF new
    <3>2. new \in Seq(Loop) /\ Len(new) = Len(loops) - 1 BY <1>2, <3>1, Leaving
    <3>3. MovedUp(new, loops)
      BY <1>2, <3>1, Leaving
    <3>4. i # 1 => new # <<>> /\ new[1] = loops[1] BY <1>2, <3>1, Leaving
    <3> QED BY <3>2, <3>3, <3>4 DEF new
  <2>3. FirstGoesOn' BY <1>1, <1>3, <2>2 DEF IInv, FirstGoesOn
  <2>4. GoOnInFront'
    <3>1. DOMAIN loops' = 1 .. Len(loops) - 1 BY <2>2, LenProperties
    <3>2. concurrency(configured, overrides) \in Int
      BY ConcurrencyType, SettingsAssumption DEF IInv, SettingsTypeOK
    <3>3. ASSUME ~torn, NEW j \in DOMAIN loops', ~loops'[j].stop
          PROVE  j <= concurrency(configured, overrides)
      <4>1. j \in DOMAIN loops /\ j \in Int BY <1>2, <3>1
      <4>2. CASE loops'[j] = loops[j] BY <3>3, <4>1, <4>2 DEF IInv, GoOnInFront
      <4>3. CASE loops'[j] = loops[j + 1] /\ j + 1 \in DOMAIN loops
        <5>1. j + 1 <= concurrency(configured, overrides) BY <3>3, <4>3 DEF IInv, GoOnInFront
        <5> QED BY <3>2, <4>1, <5>1
      <4> QED BY <2>2, <4>2, <4>3 DEF MovedUp
    <3> QED BY <1>1, <3>3 DEF GoOnInFront
  <2>5. Len(loops') <= MaxRunning BY <1>2, <2>2, SettingsAssumption DEF IInv, SettingsTypeOK
  <2> QED BY <1>1, <2>2, <2>3, <2>4, <2>5 DEF IInv, SettingsTypeOK, DiskMirrorsMemory
<1>4. CASE ~(stopping \/ loops[i].stop)
  <2>1. loops' = [loops EXCEPT ![i].busy = TRUE] BY <1>4 DEF Turn
  <2> QED BY <1>1, <2>1, BusyKeeps
<1> QED BY <1>3, <1>4

LEMMA RestartKeeps ==
  ASSUME IInv, NEW conf \in Setting, Restart(conf)
  PROVE  IInv'
<1>1. disk \in Override \union {None, Cut}
  BY DEF IInv, SettingsTypeOK
<1>2. CASE Boot(conf, disk) /\ UNCHANGED disk
  BY <1>1, <1>2, BootKeeps
<1>3. CASE disk' = Cut /\ Boot(conf, Cut)
  BY <1>3, BootKeeps
<1> QED BY <1>2, <1>3 DEF Restart

LEMMA Invariance == Spec => []IInv
<1>1. ASSUME Init PROVE IInv
  <2> DEFINE target == concurrency(configured, overrides)
  <2>1. overrides \in Override /\ target = configured.concurrency
    BY <1>1, NoOverrideIsOverride DEF Init, concurrency, NoOverride
  <2>2. target \in 1 .. MaxLoops
    BY <1>1, <2>1, ConcurrencyType DEF Init
  <2>3. loops = applyConcurrency(<<>>, target, TRUE)
    BY <1>1, <2>1 DEF Init
  <2> HIDE DEF target
  <2>4. /\ loops \in Seq(Loop) /\ loops # <<>> /\ Len(loops) = target /\ ~loops[1].stop
        /\ \A i \in DOMAIN loops : ~loops[i].stop => i <= target
    <3> DEFINE ls == <<>>
    <3>0. ls \in Seq(Loop) /\ TRUE \in BOOLEAN /\ ls = <<>> BY EmptySeq
    <3> HIDE DEF ls
    <3>1. loops = applyConcurrency(ls, target, TRUE) BY <2>3, <3>0
    <3>2. loops \in Seq(Loop) /\ loops # <<>> BY <2>2, <3>0, <3>1, Adjusting
    <3>3. \A i \in DOMAIN loops : ~loops[i].stop => i <= target BY <2>2, <3>0, <3>1, Adjusting
    <3>4. ~loops[1].stop /\ Len(loops) = target BY <2>2, <3>0, <3>1, Adjusting
    <3> QED BY <3>2, <3>3, <3>4
  <2>5. SettingsTypeOK
    <3>1. Len(loops) <= MaxRunning BY <2>2, <2>4, SettingsAssumption
    <3> QED BY <1>1, <2>1, <2>4, <3>1 DEF Init, SettingsTypeOK
  <2>6. FirstGoesOn /\ GoOnInFront
    BY <2>4 DEF FirstGoesOn, GoOnInFront, target
  <2>7. DiskMirrorsMemory
    BY <1>1 DEF Init, DiskMirrorsMemory
  <2> QED BY <2>5, <2>6, <2>7 DEF IInv
<1>2. ASSUME IInv, [Next]_vars PROVE IInv'
  <2>1. ASSUME NEW n \in 0 .. MaxLoops + 1, SetConcurrency(n) PROVE IInv'
    <3>1. n \in 1 .. MaxLoops BY <2>1 DEF SetConcurrency
    <3> DEFINE o == Patched("concurrency", n)
    <3>2. o \in Override BY <1>2, <3>1, PatchedConcurrency DEF IInv
    <3>3. (Save(o) /\ Adjusted) \/ (SaveFails(o) /\ UNCHANGED loops)
      BY <2>1 DEF SetConcurrency
    <3>4. UNCHANGED <<configured, stopping>>
      BY <2>1 DEF SetConcurrency
    <3> HIDE DEF o
    <3> QED BY <1>2, <3>2, <3>3, <3>4, SetKeeps
  <2>2. ASSUME NEW v \in Rest, SetRest(v) PROVE IInv'
    BY <1>2, <2>2, SetRestKeeps
  <2>3. CASE Reset
    <3>1. /\ (Save(NoOverride) /\ Adjusted) \/ (SaveFails(NoOverride) /\ UNCHANGED loops)
          /\ UNCHANGED <<configured, stopping>>
      BY <2>3 DEF Reset
    <3> QED BY <1>2, <3>1, NoOverrideIsOverride, SetKeeps
  <2>4. ASSUME NEW i \in DOMAIN loops, Turn(i) PROVE IInv'
    BY <1>2, <2>4, TurnKeeps
  <2>5. ASSUME NEW i \in DOMAIN loops, Done(i) PROVE IInv'
    BY <1>2, <2>5, BusyKeeps DEF Done
  <2>6. CASE Signal
    BY <1>2, <2>6 DEF Signal, IInv, SettingsTypeOK, FirstGoesOn, GoOnInFront, DiskMirrorsMemory
  <2>7. ASSUME NEW conf \in Setting, Restart(conf) PROVE IInv'
    BY <1>2, <2>7, RestartKeeps
  <2>8. CASE UNCHANGED vars
    BY <1>2, <2>8 DEF vars, IInv, SettingsTypeOK, FirstGoesOn, GoOnInFront, DiskMirrorsMemory
  <2> QED BY <1>2, <2>1, <2>2, <2>3, <2>4, <2>5, <2>6, <2>7, <2>8 DEF Next
<1> QED BY <1>1, <1>2, PTL DEF Spec

(***************************************************************************)
(* Settings, file and loops are always of their types: whatever the file   *)
(* holds, the worker starts with settings it can follow.                   *)
(***************************************************************************)
THEOREM SettingsTypeCorrect == Spec => []SettingsTypeOK
BY Invariance, PTL DEF IInv

(***************************************************************************)
(* No sequence of changes, writes that fail, and loops that leave, leaves  *)
(* the worker without a loop that goes on.                                 *)
(***************************************************************************)
THEOREM NeverRunsDryCorrect == Spec => []NeverRunsDry
<1>1. IInv => NeverRunsDry
  <2>1. IInv /\ loops # <<>> => 1 \in DOMAIN loops
    BY LenProperties, EmptySeq DEF IInv, SettingsTypeOK
  <2> QED BY <2>1 DEF IInv, FirstGoesOn, NeverRunsDry, Lasting
<1> QED BY <1>1, Invariance, PTL

(***************************************************************************)
(* No more loops go on than the setting asks for, for any number of loops. *)
(***************************************************************************)
THEOREM NoSurplusCorrect == Spec => []NoSurplus
<1>1. ASSUME IInv, ~torn PROVE Cardinality(Lasting) <= concurrency(configured, overrides)
  <2> DEFINE target == concurrency(configured, overrides)
  <2>1. target \in Nat
    BY <1>1, ConcurrencyType, SettingsAssumption DEF IInv, SettingsTypeOK
  <2>2. DOMAIN loops = 1 .. Len(loops) /\ Len(loops) \in Nat
    BY <1>1, LenProperties DEF IInv, SettingsTypeOK
  <2>3. Lasting \in SUBSET (1 .. target)
    BY <1>1, <2>1, <2>2 DEF IInv, GoOnInFront, Lasting
  <2> HIDE DEF target
  <2>4. 1 \in Int /\ target \in Int BY <2>1
  <2>5. IsFiniteSet(1 .. target) /\ Cardinality(1 .. target) = IF 1 > target THEN 0 ELSE target - 1 + 1
    BY <2>4, FS_Interval
  <2>6. Cardinality(1 .. target) = target BY <2>1, <2>5
  <2>7. Cardinality(Lasting) <= Cardinality(1 .. target) BY <2>3, <2>5, FS_Subset
  <2> QED BY <2>6, <2>7 DEF target
<1>2. IInv => NoSurplus BY <1>1 DEF NoSurplus
<1> QED BY <1>2, Invariance, PTL

(***************************************************************************)
(* As long as every write succeeds, a restart brings back what was set.    *)
(***************************************************************************)
THEOREM DiskMirrorsMemoryCorrect == Spec => []DiskMirrorsMemory
BY Invariance, PTL DEF IInv

=============================================================================
