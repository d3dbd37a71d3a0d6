----------------------------- MODULE GpuFc_proofs -----------------------------
(***************************************************************************)
(* Proofs about GpuFc, for every number of GPUs and every error_tolerance. *)
(***************************************************************************)
EXTENDS GpuFc, TLAPS

USE SizeAssumption, BoundAssumption DEF Gpus, Ages

-----------------------------------------------------------------------------
(* The operators on lists of ages.                                         *)

\* A fresh report names every GPU with age 0.
LEMMA FreshAges ==
  ASSUME NEW n \in Nat
  PROVE  Fresh(n) \in Seq(Ages) /\ Len(Fresh(n)) = n /\ AtMost(Fresh(n), 0)
BY DEF Fresh, AtMost

\* A poll makes every age one older, and never more.
LEMMA OlderAges ==
  ASSUME NEW s \in Seq(Ages)
  PROVE  /\ Older(s) \in Seq(Ages) /\ Len(Older(s)) = Len(s)
         /\ \A a \in Nat : AtMost(s, a) => AtMost(Older(s), a + 1)
BY DEF Older, AtMost

LEMMA AppendAges ==
  ASSUME NEW s \in Seq(Ages), NEW age \in Ages
  PROVE  /\ Append(s, age) \in Seq(Ages) /\ Len(Append(s, age)) = Len(s) + 1
         /\ Append(s, age) # <<>>
         /\ \A a \in Nat : AtMost(s, a) /\ age <= a => AtMost(Append(s, age), a)
<1>1. /\ Append(s, age) \in Seq(Ages) /\ Len(Append(s, age)) = Len(s) + 1
      /\ DOMAIN s = 1..Len(s) /\ DOMAIN Append(s, age) = 1..Len(s) + 1
      /\ \A j \in 1..Len(s) : Append(s, age)[j] = s[j]
      /\ Append(s, age)[Len(s) + 1] = age /\ Len(s) \in Nat
  OBVIOUS
<1>2. \A a \in Nat : AtMost(s, a) /\ age <= a => AtMost(Append(s, age), a)
  BY <1>1 DEF AtMost
<1>3. Append(s, age) # <<>>
  BY <1>1
<1>4. QED
  BY <1>1, <1>2, <1>3

LEMMA AtMostWeaker ==
  ASSUME NEW s \in Seq(Ages), NEW a \in Nat, NEW b \in Nat, AtMost(s, a), a <= b
  PROVE  AtMost(s, b)
BY DEF AtMost

-----------------------------------------------------------------------------
(* The reads.                                                              *)

\* What a read can do, whichever way the call fails: a call that answers for all GPUs,
\* one that does not, or the list of the call before, which may be too short.
LEMMA ReadForms ==
  ASSUME GpuInv, NEW i \in Gpus, Read(i)
  PROVE  /\ pc = "read" /\ i = Len(temps) + 1 /\ cache' \in Seq(Ages)
         /\ UNCHANGED <<perDevice, bad>>
         /\ before' \in {before, "call"} /\ (Starting => before' = before)
         /\ calm' => calm
         /\ \/ /\ due /\ (calm' => ~due')
               /\ cache' = Fresh(Count) /\ Succeed(i, 0)
            \/ /\ due /\ Fail(i)
               /\ cache' = cache \/ AtMost(cache', 0)
            \/ pc' \in {"unset", "mistyped"} /\ UNCHANGED <<temps, streak, failed>>
            \/ /\ ~due /\ (calm' => ~due') /\ cache' = cache /\ cached' = cached
               /\ \/ cached /\ i <= Len(cache) /\ Succeed(i, cache[i])
                  \/ cached /\ i > Len(cache) /\ Fail(i)
<1>1. cache \in Seq(Ages)
  BY DEF GpuInv, Types
<1> USE DEF CallMade, Reading, IsNext, Elapse
<1>2. CASE CallSucceeds(i)
  BY <1>1, <1>2, FreshAges DEF CallSucceeds
<1>3. CASE CallMissing(i)
  BY <1>1, <1>3 DEF CallMissing
<1>4. CASE CallTruncated(i)
  <2>1. PICK n \in 0..Count - 1 : cache' = Fresh(n)
    BY <1>4 DEF CallTruncated
  <2>2. cache' \in Seq(Ages) /\ AtMost(cache', 0)
    BY <2>1, FreshAges
  <2>3. QED
    BY <1>4, <2>2 DEF CallTruncated
<1>5. CASE CallGarbled(i)
  BY <1>1, <1>5 DEF CallGarbled
<1>6. CASE Lookup(i)
  <2>1. CASE ~cached
    BY <1>1, <1>6, <2>1 DEF Lookup
  <2>2. CASE cached /\ i <= Len(cache)
    BY <1>1, <1>6, <2>2 DEF Lookup
  <2>3. CASE cached /\ ~(i <= Len(cache))
    <3>1. i > Len(cache)
      BY <1>1, <2>3
    <3>2. QED
      BY <1>1, <1>6, <2>3, <3>1 DEF Lookup
  <2>4. QED
    BY <2>1, <2>2, <2>3
<1>7. CASE CallMistyped(i)
  <2>1. PICK n \in 0..Count - 1 : cache' = Fresh(n)
    BY <1>7 DEF CallMistyped
  <2>2. cache' \in Seq(Ages)
    BY <2>1, FreshAges
  <2>3. QED
    BY <1>7, <2>2 DEF CallMistyped
<1>8. QED
  BY <1>2, <1>3, <1>4, <1>5, <1>6, <1>7 DEF Read

LEMMA SucceedKeeps ==
  ASSUME GpuInv, NEW i \in Gpus, NEW age \in Ages, Succeed(i, age),
         pc = "read", i = Len(temps) + 1, cache' \in Seq(Ages), UNCHANGED <<perDevice, bad>>,
         before' \in {before, "call"}, Starting => before' = before
  PROVE  Types' /\ Budget' /\ Beginning'
<1>1. Types /\ Budget /\ Beginning
  BY DEF GpuInv
<1>2. /\ temps' \in Seq(Ages) /\ Len(temps') = i /\ pc' = pc /\ failed' = failed
      /\ streak' \in [Gpus -> Nat] /\ \A j \in Gpus : streak'[j] = IF j = i THEN 0 ELSE streak[j]
  <2>1. temps \in Seq(Ages) /\ temps' = Append(temps, age) /\ pc' = pc /\ failed' = failed
    BY <1>1 DEF Types, Succeed
  <2>2. streak \in [Gpus -> Nat] /\ streak' = [streak EXCEPT ![i] = 0]
    BY <1>1 DEF Types, Succeed
  <2>3. streak' \in [Gpus -> Nat] /\ \A j \in Gpus : streak'[j] = IF j = i THEN 0 ELSE streak[j]
    BY <2>2
  <2>4. temps' \in Seq(Ages) /\ Len(temps') = i
    BY <2>1, AppendAges
  <2>5. QED
    BY <2>1, <2>3, <2>4
<1>3. Types'
  <2>1. /\ perDevice \in Seq(Ages) /\ Len(perDevice) \in {0, Count} /\ bad \in Ages
        /\ i <= Count
    BY <1>1 DEF Types
  <2>2. QED
    BY <1>2, <2>1 DEF Types
<1>4. Budget'
  <2>1. ASSUME NEW j \in Gpus
        PROVE  /\ streak'[j] <= ErrorTolerance
               /\ IF j <= i THEN streak'[j] <= bad + 1 /\ (streak'[j] > 0 => failed)
                            ELSE streak'[j] <= bad
    <3>1. Len(temps) \in Nat /\ bad \in Nat /\ streak[j] \in Nat
      BY <1>1 DEF Types
    <3>2. /\ streak[j] <= ErrorTolerance
          /\ IF j <= Len(temps) THEN streak[j] <= bad + 1 /\ (streak[j] > 0 => failed)
                                ELSE streak[j] <= bad
      BY <1>1 DEF Budget
    <3>3. CASE j = i
      BY <1>2, <3>1, <3>3
    <3>4. CASE j # i
      <4>1. streak'[j] = streak[j]
        BY <1>2, <3>4
      <4>2. QED
        BY <3>1, <3>2, <3>4, <4>1
    <3>5. QED
      BY <3>3, <3>4
  <2>2. QED
    BY <1>2, <2>1 DEF Budget
<1>5. Beginning'
  BY <1>1, <1>2 DEF Beginning, Starting
<1>6. QED
  BY <1>3, <1>4, <1>5

\* What a failed read leaves behind when it is tolerated.
LEMMA FailForms ==
  ASSUME GpuInv, NEW i \in Gpus, Fail(i), pc = "read", i = Len(temps) + 1
  PROVE  /\ failed' = TRUE /\ streak' \in [Gpus -> Nat]
         /\ \A j \in Gpus : streak'[j] = IF j = i THEN streak[i] + 1 ELSE streak[j]
         /\ \/ pc' = "dead" /\ temps' = temps /\ (Starting \/ streak[i] >= ErrorTolerance)
            \/ /\ pc' = "read" /\ ~Starting /\ streak[i] < ErrorTolerance
               /\ Len(perDevice) = Count /\ perDevice[i] \in Ages
               /\ temps' = Append(temps, perDevice[i])
<1>1. Types
  BY DEF GpuInv
<1>2. ~Starting => Len(perDevice) = Count /\ perDevice[i] \in Ages
  <2>1. perDevice \in Seq(Ages) /\ Len(perDevice) \in {0, Count}
    BY <1>1 DEF Types
  <2>2. QED
    BY <2>1 DEF Starting
<1>3. streak' \in [Gpus -> Nat] /\ \A j \in Gpus : streak'[j] = IF j = i THEN streak[i] + 1 ELSE streak[j]
  <2>1. streak \in [Gpus -> Nat] /\ streak' = [streak EXCEPT ![i] = @ + 1]
    BY <1>1 DEF Types, Fail
  <2>2. QED
    BY <2>1
<1>4. streak[i] \in Nat
  BY <1>1 DEF Types
<1>5. QED
  BY <1>2, <1>3, <1>4 DEF Fail

LEMMA FailKeeps ==
  ASSUME GpuInv, NEW i \in Gpus, Fail(i),
         pc = "read", i = Len(temps) + 1, cache' \in Seq(Ages), UNCHANGED <<perDevice, bad>>,
         before' \in {before, "call"}, Starting => before' = before
  PROVE  Types' /\ Budget' /\ Beginning'
<1>1. Types /\ Budget /\ Beginning
  BY DEF GpuInv
<1>2. /\ failed' = TRUE /\ streak' \in [Gpus -> Nat]
      /\ \A j \in Gpus : streak'[j] = IF j = i THEN streak[i] + 1 ELSE streak[j]
  BY FailForms
<1>3. \A j \in Gpus : streak[j] \in Nat /\ streak[j] <= ErrorTolerance
  BY <1>1 DEF Types, Budget
<1>4. streak[i] <= bad /\ bad \in Nat
  BY <1>1 DEF Types, Budget
<1>5. CASE pc' = "dead" /\ temps' = temps /\ (Starting \/ streak[i] >= ErrorTolerance)
  <2>1. Types'
    BY <1>1, <1>2, <1>5 DEF Types, Starting
  <2>2. Budget'
    BY <1>2, <1>3, <1>4, <1>5 DEF Budget, Starting
  <2>3. Beginning'
    BY <1>5 DEF Beginning
  <2>4. QED
    BY <2>1, <2>2, <2>3
<1>6. CASE /\ pc' = "read" /\ ~Starting /\ streak[i] < ErrorTolerance
           /\ perDevice[i] \in Ages
           /\ temps' = Append(temps, perDevice[i])
  <2>1. temps' \in Seq(Ages) /\ Len(temps') = i
    BY <1>1, <1>6, AppendAges DEF Types
  <2>2. Types'
    BY <1>1, <1>2, <1>6, <2>1, SMTT(30) DEF Types, Starting
  <2>3. Budget'
    <3>1. \A j \in Gpus : IF j <= Len(temps) THEN streak[j] <= bad + 1 ELSE streak[j] <= bad
      BY <1>1 DEF Budget
    <3>2. ASSUME NEW j \in Gpus
          PROVE  /\ streak'[j] <= ErrorTolerance
                 /\ IF j <= i THEN streak'[j] <= bad + 1 ELSE streak'[j] <= bad
      <4>1. CASE j = i
        <5>1. streak'[j] = streak[i] + 1 /\ streak[i] \in Nat
          BY <1>2, <1>3, <4>1
        <5>2. QED
          BY <1>4, <1>6, <4>1, <5>1
      <4>2. CASE j # i
        <5>1. streak'[j] = streak[j] /\ streak[j] \in Nat /\ streak[j] <= ErrorTolerance
          BY <1>2, <1>3, <4>2
        <5>2. Len(temps) \in Nat /\ IF j <= Len(temps) THEN streak[j] <= bad + 1 ELSE streak[j] <= bad
          BY <1>1, <3>1 DEF Types
        <5>3. QED
          BY <4>2, <5>1, <5>2
      <4>3. QED
        BY <4>1, <4>2
    <3>4. QED
      BY <1>2, <1>6, <2>1, <3>2 DEF Budget
  <2>4. Beginning'
    BY <1>1, <1>6 DEF Beginning, Starting
  <2>5. QED
    BY <2>2, <2>3, <2>4
<1>7. QED
  BY <1>5, <1>6, FailForms

\* A read in a calm poll.
LEMMA ReadYoung ==
  ASSUME GpuInv, NEW i \in Gpus, Read(i)
  PROVE  Young'
<1> SUFFICES ASSUME calm', pc' = "read" PROVE
      /\ temps' # <<>>
      /\ AtMost(cache', streak'[1]) /\ AtMost(temps', streak'[1])
      /\ IF streak'[1] = 0 THEN ~due' /\ Len(cache') = Count
                           ELSE AtMost(perDevice', streak'[1])
  <2>1. pc' # "idle"
    BY ReadForms DEF Succeed, Fail
  <2>2. QED
    BY <2>1 DEF Young
<1>1. /\ pc = "read" /\ i = Len(temps) + 1 /\ cache' \in Seq(Ages)
      /\ perDevice' = perDevice /\ calm
  BY ReadForms
<1>2. Types /\ Young /\ streak \in [Gpus -> Nat] /\ temps \in Seq(Ages) /\ cache \in Seq(Ages)
      /\ perDevice \in Seq(Ages) /\ streak[1] \in Nat /\ 1 \in Gpus
  BY DEF GpuInv, Types
<1>3. temps = <<>> <=> i = 1
  BY <1>1, <1>2
<1>4. CASE due /\ ~due' /\ cache' = Fresh(Count) /\ Succeed(i, 0)
  <2>1. Len(cache') = Count /\ AtMost(cache', 0)
    BY <1>4, FreshAges
  <2>2. temps' = Append(temps, 0) /\ temps' # <<>> /\ 0 \in Ages
    <3>1. 0 \in Ages
      OBVIOUS
    <3>2. QED
      BY <1>2, <1>4, <3>1, AppendAges DEF Succeed
  <2>3. CASE i = 1
    <3>1. streak'[1] = 0
      BY <1>2, <1>4, <2>3 DEF Succeed
    <3>2. AtMost(temps', 0)
      BY <1>2, <1>3, <2>2, <2>3, AppendAges DEF AtMost
    <3>3. QED
      BY <1>4, <2>1, <2>2, <3>1, <3>2
  <2>4. CASE i # 1
    <3>1. streak'[1] = streak[1] /\ AtMost(temps, streak[1]) /\ AtMost(perDevice, streak[1])
      BY <1>1, <1>2, <1>3, <1>4, <2>4 DEF Succeed, Young
    <3>2. AtMost(temps', streak'[1])
      BY <1>2, <2>2, <3>1, AppendAges
    <3>3. AtMost(cache', streak'[1])
      BY <1>1, <1>2, <2>1, <3>1, AtMostWeaker
    <3>4. QED
      BY <1>1, <1>4, <2>1, <2>2, <3>1, <3>2, <3>3
  <2>5. QED
    BY <2>3, <2>4
<1>5. CASE due /\ Fail(i) /\ (cache' = cache \/ AtMost(cache', 0))
  <2>1. /\ Len(perDevice) = Count /\ perDevice[i] \in Ages /\ temps' = Append(temps, perDevice[i])
        /\ \A j \in Gpus : streak'[j] = IF j = i THEN streak[i] + 1 ELSE streak[j]
    BY <1>1, <1>5, FailForms
  <2>2. DOMAIN perDevice = Gpus
    BY <1>2, <2>1
  <2>3. temps' # <<>>
    BY <1>2, <2>1, AppendAges
  <2>4. CASE i = 1
    <3>1. streak'[1] = streak[1] + 1 /\ AtMost(cache, streak[1] + 1) /\ AtMost(perDevice, streak[1] + 1)
      BY <1>1, <1>2, <1>3, <1>5, <2>1, <2>4 DEF Young
    <3>2. perDevice[i] <= streak[1] + 1 /\ streak[1] + 1 \in Nat
      <4>1. i \in DOMAIN perDevice
        BY <2>2
      <4>2. QED
        BY <1>2, <3>1, <4>1 DEF AtMost
    <3>6. AtMost(temps, streak[1] + 1)
      BY <1>3, <2>4 DEF AtMost
    <3>3. AtMost(temps', streak'[1])
      BY <1>2, <2>1, <3>1, <3>2, <3>6, AppendAges
    <3>4. AtMost(cache', streak'[1])
      BY <1>1, <1>2, <1>5, <3>1, <3>2, AtMostWeaker
    <3>5. QED
      BY <1>1, <1>2, <2>3, <3>1, <3>3, <3>4
  <2>5. CASE i # 1
    <3>1. streak'[1] = streak[1] /\ AtMost(cache, streak[1]) /\ AtMost(temps, streak[1])
          /\ streak[1] # 0 /\ AtMost(perDevice, streak[1])
      BY <1>1, <1>2, <1>3, <1>5, <2>1, <2>5 DEF Young
    <3>2. perDevice[i] <= streak[1]
      BY <2>2, <3>1 DEF AtMost
    <3>3. AtMost(temps', streak'[1])
      BY <1>2, <2>1, <3>1, <3>2, AppendAges
    <3>4. AtMost(cache', streak'[1])
      BY <1>1, <1>2, <1>5, <3>1, AtMostWeaker
    <3>5. QED
      BY <1>1, <2>3, <3>1, <3>3, <3>4
  <2>6. QED
    BY <2>4, <2>5
<1>6. CASE ~due /\ ~due' /\ cache' = cache /\ cached /\ i <= Len(cache) /\ Succeed(i, cache[i])
  <2>1. temps' = Append(temps, cache[i]) /\ cache[i] \in Ages /\ temps' # <<>>
    BY <1>2, <1>6, AppendAges, SMTT(30) DEF Succeed
  <2>2. CASE i = 1
    <3>1. streak'[1] = 0 /\ Len(cache) = Count /\ AtMost(cache, 0)
      BY <1>1, <1>2, <1>3, <1>6, <2>2 DEF Succeed, Young
    <3>2. cache[i] <= 0 /\ AtMost(temps, 0)
      <4>1. i \in DOMAIN cache
        BY <1>2, <1>6
      <4>2. QED
        BY <1>3, <2>2, <3>1, <4>1 DEF AtMost
    <3>3. AtMost(temps', 0)
      BY <1>2, <2>1, <3>2, AppendAges
    <3>4. QED
      BY <1>6, <2>1, <3>1, <3>3
  <2>3. CASE i # 1
    <3>1. /\ streak'[1] = streak[1] /\ AtMost(cache, streak[1]) /\ AtMost(temps, streak[1])
          /\ IF streak[1] = 0 THEN Len(cache) = Count ELSE AtMost(perDevice, streak[1])
      BY <1>1, <1>2, <1>3, <1>6, <2>3 DEF Succeed, Young
    <3>2. cache[i] <= streak[1]
      BY <1>2, <1>6, <3>1 DEF AtMost
    <3>3. AtMost(temps', streak'[1])
      BY <1>2, <2>1, <3>1, <3>2, AppendAges
    <3>4. QED
      BY <1>1, <1>6, <2>1, <3>1, <3>3
  <2>4. QED
    BY <2>2, <2>3
<1>7. CASE ~due /\ cache' = cache /\ cached /\ i > Len(cache) /\ Fail(i)
  <2>1. /\ Len(perDevice) = Count /\ perDevice[i] \in Ages /\ temps' = Append(temps, perDevice[i])
        /\ \A j \in Gpus : streak'[j] = IF j = i THEN streak[i] + 1 ELSE streak[j]
    BY <1>1, <1>7, FailForms
  <2>2. i # 1 /\ streak[1] # 0
    BY <1>1, <1>2, <1>3, <1>7 DEF Young
  <2>3. streak'[1] = streak[1] /\ AtMost(cache, streak[1]) /\ AtMost(temps, streak[1])
        /\ AtMost(perDevice, streak[1])
    BY <1>1, <1>2, <1>3, <2>1, <2>2 DEF Young
  <2>4. perDevice[i] <= streak[1]
    <3>1. i \in DOMAIN perDevice
      BY <1>2, <2>1
    <3>2. QED
      BY <2>3, <3>1 DEF AtMost
  <2>5. AtMost(temps', streak'[1]) /\ temps' # <<>>
    BY <1>2, <2>1, <2>3, <2>4, AppendAges
  <2>6. QED
    BY <1>1, <1>7, <2>2, <2>3, <2>5
<1>8. QED
  BY <1>4, <1>5, <1>6, <1>7, ReadForms

LEMMA ReadKeeps ==
  ASSUME GpuInv, NEW i \in Gpus, Read(i)
  PROVE  GpuInv'
<1>1. cache \in Seq(Ages) /\ 0 \in Ages
  BY DEF GpuInv, Types
<1>2. Types' /\ Budget' /\ Beginning'
  <2>1. CASE \E age \in Ages : Succeed(i, age)
    BY <2>1, ReadForms, SucceedKeeps
  <2>2. CASE Fail(i)
    BY <2>2, ReadForms, FailKeeps
  <2>3. CASE pc' \in {"unset", "mistyped"} /\ UNCHANGED <<temps, streak, failed>>
    BY <2>3, ReadForms DEF GpuInv, Types, Budget, Beginning, Starting
  <2>4. i <= Len(cache) => cache[i] \in Ages
    BY <1>1
  <2>5. QED
    BY <1>1, <2>1, <2>2, <2>3, <2>4, ReadForms
<1>3. QED
  BY <1>2, ReadYoung DEF GpuInv

-----------------------------------------------------------------------------
(* The other steps.                                                        *)

LEMMA InitGpu == Init => GpuInv
<1> SUFFICES ASSUME Init PROVE GpuInv
  OBVIOUS
<1> USE DEF Init
<1>1. Types
  BY DEF Types, Starting
<1>2. Budget
  BY DEF Budget, Starting
<1>3. Beginning
  BY DEF Beginning, Starting
<1>4. Young
  BY DEF Young, AtMost
<1>5. QED
  BY <1>1, <1>2, <1>3, <1>4 DEF GpuInv

LEMMA PublishKeeps == GpuInv /\ Publish => GpuInv'
<1> SUFFICES ASSUME GpuInv, Publish PROVE GpuInv'
  OBVIOUS
<1>1. Types /\ Budget /\ Beginning /\ Young
  BY DEF GpuInv
<1>2. /\ pc = "read" /\ pc' = "idle" /\ Len(temps) = Count /\ perDevice' = temps
      /\ bad' = IF ~failed THEN 0 ELSE IF bad < MaxAge THEN bad + 1 ELSE MaxAge
      /\ UNCHANGED <<due, cached, cache, temps, streak, before, calm, failed>>
  BY DEF Publish
<1>3. temps # <<>> /\ perDevice' # <<>>
  BY <1>1, <1>2 DEF Types
<1>4. Types'
  BY <1>1, <1>2, <1>3 DEF Types, Starting
<1>5. Budget'
  <2>1. \A j \in Gpus : streak[j] <= bad + 1 /\ (streak[j] > 0 => failed) /\ streak[j] <= ErrorTolerance
    BY <1>1, <1>2 DEF Budget
  <2>2. bad \in Ages /\ streak \in [Gpus -> Nat]
    BY <1>1 DEF Types
  <2>3. \A j \in Gpus : streak[j] <= bad'
    BY <1>2, <2>1, <2>2
  <2>4. QED
    BY <1>2, <2>1, <2>3 DEF Budget
<1>6. Beginning'
  BY <1>1, <1>2 DEF Beginning
<1>7. Young'
  <2>1. 1 \in Gpus /\ streak[1] \in Nat
    BY <1>1 DEF Types
  <2> SUFFICES ASSUME calm' PROVE
        /\ AtMost(cache, streak[1]) /\ AtMost(temps, streak[1])
        /\ before = "start" => Len(cache) = Count
    BY <1>2 DEF Young
  <2>2. QED
    BY <1>1, <1>2, <1>3 DEF Young, Beginning
<1>8. QED
  BY <1>4, <1>5, <1>6, <1>7 DEF GpuInv

LEMMA PollKeeps ==
  ASSUME GpuInv, NEW isDue \in BOOLEAN, Poll(isDue)
  PROVE  GpuInv'
<1>1. Types /\ Budget /\ Beginning /\ Young
  BY DEF GpuInv
<1>2. /\ pc = "idle" /\ pc' = "read" /\ temps' = <<>> /\ due' = isDue
      /\ before' = "none"
      /\ calm' = (calm /\ (isDue \/ before = "start"))
      /\ IF isDue THEN cache' = Older(cache) /\ perDevice' = Older(perDevice)
                  ELSE UNCHANGED <<cache, perDevice>>
      /\ UNCHANGED <<cached, streak, bad>>
  BY DEF Poll
<1>3. /\ cache \in Seq(Ages) /\ perDevice \in Seq(Ages) /\ Len(perDevice) = Count
      /\ streak \in [Gpus -> Nat] /\ streak[1] \in Nat /\ perDevice # <<>>
  BY <1>1, <1>2 DEF Types, Starting
<1>4. cache' \in Seq(Ages) /\ perDevice' \in Seq(Ages) /\ Len(perDevice') = Count
  BY <1>2, <1>3, OlderAges
<1>5. perDevice' # <<>>
  BY <1>4
<1>6. Types'
  BY <1>1, <1>2, <1>4 DEF Types
<1>7. Budget'
  BY <1>1, <1>2 DEF Budget, Types
<1>8. Beginning'
  BY <1>2, <1>5 DEF Beginning, Starting
<1>9. Young'
  <2> SUFFICES ASSUME calm' PROVE
        IF isDue THEN AtMost(cache', streak[1] + 1) /\ AtMost(perDevice', streak[1] + 1)
        ELSE Len(cache) = Count /\ AtMost(cache, 0) /\ AtMost(perDevice, 0)
    BY <1>2 DEF Young
  <2>1. /\ AtMost(cache, streak[1]) /\ AtMost(perDevice, streak[1])
        /\ before = "start" => Len(cache) = Count
    BY <1>1, <1>2 DEF Young
  <2>2. CASE isDue
    BY <1>2, <1>3, <2>1, <2>2, OlderAges
  <2>3. CASE ~isDue
    BY <1>1, <1>2, <2>1, <2>3 DEF Beginning
  <2>4. QED
    BY <2>2, <2>3
<1>10. QED
  BY <1>6, <1>7, <1>8, <1>9 DEF GpuInv

LEMMA GpuInvariant == Spec => []GpuInv
<1>1. GpuInv /\ [Next]_vars => GpuInv'
  <2> SUFFICES ASSUME GpuInv, [Next]_vars PROVE GpuInv'
    OBVIOUS
  <2>1. CASE UNCHANGED vars
    BY <2>1 DEF vars, GpuInv, Types, Budget, Beginning, Young, Starting, AtMost
  <2>2. CASE Next
    BY <2>2, PollKeeps, ReadKeeps, PublishKeeps DEF Next
  <2>3. QED
    BY <2>1, <2>2
<1>2. QED
  BY <1>1, InitGpu, PTL DEF Spec

\* Every temperature in use was reported within the last error_tolerance polls, as long
\* as the failing calls fall on the first GPU: for every number of GPUs, every tool and
\* every way a call fails.
THEOREM StaleWithinTolerance == Spec => []NeverTooOld
<1>1. GpuInv => NeverTooOld
  <2> SUFFICES ASSUME GpuInv, pc = "idle", calm, NEW i \in Gpus
               PROVE  perDevice[i] <= ErrorTolerance
    BY DEF NeverTooOld
  <2>1. Types /\ AtMost(perDevice, streak[1]) /\ streak[1] <= ErrorTolerance /\ 1 \in Gpus
    BY DEF GpuInv, Young, Budget
  <2>2. DOMAIN perDevice = Gpus /\ perDevice \in Seq(Ages) /\ streak[1] \in Nat
    BY <2>1 DEF Types, Starting
  <2>3. perDevice[i] <= streak[1] /\ perDevice[i] \in Ages
    BY <2>2, <2>1 DEF AtMost
  <2>4. QED
    BY <2>1, <2>2, <2>3
<1>2. QED
  BY <1>1, GpuInvariant, PTL

\* Once it has a first reading, the controller is stopped only by the poll after
\* error_tolerance polls with failures in a row, whichever GPU fails and however the
\* failures of the GPUs fall on each other.
THEOREM StopsAfterTolerance == Spec => []ToleratesPolls
<1>1. GpuInv => ToleratesPolls
  BY DEF GpuInv, Budget, ToleratesPolls
<1>2. QED
  BY <1>1, GpuInvariant, PTL

-----------------------------------------------------------------------------
(* Types, and the host that is up for longer than an interval.             *)

LEMMA ReadTyped ==
  ASSUME GpuInv, TypeOK, NEW i \in Gpus, Read(i), GpuInv'
  PROVE  TypeOK'
<1>1. /\ pc = "read" /\ i = Len(temps) + 1
      /\ UNCHANGED <<gpuType, perDevice, bad>>
      /\ due' \in BOOLEAN /\ calm' \in BOOLEAN /\ before' \in {before, "call"}
      /\ pc' \in {"read", "dead", "unset", "mistyped"}
  BY DEF Read, CallSucceeds, CallMissing, CallTruncated, CallGarbled, CallMistyped, Lookup,
         CallMade, Reading, IsNext, Elapse, Succeed, Fail, TypeOK
<1>2. cached' \in BOOLEAN /\ failed' \in BOOLEAN
  BY DEF Read, CallSucceeds, CallMissing, CallTruncated, CallGarbled, CallMistyped, Lookup,
         CallMade, Succeed, Fail, TypeOK
<1>3. cache' \in Seq(Ages) /\ Len(cache') <= Count
  <2>1. CASE UNCHANGED cache
    BY <2>1 DEF TypeOK
  <2>2. CASE \E n \in 0..Count : cache' = Fresh(n)
    <3>1. PICK n \in 0..Count : cache' = Fresh(n)
      BY <2>2
    <3>2. n \in Nat /\ n <= Count
      BY <3>1, SizeAssumption
    <3>3. Len(Fresh(n)) = n
      BY <3>2, FreshAges
    <3>4. QED
      BY <3>1, <3>2, <3>3 DEF GpuInv, Types
  <2>3. CallSucceeds(i) => \E n \in 0..Count : cache' = Fresh(n)
    BY SizeAssumption DEF CallSucceeds
  <2>4. CallTruncated(i) \/ CallMistyped(i) => \E n \in 0..Count : cache' = Fresh(n)
    <3> SUFFICES ASSUME CallTruncated(i) \/ CallMistyped(i)
                 PROVE  \E n \in 0..Count : cache' = Fresh(n)
      OBVIOUS
    <3>1. PICK n \in 0..Count - 1 : cache' = Fresh(n)
      BY DEF CallTruncated, CallMistyped
    <3>2. n \in 0..Count
      BY SizeAssumption
    <3>3. QED
      BY <3>1, <3>2
  <2>5. QED
    BY <2>1, <2>2, <2>3, <2>4 DEF Read, CallMissing, CallGarbled, Lookup
<1>4. streak' \in [Gpus -> 0..ErrorTolerance + 1]
  <2>1. streak[i] \in 0..ErrorTolerance
    BY <1>1, SizeAssumption DEF GpuInv, Budget, TypeOK
  <2>2. streak' = streak \/ streak' = [streak EXCEPT ![i] = 0] \/ streak' = [streak EXCEPT ![i] = @ + 1]
    BY DEF Read, CallSucceeds, CallMissing, CallTruncated, CallGarbled, CallMistyped, Lookup,
           Succeed, Fail
  <2>3. streak[i] + 1 \in 0..ErrorTolerance + 1 /\ 0 \in 0..ErrorTolerance + 1
    BY <2>1, SizeAssumption
  <2>4. QED
    BY <2>2, <2>3 DEF TypeOK
<1>5. QED
  BY <1>1, <1>2, <1>3, <1>4 DEF TypeOK, GpuInv, Types

LEMMA NextTyped == GpuInv /\ TypeOK /\ [Next]_vars /\ GpuInv' => TypeOK'
<1> SUFFICES ASSUME GpuInv, TypeOK, [Next]_vars, GpuInv' PROVE TypeOK'
  OBVIOUS
<1>1. CASE \E i \in Gpus : Read(i)
  BY <1>1, ReadTyped
<1>2. CASE Publish
  BY <1>2 DEF Publish, TypeOK, GpuInv, Types
<1>3. CASE \E isDue \in BOOLEAN : Poll(isDue)
  <2>1. PICK isDue \in BOOLEAN : Poll(isDue)
    BY <1>3
  <2>2. /\ due' \in BOOLEAN /\ calm' \in BOOLEAN /\ failed' \in BOOLEAN
        /\ before' = "none" /\ UNCHANGED <<gpuType, cached, streak>>
    BY <2>1 DEF Poll, TypeOK
  <2>3. Len(cache') <= Count
    <3>1. CASE cache' = cache
      BY <3>1 DEF TypeOK
    <3>2. CASE cache' = Older(cache)
      BY <3>2, OlderAges DEF TypeOK
    <3>3. QED
      BY <2>1, <3>1, <3>2 DEF Poll
  <2>4. QED
    BY <2>2, <2>3 DEF TypeOK, GpuInv, Types
<1>4. CASE UNCHANGED vars
  BY <1>4 DEF vars, TypeOK
<1>5. QED
  BY <1>1, <1>2, <1>3, <1>4 DEF Next

\* gpufc.py: every field has its type; gpu_temperature never has more entries than there
\* are GPUs, and no streak grows beyond the failure that stops the service.
THEOREM Typed == Spec => []TypeOK
<1>1. Init => TypeOK
  <2>1. ASSUME Init PROVE streak \in [Gpus -> 0..ErrorTolerance + 1] /\ bad \in Ages
    BY <2>1, SizeAssumption, BoundAssumption DEF Init, Ages
  <2>2. <<>> \in Seq(Ages) /\ Len(<<>>) = 0 /\ 0 <= Count
    BY SizeAssumption
  <2>3. ASSUME Init PROVE pc \in {"idle", "read", "dead", "unset", "mistyped"} /\ before \in {"start", "call", "none"}
    BY <2>3 DEF Init
  <2>4. ASSUME Init
        PROVE  /\ gpuType \in {"nvidia", "amd"} /\ due \in BOOLEAN /\ cached \in BOOLEAN
               /\ calm \in BOOLEAN /\ failed \in BOOLEAN
    BY <2>4 DEF Init
  <2>5. ASSUME Init PROVE cache = <<>> /\ temps = <<>> /\ perDevice = <<>>
    BY <2>5 DEF Init
  <2>6. ASSUME Init PROVE TypeOK
    BY <2>1, <2>2, <2>3, <2>4, <2>5, <2>6 DEF TypeOK
  <2>7. QED
    BY <2>6
<1>2. QED
  BY <1>1, GpuInvariant, NextTyped, PTL DEF Spec

\* gpu_temperature exists, but for the constructor before its first call; only rocm-smi
\* reports in a form that can have another type.
Warm ==
  /\ pc \in {"idle", "read", "dead", "mistyped"}
  /\ pc = "mistyped" => gpuType = "amd"
  /\ cached \/ pc = "dead" \/ (pc = "read" /\ due /\ Starting /\ temps = <<>>)

LEMMA NextWarm == Warm /\ [Next]_vars => Warm'
<1> SUFFICES ASSUME Warm, [Next]_vars PROVE Warm'
  OBVIOUS
<1>1. CASE \E i \in Gpus : CallSucceeds(i) \/ CallTruncated(i)
  <2>1. pc = "read" /\ pc' \in {"read", "dead"} /\ cached' = TRUE
    BY <1>1 DEF CallSucceeds, CallTruncated, CallMade, Reading, Succeed, Fail
  <2>2. QED
    BY <2>1 DEF Warm
<1>2. CASE \E i \in Gpus : CallMissing(i) \/ CallGarbled(i)
  <2>1. /\ pc = "read" /\ pc' \in {"read", "dead"} /\ UNCHANGED <<cached, perDevice>>
        /\ Starting => pc' = "dead"
    BY <1>2 DEF CallMissing, CallGarbled, CallMade, Reading, Fail
  <2>2. QED
    BY <2>1 DEF Warm
<1>3. CASE \E i \in Gpus : CallMistyped(i)
  <2>1. pc' = "mistyped" /\ gpuType' = "amd" /\ cached' = TRUE
    BY <1>3 DEF CallMistyped
  <2>2. QED
    BY <2>1 DEF Warm
<1>4. CASE \E i \in Gpus : Lookup(i)
  <2>1. pc = "read" /\ ~due /\ UNCHANGED cached /\ (cached => pc' \in {"read", "dead"})
    BY <1>4 DEF Lookup, Reading, Succeed, Fail
  <2>2. QED
    BY <2>1 DEF Warm
<1>5. CASE Publish
  <2>1. pc = "read" /\ pc' = "idle" /\ UNCHANGED cached /\ Len(temps) = Count
    BY <1>5 DEF Publish
  <2>2. temps # <<>>
    BY <2>1, SizeAssumption
  <2>3. QED
    BY <2>1, <2>2 DEF Warm
<1>6. CASE \E isDue \in BOOLEAN : Poll(isDue)
  <2>1. UNCHANGED cached /\ pc = "idle" /\ pc' = "read"
    BY <1>6 DEF Poll
  <2>2. QED
    BY <2>1 DEF Warm
<1>7. CASE UNCHANGED vars
  <2>1. UNCHANGED <<cached, pc, gpuType, due, perDevice, temps>>
    BY <1>7 DEF vars
  <2>2. QED
    BY <2>1 DEF Warm, Starting
<1>8. QED
  BY <1>1, <1>2, <1>3, <1>4, <1>5, <1>6, <1>7 DEF Next, Read

\* gpufc.py:77-81, fancontroller.py:211: on a host whose clock is past the first interval
\* the list always exists when it is indexed (Gpu_boot.cfg shows the other hosts), and the
\* only error get_temp() does not catch is the TypeError of a rocm-smi report: an
\* nvidia-smi report, whatever it says, never ends the service but through the budget.
THEOREM UncaughtErrors ==
  Spec /\ due => [](ListExists /\ (pc = "mistyped" => gpuType = "amd"))
<1>1. Init /\ due => Warm
  BY DEF Init, Warm, Starting
<1>2. Warm => ListExists /\ (pc = "mistyped" => gpuType = "amd")
  BY DEF Warm, ListExists
<1>3. QED
  BY <1>1, <1>2, NextWarm, PTL DEF Spec
=============================================================================
