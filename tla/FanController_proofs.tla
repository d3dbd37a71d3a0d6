------------------------- MODULE FanController_proofs -------------------------
(***************************************************************************)
(* Proofs about FanController and Snapshot, for every number of devices,   *)
(* every set of temperatures and every setting of the controller.          *)
(***************************************************************************)
EXTENDS Snapshot, FiniteSetTheorems, WellFoundedInduction, TLAPS

-----------------------------------------------------------------------------
(* Lists of temperatures: the coldest, the hottest and the sum of them are  *)
(* temperatures, proved on a smallest counterexample.                       *)

\* A set of numbers has a smallest one.
LEMMA NatMin ==
  ASSUME NEW S, S \subseteq Nat, S # {}
  PROVE  \E n \in S : \A m \in S : n <= m
<1>1. PICK n \in S : \A m \in S : ~(<<m, n>> \in OpToRel(<, Nat))
  BY WFMin, NatLessThanWellFounded, Zenon
<1>2. \A m \in S : <<m, n>> \in Nat \X Nat
  OBVIOUS
<1>3. \A m \in S : ~(m < n)
  BY <1>1, <1>2 DEF OpToRel
<1>4. QED
  BY <1>3

\* A list of numbers has a smallest one.
LEMMA Smallest ==
  ASSUME NEW n \in Nat, n > 0, NEW f, \A i \in 1..n : f[i] \in Int
  PROVE  \E i \in 1..n : \A j \in 1..n : f[i] <= f[j]
<1> DEFINE Has(k) == \E i \in 1..k : \A j \in 1..k : f[i] <= f[j]
           Bad == {k \in Nat : 0 < k /\ k <= n /\ ~Has(k)}
<1>1. ASSUME Bad # {} PROVE FALSE
  <2>1. PICK k \in Bad : \A m \in Bad : k <= m
    BY <1>1, NatMin
  <2>2. k \in Nat /\ 0 < k /\ k <= n /\ ~Has(k)
    OBVIOUS
  <2>3. CASE k = 1
    <3>1. \A j \in 1..k : j = 1
      BY <2>3
    <3>2. f[1] \in Int /\ 1 \in 1..k
      BY <2>2
    <3>3. QED
      BY <2>2, <3>1, <3>2
  <2>4. CASE k # 1
    <3>1. k - 1 \in Nat /\ 0 < k - 1 /\ k - 1 <= n /\ ~(k <= k - 1)
      BY <2>2, <2>4
    <3>2. Has(k - 1)
      BY <2>1, <3>1
    <3>3. PICK i \in 1..k - 1 : \A j \in 1..k - 1 : f[i] <= f[j]
      BY <3>2
    <3>4. /\ i \in 1..k /\ k \in 1..k /\ f[i] \in Int /\ f[k] \in Int
          /\ \A j \in 1..k : j = k \/ j \in 1..k - 1
      BY <2>2, <3>3
    <3>5. \A j \in 1..k - 1 : f[j] \in Int
      BY <2>2
    <3>6. CASE f[i] <= f[k]
      BY <2>2, <3>3, <3>4, <3>6
    <3>7. CASE f[k] < f[i]
      <4>1. \A j \in 1..k : f[k] <= f[j]
        BY <3>3, <3>4, <3>5, <3>7
      <4>2. QED
        BY <2>2, <3>4, <4>1
    <3>8. QED
      BY <3>4, <3>6, <3>7
  <2>5. QED
    BY <2>3, <2>4
<1>2. n \notin Bad
  BY <1>1
<1>3. QED
  BY <1>2

LEMMA Extremes ==
  ASSUME NEW s \in Seq(Int), Len(s) > 0
  PROVE  Coldest(s) \in Int /\ Hottest(s) \in Int
<1>1. Len(s) \in Nat /\ DOMAIN s = 1..Len(s) /\ \A i \in 1..Len(s) : s[i] \in Int
  OBVIOUS
<1>2. \A t \in ToSet(s) : t \in Int
  BY <1>1 DEF ToSet
<1>3. Coldest(s) \in ToSet(s)
  <2>1. PICK i \in 1..Len(s) : \A j \in 1..Len(s) : s[i] <= s[j]
    BY <1>1, Smallest
  <2>2. s[i] \in ToSet(s) /\ \A u \in ToSet(s) : s[i] <= u
    BY <1>1, <2>1 DEF ToSet
  <2>3. QED
    BY <2>2 DEF Coldest
<1>4. Hottest(s) \in ToSet(s)
  <2> DEFINE f == [i \in 1..Len(s) |-> -s[i]]
  <2>1. \A i \in 1..Len(s) : f[i] \in Int
    BY <1>1
  <2>2. PICK i \in 1..Len(s) : \A j \in 1..Len(s) : f[i] <= f[j]
    <3> HIDE DEF f
    <3>1. QED
      BY <1>1, <2>1, Smallest
  <2>3. \A j \in 1..Len(s) : s[i] >= s[j]
    BY <1>1, <2>2
  <2>4. s[i] \in ToSet(s) /\ \A u \in ToSet(s) : s[i] >= u
    BY <1>1, <2>3 DEF ToSet
  <2>5. QED
    BY <2>4 DEF Hottest
<1>5. QED
  BY <1>2, <1>3, <1>4

\* The last of some places of a list.
LEMMA Latest ==
  ASSUME NEW n \in Nat, NEW S, S \subseteq 1..n, S # {}
  PROVE  Max(S) \in S
<1> DEFINE D == {n - x : x \in S}
<1>1. D \subseteq Nat /\ D # {}
  <2>1. \A x \in S : n - x \in Nat
    OBVIOUS
  <2>2. \E x : x \in S
    OBVIOUS
  <2>3. QED
    BY <2>1, <2>2
<1>2. PICK d \in D : \A e \in D : d <= e
  BY <1>1, NatMin
<1>3. PICK x \in S : d = n - x
  OBVIOUS
<1>4. \A y \in S : x >= y
  <2> SUFFICES ASSUME NEW y \in S PROVE x >= y
    OBVIOUS
  <2>1. n - x <= n - y
    BY <1>2, <1>3
  <2>2. n \in Int /\ x \in Int /\ y \in Int
    OBVIOUS
  <2> HIDE DEF D
  <2>3. QED
    BY <2>1, <2>2
<1>5. QED
  BY <1>4 DEF Max

\* The sums over places that Total goes through, as one function.
Adding(s, g, S) == IF S = {} THEN 0 ELSE g[S \ {Max(S)}] + s[Max(S)]
UpTo(D, n) == {S \in SUBSET D : Cardinality(S) <= n}

LEMMA Fewer ==
  ASSUME NEW n \in Nat, NEW S \in SUBSET (1..n), S # {}
  PROVE  /\ Max(S) \in S /\ S \ {Max(S)} \in SUBSET (1..n)
         /\ Cardinality(S) \in Nat /\ Cardinality(S \ {Max(S)}) \in Nat
         /\ Cardinality(S) = Cardinality(S \ {Max(S)}) + 1
<1>1. Max(S) \in S
  BY Latest
<1>2. IsFiniteSet(S)
  <2>1. IsFiniteSet(1..n)
    BY FS_Interval
  <2>2. QED
    BY <2>1, FS_Subset
<1>3. Cardinality(S \ {Max(S)}) = Cardinality(S) - 1 /\ IsFiniteSet(S \ {Max(S)})
  BY <1>1, <1>2, FS_RemoveElement
<1>4. Cardinality(S) \in Nat /\ Cardinality(S \ {Max(S)}) \in Nat
  BY <1>2, <1>3, FS_CardinalityType
<1>5. S \ {Max(S)} \in SUBSET (1..n)
  OBVIOUS
<1>6. Cardinality(S) = Cardinality(S \ {Max(S)}) + 1
  BY <1>3, <1>4
<1>7. QED
  BY <1>1, <1>4, <1>5, <1>6

Sums(s, g, P) == g \in [P -> Int] /\ \A S \in P : g[S] = Adding(s, g, S)

LEMMA SumsExist ==
  ASSUME NEW s \in Seq(Int), NEW k \in Nat
  PROVE  \E g : Sums(s, g, UpTo(1..Len(s), k))
<1> DEFINE D == 1..Len(s)
           Bad == {n \in Nat : ~ \E g : Sums(s, g, UpTo(D, n))}
<1>1. Len(s) \in Nat /\ \A i \in D : s[i] \in Int
  OBVIOUS
<1>2. ASSUME Bad # {} PROVE FALSE
  <2>1. PICK n \in Bad : \A m \in Bad : n <= m
    BY <1>2, NatMin
  <2>2. n \in Nat /\ ~ \E g : Sums(s, g, UpTo(D, n))
    OBVIOUS
  <2> HIDE DEF D
  <2>3. \A S \in SUBSET D : S # {} =>
          /\ Max(S) \in S /\ S \ {Max(S)} \in SUBSET D
          /\ Cardinality(S) \in Nat /\ Cardinality(S \ {Max(S)}) \in Nat
          /\ Cardinality(S) = Cardinality(S \ {Max(S)}) + 1
    BY <1>1, Fewer DEF D
  <2>4. \A S \in SUBSET D : Cardinality(S) \in Nat
    <3>1. IsFiniteSet(D)
      BY <1>1, FS_Interval DEF D
    <3>2. QED
      BY <3>1, FS_Subset, FS_CardinalityType
  <2>5. CASE n = 0
    <3> DEFINE g == [S \in UpTo(D, 0) |-> 0]
    <3>1. \A S \in UpTo(D, 0) : S = {}
      <4> SUFFICES ASSUME NEW S \in UpTo(D, 0), S # {} PROVE FALSE
        OBVIOUS
      <4>1. S \in SUBSET D /\ Cardinality(S) <= 0
        BY DEF UpTo
      <4>2. Cardinality(S \ {Max(S)}) \in Nat /\ Cardinality(S) = Cardinality(S \ {Max(S)}) + 1
        BY <2>3, <4>1
      <4>3. QED
        BY <4>1, <4>2
    <3>2. Sums(s, g, UpTo(D, 0))
      BY <3>1 DEF Sums, Adding
    <3>3. QED
      BY <2>2, <2>5, <3>2
  <2>6. CASE n # 0
    <3>1. n - 1 \in Nat /\ n - 1 \notin Bad
      BY <2>1, <2>2, <2>6
    <3>2. PICK h : Sums(s, h, UpTo(D, n - 1))
      BY <3>1
    <3> DEFINE g == [S \in UpTo(D, n) |-> Adding(s, h, S)]
    <3>3. \A S \in UpTo(D, n) : S # {} => S \ {Max(S)} \in UpTo(D, n - 1) /\ s[Max(S)] \in Int
      <4> SUFFICES ASSUME NEW S \in UpTo(D, n), S # {}
                   PROVE  S \ {Max(S)} \in UpTo(D, n - 1) /\ s[Max(S)] \in Int
        OBVIOUS
      <4>1. S \in SUBSET D /\ Cardinality(S) <= n
        BY DEF UpTo
      <4>2. /\ Max(S) \in D /\ S \ {Max(S)} \in SUBSET D
            /\ Cardinality(S \ {Max(S)}) \in Nat /\ Cardinality(S) = Cardinality(S \ {Max(S)}) + 1
        BY <2>3, <4>1
      <4>3. Cardinality(S \ {Max(S)}) <= n - 1
        BY <2>2, <4>1, <4>2
      <4>4. QED
        BY <1>1, <4>2, <4>3 DEF UpTo, D
    <3>4. \A S \in UpTo(D, n - 1) : S \in UpTo(D, n) /\ g[S] = h[S]
      <4>1. \A S \in UpTo(D, n - 1) : S \in UpTo(D, n)
        BY <2>2, <2>4 DEF UpTo
      <4>2. QED
        BY <3>2, <4>1 DEF Sums
    <3>5. g \in [UpTo(D, n) -> Int]
      BY <3>2, <3>3 DEF Sums, Adding
    <3>6. \A S \in UpTo(D, n) : g[S] = Adding(s, g, S)
      BY <3>3, <3>4 DEF Adding
    <3>7. QED
      BY <2>2, <3>5, <3>6 DEF Sums
  <2>7. QED
    BY <2>5, <2>6
<1>3. QED
  BY <1>2

LEMMA TotalTyped ==
  ASSUME NEW s \in Seq(Int)
  PROVE  Total(s) \in Int
<1> DEFINE D == 1..Len(s)
           G == CHOOSE g : g = [S \in SUBSET D |-> Adding(s, g, S)]
<1>1. Len(s) \in Nat /\ DOMAIN s = D /\ \A i \in D : s[i] \in Int
  OBVIOUS
<1>2. Total(s) = G[D]
  BY <1>1 DEF Total, FoldLeft, MapThenFoldSet, Adding
<1>3. IsFiniteSet(D) /\ Cardinality(D) \in Nat
  BY <1>1, FS_Interval, FS_CardinalityType
<1>4. UpTo(D, Cardinality(D)) = SUBSET D
  <2>1. \A S \in SUBSET D : Cardinality(S) <= Cardinality(D)
    BY <1>3, FS_Subset
  <2>2. QED
    BY <2>1 DEF UpTo
<1>5. \E h : Sums(s, h, UpTo(D, Cardinality(D)))
  BY <1>3, SumsExist
<1>6. PICK h : Sums(s, h, SUBSET D)
  BY <1>4, <1>5
<1>7. h = [S \in SUBSET D |-> Adding(s, h, S)]
  BY <1>6 DEF Sums
<1>8. G = [S \in SUBSET D |-> Adding(s, G, S)]
  BY <1>7
<1> HIDE DEF G
<1> DEFINE Bad == {n \in Nat : \E S \in SUBSET D : Cardinality(S) = n /\ G[S] \notin Int}
<1>9. ASSUME Bad # {} PROVE FALSE
  <2>1. PICK n \in Bad : \A m \in Bad : n <= m
    BY <1>9, NatMin
  <2>2. PICK S \in SUBSET D : Cardinality(S) = n /\ G[S] \notin Int
    OBVIOUS
  <2>3. G[S] = Adding(s, G, S)
    BY <1>8
  <2>4. S # {}
    BY <2>2, <2>3 DEF Adding
  <2> DEFINE R == S \ {Max(S)}
  <2>5. /\ Max(S) \in S /\ R \in SUBSET D /\ Cardinality(R) \in Nat
        /\ Cardinality(S) = Cardinality(R) + 1
    BY <1>1, <2>2, <2>4, Fewer
  <2>6. ~(n <= Cardinality(R))
    BY <2>2, <2>5
  <2>7. G[R] \in Int
    BY <2>1, <2>5, <2>6
  <2>8. G[S] = G[R] + s[Max(S)] /\ s[Max(S)] \in Int
    BY <1>1, <2>2, <2>3, <2>4, <2>5 DEF Adding
  <2> HIDE DEF R
  <2>9. QED
    BY <2>2, <2>7, <2>8
<1>10. QED
  BY <1>2, <1>3, <1>9

-----------------------------------------------------------------------------
(* get_temp(): the reads.                                                  *)

USE CountAssumption, ConfigAssumption DEF Devices, IsNext, readVars, runVars

LEMMA InitFan == Init => FanInv
<1> SUFFICES ASSUME Init PROVE FanInv
  OBVIOUS
<1> USE DEF Init
<1>1. ReadTypes
  BY DEF ReadTypes
<1>2. Streaks
  BY DEF Streaks
<1>3. Readings
  BY DEF Readings
<1>4. Counted
  BY DEF Counted
<1>5. QED
  BY <1>1, <1>2, <1>3, <1>4 DEF FanInv

LEMMA ReadDeviceFan ==
  ASSUME FanInv, NEW i \in Devices, ReadDevice(i) PROVE FanInv'
<1>1. PICK t \in Temps : temps' = Append(temps, t) /\ lastGood' = [lastGood EXCEPT ![i] = t]
  BY DEF ReadDevice
<1>2. /\ pc = "read" /\ pc' = pc /\ i = Len(temps) + 1
      /\ readErrors' = [readErrors EXCEPT ![i] = 0] /\ missed' = [missed EXCEPT ![i] = 0]
      /\ UNCHANGED <<perDevice, readErrorsTotal>>
  BY DEF ReadDevice
<1>3. ReadTypes
  BY DEF FanInv
<1>4. Len(temps) \in Nat
  BY <1>3 DEF ReadTypes
<1>5. /\ temps' \in Seq(Temps) /\ Len(temps') = Len(temps) + 1 /\ temps'[i] = t
      /\ \A j \in Devices : j <= Len(temps) => temps'[j] = temps[j]
  BY <1>1, <1>2, <1>3 DEF ReadTypes
<1>6. ReadTypes'
  <2>1. lastGood' \in [Devices -> Temps \cup {0}]
    BY <1>1, <1>3 DEF ReadTypes
  <2>2. readErrors' \in [Devices -> Nat] /\ missed' \in [Devices -> Nat]
    BY <1>2, <1>3 DEF ReadTypes
  <2>3. Len(temps') <= Count
    BY <1>2, <1>5
  <2>4. pc' \in {"idle", "read", "failed", "decide", "apply", "dead"}
    BY <1>2
  <2>5. QED
    BY <1>2, <1>3, <1>5, <2>1, <2>2, <2>3, <2>4 DEF ReadTypes
<1>7. Streaks'
  BY <1>2, <1>3, <1>4, <1>5 DEF FanInv, Streaks, ReadTypes
<1>8. Readings'
  <2>1. /\ \A j \in Devices : j <= Len(temps) => temps[j] = lastGood[j]
        /\ \A j \in Devices : j > Len(temps) => perDevice = <<>> \/ perDevice[j] = lastGood[j]
    BY <1>2, <1>4 DEF FanInv, Readings
  <2>2. \A j \in Devices : lastGood'[j] = IF j = i THEN t ELSE lastGood[j]
    BY <1>1, <1>3 DEF ReadTypes
  <2>3. \A j \in Devices : j <= Len(temps') => temps'[j] = lastGood'[j]
    BY <1>2, <1>4, <1>5, <2>1, <2>2
  <2>4. \A j \in Devices : j > Len(temps') => perDevice' = <<>> \/ perDevice'[j] = lastGood'[j]
    BY <1>2, <1>4, <1>5, <2>1, <2>2
  <2>5. QED
    BY <1>2, <2>3, <2>4 DEF Readings
<1>9. Counted'
  <2>1. \A j \in Devices : readErrors[j] <= readErrorsTotal[j] + 0
    BY <1>2 DEF FanInv, Counted
  <2>2. /\ readErrors \in [Devices -> Nat] /\ readErrorsTotal \in [Devices -> Nat]
        /\ readErrorsTotal' = readErrorsTotal /\ pc' # "failed"
    BY <1>2, <1>3 DEF ReadTypes
  <2>3. \A j \in Devices : readErrors'[j] = IF j = i THEN 0 ELSE readErrors[j]
    BY <1>2, <2>2
  <2>4. QED
    BY <2>1, <2>2, <2>3 DEF Counted
<1>10. QED
  BY <1>6, <1>7, <1>8, <1>9 DEF FanInv

LEMMA ReadFailsFan ==
  ASSUME FanInv, NEW i \in Devices, ReadFails(i) PROVE FanInv'
<1>1. /\ pc = "read" /\ pc' = "failed" /\ i = Len(temps) + 1
      /\ readErrors' = [readErrors EXCEPT ![i] = @ + 1] /\ missed' = [missed EXCEPT ![i] = @ + 1]
      /\ UNCHANGED <<temps, perDevice, readErrorsTotal, lastGood>>
  BY DEF ReadFails
<1>2. ReadTypes
  BY DEF FanInv
<1>3. Len(temps) \in Nat
  BY <1>2 DEF ReadTypes
<1>4. ReadTypes'
  <2>1. readErrors \in [Devices -> Nat] /\ missed \in [Devices -> Nat]
    BY <1>2 DEF ReadTypes
  <2>2. readErrors' \in [Devices -> Nat] /\ missed' \in [Devices -> Nat]
    BY <1>1, <2>1, SMTT(30)
  <2>3. QED
    BY <1>1, <1>2, <2>2 DEF ReadTypes
<1>5. Streaks'
  BY <1>1, <1>2, <1>3 DEF FanInv, Streaks, ReadTypes
<1>6. Readings'
  BY <1>1 DEF FanInv, Readings
<1>7. Counted'
  <2>1. \A j \in Devices : readErrors[j] <= readErrorsTotal[j] + 0
    <3>1. pc # "failed"
      BY <1>1
    <3>2. QED
      BY <3>1 DEF FanInv, Counted
  <2>2. /\ readErrors \in [Devices -> Nat] /\ readErrorsTotal \in [Devices -> Nat]
        /\ readErrorsTotal' = readErrorsTotal /\ pc' = "failed" /\ temps' = temps
    BY <1>1, <1>2 DEF ReadTypes
  <2>3. \A j \in Devices : readErrors'[j] = IF j = i THEN readErrors[i] + 1 ELSE readErrors[j]
    BY <1>1, <2>2
  <2>4. QED
    BY <1>1, <1>3, <2>1, <2>2, <2>3 DEF Counted
<1>8. QED
  BY <1>4, <1>5, <1>6, <1>7 DEF FanInv

\* A reused temperature is the last one read from the device itself.
LEMMA ReuseFan ==
  ASSUME FanInv, NEW i \in Devices, ReuseLastTemp(i) PROVE FanInv'
<1>1. /\ pc = "failed" /\ i = Len(temps) + 1
      /\ readErrorsTotal' = [readErrorsTotal EXCEPT ![i] = @ + 1]
      /\ UNCHANGED <<perDevice, readErrors, lastGood, missed>>
  BY DEF ReuseLastTemp
<1>2. ReadTypes
  BY DEF FanInv
<1>3. Len(temps) \in Nat
  BY <1>2 DEF ReadTypes
<1>4. readErrorsTotal' \in [Devices -> Nat]
  <2>1. readErrorsTotal \in [Devices -> Nat]
    BY <1>2 DEF ReadTypes
  <2>2. QED
    BY <1>1, <2>1
<1>5. \A j \in Devices : readErrors'[j] <= readErrorsTotal'[j]
  <2>1. readErrors \in [Devices -> Nat] /\ readErrorsTotal \in [Devices -> Nat]
    BY <1>2 DEF ReadTypes
  <2>2. /\ readErrors[i] <= readErrorsTotal[i] + 1
        /\ \A j \in Devices \ {i} : readErrors[j] <= readErrorsTotal[j] + 0
    BY <1>1, <1>3 DEF FanInv, Counted
  <2>3. \A j \in Devices : readErrorsTotal'[j] = IF j = i THEN readErrorsTotal[i] + 1 ELSE readErrorsTotal[j]
    BY <1>1, <2>1
  <2>4. readErrors' = readErrors
    BY <1>1
  <2>5. QED
    BY <2>1, <2>2, <2>3, <2>4
<1>6. Counted'
  <2>1. \A j \in Devices : readErrorsTotal'[j] \in Nat /\ readErrors'[j] \in Nat
    BY <1>1, <1>2, <1>4 DEF ReadTypes
  <2>2. QED
    BY <1>5, <2>1 DEF Counted
<1>7. CASE pc' = "dead" /\ UNCHANGED temps
  <2>1. ReadTypes'
    BY <1>1, <1>2, <1>4, <1>7 DEF ReadTypes
  <2>2. Streaks'
    BY <1>1, <1>7 DEF FanInv, Streaks
  <2>3. Readings'
    BY <1>7 DEF Readings
  <2>4. QED
    BY <1>6, <2>1, <2>2, <2>3 DEF FanInv
<1>8. CASE /\ i <= Len(perDevice) /\ readErrors[i] <= ErrorTolerance
           /\ temps' = Append(temps, perDevice[i]) /\ pc' = "read"
  <2>1. perDevice[i] \in Temps
    BY <1>2, <1>8, SMTT(30) DEF ReadTypes
  <2>2. /\ temps' \in Seq(Temps) /\ Len(temps') = Len(temps) + 1 /\ temps'[i] = perDevice[i]
        /\ \A j \in Devices : j <= Len(temps) => temps'[j] = temps[j]
    BY <1>1, <1>2, <1>8, <2>1 DEF ReadTypes
  <2>3. ReadTypes'
    <3>1. Len(temps') <= Count
      BY <1>1, <2>2
    <3>2. QED
      BY <1>1, <1>2, <1>4, <1>8, <2>2, <3>1 DEF ReadTypes
  <2>4. Streaks'
    <3>1. \A j \in Devices : ~(missed[j] > ErrorTolerance)
      BY <1>1, <1>2, <1>3, <1>8 DEF FanInv, Streaks, ReadTypes
    <3>2. QED
      BY <1>1, <3>1 DEF FanInv, Streaks
  <2>5. perDevice[i] = lastGood[i]
    <3>1. perDevice # <<>>
      BY <1>8
    <3>2. QED
      BY <1>1, <1>3, <3>1 DEF FanInv, Readings
  <2>6. Readings'
    <3>1. /\ \A j \in Devices : j <= Len(temps) => temps[j] = lastGood[j]
          /\ \A j \in Devices : j > Len(temps) => perDevice = <<>> \/ perDevice[j] = lastGood[j]
      BY <1>1, <1>3 DEF FanInv, Readings
    <3>2. \A j \in Devices : j <= Len(temps') => temps'[j] = lastGood'[j]
      BY <1>1, <1>3, <2>2, <2>5, <3>1
    <3>3. \A j \in Devices : j > Len(temps') => perDevice' = <<>> \/ perDevice'[j] = lastGood'[j]
      BY <1>1, <1>3, <2>2, <3>1
    <3>4. QED
      BY <1>8, <3>2, <3>3 DEF Readings
  <2>7. QED
    BY <1>6, <2>3, <2>4, <2>6 DEF FanInv
<1>9. QED
  BY <1>7, <1>8 DEF ReuseLastTemp

LEMMA PublishFan ==
  ASSUME FanInv, Publish PROVE FanInv'
<1> USE DEF FanInv, ReadTypes, Publish
<1>1. ReadTypes'
  OBVIOUS
<1>2. Streaks'
  BY DEF Streaks
<1>3. Readings'
  BY DEF Readings
<1>4. Counted'
  BY DEF Counted
<1>5. QED
  BY <1>1, <1>2, <1>3, <1>4

LEMMA PollFan ==
  ASSUME FanInv, Poll PROVE FanInv'
<1> USE DEF FanInv, ReadTypes, Poll
<1>1. ReadTypes'
  <2>1. temps' \in Seq(Temps) /\ Len(temps') <= Count
    OBVIOUS
  <2>2. UNCHANGED <<perDevice, readErrors, readErrorsTotal, lastGood, missed>>
    OBVIOUS
  <2>3. pc' \in {"idle", "read", "failed", "decide", "apply", "dead"}
    OBVIOUS
  <2>4. QED
    BY <2>1, <2>2, <2>3
<1>2. Streaks'
  BY DEF Streaks
<1>3. Readings'
  BY DEF Readings
<1>4. Counted'
  BY DEF Counted
<1>5. QED
  BY <1>1, <1>2, <1>3, <1>4

\* What follows the reads disturbs none of what the reads have to keep.
LEMMA RunFan ==
  ASSUME FanInv, pc \in {"decide", "apply"}, pc' \in {"idle", "apply", "dead"}, UNCHANGED readVars
  PROVE  FanInv'
<1> USE DEF FanInv, ReadTypes
<1>1. ReadTypes'
  OBVIOUS
<1>2. Streaks'
  BY DEF Streaks
<1>3. Readings'
  BY DEF Readings
<1>4. Counted'
  BY DEF Counted
<1>5. QED
  BY <1>1, <1>2, <1>3, <1>4

LEMMA NextFan == FanInv /\ [Next]_vars => FanInv'
<1> SUFFICES ASSUME FanInv, [Next]_vars PROVE FanInv'
  OBVIOUS
<1>1. CASE Poll
  BY <1>1, PollFan
<1>2. CASE GetTemp
  BY <1>2, ReadDeviceFan, ReadFailsFan, ReuseFan, PublishFan DEF GetTemp
<1>3. CASE Decide
  <2>1. pc = "decide" /\ pc' \in {"idle", "apply"} /\ UNCHANGED readVars
    BY <1>3 DEF Decide
  <2>2. QED
    BY <2>1, RunFan
<1>4. CASE SetFanLevel
  <2>1. pc = "apply" /\ pc' \in {"idle", "dead"} /\ UNCHANGED readVars
    BY <1>4 DEF SetFanLevel
  <2>2. QED
    BY <2>1, RunFan
<1>5. CASE UNCHANGED vars
  BY <1>5 DEF vars, FanInv, ReadTypes, Streaks, Readings, Counted
<1>6. QED
  BY <1>1, <1>2, <1>3, <1>4, <1>5 DEF Next

\* fancontroller.py:157-233: the invariant of the streaks, the totals and the cached
\* temperatures holds in every state of a controller, however its reads fail.
THEOREM FanInductive == Spec => []FanInv
<1>1. QED
  BY InitFan, NextFan, PTL DEF Spec

\* README 2.4: what steers the fans is the last temperature read from each device
\* itself, at most error_tolerance failed reads old.
THEOREM StaleAlwaysWithinBudget == Spec => []StaleWithinBudget
<1>1. FanInv => StaleWithinBudget
  BY DEF FanInv, ReadTypes, Streaks, Readings, StaleWithinBudget
<1>2. QED
  BY <1>1, FanInductive, PTL

\* README 2.4: a failed read stops the controller only at startup or when the budget
\* of that device is exhausted.
THEOREM StopsOnlyWhenExhausted == Spec => StopsOnlyExhausted
<1> DEFINE Stop == pc = "failed" /\ pc' = "dead"
                     => perDevice = <<>> \/ \E i \in Devices : missed[i] > ErrorTolerance
<1>1. FanInv /\ [Next]_vars => [Stop]_vars
  <2> SUFFICES ASSUME FanInv, Next, pc = "failed", pc' = "dead"
               PROVE  perDevice = <<>> \/ \E i \in Devices : missed[i] > ErrorTolerance
    OBVIOUS
  <2>1. PICK i \in Devices : ReuseLastTemp(i)
    BY DEF Next, GetTemp, Poll, Decide, SetFanLevel, Publish, ReadDevice, ReadFails
  <2>2. i > Len(perDevice) \/ readErrors[i] > ErrorTolerance
    BY <2>1 DEF ReuseLastTemp
  <2>3. CASE i > Len(perDevice)
    BY <2>3 DEF FanInv, ReadTypes
  <2>4. CASE readErrors[i] > ErrorTolerance
    BY <2>4 DEF FanInv, Streaks
  <2>5. QED
    BY <2>2, <2>3, <2>4
<1>2. QED
  BY <1>1, FanInductive, PTL DEF Spec, StopsOnlyExhausted

-----------------------------------------------------------------------------
(* run(): the smoothed temperature, the gap and the level of the curve.    *)

LEMMA MeanTyped ==
  ASSUME NEW s \in Seq(Int), Len(s) > 0
  PROVE  Mean(s) \in Int
<1>1. Total(s) \in Int
  BY TotalTyped
<1>2. Len(s) \in Nat \ {0}
  OBVIOUS
<1>3. QED
  BY <1>1, <1>2 DEF Mean

\* deque(maxlen=smoothing): never empty after append, never longer than the window.
LEMMA PushTyped ==
  ASSUME NEW s \in Seq(Int), Len(s) <= Smoothing, NEW t \in Int
  PROVE  Push(s, t) \in Seq(Int) /\ Len(Push(s, t)) > 0 /\ Len(Push(s, t)) <= Smoothing
<1>1. CASE Len(s) < Smoothing
  BY <1>1 DEF Push
<1>2. CASE ~(Len(s) < Smoothing)
  <2>1. Len(s) \in Nat \ {0} /\ s # <<>>
    BY <1>2
  <2>2. Tail(s) \in Seq(Int) /\ Len(Tail(s)) = Len(s) - 1
    BY <2>1
  <2>3. Push(s, t) = Append(Tail(s), t)
    BY <1>2 DEF Push
  <2>4. QED
    BY <2>1, <2>2, <2>3
<1>3. QED
  BY <1>1, <1>2

\* Once every device has been read, min, avg and max are temperatures.
LEMMA AggregateTyped ==
  ASSUME FanInv, pc = "decide"
  PROVE  Aggregate(perDevice) \in Int
<1>1. perDevice \in Seq(Temps) /\ Len(perDevice) = Count
  BY DEF FanInv, ReadTypes, Readings
<1>2. perDevice \in Seq(Int) /\ Len(perDevice) > 0
  <2>1. \A i \in 1..Len(perDevice) : perDevice[i] \in Temps
    BY <1>1
  <2>2. \A i \in 1..Len(perDevice) : perDevice[i] \in Int
    BY <2>1, TempsAssumption
  <2>3. perDevice = [i \in 1..Len(perDevice) |-> perDevice[i]] /\ Len(perDevice) \in Nat
    BY <1>1
  <2>4. perDevice \in Seq(Int)
    BY <2>2, <2>3
  <2>5. QED
    BY <1>1, <2>4
<1>3. perDevice[1] \in Int /\ Coldest(perDevice) \in Int /\ Hottest(perDevice) \in Int
  BY <1>2, Extremes
<1>4. Mean(perDevice) \in Int
  BY <1>2, MeanTyped
<1>5. QED
  BY <1>3, <1>4, TempsAssumption DEF Aggregate

LEMMA InitRun == Init => RunInv
<1> SUFFICES ASSUME Init PROVE RunInv
  OBVIOUS
<1>1. pc = "read" /\ tempHistory = <<>> /\ lastTemp = 0 /\ lastLevel = 0 /\ command = NoCommand
  BY DEF Init
<1>2. RunTypes
  BY <1>1 DEF RunTypes
<1>3. FollowsTemperature /\ Commanded
  BY <1>1 DEF FollowsTemperature, Commanded
<1>4. QED
  BY <1>2, <1>3 DEF RunInv

\* Steps outside Decide and set_fan_level leave what run() remembers alone.
LEMMA ElsewhereRun ==
  ASSUME RunInv, UNCHANGED runVars,
         pc' = pc \/ (pc # "apply" /\ pc \notin {"dead"} /\ pc' # "apply")
  PROVE  RunInv'
<1>1. RunTypes' /\ FollowsTemperature' /\ (OnCurve => OnCurve')
  BY DEF RunInv, RunTypes, FollowsTemperature, OnCurve
<1>2. Commanded'
  BY <1>1 DEF RunInv, Commanded
<1>3. QED
  BY <1>1, <1>2 DEF RunInv

LEMMA DecideRun ==
  ASSUME FanInv, RunInv, Decide PROVE RunInv'
<1> DEFINE current == Mean(tempHistory')
<1>1. RunTypes /\ pc = "decide" /\ command' = command
  BY DEF RunInv, Decide
<1>2. tempHistory' \in Seq(Int) /\ Len(tempHistory') > 0 /\ Len(tempHistory') <= Smoothing
  BY <1>1, AggregateTyped, PushTyped DEF Decide, RunTypes
<1>3. current \in Int
  BY <1>2, MeanTyped
<1> HIDE DEF current
<1>4. CASE /\ Distance(current, lastTemp) < Sensitivity
           /\ pc' = "idle" /\ UNCHANGED <<lastTemp, lastLevel>>
  <2>1. RunTypes'
    BY <1>1, <1>2, <1>4 DEF RunTypes
  <2>2. FollowsTemperature'
    BY <1>4 DEF FollowsTemperature, current
  <2>3. Commanded'
    BY <1>1, <1>4 DEF RunInv, Commanded, OnCurve
  <2>4. QED
    BY <2>1, <2>2, <2>3 DEF RunInv
<1>5. CASE /\ lastTemp' = current
           /\ \E k \in 0..100 :
                /\ Index(k, current)
                /\ lastLevel' = LevelsLut[k]
                /\ pc' = IF LevelsLut[k] = lastLevel \/ DeferredApply THEN "idle" ELSE "apply"
  <2>1. PICK k \in 0..100 :
          /\ Index(k, current)
          /\ lastLevel' = LevelsLut[k]
          /\ pc' = IF LevelsLut[k] = lastLevel \/ DeferredApply THEN "idle" ELSE "apply"
    BY <1>5
  <2>2. lastLevel' \in 0..100
    <3>1. \A j \in 0..100 : LevelsLut[j] \in 0..100
      BY LutAssumption
    <3>2. QED
      BY <2>1, <3>1, Zenon
  <2>3. RunTypes'
    <3>1. lastTemp' \in Int
      BY <1>3, <1>5
    <3>2. command' \in 0..100 \cup {NoCommand}
      BY <1>1 DEF RunTypes
    <3>3. QED
      BY <1>2, <2>2, <3>1, <3>2 DEF RunTypes
  <2>4. FollowsTemperature'
    <3>1. Distance(current, current) = 0
      BY <1>3 DEF Distance
    <3>2. Distance(Mean(tempHistory'), lastTemp') = 0
      BY <1>5, <3>1 DEF current
    <3>3. QED
      BY <3>2 DEF FollowsTemperature
  <2>5. OnCurve'
    <3>1. Index(k, lastTemp') /\ lastLevel' = LevelsLut[k]
      BY <1>5, <2>1
    <3>2. QED
      BY <3>1, Zenon DEF OnCurve, Index, Degrees
  <2>6. Commanded'
    <3>1. ~DeferredApply /\ pc' # "apply" => lastLevel' = lastLevel
      BY <2>1
    <3>2. ~DeferredApply /\ command # NoCommand => command = lastLevel
      BY <1>1 DEF RunInv, Commanded
    <3>3. QED
      BY <1>1, <2>5, <3>1, <3>2 DEF Commanded
  <2>7. QED
    BY <2>3, <2>4, <2>6 DEF RunInv
<1>6. QED
  BY <1>4, <1>5 DEF Decide, current

LEMMA SetFanLevelRun ==
  ASSUME RunInv, SetFanLevel PROVE RunInv'
<1>1. /\ pc = "apply" /\ UNCHANGED <<tempHistory, lastTemp, lastLevel>>
      /\ \/ pc' = "idle" /\ command' = lastLevel
         \/ pc' = "dead" /\ command' = command
  BY DEF SetFanLevel
<1>2. RunTypes'
  BY <1>1 DEF RunInv, RunTypes
<1>3. FollowsTemperature'
  BY <1>1 DEF RunInv, FollowsTemperature
<1>4. OnCurve'
  BY <1>1 DEF RunInv, Commanded, OnCurve
<1>5. Commanded'
  BY <1>1, <1>4 DEF Commanded
<1>6. QED
  BY <1>2, <1>3, <1>5 DEF RunInv

LEMMA NextRun == FanInv /\ RunInv /\ [Next]_vars => RunInv'
<1> SUFFICES ASSUME FanInv, RunInv, [Next]_vars PROVE RunInv'
  OBVIOUS
<1>1. CASE Poll
  <2>1. pc = "idle" /\ pc' # "apply" /\ UNCHANGED runVars
    BY <1>1 DEF Poll
  <2>2. QED
    BY <2>1, ElsewhereRun
<1>2. CASE GetTemp
  <2>1. UNCHANGED runVars /\ pc \in {"read", "failed"} /\ pc' # "apply"
    BY <1>2 DEF GetTemp, ReadDevice, ReadFails, ReuseLastTemp, Publish
  <2>2. QED
    BY <2>1, ElsewhereRun
<1>3. CASE Decide
  BY <1>3, DecideRun
<1>4. CASE SetFanLevel
  BY <1>4, SetFanLevelRun
<1>5. CASE UNCHANGED vars
  <2>1. UNCHANGED runVars /\ pc' = pc
    BY <1>5 DEF vars
  <2>2. QED
    BY <2>1, ElsewhereRun
<1>6. QED
  BY <1>1, <1>2, <1>3, <1>4, <1>5 DEF Next

\* fancontroller.py:239-276: what run() remembers stays true of the curve and of the
\* smoothed temperature in every state of a controller, whatever is read.
THEOREM RunInductive == Spec => [](FanInv /\ RunInv)
<1>1. Init => FanInv /\ RunInv
  BY InitFan, InitRun
<1>2. FanInv /\ RunInv /\ [Next]_vars => (FanInv /\ RunInv)'
  BY NextFan, NextRun
<1>3. QED
  BY <1>1, <1>2, PTL DEF Spec

\* fancontroller.py: every field of a controller has its type, the moving average never
\* holds more than smoothing readings, and last_level is a level.
THEOREM ControllerTyped == Spec => []TypeOK
<1>1. FanInv /\ RunInv => TypeOK
  <2> SUFFICES ASSUME FanInv, RunInv PROVE TypeOK
    OBVIOUS
  <2>1. ReadTypes /\ RunTypes
    BY DEF FanInv, RunInv
  <2>2. perDevice = <<>> \/ perDevice \in [Devices -> Temps]
    <3>1. perDevice \in Seq(Temps) /\ Len(perDevice) \in {0, Count}
      BY <2>1 DEF ReadTypes
    <3>2. QED
      BY <3>1
  <2>3. QED
    BY <2>1, <2>2 DEF ReadTypes, RunTypes, TypeOK
<1>2. QED
  BY <1>1, RunInductive, PTL

\* README 2.3: the temperature last acted on is always within the sensitivity of the
\* smoothed temperature, so that no slow rise creeps past it.
THEOREM AlwaysFollowsTemperature == Spec => []FollowsTemperature
<1>1. RunInv => FollowsTemperature
  BY DEF RunInv
<1>2. QED
  BY <1>1, RunInductive, PTL

\* The level handed to the BMC is the level of the curve at the temperature last
\* acted on, for every curve, window and pattern of failures.
THEOREM CommandAlwaysFollowsCurve == Spec => []CommandFollowsCurve
<1>1. RunInv => CommandFollowsCurve
  BY DEF RunInv, Commanded, OnCurve, CommandFollowsCurve
<1>2. QED
  BY <1>1, RunInductive, PTL

-----------------------------------------------------------------------------
(* A controller is all that the main loop relies on.                       *)

LEMMA NextImplementsBase ==
  FanInv /\ RunInv /\ [Next]_vars => [Base!Next]_Base!vars
<1> SUFFICES ASSUME FanInv, RunInv, [Next]_vars PROVE [Base!Next]_Base!vars
  OBVIOUS
<1>1. CASE Poll \/ GetTemp
  <2>1. /\ lastLevel' = lastLevel /\ pc \in {"idle", "read", "failed"}
        /\ pc' \in {"idle", "read", "failed", "decide", "dead"}
    BY <1>1 DEF Poll, GetTemp, ReadDevice, ReadFails, ReuseLastTemp, Publish
  <2>2. CASE pc' = "dead"
    BY <2>1, <2>2 DEF Base!Next, Base!Leave
  <2>3. CASE pc' # "dead"
    BY <2>1, <2>3 DEF Base!vars
  <2>4. QED
    BY <2>2, <2>3
<1>2. CASE Decide
  <2>1. pc = "decide"
    BY <1>2 DEF Decide
  <2>2. CASE pc' = "idle" /\ lastLevel' = lastLevel
    BY <2>1, <2>2 DEF Base!vars
  <2>3. CASE \E k \in 0..100 :
               /\ lastLevel' = LevelsLut[k]
               /\ pc' = IF LevelsLut[k] = lastLevel \/ DeferredApply THEN "idle" ELSE "apply"
    <3>1. PICK k \in 0..100 :
            /\ lastLevel' = LevelsLut[k]
            /\ pc' = IF LevelsLut[k] = lastLevel \/ DeferredApply THEN "idle" ELSE "apply"
      BY <2>3
    <3>2. CASE LevelsLut[k] = lastLevel
      BY <2>1, <3>1, <3>2 DEF Base!vars
    <3>3. CASE LevelsLut[k] # lastLevel
      <4>1. lastLevel' \in {LevelsLut[j] : j \in 0..100} \ {lastLevel}
        BY <3>1, <3>3
      <4>2. pc' = IF DeferredApply THEN "idle" ELSE "apply"
        BY <3>1, <3>3
      <4>3. Base!TakeLevel
        BY <2>1, <4>1, <4>2 DEF Base!TakeLevel
      <4>4. QED
        BY <4>3 DEF Base!Next
    <3>4. QED
      BY <3>2, <3>3
  <2>4. QED
    BY <1>2, <2>2, <2>3 DEF Decide
<1>3. CASE SetFanLevel
  BY <1>3 DEF SetFanLevel, Base!Next, Base!HandOver, Base!Leave
<1>4. CASE UNCHANGED vars
  BY <1>4 DEF vars, Base!vars
<1>5. QED
  BY <1>1, <1>2, <1>3, <1>4 DEF Next

\* fancontroller.py:348-403: every step of a controller is seen by the main loop as
\* another level of the curve, the writing of that level, the end, or nothing.
THEOREM ImplementsBaseControllerAlways == Spec => ImplementsBaseController
<1>1. Init => Base!Init
  BY DEF Init, Base!Init
<1>2. QED
  BY <1>1, RunInductive, NextImplementsBase, PTL
  DEF Spec, ImplementsBaseController, Base!Spec

-----------------------------------------------------------------------------
(* The snapshot: the thread only reads what the loop writes.               *)

LEMMA SnapIsFan == SnapSpec => Spec
<1>1. SnapInit => Init
  BY DEF SnapInit
<1>2. [SnapNext]_<<vars, snapVars>> => [Next]_vars
  BY DEF SnapNext, Loop, CopyTemps, CopyErrors, CopyTotals, vars
<1>3. QED
  BY <1>1, <1>2, PTL DEF SnapSpec, Spec

LEMMA InitSnap == SnapInit => SnapInv
  BY InitFan DEF SnapInit, SnapInv, FanInv, ReadTypes

\* No step of the loop empties the published list or lowers a lifetime total.
LEMMA LoopMonotonic ==
  ASSUME FanInv, [Next]_vars
  PROVE  /\ Len(perDevice) = Count => Len(perDevice') = Count
         /\ \A i \in Devices : readErrorsTotal'[i] >= readErrorsTotal[i]
<1>1. readErrorsTotal \in [Devices -> Nat]
  BY DEF FanInv, ReadTypes
<1>2. CASE Publish
  BY <1>1, <1>2 DEF Publish
<1>3. CASE \E i \in Devices : ReuseLastTemp(i)
  <2>1. PICK i \in Devices : ReuseLastTemp(i)
    BY <1>3
  <2>2. perDevice' = perDevice /\ readErrorsTotal' = [readErrorsTotal EXCEPT ![i] = @ + 1]
    BY <2>1 DEF ReuseLastTemp
  <2>3. \A j \in Devices : readErrorsTotal'[j] = IF j = i THEN readErrorsTotal[i] + 1 ELSE readErrorsTotal[j]
    BY <1>1, <2>2
  <2>4. QED
    BY <1>1, <2>2, <2>3
<1>4. CASE UNCHANGED <<perDevice, readErrorsTotal>>
  BY <1>1, <1>4
<1>5. QED
  BY <1>2, <1>3, <1>4
  DEF Next, GetTemp, Poll, Decide, SetFanLevel, ReadDevice, ReadFails, vars

LEMMA NextSnap == FanInv /\ SnapInv /\ [SnapNext]_<<vars, snapVars>> => SnapInv'
<1> SUFFICES ASSUME FanInv, SnapInv, [SnapNext]_<<vars, snapVars>> PROVE SnapInv'
  OBVIOUS
<1>1. readErrors \in [Devices -> Nat] /\ readErrorsTotal \in [Devices -> Nat]
  BY DEF FanInv, ReadTypes
<1>2. readErrors[shown] \in Nat /\ readErrorsTotal[shown] \in Nat
  BY <1>1 DEF SnapInv
<1>3. CASE Loop
  <2>1. [Next]_vars /\ UNCHANGED <<at, shown, entry>>
    BY <1>3 DEF Loop, snapVars
  <2>2. /\ Len(perDevice) = Count => Len(perDevice') = Count
        /\ readErrorsTotal'[shown] >= readErrorsTotal[shown]
    BY <2>1, LoopMonotonic DEF SnapInv
  <2>3. readErrorsTotal'[shown] \in Nat
    BY <2>1, NextFan DEF FanInv, ReadTypes, SnapInv
  <2>4. QED
    BY <1>2, <2>1, <2>2, <2>3 DEF SnapInv
<1>4. CASE CopyTemps
  <2>1. at' = "temps" /\ UNCHANGED <<shown, vars>>
    BY <1>4 DEF CopyTemps
  <2>2. Len(perDevice) = Count
    BY <1>4 DEF CopyTemps, SnapInv, FanInv, ReadTypes
  <2>3. (shown > Len(perDevice)) = FALSE
    BY <2>2 DEF SnapInv
  <2>4. entry' = [entry EXCEPT !.padded = FALSE]
    BY <1>4, <2>3, Zenon DEF CopyTemps
  <2>5. entry' = entry
    BY <2>4 DEF SnapInv
  <2>6. QED
    BY <2>1, <2>2, <2>5 DEF SnapInv, vars
<1>5. CASE CopyErrors
  <2>1. at = "temps" /\ at' = "errors" /\ UNCHANGED <<shown, vars>>
    BY <1>5 DEF CopyErrors
  <2>2. entry' = [entry EXCEPT !.errors = readErrors[shown]]
    BY <1>5 DEF CopyErrors
  <2>3. /\ entry' \in [padded : BOOLEAN, errors : Nat, total : Nat] /\ ~entry'.padded
        /\ entry'.errors = readErrors[shown] /\ entry'.total = entry.total
    BY <1>2, <2>2 DEF SnapInv
  <2>4. readErrors[shown] <= readErrorsTotal[shown] + 1
    BY <1>2 DEF FanInv, Counted, SnapInv
  <2>5. QED
    BY <2>1, <2>3, <2>4 DEF SnapInv, vars
<1>6. CASE CopyTotals
  <2>1. at = "errors" /\ at' = "totals" /\ UNCHANGED <<shown, vars>>
    BY <1>6 DEF CopyTotals
  <2>2. entry' = [entry EXCEPT !.total = readErrorsTotal[shown]]
    BY <1>6 DEF CopyTotals
  <2>3. /\ entry' \in [padded : BOOLEAN, errors : Nat, total : Nat] /\ ~entry'.padded
        /\ entry'.errors = entry.errors /\ entry'.total = readErrorsTotal[shown]
    BY <1>2, <2>2 DEF SnapInv
  <2>4. QED
    BY <1>2, <2>1, <2>3 DEF SnapInv, vars
<1>7. CASE UNCHANGED <<vars, snapVars>>
  BY <1>7 DEF SnapInv, vars, snapVars
<1>8. QED
  BY <1>3, <1>4, <1>5, <1>6, <1>7 DEF SnapNext

\* snapshot.py:87-107: what one entry of a snapshot can say, wherever the loop is
\* when its parts are copied.
THEOREM SnapInductive == SnapSpec => [](FanInv /\ SnapInv)
<1>1. SnapSpec => []FanInv
  BY SnapIsFan, FanInductive, PTL
<1>2. QED
  BY <1>1, InitSnap, NextSnap, PTL DEF SnapSpec

\* snapshot.py:88: no temperature of a snapshot is padding.
THEOREM SnapshotAlwaysHasAllDevices == SnapSpec => []SnapshotHasAllDevices
<1>1. SnapInv => SnapshotHasAllDevices
  BY DEF SnapInv, SnapshotHasAllDevices
<1>2. QED
  BY <1>1, SnapInductive, PTL

\* A snapshot shows no streak longer than the lifetime total, but for the failure
\* being counted.
THEOREM SnapshotCountersAlwaysAgree == SnapSpec => []SnapshotCountersAgree
<1>1. SnapInv => SnapshotCountersAgree
  BY DEF SnapInv, SnapshotCountersAgree
<1>2. QED
  BY <1>1, SnapInductive, PTL

\* README 13: read_errors_total never falls from one scrape to the next.
THEOREM TotalsAlwaysMonotonic == SnapSpec => TotalsMonotonic
<1>1. FanInv /\ SnapInv /\ [SnapNext]_<<vars, snapVars>> => [entry'.total >= entry.total]_snapVars
  <2> SUFFICES ASSUME FanInv, SnapInv, SnapNext PROVE entry'.total >= entry.total \/ UNCHANGED snapVars
    BY DEF snapVars
  <2>1. entry.total \in Nat
    BY DEF SnapInv
  <2>2. CASE Loop
    BY <2>2 DEF Loop
  <2>3. CASE CopyTemps \/ CopyErrors
    BY <2>1, <2>3 DEF CopyTemps, CopyErrors, SnapInv
  <2>4. CASE CopyTotals
    <3>1. entry' = [entry EXCEPT !.total = readErrorsTotal[shown]]
      BY <2>4 DEF CopyTotals
    <3>2. entry'.total = readErrorsTotal[shown]
      BY <3>1 DEF SnapInv
    <3>3. QED
      BY <3>2 DEF SnapInv, FanInv, ReadTypes
  <2>5. QED
    BY <2>2, <2>3, <2>4 DEF SnapNext
<1>2. QED
  BY <1>1, SnapInductive, PTL DEF SnapSpec, TotalsMonotonic
=============================================================================
