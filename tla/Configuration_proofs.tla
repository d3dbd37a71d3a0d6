-------------------------- MODULE Configuration_proofs --------------------------
(***************************************************************************)
(* Proofs about Configuration, for every set of files: that the tables     *)
(* built from an accepted file are what the README and the users of a      *)
(* table rely on, and the hand-over from the duplicate check, which looks  *)
(* at one kind at a time, to the arbiter.                                  *)
(*                                                                         *)
(* The lemmas come first: levels on the boards, rounding, sums, lists of   *)
(* borders; then the legacy keys, the line of a curve and its plateaus.    *)
(* An induction is a search for the smallest counterexample.               *)
(***************************************************************************)
EXTENDS Configuration, FiniteSetTheorems, WellFoundedInduction, TLAPS

-----------------------------------------------------------------------------
(* Levels on the boards.                                                   *)

\* The conversions of a board that takes the duty on a scale of 0..255, which cut one
\* way (level * 255 // 100) and round the other way (round(duty * 100 / 255)), undo
\* each other: the duty is less than one unit, 100/255 of a percent, too small.
LEMMA ByteScaleRoundTrip ==
  ASSUME NEW level \in Levels
  PROVE  Rounded(((level * 255) \div 100) * 100, 255) = level
  BY SMT DEF Rounded, Levels

\* constfc.py and the exit level rely on it: every level a controller may ask for is
\* accepted by every platform and reads back as it was written.
THEOREM EveryLevelReadsBack ==
  \A p \in Platforms, level \in Levels : ReadsBack(p, level)
<1> SUFFICES ASSUME NEW p \in Platforms, NEW level \in Levels
             PROVE  ReadsBack(p, level)
  OBVIOUS
<1>1. Percent(p, Duty(p, level)) = level
  <2>1. CASE p \in ByteScale
    BY <2>1, ByteScaleRoundTrip DEF Percent, Duty
  <2>2. CASE p \notin ByteScale
    BY <2>2 DEF Percent, Duty
  <2> QED  BY <2>1, <2>2
<1> QED  BY <1>1 DEF ReadsBack, ValidLevel

-----------------------------------------------------------------------------
(* Rounding.                                                               *)

LEMMA Quotient ==
  ASSUME NEW n \in Int, NEW d \in Nat, d > 0
  PROVE  /\ n \div d \in Int /\ n % d \in Nat /\ n % d < d
         /\ n = (n \div d) * d + (n % d)
OBVIOUS

LEMMA Product ==
  ASSUME NEW a \in Int, NEW b \in Int, NEW d \in Nat, a <= b
  PROVE  a * d <= b * d
OBVIOUS

LEMMA ProductOver ==
  ASSUME NEW a \in Int, NEW b \in Int, NEW d \in Nat, a < b
  PROVE  a * d + d <= b * d
OBVIOUS

\* Between two multiples of the divisor, a rounded quotient is between the factors.
LEMMA RoundedBetween ==
  ASSUME NEW n \in Int, NEW d \in Nat, d > 0, NEW k \in Int
  PROVE  /\ Rounded(n, d) \in Int
         /\ k * d <= n => k <= Rounded(n, d)
         /\ n <= k * d => Rounded(n, d) <= k
<1> DEFINE q == n \div d
           r == n % d
<1>1. q \in Int /\ r \in Nat /\ r < d /\ n = q * d + r
  BY Quotient
<1>2. /\ Rounded(n, d) = q \/ Rounded(n, d) = q + 1
      /\ r = 0 => Rounded(n, d) = q
  BY <1>1 DEF Rounded
<1> HIDE DEF q, r
<1>3. ASSUME k * d <= n PROVE k <= q
  <2> SUFFICES ASSUME q < k PROVE FALSE
    BY <1>1
  <2>1. q * d + d <= k * d
    BY <1>1, ProductOver
  <2>2. q * d \in Int /\ k * d \in Int
    BY <1>1
  <2>3. QED
    BY <1>1, <1>3, <2>1, <2>2
<1>4. ASSUME n <= k * d PROVE q <= k /\ (q = k => r = 0)
  <2>1. q * d \in Int /\ k * d \in Int
    BY <1>1
  <2>2. CASE q > k
    <3>1. k * d + d <= q * d
      BY <1>1, <2>2, ProductOver
    <3>2. QED
      BY <1>1, <1>4, <2>1, <3>1
  <2>3. CASE q = k
    BY <1>1, <1>4, <2>1, <2>3
  <2>4. QED
    BY <1>1, <2>2, <2>3
<1>5. QED
  BY <1>1, <1>2, <1>3, <1>4

LEMMA RoundedRises ==
  ASSUME NEW n \in Int, NEW m \in Int, NEW d \in Nat, d > 0, n <= m
  PROVE  Rounded(n, d) <= Rounded(m, d)
<1> DEFINE q == n \div d
           r == n % d
           p == m \div d
           s == m % d
<1>1. q \in Int /\ r \in Nat /\ r < d /\ n = q * d + r
  BY Quotient
<1>2. p \in Int /\ s \in Nat /\ s < d /\ m = p * d + s
  BY Quotient
<1>3. Rounded(n, d) = IF 2 * r < d \/ (2 * r = d /\ q % 2 = 0) THEN q ELSE q + 1
  BY DEF Rounded
<1>4. Rounded(m, d) = IF 2 * s < d \/ (2 * s = d /\ p % 2 = 0) THEN p ELSE p + 1
  BY DEF Rounded
<1> HIDE DEF q, r, p, s
<1>5. q * d \in Int /\ p * d \in Int
  BY <1>1, <1>2
<1>6. CASE q < p
  BY <1>1, <1>2, <1>3, <1>4, <1>6
<1>7. CASE q = p
  BY <1>1, <1>2, <1>3, <1>4, <1>5, <1>7
<1>8. CASE q > p
  <2>1. p * d + d <= q * d
    BY <1>1, <1>2, <1>8, ProductOver
  <2>2. QED
    BY <1>1, <1>2, <1>5, <2>1
<1>9. QED
  BY <1>1, <1>2, <1>6, <1>7, <1>8

\* A rounded quotient is off by half the divisor at most.
LEMMA RoundedNear ==
  ASSUME NEW n \in Int, NEW d \in Nat, d > 0
  PROVE  2 * (Rounded(n, d) * d - n) <= d /\ 2 * (n - Rounded(n, d) * d) <= d
<1> DEFINE q == n \div d
           r == n % d
<1>1. q \in Int /\ r \in Nat /\ r < d /\ n = q * d + r
  BY Quotient
<1>2. \/ Rounded(n, d) = q /\ 2 * r <= d
      \/ Rounded(n, d) = q + 1 /\ d <= 2 * r
  BY <1>1 DEF Rounded
<1> HIDE DEF q, r
<1>3. (q + 1) * d = q * d + d /\ q * d \in Int
  BY <1>1
<1>4. QED
  BY <1>1, <1>2, <1>3

LEMMA Ratio ==
  ASSUME NEW x \in Nat, NEW y \in Nat, NEW n \in Nat, x <= y
  PROVE  x * n \in Nat /\ x * n <= n * y /\ x * n <= y * n
<1>1. \A a, b \in Nat : a * b \in Nat /\ a * b = b * a
  OBVIOUS
<1>2. x * n <= y * n
  BY Product
<1>3. QED
  BY <1>1, <1>2

-----------------------------------------------------------------------------
(* Sums.                                                                   *)

LEMMA NatMin ==
  ASSUME NEW S, S \subseteq Nat, S # {}
  PROVE  \E n \in S : \A m \in S : n <= m
<1>1. PICK n \in S : \A m \in S : ~(<<m, n>> \in OpToRel(<, Nat))
  BY WFMin, NatLessThanWellFounded, Zenon
<1>2. \A m \in S : <<m, n>> \in Nat \X Nat
  OBVIOUS
<1>3. \A m \in S : ~(m < n)
  BY <1>1, <1>2 DEF OpToRel
<1>4. QED
  BY <1>3

\* The sums over subsets that MapThenSumSet goes through, as one function.
SumOf(f, S) == MapThenSumSet(LAMBDA t : f[t], S)
Chosen(s) == CHOOSE x \in s : TRUE
Adding(f, g, s) == IF s = {} THEN 0 ELSE f[Chosen(s)] + g[s \ {Chosen(s)}]
UpTo(S, n) == {s \in SUBSET S : Cardinality(s) <= n}
Sums(f, g, D) == g \in [D -> Int] /\ \A s \in D : g[s] = Adding(f, g, s)

LEMMA Smaller ==
  ASSUME NEW S, IsFiniteSet(S), NEW s \in SUBSET S, s # {}
  PROVE  /\ Chosen(s) \in s /\ s \ {Chosen(s)} \in SUBSET S
         /\ Cardinality(s) \in Nat /\ Cardinality(s \ {Chosen(s)}) \in Nat
         /\ Cardinality(s) = Cardinality(s \ {Chosen(s)}) + 1
<1>1. Chosen(s) \in s
  BY DEF Chosen
<1>2. IsFiniteSet(s)
  BY FS_Subset
<1>3. Cardinality(s \ {Chosen(s)}) = Cardinality(s) - 1 /\ IsFiniteSet(s \ {Chosen(s)})
  BY <1>1, <1>2, FS_RemoveElement
<1>4. QED
  BY <1>1, <1>2, <1>3, FS_CardinalityType

LEMMA SumsExist ==
  ASSUME NEW S, IsFiniteSet(S), NEW f, \A x \in S : f[x] \in Int, NEW k \in Nat
  PROVE  \E g : Sums(f, g, UpTo(S, k))
<1> DEFINE Bad == {n \in Nat : ~ \E g : Sums(f, g, UpTo(S, n))}
<1> SUFFICES ASSUME Bad # {} PROVE FALSE
  OBVIOUS
<1>1. PICK n \in Bad : \A m \in Bad : n <= m
  BY NatMin
<1>2. n \in Nat /\ ~ \E g : Sums(f, g, UpTo(S, n))
  OBVIOUS
<1>3. CASE n = 0
  <2> DEFINE g == [s \in UpTo(S, 0) |-> 0]
  <2>1. \A s \in UpTo(S, 0) : s = {}
    <3> SUFFICES ASSUME NEW s \in UpTo(S, 0), s # {} PROVE FALSE
      OBVIOUS
    <3>1. s \in SUBSET S /\ Cardinality(s) <= 0
      BY DEF UpTo
    <3>2. Cardinality(s \ {Chosen(s)}) \in Nat /\ Cardinality(s) = Cardinality(s \ {Chosen(s)}) + 1
      BY <3>1, Smaller
    <3>3. QED
      BY <3>1, <3>2
  <2>2. Sums(f, g, UpTo(S, 0))
    BY <2>1 DEF Sums, Adding
  <2>3. QED
    BY <1>2, <1>3, <2>2
<1>4. CASE n # 0
  <2>1. n - 1 \in Nat /\ n - 1 \notin Bad
    BY <1>1, <1>2, <1>4
  <2>2. PICK h : Sums(f, h, UpTo(S, n - 1))
    BY <2>1
  <2> DEFINE g == [s \in UpTo(S, n) |-> Adding(f, h, s)]
  <2>3. \A s \in UpTo(S, n) : s # {} => s \ {Chosen(s)} \in UpTo(S, n - 1) /\ f[Chosen(s)] \in Int
    BY <1>2, Smaller DEF UpTo
  <2>4. \A s \in UpTo(S, n - 1) : s \in UpTo(S, n) /\ g[s] = h[s]
    <3>1. \A s \in UpTo(S, n - 1) : s \in UpTo(S, n)
      <4> SUFFICES ASSUME NEW s \in UpTo(S, n - 1) PROVE Cardinality(s) <= n
        BY DEF UpTo
      <4>1. IsFiniteSet(s)
        BY FS_Subset DEF UpTo
      <4>2. QED
        BY <1>2, <4>1, FS_CardinalityType DEF UpTo
    <3>2. QED
      BY <2>2, <3>1 DEF Sums
  <2>5. g \in [UpTo(S, n) -> Int]
    BY <2>2, <2>3 DEF Sums, Adding
  <2>6. \A s \in UpTo(S, n) : g[s] = Adding(f, g, s)
    BY <2>3, <2>4 DEF Adding
  <2>7. QED
    BY <1>2, <2>5, <2>6 DEF Sums
<1>5. QED
  BY <1>3, <1>4

LEMMA SumUnfolds ==
  ASSUME NEW S, IsFiniteSet(S), NEW f, \A x \in S : f[x] \in Int
  PROVE  \E g : Sums(f, g, SUBSET S) /\ SumOf(f, S) = g[S]
<1> DEFINE G == CHOOSE g : g = [s \in SUBSET S |-> Adding(f, g, s)]
<1>1. SumOf(f, S) = G[S]
  BY DEF SumOf, MapThenSumSet, MapThenFoldSet, Adding, Chosen
<1>2. \A s \in SUBSET S : Cardinality(s) <= Cardinality(S)
  BY FS_Subset
<1>3. UpTo(S, Cardinality(S)) = SUBSET S
  BY <1>2 DEF UpTo
<1>4. PICK h : Sums(f, h, SUBSET S)
  <2>1. Cardinality(S) \in Nat
    BY FS_CardinalityType
  <2>2. \E h : Sums(f, h, UpTo(S, Cardinality(S)))
    BY <2>1, SumsExist
  <2>3. QED
    BY <1>3, <2>2
<1>5. h = [s \in SUBSET S |-> Adding(f, h, s)]
  BY <1>4 DEF Sums
<1>6. G = [s \in SUBSET S |-> Adding(f, G, s)]
  BY <1>5
<1> HIDE DEF G
<1>7. \A s \in SUBSET S : G[s] = h[s]
  <2> DEFINE Bad == {n \in Nat : \E s \in SUBSET S : Cardinality(s) = n /\ G[s] # h[s]}
  <2>1. \A s \in SUBSET S : Cardinality(s) \in Nat
    BY FS_Subset, FS_CardinalityType
  <2> SUFFICES ASSUME Bad # {} PROVE FALSE
    BY <2>1
  <2>2. PICK n \in Bad : \A m \in Bad : n <= m
    BY NatMin
  <2>3. PICK s \in SUBSET S : Cardinality(s) = n /\ G[s] # h[s]
    OBVIOUS
  <2>4. s # {}
    BY <1>4, <1>6, <2>3 DEF Adding, Sums
  <2>5. /\ s \ {Chosen(s)} \in SUBSET S /\ Cardinality(s \ {Chosen(s)}) \in Nat
        /\ Cardinality(s \ {Chosen(s)}) < n
    BY <2>3, <2>4, Smaller
  <2>6. G[s \ {Chosen(s)}] = h[s \ {Chosen(s)}]
    BY <2>2, <2>5
  <2>7. QED
    BY <1>4, <1>6, <2>3, <2>4, <2>6 DEF Adding, Sums
<1>8. QED
  BY <1>1, <1>4, <1>7

LEMMA Grows ==
  ASSUME NEW n \in Nat, NEW lo \in Int, NEW hi \in Int, NEW x \in Int, NEW y \in Int,
         n * lo <= y, y <= n * hi, lo <= x, x <= hi
  PROVE  (n + 1) * lo <= x + y /\ x + y <= (n + 1) * hi
<1>1. (n + 1) * lo = n * lo + lo /\ (n + 1) * hi = n * hi + hi
  OBVIOUS
<1>2. \A a, b \in Int : a <= y /\ y <= b => a + lo <= x + y /\ x + y <= b + hi
  OBVIOUS
<1>3. n * lo \in Int /\ n * hi \in Int
  OBVIOUS
<1>4. n * lo + lo <= x + y /\ x + y <= n * hi + hi
  BY <1>2, <1>3
<1>5. QED
  BY <1>1, <1>4

LEMMA SumBounds ==
  ASSUME NEW S, IsFiniteSet(S), NEW f, NEW lo \in Int, NEW hi \in Int,
         \A x \in S : f[x] \in Int /\ lo <= f[x] /\ f[x] <= hi
  PROVE  LET sum == SumOf(f, S)
         IN  sum \in Int /\ Cardinality(S) * lo <= sum /\ sum <= Cardinality(S) * hi
<1>1. PICK g : Sums(f, g, SUBSET S) /\ SumOf(f, S) = g[S]
  BY SumUnfolds
<1> DEFINE Within(s) == Cardinality(s) * lo <= g[s] /\ g[s] <= Cardinality(s) * hi
           Bad == {n \in Nat : \E s \in SUBSET S : Cardinality(s) = n /\ ~Within(s)}
<1>2. \A s \in SUBSET S : Cardinality(s) \in Nat
  BY FS_Subset, FS_CardinalityType
<1>3. ASSUME Bad # {} PROVE FALSE
  <2>1. PICK n \in Bad : \A m \in Bad : n <= m
    BY <1>3, NatMin
  <2>2. PICK s \in SUBSET S : Cardinality(s) = n /\ ~Within(s)
    OBVIOUS
  <2>3. CASE s = {}
    <3>1. Cardinality(s) = 0 /\ g[s] = 0
      BY <1>1, <2>3, FS_EmptySet DEF Sums, Adding
    <3>2. QED
      BY <2>2, <3>1
  <2>4. CASE s # {}
    <3> DEFINE r == s \ {Chosen(s)}
               x == f[Chosen(s)]
    <3>1. /\ r \in SUBSET S /\ Cardinality(r) \in Nat /\ n = Cardinality(r) + 1 /\ Chosen(s) \in S
      BY <2>2, <2>4, Smaller
    <3>2. g[r] \in Int /\ x \in Int /\ lo <= x /\ x <= hi /\ g[s] = x + g[r]
      BY <1>1, <2>4, <3>1 DEF Sums, Adding
    <3>3. Within(r)
      <4>1. Cardinality(r) \notin Bad
        <5>1. ~(n <= Cardinality(r))
          BY <3>1
        <5>2. QED
          BY <2>1, <5>1
      <4>2. QED
        BY <3>1, <4>1
    <3> HIDE DEF r, x
    <3>4. n * lo <= x + g[r] /\ x + g[r] <= n * hi
      BY <3>1, <3>2, <3>3, Grows
    <3>5. QED
      BY <2>2, <3>2, <3>4
  <2>5. QED
    BY <2>3, <2>4
<1>4. Within(S) /\ g[S] \in Int
  BY <1>1, <1>2, <1>3 DEF Sums
<1>5. QED
  BY <1>1, <1>4

-----------------------------------------------------------------------------
(* Lists of borders.                                                       *)

Rises(f, n) == (\A i \in 0..n : f[i] \in Int) /\ \A i \in 0..n - 1 : f[i] <= f[i + 1]

LEMMA Climbing ==
  ASSUME NEW n \in Nat, NEW f, Rises(f, n), NEW i \in 0..n, NEW j \in 0..n, i <= j
  PROVE  f[i] <= f[j]
<1> DEFINE Bad == {k \in Nat : i + k <= n /\ ~(f[i] <= f[i + k])}
<1>1. ASSUME Bad # {} PROVE FALSE
  <2>1. PICK k \in Bad : \A m \in Bad : k <= m
    BY <1>1, NatMin
  <2>2. k \in Nat /\ i + k <= n /\ ~(f[i] <= f[i + k])
    OBVIOUS
  <2>3. k # 0
    <3>1. f[i] \in Int /\ i + 0 = i
      BY DEF Rises
    <3>2. QED
      BY <2>2, <3>1
  <2>4. k - 1 \in Nat /\ ~(k <= k - 1) /\ i + (k - 1) \in 0..n - 1 /\ (i + (k - 1)) + 1 = i + k
    BY <2>2, <2>3
  <2>5. f[i] <= f[i + (k - 1)]
    BY <2>1, <2>2, <2>4
  <2>6. f[i + (k - 1)] <= f[i + k] /\ f[i] \in Int /\ f[i + k] \in Int /\ f[i + (k - 1)] \in Int
    BY <2>2, <2>4 DEF Rises
  <2>7. QED
    BY <2>2, <2>5, <2>6
<1>2. j - i \in Nat /\ i + (j - i) = j /\ j <= n
  OBVIOUS
<1>3. j - i \notin Bad
  BY <1>1
<1>4. QED
  BY <1>2, <1>3

\* A value between the first and the last border is between two neighbours.
LEMMA Bracket ==
  ASSUME NEW n \in Nat, NEW f, \A i \in 0..n : f[i] \in Int, NEW t \in Int, f[0] <= t, t < f[n]
  PROVE  \E i \in 0..n - 1 : f[i] <= t /\ t < f[i + 1]
<1> DEFINE Above == {i \in 0..n : t < f[i]}
<1>1. n \in Above /\ Above \subseteq Nat
  OBVIOUS
<1>2. PICK k \in Above : \A m \in Above : k <= m
  BY <1>1, NatMin
<1>3. k # 0 /\ k \in 0..n
  OBVIOUS
<1>4. k - 1 \in 0..n - 1 /\ k - 1 \notin Above /\ (k - 1) + 1 = k
  BY <1>2, <1>3
<1>5. QED
  BY <1>2, <1>4

LEMMA InOrder ==
  ASSUME NEW n \in Nat, NEW f, Rises(f, n), NEW i \in 0..n - 1, NEW j \in 0..n - 1,
         NEW t \in Int, NEW u \in Int, t <= u, f[i] <= t, u < f[j + 1]
  PROVE  i <= j
<1> SUFFICES ASSUME j < i PROVE FALSE
  OBVIOUS
<1>1. j + 1 \in 0..n /\ i \in 0..n /\ j + 1 <= i
  OBVIOUS
<1>2. f[j + 1] <= f[i]
  BY <1>1, Climbing
<1>3. f[j + 1] \in Int /\ f[i] \in Int
  BY <1>1 DEF Rises
<1>4. QED
  BY <1>2, <1>3

-----------------------------------------------------------------------------
(* The legacy keys.                                                        *)

\* What the checks leave of a section with the legacy keys.
Stairs ==
  /\ cfg.points = <<>> /\ ValidKeys(cfg)
  /\ cfg.steps \in Int /\ cfg.steps > 0
  /\ cfg.minTemp \in Int /\ cfg.maxTemp \in Int /\ cfg.minLevel \in Int /\ cfg.maxLevel \in Int

LEMMA StairsFacts ==
  ASSUME Stairs
  PROVE  /\ cfg.minTemp \in Int /\ cfg.maxTemp \in Int /\ cfg.minLevel \in Int /\ cfg.maxLevel \in Int
         /\ cfg.steps \in Nat /\ cfg.steps > 0 /\ cfg.maxLevel - cfg.minLevel \in Nat
         /\ 0 <= cfg.minLevel /\ cfg.minLevel <= cfg.maxLevel /\ cfg.maxLevel <= 100
BY DEF Stairs, ValidKeys

Ramp(t) == cfg.minTemp < t /\ t < cfg.maxTemp

\* On the ramp the gain is a number of steps, and grows with the temperature.
LEMMA GainSteps ==
  ASSUME Stairs, NEW t \in Degrees, Ramp(t)
  PROVE  Gain(t) \in 0..cfg.steps
<1> DEFINE x == t - cfg.minTemp
           run == cfg.maxTemp - cfg.minTemp
           n == cfg.steps
<1>1. x \in Nat /\ run \in Nat /\ n \in Nat /\ run > 0 /\ x <= run
  BY StairsFacts DEF Ramp, Degrees
<1>2. Gain(t) = Rounded(x * n, run)
  BY DEF Gain
<1> HIDE DEF x, run, n
<1>3. x * n \in Nat /\ x * n <= n * run /\ 0 * run = 0
  BY <1>1, Ratio
<1>4. Rounded(x * n, run) \in Int /\ 0 <= Rounded(x * n, run) /\ Rounded(x * n, run) <= n
  BY <1>1, <1>3, RoundedBetween
<1>5. QED
  BY <1>2, <1>4 DEF n

LEMMA RampFacts ==
  ASSUME Stairs, NEW t \in Degrees, Ramp(t)
  PROVE  /\ t - cfg.minTemp \in Nat /\ cfg.maxTemp - cfg.minTemp \in Nat
         /\ cfg.maxTemp - cfg.minTemp > 0 /\ t - cfg.minTemp <= cfg.maxTemp - cfg.minTemp
         /\ Gain(t) \in Nat /\ Gain(t) <= cfg.steps
<1>1. Gain(t) \in 0..cfg.steps
  BY GainSteps
<1>2. QED
  BY <1>1, StairsFacts DEF Ramp, Degrees

LEMMA GainRises ==
  ASSUME Stairs, NEW t \in Degrees, NEW u \in Degrees, Ramp(t), Ramp(u), t <= u
  PROVE  Gain(t) <= Gain(u)
<1> DEFINE x == t - cfg.minTemp
           y == u - cfg.minTemp
           run == cfg.maxTemp - cfg.minTemp
           n == cfg.steps
<1>1. x \in Nat /\ y \in Nat /\ run \in Nat /\ n \in Nat /\ run > 0 /\ x <= y
  BY StairsFacts, RampFacts DEF Degrees
<1>2. Gain(t) = Rounded(x * n, run) /\ Gain(u) = Rounded(y * n, run)
  BY DEF Gain
<1> HIDE DEF x, y, run, n
<1>3. x * n \in Int /\ y * n \in Int /\ x * n <= y * n
  BY <1>1, Product
<1>4. QED
  BY <1>1, <1>2, <1>3, RoundedRises

LEMMA StaircaseOnRamp ==
  ASSUME Stairs, NEW t \in Degrees, Ramp(t)
  PROVE  /\ Staircase(t) = Rounded(Gain(t) * (cfg.maxLevel - cfg.minLevel), cfg.steps) + cfg.minLevel
         /\ Staircase(t) \in cfg.minLevel..cfg.maxLevel
<1> DEFINE rise == cfg.maxLevel - cfg.minLevel
           n == cfg.steps
           g == Gain(t)
<1>1. rise \in Nat /\ n \in Nat /\ n > 0 /\ g \in Nat /\ g <= n
  BY StairsFacts, RampFacts
<1>2. Staircase(t) = Rounded(g * rise, n) + cfg.minLevel
  BY StairsFacts DEF Staircase, Ramp, Degrees
<1>3. cfg.minLevel \in Int /\ cfg.maxLevel = cfg.minLevel + rise
  BY StairsFacts
<1> HIDE DEF rise, n, g
<1>4. g * rise \in Nat /\ g * rise <= rise * n /\ 0 * n = 0
  BY <1>1, Ratio
<1>5. Rounded(g * rise, n) \in Int /\ 0 <= Rounded(g * rise, n) /\ Rounded(g * rise, n) <= rise
  BY <1>1, <1>4, RoundedBetween
<1>6. Staircase(t) \in cfg.minLevel..cfg.maxLevel
  BY <1>1, <1>2, <1>3, <1>5
<1>7. QED
  BY <1>2, <1>6 DEF rise, n, g

LEMMA StaircaseOffRamp ==
  ASSUME Stairs, NEW t \in Degrees
  PROVE  /\ t <= cfg.minTemp => Staircase(t) = cfg.minLevel
         /\ t >= cfg.maxTemp /\ t > cfg.minTemp => Staircase(t) = cfg.maxLevel
BY StairsFacts DEF Staircase, Degrees

LEMMA StaircaseTyped ==
  ASSUME Stairs, NEW t \in Degrees
  PROVE  Staircase(t) \in cfg.minLevel..cfg.maxLevel /\ Staircase(t) \in Levels
<1>1. /\ cfg.minTemp \in Int /\ cfg.maxTemp \in Int /\ cfg.minLevel \in Int /\ cfg.maxLevel \in Int
      /\ 0 <= cfg.minLevel /\ cfg.minLevel <= cfg.maxLevel /\ cfg.maxLevel <= 100
  BY StairsFacts
<1>2. Staircase(t) \in cfg.minLevel..cfg.maxLevel
  <2>1. CASE Ramp(t)
    BY <2>1, StaircaseOnRamp
  <2>2. CASE ~Ramp(t)
    <3>1. t \in Int /\ (t <= cfg.minTemp \/ (t >= cfg.maxTemp /\ t > cfg.minTemp))
      BY <1>1, <2>2 DEF Ramp, Degrees
    <3>2. Staircase(t) = cfg.minLevel \/ Staircase(t) = cfg.maxLevel
      BY <3>1, StaircaseOffRamp
    <3>3. QED
      BY <1>1, <3>2
  <2>3. QED
    BY <2>1, <2>2
<1>3. QED
  BY <1>1, <1>2 DEF Levels

LEMMA StaircaseRises ==
  ASSUME Stairs, NEW t \in Degrees, NEW u \in Degrees, t <= u
  PROVE  Staircase(t) <= Staircase(u)
<1>1. /\ cfg.minTemp \in Int /\ cfg.maxTemp \in Int /\ cfg.minLevel \in Int /\ cfg.maxLevel \in Int
      /\ cfg.minLevel <= cfg.maxLevel
  BY StairsFacts
<1>2. Staircase(t) \in cfg.minLevel..cfg.maxLevel /\ Staircase(u) \in cfg.minLevel..cfg.maxLevel
  BY StaircaseTyped
<1>3. CASE Ramp(t) /\ Ramp(u)
  <2> DEFINE rise == cfg.maxLevel - cfg.minLevel
             n == cfg.steps
             g == Gain(t)
             h == Gain(u)
  <2>1. rise \in Nat /\ n \in Nat /\ n > 0 /\ g \in Nat /\ h \in Nat /\ g <= h
    BY <1>3, StairsFacts, RampFacts, GainRises
  <2>2. Staircase(t) = Rounded(g * rise, n) + cfg.minLevel /\ Staircase(u) = Rounded(h * rise, n) + cfg.minLevel
    BY <1>3, StaircaseOnRamp
  <2> HIDE DEF rise, n, g, h
  <2>3. g * rise \in Int /\ h * rise \in Int /\ g * rise <= h * rise
    BY <2>1, Product
  <2>4. Rounded(g * rise, n) <= Rounded(h * rise, n) /\ Rounded(g * rise, n) \in Int /\ Rounded(h * rise, n) \in Int
    BY <2>1, <2>3, RoundedRises, RoundedBetween
  <2>5. QED
    BY <1>1, <2>2, <2>4
<1>4. CASE ~Ramp(t)
  BY <1>1, <1>2, <1>4, StaircaseOffRamp, SMTT(30) DEF Ramp, Degrees
<1>5. CASE ~Ramp(u)
  BY <1>1, <1>2, <1>5, StaircaseOffRamp, SMTT(30) DEF Ramp, Degrees
<1>6. QED
  BY <1>3, <1>4, <1>5

\* Two roundings after each other are off by half a step and half a level at most.
LEMMA TwoRoundings ==
  ASSUME NEW l \in Int, NEW g \in Int, NEW n \in Nat, NEW run \in Nat, NEW rise \in Nat, NEW x \in Int,
         2 * (l * n - g * rise) <= n, 2 * (g * rise - l * n) <= n,
         2 * (g * run - x * n) <= run, 2 * (x * n - g * run) <= run
  PROVE  /\ 2 * n * (l * run - x * rise) <= (rise + n) * run
         /\ 2 * n * (x * rise - l * run) <= (rise + n) * run
<1>1. \A a, b \in Int, c \in Nat : a <= b => a * c <= b * c
  BY Product
<1>2. /\ (2 * (l * n - g * rise)) * run <= n * run
      /\ (2 * (g * rise - l * n)) * run <= n * run
      /\ (2 * (g * run - x * n)) * rise <= run * rise
      /\ (2 * (x * n - g * run)) * rise <= run * rise
  BY <1>1
<1>3. /\ 2 * n * (l * run - x * rise) = (2 * (l * n - g * rise)) * run + (2 * (g * run - x * n)) * rise
      /\ 2 * n * (x * rise - l * run) = (2 * (g * rise - l * n)) * run + (2 * (x * n - g * run)) * rise
      /\ (rise + n) * run = n * run + run * rise
  OBVIOUS
<1>4. \A a, b, c, d \in Int : a <= b /\ c <= d => a + c <= b + d
  OBVIOUS
<1>5. /\ (2 * (l * n - g * rise)) * run \in Int /\ (2 * (g * run - x * n)) * rise \in Int
      /\ (2 * (g * rise - l * n)) * run \in Int /\ (2 * (x * n - g * run)) * rise \in Int
      /\ n * run \in Int /\ run * rise \in Int
  OBVIOUS
<1>6. QED
  BY <1>2, <1>3, <1>4, <1>5

\* A level of the ramp against the straight line, as Near says it.
LEMMA StaircaseNear ==
  ASSUME Stairs, NEW t \in Degrees, Ramp(t)
  PROVE  LET rise == cfg.maxLevel - cfg.minLevel
             run == cfg.maxTemp - cfg.minTemp
             off == (Staircase(t) - cfg.minLevel) * run - (t - cfg.minTemp) * rise
         IN  2 * cfg.steps * (IF off < 0 THEN -off ELSE off) <= (rise + cfg.steps) * run
<1> DEFINE rise == cfg.maxLevel - cfg.minLevel
           run == cfg.maxTemp - cfg.minTemp
           n == cfg.steps
           g == Gain(t)
           x == t - cfg.minTemp
           l == Staircase(t) - cfg.minLevel
           off == l * run - x * rise
<1> SUFFICES 2 * n * (IF off < 0 THEN -off ELSE off) <= (rise + n) * run
  OBVIOUS
<1>1. /\ rise \in Nat /\ run \in Nat /\ run > 0 /\ n \in Nat /\ n > 0 /\ x \in Nat /\ g \in Nat
      /\ cfg.minLevel \in Int
  BY StairsFacts, RampFacts
<1>2. g = Rounded(x * n, run)
  BY DEF Gain
<1>3. Staircase(t) = Rounded(g * rise, n) + cfg.minLevel
  BY StaircaseOnRamp
<1> HIDE DEF rise, run, n, g, x
<1>5. g * rise \in Int /\ x * n \in Int
  BY <1>1
<1>6. Rounded(g * rise, n) \in Int
  BY <1>1, <1>5, RoundedBetween
<1>7. l = Rounded(g * rise, n) /\ l \in Int
  BY <1>1, <1>3, <1>6
<1>8. /\ 2 * (l * n - g * rise) <= n /\ 2 * (g * rise - l * n) <= n
      /\ 2 * (g * run - x * n) <= run /\ 2 * (x * n - g * run) <= run
  BY <1>1, <1>2, <1>5, <1>7, RoundedNear
<1> HIDE DEF l
<1>9. /\ 2 * n * (l * run - x * rise) <= (rise + n) * run
      /\ 2 * n * (x * rise - l * run) <= (rise + n) * run
  BY <1>1, <1>7, <1>8, TwoRoundings
<1>10. l * run \in Int /\ x * rise \in Int
  BY <1>1, <1>7
<1>11. off = l * run - x * rise /\ -off = x * rise - l * run
  BY <1>10
<1>12. QED
  BY <1>9, <1>11

-----------------------------------------------------------------------------
(* The line of a curve.                                                    *)

\* What the checks leave of a section with control_function=.
Curve ==
  /\ cfg.points # <<>> /\ cfg.points \in Seq(Int \X Int)
  /\ ValidPoints(cfg) /\ ValidInterior(cfg)
  /\ cfg.steps \in Int /\ cfg.steps > 0

N == Len(cfg.points) - 1
Temp == [i \in 0..N |-> TempOf(cfg.points[i + 1])]
Level == [i \in 0..N |-> LevelOf(cfg.points[i + 1])]

LEMMA CurveFacts ==
  ASSUME Curve
  PROVE  /\ N \in Nat /\ N > 0
         /\ \A i \in 0..N : Temp[i] \in Degrees /\ Level[i] \in Levels
         /\ \A i \in 0..N - 1 : Temp[i] < Temp[i + 1]
         /\ Rises(Temp, N)
         /\ TempOf(First) = Temp[0] /\ TempOf(Last) = Temp[N]
         /\ LevelOf(First) = Level[0] /\ LevelOf(Last) = Level[N]
         /\ TempOf(Last) - TempOf(First) - 1 >= cfg.steps
<1>1. Len(cfg.points) \in Nat /\ Len(cfg.points) >= 2
  BY DEF Curve, ValidPoints
<1>2. N \in Nat /\ N > 0 /\ Len(cfg.points) = N + 1
  BY <1>1 DEF N
<1>3. \A i \in 0..N : Temp[i] \in Degrees /\ Level[i] \in Levels
  <2>1. \A i \in 0..N : i + 1 \in 1..Len(cfg.points)
    BY <1>2
  <2>2. QED
    BY <2>1 DEF Curve, ValidPoints, Temp, Level
<1>4. ASSUME NEW i \in 0..N - 1 PROVE Temp[i] < Temp[i + 1]
  <2>1. i + 2 \in 2..Len(cfg.points) /\ (i + 2) - 1 = i + 1 /\ i \in 0..N /\ i + 1 \in 0..N /\ (i + 1) + 1 = i + 2
    BY <1>2
  <2>2. TempOf(cfg.points[(i + 2) - 1]) < TempOf(cfg.points[i + 2])
    BY <2>1 DEF Curve, ValidPoints
  <2>3. Temp[i] = TempOf(cfg.points[i + 1]) /\ Temp[i + 1] = TempOf(cfg.points[i + 2])
    BY <2>1 DEF Temp
  <2>4. QED
    BY <2>1, <2>2, <2>3
<1>5. Rises(Temp, N)
  <2>1. \A i \in 0..N : Temp[i] \in Int
    BY <1>3 DEF Degrees
  <2>2. \A i \in 0..N - 1 : Temp[i] \in Int /\ Temp[i + 1] \in Int
    BY <1>2, <2>1
  <2>3. \A i \in 0..N - 1 : Temp[i] <= Temp[i + 1]
    BY <1>4, <2>2
  <2>4. QED
    BY <2>1, <2>3 DEF Rises
<1>6. /\ TempOf(First) = Temp[0] /\ TempOf(Last) = Temp[N]
      /\ LevelOf(First) = Level[0] /\ LevelOf(Last) = Level[N]
  BY <1>2 DEF First, Last, Temp, Level
<1>7. TempOf(Last) - TempOf(First) - 1 >= cfg.steps
  BY DEF Curve, ValidInterior, First, Last
<1>8. QED
  BY <1>2, <1>3, <1>4, <1>5, <1>6, <1>7

\* The segment a temperature is in, counted from 0.
LEMMA SegmentFound ==
  ASSUME Curve, NEW t \in Int, TempOf(First) <= t, t < TempOf(Last)
  PROVE  \E i \in 0..N - 1 :
           Segment(t) = i + 1 /\ Temp[i] <= t /\ t < Temp[i + 1]
<1>1. N \in Nat /\ \A i \in 0..N : Temp[i] \in Int
  BY CurveFacts DEF Degrees
<1>2. PICK i \in 0..N - 1 : Temp[i] <= t /\ t < Temp[i + 1]
  BY <1>1, CurveFacts, Bracket
<1> DEFINE In(k) == TempOf(cfg.points[k]) <= t /\ t < TempOf(cfg.points[k + 1])
<1>3. \A j \in 0..N - 1 : In(j + 1) <=> Temp[j] <= t /\ t < Temp[j + 1]
  BY <1>1 DEF Temp
<1>4. i + 1 \in 1..Len(cfg.points) - 1 /\ In(i + 1)
  BY <1>1, <1>2, <1>3 DEF N
<1>5. Segment(t) \in 1..Len(cfg.points) - 1 /\ In(Segment(t))
  BY <1>4 DEF Segment
<1>6. Segment(t) - 1 \in 0..N - 1 /\ (Segment(t) - 1) + 1 = Segment(t)
  BY <1>1, <1>5 DEF N
<1> HIDE DEF In
<1>7. QED
  BY <1>3, <1>5, <1>6

\* A weighted mean of two levels, rounded, is between them and follows the weights.
LEMMA BetweenLevels ==
  ASSUME NEW p \in Int \X Int, NEW q \in Int \X Int, TempOf(p) < TempOf(q),
         NEW t \in TempOf(p)..TempOf(q),
         NEW lo \in Int, NEW hi \in Int,
         lo <= LevelOf(p), LevelOf(p) <= hi, lo <= LevelOf(q), LevelOf(q) <= hi
  PROVE  Between(p, q, t) \in Int /\ lo <= Between(p, q, t) /\ Between(p, q, t) <= hi
<1> DEFINE dt == TempOf(q) - TempOf(p)
           x == t - TempOf(p)
           l == LevelOf(p)
           m == LevelOf(q)
<1>1. dt \in Nat /\ dt > 0 /\ x \in Nat /\ dt - x \in Nat /\ l \in Int /\ m \in Int
  BY DEF TempOf, LevelOf
<1>2. Between(p, q, t) = Rounded(l * dt + x * (m - l), dt)
  BY DEF Between
<1>3. lo <= l /\ l <= hi /\ lo <= m /\ m <= hi
  OBVIOUS
<1> HIDE DEF dt, x, l, m
<1>4. /\ lo * (dt - x) <= l * (dt - x) /\ l * (dt - x) <= hi * (dt - x)
      /\ lo * x <= m * x /\ m * x <= hi * x
  BY <1>1, <1>3, Product
<1>5. /\ l * dt + x * (m - l) = l * (dt - x) + m * x
      /\ lo * dt = lo * (dt - x) + lo * x /\ hi * dt = hi * (dt - x) + hi * x
  BY <1>1
<1>6. /\ l * (dt - x) \in Int /\ m * x \in Int /\ lo * (dt - x) \in Int /\ lo * x \in Int
      /\ hi * (dt - x) \in Int /\ hi * x \in Int
  BY <1>1
<1>7. lo * dt <= l * dt + x * (m - l) /\ l * dt + x * (m - l) <= hi * dt
  BY <1>4, <1>5, <1>6
<1>8. l * dt + x * (m - l) \in Int
  BY <1>5, <1>6
<1>9. QED
  BY <1>1, <1>2, <1>7, <1>8, RoundedBetween

LEMMA BetweenRises ==
  ASSUME NEW p \in Int \X Int, NEW q \in Int \X Int, TempOf(p) < TempOf(q), LevelOf(p) <= LevelOf(q),
         NEW t \in Int, NEW u \in Int, t <= u
  PROVE  Between(p, q, t) <= Between(p, q, u)
<1> DEFINE dt == TempOf(q) - TempOf(p)
           x == t - TempOf(p)
           y == u - TempOf(p)
           l == LevelOf(p)
           rise == LevelOf(q) - LevelOf(p)
<1>1. dt \in Nat /\ dt > 0 /\ x \in Int /\ y \in Int /\ x <= y /\ l \in Int /\ rise \in Nat
  BY DEF TempOf, LevelOf
<1>2. Between(p, q, t) = Rounded(l * dt + x * rise, dt) /\ Between(p, q, u) = Rounded(l * dt + y * rise, dt)
  BY DEF Between
<1> HIDE DEF dt, x, y, l, rise
<1>3. x * rise <= y * rise /\ x * rise \in Int /\ y * rise \in Int /\ l * dt \in Int
  BY <1>1, Product
<1>4. /\ l * dt + x * rise \in Int /\ l * dt + y * rise \in Int
      /\ l * dt + x * rise <= l * dt + y * rise
  BY <1>3
<1>5. QED
  BY <1>1, <1>2, <1>4, RoundedRises

\* The line on a segment.
LEMMA LineOnSegment ==
  ASSUME Curve, NEW t \in Int, TempOf(First) <= t, t < TempOf(Last)
  PROVE  \E i \in 0..N - 1 :
           /\ Temp[i] <= t /\ t < Temp[i + 1]
           /\ Line(t) = Between(cfg.points[i + 1], cfg.points[i + 2], t)
           /\ \A lo, hi \in Int :
                lo <= Level[i] /\ Level[i] <= hi /\ lo <= Level[i + 1] /\ Level[i + 1] <= hi
                  => Line(t) \in Int /\ lo <= Line(t) /\ Line(t) <= hi
<1>1. PICK i \in 0..N - 1 : Segment(t) = i + 1 /\ Temp[i] <= t /\ t < Temp[i + 1]
  BY SegmentFound
<1>2. N \in Nat /\ TempOf(First) \in Int /\ TempOf(Last) \in Int
  BY CurveFacts DEF Degrees
<1>3. Line(t) = Between(cfg.points[i + 1], cfg.points[i + 2], t)
  <2>1. ~(t < TempOf(First)) /\ ~(t >= TempOf(Last))
    BY <1>2
  <2>2. (i + 1) + 1 = i + 2
    OBVIOUS
  <2>3. QED
    BY <1>1, <2>1, <2>2 DEF Line
<1> DEFINE p == cfg.points[i + 1]
           q == cfg.points[i + 2]
<1>4. p \in Int \X Int /\ q \in Int \X Int
  <2>1. i + 1 \in 1..Len(cfg.points) /\ i + 2 \in 1..Len(cfg.points)
    BY <1>2 DEF N
  <2>2. cfg.points \in Seq(Int \X Int)
    BY DEF Curve
  <2>3. \A j \in 1..Len(cfg.points) : cfg.points[j] \in Int \X Int
    BY <2>2
  <2> HIDE DEF p, q
  <2>4. cfg.points[i + 1] \in Int \X Int /\ cfg.points[i + 2] \in Int \X Int
    BY <2>1, <2>3
  <2>5. QED
    BY <2>4 DEF p, q
<1>5. Temp[i] = TempOf(p) /\ Temp[i + 1] = TempOf(q) /\ Level[i] = LevelOf(p) /\ Level[i + 1] = LevelOf(q)
  <2>1. i \in 0..N /\ i + 1 \in 0..N /\ (i + 1) + 1 = i + 2
    BY <1>2
  <2>2. QED
    BY <2>1 DEF Temp, Level
<1>6. TempOf(p) < TempOf(q) /\ TempOf(p) \in Int /\ TempOf(q) \in Int /\ t \in TempOf(p)..TempOf(q)
  <2>1. TempOf(p) \in Int /\ TempOf(q) \in Int
    BY <1>4 DEF TempOf
  <2>2. QED
    BY <1>1, <1>5, <2>1
<1> HIDE DEF p, q
<1>7. \A lo, hi \in Int :
        lo <= LevelOf(p) /\ LevelOf(p) <= hi /\ lo <= LevelOf(q) /\ LevelOf(q) <= hi
          => Between(p, q, t) \in Int /\ lo <= Between(p, q, t) /\ Between(p, q, t) <= hi
  BY <1>4, <1>6, BetweenLevels
<1>8. QED
  BY <1>1, <1>3, <1>5, <1>7 DEF p, q

LEMMA CurveSpan ==
  ASSUME Curve
  PROVE  /\ N \in Nat /\ N > 0 /\ TempOf(First) \in Degrees /\ TempOf(Last) \in Degrees
         /\ cfg.steps \in Nat /\ cfg.steps > 0
         /\ TempOf(Last) - TempOf(First) - 1 >= cfg.steps /\ TempOf(First) < TempOf(Last)
<1>1. N \in Nat /\ N > 0 /\ TempOf(Last) - TempOf(First) - 1 >= cfg.steps
  BY CurveFacts
<1>2. TempOf(First) \in Degrees /\ TempOf(Last) \in Degrees
  <2>1. 0 \in 0..N /\ N \in 0..N
    BY <1>1
  <2>2. QED
    BY <2>1, CurveFacts
<1>3. cfg.steps \in Nat /\ cfg.steps > 0
  BY DEF Curve
<1>4. QED
  BY <1>1, <1>2, <1>3 DEF Degrees

LEMMA LineTyped ==
  ASSUME Curve, NEW t \in Int
  PROVE  Line(t) \in Levels
<1>1. \A i \in 0..N : Level[i] \in Int /\ 0 <= Level[i] /\ Level[i] <= 100
  BY CurveFacts DEF Levels
<1>2. /\ N \in Nat /\ TempOf(First) \in Int /\ TempOf(Last) \in Int
      /\ TempOf(First) < TempOf(Last)
  BY CurveSpan DEF Degrees
<1>3. CASE t < TempOf(First)
  <2>1. Line(t) = Level[0]
    BY <1>2, <1>3, CurveFacts DEF Line
  <2>2. QED
    BY <1>1, <1>2, <2>1 DEF Levels
<1>4. CASE ~(t < TempOf(First)) /\ t >= TempOf(Last)
  <2>1. Line(t) = Level[N]
    BY <1>2, <1>4, CurveFacts DEF Line
  <2>2. QED
    BY <1>1, <1>2, <2>1 DEF Levels
<1>5. CASE TempOf(First) <= t /\ t < TempOf(Last)
  <2>1. PICK i \in 0..N - 1 :
          \A lo, hi \in Int :
             lo <= Level[i] /\ Level[i] <= hi /\ lo <= Level[i + 1] /\ Level[i + 1] <= hi
               => Line(t) \in Int /\ lo <= Line(t) /\ Line(t) <= hi
    BY <1>5, LineOnSegment
  <2>2. i \in 0..N /\ i + 1 \in 0..N
    BY <1>2
  <2>3. Line(t) \in Int /\ 0 <= Line(t) /\ Line(t) <= 100
    BY <1>1, <2>1, <2>2
  <2>4. QED
    BY <2>3 DEF Levels
<1>6. QED
  BY <1>2, <1>3, <1>4, <1>5

LEMMA LineEnds ==
  ASSUME Curve, NEW t \in Int
  PROVE  /\ t <= TempOf(First) => Line(t) = LevelOf(First)
         /\ t >= TempOf(Last) => Line(t) = LevelOf(Last)
<1>1. /\ N \in Nat /\ N > 0 /\ TempOf(First) \in Int /\ TempOf(Last) \in Int
      /\ TempOf(First) < TempOf(Last)
  BY CurveSpan DEF Degrees
<1>2. CASE t < TempOf(First)
  BY <1>1, <1>2 DEF Line
<1>3. CASE t >= TempOf(Last)
  BY <1>1, <1>3 DEF Line
<1>4. CASE t = TempOf(First)
  <2>1. PICK i \in 0..N - 1 :
          Temp[i] <= t /\ Line(t) = Between(cfg.points[i + 1], cfg.points[i + 2], t)
    BY <1>1, <1>4, LineOnSegment
  <2>2. i = 0
    <3>1. Temp[0] \in Int /\ Temp[0 + 1] \in Int /\ t < Temp[0 + 1] /\ 0 \in 0..N - 1 /\ Rises(Temp, N)
      <4>1. 0 \in 0..N - 1 /\ 0 \in 0..N /\ 0 + 1 \in 0..N
        BY <1>1
      <4>2. QED
        BY <1>4, <4>1, CurveFacts DEF Degrees
    <3>2. \A j \in 0..N - 1 : t < Temp[j + 1] => i <= j
      BY <1>1, <2>1, <3>1, InOrder
    <3>4. i <= 0
      BY <3>1, <3>2
    <3>3. QED
      BY <3>4
  <2> DEFINE p == cfg.points[1]
             q == cfg.points[2]
             dt == TempOf(q) - TempOf(p)
  <2>3. Line(t) = Rounded(LevelOf(p) * dt + (t - TempOf(p)) * (LevelOf(q) - LevelOf(p)), dt)
    BY <2>1, <2>2 DEF Between
  <2>4. /\ 0 \in 0..N /\ 1 \in 0..N /\ 0 \in 0..N - 1 /\ Temp[0] = TempOf(p) /\ Temp[1] = TempOf(q)
        /\ Level[0] = LevelOf(p) /\ Level[1] = LevelOf(q)
    BY <1>1 DEF Temp, Level
  <2>5. dt \in Nat /\ dt > 0 /\ LevelOf(p) \in Int /\ LevelOf(q) \in Int /\ t = TempOf(p) /\ t \in Int
    <3>1. Temp[0] \in Int /\ Temp[1] \in Int /\ Level[0] \in Int /\ Level[1] \in Int
      BY <2>4, CurveFacts DEF Degrees, Levels
    <3>2. Temp[0] < Temp[0 + 1] /\ TempOf(First) = Temp[0]
      BY <2>4, CurveFacts
    <3>3. QED
      BY <1>4, <2>4, <3>1, <3>2
  <2> HIDE DEF dt
  <2>6. LevelOf(p) * dt + (t - TempOf(p)) * (LevelOf(q) - LevelOf(p)) = LevelOf(p) * dt
        /\ LevelOf(p) * dt \in Int
    <3>1. t - TempOf(p) = 0 /\ LevelOf(q) - LevelOf(p) \in Int /\ LevelOf(p) * dt \in Int
      BY <2>5
    <3>2. QED
      BY <3>1
  <2>7. Rounded(LevelOf(p) * dt, dt) = LevelOf(p)
    <3>1. /\ Rounded(LevelOf(p) * dt, dt) \in Int
          /\ LevelOf(p) <= Rounded(LevelOf(p) * dt, dt) /\ Rounded(LevelOf(p) * dt, dt) <= LevelOf(p)
      BY <2>5, <2>6, RoundedBetween
    <3>2. QED
      BY <2>5, <3>1
  <2>8. QED
    BY <1>1, <1>4, <2>3, <2>6, <2>7 DEF First
<1>5. QED
  BY <1>1, <1>2, <1>3, <1>4

\* The line of a rising curve rises from degree to degree, across all its points.
LEMMA LineRises ==
  ASSUME Curve, Rising, NEW t \in Int, NEW u \in Int, t <= u
  PROVE  Line(t) <= Line(u)
<1>1. N \in Nat /\ N > 0 /\ TempOf(First) \in Int /\ TempOf(Last) \in Int
  BY CurveSpan DEF Degrees
<1>2. Rises(Level, N)
  <2>1. \A i \in 0..N : Level[i] \in Int
    BY CurveFacts DEF Levels
  <2>2. ASSUME NEW i \in 0..N - 1 PROVE Level[i] <= Level[i + 1]
    <3>1. i + 2 \in 2..Len(cfg.points) /\ (i + 2) - 1 = i + 1 /\ i \in 0..N /\ i + 1 \in 0..N /\ (i + 1) + 1 = i + 2
      BY <1>1 DEF N
    <3>2. LevelOf(cfg.points[(i + 2) - 1]) <= LevelOf(cfg.points[i + 2])
      BY <3>1 DEF Rising, Curve
    <3>3. QED
      BY <3>1, <3>2 DEF Level
  <2>3. QED
    BY <2>1, <2>2 DEF Rises
<1>3. \A i \in 0..N : Level[0] <= Level[i] /\ Level[i] <= Level[N] /\ Level[i] \in Int
  BY <1>1, <1>2, Climbing DEF Rises
<1>4. Line(t) \in Int /\ Line(u) \in Int
  BY LineTyped DEF Levels
<1> DEFINE On(x) == TempOf(First) <= x /\ x < TempOf(Last)
<1>5. ASSUME NEW x \in Int PROVE Level[0] <= Line(x) /\ Line(x) <= Level[N]
  <2>1. CASE On(x)
    <3>1. PICK i \in 0..N - 1 :
            \A lo, hi \in Int :
               lo <= Level[i] /\ Level[i] <= hi /\ lo <= Level[i + 1] /\ Level[i + 1] <= hi
                 => Line(x) \in Int /\ lo <= Line(x) /\ Line(x) <= hi
      BY <2>1, LineOnSegment
    <3>2. i \in 0..N /\ i + 1 \in 0..N /\ Level[0] \in Int /\ Level[N] \in Int
      BY <1>1, <1>3
    <3>3. QED
      BY <1>3, <3>1, <3>2
  <2>2. CASE ~On(x)
    <3>1. x <= TempOf(First) \/ x >= TempOf(Last)
      BY <1>1, <2>2
    <3>2. Line(x) = Level[0] \/ Line(x) = Level[N]
      BY <3>1, LineEnds, CurveFacts
    <3>3. 0 \in 0..N /\ N \in 0..N
      BY <1>1
    <3>4. QED
      BY <1>3, <3>2, <3>3
  <2>3. QED
    BY <2>1, <2>2
<1>6. CASE On(t) /\ On(u)
  <2>1. PICK i \in 0..N - 1 :
          /\ Temp[i] <= t /\ t < Temp[i + 1]
          /\ Line(t) = Between(cfg.points[i + 1], cfg.points[i + 2], t)
          /\ \A lo, hi \in Int :
               lo <= Level[i] /\ Level[i] <= hi /\ lo <= Level[i + 1] /\ Level[i + 1] <= hi
                 => Line(t) \in Int /\ lo <= Line(t) /\ Line(t) <= hi
    BY <1>6, LineOnSegment
  <2>2. PICK j \in 0..N - 1 :
          /\ Temp[j] <= u /\ u < Temp[j + 1]
          /\ Line(u) = Between(cfg.points[j + 1], cfg.points[j + 2], u)
          /\ \A lo, hi \in Int :
               lo <= Level[j] /\ Level[j] <= hi /\ lo <= Level[j + 1] /\ Level[j + 1] <= hi
                 => Line(u) \in Int /\ lo <= Line(u) /\ Line(u) <= hi
    BY <1>6, LineOnSegment
  <2>3. /\ i \in 0..N /\ i + 1 \in 0..N /\ j \in 0..N /\ j + 1 \in 0..N
    BY <1>1
  <2>4. /\ Level[i] \in Int /\ Level[i + 1] \in Int /\ Level[j] \in Int /\ Level[j + 1] \in Int
        /\ Level[i] <= Level[i + 1] /\ Level[j] <= Level[j + 1]
    BY <1>2, <2>3 DEF Rises
  <2>5. i <= j
    BY <1>1, <2>1, <2>2, CurveFacts, InOrder
  <2>6. CASE i = j
    <3> DEFINE p == cfg.points[i + 1]
               q == cfg.points[i + 2]
    <3>1. p \in Int \X Int /\ q \in Int \X Int
      <4>1. i + 1 \in 1..Len(cfg.points) /\ i + 2 \in 1..Len(cfg.points)
        <5>1. Len(cfg.points) = N + 1
          BY DEF N, Curve
        <5>2. QED
          BY <1>1, <5>1
      <4>2. \A k \in 1..Len(cfg.points) : cfg.points[k] \in Int \X Int
        BY DEF Curve
      <4>3. QED
        BY <4>1, <4>2
    <3>2. /\ TempOf(p) = Temp[i] /\ TempOf(q) = Temp[i + 1]
          /\ LevelOf(p) = Level[i] /\ LevelOf(q) = Level[i + 1]
      <4>1. (i + 1) + 1 = i + 2
        OBVIOUS
      <4>2. QED
        BY <2>3, <4>1 DEF Temp, Level
    <3>3. TempOf(p) < TempOf(q) /\ LevelOf(p) <= LevelOf(q)
      BY <2>4, <3>2, CurveFacts
    <3> HIDE DEF p, q
    <3>4. Between(p, q, t) <= Between(p, q, u)
      BY <3>1, <3>3, BetweenRises
    <3>5. QED
      BY <2>1, <2>2, <2>6, <3>4 DEF p, q
  <2>7. CASE i < j
    <3>1. Level[i + 1] <= Level[j]
      BY <1>1, <1>2, <2>3, <2>7, Climbing
    <3>2. Line(t) <= Level[i + 1]
      BY <2>1, <2>4
    <3>3. Level[j] <= Line(u)
      BY <2>2, <2>4
    <3>4. QED
      BY <1>4, <2>4, <3>1, <3>2, <3>3
  <2>8. QED
    BY <2>5, <2>6, <2>7
<1>7. CASE ~On(t) \/ ~On(u)
  <2>1. t <= TempOf(First) \/ t >= TempOf(Last) \/ u <= TempOf(First) \/ u >= TempOf(Last)
    BY <1>1, <1>7
  <2>2. CASE t <= TempOf(First)
    BY <1>5, <2>2, LineEnds, CurveFacts
  <2>3. CASE u >= TempOf(Last)
    BY <1>5, <2>3, LineEnds, CurveFacts
  <2>4. CASE t >= TempOf(Last)
    <3>1. u >= TempOf(Last)
      BY <1>1, <2>4
    <3>2. QED
      BY <2>3, <3>1
  <2>5. CASE u <= TempOf(First)
    <3>1. t <= TempOf(First)
      BY <1>1, <2>5
    <3>2. QED
      BY <2>2, <3>1
  <2>6. QED
    BY <2>1, <2>2, <2>3, <2>4, <2>5
<1>8. QED
  BY <1>6, <1>7

\* An average of whole numbers, rounded, is between any bounds they have.
LEMMA AverageBetween ==
  ASSUME NEW S, IsFiniteSet(S), S # {}, NEW lo \in Int, NEW hi \in Int,
         \A x \in S : levels[x] \in Int /\ lo <= levels[x] /\ levels[x] <= hi
  PROVE  Average(S) \in Int /\ lo <= Average(S) /\ Average(S) <= hi
<1> DEFINE sum == SumOf(levels, S)
           n == Cardinality(S)
<1>1. Average(S) = Rounded(sum, n)
  BY DEF Average, SumOf
<1>2. sum \in Int /\ n * lo <= sum /\ sum <= n * hi
  BY SumBounds
<1>3. n \in Nat /\ n > 0
  BY FS_CardinalityType, FS_EmptySet
<1> HIDE DEF sum, n
<1>4. n * lo = lo * n /\ n * hi = hi * n
  BY <1>3
<1>5. QED
  BY <1>1, <1>2, <1>3, <1>4, RoundedBetween

-----------------------------------------------------------------------------
(* The plateaus of the second step.                                        *)

LEMMA PlateauWidth ==
  ASSUME Curve
  PROVE  /\ Base \in Nat /\ Base >= 1 /\ Remainder \in Nat /\ Remainder < cfg.steps
         /\ TempOf(Last) = TempOf(First) + 1 + cfg.steps * Base + Remainder
<1>1. /\ TempOf(First) \in Int /\ TempOf(Last) \in Int /\ cfg.steps \in Nat /\ cfg.steps > 0
      /\ Width \in Int /\ Width >= cfg.steps /\ TempOf(Last) = TempOf(First) + 1 + Width
  BY CurveSpan DEF Degrees, Width
<1>2. /\ Base \in Int /\ Remainder \in Nat /\ Remainder < cfg.steps
      /\ Width = Base * cfg.steps + Remainder
  BY <1>1, Quotient DEF Base, Remainder
<1>3. Base >= 1
  <2> SUFFICES ASSUME Base < 1 PROVE FALSE
    BY <1>2
  <2>1. Base * cfg.steps <= 0 * cfg.steps /\ 0 * cfg.steps = 0 /\ Base * cfg.steps \in Int
    BY <1>1, <1>2, Product
  <2>2. QED
    BY <1>1, <1>2, <2>1
<1>4. Base * cfg.steps = cfg.steps * Base /\ cfg.steps * Base \in Int
  BY <1>1, <1>2
<1>5. QED
  BY <1>1, <1>2, <1>3, <1>4

Borders == [i \in 0..cfg.steps |-> Start(i)]

LEMMA BorderFacts ==
  ASSUME Curve
  PROVE  /\ Rises(Borders, cfg.steps) /\ cfg.steps \in Nat
         /\ \A i \in 0..cfg.steps - 1 : Borders[i] + Base <= Borders[i + 1]
                                        /\ Borders[i + 1] <= Borders[i] + Base + 1
         /\ Borders[0] = TempOf(First) + 1 /\ Borders[cfg.steps] = TempOf(Last)
<1>1. /\ Base \in Nat /\ Base >= 1 /\ Remainder \in Nat /\ Remainder < cfg.steps
      /\ TempOf(Last) = TempOf(First) + 1 + cfg.steps * Base + Remainder
  BY PlateauWidth
<1>2. TempOf(First) \in Int /\ TempOf(Last) \in Int /\ cfg.steps \in Nat /\ cfg.steps > 0
  BY CurveSpan DEF Degrees
<1>3. \A i \in 0..cfg.steps : i * Base \in Int /\ (i + 1) * Base = i * Base + Base
  BY <1>1
<1>4. \A i \in 0..cfg.steps :
        Borders[i] = TempOf(First) + 1 + i * Base + (IF i < Remainder THEN i ELSE Remainder)
  BY DEF Borders, Start
<1>5. \A i \in 0..cfg.steps : Borders[i] \in Int
  BY <1>1, <1>2, <1>3, <1>4
<1>6. ASSUME NEW i \in 0..cfg.steps - 1
      PROVE  Borders[i] + Base <= Borders[i + 1] /\ Borders[i + 1] <= Borders[i] + Base + 1
  <2>1. i \in 0..cfg.steps /\ i + 1 \in 0..cfg.steps
    BY <1>2
  <2>2. /\ Borders[i] = TempOf(First) + 1 + i * Base + (IF i < Remainder THEN i ELSE Remainder)
        /\ Borders[i + 1] = TempOf(First) + 1 + (i * Base + Base) + (IF i + 1 < Remainder THEN i + 1 ELSE Remainder)
        /\ i * Base \in Int
    BY <1>3, <1>4, <2>1
  <2>3. QED
    BY <1>1, <1>2, <2>2
<1>7. Rises(Borders, cfg.steps)
  <2>1. \A i \in 0..cfg.steps - 1 : Borders[i] \in Int /\ Borders[i + 1] \in Int
    BY <1>2, <1>5
  <2>2. \A i \in 0..cfg.steps - 1 : Borders[i] <= Borders[i + 1]
    BY <1>1, <1>6, <2>1
  <2>3. QED
    BY <1>5, <2>2 DEF Rises
<1>8. Borders[0] = TempOf(First) + 1
  <2>1. 0 \in 0..cfg.steps /\ 0 * Base = 0
    BY <1>1, <1>2
  <2>2. QED
    BY <1>1, <1>2, <1>4, <2>1
<1>9. Borders[cfg.steps] = TempOf(Last)
  <2>1. cfg.steps \in 0..cfg.steps /\ ~(cfg.steps < Remainder)
    BY <1>1, <1>2
  <2>2. QED
    BY <1>1, <1>4, <2>1
<1>10. QED
  BY <1>2, <1>6, <1>7, <1>8, <1>9

\* The degrees that are averaged together with t.
Together(t) == Start(Plateau(t)) .. Start(Plateau(t) + 1) - 1

LEMMA PlateauFound ==
  ASSUME Curve, NEW t \in Interior
  PROVE  /\ Plateau(t) \in 0..cfg.steps - 1
         /\ Together(t) = Borders[Plateau(t)] .. Borders[Plateau(t) + 1] - 1
         /\ t \in Together(t) /\ IsFiniteSet(Together(t))
         /\ Together(t) \subseteq Interior \cap (t - Base .. t + Base)
<1>1. /\ TempOf(First) \in Int /\ TempOf(Last) \in Int /\ cfg.steps \in Nat /\ Base \in Nat
      /\ t \in Int /\ TempOf(First) < t /\ t < TempOf(Last)
  BY CurveSpan, PlateauWidth DEF Degrees, Interior
<1>2. PICK i \in 0..cfg.steps - 1 : Borders[i] <= t /\ t < Borders[i + 1]
  <2>1. Borders[0] <= t /\ t < Borders[cfg.steps]
    BY <1>1, BorderFacts
  <2>2. \A i \in 0..cfg.steps : Borders[i] \in Int
    BY BorderFacts DEF Rises
  <2>3. QED
    BY <1>1, <2>1, <2>2, Bracket
<1>3. \A j \in 0..cfg.steps - 1 : Start(j) = Borders[j] /\ Start(j + 1) = Borders[j + 1]
  BY <1>1 DEF Borders
<1>4. /\ Plateau(t) \in 0..cfg.steps - 1
      /\ Start(Plateau(t)) <= t /\ t < Start(Plateau(t) + 1)
  BY <1>2, <1>3 DEF Plateau
<1> DEFINE p == Plateau(t)
           a == Borders[p]
           b == Borders[p + 1]
<1>5. Together(t) = a .. b - 1 /\ a <= t /\ t < b
  BY <1>3, <1>4 DEF Together
<1>6. p \in 0..cfg.steps /\ p + 1 \in 0..cfg.steps /\ 0 \in 0..cfg.steps /\ cfg.steps \in 0..cfg.steps
      /\ 0 <= p /\ p + 1 <= cfg.steps
  BY <1>1, <1>4
<1>7. a \in Int /\ b \in Int /\ b <= a + Base + 1
  BY <1>4, <1>6, BorderFacts DEF Rises
<1>8. TempOf(First) + 1 <= a /\ b <= TempOf(Last)
  <2>1. Borders[0] <= a /\ b <= Borders[cfg.steps]
    BY <1>6, BorderFacts, Climbing
  <2>2. QED
    BY <2>1, BorderFacts
<1> HIDE DEF a, b, p
<1>9. a .. b - 1 \subseteq Interior \cap (t - Base .. t + Base)
  BY <1>1, <1>5, <1>7, <1>8 DEF Interior
<1>10. t \in a .. b - 1 /\ IsFiniteSet(a .. b - 1)
  BY <1>1, <1>5, <1>7, FS_Interval
<1>11. QED
  BY <1>4, <1>5, <1>9, <1>10 DEF a, b, p

\* What the last step makes of the line.
Flat(t) == IF t \in Interior THEN Average(Together(t)) ELSE levels[t]

OnLine == Curve /\ levels = [t \in Degrees |-> Line(t)]

LEMMA OnLineFacts ==
  ASSUME OnLine
  PROVE  /\ Interior \subseteq Degrees
         /\ \A t \in Degrees : levels[t] = Line(t) /\ levels[t] \in Int /\ 0 <= levels[t] /\ levels[t] <= 100
<1>1. Interior \subseteq Degrees
  BY CurveSpan DEF OnLine, Interior, Degrees
<1>2. \A t \in Degrees : levels[t] = Line(t) /\ t \in Int
  BY DEF OnLine, Degrees
<1>3. \A t \in Degrees : Line(t) \in Levels
  BY <1>2, LineTyped DEF OnLine
<1>4. QED
  BY <1>1, <1>2, <1>3 DEF Levels

\* Bounds of the degrees averaged with t are bounds of its level.
LEMMA FlatBetween ==
  ASSUME OnLine, NEW t \in Interior, NEW lo \in Int, NEW hi \in Int,
         \A x \in Together(t) : lo <= levels[x] /\ levels[x] <= hi
  PROVE  Flat(t) \in Int /\ lo <= Flat(t) /\ Flat(t) <= hi
<1>1. IsFiniteSet(Together(t)) /\ Together(t) # {} /\ Together(t) \subseteq Degrees
  BY PlateauFound, OnLineFacts DEF OnLine
<1>2. \A x \in Together(t) : levels[x] \in Int
  BY <1>1, OnLineFacts
<1>3. Average(Together(t)) \in Int /\ lo <= Average(Together(t)) /\ Average(Together(t)) <= hi
  BY <1>1, <1>2, AverageBetween
<1>4. QED
  BY <1>3 DEF Flat

LEMMA FlatTyped ==
  ASSUME OnLine, NEW t \in Degrees
  PROVE  Flat(t) \in Levels
<1>1. CASE t \in Interior
  <2>1. Together(t) \subseteq Degrees
    BY <1>1, PlateauFound, OnLineFacts DEF OnLine
  <2>2. \A x \in Together(t) : 0 <= levels[x] /\ levels[x] <= 100
    BY <2>1, OnLineFacts
  <2>3. Flat(t) \in Int /\ 0 <= Flat(t) /\ Flat(t) <= 100
    BY <1>1, <2>2, FlatBetween
  <2>4. QED
    BY <2>3 DEF Levels
<1>2. CASE t \notin Interior
  BY <1>2, OnLineFacts DEF Flat, Levels
<1>3. QED
  BY <1>1, <1>2

LEMMA FlatEnds ==
  ASSUME OnLine, NEW t \in Degrees
  PROVE  /\ t <= TempOf(First) => Flat(t) = LevelOf(First)
         /\ t >= TempOf(Last) => Flat(t) = LevelOf(Last)
<1>1. t \in Int /\ TempOf(First) \in Int /\ TempOf(Last) \in Int /\ TempOf(First) < TempOf(Last)
  BY CurveSpan DEF OnLine, Degrees
<1>2. ASSUME t <= TempOf(First) \/ t >= TempOf(Last) PROVE Flat(t) = Line(t)
  <2>1. t \notin Interior
    BY <1>1, <1>2 DEF Interior
  <2>2. QED
    BY <2>1, OnLineFacts DEF Flat
<1>3. QED
  BY <1>1, <1>2, LineEnds DEF OnLine

\* The levels of the degrees averaged with t, when the curve rises, are between those of
\* all lower and all higher degrees.
LEMMA FlatRises ==
  ASSUME OnLine, Rising, NEW t \in Degrees, NEW u \in Degrees, t <= u
  PROVE  Flat(t) <= Flat(u)
<1>1. /\ t \in Int /\ u \in Int /\ TempOf(First) \in Int /\ TempOf(Last) \in Int /\ Curve
      /\ TempOf(First) < TempOf(Last)
  BY CurveSpan DEF OnLine, Degrees
<1>2. \A x, y \in Degrees : x <= y => levels[x] <= levels[y]
  <2>1. \A x \in Degrees : x \in Int
    BY DEF Degrees
  <2>2. \A x, y \in Int : x <= y => Line(x) <= Line(y)
    BY <1>1, LineRises
  <2>3. QED
    BY <2>1, <2>2, OnLineFacts
<1>3. \A x \in Degrees : x \in Int /\ levels[x] \in Int
  BY OnLineFacts DEF Degrees
<1>4. CASE t \in Interior /\ u \in Interior
  <2>1. /\ Plateau(t) \in 0..cfg.steps - 1 /\ Plateau(u) \in 0..cfg.steps - 1
        /\ Together(t) = Borders[Plateau(t)] .. Borders[Plateau(t) + 1] - 1
        /\ Together(u) = Borders[Plateau(u)] .. Borders[Plateau(u) + 1] - 1
        /\ t \in Together(t) /\ u \in Together(u)
        /\ Together(t) \subseteq Degrees /\ Together(u) \subseteq Degrees
    BY <1>1, <1>4, PlateauFound, OnLineFacts
  <2>2. cfg.steps \in Nat /\ Rises(Borders, cfg.steps)
    BY <1>1, BorderFacts
  <2>3. /\ Plateau(t) \in 0..cfg.steps /\ Plateau(t) + 1 \in 0..cfg.steps
        /\ Plateau(u) \in 0..cfg.steps /\ Plateau(u) + 1 \in 0..cfg.steps
    BY <2>1, <2>2
  <2>4. /\ Borders[Plateau(t)] \in Int /\ Borders[Plateau(t) + 1] \in Int
        /\ Borders[Plateau(u)] \in Int /\ Borders[Plateau(u) + 1] \in Int
    BY <2>2, <2>3 DEF Rises
  <2>5. Plateau(t) <= Plateau(u)
    <3>1. Borders[Plateau(t)] <= t /\ u < Borders[Plateau(u) + 1]
      BY <1>1, <2>1, <2>4
    <3>2. QED
      BY <1>1, <2>1, <2>2, <3>1, InOrder
  <2>6. CASE Plateau(t) = Plateau(u)
    <3>1. Together(t) = Together(u)
      BY <2>1, <2>6
    <3>2. Flat(t) = Flat(u)
      BY <1>4, <3>1 DEF Flat
    <3>3. Flat(u) \in Int
      BY FlatTyped DEF Levels
    <3>4. QED
      BY <3>2, <3>3
  <2>7. CASE Plateau(t) < Plateau(u)
    <3> DEFINE last == Borders[Plateau(t) + 1] - 1
    <3>1. Borders[Plateau(t) + 1] <= Borders[Plateau(u)]
      <4>1. Plateau(t) + 1 <= Plateau(u)
        BY <2>1, <2>7
      <4>2. QED
        BY <2>2, <2>3, <4>1, Climbing
    <3>2. last \in Together(t) /\ last \in Degrees
      BY <1>1, <2>1, <2>4, SMTT(30)
    <3>3. \A x \in Together(t) : 0 <= levels[x] /\ levels[x] <= levels[last]
      <4>1. \A x \in Together(t) : x \in Degrees /\ x <= last
        BY <2>1, <2>4, SMTT(30)
      <4>2. QED
        BY <1>2, <3>2, <4>1, OnLineFacts
    <3>4. \A x \in Together(u) : levels[last] <= levels[x] /\ levels[x] <= 100
      <4>1. \A x \in Together(u) : x \in Degrees /\ last <= x
        BY <2>1, <2>4, <3>1, SMTT(30)
      <4>2. QED
        BY <1>2, <3>2, <4>1, OnLineFacts
    <3>5. levels[last] \in Int
      BY <1>3, <3>2
    <3> HIDE DEF last
    <3>6. Flat(t) <= levels[last] /\ Flat(t) \in Int
      BY <1>4, <3>3, <3>5, FlatBetween
    <3>7. levels[last] <= Flat(u) /\ Flat(u) \in Int
      BY <1>4, <3>4, <3>5, FlatBetween
    <3>8. QED
      BY <3>5, <3>6, <3>7
  <2>8. QED
    BY <2>1, <2>5, <2>6, <2>7
<1>5. CASE t \notin Interior /\ u \notin Interior
  BY <1>2, <1>5 DEF Flat
<1>6. CASE t \in Interior /\ u \notin Interior
  <2>1. \A x \in Together(t) : x \in Degrees /\ x <= u
    <3>1. u >= TempOf(Last)
      BY <1>1, <1>6 DEF Interior
    <3>2. Together(t) \subseteq Interior /\ Interior \subseteq Degrees
      BY <1>1, <1>6, PlateauFound, OnLineFacts
    <3>3. QED
      BY <1>1, <3>1, <3>2 DEF Interior
  <2>2. \A x \in Together(t) : 0 <= levels[x] /\ levels[x] <= levels[u]
    BY <1>2, <2>1, OnLineFacts
  <2>3. Flat(t) <= levels[u]
    BY <1>3, <1>6, <2>2, FlatBetween
  <2>4. QED
    BY <1>6, <2>3 DEF Flat
<1>7. CASE t \notin Interior /\ u \in Interior
  <2>1. \A x \in Together(u) : x \in Degrees /\ t <= x
    <3>1. t <= TempOf(First)
      BY <1>1, <1>7 DEF Interior
    <3>2. Together(u) \subseteq Interior /\ Interior \subseteq Degrees
      BY <1>1, <1>7, PlateauFound, OnLineFacts
    <3>3. QED
      BY <1>1, <3>1, <3>2 DEF Interior
  <2>2. \A x \in Together(u) : levels[t] <= levels[x] /\ levels[x] <= 100
    BY <1>2, <2>1, OnLineFacts
  <2>3. levels[t] <= Flat(u)
    BY <1>3, <1>7, <2>2, FlatBetween
  <2>4. QED
    BY <1>7, <2>3 DEF Flat
<1>8. QED
  BY <1>4, <1>5, <1>6, <1>7

\* The average is reached or passed in both directions within a plateau.
LEMMA FlatNear ==
  ASSUME OnLine, NEW t \in Interior
  PROVE  /\ \E s \in Degrees \cap (t - Base .. t + Base) : Line(s) <= Flat(t)
         /\ \E s \in Degrees \cap (t - Base .. t + Base) : Flat(t) <= Line(s)
<1>1. /\ Together(t) \subseteq Degrees \cap (t - Base .. t + Base)
      /\ \A x \in Together(t) : levels[x] = Line(x) /\ levels[x] \in Int /\ 0 <= levels[x] /\ levels[x] <= 100
  BY PlateauFound, OnLineFacts DEF OnLine
<1>2. Flat(t) \in Int
  <2>1. t \in Degrees
    BY OnLineFacts
  <2>2. QED
    BY <2>1, FlatTyped DEF Levels
<1>3. \E s \in Together(t) : levels[s] <= Flat(t)
  <2> SUFFICES ASSUME \A s \in Together(t) : ~(levels[s] <= Flat(t)) PROVE FALSE
    OBVIOUS
  <2>1. \A s \in Together(t) : Flat(t) + 1 <= levels[s] /\ levels[s] <= 100
    BY <1>1, <1>2
  <2>2. Flat(t) + 1 <= Flat(t)
    BY <1>2, <2>1, FlatBetween
  <2>3. QED
    BY <1>2, <2>2
<1>4. \E s \in Together(t) : Flat(t) <= levels[s]
  <2> SUFFICES ASSUME \A s \in Together(t) : ~(Flat(t) <= levels[s]) PROVE FALSE
    OBVIOUS
  <2>1. \A s \in Together(t) : 0 <= levels[s] /\ levels[s] <= Flat(t) - 1
    BY <1>1, <1>2
  <2>2. Flat(t) <= Flat(t) - 1
    BY <1>2, <2>1, FlatBetween
  <2>3. QED
    BY <1>2, <2>2
<1>5. QED
  BY <1>1, <1>3, <1>4

-----------------------------------------------------------------------------
(* Zones with two controllers.                                             *)

LEMMA ImageFinite ==
  ASSUME NEW S, NEW T, IsFiniteSet(S), NEW f, DOMAIN f = S, T = {f[x] : x \in S}
  PROVE  IsFiniteSet(T)
<1> DEFINE g == [x \in S |-> f[x]]
<1>1. g \in Surjection(S, T)
  BY DEF Surjection
<1>2. QED
  BY <1>1, FS_Surjection

LEMMA PairCounts ==
  ASSUME NEW a, NEW b, a # b, NEW S, S = {a, b}
  PROVE  Cardinality(S) = 2
<1> DEFINE T == {a}
<1>1. IsFiniteSet(T) /\ Cardinality(T) = 1 /\ b \notin T
  BY FS_Singleton
<1>2. S = T \cup {b}
  OBVIOUS
<1> HIDE DEF T
<1>3. Cardinality(S) = Cardinality(T) + 1
  BY <1>1, <1>2, FS_AddElement
<1>4. QED
  BY <1>1, <1>3

LEMMA EntriesFinite ==
  ASSUME file \in Files, NEW z PROVE IsFiniteSet(Entries(z))
<1> DEFINE Of(s) == {j \in DOMAIN s.zones : s.zones[j] = z}
           Pairs(s) == {<<s, i>> : i \in Of(s)}
<1>1. IsFiniteSet(Enabled)
  <2>1. Enabled \subseteq file.sections /\ IsFiniteSet(file.sections)
    BY FilesAssumption DEF Enabled, Known
  <2>2. QED
    BY <2>1, FS_Subset
<1>2. \A s \in Enabled : IsFiniteSet(Pairs(s))
  <2> SUFFICES ASSUME NEW s \in Enabled PROVE IsFiniteSet(Pairs(s))
    OBVIOUS
  <2>1. s.zones \in Seq(Int)
    BY FilesAssumption DEF Enabled, Known
  <2>2. DOMAIN s.zones = 1..Len(s.zones) /\ Len(s.zones) \in Nat
    BY <2>1
  <2>3. IsFiniteSet(DOMAIN s.zones)
    <3>1. IsFiniteSet(1..Len(s.zones))
      BY <2>2, FS_Interval
    <3>2. QED
      BY <2>2, <3>1
  <2>4. IsFiniteSet(Of(s))
    BY <2>3, FS_Subset
  <2> DEFINE f == [i \in Of(s) |-> <<s, i>>]
  <2>5. DOMAIN f = Of(s) /\ Pairs(s) = {f[x] : x \in Of(s)}
    OBVIOUS
  <2> HIDE DEF f, Of, Pairs
  <2>6. QED
    BY <2>4, <2>5, ImageFinite
<1>3. IsFiniteSet({Pairs(s) : s \in Enabled})
  <2> DEFINE f == [s \in Enabled |-> Pairs(s)]
  <2>1. DOMAIN f = Enabled /\ {Pairs(s) : s \in Enabled} = {f[x] : x \in Enabled}
    OBVIOUS
  <2> HIDE DEF f
  <2>2. QED
    BY <1>1, <2>1, ImageFinite
<1>4. IsFiniteSet(UNION {Pairs(s) : s \in Enabled})
  BY <1>2, <1>3, FS_UNION
<1>5. QED
  BY <1>4 DEF Entries

\* Two sections that name a zone are both deferred, wherever in their lists it is.
LEMMA SharersDeferred ==
  ASSUME file \in Files, NEW s \in Enabled, NEW t \in Enabled, s # t,
         NEW z \in ZonesIn(s) \cap ZonesIn(t)
  PROVE  Deferred(s) /\ Deferred(t)
<1>1. PICK i \in DOMAIN s.zones, j \in DOMAIN t.zones : s.zones[i] = z /\ t.zones[j] = z
  BY DEF ZonesIn
<1>2. <<s, i>> \in Entries(z) /\ <<t, j>> \in Entries(z) /\ <<s, i>> # <<t, j>>
  BY <1>1 DEF Entries
<1>3. Cardinality({<<s, i>>, <<t, j>>}) = 2
  BY <1>2, PairCounts
<1>4. Cardinality(Entries(z)) >= 2 /\ Cardinality(Entries(z)) \in Nat
  <2>1. {<<s, i>>, <<t, j>>} \subseteq Entries(z)
    BY <1>2
  <2>2. Cardinality({<<s, i>>, <<t, j>>}) <= Cardinality(Entries(z))
    BY <2>1, EntriesFinite, FS_Subset
  <2>3. QED
    BY <1>3, <2>2, EntriesFinite, FS_CardinalityType
<1>5. z \in Shared
  BY <1>4 DEF Shared
<1>6. QED
  BY <1>5 DEF Deferred

-----------------------------------------------------------------------------
(* The invariant.                                                          *)

\* A controller is constructed for a section that has passed the checks.
LEMMA SectionShape ==
  ASSUME Checked, Building, pc \in {"building", "line", "ready"}
  PROVE  IF cfg.points = <<>> THEN Stairs ELSE Curve
<1>1. cfg \in Known /\ cfg \in file.sections /\ file \in Files /\ cfg.kind # "CONST"
  BY DEF Checked, Building, Enabled, Known
<1>2. cfg.steps > 0 /\ ValidCurve(cfg)
  BY <1>1 DEF Checked, ValidSection, ValidFan
<1>3. /\ cfg.points \in Seq(Int \X Int)
      /\ cfg.steps \in Int /\ cfg.minTemp \in Int /\ cfg.maxTemp \in Int
      /\ cfg.minLevel \in Int /\ cfg.maxLevel \in Int
  BY <1>1, FilesAssumption
<1>4. QED
  BY <1>2, <1>3 DEF ValidCurve, Stairs, Curve

LEMMA CheckKeeps == TableInv /\ Check => TableInv'
<1> SUFFICES ASSUME TableInv, Check PROVE TableInv'
  OBVIOUS
<1>1. /\ pc = "parsed" /\ pc' \in {"accepted", "rejected"} /\ UNCHANGED <<cfg, levels, file>>
      /\ pc' = "accepted" => NoDuplicateZones /\ \A s \in Known : ValidSection(s)
  BY DEF Check
<1>2. Enabled' = Enabled /\ Known' = Known
  BY <1>1 DEF Enabled, Known
<1>3. TypeOK'
  BY <1>1, <1>2 DEF TableInv, TypeOK
<1>4. Checked'
  BY <1>1, <1>2 DEF TableInv, Checked, NoDuplicateZones
<1>5. Building' /\ HotterIsFaster' /\ EndpointsKept' /\ StaysNearCurve'
  BY <1>1 DEF Building, HotterIsFaster, EndpointsKept, StaysNearCurve
<1>6. QED
  BY <1>3, <1>4, <1>5 DEF TableInv

LEMMA ConstructKeeps == TableInv /\ Construct => TableInv'
<1> SUFFICES ASSUME TableInv, Construct PROVE TableInv'
  OBVIOUS
<1>1. /\ pc = "accepted" /\ pc' = "building" /\ UNCHANGED <<levels, file>>
      /\ cfg' \in Enabled /\ cfg'.kind # "CONST"
  BY DEF Construct
<1>2. Enabled' = Enabled /\ Known' = Known
  BY <1>1 DEF Enabled, Known
<1>3. TypeOK'
  BY <1>1, <1>2 DEF TableInv, TypeOK
<1>4. Checked'
  BY <1>1, <1>2 DEF TableInv, Checked, NoDuplicateZones
<1>5. Building' /\ HotterIsFaster' /\ EndpointsKept' /\ StaysNearCurve'
  BY <1>1, <1>2 DEF Building, HotterIsFaster, EndpointsKept, StaysNearCurve
<1>6. QED
  BY <1>3, <1>4, <1>5 DEF TableInv

\* A step that builds leaves the section and the file alone.
LEMMA BuildFrame ==
  ASSUME TableInv, pc \in {"building", "line"}, pc' \in {"line", "ready"}, UNCHANGED <<cfg, file>>,
         levels' \in [Degrees -> Levels]
  PROVE  /\ TypeOK' /\ Checked'
         /\ pc' = "ready" => Building'
         /\ Rising' <=> Rising
<1>1. Enabled' = Enabled /\ Known' = Known
  BY DEF Enabled, Known
<1>2. TypeOK'
  BY <1>1 DEF TableInv, TypeOK
<1>3. Checked'
  BY <1>1 DEF TableInv, Checked, NoDuplicateZones
<1>4. pc' = "ready" => Building'
  BY <1>1 DEF TableInv, Building
<1>5. Rising' <=> Rising
  BY DEF Rising
<1>6. QED
  BY <1>2, <1>3, <1>4, <1>5

LEMMA BuildLegacyKeeps == TableInv /\ BuildLegacy /\ UNCHANGED file => TableInv'
<1> SUFFICES ASSUME TableInv, BuildLegacy, UNCHANGED file PROVE TableInv'
  OBVIOUS
<1>1. /\ pc = "building" /\ pc' = "ready" /\ cfg.points = <<>> /\ cfg' = cfg
      /\ levels' = [t \in Degrees |-> Staircase(t)]
  BY DEF BuildLegacy
<1>2. Stairs
  BY <1>1, SectionShape DEF TableInv
<1>3. levels' \in [Degrees -> Levels]
  BY <1>1, <1>2, StaircaseTyped
<1>4. TypeOK' /\ Checked' /\ Building'
  BY <1>1, <1>3, BuildFrame
<1>5. HotterIsFaster'
  <2> SUFFICES ASSUME NEW t \in 1..100 PROVE levels'[t - 1] <= levels'[t]
    BY DEF HotterIsFaster
  <2>1. t - 1 \in Degrees /\ t \in Degrees /\ t - 1 <= t
    BY DEF Degrees
  <2>2. QED
    BY <1>1, <1>2, <2>1, StaircaseRises
<1>6. EndpointsKept'
  BY <1>1, <1>2, StaircaseOffRamp DEF EndpointsKept
<1>7. StaysNearCurve'
  <2> SUFFICES ASSUME NEW t \in Degrees, cfg.minTemp < t, t < cfg.maxTemp PROVE Near(t)'
    BY <1>1 DEF StaysNearCurve
  <2>1. QED
    BY <1>1, <1>2, StaircaseNear DEF Near, Ramp
<1>8. QED
  BY <1>4, <1>5, <1>6, <1>7 DEF TableInv

LEMMA BuildLineKeeps == TableInv /\ BuildLine /\ UNCHANGED file => TableInv'
<1> SUFFICES ASSUME TableInv, BuildLine, UNCHANGED file PROVE TableInv'
  OBVIOUS
<1>1. /\ pc = "building" /\ pc' = "line" /\ cfg.points # <<>> /\ cfg' = cfg
      /\ levels' = [t \in Degrees |-> Line(t)]
  BY DEF BuildLine
<1>2. Curve
  BY <1>1, SectionShape DEF TableInv
<1>3. levels' \in [Degrees -> Levels]
  <2>1. \A t \in Degrees : t \in Int
    BY DEF Degrees
  <2>2. QED
    BY <1>1, <1>2, <2>1, LineTyped
<1>4. TypeOK' /\ Checked'
  BY <1>1, <1>3, BuildFrame
<1>5. Building'
  <2>1. \A t \in Degrees : Line(t)' = Line(t)
    BY <1>1 DEF Line, First, Last, Segment
  <2>2. Enabled' = Enabled
    BY DEF Enabled, Known
  <2>3. QED
    BY <1>1, <2>1, <2>2 DEF TableInv, Building
<1>6. HotterIsFaster' /\ EndpointsKept' /\ StaysNearCurve'
  BY <1>1 DEF HotterIsFaster, EndpointsKept, StaysNearCurve
<1>7. QED
  BY <1>4, <1>5, <1>6 DEF TableInv

LEMMA DigitalizeKeeps == TableInv /\ Digitalize /\ UNCHANGED file => TableInv'
<1> SUFFICES ASSUME TableInv, Digitalize, UNCHANGED file PROVE TableInv'
  OBVIOUS
<1>1. /\ pc = "line" /\ pc' = "ready" /\ cfg' = cfg
      /\ levels' = [t \in Degrees |-> Flat(t)]
  BY DEF Digitalize, Flat, Together
<1>2. OnLine /\ cfg.points # <<>>
  BY <1>1, SectionShape DEF TableInv, Building, OnLine
<1>3. levels' \in [Degrees -> Levels]
  BY <1>1, <1>2, FlatTyped
<1>4. TypeOK' /\ Checked' /\ Building' /\ (Rising' <=> Rising)
  BY <1>1, <1>3, BuildFrame
<1>5. HotterIsFaster'
  <2> SUFFICES ASSUME Rising, NEW t \in 1..100 PROVE levels'[t - 1] <= levels'[t]
    BY <1>4 DEF HotterIsFaster
  <2>1. t - 1 \in Degrees /\ t \in Degrees /\ t - 1 <= t
    BY DEF Degrees
  <2>2. QED
    BY <1>1, <1>2, <2>1, FlatRises
<1>6. EndpointsKept'
  BY <1>1, <1>2, FlatEnds DEF EndpointsKept, First, Last
<1>7. StaysNearCurve'
  <2>1. Interior' = Interior /\ Base' = Base
    BY <1>1 DEF Interior, Base, Width, First, Last
  <2>2. \A s : Line(s)' = Line(s)
    BY <1>1 DEF Line, First, Last, Segment
  <2> SUFFICES ASSUME NEW t \in Degrees, t \in Interior PROVE Near(t)'
    BY <1>1, <1>2, <2>1 DEF StaysNearCurve
  <2>3. QED
    BY <1>1, <1>2, <2>1, <2>2, FlatNear DEF Near
<1>8. QED
  BY <1>4, <1>5, <1>6, <1>7 DEF TableInv

LEMMA TableInvariant == Spec => []TableInv
<1>1. Init => TableInv
  BY DEF Init, TableInv, TypeOK, Checked, Building, HotterIsFaster, EndpointsKept, StaysNearCurve, Levels
<1>2. TableInv /\ [Next]_vars => TableInv'
  <2> SUFFICES ASSUME TableInv, [Next]_vars PROVE TableInv'
    OBVIOUS
  <2>1. CASE Next
    BY <2>1, CheckKeeps, ConstructKeeps, BuildLegacyKeeps, BuildLineKeeps, DigitalizeKeeps DEF Next, Build
  <2>2. CASE UNCHANGED vars
    <3>1. /\ Enabled' = Enabled /\ Known' = Known /\ First' = First /\ Last' = Last
          /\ pc' = pc /\ cfg' = cfg /\ levels' = levels /\ file' = file
      BY <2>2 DEF vars, Enabled, Known, First, Last
    <3>2. TypeOK' /\ Checked'
      BY <3>1 DEF TableInv, TypeOK, Checked, NoDuplicateZones
    <3>3. \A t : Line(t)' = Line(t)
      BY <3>1 DEF Line, Segment
    <3>4. Building'
      BY <3>1, <3>3 DEF TableInv, Building
    <3>5. HotterIsFaster' /\ EndpointsKept'
      BY <3>1 DEF TableInv, HotterIsFaster, EndpointsKept, Rising
    <3>6. StaysNearCurve'
      <4>1. Interior' = Interior /\ Base' = Base
        BY <3>1 DEF Interior, Base, Width
      <4>2. \A t : Near(t)' <=> Near(t)
        BY <3>1, <3>3, <4>1 DEF Near
      <4>3. QED
        BY <3>1, <4>1, <4>2 DEF TableInv, StaysNearCurve
    <3>7. QED
      BY <3>2, <3>4, <3>5, <3>6 DEF TableInv
  <2>3. QED
    BY <2>1, <2>2
<1>3. QED
  BY <1>1, <1>2, PTL DEF Spec

-----------------------------------------------------------------------------
(* What the tables promise.                                                *)

\* The table of every controller has a level from 0 to 100 at every degree from 0 to
\* 100: what run() looks up (fancontroller.py), for every accepted file.
THEOREM TablesTyped == Spec => []TypeOK
<1>1. TableInv => TypeOK
  BY DEF TableInv
<1>2. QED
  BY <1>1, TableInvariant, PTL

\* Every level of every table is accepted by every platform and read back as it was
\* written.
THEOREM TablesReadBack == Spec => []LevelsReadBack
<1>1. TypeOK => LevelsReadBack
  BY EveryLevelReadsBack DEF TypeOK, LevelsReadBack
<1>2. QED
  BY <1>1, TablesTyped, PTL

\* A hotter device never gets a slower fan: for every accepted legacy section and every
\* rising curve, through the double rounding of create_legacy_lut and through the line,
\* the plateaus and their averages of create_control_function.
THEOREM TablesRise == Spec => []HotterIsFaster
<1>1. TableInv => HotterIsFaster
  BY DEF TableInv
<1>2. QED
  BY <1>1, TableInvariant, PTL

\* Below the first and above the last temperature the table has the levels given there,
\* whatever is averaged in between.
THEOREM TablesKeepEndpoints == Spec => []EndpointsKept
<1>1. TableInv => EndpointsKept
  BY DEF TableInv
<1>2. QED
  BY <1>1, TableInvariant, PTL

\* Two roundings keep the staircase within half a step and half a level of the straight
\* line, and an average is a level the curve takes within one plateau's width.
THEOREM TablesStayNear == Spec => []StaysNearCurve
<1>1. TableInv => StaysNearCurve
  BY DEF TableInv
<1>2. QED
  BY <1>1, TableInvariant, PTL

\* A zone two controllers of an accepted file name is left to the arbiter by both, and
\* they are of different kinds; for every file, however long its lists are.
THEOREM OneDriver == Spec => []OneDriverPerZone
<1>1. TableInv => OneDriverPerZone
  BY SharersDeferred DEF TableInv, Checked, NoDuplicateZones, OneDriverPerZone
<1>2. QED
  BY <1>1, TableInvariant, PTL
=============================================================================
