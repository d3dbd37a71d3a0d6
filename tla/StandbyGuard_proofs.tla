------------------------- MODULE StandbyGuard_proofs -------------------------
(***************************************************************************)
(* Proofs about StandbyGuard, for every size of the array and every limit. *)
(***************************************************************************)
EXTENDS StandbyGuard, FiniteSetTheorems, TLAPS

USE SizeAssumption, BoundAssumption DEF Disks, guardVars

LEMMA DisksFinite == IsFiniteSet(Disks) /\ Cardinality(Disks) = Count
<1>1. IsFiniteSet(1..Count) /\ Cardinality(1..Count) = Count
  BY FS_Interval
<1>2. QED
  BY <1>1

LEMMA SubsetCounts ==
  ASSUME NEW S \in SUBSET Disks, NEW R \in SUBSET S
  PROVE  /\ Cardinality(S) \in Nat /\ Cardinality(R) \in Nat
         /\ Cardinality(R) <= Cardinality(S)
         /\ Cardinality(S) = Count => S = Disks
<1>1. IsFiniteSet(S) /\ Cardinality(S) \in Nat /\ (Cardinality(S) = Count => S = Disks)
  BY DisksFinite, FS_Subset, FS_CardinalityType
<1>2. IsFiniteSet(R) /\ Cardinality(R) <= Cardinality(S)
  BY <1>1, FS_Subset
<1>3. QED
  BY <1>1, <1>2, FS_CardinalityType

LEMMA InitGuard == Init => GuardInv
<1> SUFFICES ASSUME Init PROVE GuardInv
  OBVIOUS
<1>1. flag = FALSE /\ built = FALSE
  BY DEF Init
<1>2. flag \in BOOLEAN /\ built \in BOOLEAN
  BY <1>1
<1>3. states \in [Disks -> BOOLEAN]
  BY DEF Init
<1>4. TypeOK
  BY <1>2, <1>3 DEF Init, TypeOK
<1>5. Answers /\ Parking
  BY <1>1 DEF Init, Answers, Parking
<1>6. Dated
  BY DEF Init, Dated
<1>7. QED
  BY <1>4, <1>5, <1>6 DEF GuardInv

LEMMA DisksStep ==
  ASSUME GuardInv, NEW d \in Disks, SpinDown(d) \/ WakeUp(d) PROVE GuardInv'
<1>1. /\ UNCHANGED <<guardVars, glitches>>
      /\ sleepers \subseteq sleepers' /\ sleepers' \in SUBSET Disks
      /\ spunDown' \in SUBSET Disks /\ spunDown' \subseteq spunDown \cup sleepers'
      /\ moves' \in 0..MaxMoves
      /\ since' \in [Disks -> 0..2]
      /\ \A e \in Disks : since'[e] = since[e] \/ since'[e] = 0
      /\ \A e \in Disks : e \in spunDown' \/ e \in sleepers' => since'[e] = 0
  <2>1. /\ spunDown \in SUBSET Disks /\ sleepers \in SUBSET Disks /\ moves \in 0..MaxMoves
        /\ since \in [Disks -> 0..2]
        /\ \A e \in Disks : e \in spunDown \/ e \in sleepers => since[e] = 0
    BY DEF GuardInv, TypeOK, Dated
  <2>2. CASE SpinDown(d)
    BY <2>1, <2>2 DEF SpinDown
  <2>3. CASE WakeUp(d)
    BY <2>1, <2>3 DEF WakeUp
  <2>4. QED
    BY <2>2, <2>3
<1>2. TypeOK'
  BY <1>1 DEF GuardInv, TypeOK
<1>3. Answers'
  BY <1>1 DEF GuardInv, Answers
<1>4. Cardinality(sleepers) <= Cardinality(sleepers')
      /\ Cardinality(sleepers) \in Nat /\ Cardinality(sleepers') \in Nat
  BY <1>1, SubsetCounts
<1>5. Parking'
  BY <1>1, <1>4 DEF GuardInv, Parking, InStandby
<1>6. Dated'
  BY <1>1 DEF GuardInv, TypeOK, Dated
<1>7. QED
  BY <1>2, <1>3, <1>5, <1>6 DEF GuardInv

LEMMA PollStep == ASSUME GuardInv, Poll PROVE GuardInv'
<1>1. /\ since' \in [Disks -> 0..2]
      /\ \A d \in Disks : /\ d \in spunDown => since'[d] = 0
                          /\ since[d] = 0 => since'[d] <= 1
  BY DEF Poll, Older, GuardInv, TypeOK
<1>2. TypeOK'
  BY <1>1 DEF Poll, GuardInv, TypeOK
<1>3. Answers' /\ Parking'
  BY DEF Poll, GuardInv, TypeOK, Answers, Parking
<1>4. Dated'
  BY <1>1 DEF Poll, GuardInv, TypeOK, Dated
<1>5. QED
  BY <1>2, <1>3, <1>4 DEF GuardInv

LEMMA AskStep == ASSUME GuardInv, Ask PROVE GuardInv'
<1>1. /\ pc = "check" /\ pc' = "answer" /\ disk \in Disks
      /\ states' = [states EXCEPT ![disk] = FALSE]
      /\ UNCHANGED <<disk, built, flag, spunDown, moves, glitches, sleepers, since>>
  BY DEF Ask, GuardInv, TypeOK
<1>2. states' \in [Disks -> BOOLEAN] /\ ~states'[disk]
      /\ \A d \in Disks : d # disk => states'[d] = states[d]
  BY <1>1 DEF GuardInv, TypeOK
<1>3. TypeOK'
  BY <1>1, <1>2 DEF GuardInv, TypeOK
<1>4. Answers'
  BY <1>1, <1>2 DEF GuardInv, Answers
<1>5. Parking'
  BY <1>1 DEF Parking
<1>6. Dated'
  BY <1>1, <1>2 DEF GuardInv, TypeOK, Dated
<1>7. QED
  BY <1>3, <1>4, <1>5, <1>6 DEF GuardInv

LEMMA AnswerStep == ASSUME GuardInv, Answer PROVE GuardInv'
<1>1. /\ pc = "answer" /\ pc' = "check" /\ disk \in Disks /\ disk' = disk + 1
      /\ glitches' \in 0..MaxGlitches
      /\ UNCHANGED <<built, flag, spunDown, moves, sleepers, since>>
  BY DEF Answer, Glitch, GuardInv, TypeOK, Answers
<1>2. states' \in [Disks -> BOOLEAN]
  <2>1. (states[disk] \/ disk \in spunDown) \in BOOLEAN
    OBVIOUS
  <2>2. QED
    BY <2>1 DEF Answer, GuardInv, TypeOK
<1>3. \A d \in Disks : d # disk => states'[d] = states[d]
  BY <1>1 DEF Answer, GuardInv, TypeOK
<1>4. states'[disk] => disk \in sleepers
  <2>1. CASE states' = states
    BY <1>1, <2>1 DEF GuardInv, Answers
  <2>2. CASE states' = [states EXCEPT ![disk] = @ \/ disk \in spunDown]
    <3>1. states'[disk] = (states[disk] \/ disk \in spunDown)
      BY <1>1, <2>2 DEF GuardInv, TypeOK
    <3>2. QED
      BY <1>1, <3>1 DEF GuardInv, Answers
  <2>3. QED
    BY <2>1, <2>2 DEF Answer
<1>5. TypeOK'
  BY <1>1, <1>2 DEF GuardInv, TypeOK
<1>6. Answers'
  <2>1. spunDown \subseteq sleepers /\ \A d \in Disks : d < disk /\ states[d] => d \in sleepers
    BY <1>1 DEF GuardInv, Answers
  <2>2. \A d \in Disks : d < disk' /\ states'[d] => d \in sleepers'
    BY <1>1, <1>3, <1>4, <2>1
  <2>3. QED
    BY <1>1, <2>1, <2>2 DEF Answers
<1>7. Parking'
  BY <1>1 DEF Parking
<1>8. Dated'
  <2>1. /\ \A d \in Disks : d \in spunDown \/ d \in sleepers => since[d] = 0
        /\ \A d \in Disks : states[d] => since[d] <= 1
        /\ \A d \in Disks : states[d] /\ d < disk => since[d] = 0
    BY <1>1 DEF GuardInv, Dated
  <2>2. \A d \in Disks : states'[d] => since[d] <= 1
    BY <1>1, <1>3, <1>4, <2>1
  <2>3. \A d \in Disks : states'[d] /\ d < disk' => since[d] = 0
    BY <1>1, <1>3, <1>4, <2>1
  <2>4. QED
    BY <1>1, <2>1, <2>2, <2>3 DEF Dated
<1>9. QED
  BY <1>5, <1>6, <1>7, <1>8 DEF GuardInv

LEMMA FirstCountStep == ASSUME GuardInv, FirstCount PROVE GuardInv'
<1>1. flag' \in BOOLEAN /\ built' \in BOOLEAN
  BY DEF FirstCount
<1>2. /\ pc = "check" /\ disk > Count
      /\ pc' = "idle" /\ (flag' => InStandby = Disks)
      /\ UNCHANGED <<disk, states, spunDown, moves, glitches, sleepers, since>>
  BY DEF FirstCount, Counted
<1>3. TypeOK'
  BY <1>1, <1>2 DEF GuardInv, TypeOK
<1>4. Answers'
  BY <1>2 DEF Answers
<1>5. Parking'
  BY <1>2 DEF Parking, InStandby
<1>6. Dated'
  BY <1>2 DEF GuardInv, TypeOK, Dated
<1>7. QED
  BY <1>3, <1>4, <1>5, <1>6 DEF GuardInv

\* The disks found in standby slept in this poll, so enough of them did.
LEMMA DecideStep == ASSUME GuardInv, Decide PROVE GuardInv'
<1>1. /\ pc = "check" /\ disk > Count /\ disk' \in 1..Count + 1
      /\ UNCHANGED <<built, states, spunDown, moves, glitches, sleepers, since>>
  BY DEF Decide, Counted, GuardInv, TypeOK
<1>2. InStandby \subseteq sleepers /\ sleepers \in SUBSET Disks
  BY <1>1 DEF GuardInv, TypeOK, Answers, InStandby
<1>3. /\ Cardinality(sleepers) \in Nat /\ Cardinality(InStandby) \in Nat
      /\ Cardinality(InStandby) <= Cardinality(sleepers)
      /\ Cardinality(InStandby) = Count => InStandby = Disks
  BY <1>2, SubsetCounts
<1>4. /\ flag' \in BOOLEAN
      /\ pc' \in {"park", "idle"}
      /\ Dated'
  <2>1. flag' \in BOOLEAN /\ pc' \in {"park", "idle"}
    BY DEF Decide, GuardInv, TypeOK
  <2>2. QED
    BY <1>1, <2>1 DEF GuardInv, TypeOK, Dated
<1>5. CASE pc' = "park" /\ disk' = 1 /\ Cardinality(InStandby) >= Limit
  <2>1. Cardinality(sleepers') >= Limit
    BY <1>1, <1>3, <1>5
  <2>2. \A d \in Disks : ~(d < disk')
    BY <1>5
  <2>3. TypeOK'
    BY <1>1, <1>4, <1>5 DEF GuardInv, TypeOK
  <2>4. QED
    BY <1>4, <1>5, <2>1, <2>2, <2>3 DEF GuardInv, Answers, Parking
<1>6. CASE pc' = "idle" /\ (flag' => Cardinality(InStandby) = Count)
  <2>1. TypeOK'
    BY <1>1, <1>4, <1>6 DEF GuardInv, TypeOK
  <2>2. flag' => InStandby' = Disks
    BY <1>1, <1>3, <1>6 DEF InStandby
  <2>3. QED
    BY <1>4, <1>6, <2>1, <2>2 DEF GuardInv, Answers, Parking
<1>7. QED
  BY <1>5, <1>6 DEF Decide

LEMMA ParkStep == ASSUME GuardInv, Park PROVE GuardInv'
<1>1. /\ pc = "park" /\ pc' = pc /\ disk \in Disks /\ disk' = disk + 1
      /\ UNCHANGED <<built, flag, moves, sleepers>>
  BY DEF Park, GuardInv, TypeOK
<1>2. spunDown' \in SUBSET Disks /\ glitches' \in 0..MaxGlitches
  <2>1. spunDown \in SUBSET Disks /\ glitches \in 0..MaxGlitches
    BY DEF GuardInv, TypeOK
  <2>2. CASE UNCHANGED <<spunDown, glitches>>
    BY <2>1, <2>2
  <2>3. CASE spunDown' = spunDown \cup {disk} /\ UNCHANGED glitches
    BY <1>1, <2>1, <2>3
  <2>4. CASE Glitch /\ UNCHANGED spunDown
    BY <2>1, <2>4 DEF Glitch
  <2>5. QED
    BY <2>2, <2>3, <2>4 DEF Park
<1>3. /\ states' \in [Disks -> BOOLEAN] /\ states'[disk]
      /\ \A d \in Disks : d # disk => states'[d] = states[d]
  BY <1>1 DEF Park, GuardInv, TypeOK
<1>4. TypeOK' /\ Dated'
  <2>1. CASE states[disk] /\ UNCHANGED <<states, spunDown, since>>
    BY <1>1, <1>2, <1>3, <2>1 DEF GuardInv, TypeOK, Dated
  <2>2. CASE since' = [since EXCEPT ![disk] = 0]
    <3>1. /\ since' \in [Disks -> 0..2] /\ since'[disk] = 0
          /\ \A d \in Disks : d # disk => since'[d] = since[d]
      BY <1>1, <2>2 DEF GuardInv, TypeOK
    <3>2. spunDown' \subseteq spunDown \cup {disk}
      BY DEF Park
    <3>3. QED
      BY <1>1, <1>2, <1>3, <3>1, <3>2 DEF GuardInv, TypeOK, Dated
  <2>3. QED
    BY <2>1, <2>2 DEF Park
<1>5. Parking'
  <2>1. Cardinality(sleepers) >= Limit /\ \A d \in Disks : d < disk => states[d]
    BY <1>1 DEF GuardInv, Parking
  <2>2. \A d \in Disks : d < disk' => states'[d]
    BY <1>1, <1>3, <2>1
  <2>3. QED
    BY <1>1, <2>1, <2>2 DEF Parking
<1>6. QED
  BY <1>1, <1>4, <1>5 DEF GuardInv, Answers

LEMMA ParkedStep == ASSUME GuardInv, Parked PROVE GuardInv'
<1>1. /\ pc = "park" /\ pc' = "idle" /\ disk > Count /\ disk \in 1..Count + 1
      /\ UNCHANGED <<disk, built, states, spunDown, moves, glitches, sleepers, since>>
  BY DEF Parked, GuardInv, TypeOK
<1>2. flag' \in BOOLEAN
  BY DEF Parked
<1>3. TypeOK'
  BY <1>1, <1>2 DEF GuardInv, TypeOK
<1>4. InStandby' = Disks
  BY <1>1 DEF GuardInv, TypeOK, Parking, InStandby
<1>5. Dated'
  BY <1>1 DEF GuardInv, TypeOK, Dated
<1>6. QED
  BY <1>1, <1>3, <1>4, <1>5 DEF GuardInv, Answers, Parking

LEMMA RaiseStep == ASSUME GuardInv, Raise PROVE GuardInv'
<1>1. pc' = "dead"
      /\ UNCHANGED <<disk, built, flag, states, spunDown, moves, glitches, sleepers, since>>
  BY DEF Raise
<1>2. TypeOK'
  BY <1>1 DEF GuardInv, TypeOK
<1>3. Dated'
  BY <1>1 DEF GuardInv, TypeOK, Dated
<1>4. QED
  BY <1>1, <1>2, <1>3 DEF GuardInv, Answers, Parking

LEMMA NextGuard == GuardInv /\ [Next]_vars => GuardInv'
<1> SUFFICES ASSUME GuardInv, [Next]_vars PROVE GuardInv'
  OBVIOUS
<1>1. CASE Guard
  BY <1>1, PollStep, AskStep, AnswerStep, FirstCountStep, DecideStep, ParkStep, ParkedStep, RaiseStep
  DEF Guard
<1>2. CASE \E d \in Disks : SpinDown(d) \/ WakeUp(d)
  BY <1>2, DisksStep
<1>3. CASE UNCHANGED vars
  <2>1. TypeOK'
    BY <1>3 DEF vars, GuardInv, TypeOK
  <2>2. QED
    BY <1>3, <2>1 DEF vars, GuardInv, Answers, Dated, Parking, InStandby
<1>4. QED
  BY <1>1, <1>2, <1>3 DEF Next

\* hdfc.py:222-284: what the states, the flag and the disks of the array have to do
\* with each other, at every point of a poll.
THEOREM GuardInductive == Spec => []GuardInv
<1>1. QED
  BY InitGuard, NextGuard, PTL DEF Spec

\* README 3: the guard never parks an array of which fewer than standby_hd_limit disks
\* were in standby during the poll.
THEOREM AlwaysParksSleepingArray == Spec => []ParksOnlySleepingArray
<1>1. GuardInv => ParksOnlySleepingArray
  BY DEF GuardInv, Parking, ParksOnlySleepingArray
<1>2. QED
  BY <1>1, GuardInductive, PTL

\* snapshot.py:111: whenever the exporter copies the states, a disk they show in standby
\* was there since the poll before began, or was sent there since.
THEOREM ShownStandbyAlwaysRecent == Spec => []ShownStandbyIsRecent
<1>1. GuardInv => ShownStandbyIsRecent
  BY DEF GuardInv, Dated, InStandby, ShownStandbyIsRecent
<1>2. QED
  BY <1>1, GuardInductive, PTL

\* hdfc.py:249-284: between polls standby_flag says that the array is in standby only
\* when all of its states say so.
THEOREM FlagAlwaysAgrees == Spec => []FlagAgreesWithStates
<1>1. GuardInv => FlagAgreesWithStates
  BY DEF GuardInv, Parking, FlagAgreesWithStates
<1>2. QED
  BY <1>1, GuardInductive, PTL
=============================================================================
