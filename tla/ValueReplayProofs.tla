-------------------------- MODULE ValueReplayProofs --------------------------
(***************************************************************************)
(* Proofs about the replay buffer, for every batch size, capacity, refill  *)
(* mark, update budget and number of arrivals the constructor accepts.     *)
(*                                                                         *)
(* None of the invariants is inductive on its own: that an eviction keeps  *)
(* a full batch behind an open gate needs the bound on the size, that a    *)
(* departure is counted once needs the reuse bound, and all of them need   *)
(* the types.  IInv is their conjunction.                                  *)
(***************************************************************************)
EXTENDS ValueReplay, Sums, WellFoundedInduction

IInv ==
    /\ TypeOK
    /\ GateIsConsistent
    /\ CountsInStep
    /\ ReuseIsBounded

\* A nonempty set of entry ids has a least one: OrderedDict has a first item.
LEMMA LeastId ==
    ASSUME NEW S \in SUBSET Nat, S # {}
    PROVE  \E m \in S : \A j \in S : m <= j
<1>1. PICK m \in S : \A y \in S : ~(<<y, m>> \in OpToRel(<, Nat))
  BY NatLessThanWellFounded, WFMin
<1>2. \A y \in S : ~(y < m)
  BY <1>1 DEF OpToRel
<1> QED
  BY <1>2

\* The residents, and any set of ids handed out, are finite.
LEMMA IdsAreFinite ==
    ASSUME TypeOK
    PROVE  /\ nextEntryId \in Nat
           /\ \A S \in SUBSET Issued : IsFiniteSet(S) /\ Cardinality(S) \in Nat
<1>1. nextEntryId \in Nat /\ IsFiniteSet(Issued)
  BY FS_Interval, ReplayAssumption DEF TypeOK, Issued
<1>2. \A S \in SUBSET Issued : IsFiniteSet(S) /\ Cardinality(S) \in Nat
  BY <1>1, FS_Subset, FS_CardinalityType
<1> QED
  BY <1>1, <1>2

\* add() throws out exactly one entry from a full buffer and none otherwise.
LEMMA EvicteesCounted ==
    ASSUME IInv
    PROVE  /\ Evictees \subseteq entries
           /\ Size = Capacity => Cardinality(Evictees) = 1
           /\ Size # Capacity => Cardinality(Evictees) = 0
<1> USE DEF IInv
<1>1. Evictees \subseteq entries
  BY DEF Evictees
<1>2. CASE Size = Capacity
  <2>a. Cardinality(entries) # 0
    BY <1>2, ReplayAssumption DEF Size
  <2>b. entries # {}
    BY <2>a, FS_EmptySet
  <2>c. entries \subseteq Nat
    BY IdsAreFinite DEF TypeOK, Issued
  <2>1. entries # {} /\ entries \subseteq Nat
    BY <2>b, <2>c
  <2>2. PICK m \in entries : \A j \in entries : m <= j
    BY <2>1, LeastId
  <2>3. Evictees = {m}
    <3>1. \A i \in entries : (\A j \in entries : i <= j) => i = m
      BY <2>1, <2>2
    <3> QED
      BY <1>2, <2>2, <3>1 DEF Evictees
  <2> QED
    BY <1>1, <1>2, <2>3, FS_Singleton
<1>3. CASE Size # Capacity
  BY <1>1, <1>3, FS_EmptySet DEF Evictees
<1> QED
  BY <1>2, <1>3

LEMMA InitIInv == Init => IInv
<1> SUFFICES ASSUME Init PROVE IInv
  OBVIOUS
<1>1. Issued = {}
  BY DEF Init, Issued
<1>2. Size = 0 /\ Cardinality({i \in Issued : attempts[i] = MaxUpdates}) = 0
  BY <1>1, FS_EmptySet DEF Init, Size
<1>3. TypeOK
  <2>1. rollout \in [Issued -> Rollouts] /\ attempts \in [Issued -> 0 .. MaxUpdates]
    BY <1>1 DEF Init
  <2>2. nextEntryId \in 0 .. MaxAdmitted
    BY ReplayAssumption DEF Init
  <2> QED
    BY <2>1, <2>2 DEF Init, TypeOK
<1> QED
  BY <1>1, <1>2, <1>3, ReplayAssumption
     DEF Init, IInv, GateIsConsistent, CountsInStep, ReuseIsBounded

\* add() preserves the invariant.
LEMMA AddIInv ==
    ASSUME IInv, NEW r \in Rollouts, Add(r)
    PROVE  IInv'
<1> DEFINE E == Evictees
<1>0. /\ Size = Capacity => Cardinality(E) = 1
      /\ Size # Capacity => Cardinality(E) = 0
  BY EvicteesCounted
<1>1. /\ TypeOK /\ nextEntryId \in Nat /\ nextEntryId < MaxAdmitted
      /\ nextEntryId' = nextEntryId + 1
      /\ IsFiniteSet(entries) /\ Size \in Nat
  BY IdsAreFinite DEF IInv, Add, TypeOK, Size
<1>2. Issued' = Issued \cup {nextEntryId} /\ Issued' = 0 .. nextEntryId /\ nextEntryId \notin Issued
  BY <1>1 DEF Issued
<1>3. /\ IsFiniteSet(E) /\ Cardinality(E) \in Nat
      /\ Size' = Size - Cardinality(E) + 1
  <2>1. E \subseteq entries /\ E \subseteq Issued /\ entries \cap E = E
    BY <1>1, EvicteesCounted DEF TypeOK
  <2>2. IsFiniteSet(E) /\ Cardinality(E) \in Nat
    BY <1>1, <2>1, IdsAreFinite
  <2>3. IsFiniteSet(entries \ E) /\ Cardinality(entries \ E) = Size - Cardinality(E)
    BY <1>1, <2>1, FS_Difference DEF Size
  <2>4. nextEntryId \notin entries \ E
    BY <1>1, <1>2 DEF TypeOK
  <2>5. Cardinality((entries \ E) \cup {nextEntryId}) = Cardinality(entries \ E) + 1
    BY <2>3, <2>4, FS_AddElement
  <2> QED
    BY <2>2, <2>3, <2>5 DEF Add, Size
<1>4. TypeOK'
  <2>1. entries' \subseteq Issued' /\ batch' \subseteq Issued'
    BY <1>1, <1>2 DEF TypeOK, Add
  <2>2. rollout' \in [Issued' -> Rollouts]
    BY <1>1, <1>2 DEF TypeOK, Add
  <2>3. attempts' \in [Issued' -> 0 .. MaxUpdates]
    BY <1>1, <1>2, ReplayAssumption DEF TypeOK, Add
  <2>4. evicted' \in Nat /\ totalAttempts' \in Nat /\ retired' \in Nat
    BY <1>1, <1>3 DEF TypeOK, Add
  <2>5. ready' \in BOOLEAN
    BY DEF Add, GateAfterAdd
  <2>6. nextEntryId' \in 0 .. MaxAdmitted
    BY <1>1, ReplayAssumption
  <2> QED
    BY <2>1, <2>2, <2>3, <2>4, <2>5, <2>6 DEF TypeOK
<1>5. CountsInStep'
  <2>1. nextEntryId = Size + retired + evicted /\ Size <= Capacity
    BY DEF IInv, CountsInStep
  <2>2. retired' = retired /\ evicted' = evicted + Cardinality(E) /\ retired \in Nat /\ evicted \in Nat
    BY <1>1 DEF Add, TypeOK
  <2>3. Size' <= Capacity
    BY <1>0, <1>1, <1>3, <2>1, ReplayAssumption
  <2>4. nextEntryId' = Size' + retired' + evicted'
    BY <1>1, <1>3, <2>1, <2>2
  <2> QED
    BY <2>3, <2>4 DEF CountsInStep
<1>6. GateIsConsistent'
  <2>1. ready' <=> ready \/ Size' >= RefillSize
    BY DEF Add, GateAfterAdd, Size
  <2>2. ready => Size' >= BatchSize
    <3>1. ready => Size >= BatchSize
      BY DEF IInv, GateIsConsistent
    <3> QED
      BY <1>1, <1>3, <1>0, <3>1, ReplayAssumption
  <2>3. Size' >= RefillSize => Size' >= BatchSize
    BY <1>1, <1>3, ReplayAssumption
  <2>4. ~(Size' >= RefillSize) => Size' < RefillSize
    BY <1>1, <1>3, ReplayAssumption
  <2> QED
    BY <2>1, <2>2, <2>3, <2>4 DEF GateIsConsistent
<1>7. ReuseIsBounded'
  <2>1. attempts'[nextEntryId] = 0 /\ \A i \in Issued : attempts'[i] = attempts[i]
    BY <1>1, <1>2 DEF Add, Issued
  <2>2. \A i \in entries' : attempts'[i] < MaxUpdates
    <3>1. SUFFICES ASSUME NEW i \in entries' PROVE attempts'[i] < MaxUpdates
      OBVIOUS
    <3>2. i = nextEntryId \/ i \in entries
      BY DEF Add
    <3>3. i \in entries => i \in Issued /\ attempts[i] < MaxUpdates
      BY <1>1 DEF IInv, ReuseIsBounded, TypeOK
    <3>4. 0 < MaxUpdates
      BY ReplayAssumption
    <3> QED
      BY <2>1, <3>2, <3>3, <3>4
  <2>3. {i \in Issued' : attempts'[i] = MaxUpdates} = {i \in Issued : attempts[i] = MaxUpdates}
    BY <1>2, <2>1, ReplayAssumption
  <2> QED
    BY <2>2, <2>3 DEF IInv, ReuseIsBounded, Add
<1> QED
  BY <1>4, <1>5, <1>6, <1>7 DEF IInv

\* sample() preserves the invariant.
LEMMA SampleIInv ==
    ASSUME IInv, NEW S \in Batches, Sample(S)
    PROVE  IInv'
<1> DEFINE G == Spent(S)
           D == {i \in Issued : attempts[i] = MaxUpdates}
<1>1. /\ TypeOK /\ nextEntryId \in Nat /\ nextEntryId' = nextEntryId /\ Issued' = Issued
      /\ IsFiniteSet(entries) /\ Size \in Nat
      /\ IsFiniteSet(D) /\ Cardinality(D) \in Nat
  BY IdsAreFinite DEF IInv, Sample, TypeOK, Size, Issued
<1>2. S \subseteq entries /\ S \subseteq Issued /\ G \subseteq S /\ Cardinality(S) \in Nat
  BY <1>1, ReplayAssumption DEF Batches, kSubset, TypeOK, Spent
<1>3. /\ IsFiniteSet(G) /\ Cardinality(G) \in Nat
      /\ Size' = Size - Cardinality(G)
  <2>1. IsFiniteSet(G) /\ Cardinality(G) \in Nat
    BY <1>1, <1>2, IdsAreFinite
  <2>2. entries \cap G = G
    BY <1>2
  <2>3. Cardinality(entries \ G) = Size - Cardinality(G)
    BY <1>1, <2>2, FS_Difference DEF Size
  <2> QED
    BY <2>1, <2>3 DEF Sample, Size
<1>4. \A i \in Issued : attempts'[i] = IF i \in S THEN attempts[i] + 1 ELSE attempts[i]
  BY DEF Sample
<1>5. \A i \in S : attempts[i] \in Nat /\ attempts[i] < MaxUpdates
  BY <1>1, <1>2, ReplayAssumption DEF IInv, ReuseIsBounded, TypeOK
<1>6. TypeOK'
  <2>1. entries' \subseteq Issued' /\ batch' \subseteq Issued'
    BY <1>1, <1>2 DEF TypeOK, Sample
  <2>2. attempts' \in [Issued' -> 0 .. MaxUpdates]
    BY <1>1, <1>2, <1>5, ReplayAssumption DEF TypeOK, Sample
  <2>3. totalAttempts' \in Nat /\ retired' \in Nat /\ evicted' \in Nat
    BY <1>1, <1>2, <1>3 DEF TypeOK, Sample
  <2>4. ready' \in BOOLEAN /\ rollout' \in [Issued' -> Rollouts]
    BY <1>1 DEF TypeOK, Sample, GateAfterSample
  <2> QED
    BY <1>1, <2>1, <2>2, <2>3, <2>4 DEF TypeOK
<1>7. CountsInStep'
  BY <1>1, <1>3, ReplayAssumption DEF IInv, TypeOK, CountsInStep, Sample
<1>8. GateIsConsistent'
  <2>1. ready' <=> Size' >= BatchSize
    BY DEF Sample, CanSample, GateAfterSample, Size
  <2>2. ~(Size' >= BatchSize) => Size' < RefillSize
    BY <1>1, <1>3, ReplayAssumption
  <2> QED
    BY <2>1, <2>2 DEF GateIsConsistent
<1>9. ReuseIsBounded'
  <2>1. \A i \in entries' : attempts'[i] < MaxUpdates
    <3>1. SUFFICES ASSUME NEW i \in entries' PROVE attempts'[i] < MaxUpdates
      OBVIOUS
    <3>2. i \in entries /\ i \in Issued /\ i \notin G /\ attempts[i] < MaxUpdates /\ attempts[i] \in Nat
      BY <1>1, ReplayAssumption DEF Sample, TypeOK, IInv, ReuseIsBounded
    <3> QED
      BY <1>4, <3>2, ReplayAssumption DEF Spent
  <2>2. {i \in Issued' : attempts'[i] = MaxUpdates} = D \cup G
    BY <1>1, <1>2, <1>4, <1>5, ReplayAssumption DEF Spent
  <2>3. D \cap G = {}
    BY <1>2, <1>5, ReplayAssumption
  <2>4. Cardinality(D \cup G) = Cardinality(D) + Cardinality(G) - Cardinality(D \cap G)
    BY <1>1, <1>3, FS_Union
  <2>5. Cardinality(D \cap G) = 0
    BY <2>3, FS_EmptySet
  <2>6. Cardinality(D \cup G) = Cardinality(D) + Cardinality(G)
    BY <1>1, <1>3, <2>4, <2>5
  <2> QED
    BY <2>1, <2>2, <2>6 DEF IInv, ReuseIsBounded, Sample
<1> QED
  BY <1>6, <1>7, <1>8, <1>9 DEF IInv

\* Every step of the buffer preserves the invariant.
LEMMA NextIInv == IInv /\ [Next]_vars => IInv'
<1> SUFFICES ASSUME IInv, [Next]_vars PROVE IInv'
  OBVIOUS
<1>1. CASE \E r \in Rollouts : Add(r)
  BY <1>1, AddIInv
<1>2. CASE \E S \in Batches : Sample(S)
  BY <1>2, SampleIInv
<1>3. CASE UNCHANGED vars
  BY <1>3 DEF vars, IInv, TypeOK, GateIsConsistent, CountsInStep,
              ReuseIsBounded, Issued, Size
<1> QED
  BY <1>1, <1>2, <1>3 DEF Next

\* IInv holds in every reachable state of the buffer.
THEOREM ReplayInductive == Spec => []IInv
<1> QED
  BY InitIInv, NextIInv, PTL DEF Spec

\* Types: only ids that were handed out are stored, counted or selected.
THEOREM ReplayTypes == Spec => []TypeOK
<1>1. IInv => TypeOK
  BY DEF IInv
<1> QED
  BY <1>1, ReplayInductive, PTL

\* The hysteresis of sample() and add() never leaves the gate open on too few
\* rollouts or closed on a refilled buffer.
THEOREM ReplayGate == Spec => []GateIsConsistent
<1>1. IInv => GateIsConsistent
  BY DEF IInv
<1> QED
  BY <1>1, ReplayInductive, PTL

\* No rollout is selected more than MaxUpdates times, and retired counts exactly
\* those that were.
THEOREM ReplayReuse == Spec => []ReuseIsBounded
<1>1. IInv => ReuseIsBounded
  BY DEF IInv
<1> QED
  BY <1>1, ReplayInductive, PTL

\* The coordinator's next pull always asks for between one rollout and a batch.
THEOREM ReplayAdmission == Spec => []AdmissionNeverStalls
<1>1. ASSUME IInv PROVE AdmissionNeverStalls
  <2>1. Size \in Nat /\ (ready => Size >= BatchSize) /\ (~ready => Size < RefillSize)
    BY <1>1, IdsAreFinite DEF IInv, GateIsConsistent, TypeOK, Size
  <2>2. CASE CanSample
    BY <2>2, ReplayAssumption DEF AdmissionNeverStalls, AdmissionLimit
  <2>3. CASE ~CanSample
    <3>1. RefillSize - Size \in Nat \ {0}
      BY <2>1, <2>3, ReplayAssumption DEF CanSample
    <3>2. Max({RefillSize - Size, 0}) = RefillSize - Size
      BY <3>1 DEF Max
    <3>3. Min({BatchSize, RefillSize - Size}) \in 1 .. BatchSize
      <4>1. Min({BatchSize, RefillSize - Size}) =
              IF BatchSize <= RefillSize - Size THEN BatchSize ELSE RefillSize - Size
        BY <3>1, ReplayAssumption DEF Min
      <4> QED
        BY <3>1, <4>1, ReplayAssumption
    <3> QED
      BY <2>3, <3>2, <3>3 DEF AdmissionNeverStalls, AdmissionLimit
  <2> QED
    BY <2>2, <2>3
<1> QED
  BY <1>1, ReplayInductive, PTL

\* add() evicts only while the gate is open.
THEOREM ReplayEviction == Spec => EvictOnlyWhileTraining
<1>1. ASSUME IInv, [Next]_vars, evicted' # evicted PROVE CanSample
  <2>1. CASE \E r \in Rollouts : Add(r)
    <3>1. Size = Capacity
      <4>1. evicted' = evicted + Cardinality(Evictees) /\ evicted \in Nat
        BY <1>1, <2>1 DEF Add, IInv, TypeOK
      <4> QED
        BY <1>1, <4>1, EvicteesCounted
    <3>2. Size >= RefillSize /\ Size >= BatchSize /\ ~(Size < RefillSize)
      BY <3>1, ReplayAssumption
    <3> QED
      BY <1>1, <3>2 DEF IInv, GateIsConsistent, CanSample
  <2>2. CASE \E S \in Batches : Sample(S)
    BY <1>1, <2>2 DEF Sample
  <2>3. CASE UNCHANGED vars
    BY <1>1, <2>3 DEF vars
  <2> QED
    BY <1>1, <2>1, <2>2, <2>3 DEF Next
<1>2. IInv /\ [Next]_vars => [evicted' # evicted => CanSample]_vars
  BY <1>1
<1> QED
  BY <1>2, ReplayInductive, PTL DEF Spec, EvictOnlyWhileTraining

\* What add() evicted or sample() retired is never stored, charged or selected again.
THEOREM ReplayDeparture == Spec => DepartureIsFinal
<1> DEFINE Final(i) == /\ i \notin entries'
                       /\ attempts'[i] = attempts[i]
                       /\ batch' # batch => i \notin batch'
<1>1. ASSUME IInv, [Next]_vars, NEW i \in Issued \ entries PROVE Final(i)
  <2>1. i \in 0 .. nextEntryId - 1 /\ i \notin entries /\ nextEntryId \in Nat
    BY <1>1 DEF Issued, IInv, TypeOK
  <2>2. ASSUME NEW r \in Rollouts, Add(r) PROVE Final(i)
    <3>1. i # nextEntryId /\ i \in 0 .. nextEntryId
      BY <2>1
    <3>2. attempts'[i] = attempts[i]
      BY <2>2, <3>1 DEF Add
    <3>3. i \notin entries' /\ batch' = batch
      BY <2>1, <2>2, <3>1 DEF Add
    <3> QED
      BY <3>2, <3>3
  <2>3. ASSUME NEW S \in Batches, Sample(S) PROVE Final(i)
    <3>1. i \notin S
      BY <2>1 DEF Batches, kSubset
    <3>2. attempts'[i] = attempts[i]
      BY <1>1, <2>3, <3>1 DEF Sample
    <3> QED
      BY <2>1, <2>3, <3>1, <3>2 DEF Sample
  <2>4. CASE UNCHANGED vars
    BY <2>1, <2>4 DEF vars
  <2> QED
    BY <1>1, <2>2, <2>3, <2>4 DEF Next
<1>2. IInv /\ [Next]_vars =>
        [\A i \in Issued \ entries :
            i \notin entries' /\ attempts'[i] = attempts[i] /\ (batch' # batch => i \notin batch')]_vars
  BY <1>1
<1> HIDE DEF Final
<1> QED
  BY <1>2, ReplayInductive, PTL DEF Spec, DepartureIsFinal

\* Both of the above, as the run of the replay checks them: add evicts only behind
\* an open gate, and neither add nor sample brings back what has left.
THEOREM ReplayDepartures == Spec => DeparturesAreLegal
  BY ReplayEviction, ReplayDeparture DEF DeparturesAreLegal
-----------------------------------------------------------------------------
(* The totals *)

Owns(num, ro, S) == [i \in S |-> num[ro[i]]]
SumBy(num, ro, S) == MapThenSumSet(LAMBDA i : num[ro[i]], S)

\* The folds of the snapshot are sums over the ids.
LEMMA SumByIsTotal ==
    ASSUME NEW S, IsFiniteSet(S), NEW T \in SUBSET S, NEW num, NEW ro, \A i \in S : num[ro[i]] \in Nat
    PROVE  SumBy(num, ro, T) = Total(Owns(num, ro, S), T)
<1> DEFINE w == Owns(num, ro, S)
           Solves(f) == f = [s \in SUBSET T |-> IF s = {} THEN 0
                               ELSE num[ro[CHOOSE x \in s : TRUE]] + f[s \ {CHOOSE x \in s : TRUE}]]
<1>1. IsFiniteSet(T) /\ \A i \in T : w[i] \in Nat /\ w[i] = num[ro[i]]
  BY FS_Subset DEF Owns
<1> HIDE DEF w
<1>2. ASSUME NEW s \in SUBSET T, s # {}
      PROVE  num[ro[CHOOSE x \in s : TRUE]] = w[CHOOSE x \in s : TRUE]
  <2>1. (CHOOSE x \in s : TRUE) \in T
    BY <1>2
  <2> QED
    BY <1>1, <2>1
<1>3. \A f : Solves(f) <=> Sums(f, w, T)
  BY <1>2 DEF Sums
<1>4. \E f : Solves(f)
  BY <1>1, <1>3, SumExists
<1>5. Solves(CHOOSE f : Solves(f))
  BY <1>4
<1>6. SumBy(num, ro, T) = (CHOOSE f : Solves(f))[T]
  BY Zenon DEF SumBy, MapThenSumSet, MapThenFoldSet
<1> HIDE DEF Solves
<1>7. Sums(CHOOSE f : Solves(f), w, T)
  BY <1>3, <1>5
<1>8. SumBy(num, ro, T) = Total(w, T)
  BY <1>1, <1>6, <1>7, SumIsTotal
<1> QED
  BY <1>8 DEF w

SizeOf == Owns(NumSamples, rollout, Issued)
LengthOf == Owns(NumTokens, rollout, Issued)

LEMMA TotalsAreSums ==
    ASSUME TypeOK, NEW T \in SUBSET Issued
    PROVE  SamplesIn(T) = Total(SizeOf, T) /\ TokensIn(T) = Total(LengthOf, T)
<1>1. IsFiniteSet(Issued) /\ \A i \in Issued : NumSamples[rollout[i]] \in Nat /\ NumTokens[rollout[i]] \in Nat
  BY IdsAreFinite, ReplayAssumption DEF TypeOK
<1>2. SamplesIn(T) = SumBy(NumSamples, rollout, T) /\ TokensIn(T) = SumBy(NumTokens, rollout, T)
  BY Zenon DEF SamplesIn, TokensIn, SumBy, MapThenSumSet, MapThenFoldSet
<1> QED
  BY <1>1, <1>2, SumByIsTotal, Zenon DEF SizeOf, LengthOf

LEMMA TotalsAreSumsNext ==
    ASSUME TypeOK', IsFiniteSet(Issued'), entries' \in SUBSET Issued'
    PROVE  SamplesIn(entries)' = Total(SizeOf', entries') /\ TokensIn(entries)' = Total(LengthOf', entries')
<1>1. \A i \in Issued' : NumSamples[rollout'[i]] \in Nat /\ NumTokens[rollout'[i]] \in Nat
  BY ReplayAssumption DEF TypeOK
<1>2. /\ SamplesIn(entries)' = SumBy(NumSamples, rollout', entries')
      /\ TokensIn(entries)' = SumBy(NumTokens, rollout', entries')
  BY Zenon DEF SamplesIn, TokensIn, SumBy, MapThenSumSet, MapThenFoldSet
<1> QED
  BY <1>1, <1>2, SumByIsTotal, Zenon DEF SizeOf, LengthOf

\* Entries leave a sum, and one joins it.
LEMMA SumLeaves ==
    ASSUME NEW S, IsFiniteSet(S), NEW E \in SUBSET S, NEW w, \A x \in S : w[x] \in Nat,
           NEW v, \A x \in S \ E : v[x] = w[x]
    PROVE  Total(v, S \ E) = Total(w, S) - Total(w, E)
<1>1. IsFiniteSet(E) /\ IsFiniteSet(S \ E)
  BY FS_Subset
<1>2. Total(w, S) = Total(w, S \ E) + Total(w, E) /\ Total(v, S \ E) = Total(w, S \ E)
  BY TotalWithout, TotalSame
<1>3. Total(w, S) \in Nat /\ Total(w, S \ E) \in Nat /\ Total(w, E) \in Nat
  BY <1>1, PointsAreFinite
<1> QED
  BY <1>2, <1>3

LEMMA SumJoins ==
    ASSUME NEW S, IsFiniteSet(S), NEW E \in SUBSET S, NEW w, \A x \in S : w[x] \in Nat,
           NEW v, \A x \in S \ E : v[x] = w[x], NEW y, y \notin S, v[y] \in Nat
    PROVE  Total(v, (S \ E) \cup {y}) = Total(w, S) - Total(w, E) + v[y]
<1>1. IsFiniteSet(S \ E) /\ y \notin S \ E /\ \A x \in (S \ E) \cup {y} : v[x] \in Nat
  BY FS_Subset
<1>2. Total(v, (S \ E) \cup {y}) = Total(v, S \ E) + v[y]
  BY <1>1, TotalWith
<1> QED
  BY <1>2, SumLeaves

LEMMA AddTotals ==
    ASSUME IInv, TotalsInStep, NEW r \in Rollouts, Add(r)
    PROVE  TotalsInStep'
<1>1. TypeOK /\ TypeOK' /\ Evictees \in SUBSET entries /\ IsFiniteSet(entries)
  BY AddIInv, IdsAreFinite, EvicteesCounted DEF IInv, TypeOK
<1>2. /\ entries \in SUBSET Issued /\ nextEntryId \in Nat /\ Issued' = 0 .. nextEntryId
      /\ nextEntryId \notin Issued /\ Issued \subseteq Issued' /\ nextEntryId \in Issued'
  BY <1>1, IdsAreFinite DEF TypeOK, Issued, Add
<1>3. entries' = (entries \ Evictees) \cup {nextEntryId} /\ entries' \in SUBSET Issued'
  BY <1>1, <1>2 DEF Add
<1>4. \A i \in Issued' : rollout'[i] = IF i = nextEntryId THEN r ELSE rollout[i]
  BY <1>2 DEF Add
<1>5. /\ SizeOf'[nextEntryId] = NumSamples[r] /\ LengthOf'[nextEntryId] = NumTokens[r]
      /\ \A i \in Issued : SizeOf'[i] = SizeOf[i] /\ LengthOf'[i] = LengthOf[i]
      /\ \A i \in Issued : SizeOf[i] \in Nat /\ LengthOf[i] \in Nat
      /\ NumSamples[r] \in Nat /\ NumTokens[r] \in Nat
  BY <1>1, <1>2, <1>4, ReplayAssumption DEF SizeOf, LengthOf, Owns, TypeOK
<1>6. /\ Total(SizeOf', entries') = Total(SizeOf, entries) - Total(SizeOf, Evictees) + NumSamples[r]
      /\ Total(LengthOf', entries') = Total(LengthOf, entries) - Total(LengthOf, Evictees) + NumTokens[r]
  <2>1. IsFiniteSet(entries) /\ Evictees \in SUBSET entries /\ nextEntryId \notin entries
    BY <1>1, <1>2
  <2>2. ASSUME NEW w, NEW v, \A i \in Issued : v[i] = w[i] /\ w[i] \in Nat, v[nextEntryId] \in Nat
        PROVE  Total(v, entries') = Total(w, entries) - Total(w, Evictees) + v[nextEntryId]
    <3>1. (\A i \in entries : w[i] \in Nat) /\ (\A i \in entries \ Evictees : v[i] = w[i])
      BY <1>2, <2>2
    <3>2. Total(v, (entries \ Evictees) \cup {nextEntryId})
            = Total(w, entries) - Total(w, Evictees) + v[nextEntryId]
      BY <2>1, <2>2, <3>1, SumJoins
    <3> QED
      BY <1>3, <3>2
  <2>3. Total(SizeOf', entries') = Total(SizeOf, entries) - Total(SizeOf, Evictees) + SizeOf'[nextEntryId]
    BY <1>5, <2>2
  <2>4. Total(LengthOf', entries') = Total(LengthOf, entries) - Total(LengthOf, Evictees) + LengthOf'[nextEntryId]
    BY <1>5, <2>2
  <2> QED
    BY <1>5, <2>3, <2>4
<1>7. /\ SamplesIn(entries)' = Total(SizeOf', entries') /\ TokensIn(entries)' = Total(LengthOf', entries')
      /\ SamplesIn(entries) = Total(SizeOf, entries) /\ TokensIn(entries) = Total(LengthOf, entries)
      /\ SamplesIn(Evictees) = Total(SizeOf, Evictees) /\ TokensIn(Evictees) = Total(LengthOf, Evictees)
  <2>1. IsFiniteSet(Issued')
    BY <1>2, FS_Interval
  <2>2. Evictees \in SUBSET Issued
    BY <1>1, <1>2
  <2> QED
    BY <1>1, <1>2, <1>3, <2>1, <2>2, TotalsAreSums, TotalsAreSumsNext
<1> QED
  BY <1>6, <1>7 DEF TotalsInStep, Add, UpdateTotals

LEMMA SampleTotals ==
    ASSUME IInv, TotalsInStep, NEW S \in Batches, Sample(S)
    PROVE  TotalsInStep'
<1>1. TypeOK /\ TypeOK' /\ IsFiniteSet(entries) /\ entries \in SUBSET Issued
  BY SampleIInv, IdsAreFinite DEF IInv, TypeOK
<1>2. /\ Spent(S) \in SUBSET entries /\ entries' = entries \ Spent(S) /\ Issued' = Issued
      /\ SizeOf' = SizeOf /\ LengthOf' = LengthOf
  BY ReplayAssumption DEF Batches, kSubset, Spent, Sample, Issued, SizeOf, LengthOf, Owns
<1>3. \A i \in entries : SizeOf[i] \in Nat /\ LengthOf[i] \in Nat
  BY <1>1, ReplayAssumption DEF SizeOf, LengthOf, Owns, TypeOK
<1>4. /\ Total(SizeOf, entries') = Total(SizeOf, entries) - Total(SizeOf, Spent(S))
      /\ Total(LengthOf, entries') = Total(LengthOf, entries) - Total(LengthOf, Spent(S))
  <2>1. PICK w, m : w = SizeOf /\ m = LengthOf
    OBVIOUS
  <2>2. (\A i \in entries : w[i] \in Nat) /\ (\A i \in entries : m[i] \in Nat)
    BY <1>3, <2>1
  <2>3. Total(w, entries \ Spent(S)) = Total(w, entries) - Total(w, Spent(S))
    BY <1>1, <1>2, <2>2, SumLeaves
  <2>4. Total(m, entries \ Spent(S)) = Total(m, entries) - Total(m, Spent(S))
    BY <1>1, <1>2, <2>2, SumLeaves
  <2> QED
    BY <1>2, <2>1, <2>3, <2>4
<1>5. /\ SamplesIn(entries)' = Total(SizeOf, entries') /\ TokensIn(entries)' = Total(LengthOf, entries')
      /\ SamplesIn(entries) = Total(SizeOf, entries) /\ TokensIn(entries) = Total(LengthOf, entries)
      /\ SamplesIn(Spent(S)) = Total(SizeOf, Spent(S)) /\ TokensIn(Spent(S)) = Total(LengthOf, Spent(S))
  <2>1. IsFiniteSet(Issued') /\ entries' \in SUBSET Issued' /\ Spent(S) \in SUBSET Issued
    BY <1>1, <1>2, IdsAreFinite
  <2> QED
    BY <1>1, <1>2, <2>1, TotalsAreSums, TotalsAreSumsNext
<1>6. /\ samples' = samples - SamplesIn(Spent(S)) + 0 /\ tokens' = tokens - TokensIn(Spent(S)) + 0
  BY DEF Sample, UpdateTotals
<1>7. /\ Total(SizeOf, entries) \in Nat /\ Total(SizeOf, Spent(S)) \in Nat
      /\ Total(LengthOf, entries) \in Nat /\ Total(LengthOf, Spent(S)) \in Nat
  BY <1>1, <1>2, <1>3, FS_Subset, PointsAreFinite
<1> QED
  BY <1>4, <1>5, <1>6, <1>7 DEF TotalsInStep

\* add() and sample() lose no rollout and count none twice, within capacity, and the
\* totals stay those of the residents.
THEOREM ReplayAccounting == Spec => []RolloutsAccountedFor
<1>1. Init => TotalsInStep
  <2> SUFFICES ASSUME Init PROVE TotalsInStep
    OBVIOUS
  <2>1. TypeOK /\ entries = {} /\ samples = 0 /\ tokens = 0
    BY InitIInv DEF Init, IInv
  <2> QED
    BY <2>1, TotalsAreSums, TotalOfNone DEF TotalsInStep
<1>2. IInv /\ TotalsInStep /\ [Next]_vars => TotalsInStep'
  <2> SUFFICES ASSUME IInv, TotalsInStep, [Next]_vars PROVE TotalsInStep'
    OBVIOUS
  <2>1. CASE UNCHANGED vars
    BY <2>1, Zenon DEF vars, TotalsInStep, SamplesIn, TokensIn, MapThenSumSet, MapThenFoldSet
  <2> QED
    BY <2>1, AddTotals, SampleTotals DEF Next
<1>3. IInv /\ TotalsInStep => RolloutsAccountedFor
  BY DEF IInv, RolloutsAccountedFor
<1> QED
  BY <1>1, <1>2, <1>3, ReplayInductive, PTL DEF Spec
=============================================================================
