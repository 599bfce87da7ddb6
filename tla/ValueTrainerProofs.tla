-------------------------- MODULE ValueTrainerProofs --------------------------
(***************************************************************************)
(* Proofs about the value trainer's loop, for any replay settings, number  *)
(* of updates, resumed version, interval and requests, in both placements. *)
(*                                                                         *)
(* The replay buffer is used through what ValueReplayProofs shows of it.   *)
(* That nothing is displaced unseen rests on Room: whenever the loop asks  *)
(* the receiver, what it may get fits under the refill mark.  That every   *)
(* batch can be stepped rests on Phases: at most one is in hand, and it    *)
(* was drawn before the last step.                                         *)
(***************************************************************************)
EXTENDS ValueTrainer, Sums

Buffer == INSTANCE ValueReplayProofs

Stored == Buffer!IInv
-----------------------------------------------------------------------------
(* The buffer of the loop is the one the proofs are about. *)

LEMMA SameOperators ==
    /\ \A S : Buffer!Cardinality(S) = Replay!Cardinality(S) /\ Replay!Cardinality(S) = Cardinality(S)
    /\ \A S : Buffer!Max(S) = Max(S) /\ Buffer!Min(S) = Min(S) /\ Replay!Max(S) = Max(S) /\ Replay!Min(S) = Min(S)
    /\ \A S, k : Buffer!kSubset(k, S) = Replay!kSubset(k, S)
<1>1. \A S : Buffer!Cardinality(S) = Replay!Cardinality(S) /\ Replay!Cardinality(S) = Cardinality(S)
  BY DEF Buffer!Cardinality, Replay!Cardinality, Cardinality
<1>2. \A S : Buffer!Max(S) = Max(S) /\ Buffer!Min(S) = Min(S) /\ Replay!Max(S) = Max(S) /\ Replay!Min(S) = Min(S)
  BY DEF Buffer!Max, Replay!Max, Max, Buffer!Min, Replay!Min, Min
<1>3. \A S, k : Buffer!kSubset(k, S) = Replay!kSubset(k, S)
  BY <1>1 DEF Buffer!kSubset, Replay!kSubset
<1> QED
  BY <1>1, <1>2, <1>3

LEMMA SameState ==
    /\ Replay!Size = Cardinality(entries) /\ Buffer!Size = Cardinality(entries)
    /\ Replay!Issued = 0 .. nextEntryId - 1 /\ Buffer!Issued = 0 .. nextEntryId - 1
    /\ Replay!CanSample <=> ready /\ Cardinality(entries) >= BatchSize
    /\ Buffer!CanSample <=> ready /\ Cardinality(entries) >= BatchSize
    /\ Buffer!Batches = Replay!Batches
<1>1. Replay!Size = Cardinality(entries) /\ Buffer!Size = Cardinality(entries)
  BY SameOperators DEF Replay!Size, Buffer!Size
<1> QED
  BY <1>1, SameOperators DEF Replay!Issued, Buffer!Issued, Replay!CanSample, Buffer!CanSample, Buffer!Batches, Replay!Batches

LEMMA SameSums ==
    /\ \A S : Buffer!SamplesIn(S) = Replay!SamplesIn(S)
    /\ \A S : Buffer!TokensIn(S) = Replay!TokensIn(S)
<1>1. \A S : Buffer!SamplesIn(S) = Replay!SamplesIn(S)
  BY Zenon DEF Buffer!SamplesIn, Replay!SamplesIn, Buffer!MapThenSumSet, Replay!MapThenSumSet,
               Buffer!MapThenFoldSet, Replay!MapThenFoldSet
<1>2. \A S : Buffer!TokensIn(S) = Replay!TokensIn(S)
  BY Zenon DEF Buffer!TokensIn, Replay!TokensIn, Buffer!MapThenSumSet, Replay!MapThenSumSet,
               Buffer!MapThenFoldSet, Replay!MapThenFoldSet
<1> QED
  BY <1>1, <1>2

LEMMA SameAdd ==
    ASSUME NEW r, Replay!Add(r)
    PROVE  Buffer!Add(r) /\ Buffer!Evictees = Replay!Evictees
<1>1. Buffer!Evictees = Replay!Evictees
  BY SameState DEF Buffer!Evictees, Replay!Evictees
<1>2. Buffer!UpdateTotals(Buffer!Evictees, NumSamples[r], NumTokens[r])
  BY <1>1, SameSums DEF Replay!Add, Replay!UpdateTotals, Buffer!UpdateTotals
<1>3. Buffer!Cardinality(Buffer!Evictees) = Replay!Cardinality(Replay!Evictees)
  BY <1>1, SameOperators
<1>4. Buffer!GateAfterAdd(Buffer!Cardinality(entries')) = Replay!GateAfterAdd(Replay!Cardinality(entries'))
  BY SameOperators DEF Buffer!GateAfterAdd, Replay!GateAfterAdd
<1> QED
  BY <1>1, <1>2, <1>3, <1>4 DEF Buffer!Add, Replay!Add

LEMMA SameSample ==
    ASSUME NEW S, Replay!Sample(S)
    PROVE  Buffer!Sample(S)
<1>1. Buffer!Spent(S) = Replay!Spent(S)
  BY DEF Buffer!Spent, Replay!Spent
<1>2. Buffer!UpdateTotals(Buffer!Spent(S), 0, 0)
  BY <1>1, SameSums DEF Replay!Sample, Replay!UpdateTotals, Buffer!UpdateTotals
<1>3. /\ Buffer!Cardinality(S) = Replay!Cardinality(S)
      /\ Buffer!Cardinality(Buffer!Spent(S)) = Replay!Cardinality(Replay!Spent(S))
  BY <1>1, SameOperators
<1>4. Buffer!GateAfterSample(Buffer!Cardinality(entries')) = Replay!GateAfterSample(Replay!Cardinality(entries'))
  BY SameOperators DEF Buffer!GateAfterSample, Replay!GateAfterSample
<1>5. Buffer!CanSample /\ Buffer!Issued = Replay!Issued
  BY SameState DEF Replay!Sample
<1> QED
  BY <1>1, <1>2, <1>3, <1>4, <1>5 DEF Buffer!Sample, Replay!Sample

LEMMA BufferAssumption ==
    /\ BatchSize \in Nat \ {0} /\ Capacity \in Nat /\ RefillSize \in Nat
    /\ BatchSize <= RefillSize /\ RefillSize <= Capacity /\ MaxUpdates \in Nat \ {0}
    /\ NumSamples \in [Rollouts -> Nat \ {0}] /\ NumTokens \in [Rollouts -> Nat] /\ MaxAdmitted \in Nat
  BY TrainerAssumption
-----------------------------------------------------------------------------
(* What the loop needs to know of the buffer. *)

N == Cardinality(entries)

LEMMA StoredFacts ==
    ASSUME Stored
    PROVE  /\ N \in Nat /\ N <= Capacity /\ IsFiniteSet(entries) /\ nextEntryId \in 0 .. MaxAdmitted
           /\ entries \subseteq 0 .. nextEntryId - 1
           /\ (ready => N >= BatchSize) /\ (~ready => N < RefillSize)
           /\ ready \in BOOLEAN /\ evicted \in Nat
           /\ attempts \in [0 .. nextEntryId - 1 -> 0 .. MaxUpdates] /\ \A i \in entries : attempts[i] < MaxUpdates
<1>1. /\ Buffer!TypeOK /\ Buffer!GateIsConsistent /\ Buffer!CountsInStep /\ Buffer!ReuseIsBounded
  BY DEF Stored, Buffer!IInv
<1>2. nextEntryId \in 0 .. MaxAdmitted /\ entries \subseteq 0 .. nextEntryId - 1
  BY <1>1, SameState DEF Buffer!TypeOK
<1>3. IsFiniteSet(0 .. nextEntryId - 1)
  <2>1. PICK a \in Int, b \in Int : a = 0 /\ b = nextEntryId - 1
    BY <1>2, BufferAssumption
  <2>2. IsFiniteSet(a .. b)
    BY FS_Interval
  <2> QED
    BY <2>1, <2>2
<1>4. IsFiniteSet(entries) /\ N \in Nat
  BY <1>2, <1>3, FS_Subset, FS_CardinalityType DEF N
<1>5. N <= Capacity /\ (ready => N >= BatchSize) /\ (~ready => N < RefillSize)
  BY <1>1, SameState DEF Buffer!GateIsConsistent, Buffer!CountsInStep, N
<1>6. /\ ready \in BOOLEAN /\ evicted \in Nat
      /\ attempts \in [0 .. nextEntryId - 1 -> 0 .. MaxUpdates] /\ \A i \in entries : attempts[i] < MaxUpdates
  BY <1>1, SameState DEF Buffer!TypeOK, Buffer!ReuseIsBounded
<1> QED
  BY <1>2, <1>4, <1>5, <1>6

LEMMA CanSampleIsReady ==
    ASSUME Stored
    PROVE  Replay!CanSample <=> ready
  BY StoredFacts, SameState, BufferAssumption DEF N

LEMMA BufferInit ==
    ASSUME Replay!Init
    PROVE  Stored /\ N = 0 /\ ~ready /\ evicted = 0
<1>1. Buffer!Init
  BY DEF Replay!Init, Buffer!Init
<1>2. Stored
  BY <1>1, Buffer!InitIInv, BufferAssumption DEF Stored
<1> QED
  BY <1>2, FS_EmptySet DEF Replay!Init, N

LEMMA BufferAdds ==
    ASSUME Stored, NEW r \in Rollouts, Replay!Add(r)
    PROVE  /\ Stored' /\ nextEntryId' = nextEntryId + 1
           /\ N < Capacity => evicted' = evicted /\ N' = N + 1
<1>1. Buffer!Add(r)
  BY SameAdd
<1>2. Stored'
  BY <1>1, Buffer!AddIInv, BufferAssumption DEF Stored
<1>3. nextEntryId' = nextEntryId + 1
  BY DEF Replay!Add
<1>4. ASSUME N < Capacity PROVE evicted' = evicted /\ N' = N + 1
  <2>1. N # Capacity
    BY <1>4, StoredFacts, BufferAssumption
  <2>2. Replay!Evictees = {}
    BY <2>1, SameState DEF Replay!Evictees, N
  <2>3. Replay!Cardinality(Replay!Evictees) = 0
    BY <2>2, SameOperators, FS_EmptySet
  <2>4. evicted' = evicted
    BY <2>3, StoredFacts DEF Replay!Add
  <2>5. entries' = entries \cup {nextEntryId}
    BY <2>2 DEF Replay!Add
  <2>6. nextEntryId \notin entries
    BY StoredFacts, BufferAssumption
  <2>7. Cardinality(entries \cup {nextEntryId}) = Cardinality(entries) + 1
    BY <2>6, StoredFacts, FS_AddElement
  <2> QED
    BY <2>4, <2>5, <2>7 DEF N
<1> QED
  BY <1>2, <1>3, <1>4

LEMMA BufferSamples ==
    ASSUME Stored, NEW S \in Replay!Batches, Replay!Sample(S)
    PROVE  /\ Stored' /\ S \in SUBSET Replay!Issued /\ nextEntryId' = nextEntryId /\ evicted' = evicted
           /\ ready /\ N >= BatchSize /\ S # {}
           /\ MaxUpdates = 1 => N' = N - BatchSize
<1>1. Buffer!Sample(S) /\ S \in Buffer!Batches
  BY SameSample, SameState
<1>2. Stored'
  BY <1>1, Buffer!SampleIInv, BufferAssumption DEF Stored
<1>3. S \subseteq entries /\ Cardinality(S) = BatchSize
  BY SameOperators DEF Replay!Batches, Replay!kSubset
<1>4. nextEntryId' = nextEntryId /\ evicted' = evicted /\ ready /\ N >= BatchSize
  BY SameState DEF Replay!Sample, N
<1>5. S # {}
  BY <1>3, FS_EmptySet, BufferAssumption
<1>6. S \in SUBSET Replay!Issued
  BY <1>3, StoredFacts, SameState
<1>7. ASSUME MaxUpdates = 1 PROVE N' = N - BatchSize
  <2>1. \A i \in S : attempts[i] + 1 = MaxUpdates
    BY <1>3, <1>7, StoredFacts
  <2>2. Replay!Spent(S) = S
    BY <2>1 DEF Replay!Spent
  <2>3. entries' = entries \ S
    BY <2>2 DEF Replay!Sample
  <2>4. Cardinality(entries \ S) = Cardinality(entries) - Cardinality(entries \cap S)
    BY StoredFacts, FS_Difference
  <2>5. entries \cap S = S
    BY <1>3
  <2> QED
    BY <1>3, <2>3, <2>4, <2>5 DEF N
<1> QED
  BY <1>2, <1>4, <1>5, <1>6, <1>7

LEMMA BufferStays ==
    ASSUME Stored, UNCHANGED replayVars
    PROVE  /\ Stored' /\ N' = N /\ Replay!Issued' = Replay!Issued
           /\ Replay!CanSample' = Replay!CanSample
<1>1. UNCHANGED Buffer!vars
  BY DEF replayVars, Buffer!vars
<1>2. Stored'
  BY <1>1, Buffer!NextIInv, BufferAssumption DEF Stored
<1> QED
  BY <1>2 DEF replayVars, N, Replay!Issued, Replay!CanSample, Replay!Size, Replay!Cardinality

\* What the receiver is asked for fits under the refill mark, unless a batch
\* will be drawn anyway.
LEMMA ReceiveFits ==
    ASSUME Stored, NEW next, Receive(next)
    PROVE  /\ slice' \in 0 .. BatchSize /\ loop' = next
           /\ ~ready => N + slice' <= RefillSize
<1>1. PICK a : a = Replay!AdmissionLimit
  OBVIOUS
<1>2. a \in 0 .. BatchSize /\ (~ready => N + a <= RefillSize)
  <2>1. CASE ready
    BY <1>1, <2>1, CanSampleIsReady, BufferAssumption DEF Replay!AdmissionLimit
  <2>2. CASE ~ready
    <3>1. PICK d \in Nat : d = RefillSize - N /\ d > 0
      <4>1. RefillSize - N \in Nat /\ RefillSize - N > 0
        BY <2>2, StoredFacts, BufferAssumption
      <4> QED
        BY <4>1
    <3>2. Max({d, 0}) = d
      BY <3>1 DEF Max
    <3>3. a = Min({BatchSize, d})
      <4>1. Replay!Size = N
        BY SameState DEF N
      <4>2. a = Replay!Min({BatchSize, Replay!Max({d, 0})})
        BY <1>1, <2>2, <3>1, <4>1, CanSampleIsReady DEF Replay!AdmissionLimit
      <4> QED
        BY <3>2, <4>2, SameOperators
    <3>4. a = IF BatchSize <= d THEN BatchSize ELSE d
      BY <3>1, <3>3, MinOfTwo, BufferAssumption
    <3> QED
      BY <2>2, <3>1, <3>4, StoredFacts, BufferAssumption
  <2> QED
    BY <2>1, <2>2
<1>3. PICK e \in Nat : e = MaxAdmitted - nextEntryId
  <2>1. MaxAdmitted - nextEntryId \in Nat
    BY StoredFacts, BufferAssumption
  <2> QED
    BY <2>1
<1>4. slice' \in 0 .. Min({a, e}) /\ loop' = next
  BY <1>1, <1>3 DEF Receive
<1>5. Min({a, e}) \in Nat /\ Min({a, e}) <= a
  BY <1>2, <1>3, MinOfTwo, BufferAssumption
<1> QED
  BY <1>2, <1>4, <1>5, StoredFacts, BufferAssumption
-----------------------------------------------------------------------------
(* The invariant *)

Shapes ==
    /\ placement \in Placements
    /\ loop \in {"top", "fill", "top up", "choose", "take", "infer", "train", "finish", "done", "raised"}
    /\ slice \in 0 .. BatchSize
    /\ pending \subseteq Replay!Issued /\ training \subseteq Replay!Issued
    /\ lastOperation \in {"none", "infer", "train"}
    /\ serveOnly \in BOOLEAN /\ closed \in BOOLEAN /\ runDone \in BOOLEAN
    /\ version \in Nat /\ saved \in 0 .. version /\ served \in 0 .. version
    /\ loop # "raised" => served = version
    /\ queue \in Seq(Clients) /\ taken \subseteq Clients
    /\ waited \in {0, 1}

\* At most one batch is in hand, and it was drawn before the last step.
Phases ==
    /\ ~Colocated => pending = {} /\ waited = 0 /\ loop \notin {"choose", "top up", "take", "infer"}
    /\ slice # 0 => loop \in {"fill", "top up"}
    /\ loop \in {"fill", "top up", "train"} => pending = {} /\ version < MaxSteps
    /\ pending # {} => version < MaxSteps
    /\ loop \in {"choose", "take", "infer"} /\ ~serveOnly => version < MaxSteps

\* An update that was passed over once is chosen next.
Turns ==
    /\ loop \in {"fill", "take", "infer"} => waited = 0
    /\ loop \in {"top", "choose"} /\ waited = 1 =>
          /\ lastOperation = "infer"
          /\ pending # {} \/ (~serveOnly /\ ready)
          /\ serveOnly \/ version < MaxSteps

\* With one update per rollout, what may still arrive fits below the refill mark.
Room ==
    MaxUpdates = 1 =>
        /\ evicted = 0
        /\ IF loop \in {"fill", "top up"} THEN N + slice <= RefillSize
                                          ELSE ready => N + BatchSize <= RefillSize

IInv == Stored /\ Shapes /\ Phases /\ Turns /\ Room
-----------------------------------------------------------------------------
(* Steps that leave the buffer alone *)

LEMMA TrainKeeps ==
    ASSUME IInv, Train
    PROVE  IInv'
<1>1. /\ Stored /\ N \in Nat /\ UNCHANGED replayVars
      /\ Stored' /\ N' = N /\ Replay!Issued' = Replay!Issued
  BY StoredFacts, BufferStays DEF IInv, Train
<1>2. Shapes'
  BY <1>1, TrainerAssumption DEF IInv, Shapes, Phases, Train, SavedAfter, MaxStepsReached, Announce, Colocated, serviceVars, runtimeVars
<1>3. Phases'
  BY <1>1, TrainerAssumption DEF IInv, Shapes, Phases, Train, SavedAfter, MaxStepsReached, Announce, Colocated, serviceVars, runtimeVars
<1>4. Turns'
  <2>1. loop' = "top" /\ waited' = 0
    BY DEF Train
  <2> QED
    BY <2>1 DEF Turns
<1>5. Room'
  <2>1. loop = "train" /\ loop' = "top"
    BY DEF Train
  <2> QED
    BY <1>1, <2>1 DEF IInv, Room, replayVars
<1> QED
  BY <1>1, <1>2, <1>3, <1>4, <1>5 DEF IInv

LEMMA FinishKeeps ==
    ASSUME IInv, Finish
    PROVE  IInv'
<1>1. /\ Stored /\ N \in Nat /\ UNCHANGED replayVars
      /\ Stored' /\ N' = N /\ Replay!Issued' = Replay!Issued
  BY StoredFacts, BufferStays DEF IInv, Finish
<1>2. Shapes'
  BY <1>1, TrainerAssumption DEF IInv, Shapes, Phases, Finish, FinalIsSaved, Colocated, serviceVars, runtimeVars
<1>3. Phases'
  BY <1>1, TrainerAssumption DEF IInv, Shapes, Phases, Finish, FinalIsSaved, Colocated, serviceVars, runtimeVars
<1>4. Turns'
  BY <1>1, TrainerAssumption DEF IInv, Shapes, Phases, Turns, replayVars, Finish, FinalIsSaved, Colocated, serviceVars, runtimeVars
<1>5. Room'
  BY <1>1 DEF IInv, Shapes, Phases, Room, replayVars, Finish, FinalIsSaved, Colocated, serviceVars, runtimeVars
<1> QED
  BY <1>1, <1>2, <1>3, <1>4, <1>5 DEF IInv

LEMMA RunDoneKeeps ==
    ASSUME IInv, RunDone
    PROVE  IInv'
<1>1. /\ Stored /\ N \in Nat /\ UNCHANGED replayVars
      /\ Stored' /\ N' = N /\ Replay!Issued' = Replay!Issued
  BY StoredFacts, BufferStays DEF IInv, RunDone
<1>2. Shapes'
  BY <1>1, TrainerAssumption DEF IInv, Shapes, Phases, RunDone, Colocated, serviceVars, runtimeVars
<1>3. Phases'
  BY <1>1, TrainerAssumption DEF IInv, Shapes, Phases, RunDone, Colocated, serviceVars, runtimeVars
<1>4. Turns'
  <2>1. UNCHANGED <<loop, waited, lastOperation, pending, serveOnly, version, ready>>
    BY DEF RunDone, runtimeVars, replayVars
  <2> QED
    BY <2>1 DEF IInv, Turns
<1>5. Room'
  <2>1. UNCHANGED <<loop, slice, ready, evicted>>
    BY DEF RunDone, replayVars
  <2> QED
    BY <1>1, <2>1 DEF IInv, Room
<1> QED
  BY <1>1, <1>2, <1>3, <1>4, <1>5 DEF IInv

LEMMA LoopEndsKeeps ==
    ASSUME IInv, LoopEnds
    PROVE  IInv'
<1>1. /\ Stored /\ N \in Nat /\ UNCHANGED replayVars
      /\ Stored' /\ N' = N /\ Replay!Issued' = Replay!Issued
  BY StoredFacts, BufferStays DEF IInv, LoopEnds
<1>2. Shapes'
  BY <1>1, TrainerAssumption DEF IInv, Shapes, Phases, LoopEnds, Colocated, serviceVars, runtimeVars
<1>3. Phases'
  BY <1>1, TrainerAssumption DEF IInv, Shapes, Phases, LoopEnds, Colocated, serviceVars, runtimeVars
<1>4. Turns'
  BY <1>1, TrainerAssumption DEF IInv, Shapes, Phases, Turns, replayVars, LoopEnds, Colocated, serviceVars, runtimeVars
<1>5. Room'
  BY <1>1 DEF IInv, Shapes, Phases, Room, replayVars, LoopEnds, Colocated, serviceVars, runtimeVars
<1> QED
  BY <1>1, <1>2, <1>3, <1>4, <1>5 DEF IInv

LEMMA StopKeeps ==
    ASSUME IInv, Stop
    PROVE  IInv'
<1>1. /\ Stored /\ N \in Nat /\ UNCHANGED replayVars
      /\ Stored' /\ N' = N /\ Replay!Issued' = Replay!Issued
  BY StoredFacts, BufferStays DEF IInv, Stop
<1>2. Shapes'
  <2>1. queue' \in Seq(Clients)
    BY EmptySeq DEF Stop
  <2> QED
    BY <1>1, <2>1 DEF IInv, Shapes, Stop, runtimeVars
<1>3. Phases'
  BY <1>1, TrainerAssumption DEF IInv, Shapes, Phases, Stop, Colocated, serviceVars, runtimeVars
<1>4. Turns'
  BY <1>1, TrainerAssumption DEF IInv, Shapes, Phases, Turns, replayVars, Stop, Colocated, serviceVars, runtimeVars
<1>5. Room'
  <2>1. loop = "top" /\ loop' = "finish"
    BY DEF Stop
  <2> QED
    BY <1>1, <2>1 DEF IInv, Room, replayVars
<1> QED
  BY <1>1, <1>2, <1>3, <1>4, <1>5 DEF IInv

LEMMA TrainReservedKeeps ==
    ASSUME IInv, TrainReserved
    PROVE  IInv'
<1>1. /\ Stored /\ N \in Nat /\ UNCHANGED replayVars
      /\ Stored' /\ N' = N /\ Replay!Issued' = Replay!Issued
  BY StoredFacts, BufferStays DEF IInv, TrainReserved
<1>2. Shapes'
  BY <1>1, TrainerAssumption DEF IInv, Shapes, Phases, TrainReserved, Colocated, serviceVars, runtimeVars
<1>3. Phases'
  BY <1>1, TrainerAssumption DEF IInv, Shapes, Phases, TrainReserved, Colocated, serviceVars, runtimeVars
<1>4. Turns'
  BY <1>1, TrainerAssumption DEF IInv, Shapes, Phases, Turns, replayVars, TrainReserved, Colocated, serviceVars, runtimeVars
<1>5. Room'
  BY <1>1 DEF IInv, Shapes, Phases, Room, replayVars, TrainReserved, Colocated, serviceVars, runtimeVars
<1> QED
  BY <1>1, <1>2, <1>3, <1>4, <1>5 DEF IInv

LEMMA TakeNoneKeeps ==
    ASSUME IInv, TakeNone
    PROVE  IInv'
<1>1. /\ Stored /\ N \in Nat /\ UNCHANGED replayVars
      /\ Stored' /\ N' = N /\ Replay!Issued' = Replay!Issued
  BY StoredFacts, BufferStays DEF IInv, TakeNone
<1>2. Shapes'
  BY <1>1, TrainerAssumption DEF IInv, Shapes, Phases, TakeNone, Colocated, serviceVars, runtimeVars
<1>3. Phases'
  BY <1>1, TrainerAssumption DEF IInv, Shapes, Phases, TakeNone, Colocated, serviceVars, runtimeVars
<1>4. Turns'
  BY <1>1, TrainerAssumption DEF IInv, Shapes, Phases, Turns, replayVars, TakeNone, Colocated, serviceVars, runtimeVars
<1>5. Room'
  BY <1>1 DEF IInv, Shapes, Phases, Room, replayVars, TakeNone, Colocated, serviceVars, runtimeVars
<1> QED
  BY <1>1, <1>2, <1>3, <1>4, <1>5 DEF IInv

\* However far an update got before it raised.
LEMMA HalfwayTypes ==
    ASSUME Shapes, Raise
    PROVE  /\ placement' = placement
           /\ version' \in Nat /\ saved' \in 0 .. version' /\ served' \in 0 .. version'
<1>1. version \in Nat /\ saved \in 0 .. version /\ served \in 0 .. version
  BY DEF Shapes
<1>2. CASE UNCHANGED runtimeVars
  BY <1>1, <1>2 DEF runtimeVars
<1>3. CASE HalfUpdate
  <2>1. /\ version' = version + 1 /\ placement' = placement
        /\ saved' \in {saved, version'} /\ served' \in {served, version'}
    BY <1>3 DEF HalfUpdate, SavedAfter
  <2>2. version' \in Nat /\ saved \in 0 .. version' /\ served \in 0 .. version' /\ version' \in 0 .. version'
    BY <1>1, <2>1
  <2> QED
    BY <2>1, <2>2
<1> QED
  BY <1>2, <1>3 DEF Raise

LEMMA RaiseKeeps ==
    ASSUME IInv, Raise
    PROVE  IInv'
<1>1. /\ Stored /\ N \in Nat /\ UNCHANGED replayVars
      /\ Stored' /\ N' = N /\ Replay!Issued' = Replay!Issued
  BY StoredFacts, BufferStays DEF IInv, Raise
<1>2. Shapes'
  <2>1. queue' \in Seq(Clients)
    BY EmptySeq DEF Raise
  <2> QED
    BY <1>1, <2>1, HalfwayTypes DEF IInv, Shapes, Raise
<1>3. Phases'
  <2>1. pending' = {} \/ (UNCHANGED <<pending, version>> /\ loop # "train")
    BY DEF IInv, Phases, Raise, HalfUpdate, runtimeVars
  <2>2. UNCHANGED <<placement, slice, pending, waited>> /\ loop' = "raised" /\ slice = 0
    BY DEF IInv, Phases, Raise, HalfUpdate, runtimeVars
  <2> QED
    BY <2>1, <2>2 DEF IInv, Phases, Colocated
<1>4. Turns'
  <2>1. loop' = "raised"
    BY DEF Raise
  <2> QED
    BY <2>1 DEF Turns
<1>5. Room'
  <2>1. loop \notin {"fill", "top up"} /\ loop' = "raised"
    BY DEF Raise
  <2> QED
    BY <1>1, <2>1 DEF IInv, Room, replayVars
<1> QED
  BY <1>1, <1>2, <1>3, <1>4, <1>5 DEF IInv

LEMMA InferKeeps ==
    ASSUME IInv, Infer
    PROVE  IInv'
<1>1. /\ Stored /\ N \in Nat /\ UNCHANGED replayVars
      /\ Stored' /\ N' = N /\ Replay!Issued' = Replay!Issued
  BY StoredFacts, BufferStays DEF IInv, Infer
<1>2. HasTraining <=> pending # {} \/ (~serveOnly /\ ready)
  BY <1>1, CanSampleIsReady DEF HasTraining
<1>3. waited = 0 /\ waited' \in {0, 1} /\ (waited' = 1 => HasTraining)
  BY DEF IInv, Turns, Infer
<1>4. Shapes'
  BY <1>1, <1>3 DEF IInv, Shapes, Infer, runtimeVars
<1>5. Phases'
  BY <1>1 DEF IInv, Shapes, Phases, Infer, Colocated, runtimeVars
<1>6. Turns'
  <2>1. /\ loop = "infer" /\ loop' = "top" /\ lastOperation' = "infer"
        /\ UNCHANGED <<pending, serveOnly, ready, version>>
    BY DEF Infer, replayVars, runtimeVars
  <2> QED
    BY <1>2, <1>3, <2>1 DEF IInv, Phases, Turns
<1>7. Room'
  <2>1. loop = "infer" /\ loop' = "top"
    BY DEF Infer
  <2> QED
    BY <1>1, <2>1 DEF IInv, Room, replayVars
<1> QED
  BY <1>1, <1>4, <1>5, <1>6, <1>7 DEF IInv

LEMMA TakeKeeps ==
    ASSUME IInv, Take
    PROVE  IInv'
<1>1. /\ Stored /\ N \in Nat /\ UNCHANGED replayVars
      /\ Stored' /\ N' = N /\ Replay!Issued' = Replay!Issued
  BY StoredFacts, BufferStays DEF IInv, Take
<1>2. queue' \in Seq(Clients) /\ taken' \subseteq Clients
  <2>1. PICK k \in 1 .. Len(queue) :
           taken' = Range(SubSeq(queue, 1, k)) /\ queue' = SubSeq(queue, k + 1, Len(queue))
    BY DEF Take
  <2>2. queue \in Seq(Clients) /\ Len(queue) \in Nat
    BY LenProperties DEF IInv, Shapes
  <2>3. SubSeq(queue, 1, k) \in Seq(Clients) /\ SubSeq(queue, k + 1, Len(queue)) \in Seq(Clients)
    BY <2>1, <2>2, SubSeqProperties
  <2>4. Range(SubSeq(queue, 1, k)) \subseteq Clients
    BY <2>3, RangeOfSeq DEF Range
  <2> QED
    BY <2>1, <2>3, <2>4
<1>3. Shapes'
  BY <1>1, <1>2 DEF IInv, Shapes, Take, runtimeVars
<1>4. Phases'
  BY <1>1 DEF IInv, Shapes, Phases, Take, Colocated, runtimeVars
<1>5. Turns'
  <2>1. loop = "take" /\ loop' = "infer" /\ waited' = waited
    BY DEF Take
  <2> QED
    BY <2>1 DEF IInv, Turns
<1>6. Room'
  <2>1. loop = "take" /\ loop' = "infer"
    BY DEF Take
  <2> QED
    BY <1>1, <2>1 DEF IInv, Room, replayVars
<1> QED
  BY <1>1, <1>3, <1>4, <1>5, <1>6 DEF IInv

\* Requests come and go without the loop.
LEMMA QueueKeeps ==
    ASSUME IInv, queue' \in Seq(Clients),
           UNCHANGED <<replayVars, taken, closed, loop, slice, pending, training, lastOperation, serveOnly,
                       runtimeVars, runDone, waited>>
    PROVE  IInv'
<1>1. /\ Stored /\ N \in Nat /\ UNCHANGED replayVars
      /\ Stored' /\ N' = N /\ Replay!Issued' = Replay!Issued
  BY StoredFacts, BufferStays DEF IInv
<1>2. Shapes'
  BY <1>1 DEF IInv, Shapes, runtimeVars
<1>3. Phases'
  BY <1>1 DEF IInv, Shapes, Phases, Colocated, runtimeVars
<1>4. Turns'
  <2>1. UNCHANGED <<loop, waited, lastOperation, pending, serveOnly, version, ready>>
    BY DEF runtimeVars, replayVars
  <2> QED
    BY <2>1 DEF IInv, Turns
<1>5. Room'
  <2>1. UNCHANGED <<loop, slice, ready, evicted>>
    BY DEF replayVars
  <2> QED
    BY <1>1, <2>1 DEF IInv, Room
<1> QED
  BY <1>1, <1>2, <1>3, <1>4, <1>5 DEF IInv

LEMMA SubmitKeeps ==
    ASSUME IInv, NEW c \in Clients, Submit(c)
    PROVE  IInv'
<1>1. queue' \in Seq(Clients)
  BY AppendProperties DEF IInv, Shapes, Submit
<1> QED
  BY <1>1, QueueKeeps DEF Submit

LEMMA WithdrawKeeps ==
    ASSUME IInv, NEW c \in Clients, Withdraw(c)
    PROVE  IInv'
<1>1. queue \in Seq(Clients) /\ Len(queue) \in Nat
  BY LenProperties DEF IInv, Shapes
<1>2. PICK I : I = {i \in 1 .. Len(queue) : queue[i] = c}
  OBVIOUS
<1>3. I \in SUBSET Nat /\ I # {}
  BY <1>1, <1>2 DEF Withdraw, Range
<1>4. PICK p \in 1 .. Len(queue) : p = Min(I) /\ queue[p] = c
  BY <1>2, <1>3, MinIsThere
<1>5. queue' = SubSeq(queue, 1, p - 1) \o SubSeq(queue, p + 1, Len(queue))
  <2>1. SelectInSeq(queue, LAMBDA v : v = c) = p
    BY <1>2, <1>3, <1>4 DEF SelectInSeq
  <2> QED
    BY <1>4, <2>1 DEF Withdraw, RemoveFirst, RemoveAt
<1>6. SubSeq(queue, 1, p - 1) \in Seq(Clients) /\ SubSeq(queue, p + 1, Len(queue)) \in Seq(Clients)
  BY <1>1, <1>4, SubSeqProperties
<1>7. queue' \in Seq(Clients)
  BY <1>5, <1>6, ConcatProperties
<1> QED
  BY <1>7, QueueKeeps DEF Withdraw
-----------------------------------------------------------------------------
(* Steps that ask the receiver, add and sample *)

\* What the receiver returns fits where a whole batch would; it stays below the
\* refill mark while it is added; and a batch that is drawn leaves its room.
LEMMA Fits ==
    /\ \A n \in Nat, k \in 0 .. BatchSize : n + BatchSize <= RefillSize => n + k <= RefillSize
    /\ \A n \in Nat, k \in 0 .. BatchSize :
          k > 0 /\ n + k <= RefillSize => n < Capacity /\ (n + 1) + (k - 1) <= RefillSize
    /\ \A n \in Nat : n + 0 <= RefillSize => (n - BatchSize) + BatchSize <= RefillSize
    /\ \A k \in 0 .. BatchSize : k > 0 => k - 1 \in 0 .. BatchSize /\ k # 0
    /\ 0 \in 0 .. BatchSize
  BY BufferAssumption

LEMMA StepsLeft == \A v \in Nat : v < MaxSteps <=> ~(v >= MaxSteps)
  BY TrainerAssumption

LEMMA BroadcastBatchKeeps ==
    ASSUME IInv, BroadcastBatch
    PROVE  IInv'
<1>1. /\ Stored /\ N \in Nat /\ UNCHANGED replayVars
      /\ Stored' /\ N' = N /\ Replay!Issued' = Replay!Issued
  BY StoredFacts, BufferStays DEF IInv, BroadcastBatch
<1>2. slice' \in 0 .. BatchSize /\ loop' = "fill" /\ (~ready => N + slice' <= RefillSize)
  BY <1>1, ReceiveFits DEF BroadcastBatch
<1>3. Shapes'
  BY <1>1, <1>2 DEF IInv, Shapes, BroadcastBatch, serviceVars, runtimeVars
<1>4. Phases'
  BY <1>1, <1>2, TrainerAssumption DEF IInv, Shapes, Phases, BroadcastBatch, MaxStepsReached, Colocated, runtimeVars
<1>5. Turns'
  <2>1. waited' = 0
    BY DEF IInv, Phases, BroadcastBatch
  <2> QED
    BY <1>2, <2>1 DEF Turns
<1>6. Room'
  <2>1. loop = "top" /\ UNCHANGED <<ready, evicted>>
    BY DEF BroadcastBatch, replayVars
  <2> QED
    BY <1>1, <1>2, <2>1, Fits DEF IInv, Room
<1> QED
  BY <1>1, <1>3, <1>4, <1>5, <1>6 DEF IInv

LEMMA BeginRoundKeeps ==
    ASSUME IInv, BeginRound
    PROVE  IInv'
<1>1. /\ Stored /\ N \in Nat /\ UNCHANGED replayVars
      /\ Stored' /\ N' = N /\ Replay!Issued' = Replay!Issued
  BY StoredFacts, BufferStays DEF IInv, BeginRound
<1>2. /\ Colocated /\ loop = "top" /\ slice = 0
      /\ version \in Nat /\ serveOnly' = (serveOnly \/ version >= MaxSteps) /\ serveOnly' \in BOOLEAN
      /\ UNCHANGED <<placement, pending, training, lastOperation, version, waited, ready, evicted>>
  BY DEF IInv, Shapes, Phases, BeginRound, ServeOnlyNow, MaxStepsReached, runtimeVars, replayVars
<1>3. \/ /\ ~serveOnly' /\ pending = {} /\ ~ready
         /\ slice' \in 0 .. BatchSize /\ loop' = "fill" /\ N + slice' <= RefillSize
      \/ /\ loop' = "choose" /\ slice' = 0
  BY <1>1, <1>2, ReceiveFits, CanSampleIsReady DEF BeginRound
<1>4. Shapes'
  BY <1>1, <1>2, <1>3, BufferAssumption DEF IInv, Shapes, BeginRound, serviceVars, runtimeVars
<1>5. Phases'
  <2>1. ~serveOnly' => version < MaxSteps
    BY <1>2, StepsLeft
  <2>2. CASE loop' = "choose" /\ slice' = 0
    BY <1>2, <2>1, <2>2 DEF IInv, Phases, Colocated
  <2>3. CASE ~serveOnly' /\ pending = {} /\ loop' = "fill"
    BY <1>2, <2>1, <2>3 DEF IInv, Phases, Colocated
  <2> QED
    BY <1>3, <2>2, <2>3
<1>6. Turns'
  <2>1. waited' = 1 => /\ lastOperation' = "infer" /\ (pending # {} \/ (~serveOnly /\ ready))
                       /\ serveOnly \/ version < MaxSteps
    BY <1>2 DEF IInv, Turns
  <2>2. waited' = 1 => serveOnly' = serveOnly
    BY <1>2, <2>1, StepsLeft DEF IInv, Shapes
  <2>3. waited' \in {0, 1}
    BY <1>2 DEF IInv, Shapes
  <2> QED
    BY <1>2, <1>3, <2>1, <2>2, <2>3 DEF Turns
<1>7. Room'
  BY <1>1, <1>2, <1>3 DEF IInv, Room
<1> QED
  BY <1>1, <1>4, <1>5, <1>6, <1>7 DEF IInv

LEMMA AddKeeps ==
    ASSUME IInv, NEW r \in Rollouts, Add(r)
    PROVE  IInv'
<1>1. /\ Stored /\ N \in Nat /\ nextEntryId \in Nat /\ slice \in 0 .. BatchSize /\ slice > 0
      /\ loop \in {"fill", "top up"} /\ Replay!Add(r) /\ slice' = slice - 1
      /\ UNCHANGED <<placement, loop, pending, training, lastOperation, serveOnly, version, waited>>
  <2>1. Stored /\ N \in Nat /\ nextEntryId \in Nat
    BY StoredFacts, BufferAssumption DEF IInv
  <2>2. slice \in 0 .. BatchSize
    BY DEF IInv, Shapes
  <2> QED
    BY <2>1, <2>2 DEF Add, runtimeVars
<1>2. /\ Stored' /\ nextEntryId' = nextEntryId + 1
      /\ N < Capacity => evicted' = evicted /\ N' = N + 1
  BY <1>1, BufferAdds
<1>3. Replay!Issued \subseteq Replay!Issued'
  <2>1. PICK n \in Nat : n = nextEntryId
    BY <1>1
  <2>2. 0 .. n - 1 \subseteq 0 .. n
    OBVIOUS
  <2>3. (n + 1) - 1 = n
    OBVIOUS
  <2> QED
    BY <1>2, <2>1, <2>2, <2>3 DEF Replay!Issued
<1>4. Shapes'
  <2>1. slice' \in 0 .. BatchSize
    BY <1>1, Fits
  <2>2. UNCHANGED <<closed, runDone, saved, served, queue, taken>>
    BY DEF Add, serviceVars, runtimeVars
  <2> QED
    BY <1>1, <1>3, <2>1, <2>2 DEF IInv, Shapes
<1>5. Phases'
  BY <1>1, BufferAssumption DEF IInv, Phases, Colocated
<1>6. Turns'
  BY <1>1 DEF IInv, Turns
<1>7. Room'
  <2>1. SUFFICES ASSUME MaxUpdates = 1 PROVE evicted' = 0 /\ N' + slice' <= RefillSize
    BY <1>1 DEF Room
  <2>2. evicted = 0 /\ N + slice <= RefillSize
    BY <1>1, <2>1 DEF IInv, Room
  <2>3. N < Capacity
    BY <1>1, <2>2, Fits
  <2> QED
    BY <1>1, <1>2, <2>2, <2>3, Fits
<1> QED
  BY <1>2, <1>4, <1>5, <1>6, <1>7 DEF IInv

\* A batch is drawn: with one update per rollout the buffer makes room for another.
LEMMA SampleMakesRoom ==
    ASSUME IInv, loop \in {"fill", "top up"}, slice = 0, NEW S \in Replay!Batches, Replay!Sample(S),
           loop' \notin {"fill", "top up"}
    PROVE  /\ Stored' /\ Room' /\ S # {} /\ S \subseteq Replay!Issued'
           /\ Replay!Issued' = Replay!Issued
<1>1. Stored /\ N \in Nat
  BY StoredFacts DEF IInv
<1>2. /\ Stored' /\ S \in SUBSET Replay!Issued /\ nextEntryId' = nextEntryId /\ evicted' = evicted
      /\ ready /\ N >= BatchSize /\ S # {}
      /\ MaxUpdates = 1 => N' = N - BatchSize
  BY <1>1, BufferSamples
<1>3. Replay!Issued' = Replay!Issued
  BY <1>2 DEF Replay!Issued
<1>4. Room'
  <2>1. SUFFICES ASSUME MaxUpdates = 1 PROVE evicted' = 0 /\ N' + BatchSize <= RefillSize
    BY DEF Room
  <2>2. evicted = 0 /\ N + 0 <= RefillSize
    BY <2>1 DEF IInv, Room
  <2> QED
    BY <1>1, <1>2, <2>1, <2>2, Fits
<1> QED
  BY <1>2, <1>3, <1>4

LEMMA SampleAfterFillKeeps ==
    ASSUME IInv, SampleAfterFill
    PROVE  IInv'
<1>1. /\ ~Colocated /\ loop = "fill" /\ slice = 0
      /\ UNCHANGED <<placement, slice, pending, lastOperation, serveOnly, queue, taken, closed, version, saved, served, runDone, waited>>
  BY DEF SampleAfterFill, runtimeVars, serviceVars
<1>2. waited' = 0
  BY <1>1 DEF IInv, Turns
<1>3. CASE /\ \E S \in Replay!Batches : Replay!Sample(S) /\ training' = S
           /\ loop' = "train"
  <2>1. PICK S \in Replay!Batches : Replay!Sample(S) /\ training' = S
    BY <1>3
  <2>2. Stored' /\ Room' /\ S \subseteq Replay!Issued' /\ Replay!Issued' = Replay!Issued
    BY <1>1, <1>3, <2>1, SampleMakesRoom
  <2>3. Shapes'
    BY <1>1, <1>3, <2>1, <2>2 DEF IInv, Shapes
  <2>4. Phases'
    BY <1>1, <1>3 DEF IInv, Phases, Colocated
  <2>5. Turns'
    BY <1>2, <1>3 DEF Turns
  <2> QED
    BY <2>2, <2>3, <2>4, <2>5 DEF IInv
<1>4. CASE ~Replay!CanSample /\ loop' = "top" /\ UNCHANGED <<replayVars, training>>
  <2>1. Stored /\ Stored' /\ N' = N /\ Replay!Issued' = Replay!Issued /\ ~ready
    BY <1>4, BufferStays, CanSampleIsReady DEF IInv
  <2>2. Shapes'
    BY <1>1, <1>4, <2>1 DEF IInv, Shapes
  <2>3. Phases'
    BY <1>1, <1>4 DEF IInv, Phases, Colocated
  <2>4. Turns'
    BY <1>2, <1>4 DEF Turns
  <2>5. Room'
    BY <1>4, <2>1 DEF IInv, Room, replayVars
  <2> QED
    BY <2>1, <2>2, <2>3, <2>4, <2>5 DEF IInv
<1> QED
  BY <1>3, <1>4 DEF SampleAfterFill

LEMMA ReserveKeeps ==
    ASSUME IInv, Reserve
    PROVE  IInv'
<1>1. /\ Colocated /\ loop = "fill" /\ slice = 0 /\ loop' = "choose" /\ Stored
      /\ UNCHANGED <<placement, slice, training, lastOperation, serveOnly, queue, taken, closed, version, saved, served, runDone, waited>>
  BY DEF IInv, Reserve, runtimeVars, serviceVars
<1>2. waited' = 0 /\ pending = {} /\ version < MaxSteps
  BY <1>1 DEF IInv, Phases, Turns
<1>3. /\ Stored' /\ Room' /\ Replay!Issued' = Replay!Issued /\ pending' \subseteq Replay!Issued'
  <2>1. CASE \E S \in Replay!Batches : Replay!Sample(S) /\ pending' = S
    BY <1>1, <2>1, SampleMakesRoom
  <2>2. CASE ~Replay!CanSample /\ UNCHANGED <<replayVars, pending>>
    <3>1. Stored' /\ N' = N /\ Replay!Issued' = Replay!Issued /\ ~ready
      BY <1>1, <2>2, BufferStays, CanSampleIsReady
    <3>2. Room'
      BY <1>1, <2>2, <3>1 DEF IInv, Room, replayVars
    <3> QED
      BY <1>2, <2>2, <3>1, <3>2
  <2> QED
    BY <2>1, <2>2 DEF Reserve
<1>4. Shapes'
  BY <1>1, <1>3 DEF IInv, Shapes
<1>5. Phases'
  BY <1>1, <1>2 DEF IInv, Phases, Colocated
<1>6. Turns'
  BY <1>1, <1>2 DEF Turns
<1> QED
  BY <1>3, <1>4, <1>5, <1>6 DEF IInv

LEMMA SampleAfterTopUpKeeps ==
    ASSUME IInv, SampleAfterTopUp
    PROVE  IInv'
<1>1. /\ loop = "top up" /\ slice = 0 /\ loop' = "train"
      /\ UNCHANGED <<placement, slice, pending, lastOperation, serveOnly, queue, taken, closed, version, saved, served, runDone, waited>>
  BY DEF SampleAfterTopUp, runtimeVars, serviceVars
<1>2. PICK S \in Replay!Batches : Replay!Sample(S) /\ training' = S
  BY DEF SampleAfterTopUp
<1>3. Stored' /\ Room' /\ S \subseteq Replay!Issued' /\ Replay!Issued' = Replay!Issued
  BY <1>1, <1>2, SampleMakesRoom
<1>4. Shapes'
  BY <1>1, <1>2, <1>3 DEF IInv, Shapes
<1>5. Phases'
  BY <1>1 DEF IInv, Phases, Colocated
<1>6. Turns'
  BY <1>1 DEF Turns
<1> QED
  BY <1>3, <1>4, <1>5, <1>6 DEF IInv

LEMMA ChooseKeeps ==
    ASSUME IInv, Choose
    PROVE  IInv'
<1>1. /\ Stored /\ N \in Nat /\ loop = "choose" /\ slice = 0
      /\ Stored' /\ N' = N /\ Replay!Issued' = Replay!Issued
      /\ UNCHANGED <<placement, lastOperation, serveOnly, queue, taken, closed, version, saved, served,
                     runDone, waited, ready, evicted>>
  <2>1. Stored /\ N \in Nat /\ UNCHANGED replayVars
    BY StoredFacts DEF IInv, Choose
  <2>2. loop = "choose" /\ slice = 0
    BY DEF IInv, Phases, Choose
  <2> QED
    BY <2>1, <2>2, BufferStays DEF Choose, replayVars, serviceVars, runtimeVars
<1>2. HasTraining <=> pending # {} \/ (~serveOnly /\ ready)
  BY <1>1, CanSampleIsReady DEF HasTraining
<1>3. /\ waited = 1 => lastOperation = "infer" /\ HasTraining
      /\ waited \in {0, 1}
  BY <1>1, <1>2 DEF IInv, Shapes, Turns
<1>4. /\ ChooseNextOperation = "infer" => waited = 0
      /\ ChooseNextOperation = "train" => HasTraining
      /\ ChooseNextOperation = "none" => waited = 0
  BY <1>3 DEF ChooseNextOperation
<1>5. CASE ChooseNextOperation = "infer" /\ loop' = "take" /\ UNCHANGED <<slice, pending, training>>
  <2>1. Shapes'
    BY <1>1, <1>5 DEF IInv, Shapes
  <2>2. Phases'
    BY <1>1, <1>5 DEF IInv, Phases, Colocated
  <2>3. Turns'
    BY <1>1, <1>4, <1>5 DEF Turns
  <2>4. Room'
    BY <1>1, <1>5 DEF IInv, Room
  <2> QED
    BY <1>1, <2>1, <2>2, <2>3, <2>4 DEF IInv
<1>6. CASE pending # {} /\ loop' = "train" /\ training' = pending /\ pending' = {} /\ UNCHANGED slice
  <2>1. Shapes'
    BY <1>1, <1>6 DEF IInv, Shapes
  <2>2. Phases'
    BY <1>1, <1>6 DEF IInv, Phases, Colocated
  <2>3. Turns'
    BY <1>6 DEF Turns
  <2>4. Room'
    BY <1>1, <1>6 DEF IInv, Room
  <2> QED
    BY <1>1, <2>1, <2>2, <2>3, <2>4 DEF IInv
<1>7. CASE /\ ChooseNextOperation = "train" /\ pending = {}
           /\ Receive("top up")
           /\ UNCHANGED <<pending, training>>
  <2>1. slice' \in 0 .. BatchSize /\ loop' = "top up" /\ ~serveOnly /\ ready
    BY <1>1, <1>2, <1>4, <1>7, ReceiveFits
  <2>2. Shapes'
    BY <1>1, <1>7, <2>1 DEF IInv, Shapes
  <2>3. Phases'
    BY <1>1, <1>7, <2>1 DEF IInv, Phases, Colocated
  <2>4. Turns'
    BY <2>1 DEF Turns
  <2>5. Room'
    <3>1. MaxUpdates = 1 => evicted = 0 /\ N + BatchSize <= RefillSize
      BY <1>1, <2>1 DEF IInv, Room
    <3>2. MaxUpdates = 1 => N + slice' <= RefillSize
      BY <1>1, <2>1, <3>1, Fits
    <3> QED
      BY <1>1, <2>1, <3>1, <3>2 DEF Room
  <2> QED
    BY <1>1, <2>2, <2>3, <2>4, <2>5 DEF IInv
<1>8. CASE ChooseNextOperation = "none" /\ loop' = "top" /\ UNCHANGED <<slice, pending, training>>
  <2>1. Shapes'
    BY <1>1, <1>8 DEF IInv, Shapes
  <2>2. Phases'
    BY <1>1, <1>8 DEF IInv, Phases, Colocated
  <2>3. Turns'
    BY <1>1, <1>4, <1>8 DEF Turns
  <2>4. Room'
    BY <1>1, <1>8 DEF IInv, Room
  <2> QED
    BY <1>1, <2>1, <2>2, <2>3, <2>4 DEF IInv
<1> QED
  BY <1>5, <1>6, <1>7, <1>8 DEF Choose
-----------------------------------------------------------------------------
LEMMA InitKeeps == Init => IInv
<1> SUFFICES ASSUME Init PROVE IInv
  OBVIOUS
<1>1. Stored /\ N = 0 /\ ~ready /\ evicted = 0
  BY BufferInit DEF Init
<1>2. /\ version \in Nat /\ version \in 0 .. version /\ saved = version /\ served = version
      /\ serveOnly \in BOOLEAN
  BY TrainerAssumption DEF Init, MaxStepsReached
<1>3. Shapes
  <2>1. queue \in Seq(Clients)
    BY EmptySeq DEF Init
  <2> QED
    BY <1>2, <2>1, Fits DEF Init, Shapes
<1>4. Phases
  BY DEF Init, Phases
<1>5. Turns
  BY DEF Init, Turns
<1>6. Room
  BY <1>1 DEF Init, Room
<1> QED
  BY <1>1, <1>3, <1>4, <1>5, <1>6 DEF IInv

LEMMA NextKeeps ==
    ASSUME IInv, [Next]_vars
    PROVE  IInv'
<1>1. CASE \E r \in Rollouts : Add(r)
  BY <1>1, AddKeeps
<1>2. CASE BroadcastBatch \/ SampleAfterFill \/ LoopEnds
  BY <1>2, BroadcastBatchKeeps, SampleAfterFillKeeps, LoopEndsKeeps
<1>3. CASE Stop \/ TrainReserved \/ BeginRound \/ Reserve \/ Choose \/ SampleAfterTopUp
  BY <1>3, StopKeeps, TrainReservedKeeps, BeginRoundKeeps, ReserveKeeps, ChooseKeeps, SampleAfterTopUpKeeps
<1>4. CASE Take \/ TakeNone \/ Infer \/ Train \/ Finish
  BY <1>4, TakeKeeps, TakeNoneKeeps, InferKeeps, TrainKeeps, FinishKeeps
<1>5. CASE Raise \/ RunDone
  BY <1>5, RaiseKeeps, RunDoneKeeps
<1>6. CASE \E c \in Clients : Submit(c) \/ Withdraw(c)
  BY <1>6, SubmitKeeps, WithdrawKeeps
<1>7. CASE UNCHANGED vars
  <2>1. UNCHANGED <<replayVars, taken, closed, loop, slice, pending, training, lastOperation, serveOnly,
                    runtimeVars, runDone, waited>> /\ queue' = queue
    BY <1>7 DEF vars, serviceVars
  <2>2. queue' \in Seq(Clients)
    BY <2>1 DEF IInv, Shapes
  <2> QED
    BY <2>1, <2>2, QueueKeeps
<1> QED
  BY <1>1, <1>2, <1>3, <1>4, <1>5, <1>6, <1>7 DEF Next, Loop

\* The inductive invariant of the loop, for either placement.
THEOREM TrainerInductive == Spec => []IInv
  BY InitKeeps, NextKeeps, PTL DEF Spec

\* The variables keep their types; the version that is served or published is
\* always the last one trained, and a possible update waits for at most one
\* inference batch, whatever the requests do.
THEOREM TrainerTypes == Spec => []TypeOK
<1>1. IInv => TypeOK
  <2> SUFFICES ASSUME IInv PROVE TypeOK
    OBVIOUS
  <2>1. Replay!TypeOK
    <3>1. Buffer!TypeOK
      BY DEF IInv, Stored, Buffer!IInv
    <3> QED
      BY <3>1, SameState DEF Buffer!TypeOK, Replay!TypeOK
  <2>2. Range(queue) \subseteq Clients
    BY RangeOfSeq DEF IInv, Shapes, Range
  <2>3. /\ version \in Nat /\ saved \in 0 .. version /\ served \in 0 .. version
        /\ loop # "raised" => served = version
    BY DEF IInv, Shapes
  <2>4. waited <= 1
    <3>1. waited = 0 \/ waited = 1
      BY DEF IInv, Shapes
    <3> QED
      BY <3>1
  <2>5. {serveOnly, closed, runDone} \subseteq BOOLEAN /\ pending \cup training \subseteq Replay!Issued
    BY DEF IInv, Shapes
  <2> QED
    BY <2>1, <2>2, <2>3, <2>4, <2>5 DEF IInv, Shapes, TypeOK
<1> QED
  BY <1>1, TrainerInductive, PTL

\* With one update per rollout nothing is displaced before it was trained on,
\* and every batch that is drawn can be stepped, also the one that was reserved
\* when the policy run ended.
THEOREM TrainerNothingInVain == Spec => []NothingInVain
<1>1. IInv => NothingInVain
  <2> SUFFICES ASSUME IInv PROVE NothingInVain
    OBVIOUS
  <2>1. MaxUpdates = 1 => evicted = 0
    BY DEF IInv, Room
  <2>2. version \in Nat /\ (pending # {} \/ loop = "train" => version < MaxSteps)
    BY DEF IInv, Shapes, Phases
  <2>3. pending # {} \/ loop = "train" => ~MaxStepsReached
    BY <2>2, StepsLeft DEF MaxStepsReached
  <2> QED
    BY <2>1, <2>3 DEF NothingInVain
<1> QED
  BY <1>1, TrainerInductive, PTL

\* How far the last checkpoint is behind: never back over a multiple of the interval.
Unsaved ==
    /\ loop # "raised" => version <= saved + (version % CkptInterval)
    /\ loop = "raised" => version <= saved + CkptInterval
    /\ loop = "done" \/ (loop # "raised" /\ version >= MaxSteps) => saved = version

\* A number has one quotient and one remainder.
LEMMA OneRemainder ==
    ASSUME NEW k \in Int, k > 0, NEW q \in Int, NEW p \in Int, NEW m \in 0 .. k - 1, NEW n \in 0 .. k - 1,
           k * q + m = k * p + n
    PROVE  m = n
  BY SMTT(30)

LEMMA Remainder ==
    ASSUME NEW k \in Nat \ {0}, NEW v \in Nat
    PROVE  /\ v % k \in 0 .. k - 1
           /\ (v + 1) % k # 0 => (v + 1) % k = (v % k) + 1
<1>1. PICK q \in Int, m \in Int : q = v \div k /\ m = v % k
  OBVIOUS
<1>2. PICK p \in Int, n \in Int : p = (v + 1) \div k /\ n = (v + 1) % k
  OBVIOUS
<1>3. v = k * q + m /\ m \in 0 .. k - 1
  BY <1>1
<1>4. v + 1 = k * p + n /\ n \in 0 .. k - 1
  BY <1>2
<1>5. CASE m + 1 \in 0 .. k - 1
  <2>1. PICK r \in 0 .. k - 1 : r = m + 1
    BY <1>5
  <2>2. k * q + r = k * p + n /\ k \in Int /\ k > 0
    BY <1>3, <1>4, <2>1
  <2>3. r = n
    BY <1>4, <2>2, OneRemainder, Zenon
  <2> QED
    BY <1>1, <1>2, <1>3, <2>1, <2>3
<1>6. CASE m + 1 = k
  <2>1. k * q + k = k * (q + 1) + 0
    OBVIOUS
  <2>2. /\ k * (q + 1) + 0 = k * p + n /\ q + 1 \in Int
        /\ k \in Int /\ k > 0 /\ 0 \in 0 .. k - 1
    BY <1>3, <1>4, <1>6, <2>1
  <2>3. 0 = n
    BY <1>4, <2>2, OneRemainder, Zenon
  <2> QED
    BY <1>1, <1>2, <1>3, <2>3
<1> QED
  BY <1>3, <1>5, <1>6

LEMMA RemainderOfVersion ==
    ASSUME Shapes
    PROVE  /\ version \in Nat /\ saved \in Nat /\ CkptInterval \in Nat
           /\ version % CkptInterval \in 0 .. CkptInterval - 1
<1>1. version \in Nat /\ saved \in Nat /\ CkptInterval \in Nat \ {0}
  <2>1. version \in Nat /\ saved \in 0 .. version
    BY DEF Shapes
  <2>2. saved \in Nat
    BY <2>1
  <2> QED
    BY <2>1, <2>2, TrainerAssumption
<1>2. version % CkptInterval \in 0 .. CkptInterval - 1
  BY <1>1, Remainder, Zenon
<1> QED
  BY <1>1, <1>2

LEMMA UpdateSavesInTime ==
    ASSUME Shapes, Unsaved, loop = "train", version' = version + 1
    PROVE  /\ version' <= saved + CkptInterval
           /\ SavedAfter(version') \in {saved, version'}
           /\ version' <= SavedAfter(version') + (version' % CkptInterval)
           /\ version' >= MaxSteps => SavedAfter(version') = version'
<1>1. /\ version \in Nat /\ saved \in Nat /\ version' \in Nat /\ CkptInterval \in Nat
      /\ version <= saved + (version % CkptInterval)
  BY TrainerAssumption DEF Shapes, Unsaved
<1>2. PICK m \in Nat, n \in Nat :
        /\ m = version % CkptInterval /\ n = version' % CkptInterval
        /\ m < CkptInterval /\ (n # 0 => n = m + 1)
  <2>1. CkptInterval \in Nat \ {0}
    BY TrainerAssumption
  <2>2. /\ version % CkptInterval \in 0 .. CkptInterval - 1 /\ version' % CkptInterval \in 0 .. CkptInterval - 1
        /\ (version + 1) % CkptInterval # 0 => (version + 1) % CkptInterval = (version % CkptInterval) + 1
    BY <1>1, <2>1, Remainder, Zenon
  <2> QED
    BY <2>1, <2>2
<1>3. version' <= saved + CkptInterval
  BY <1>1, <1>2
<1>4. n # 0 => version' <= saved + n
  BY <1>1, <1>2
<1>5. version' <= version' + n
  BY <1>1, <1>2
<1> QED
  BY <1>2, <1>3, <1>4, <1>5 DEF SavedAfter, CheckpointDue

LEMMA UnsavedKeeps ==
    ASSUME IInv, Unsaved, [Next]_vars
    PROVE  Unsaved'
<1>1. /\ version \in Nat /\ saved \in Nat /\ CkptInterval \in Nat
      /\ version % CkptInterval \in 0 .. CkptInterval - 1
  BY RemainderOfVersion DEF IInv
<1>2. CASE UNCHANGED <<version, saved>> /\ (loop' = loop \/ (loop' \notin {"done", "raised"} /\ loop \notin {"done", "raised"}))
  BY <1>2 DEF Unsaved
<1>3. CASE Train
  <2>1. loop = "train" /\ loop' = "top"
    BY <1>3 DEF Train
  <2>2. CASE UNCHANGED <<version, saved>>
    BY <2>1, <2>2 DEF Unsaved
  <2>3. CASE version' = version + 1 /\ saved' = SavedAfter(version')
    BY <2>1, <2>3, UpdateSavesInTime DEF IInv, Unsaved
  <2> QED
    BY <1>3, <2>2, <2>3 DEF Train, runtimeVars
<1>4. CASE Finish
  <2>1. loop = "finish" /\ loop' = "done" /\ version' = version /\ saved \in 0 .. version
    BY <1>4 DEF IInv, Shapes, Finish
  <2>2. saved' = version
    BY <1>1, <1>4, <2>1 DEF Finish, FinalIsSaved
  <2> QED
    BY <1>1, <2>1, <2>2 DEF Unsaved
<1>5. CASE Raise
  <2>1. loop \notin {"done", "raised"} /\ loop' = "raised"
    BY <1>5 DEF Raise
  <2>2. version <= saved + CkptInterval
    BY <1>1, <2>1 DEF Unsaved
  <2>3. CASE UNCHANGED <<version, saved>>
    BY <2>1, <2>2, <2>3 DEF Unsaved
  <2>4. CASE HalfUpdate
    <3>1. loop = "train" /\ version' = version + 1 /\ saved' \in {saved, SavedAfter(version')}
      BY <2>4 DEF HalfUpdate
    <3>2. version' <= saved + CkptInterval /\ SavedAfter(version') \in {saved, version'}
      BY <3>1, UpdateSavesInTime DEF IInv
    <3>3. version' <= version' + CkptInterval
      BY <1>1, <3>1
    <3> QED
      BY <2>1, <3>1, <3>2, <3>3 DEF Unsaved
  <2> QED
    BY <1>5, <2>3, <2>4 DEF Raise, runtimeVars
<1>6. CASE \E r \in Rollouts : Add(r)
  BY <1>2, <1>6 DEF Add, runtimeVars
<1>7. CASE BroadcastBatch \/ BeginRound \/ Choose
  BY <1>2, <1>7 DEF BroadcastBatch, BeginRound, Choose, Receive, runtimeVars
<1>8. CASE SampleAfterFill \/ Reserve \/ SampleAfterTopUp
  BY <1>2, <1>8 DEF SampleAfterFill, Reserve, SampleAfterTopUp, runtimeVars
<1>9. CASE LoopEnds \/ Stop \/ TrainReserved \/ Take \/ TakeNone \/ Infer
  BY <1>2, <1>9 DEF LoopEnds, Stop, TrainReserved, Take, TakeNone, Infer, runtimeVars
<1>10. CASE RunDone \/ UNCHANGED vars
  BY <1>2, <1>10 DEF RunDone, vars, runtimeVars
<1>11. CASE \E c \in Clients : Submit(c) \/ Withdraw(c)
  BY <1>2, <1>11 DEF Submit, Withdraw, runtimeVars
<1> QED
  BY <1>3, <1>4, <1>5, <1>6, <1>7, <1>8, <1>9, <1>10, <1>11 DEF Next, Loop

\* For any interval, last step and resumed version, a process that fails loses less
\* than an interval of updates, or an interval if its checkpoint was what failed,
\* and one that has made its last step, or ended in order, loses none.
THEOREM TrainerLittleIsLost == Spec => []LittleIsLost
<1>1. Init => Unsaved
  <2> SUFFICES ASSUME Init PROVE Unsaved
    OBVIOUS
  <2>1. version \in Nat /\ saved = version /\ loop = "top"
    BY TrainerAssumption DEF Init
  <2>2. version % CkptInterval \in 0 .. CkptInterval - 1
    BY <2>1, TrainerAssumption, Remainder
  <2> QED
    BY <2>1, <2>2 DEF Unsaved
<1>2. IInv /\ Unsaved => LittleIsLost
  <2> SUFFICES ASSUME IInv, Unsaved PROVE LittleIsLost
    OBVIOUS
  <2>1. /\ version \in Nat /\ saved \in Nat /\ CkptInterval \in Nat
        /\ version % CkptInterval \in 0 .. CkptInterval - 1
    BY RemainderOfVersion DEF IInv
  <2>2. version - saved <= CkptInterval
    BY <2>1 DEF Unsaved
  <2>3. loop # "raised" => version - saved < CkptInterval
    BY <2>1 DEF Unsaved
  <2> QED
    BY <2>2, <2>3 DEF Unsaved, LittleIsLost, MaxStepsReached
<1> QED
  BY <1>1, <1>2, TrainerInductive, UnsavedKeeps, PTL DEF Spec
===============================================================================
