----------------------------- MODULE ValueReplay -----------------------------
(***************************************************************************)
(* ValueReplayBuffer (src/prime_rl/value/replay.py): the critic's bounded  *)
(* replay of finalized rollouts.  Admission is FIFO and evicts the oldest  *)
(* resident at capacity; sampling is uniform without replacement; a        *)
(* rollout is retired after MaxUpdates selections; and training is gated   *)
(* by hysteresis: once the buffer drops below BatchSize it stays closed    *)
(* until it has refilled to RefillSize.                                    *)
(*                                                                         *)
(* An entry is its entry id.  OrderedDict order is id order, because ids   *)
(* are handed out in increasing order, so "oldest" is the least id.  Of a  *)
(* rollout the buffer reads only how many samples and tokens it has.       *)
(***************************************************************************)
EXTENDS Integers, FiniteSets, FiniteSetsExt

CONSTANTS
    BatchSize,      \* rollouts per training batch
    Capacity,       \* most rollouts resident at once
    RefillSize,     \* residents needed before sampling starts (again)
    MaxUpdates,     \* selections after which a rollout is retired
    Rollouts,       \* the rollouts that may be offered for admission
    NumSamples,     \* samples of each rollout; add() raises on a rollout with none
    NumTokens,      \* tokens of each rollout
    MaxAdmitted     \* bound: rollouts admitted in one behaviour

\* __init__ raises on every other setting of the four sizes.
ASSUME ReplayAssumption ==
    /\ BatchSize \in Nat \ {0}
    /\ Capacity \in Nat
    /\ RefillSize \in Nat
    /\ BatchSize <= RefillSize
    /\ RefillSize <= Capacity
    /\ MaxUpdates \in Nat \ {0}
    /\ NumSamples \in [Rollouts -> Nat \ {0}]
    /\ NumTokens \in [Rollouts -> Nat]
    /\ MaxAdmitted \in Nat

VARIABLES
    entries,        \* ids of the resident entries
    rollout,        \* rollout[i]: what was stored under id i
    attempts,       \* attempts[i]: how often entry i has been selected
    nextEntryId,    \* _next_entry_id, and _admitted, which moves with it
    ready,          \* the hysteresis bit
    samples, tokens,                    \* totals over the residents
    totalAttempts, retired, evicted,    \* counters of the snapshot
    batch           \* ids of the batch that the last sample() returned

vars == <<entries, rollout, attempts, nextEntryId, ready, samples, tokens,
          totalAttempts, retired, evicted, batch>>

\* Every id handed out so far; rollout and attempts are defined on these.
Issued == 0 .. nextEntryId - 1

Size == Cardinality(entries)

CanSample == ready /\ Size >= BatchSize

AdmissionLimit ==
    IF CanSample
    THEN BatchSize
    ELSE Min({BatchSize, Max({RefillSize - Size, 0})})

\* The gate after an admission and after a selection, with n entries left.
GateAfterAdd(n) == ready \/ n >= RefillSize

\* Mutant: sample() forgets to close the gate.
BadGateAfterSample(n) == ready

GateAfterSample(n) == ready /\ n >= BatchSize

SamplesIn(S) == MapThenSumSet(LAMBDA i : NumSamples[rollout[i]], S)
TokensIn(S)  == MapThenSumSet(LAMBDA i : NumTokens[rollout[i]], S)

\* Mutant: what leaves stays in the totals.
GrowTotals(out, inSamples, inTokens) == samples' = samples + inSamples /\ tokens' = tokens + inTokens

\* _remove_totals for the entries that leave, plus the totals of the one that enters.
UpdateTotals(out, inSamples, inTokens) ==
    /\ samples' = samples - SamplesIn(out) + inSamples
    /\ tokens' = tokens - TokensIn(out) + inTokens
-----------------------------------------------------------------------------
Init ==
    /\ entries = {}
    /\ rollout = [i \in {} |-> 0]
    /\ attempts = [i \in {} |-> 0]
    /\ nextEntryId = 0
    /\ ready = FALSE
    /\ samples = 0
    /\ tokens = 0
    /\ totalAttempts = 0
    /\ retired = 0
    /\ evicted = 0
    /\ batch = {}

\* Mutants: the buffer grows one past capacity; it makes room at a batch.
LateEvictees ==
    IF Size > Capacity THEN {i \in entries : \A j \in entries : i <= j} ELSE {}
EarlyEvictees ==
    IF Size >= BatchSize THEN {i \in entries : \A j \in entries : i <= j} ELSE {}

(***************************************************************************)
(* The entries that add() throws out to make room: none, or the oldest     *)
(* resident of a full buffer.                                              *)
(***************************************************************************)
Evictees ==
    IF Size = Capacity
    THEN {i \in entries : \A j \in entries : i <= j}
    ELSE {}

\* add: make room, store the rollout under a fresh id, open the gate at RefillSize.
Add(r) ==
    /\ nextEntryId < MaxAdmitted
    /\ entries' = (entries \ Evictees) \cup {nextEntryId}
    /\ evicted' = evicted + Cardinality(Evictees)
    /\ rollout' = [i \in 0 .. nextEntryId |-> IF i = nextEntryId THEN r ELSE rollout[i]]
    /\ attempts' = [i \in 0 .. nextEntryId |-> IF i = nextEntryId THEN 0 ELSE attempts[i]]
    /\ nextEntryId' = nextEntryId + 1
    /\ UpdateTotals(Evictees, NumSamples[r], NumTokens[r])
    /\ ready' = GateAfterAdd(Cardinality(entries'))
    /\ UNCHANGED <<totalAttempts, retired, batch>>

\* Mutant: a batch of one too many.
LargeBatches == kSubset(BatchSize + 1, entries)

\* rng.sample: any batch_size distinct residents.
Batches == kSubset(BatchSize, entries)

\* Mutants: nothing is retired; the attempt just made is not counted.
NoneSpent(S) == {}
LateSpent(S) == {i \in S : attempts[i] = MaxUpdates}

\* The members of a selection that this selection uses up.
Spent(S) == {i \in S : attempts[i] + 1 = MaxUpdates}

\* sample: select a batch S, charge every member, retire the spent ones, close
\* the gate when what is left cannot fill another batch.
Sample(S) ==
    /\ CanSample
    /\ batch' = S
    /\ attempts' = [i \in Issued |-> IF i \in S THEN attempts[i] + 1 ELSE attempts[i]]
    /\ totalAttempts' = totalAttempts + Cardinality(S)
    /\ entries' = entries \ Spent(S)
    /\ retired' = retired + Cardinality(Spent(S))
    /\ UpdateTotals(Spent(S), 0, 0)
    /\ ready' = GateAfterSample(Cardinality(entries'))
    /\ UNCHANGED <<rollout, nextEntryId, evicted>>

Next ==
    \/ \E r \in Rollouts : Add(r)
    \/ \E S \in Batches : Sample(S)

Spec == Init /\ [][Next]_vars

\* The trainer keeps sampling while it can; arrivals are up to the environment.
FairSpec == Spec /\ WF_vars(\E S \in Batches : Sample(S))
-----------------------------------------------------------------------------
(***************************************************************************)
(* Properties.                                                             *)
(***************************************************************************)
\* Every variable keeps its type, and only ids that were handed out are stored
\* or selected.
TypeOK ==
    /\ nextEntryId \in 0 .. MaxAdmitted
    /\ entries \in SUBSET Issued
    /\ batch \in SUBSET Issued
    /\ rollout \in [Issued -> Rollouts]
    /\ attempts \in [Issued -> 0 .. MaxUpdates]
    /\ ready \in BOOLEAN
    /\ totalAttempts \in Nat /\ retired \in Nat /\ evicted \in Nat

\* Hysteresis never wedges: an open gate always has a full batch behind it, and
\* a closed one is short of the refill mark, so the coordinator's next pull asks
\* for at least one rollout.  A closed gate at or above RefillSize would ask for
\* none and stop the critic for good.
GateIsConsistent ==
    /\ ready => Size >= BatchSize
    /\ ~ready => Size < RefillSize

\* The next pull asks for at least one rollout, and for no more than a batch.
AdmissionNeverStalls == AdmissionLimit \in 1 .. BatchSize

\* Admitted rollouts are resident, retired or evicted, each exactly one of
\* them, and the buffer never exceeds its capacity; and the running totals, which
\* add() and _remove_totals keep, are the sizes of the residents.
CountsInStep ==
    /\ nextEntryId = Size + retired + evicted
    /\ Size <= Capacity
TotalsInStep == samples = SamplesIn(entries) /\ tokens = TokensIn(entries)
RolloutsAccountedFor == CountsInStep /\ TotalsInStep

\* A rollout is trained on at most MaxUpdates times, and a resident still has an
\* update left: what has been selected MaxUpdates times is gone, also when the
\* selection and an eviction race for it.
ReuseIsBounded ==
    /\ \A i \in entries : attempts[i] < MaxUpdates
    /\ retired = Cardinality({i \in Issued : attempts[i] = MaxUpdates})

\* Data is thrown away unseen only while the critic is able to train: a full
\* buffer always has its gate open.
EvictOnlyWhileTraining == [][evicted' # evicted => CanSample]_vars

\* A rollout that has left never comes back and is never selected again.
DepartureIsFinal ==
    [][\A i \in Issued \ entries :
          i \notin entries' /\ attempts'[i] = attempts[i] /\ (batch' # batch => i \notin batch')]_vars

\* How a rollout may leave: unseen only while the critic can train, and for good.
DeparturesAreLegal == EvictOnlyWhileTraining /\ DepartureIsFinal

\* Without new arrivals the trainer drains the buffer until the gate closes.
DrainsWithoutArrivals == (nextEntryId = MaxAdmitted) ~> ~CanSample
=============================================================================
