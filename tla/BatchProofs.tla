---------------------------- MODULE BatchProofs ----------------------------
(***************************************************************************)
(* Proofs about the way of a batch: the sinks and the main loop that form  *)
(* it (RolloutSinks), and the packer and the ranks that train it           *)
(* (MultiRun), for any value of their constants.                           *)
(*                                                                         *)
(* A rollout joins the queue of its sink when its group is complete, so    *)
(* that nothing in the queue, in a batch or shipped belongs to a group     *)
(* that can still grow: what was found out about it then (Scored) stays    *)
(* true.                                                                   *)
(*                                                                         *)
(* In the trainer every index belongs to one run, and what lies under it   *)
(* was received and buffered in the order of that run's steps (RunBase).   *)
(* That the ranks, the adapters and the packed samples belong to the run   *)
(* the master has there now also needs that a run that is over does not    *)
(* return under its name (RunOnce): a fact about directories, MaxLives = 1.*)
(***************************************************************************)
EXTENDS RolloutSinks, MultiRun, Sums

-----------------------------------------------------------------------------
(* The sinks *)
Kinds == {"failed", "bare", "prefiltered", "postfiltered", "good"}

Shapes ==
    /\ arrived \in [Groups -> 0 .. GroupSize]
    /\ quality \in [AllRollouts -> Kinds \cup {"none"}]
    /\ \A r \in AllRollouts : quality[r] \in Qualities[r[1]] \cup {"none"}
    /\ valueVersion \in [AllRollouts -> Nat \cup {Unscored}] /\ evaluator \in Nat
    /\ pendingBatch \in Seq(AllRollouts) /\ IsInjective(pendingBatch)
    /\ pendingTokens = Weigh(Range(pendingBatch)) /\ lastEmptyProgress \in Nat

MainLoop ==
    /\ emptyBatches \in 0 .. MaxEmptyBatches /\ step \in 1 .. MaxSteps + 1
    /\ loop \in {"run", "draining", "raised"}
    /\ loop # "raised" => emptyBatches < MaxEmptyBatches

\* What was dropped and has not been reported.
Unreported == Settled(window, pendingBatch, pendingGroups)

Windows ==
    /\ window \subseteq AllRollouts /\ IsFiniteSet(window)
    /\ pendingGroups = {g \in Groups : arrived[g] \in 1 .. GroupSize - 1}
    /\ reports \in Seq(SUBSET AllRollouts)
    /\ ReportedOnce

\* What is known of a rollout that has left its group.
Scored(x) ==
    /\ x \in AllRollouts /\ arrived[x[1]] = GroupSize
    /\ NeedsAll(x[1]) => \A s \in Members(x[1]) : quality[s] \notin {"failed", "bare"}
    /\ Cardinality(Usable(x[1], quality)) >= MinGroupSize[x[1]]
    /\ x[1] \in ValueGroups => x \in offered /\ valueVersion[x] \in Nat

Shipments == [samples : SUBSET AllRollouts, rollouts : SUBSET AllRollouts]

\* The queue, the batch in hand and what has shipped are apart.
Queues ==
    /\ offered \subseteq Arrived
    /\ \A x \in Range(pendingBatch) : Scored(x)
    /\ batch # None =>
          /\ batch.samples \subseteq AllRollouts /\ batch.rollouts \subseteq AllRollouts
          /\ \A x \in batch.samples : Scored(x) /\ quality[x] = "good" /\ x \notin Range(pendingBatch)

Shipped ==
    /\ shipped \in Seq(Shipments)
    /\ \A i, j \in 1 .. Len(shipped) : i # j => shipped[i].samples \cap shipped[j].samples = {}
    /\ \A i \in 1 .. Len(shipped) : \A x \in shipped[i].samples :
          /\ Scored(x) /\ quality[x] = "good" /\ x \notin Range(pendingBatch)
          /\ batch # None => x \notin batch.samples
          /\ x[1] \in ValueGroups => valueVersion[x] >= Warmup

InEpoch(e) == {g \in EvalGroups : Epoch[g] = e}
Finished(e) == {g \in InEpoch(e) : evalArrived[g] = GroupSize}

\* A batch of an epoch holds its finished groups until the last one reports it.
Evals ==
    /\ evalArrived \in [EvalGroups -> 0 .. GroupSize]
    /\ evalBatches \in [Epochs -> Nat]
    /\ DOMAIN evalReports = Epochs
    /\ \A e \in Epochs :
          \/ /\ evalReports[e] = << >> /\ Finished(e) # InEpoch(e)
             /\ evalBatches[e] = GroupSize * Cardinality(Finished(e))
          \/ evalReports[e] = <<EpochSize(e)>> /\ Finished(e) = InEpoch(e)

IInv == Shapes /\ MainLoop /\ Windows /\ Queues /\ Shipped /\ Evals

-----------------------------------------------------------------------------
(* Settings, weights and cuts *)

LEMMA Settings ==
    /\ GroupSize \in Nat /\ GroupSize >= 1 /\ BatchSize \in Nat /\ BatchSize >= 1
    /\ EmptyLimit \in Nat /\ EmptyLimit >= 1 /\ MaxEmptyBatches \in Nat /\ MaxEmptyBatches >= 1
    /\ Warmup \in Nat /\ MaxSteps \in Nat /\ MaxVersion \in Nat
    /\ Qualities \in [Groups -> SUBSET Kinds]
    /\ Weight \in [AllRollouts -> Nat \ {0}]
  BY SinkAssumption DEF Kinds, AllRollouts

LEMMA WeighIsTotal ==
    ASSUME NEW T \in SUBSET AllRollouts, IsFiniteSet(T)
    PROVE  Weigh(T) = Total(Weight, T) /\ Weigh(T) \in Nat
<1> DEFINE Solves(f) == f = [s \in SUBSET T |-> IF s = {} THEN 0
                                ELSE Weight[CHOOSE x \in s : TRUE] + f[s \ {CHOOSE x \in s : TRUE}]]
<1>1. \A c \in T : Weight[c] \in Nat
  BY Settings
<1>2. \A f : Solves(f) <=> Sums(f, Weight, T)
  BY DEF Sums
<1>3. Weigh(T) = (CHOOSE f : Solves(f))[T]
  BY Zenon DEF Weigh, MapThenSumSet, MapThenFoldSet
<1>4. Sums([s \in SUBSET T |-> Total(Weight, s)], Weight, T)
  BY <1>1, SumExists
<1> HIDE DEF Solves
<1>5. \E f : Solves(f)
  BY <1>2, <1>4
<1>6. Sums(CHOOSE f : Solves(f), Weight, T)
  BY <1>2, <1>5
<1>7. Weigh(T) = Total(Weight, T)
  BY <1>1, <1>3, <1>6, SumIsTotal
<1> QED
  BY <1>1, <1>7, PointsAreFinite

LEMMA WeighDisjoint ==
    ASSUME NEW S \in SUBSET AllRollouts, IsFiniteSet(S), NEW T \in SUBSET AllRollouts, IsFiniteSet(T),
           S \cap T = {}
    PROVE  Weigh(S \cup T) = Weigh(S) + Weigh(T)
<1>1. IsFiniteSet(S \cup T) /\ S \cup T \in SUBSET AllRollouts
  BY FS_Union
<1>2. \A x \in S \cup T : Weight[x] \in Nat
  BY Settings
<1>3. Total(Weight, S \cup T) = Total(Weight, S) + Total(Weight, T)
  BY <1>2, TotalOfUnion
<1> QED
  BY <1>1, <1>3, WeighIsTotal

LEMMA WeighNothing == Weigh({}) = 0
<1>1. {} \in SUBSET AllRollouts /\ IsFiniteSet({})
  BY FS_EmptySet
<1> QED
  BY <1>1, WeighIsTotal, TotalOfNone

FirstOf(s, k) == SubSeq(s, 1, k)
RestOf(s, k) == SubSeq(s, k + 1, Len(s))

\* A queue is cut in two.
LEMMA CutInTwo ==
    ASSUME NEW s \in Seq(AllRollouts), IsInjective(s), NEW k \in 0 .. Len(s),
           NEW head, head = FirstOf(s, k), NEW tail, tail = RestOf(s, k)
    PROVE  /\ head \in Seq(AllRollouts) /\ tail \in Seq(AllRollouts) /\ IsInjective(tail)
           /\ Range(head) \cap Range(tail) = {} /\ Range(head) \cup Range(tail) = Range(s)
           /\ Len(head) = k
           /\ Weigh(Range(s)) = Weigh(Range(head)) + Weigh(Range(tail))
<1>1. PICK n \in Nat : n = Len(s)
  BY LenProperties
<1>2. k \in 0 .. n /\ k \in k .. n /\ head = SubSeq(s, 1, k) /\ tail = SubSeq(s, k + 1, n)
  BY <1>1 DEF FirstOf, RestOf
<1>3. /\ head \in Seq(AllRollouts) /\ tail \in Seq(AllRollouts) /\ IsInjective(tail)
      /\ Range(head) = Slice(s, 1, k) /\ Range(tail) = Slice(s, k + 1, n)
      /\ Range(head) \cap Range(tail) = {}
  BY <1>1, <1>2, CutOnce
<1>4. Range(head) \cup Range(tail) = Range(s)
  <2>0. DOMAIN s = 1 .. n
    BY <1>1
  <2>1. Range(s) = {s[i] : i \in 1 .. n}
    BY <2>0 DEF Range
  <2>2. \A i : i \in 1 .. n <=> i \in 1 .. k \/ i \in k + 1 .. n
    BY <1>1, <1>2
  <2> QED
    BY <1>3, <2>1, <2>2 DEF Slice
<1>5. Len(head) = k
  BY <1>1, <1>2
<1>6. /\ Range(head) \in SUBSET AllRollouts /\ IsFiniteSet(Range(head))
      /\ Range(tail) \in SUBSET AllRollouts /\ IsFiniteSet(Range(tail))
  BY <1>3, RangeCounts
<1> QED
  BY <1>3, <1>4, <1>5, <1>6, WeighDisjoint

\* A queue that weighs a batch can be cut.
LEMMA CutIsThere ==
    ASSUME NEW s \in Seq(AllRollouts), IsInjective(s), Weigh(Range(s)) >= BatchSize
    PROVE  Cut(s) \in 1 .. Len(s)
<1>1. PICK n \in Nat : n = Len(s)
  BY LenProperties
<1>2. n # 0
  <2> SUFFICES ASSUME n = 0 PROVE FALSE
    OBVIOUS
  <2>1. Range(s) = {}
    BY <1>1 DEF Range
  <2>2. Weigh(Range(s)) = 0
    BY <2>1, WeighNothing
  <2> QED
    BY <2>2, Settings
<1>3. SubSeq(s, 1, n) = s
  BY <1>1
<1>4. PICK K : K = {k \in 1 .. Len(s) : Weigh(Range(SubSeq(s, 1, k))) >= BatchSize}
  OBVIOUS
<1>5. n \in K
  <2>1. n \in 1 .. Len(s)
    BY <1>1, <1>2
  <2>2. Weigh(Range(SubSeq(s, 1, n))) >= BatchSize
    BY <1>3
  <2> QED
    BY <1>4, <2>1, <2>2
<1>6. K \in SUBSET Nat
  BY <1>1, <1>4
<1>7. Min(K) \in K
  BY <1>5, <1>6, MinIsThere
<1> QED
  BY <1>4, <1>7 DEF Cut

-----------------------------------------------------------------------------
(* A rollout arrives *)

\* The step of add() that takes the next rollout r of g, which turns out as q.
Arrival(g, q, r, kept) ==
    /\ g \in Groups /\ q \in Qualities[g] /\ arrived[g] < GroupSize
    /\ r = <<g, arrived[g] + 1>> /\ kept \subseteq Members(g)
    /\ arrived' = [arrived EXCEPT ![g] = @ + 1]
    /\ quality' = [quality EXCEPT ![r] = q]
    /\ valueVersion' \in [AllRollouts -> Nat \cup {Unscored}] /\ evaluator' \in Nat
    /\ \A x \in AllRollouts : x[1] # g => valueVersion'[x] = valueVersion[x]
    /\ r[2] = GroupSize /\ g \in ValueGroups => \A x \in kept : valueVersion'[x] \in Nat
    /\ offered' = offered \cup Offered(g, kept)

LEMMA ItArrives ==
    ASSUME Shapes, NEW g, NEW q, NEW r, NEW kept, Arrival(g, q, r, kept)
    PROVE  /\ r \in AllRollouts /\ r[1] = g /\ r[2] = arrived[g] + 1 /\ r \notin Arrived
           /\ Arrived' = Arrived \cup {r}
           /\ arrived' \in [Groups -> 0 .. GroupSize] /\ arrived'[g] = arrived[g] + 1
           /\ \A h \in Groups : h # g => arrived'[h] = arrived[h]
<1>1. /\ g \in Groups /\ r = <<g, arrived[g] + 1>> /\ arrived[g] \in Nat /\ arrived[g] < GroupSize
      /\ arrived' = [arrived EXCEPT ![g] = @ + 1] /\ arrived \in [Groups -> 0 .. GroupSize]
  BY Settings DEF Arrival, Shapes
<1>2. r \in AllRollouts /\ r[1] = g /\ r[2] = arrived[g] + 1
  BY <1>1, Settings DEF AllRollouts
<1>3. /\ arrived' \in [Groups -> 0 .. GroupSize] /\ arrived'[g] = arrived[g] + 1
      /\ \A h \in Groups : h # g => arrived'[h] = arrived[h]
  BY <1>1, Settings
<1>4. \A x \in AllRollouts : x[1] \in Groups /\ x[2] \in Nat /\ x = <<x[1], x[2]>>
  BY Settings DEF AllRollouts
<1>5. r \notin Arrived
  BY <1>1, <1>2 DEF Arrived
<1>6. \A x \in AllRollouts : x[2] <= arrived'[x[1]] <=> x[2] <= arrived[x[1]] \/ x = r
  <2> SUFFICES ASSUME NEW x \in AllRollouts
               PROVE  x[2] <= arrived'[x[1]] <=> x[2] <= arrived[x[1]] \/ x = r
    OBVIOUS
  <2>1. CASE x[1] = g
    BY <1>1, <1>2, <1>3, <1>4, <2>1
  <2>2. CASE x[1] # g
    BY <1>2, <1>3, <1>4, <2>2
  <2> QED
    BY <2>1, <2>2
<1>7. Arrived' = Arrived \cup {r}
  BY <1>2, <1>6 DEF Arrived
<1> QED
  BY <1>2, <1>3, <1>5, <1>7

\* What is known of the rollouts of other groups stays known.
LEMMA OthersStay ==
    ASSUME Shapes, NEW g, NEW q, NEW r, NEW kept, Arrival(g, q, r, kept), NEW x, Scored(x)
    PROVE  /\ Scored(x)' /\ x[1] # g /\ quality'[x] = quality[x]
           /\ valueVersion'[x] = valueVersion[x]
<1>1. /\ x \in AllRollouts /\ x[1] # g /\ x[1] \in Groups
  BY Settings DEF Scored, Arrival, AllRollouts
<1>2. arrived'[x[1]] = arrived[x[1]] /\ r[1] = g
  BY <1>1, ItArrives
<1>3. \A s \in Members(x[1]) : s \in AllRollouts /\ s # r
  BY <1>1, <1>2 DEF Members, AllRollouts
<1>4. \A s \in AllRollouts : s # r => quality'[s] = quality[s]
  BY DEF Arrival, Shapes
<1>5. x # r /\ x \notin Members(g)
  BY <1>1, <1>2 DEF Members
<1>6. valueVersion'[x] = valueVersion[x]
  BY <1>1 DEF Arrival
<1>7. offered \subseteq offered'
  BY DEF Arrival
<1>8. quality'[x] = quality[x]
  BY <1>1, <1>4, <1>5
<1>9. \A s \in Members(x[1]) : quality'[s] = quality[s]
  BY <1>3, <1>4
<1>10. Usable(x[1], quality') = Usable(x[1], quality)
  BY <1>9 DEF Usable
<1>11. Scored(x)'
  BY <1>1, <1>2, <1>6, <1>7, <1>9, <1>10 DEF Scored, Members
<1> QED
  BY <1>1, <1>6, <1>8, <1>11

LEMMA SurvivorsAreMembers == \A g, f : Survivors(g, f) \subseteq Members(g)
  BY DEF Survivors, Usable

\* What survives a complete group is known.
LEMMA SurvivorsAreScored ==
    ASSUME Shapes, NEW g, NEW q, NEW r, NEW kept, Arrival(g, q, r, kept),
           r[2] = GroupSize, kept = Survivors(g, quality')
    PROVE  \A x \in kept : Scored(x)'
<1> SUFFICES ASSUME NEW x \in kept PROVE Scored(x)'
  OBVIOUS
<1>1. /\ g \in Groups /\ r[1] = g /\ arrived'[g] = GroupSize
  BY ItArrives DEF Arrival
<1>2. x \in Members(g)
  BY DEF Arrival
<1>3. x \in AllRollouts /\ x[1] = g
  BY <1>1, <1>2 DEF Members, AllRollouts
<1>4. /\ kept = Usable(g, quality') /\ (NeedsAll(g) => Usable(g, quality') = Members(g))
      /\ Cardinality(Usable(g, quality')) >= MinGroupSize[g]
  BY DEF Survivors
<1>5. NeedsAll(g) => \A s \in Members(g) : quality'[s] \notin {"failed", "bare"}
  BY <1>4 DEF Usable
<1>6. g \in ValueGroups => x \in offered' /\ valueVersion'[x] \in Nat
  BY <1>3 DEF Arrival, Offered
<1> QED
  BY <1>1, <1>3, <1>4, <1>5, <1>6 DEF Scored, Members

\* What joins the queue.
LEMMA JoinsOnce ==
    ASSUME NEW g \in Groups, NEW kept \in SUBSET Members(g), NEW f,
           NEW queued \in InOrder({x \in kept : f[x] # "prefiltered"})
    PROVE  queued \in Seq(AllRollouts) /\ IsInjective(queued) /\ Range(queued) \subseteq kept
<1>0. GroupSize \in Int /\ 1 \in Int
  BY Settings
<1>1. IsFiniteSet({g}) /\ IsFiniteSet(1 .. GroupSize)
  <2>1. IsFiniteSet({g})
    BY FS_Singleton
  <2>2. IsFiniteSet(1 .. GroupSize)
    BY <1>0, FS_Interval
  <2> QED
    BY <2>1, <2>2
<1>2. IsFiniteSet(Members(g))
  BY <1>1, FS_Product DEF Members
<1>3. PICK T : T = {x \in kept : f[x] # "prefiltered"}
  OBVIOUS
<1>4. T \in SUBSET Members(g) /\ T \subseteq kept
  BY <1>3
<1>5. IsFiniteSet(T)
  BY <1>2, <1>4, FS_Subset
<1>6. T \in SUBSET AllRollouts
  BY <1>4 DEF Members, AllRollouts
<1>7. queued \in SetToSeqs(T)
  BY <1>3 DEF InOrder
<1> QED
  BY <1>4, <1>5, <1>6, <1>7, ListsAll

\* A queue without repetition falls into a cohort and the rest of it.
SplitsInto(s, cohort, rest) ==
    /\ rest \in Seq(AllRollouts) /\ IsInjective(rest)
    /\ Range(cohort) \cap Range(rest) = {} /\ Range(cohort) \cup Range(rest) = Range(s)
    /\ CohortWeight(cohort) \in Nat /\ Weigh(Range(rest)) \in Nat
    /\ Weigh(Range(s)) = CohortWeight(cohort) + Weigh(Range(rest))

LEMMA QueueCut ==
    ASSUME NEW s \in Seq(AllRollouts), IsInjective(s), NEW k \in 0 .. Len(s),
           NEW cohort, cohort = FirstOf(s, k), NEW rest, rest = RestOf(s, Len(cohort))
    PROVE  SplitsInto(s, cohort, rest)
<1>1. PICK tail : tail = RestOf(s, k)
  OBVIOUS
<1>2. /\ cohort \in Seq(AllRollouts) /\ tail \in Seq(AllRollouts) /\ IsInjective(tail)
      /\ Range(cohort) \cap Range(tail) = {} /\ Range(cohort) \cup Range(tail) = Range(s)
      /\ Len(cohort) = k
      /\ Weigh(Range(s)) = Weigh(Range(cohort)) + Weigh(Range(tail))
  BY <1>1, CutInTwo
<1>3. rest = tail
  BY <1>1, <1>2
<1>4. cohort \in Seq(AllRollouts) /\ tail \in Seq(AllRollouts)
  BY <1>2
<1>5. /\ Range(cohort) \in SUBSET AllRollouts /\ IsFiniteSet(Range(cohort))
      /\ Range(tail) \in SUBSET AllRollouts /\ IsFiniteSet(Range(tail))
  BY <1>4, RangeCounts
<1>6. Weigh(Range(cohort)) \in Nat /\ Weigh(Range(tail)) \in Nat
  BY <1>5, WeighIsTotal
<1> QED
  BY <1>2, <1>3, <1>6 DEF CohortWeight, SplitsInto

\* The queue has grown by queued and given up its cohort.
Regrouped(queued, reached, cohort, rest) ==
    /\ rest \in Seq(AllRollouts) /\ IsInjective(rest)
    /\ Range(cohort) \cap Range(rest) = {}
    /\ Range(cohort) \cup Range(rest) = Range(pendingBatch) \cup Range(queued)
    /\ reached \in Nat /\ CohortWeight(cohort) \in Nat /\ Weigh(Range(rest)) \in Nat
    /\ reached = CohortWeight(cohort) + Weigh(Range(rest))
    /\ ~(reached >= BatchSize) => Range(cohort) = {} /\ CohortWeight(cohort) = 0

LEMMA QueueMoves ==
    ASSUME Shapes, NEW queued \in Seq(AllRollouts), IsInjective(queued),
           Range(pendingBatch) \cap Range(queued) = {},
           NEW grown, grown = pendingBatch \o queued,
           NEW reached, reached = pendingTokens + Weigh(Range(queued)),
           NEW cohort, cohort = IF reached >= BatchSize THEN FirstOf(grown, Cut(grown)) ELSE << >>,
           NEW rest, rest = RestOf(grown, Len(cohort))
    PROVE  Regrouped(queued, reached, cohort, rest)
<1>1. /\ pendingBatch \in Seq(AllRollouts) /\ IsInjective(pendingBatch)
      /\ pendingTokens = Weigh(Range(pendingBatch))
  BY DEF Shapes
<1>2. /\ grown \in Seq(AllRollouts) /\ IsInjective(grown)
      /\ Range(grown) = Range(pendingBatch) \cup Range(queued)
  BY <1>1, JoinedOnce
<1>3. /\ Range(pendingBatch) \in SUBSET AllRollouts /\ IsFiniteSet(Range(pendingBatch))
      /\ Range(queued) \in SUBSET AllRollouts /\ IsFiniteSet(Range(queued))
  BY <1>1, RangeCounts
<1>4. Weigh(Range(grown)) = reached
  BY <1>1, <1>2, <1>3, WeighDisjoint
<1>5. PICK k \in 0 .. Len(grown) : cohort = FirstOf(grown, k) /\ (~(reached >= BatchSize) => k = 0)
  <2>1. CASE reached >= BatchSize
    <3>1. Cut(grown) \in 1 .. Len(grown)
      BY <1>2, <1>4, <2>1, CutIsThere
    <3>2. Cut(grown) \in 0 .. Len(grown)
      BY <1>2, <3>1, LenProperties
    <3> QED
      BY <2>1, <3>2 DEF FirstOf
  <2>2. CASE ~(reached >= BatchSize)
    <3>1. 0 \in 0 .. Len(grown)
      BY <1>2, LenProperties
    <3>2. SubSeq(grown, 1, 0) = << >>
      BY <1>2
    <3> QED
      BY <2>2, <3>1, <3>2 DEF FirstOf
  <2> QED
    BY <2>1, <2>2
<1>6. SplitsInto(grown, cohort, rest)
  BY <1>2, <1>5, QueueCut
<1>7. PICK a \in Nat, b \in Nat : a = CohortWeight(cohort) /\ b = Weigh(Range(rest))
  BY <1>6 DEF SplitsInto
<1>8. a + b \in Nat /\ Weigh(Range(grown)) = a + b
  BY <1>6, <1>7 DEF SplitsInto
<1>11. reached \in Nat /\ reached = CohortWeight(cohort) + Weigh(Range(rest))
  BY <1>4, <1>7, <1>8
<1>12. ~(reached >= BatchSize) => Range(cohort) = {} /\ CohortWeight(cohort) = 0
  <2> SUFFICES ASSUME ~(reached >= BatchSize) PROVE Range(cohort) = {} /\ CohortWeight(cohort) = 0
    OBVIOUS
  <2>1. cohort = << >>
    OBVIOUS
  <2>2. Range(cohort) = {}
    BY <2>1 DEF Range
  <2> QED
    BY <2>2, WeighNothing DEF CohortWeight
<1> QED
  BY <1>2, <1>6, <1>11, <1>12 DEF SplitsInto, Regrouped

-----------------------------------------------------------------------------
(* The window *)

\* Every arrival is accounted for, once.
Accounted ==
    /\ window \subseteq AllRollouts /\ IsFiniteSet(window) /\ reports \in Seq(SUBSET AllRollouts)
    /\ \A i, j \in 1 .. Len(reports) : i # j => reports[i] \cap reports[j] = {}
    /\ window \cap UNION Range(reports) = {}
    /\ window \cup UNION Range(reports) = Arrived

LEMMA WindowGrows ==
    ASSUME Accounted, NEW r \in AllRollouts, r \notin Arrived, Arrived' = Arrived \cup {r},
           window' = window \cup {r}, reports' = reports
    PROVE  Accounted'
<1>1. IsFiniteSet(window')
  BY FS_AddElement DEF Accounted
<1>2. /\ window \cap UNION Range(reports) = {} /\ window \cup UNION Range(reports) = Arrived
      /\ window \subseteq AllRollouts
  BY DEF Accounted
<1>3. (UNION Range(reports))' = UNION Range(reports)
  BY DEF Range
<1>4. /\ window' \cap UNION Range(reports') = {} /\ window' \cup UNION Range(reports') = Arrived'
      /\ window' \subseteq AllRollouts
  BY <1>2, <1>3
<1>5. /\ reports' \in Seq(SUBSET AllRollouts)
      /\ \A i, j \in 1 .. Len(reports') : i # j => reports'[i] \cap reports'[j] = {}
  BY DEF Accounted
<1> QED
  BY <1>1, <1>4, <1>5 DEF Accounted, AllRollouts

LEMMA WindowIsTold ==
    ASSUME Accounted, NEW r \in AllRollouts, r \notin Arrived, Arrived' = Arrived \cup {r},
           NEW told \in SUBSET (window \cup {r}),
           window' = (window \cup {r}) \ told, reports' = Append(reports, told)
    PROVE  Accounted'
<1>1. IsFiniteSet(window \cup {r}) /\ window \cup {r} \in SUBSET AllRollouts
  BY FS_AddElement DEF Accounted
<1>2. IsFiniteSet(window')
  BY <1>1, FS_Subset
<1>3. PICK n \in Nat : n = Len(reports)
  BY LenProperties DEF Accounted
<1>4. /\ reports' \in Seq(SUBSET AllRollouts) /\ Len(reports') = n + 1 /\ reports'[n + 1] = told
      /\ \A i \in 1 .. n : reports'[i] = reports[i]
  <2>1. reports \in Seq(SUBSET AllRollouts) /\ told \in SUBSET AllRollouts
    BY <1>1 DEF Accounted
  <2> QED
    BY <1>3, <2>1
<1>5. Range(reports') = Range(reports) \cup {told}
  <2>1. reports \in Seq(SUBSET AllRollouts) /\ told \in SUBSET AllRollouts
    BY <1>1 DEF Accounted
  <2> QED
    BY <2>1, AppendedOnce
<1>6. told \cap UNION Range(reports) = {}
  BY DEF Accounted
<1>7. \A i \in 1 .. n : reports[i] \cap told = {}
  <2>1. \A i \in 1 .. n : reports[i] \in Range(reports)
    BY <1>3 DEF Range, Accounted
  <2> QED
    BY <1>6, <2>1
<1>8. \A i, j \in 1 .. n + 1 : i # j => reports'[i] \cap reports'[j] = {}
  <2> SUFFICES ASSUME NEW i \in 1 .. n + 1, NEW j \in 1 .. n + 1, i # j
               PROVE  reports'[i] \cap reports'[j] = {}
    OBVIOUS
  <2>1. (i \in 1 .. n \/ i = n + 1) /\ (j \in 1 .. n \/ j = n + 1)
    OBVIOUS
  <2>2. CASE i \in 1 .. n /\ j \in 1 .. n
    BY <1>3, <1>4, <2>2 DEF Accounted
  <2>3. CASE i \in 1 .. n /\ j = n + 1
    BY <1>4, <1>7, <2>3
  <2>4. CASE i = n + 1 /\ j \in 1 .. n
    BY <1>4, <1>7, <2>4
  <2> QED
    BY <2>1, <2>2, <2>3, <2>4
<1>9. window' \cap UNION Range(reports') = {} /\ window' \cup UNION Range(reports') = Arrived'
  BY <1>5 DEF Accounted
<1>10. window' \subseteq AllRollouts
  BY <1>1
<1> QED
  BY <1>2, <1>4, <1>8, <1>9, <1>10 DEF Accounted, AllRollouts

\* add() has told of nothing: what it has dropped is too little yet.
Quiet(g, r) ==
    /\ batch' = None /\ reports' = reports /\ window' = window \cup {r}
    /\ r[2] = GroupSize => ~FlushDue(Unreported')
    /\ r[2] # GroupSize => Range(pendingBatch)' = Range(pendingBatch)

\* Or it has returned a batch, and has told of all that it could.
Tells(r, cohort) ==
    \E told \in SUBSET (window \cup {r}) :
        /\ batch'.rollouts = told
        /\ batch'.samples \subseteq {x \in Range(cohort) : quality'[x] = "good"}
        /\ reports' = Append(reports, told) /\ window' = (window \cup {r}) \ told
        /\ Unreported' = {}

\* What add() does with the rollouts of the queue.
Moves(g, r, kept, cohort) ==
    /\ pendingBatch' \in Seq(AllRollouts) /\ IsInjective(pendingBatch')
    /\ Range(cohort) \cap Range(pendingBatch') = {}
    /\ Range(cohort) \cup Range(pendingBatch') \subseteq Range(pendingBatch) \cup kept
    /\ pendingTokens' = Weigh(Range(pendingBatch')) /\ lastEmptyProgress' \in Nat
    /\ pendingGroups' = IF r[2] = GroupSize THEN pendingGroups \ {g} ELSE pendingGroups \cup {g}
    /\ Quiet(g, r) \/ Tells(r, cohort)

\* All of an add().
Taken(g, q, r, kept, queued) ==
    /\ Arrival(g, q, r, kept)
    /\ r[2] = GroupSize => kept = Survivors(g, quality')
    /\ r[2] # GroupSize => kept = {}
    /\ queued \in InOrder({x \in kept : quality'[x] # "prefiltered"})
    /\ Enqueue(g, r, quality', r[2] = GroupSize, queued)

LEMMA AddTakes ==
    ASSUME Shapes, NEW g \in Groups, NEW q \in Qualities[g], Add(g, q)
    PROVE  \E r, kept, queued : Taken(g, q, r, kept, queued)
<1> DEFINE r == <<g, arrived[g] + 1>>
           qual == [quality EXCEPT ![r] = q]
           kept == IF r[2] = GroupSize THEN Survivors(g, qual) ELSE {}
           asked == IF r[2] = GroupSize THEN Awaited(g, qual, kept) ELSE {}
<1>1. /\ arrived[g] < GroupSize /\ arrived' = [arrived EXCEPT ![g] = @ + 1] /\ quality' = qual
      /\ \E newest \in evaluator .. MaxVersion : \E score \in [asked -> evaluator .. newest] :
            /\ GroupContext => \A x, y \in asked : score[x] = score[y]
            /\ evaluator' = newest
            /\ valueVersion' = [x \in AllRollouts |-> IF x \in asked THEN score[x] ELSE valueVersion[x]]
      /\ offered' = offered \cup Offered(g, kept)
      /\ \E queued \in InOrder({x \in kept : qual[x] # "prefiltered"}) :
            Enqueue(g, r, qual, r[2] = GroupSize, queued)
  BY DEF Add
<1>2. kept \subseteq Members(g) /\ kept \in SUBSET Usable(g, qual)
  BY SurvivorsAreMembers DEF Survivors
<1>3. PICK queued \in InOrder({x \in kept : qual[x] # "prefiltered"}) :
            Enqueue(g, r, qual, r[2] = GroupSize, queued)
  BY <1>1
<1>4. /\ r[2] = GroupSize => kept = Survivors(g, quality')
      /\ r[2] # GroupSize => kept = {}
  BY <1>1
<1>5. asked = IF r[2] = GroupSize THEN Awaited(g, qual, kept) ELSE {}
  OBVIOUS
<1> HIDE DEF kept, qual, asked
<1>6. /\ valueVersion' \in [AllRollouts -> Nat \cup {Unscored}] /\ evaluator' \in Nat
      /\ \A x \in AllRollouts : x[1] # g => valueVersion'[x] = valueVersion[x]
      /\ r[2] = GroupSize /\ g \in ValueGroups => \A x \in kept : valueVersion'[x] \in Nat
  <2>1. PICK newest \in evaluator .. MaxVersion : \E score \in [asked -> evaluator .. newest] :
            /\ evaluator' = newest
            /\ valueVersion' = [x \in AllRollouts |-> IF x \in asked THEN score[x] ELSE valueVersion[x]]
    BY <1>1
  <2>2. PICK score \in [asked -> evaluator .. newest] :
            /\ evaluator' = newest
            /\ valueVersion' = [x \in AllRollouts |-> IF x \in asked THEN score[x] ELSE valueVersion[x]]
    BY <2>1
  <2>3. /\ evaluator \in Nat /\ newest \in Nat /\ valueVersion \in [AllRollouts -> Nat \cup {Unscored}]
        /\ \A x \in asked : score[x] \in Nat
    BY <2>2, Settings DEF Shapes
  <2>4. \A x \in Members(g) : x \in AllRollouts /\ x[1] = g
    BY DEF Members, AllRollouts
  <2>5. asked \in SUBSET Members(g) /\ kept \in SUBSET Members(g)
    BY <1>2, <1>5 DEF Awaited, Usable
  <2>6. ASSUME r[2] = GroupSize, g \in ValueGroups, NEW x \in kept PROVE valueVersion'[x] \in Nat
    <3>1. asked = IF GroupContext THEN kept ELSE {y \in Usable(g, qual) : valueVersion[y] = Unscored}
      BY <1>5, <2>6 DEF Awaited
    <3>2. x \in AllRollouts /\ (x \in asked \/ valueVersion[x] # Unscored)
      BY <1>2, <2>4, <2>5, <3>1
    <3>3. valueVersion'[x] = IF x \in asked THEN score[x] ELSE valueVersion[x]
      BY <2>2, <3>2
    <3> QED
      BY <2>3, <3>2, <3>3
  <2>7. \A x \in AllRollouts : x[1] # g => valueVersion'[x] = valueVersion[x]
    BY <2>2, <2>4, <2>5
  <2>8. valueVersion' \in [AllRollouts -> Nat \cup {Unscored}]
    BY <2>2, <2>3
  <2> QED
    BY <2>2, <2>3, <2>6, <2>7, <2>8
<1>7. Arrival(g, q, r, kept)
  BY <1>1, <1>2, <1>6 DEF Arrival, qual
<1> HIDE DEF r
<1>8. Taken(g, q, r, kept, queued)
  BY <1>1, <1>3, <1>4, <1>7 DEF Taken
<1> QED
  BY <1>8

LEMMA AddMoves ==
    ASSUME Shapes, Windows, Queues, NEW g, NEW q, NEW r, NEW kept, NEW queued, Taken(g, q, r, kept, queued)
    PROVE  \E cohort : Moves(g, r, kept, cohort)
<1>1. /\ Arrival(g, q, r, kept) /\ g \in Groups /\ kept \in SUBSET Members(g)
      /\ queued \in InOrder({x \in kept : quality'[x] # "prefiltered"})
      /\ r[2] # GroupSize => kept = {}
  BY DEF Taken, Arrival
<1>2. queued \in Seq(AllRollouts) /\ IsInjective(queued) /\ Range(queued) \subseteq kept
  BY <1>1, JoinsOnce
<1>3. Range(pendingBatch) \cap Range(queued) = {}
  <2>1. \A x \in Range(pendingBatch) : x[1] # g
    BY <1>1, OthersStay DEF Queues
  <2>2. \A x \in Range(queued) : x[1] = g
    BY <1>1, <1>2 DEF Members
  <2> QED
    BY <2>1, <2>2
<1> DEFINE groups == IF r[2] = GroupSize THEN pendingGroups \ {g} ELSE pendingGroups \cup {g}
           grown == pendingBatch \o queued
           reached == pendingTokens + Weigh(Range(queued))
           full == reached >= BatchSize
           cohort == IF full THEN FirstOf(grown, Cut(grown)) ELSE << >>
           rest == RestOf(grown, Len(cohort))
           ship == {x \in Range(cohort) : quality'[x] = "good"}
           settled == Settled(window \cup {r}, rest, groups)
           flush == ~full /\ r[2] = GroupSize /\ FlushDue(settled)
           told == IF full THEN Report(window \cup {r}, settled, ship # {})
                   ELSE IF flush THEN settled ELSE {}
<1>4. /\ pendingGroups' = groups /\ pendingBatch' = rest
      /\ pendingTokens' = IF full THEN reached - CohortWeight(cohort) ELSE reached
      /\ window' = IF full \/ flush THEN WindowAfter(window \cup {r}, settled, told) ELSE window \cup {r}
      /\ lastEmptyProgress' = IF full \/ flush THEN pendingTokens' ELSE lastEmptyProgress
      /\ batch' = IF full \/ flush
                  THEN [rollouts |-> told, samples |-> ship,
                        progress |-> flush /\ reached > lastEmptyProgress]
                  ELSE None
      /\ reports' = IF full \/ flush THEN Append(reports, told) ELSE reports
  BY DEF Taken, Enqueue, FirstOf, RestOf
<1>5. /\ rest \in Seq(AllRollouts) /\ IsInjective(rest)
      /\ Range(cohort) \cap Range(rest) = {}
      /\ Range(cohort) \cup Range(rest) = Range(pendingBatch) \cup Range(queued)
      /\ reached \in Nat /\ CohortWeight(cohort) \in Nat /\ Weigh(Range(rest)) \in Nat
      /\ reached = CohortWeight(cohort) + Weigh(Range(rest))
      /\ ~full => Range(cohort) = {} /\ CohortWeight(cohort) = 0
  <2>1. /\ grown = pendingBatch \o queued /\ reached = pendingTokens + Weigh(Range(queued))
        /\ cohort = IF reached >= BatchSize THEN FirstOf(grown, Cut(grown)) ELSE << >>
        /\ rest = RestOf(grown, Len(cohort))
    OBVIOUS
  <2> HIDE DEF grown, reached, cohort, rest
  <2>2. Regrouped(queued, reached, cohort, rest)
    BY <1>2, <1>3, <2>1, QueueMoves
  <2> QED
    BY <2>2 DEF Regrouped
<1>6. settled \in SUBSET (window \cup {r}) /\ told \in SUBSET (window \cup {r})
  BY DEF Settled, Report
<1>7. (full \/ flush) => told = window \cup {r} \/ told = settled
  BY DEF Report
<1> HIDE DEF cohort, rest, reached, settled, told, groups
<1>8. pendingTokens' = Weigh(Range(rest)) /\ lastEmptyProgress' \in Nat
  <2>1. pendingTokens' = Weigh(Range(rest))
    <3>1. PICK a \in Nat, b \in Nat : a = CohortWeight(cohort) /\ b = Weigh(Range(rest))
      BY <1>5
    <3>2. reached = a + b /\ (~full => a = 0)
      BY <1>5, <3>1
    <3>3. pendingTokens' = IF full THEN reached - a ELSE reached
      BY <1>4, <3>1
    <3>4. pendingTokens' = b
      BY <3>2, <3>3
    <3> QED
      BY <3>1, <3>4
  <2>2. lastEmptyProgress \in Nat
    BY DEF Shapes
  <2> QED
    BY <1>4, <1>5, <2>1, <2>2
<1>9. Unreported' = Settled(window', rest, groups)
  BY <1>4 DEF Unreported, Settled
<1>10. CASE full \/ flush
  <2>1. /\ batch'.rollouts = told /\ batch'.samples = ship
        /\ reports' = Append(reports, told) /\ window' = (window \cup {r}) \ told
    BY <1>4, <1>10 DEF WindowAfter
  <2>2. Unreported' = {}
    <3>1. settled = Settled(window \cup {r}, rest, groups)
      BY DEF settled
    <3> QED
      BY <1>7, <1>9, <1>10, <2>1, <3>1 DEF Settled
  <2>3. Tells(r, cohort)
    BY <1>6, <2>1, <2>2 DEF Tells
  <2> QED
    BY <1>2, <1>4, <1>5, <1>8, <2>3 DEF Moves, groups
<1>11. CASE ~(full \/ flush)
  <2>1. batch' = None /\ reports' = reports /\ window' = window \cup {r}
    BY <1>4, <1>11
  <2>2. ASSUME r[2] = GroupSize PROVE ~FlushDue(Unreported')
    <3>1. settled = Settled(window', rest, groups)
      BY <2>1 DEF settled
    <3> QED
      BY <1>9, <1>11, <2>2, <3>1
  <2>3. ASSUME r[2] # GroupSize PROVE Range(rest) = Range(pendingBatch)
    BY <1>1, <1>2, <1>5, <1>11, <2>3
  <2>4. Quiet(g, r)
    BY <1>4, <2>1, <2>2, <2>3 DEF Quiet
  <2> QED
    BY <1>2, <1>4, <1>5, <1>8, <2>4 DEF Moves, groups
<1> QED
  BY <1>10, <1>11

LEMMA AddKeepsShapes ==
    ASSUME Shapes, NEW g, NEW q, NEW r, NEW kept, Arrival(g, q, r, kept), NEW cohort, Moves(g, r, kept, cohort)
    PROVE  Shapes'
<1>1. r \in AllRollouts /\ r[1] = g /\ arrived' \in [Groups -> 0 .. GroupSize]
  BY ItArrives
<1>2. q \in Qualities[g] /\ q \in Kinds
  BY Settings DEF Arrival
<1>3. quality' = [quality EXCEPT ![r] = q] /\ quality \in [AllRollouts -> Kinds \cup {"none"}]
  BY DEF Arrival, Shapes
<1>4. quality' \in [AllRollouts -> Kinds \cup {"none"}]
  BY <1>1, <1>2, <1>3
<1>5. \A x \in AllRollouts : quality'[x] \in Qualities[x[1]] \cup {"none"}
  BY <1>1, <1>2, <1>3 DEF Shapes
<1>6. valueVersion' \in [AllRollouts -> Nat \cup {Unscored}] /\ evaluator' \in Nat
  BY DEF Arrival, Shapes
<1>7. /\ pendingBatch' \in Seq(AllRollouts) /\ IsInjective(pendingBatch')
      /\ pendingTokens' = Weigh(Range(pendingBatch')) /\ lastEmptyProgress' \in Nat
  BY DEF Moves
<1> QED
  BY <1>1, <1>4, <1>5, <1>6, <1>7 DEF Shapes, AllRollouts, Kinds, Unscored

LEMMA AddKeepsGroups ==
    ASSUME Shapes, Windows, NEW g, NEW q, NEW r, NEW kept, Arrival(g, q, r, kept),
           NEW cohort, Moves(g, r, kept, cohort)
    PROVE  pendingGroups' = {h \in Groups : arrived'[h] \in 1 .. GroupSize - 1}
<1>1. /\ g \in Groups /\ r[2] = arrived[g] + 1 /\ arrived'[g] = arrived[g] + 1
      /\ \A h \in Groups : h # g => arrived'[h] = arrived[h]
  BY ItArrives DEF Arrival
<1>2. arrived[g] \in Nat /\ arrived[g] < GroupSize
  BY Settings DEF Shapes, Arrival
<1>3. pendingGroups = {h \in Groups : arrived[h] \in 1 .. GroupSize - 1}
  BY DEF Windows
<1>4. pendingGroups' = IF r[2] = GroupSize THEN pendingGroups \ {g} ELSE pendingGroups \cup {g}
  BY DEF Moves
<1>5. arrived'[g] \in 1 .. GroupSize - 1 <=> r[2] # GroupSize
  BY <1>1, <1>2, Settings
<1>6. \A h \in Groups : h # g => (h \in pendingGroups <=> arrived'[h] \in 1 .. GroupSize - 1)
  BY <1>1, <1>3
<1>7. \A h \in pendingGroups' : h \in Groups
  BY <1>1, <1>3, <1>4
<1> QED
  BY <1>1, <1>4, <1>5, <1>6, <1>7

\* Before its group is complete a rollout is not given up, and no other is for it.
LEMMA SettledNoMore ==
    ASSUME Windows, NEW g, NEW r, r[1] = g, r[2] # GroupSize, Quiet(g, r),
           pendingGroups' = pendingGroups \cup {g}
    PROVE  Unreported' \subseteq Unreported
<1>1. window' = window \cup {r} /\ Range(pendingBatch)' = Range(pendingBatch)
  BY DEF Quiet
<1> QED
  BY <1>1 DEF Unreported, Settled

LEMMA AddKeepsWindows ==
    ASSUME Shapes, Windows, NEW g, NEW q, NEW r, NEW kept, Arrival(g, q, r, kept),
           NEW cohort, Moves(g, r, kept, cohort)
    PROVE  Windows'
<1>1. r \in AllRollouts /\ r[1] = g /\ r \notin Arrived /\ Arrived' = Arrived \cup {r}
  BY ItArrives
<1>2. Accounted /\ IsFiniteSet(Unreported) /\ Cardinality(Unreported) < EmptyLimit
  <2>1. Unreported \in SUBSET window /\ IsFiniteSet(window)
    BY DEF Unreported, Settled, Windows
  <2>2. IsFiniteSet(Unreported)
    BY <2>1, FS_Subset
  <2> QED
    BY <2>2 DEF Windows, Accounted, ReportedOnce, Unreported
<1>3. Accounted'
  <2>1. CASE Quiet(g, r)
    BY <1>1, <1>2, <2>1, WindowGrows DEF Quiet
  <2>2. CASE Tells(r, cohort)
    <3>1. PICK told \in SUBSET (window \cup {r}) :
              reports' = Append(reports, told) /\ window' = (window \cup {r}) \ told
      BY <2>2 DEF Tells
    <3> QED
      BY <1>1, <1>2, <3>1, WindowIsTold
  <2> QED
    BY <2>1, <2>2 DEF Moves
<1>4. Cardinality(Unreported') < EmptyLimit
  <2>1. CASE Quiet(g, r) /\ r[2] = GroupSize
    <3>1. Unreported' \in SUBSET window' /\ IsFiniteSet(window')
      BY <1>3 DEF Unreported, Settled, Accounted
    <3>2. Cardinality(Unreported') \in Nat
      BY <3>1, FS_Subset, FS_CardinalityType
    <3>3. ~(Cardinality(Unreported') >= EmptyLimit)
      BY <2>1 DEF Quiet, FlushDue
    <3> QED
      BY <3>2, <3>3, Settings
  <2>2. CASE Quiet(g, r) /\ r[2] # GroupSize
    <3>1. pendingGroups' = pendingGroups \cup {g}
      BY <2>2 DEF Moves
    <3>2. Unreported' \in SUBSET Unreported
      BY <1>1, <2>2, <3>1, SettledNoMore
    <3>3. IsFiniteSet(Unreported') /\ Cardinality(Unreported') <= Cardinality(Unreported)
      BY <1>2, <3>2, FS_Subset
    <3>4. Cardinality(Unreported') \in Nat /\ Cardinality(Unreported) \in Nat
      BY <1>2, <3>3, FS_CardinalityType
    <3> QED
      BY <1>2, <3>3, <3>4, Settings
  <2>3. CASE Tells(r, cohort)
    <3>1. Unreported' = {}
      BY <2>3 DEF Tells
    <3> QED
      BY <3>1, FS_EmptySet, Settings
  <2> QED
    BY <2>1, <2>2, <2>3 DEF Moves
<1>5. pendingGroups' = {h \in Groups : arrived'[h] \in 1 .. GroupSize - 1}
  BY AddKeepsGroups
<1>6. ReportedOnce'
  BY <1>3, <1>4 DEF Accounted, ReportedOnce, Unreported
<1> QED
  BY <1>3, <1>5, <1>6 DEF Accounted, Windows, AllRollouts

LEMMA AddKeepsQueues ==
    ASSUME Shapes, Windows, Queues, NEW g, NEW q, NEW r, NEW kept, Arrival(g, q, r, kept),
           \A x \in kept : Scored(x)', NEW cohort, Moves(g, r, kept, cohort)
    PROVE  Queues'
<1>1. \A x \in Range(pendingBatch) \cup kept : Scored(x)'
  BY OthersStay DEF Queues
<1>2. /\ Range(cohort) \cap Range(pendingBatch') = {}
      /\ Range(cohort) \cup Range(pendingBatch') \subseteq Range(pendingBatch) \cup kept
  BY DEF Moves
<1>3. \A x \in Range(pendingBatch') : Scored(x)'
  BY <1>1, <1>2
<1>4. offered' \subseteq Arrived'
  <2>1. offered \subseteq Arrived /\ Arrived' = Arrived \cup {r}
    BY ItArrives DEF Queues
  <2>2. \A x \in kept : x \in Arrived'
    <3> SUFFICES ASSUME NEW x \in kept PROVE x \in Arrived'
      OBVIOUS
    <3>1. x \in AllRollouts /\ arrived'[x[1]] = GroupSize
      BY DEF Scored, AllRollouts
    <3>2. x[2] <= GroupSize
      BY <3>1, Settings DEF AllRollouts
    <3> QED
      BY <3>1, <3>2 DEF Arrived, AllRollouts
  <2> QED
    BY <2>1, <2>2 DEF Arrival, Offered
<1>5. batch' # None =>
         /\ batch'.samples \subseteq AllRollouts /\ batch'.rollouts \subseteq AllRollouts
         /\ \A x \in batch'.samples : Scored(x)' /\ quality'[x] = "good" /\ x \notin Range(pendingBatch')
  <2> SUFFICES ASSUME batch' # None
               PROVE  /\ batch'.samples \subseteq AllRollouts /\ batch'.rollouts \subseteq AllRollouts
                      /\ \A x \in batch'.samples :
                            Scored(x)' /\ quality'[x] = "good" /\ x \notin Range(pendingBatch')
    OBVIOUS
  <2>1. Tells(r, cohort)
    BY DEF Moves, Quiet
  <2>2. /\ batch'.samples \subseteq {x \in Range(cohort) : quality'[x] = "good"}
        /\ batch'.rollouts \subseteq window \cup {r}
    BY <2>1 DEF Tells
  <2>3. \A x \in batch'.samples : Scored(x)' /\ quality'[x] = "good" /\ x \notin Range(pendingBatch')
    BY <1>1, <1>2, <2>2
  <2>4. batch'.samples \subseteq AllRollouts
    BY <2>3 DEF Scored, AllRollouts
  <2>5. batch'.rollouts \subseteq AllRollouts
    BY <2>2, ItArrives DEF Windows
  <2> QED
    BY <2>3, <2>4, <2>5
<1> QED
  BY <1>3, <1>4, <1>5 DEF Queues, Range, AllRollouts

LEMMA AddKeepsShipped ==
    ASSUME Shapes, Shipped, NEW g, NEW q, NEW r, NEW kept, Arrival(g, q, r, kept),
           NEW cohort, Moves(g, r, kept, cohort), shipped' = shipped
    PROVE  Shipped'
<1>1. ASSUME NEW i \in 1 .. Len(shipped), NEW x \in shipped[i].samples
      PROVE  /\ Scored(x)' /\ quality'[x] = "good" /\ x \notin Range(pendingBatch')
             /\ batch' # None => x \notin batch'.samples
             /\ x[1] \in ValueGroups => valueVersion'[x] >= Warmup
  <2>1. /\ Scored(x) /\ quality[x] = "good" /\ x \notin Range(pendingBatch)
        /\ x[1] \in ValueGroups => valueVersion[x] >= Warmup
    BY DEF Shipped
  <2>2. /\ Scored(x)' /\ x[1] # g /\ quality'[x] = quality[x] /\ valueVersion'[x] = valueVersion[x]
    BY <2>1, OthersStay
  <2>3. x \notin kept
    BY <2>2 DEF Arrival, Members
  <2>4. x \notin Range(cohort) /\ x \notin Range(pendingBatch')
    BY <2>1, <2>3 DEF Moves
  <2>5. batch' # None => x \notin batch'.samples
    BY <2>4 DEF Moves, Quiet, Tells
  <2> QED
    BY <2>1, <2>2, <2>4, <2>5
<1>2. /\ shipped' \in Seq(Shipments)
      /\ \A i, j \in 1 .. Len(shipped') : i # j => shipped'[i].samples \cap shipped'[j].samples = {}
  BY DEF Shipped
<1> QED
  BY <1>1, <1>2 DEF Shipped, Shipments, AllRollouts, Range

LEMMA EvalsStay ==
    ASSUME Evals, UNCHANGED evalVars
    PROVE  Evals'
<1>1. evalArrived' = evalArrived /\ evalBatches' = evalBatches /\ evalReports' = evalReports
  BY DEF evalVars
<1>2. \A e \in Epochs : Finished(e)' = Finished(e) /\ InEpoch(e)' = InEpoch(e) /\ EpochSize(e)' = EpochSize(e)
  BY <1>1 DEF Finished, InEpoch, EpochSize
<1> QED
  BY <1>1, <1>2 DEF Evals

LEMMA AddKeeps ==
    ASSUME IInv, NEW g \in Groups, NEW q \in Qualities[g], Add(g, q)
    PROVE  IInv'
<1>1. PICK r, kept, queued : Taken(g, q, r, kept, queued)
  BY AddTakes DEF IInv
<1>2. Shapes /\ MainLoop /\ Windows /\ Queues /\ Shipped /\ Evals
  BY DEF IInv
<1>3. PICK cohort : Moves(g, r, kept, cohort)
  BY <1>1, <1>2, AddMoves
<1>4. /\ Arrival(g, q, r, kept) /\ (r[2] = GroupSize => kept = Survivors(g, quality'))
      /\ (r[2] # GroupSize => kept = {})
  BY <1>1 DEF Taken
<1>5. \A x \in kept : Scored(x)'
  BY <1>2, <1>4, SurvivorsAreScored
<1>6. UNCHANGED <<evalVars, loopVars, shipped, streak>>
  BY DEF Add
<1>7. Shapes' /\ Windows' /\ Queues' /\ Shipped'
  <2>1. Shapes'
    BY <1>2, <1>3, <1>4, AddKeepsShapes
  <2>2. Windows'
    BY <1>2, <1>3, <1>4, AddKeepsWindows
  <2>3. Queues'
    BY <1>2, <1>3, <1>4, <1>5, AddKeepsQueues
  <2>4. Shipped'
    BY <1>2, <1>3, <1>4, <1>6, AddKeepsShipped
  <2> QED
    BY <2>1, <2>2, <2>3, <2>4
<1>8. MainLoop'
  BY <1>2, <1>6 DEF MainLoop, loopVars
<1>9. Evals'
  BY <1>2, <1>6, EvalsStay
<1> QED
  BY <1>7, <1>8, <1>9 DEF IInv

-----------------------------------------------------------------------------
(* The main loop *)

\* What the sink holds, when nothing is added to it.
LEMMA SinkStays ==
    ASSUME Shapes, Windows, UNCHANGED <<trainVars, reports>>, evaluator' \in Nat
    PROVE  Shapes' /\ Windows' /\ Arrived' = Arrived /\ \A x : Scored(x)' = Scored(x)
<1>1. /\ arrived' = arrived /\ quality' = quality /\ window' = window /\ pendingGroups' = pendingGroups
      /\ pendingBatch' = pendingBatch /\ pendingTokens' = pendingTokens /\ valueVersion' = valueVersion
      /\ offered' = offered /\ lastEmptyProgress' = lastEmptyProgress /\ reports' = reports
  BY DEF trainVars
<1>2. Shapes'
  BY <1>1 DEF Shapes
<1>3. Arrived' = Arrived
  BY <1>1 DEF Arrived
<1>4. ReportedOnce'
  <2>1. Settled(window, pendingBatch, pendingGroups)' = Settled(window, pendingBatch, pendingGroups)
    BY <1>1
  <2> QED
    BY <1>1, <1>3, <2>1 DEF ReportedOnce, Windows
<1>5. Windows'
  BY <1>1, <1>4 DEF Windows
<1>6. \A x : Scored(x)' = Scored(x)
  BY <1>1 DEF Scored, Usable
<1> QED
  BY <1>2, <1>3, <1>5, <1>6

\* A batch that does not ship.
LEMMA BatchIsDropped ==
    ASSUME IInv, Handled, UNCHANGED <<trainVars, evalVars, evaluator, reports, shipped>>, MainLoop'
    PROVE  IInv'
<1>1. Shapes /\ Windows /\ Queues /\ Shipped /\ Evals /\ batch' = None /\ evaluator' \in Nat
  BY DEF IInv, Handled, Shapes
<1>2. Shapes' /\ Windows' /\ Arrived' = Arrived /\ \A x : Scored(x)' = Scored(x)
  BY <1>1, SinkStays
<1>3. /\ quality' = quality /\ pendingBatch' = pendingBatch /\ valueVersion' = valueVersion
      /\ offered' = offered /\ shipped' = shipped
  BY DEF trainVars
<1>4. Queues'
  BY <1>1, <1>2, <1>3 DEF Queues, None
<1>5. Shipped'
  BY <1>1, <1>2, <1>3 DEF Shipped, None
<1>6. Evals'
  BY <1>1, EvalsStay
<1> QED
  BY <1>2, <1>4, <1>5, <1>6 DEF IInv

\* What passes the gate was scored past the warmup.
LEMMA GateIsSound ==
    ASSUME Shapes, NEW S \in SUBSET AllRollouts, GateVersion(S) >= Warmup,
           NEW x \in S, valueVersion[x] \in Nat
    PROVE  valueVersion[x] >= Warmup
<1>1. PICK V : V = Versions(S)
  OBVIOUS
<1>2. V \in SUBSET Nat
  BY <1>1 DEF Versions, Shapes
<1>3. valueVersion[x] \in V
  BY <1>1 DEF Versions, Unscored
<1>4. Min(V) \in V /\ Min(V) <= valueVersion[x]
  BY <1>2, <1>3, MinIsThere
<1>5. GateVersion(S) = Min(V)
  BY <1>1, <1>3 DEF GateVersion
<1>6. PICK m \in Nat, v \in Nat : m = Min(V) /\ v = valueVersion[x]
  BY <1>2, <1>4
<1>7. m >= Warmup /\ m <= v /\ Warmup \in Nat
  BY <1>4, <1>5, <1>6, Settings
<1>8. v >= Warmup
  BY <1>7
<1> QED
  BY <1>6, <1>8

LEMMA ShipKeeps ==
    ASSUME IInv, Ship
    PROVE  IInv'
<1>1. Shapes /\ MainLoop /\ Windows /\ Queues /\ Shipped /\ Evals
  BY DEF IInv
<1>2. /\ batch # None /\ batch' = None /\ UNCHANGED <<trainVars, evalVars, evaluator, reports>>
      /\ shipped' = Append(shipped, [samples |-> batch.samples, rollouts |-> batch.rollouts])
      /\ GateVersion(batch.samples) >= Warmup
  BY DEF Ship, Handled
<1>3. Shapes' /\ Windows' /\ Arrived' = Arrived /\ \A x : Scored(x)' = Scored(x)
  BY <1>1, <1>2, SinkStays DEF Shapes
<1>4. /\ quality' = quality /\ pendingBatch' = pendingBatch /\ valueVersion' = valueVersion
      /\ offered' = offered
  BY <1>2 DEF trainVars
<1>5. MainLoop'
  BY <1>1, Settings DEF MainLoop, Ship, PastLastStep
<1>6. Queues'
  BY <1>1, <1>2, <1>3, <1>4 DEF Queues, None
<1>7. Evals'
  BY <1>1, <1>2, EvalsStay
<1>8. PICK n \in Nat : n = Len(shipped)
  BY <1>1, LenProperties DEF Shipped
<1> DEFINE b == [samples |-> batch.samples, rollouts |-> batch.rollouts]
<1>9. b \in Shipments /\ b.samples = batch.samples
  BY <1>1, <1>2 DEF Queues, Shipments
<1> HIDE DEF b
<1>10. /\ shipped' \in Seq(Shipments) /\ Len(shipped') = n + 1 /\ shipped'[n + 1] = b
       /\ \A i \in 1 .. n : shipped'[i] = shipped[i]
  <2>1. shipped \in Seq(Shipments) /\ shipped' = Append(shipped, b)
    BY <1>1, <1>2 DEF Shipped, b
  <2> QED
    BY <1>8, <1>9, <2>1
<1>11. \A i \in 1 .. n + 1 : i \in 1 .. n \/ i = n + 1
  OBVIOUS
<1>12. ASSUME NEW x \in b.samples
       PROVE  /\ Scored(x) /\ quality[x] = "good" /\ x \notin Range(pendingBatch)
              /\ x[1] \in ValueGroups => valueVersion[x] >= Warmup
  <2>1. /\ x \in batch.samples /\ Scored(x) /\ quality[x] = "good" /\ x \notin Range(pendingBatch)
        /\ batch.samples \in SUBSET AllRollouts
    BY <1>1, <1>2, <1>9, <1>12 DEF Queues
  <2>2. x[1] \in ValueGroups => valueVersion[x] \in Nat
    BY <2>1 DEF Scored
  <2> QED
    BY <1>1, <1>2, <2>1, <2>2, GateIsSound
<1>13. \A i \in 1 .. n : shipped[i].samples \cap b.samples = {}
  BY <1>1, <1>2, <1>8, <1>9 DEF Shipped
<1>14. \A i, j \in 1 .. n + 1 : i # j => shipped'[i].samples \cap shipped'[j].samples = {}
  <2> SUFFICES ASSUME NEW i \in 1 .. n + 1, NEW j \in 1 .. n + 1, i # j
               PROVE  shipped'[i].samples \cap shipped'[j].samples = {}
    OBVIOUS
  <2>1. CASE i \in 1 .. n /\ j \in 1 .. n
    BY <1>1, <1>8, <1>10, <2>1 DEF Shipped
  <2>2. CASE i \in 1 .. n /\ j = n + 1
    BY <1>10, <1>13, <2>2
  <2>3. CASE i = n + 1 /\ j \in 1 .. n
    BY <1>10, <1>13, <2>3
  <2> QED
    BY <1>11, <2>1, <2>2, <2>3
<1>15. ASSUME NEW i \in 1 .. n + 1, NEW x \in shipped'[i].samples
       PROVE  /\ Scored(x) /\ quality[x] = "good" /\ x \notin Range(pendingBatch)
              /\ x[1] \in ValueGroups => valueVersion[x] >= Warmup
  <2>1. CASE i \in 1 .. n
    BY <1>1, <1>8, <1>10, <1>15, <2>1 DEF Shipped
  <2>2. CASE i = n + 1
    BY <1>10, <1>12, <1>15, <2>2
  <2> QED
    BY <1>11, <2>1, <2>2
<1>16. Shipped'
  BY <1>2, <1>3, <1>4, <1>10, <1>14, <1>15 DEF Shipped, None, Shipments, AllRollouts
<1> QED
  BY <1>3, <1>5, <1>6, <1>7, <1>16 DEF IInv

\* A rollout of an open group has its values; those that have left their group keep theirs.
LEMMA ScoreKeeps ==
    ASSUME IInv, NEW r \in AllRollouts, Score(r)
    PROVE  IInv'
<1>1. Shapes /\ MainLoop /\ Windows /\ Queues /\ Shipped /\ Evals
  BY DEF IInv
<1>2. /\ r[1] \in pendingGroups /\ valueVersion' = [valueVersion EXCEPT ![r] = evaluator]
      /\ arrived' = arrived /\ quality' = quality /\ window' = window /\ pendingGroups' = pendingGroups
      /\ pendingBatch' = pendingBatch /\ pendingTokens' = pendingTokens /\ offered' = offered
      /\ lastEmptyProgress' = lastEmptyProgress /\ batch' = batch /\ evaluator' = evaluator
      /\ reports' = reports /\ shipped' = shipped
      /\ UNCHANGED evalVars /\ UNCHANGED loopVars
  BY DEF Score
<1>3. arrived[r[1]] # GroupSize
  BY <1>1, <1>2, Settings DEF Windows
<1>4. \A x : Scored(x) => Scored(x)' /\ valueVersion'[x] = valueVersion[x]
  <2> SUFFICES ASSUME NEW x, Scored(x) PROVE Scored(x)' /\ valueVersion'[x] = valueVersion[x]
    OBVIOUS
  <2>1. x \in AllRollouts /\ x # r
    BY <1>3 DEF Scored
  <2>2. valueVersion'[x] = valueVersion[x]
    BY <1>1, <1>2, <2>1 DEF Shapes
  <2> QED
    BY <1>2, <2>2 DEF Scored, Usable
<1>5. Shapes'
  <2>1. valueVersion' \in [AllRollouts -> Nat \cup {Unscored}]
    BY <1>1, <1>2 DEF Shapes
  <2> QED
    BY <1>1, <1>2, <2>1 DEF Shapes
<1>6. Arrived' = Arrived
  BY <1>2 DEF Arrived
<1>7. Windows'
  <2>1. Settled(window, pendingBatch, pendingGroups)' = Settled(window, pendingBatch, pendingGroups)
    BY <1>2
  <2>2. ReportedOnce'
    BY <1>1, <1>2, <1>6, <2>1 DEF ReportedOnce, Windows
  <2> QED
    BY <1>1, <1>2, <2>2 DEF Windows
<1>8. MainLoop'
  BY <1>1, <1>2 DEF MainLoop, loopVars
<1>9. Queues'
  BY <1>1, <1>2, <1>4, <1>6 DEF Queues
<1>10. Shipped'
  BY <1>1, <1>2, <1>4 DEF Shipped
<1>11. Evals'
  BY <1>1, <1>2, EvalsStay
<1> QED
  BY <1>5, <1>7, <1>8, <1>9, <1>10, <1>11 DEF IInv

\* The evaluator moves on, an eval rollout arrives, or nothing happens: the batch in
\* hand and what has shipped stay as they are.
LEMMA RestStays ==
    ASSUME IInv, UNCHANGED <<trainVars, loopVars, batch, reports, shipped>>, evaluator' \in Nat
    PROVE  Shapes' /\ MainLoop' /\ Windows' /\ Queues' /\ Shipped'
<1>1. Shapes /\ MainLoop /\ Windows /\ Queues /\ Shipped
  BY DEF IInv
<1>2. Shapes' /\ Windows' /\ Arrived' = Arrived /\ \A x : Scored(x)' = Scored(x)
  BY <1>1, SinkStays
<1>3. /\ quality' = quality /\ pendingBatch' = pendingBatch /\ valueVersion' = valueVersion
      /\ offered' = offered /\ shipped' = shipped /\ batch' = batch
  BY DEF trainVars
<1>4. MainLoop'
  BY <1>1 DEF MainLoop, loopVars
<1>5. Queues'
  BY <1>1, <1>2, <1>3 DEF Queues
<1>6. Shipped'
  BY <1>1, <1>2, <1>3 DEF Shipped
<1> QED
  BY <1>2, <1>4, <1>5, <1>6

-----------------------------------------------------------------------------
(* The eval sink *)

LEMMA WholeGroups ==
    ASSUME NEW n \in Nat, n >= 1, NEW c \in Nat, NEW m \in Nat
    PROVE  /\ n * c \in Nat /\ n * (c + 1) = n * c + n
           /\ n * c >= n * m <=> c >= m
<1>1. n * c \in Nat /\ n * m \in Nat /\ n * (c + 1) = n * c + n
  OBVIOUS
<1>2. ASSUME c >= m PROVE n * c >= n * m
  BY <1>2
<1>3. ASSUME c < m PROVE n * c < n * m
  BY <1>3
<1> QED
  BY <1>1, <1>2, <1>3

LEMMA EpochCounts ==
    ASSUME Evals, NEW e \in Epochs
    PROVE  /\ IsFiniteSet(InEpoch(e)) /\ IsFiniteSet(Finished(e))
           /\ Cardinality(InEpoch(e)) \in Nat /\ Cardinality(Finished(e)) \in Nat
           /\ Cardinality(Finished(e)) <= Cardinality(InEpoch(e))
           /\ Cardinality(Finished(e)) = Cardinality(InEpoch(e)) => Finished(e) = InEpoch(e)
           /\ EpochSize(e) = GroupSize * Cardinality(InEpoch(e))
<1>1. IsFiniteSet(EvalGroups) /\ InEpoch(e) \in SUBSET EvalGroups
  BY SinkAssumption DEF InEpoch
<1>2. IsFiniteSet(InEpoch(e)) /\ Finished(e) \in SUBSET InEpoch(e)
  BY <1>1, FS_Subset DEF Finished
<1>3. EpochSize(e) = GroupSize * Cardinality(InEpoch(e))
  BY DEF EpochSize, InEpoch
<1> QED
  BY <1>2, <1>3, FS_Subset, FS_CardinalityType

LEMMA AddEvalKeeps ==
    ASSUME Evals, NEW g \in EvalGroups, AddEval(g)
    PROVE  Evals'
<1>1. PICK e \in Epochs : e = Epoch[g]
  BY SinkAssumption
<1>2. PICK n : n = evalBatches[e] + (IF evalArrived[g] + 1 = GroupSize THEN GroupSize ELSE 0)
  OBVIOUS
<1>3. /\ evalArrived[g] < GroupSize /\ evalArrived' = [evalArrived EXCEPT ![g] = @ + 1]
      /\ evalBatches' = [evalBatches EXCEPT ![e] = IF EpochOver(e, n) THEN 0 ELSE n]
      /\ evalReports' = IF EpochOver(e, n) THEN [evalReports EXCEPT ![e] = Append(@, n)] ELSE evalReports
  BY <1>1, <1>2 DEF AddEval
<1>4. /\ evalArrived \in [EvalGroups -> 0 .. GroupSize] /\ evalBatches \in [Epochs -> Nat]
      /\ DOMAIN evalReports = Epochs
  BY DEF Evals
<1>5. /\ evalArrived' \in [EvalGroups -> 0 .. GroupSize] /\ evalArrived'[g] = evalArrived[g] + 1
      /\ \A h \in EvalGroups : h # g => evalArrived'[h] = evalArrived[h]
  BY <1>3, <1>4, Settings
<1>6. g \in InEpoch(e) /\ g \notin Finished(e)
  BY <1>1, <1>3, <1>4, Settings DEF InEpoch, Finished
<1>7. /\ evalReports[e] = << >> /\ Finished(e) # InEpoch(e)
      /\ evalBatches[e] = GroupSize * Cardinality(Finished(e))
  BY <1>6 DEF Evals
<1>8. PICK c \in Nat, m \in Nat : c = Cardinality(Finished(e)) /\ m = Cardinality(InEpoch(e))
  BY EpochCounts
<1>9. c < m /\ EpochSize(e) = GroupSize * m
  BY <1>7, <1>8, EpochCounts
<1>10. \A d \in Epochs : d # e => Finished(d)' = Finished(d) /\ InEpoch(d)' = InEpoch(d)
  BY <1>1, <1>5 DEF Finished, InEpoch
<1>11. Finished(e)' = IF evalArrived[g] + 1 = GroupSize THEN Finished(e) \cup {g} ELSE Finished(e)
  BY <1>1, <1>5, <1>6 DEF Finished, InEpoch
<1>12. \A d \in Epochs : EpochSize(d)' = EpochSize(d) /\ InEpoch(d)' = InEpoch(d)
  BY DEF EpochSize, InEpoch
<1>13. n \in Nat /\ (EpochOver(e, n) <=> Finished(e)' = InEpoch(e))
       /\ n = GroupSize * Cardinality(Finished(e)')
  <2>1. CASE evalArrived[g] + 1 = GroupSize
    <3>1. Finished(e)' = Finished(e) \cup {g} /\ n = GroupSize * c + GroupSize
      BY <1>2, <1>7, <1>8, <1>11, <2>1
    <3>2. /\ Cardinality(Finished(e) \cup {g}) = c + 1 /\ Finished(e) \cup {g} \in SUBSET InEpoch(e)
      BY <1>6, <1>8, EpochCounts, FS_AddElement DEF Finished
    <3>3. Finished(e) \cup {g} = InEpoch(e) <=> c + 1 = m
      BY <1>8, <3>2, EpochCounts, FS_Subset
    <3>4. n = GroupSize * (c + 1) /\ n \in Nat /\ (n >= GroupSize * m <=> c + 1 >= m)
      BY <3>1, WholeGroups, Settings
    <3>5. n >= GroupSize * m <=> c + 1 = m
      BY <1>9, <3>4
    <3> QED
      BY <1>9, <3>1, <3>2, <3>3, <3>4, <3>5 DEF EpochOver
  <2>2. CASE evalArrived[g] + 1 # GroupSize
    <3>1. Finished(e)' = Finished(e) /\ n = GroupSize * c + 0
      BY <1>2, <1>7, <1>8, <1>11, <2>2
    <3>2. n = GroupSize * c /\ n \in Nat /\ (n >= GroupSize * m <=> c >= m)
      BY <3>1, WholeGroups, Settings
    <3>3. ~(n >= GroupSize * m)
      BY <1>9, <3>2
    <3> QED
      BY <1>7, <1>8, <1>9, <3>1, <3>2, <3>3 DEF EpochOver
  <2> QED
    BY <2>1, <2>2
<1>14. /\ evalBatches' \in [Epochs -> Nat] /\ DOMAIN evalReports' = Epochs
       /\ \A d \in Epochs : d # e => evalBatches'[d] = evalBatches[d] /\ evalReports'[d] = evalReports[d]
       /\ evalBatches'[e] = IF EpochOver(e, n) THEN 0 ELSE n
       /\ evalReports'[e] = IF EpochOver(e, n) THEN Append(<< >>, n) ELSE << >>
  BY <1>3, <1>4, <1>7, <1>13
<1>15. EpochOver(e, n) => n = EpochSize(e)
  BY <1>8, <1>9, <1>13
<1>16. ASSUME NEW d \in Epochs
       PROVE  \/ /\ evalReports'[d] = << >> /\ Finished(d)' # InEpoch(d)
                 /\ evalBatches'[d] = GroupSize * Cardinality(Finished(d)')
              \/ evalReports'[d] = <<EpochSize(d)>> /\ Finished(d)' = InEpoch(d)
  <2>1. CASE d # e
    BY <1>10, <1>14, <2>1 DEF Evals
  <2>2. CASE d = e /\ EpochOver(e, n)
    <3>1. evalReports'[e] = <<n>>
      BY <1>14, <2>2
    <3> QED
      BY <1>13, <1>15, <2>2, <3>1
  <2>3. CASE d = e /\ ~EpochOver(e, n)
    BY <1>13, <1>14, <2>3
  <2> QED
    BY <2>1, <2>2, <2>3
<1> QED
  BY <1>5, <1>12, <1>14, <1>16 DEF Evals

-----------------------------------------------------------------------------
(* The theorems *)

LEMMA SinksStart == Init => IInv
<1> SUFFICES ASSUME Init PROVE IInv
  OBVIOUS
<1>1. /\ arrived = [g \in Groups |-> 0] /\ quality = [r \in AllRollouts |-> "none"]
      /\ window = {} /\ pendingGroups = {} /\ pendingBatch = << >> /\ pendingTokens = 0
      /\ valueVersion = [r \in AllRollouts |-> Unscored] /\ offered = {}
      /\ lastEmptyProgress = 0 /\ batch = None /\ evaluator = 0 /\ reports = << >> /\ shipped = << >>
  BY DEF Init
<1>2. Range(pendingBatch) = {} /\ Range(reports) = {} /\ IsInjective(pendingBatch)
  BY <1>1 DEF Range, IsInjective
<1>3. Shapes
  <2>1. pendingTokens = Weigh(Range(pendingBatch))
    BY <1>1, <1>2, WeighNothing
  <2>2. pendingBatch \in Seq(AllRollouts)
    BY <1>1
  <2>3. arrived \in [Groups -> 0 .. GroupSize]
    BY <1>1, Settings
  <2> QED
    BY <1>1, <1>2, <2>1, <2>2, <2>3 DEF Shapes
<1>4. MainLoop
  BY Settings DEF Init, MainLoop
<1>5. Windows
  <2>1. Arrived = {}
    BY <1>1 DEF Arrived, AllRollouts
  <2>2. Settled(window, pendingBatch, pendingGroups) = {}
    BY <1>1 DEF Settled
  <2>3. ReportedOnce
    <3>1. Len(reports) = 0
      BY <1>1
    <3>2. Cardinality(Settled(window, pendingBatch, pendingGroups)) < EmptyLimit
      BY <2>2, FS_EmptySet, Settings
    <3> QED
      BY <1>1, <1>2, <2>1, <3>1, <3>2 DEF ReportedOnce
  <2>4. pendingGroups = {g \in Groups : arrived[g] \in 1 .. GroupSize - 1}
    BY <1>1
  <2>5. reports \in Seq(SUBSET AllRollouts)
    BY <1>1
  <2> QED
    BY <1>1, <2>3, <2>4, <2>5, FS_EmptySet DEF Windows
<1>6. Queues
  BY <1>1, <1>2 DEF Queues
<1>7. Shipped
  BY <1>1 DEF Shipped
<1>8. Evals
  <2>1. /\ evalArrived = [g \in EvalGroups |-> 0] /\ evalBatches = [e \in Epochs |-> 0]
        /\ evalReports = [e \in Epochs |-> << >>]
    BY DEF Init
  <2>2. ASSUME NEW e \in Epochs PROVE Finished(e) = {} /\ InEpoch(e) # {}
    <3>1. PICK g \in EvalGroups : Epoch[g] = e
      BY SinkAssumption
    <3> QED
      BY <2>1, <3>1, Settings DEF Finished, InEpoch
  <2>3. \A e \in Epochs : GroupSize * Cardinality(Finished(e)) = 0
    <3>1. \A e \in Epochs : Cardinality(Finished(e)) = 0
      BY <2>2, FS_EmptySet
    <3>2. GroupSize * 0 = 0
      BY Settings
    <3> QED
      BY <3>1, <3>2
  <2>4. evalArrived \in [EvalGroups -> 0 .. GroupSize]
    BY <2>1, Settings
  <2> QED
    BY <2>1, <2>2, <2>3, <2>4 DEF Evals
<1> QED
  BY <1>3, <1>4, <1>5, <1>6, <1>7, <1>8 DEF IInv

LEMMA SinksStep == IInv /\ [Next]_vars => IInv'
<1> SUFFICES ASSUME IInv, [Next]_vars PROVE IInv'
  OBVIOUS
<1>1. MainLoop /\ Shapes /\ Evals
  BY DEF IInv
<1>2. ASSUME NEW g \in Groups, NEW q \in Qualities[g], Add(g, q) PROVE IInv'
  BY <1>2, AddKeeps
<1>3. CASE DropWhileDraining
  <2>1. MainLoop'
    BY <1>1, <1>3 DEF DropWhileDraining, MainLoop, loopVars
  <2> QED
    BY <1>3, <2>1, BatchIsDropped DEF DropWhileDraining
<1>4. CASE Withhold
  <2>1. MainLoop'
    BY <1>1, <1>4 DEF Withhold, MainLoop, loopVars
  <2> QED
    BY <1>4, <2>1, BatchIsDropped DEF Withhold
<1>5. CASE StartDrain
  <2>1. MainLoop'
    BY <1>1, <1>5 DEF StartDrain, MainLoop
  <2> QED
    BY <1>5, <2>1, BatchIsDropped DEF StartDrain
<1>6. CASE SkipEmpty
  <2>1. MainLoop'
    BY <1>1, <1>6, Settings DEF SkipEmpty, MainLoop, EmptyBatchesAfter
  <2> QED
    BY <1>6, <2>1, BatchIsDropped DEF SkipEmpty
<1>7. CASE Ship
  BY <1>7, ShipKeeps
<1>8. CASE EvaluatorAdvances
  <2>1. evaluator' \in Nat
    BY <1>1, <1>8 DEF EvaluatorAdvances, Shapes
  <2> QED
    BY <1>1, <1>8, <2>1, RestStays, EvalsStay DEF EvaluatorAdvances, IInv
<1>9. ASSUME NEW g \in EvalGroups, AddEval(g) PROVE IInv'
  <2>1. evaluator' \in Nat
    BY <1>1, <1>9 DEF AddEval, Shapes
  <2>2. UNCHANGED <<trainVars, loopVars, batch, reports, shipped>>
    BY <1>9 DEF AddEval
  <2> QED
    BY <1>1, <1>9, <2>1, <2>2, RestStays, AddEvalKeeps DEF IInv
<1>10. ASSUME NEW r \in AllRollouts, Score(r) PROVE IInv'
  BY <1>10, ScoreKeeps
<1>11. CASE UNCHANGED vars
  <2>1. evaluator' \in Nat /\ UNCHANGED <<trainVars, loopVars, batch, reports, shipped>> /\ UNCHANGED evalVars
    BY <1>1, <1>11 DEF vars, Shapes
  <2> QED
    BY <1>1, <2>1, RestStays, EvalsStay DEF IInv
<1> QED
  BY <1>2, <1>3, <1>4, <1>5, <1>6, <1>7, <1>8, <1>9, <1>10, <1>11 DEF Next

\* The invariant behind the theorems below: what has left its group is known for
\* good, the queue, the batch in hand and what has shipped are apart, and an eval
\* batch holds its finished groups.
THEOREM SinksInductive == Spec => []IInv
<1> QED
  BY SinksStart, SinksStep, PTL DEF Spec

\* The counters of TrainSink stay in step with what they count: pending_groups with
\* the arrivals of each group, and the readiness counter with the queue it stands
\* for, whatever overflows from one batch into the next.
THEOREM SinksTypes == Spec => []TypeOK
<1>1. IInv => TypeOK
  <2> SUFFICES ASSUME IInv PROVE TypeOK
    OBVIOUS
  <2>1. Shapes /\ MainLoop /\ Windows /\ Queues
    BY DEF IInv
  <2>2. Range(pendingBatch) \subseteq Arrived
    <3> SUFFICES ASSUME NEW x \in Range(pendingBatch) PROVE x \in Arrived
      OBVIOUS
    <3>1. x \in AllRollouts /\ arrived[x[1]] = GroupSize
      BY <2>1 DEF Queues, Scored
    <3> QED
      BY <3>1, Settings DEF Arrived, AllRollouts
  <2>3. window \cup offered \subseteq Arrived
    BY <2>1 DEF Windows, ReportedOnce, Queues
  <2> QED
    BY <2>1, <2>2, <2>3 DEF TypeOK, Shapes, MainLoop, Windows
<1> QED
  BY <1>1, SinksInductive, PTL

\* Every rollout that add() has taken is in the open window or in exactly one window
\* that process_batch or the flush of an empty batch has reported, and fewer than
\* max_inflight_rollouts of those that were dropped are still untold.
THEOREM SinksReportedOnce == Spec => []ReportedOnce
<1>1. IInv => ReportedOnce
  BY DEF IInv, Windows
<1> QED
  BY <1>1, SinksInductive, PTL

\* No sample ships twice, none that a filter dropped, of a group that failed in part
\* although it is needed whole, that kept fewer siblings than its algorithm asks for
\* or that the critic was not offered, and none whose value model was younger than the
\* warmup when it scored it: whether the rollouts of a group are scored on arrival,
\* while the evaluator advances, or by one request for the whole group.
THEOREM SinksShippedSound == Spec => []ShippedIsSound
<1>1. IInv => ShippedIsSound
  BY DEF IInv, Shipped, Scored, NeedsAll, ShippedIsSound
<1> QED
  BY <1>1, SinksInductive, PTL

\* EvalSink reports every epoch once, with all its rollouts, when the last of its
\* groups is complete, also while another epoch is under way.
THEOREM SinksEpochsWhole == Spec => []EpochsAreWhole
<1>1. IInv => EpochsAreWhole
  <2> SUFFICES ASSUME IInv, NEW e \in Epochs
               PROVE  /\ evalReports[e] \in {<< >>, <<EpochSize(e)>>}
                      /\ (\A g \in EvalGroups : Epoch[g] = e => evalArrived[g] = GroupSize)
                            => evalReports[e] # << >>
    BY DEF EpochsAreWhole
  <2>1. Evals
    BY DEF IInv
  <2>2. (\A g \in EvalGroups : Epoch[g] = e => evalArrived[g] = GroupSize) => Finished(e) = InEpoch(e)
    BY DEF Finished, InEpoch
  <2>3. <<EpochSize(e)>> # << >>
    OBVIOUS
  <2> QED
    BY <2>1, <2>2, <2>3 DEF Evals
<1> QED
  BY <1>1, SinksInductive, PTL

-----------------------------------------------------------------------------
(* Turns of the runs *)
\* The sizes are positive and one sample always fits the budget of a step.
LEMMA RunSettings ==
    /\ MaxRuns \in Nat /\ MaxRuns >= 1 /\ SeqLen \in Nat /\ SeqLen >= 1
    /\ Budget \in Nat /\ SeqLen <= Budget /\ Batches \subseteq Seq(Nat) /\ MaxLives \in Nat
<1>1. PICK s \in Nat, d \in Nat : s = SeqLen /\ d = DpWorldSize /\ s >= 1 /\ d >= 1
  BY MultiRunAssumption
<1>2. s * d \in Nat /\ s <= s * d
  <2>1. s * d = s + s * (d - 1) /\ d - 1 \in Nat
    BY <1>1
  <2>2. s * (d - 1) \in Nat
    BY <2>1
  <2> QED
    BY <2>1, <2>2
<1>3. MaxRuns \in Nat /\ MaxRuns >= 1 /\ Batches \subseteq Seq(Nat) /\ MaxLives \in Nat
  BY MultiRunAssumption
<1>4. Budget = s * d
  BY <1>1 DEF Budget
<1> QED
  BY <1>1, <1>2, <1>3, <1>4

\* The fold of a sequence of lengths is their sum.
LEMMA SumOfLengths ==
    ASSUME NEW n \in Nat, NEW w, DOMAIN w = 1 .. n, \A k \in 1 .. n : w[k] \in Nat
    PROVE  SumOf(w) = Total(w, 1 .. n) /\ SumOf(w) \in Nat
<1> DEFINE D == 1 .. n
           Solves(f) == f = [s \in SUBSET D |-> IF s = {} THEN 0
                                ELSE w[CHOOSE x \in s : TRUE] + f[s \ {CHOOSE x \in s : TRUE}]]
<1>1. IsFiniteSet(D)
  BY FS_Interval
<1>2. \A f : Solves(f) <=> Sums(f, w, D)
  BY DEF Sums
<1>3. SumOf(w) = (CHOOSE f : Solves(f))[D]
  BY Zenon DEF SumOf, MapThenSumSet, MapThenFoldSet
<1> HIDE DEF D
<1>4. \A x \in D : w[x] \in Nat
  BY DEF D
<1>5. Sums([s \in SUBSET D |-> Total(w, s)], w, D)
  BY <1>1, <1>4, SumExists
<1> HIDE DEF Solves
<1>6. Sums(CHOOSE f : Solves(f), w, D)
  BY <1>2, <1>5
<1>7. SumOf(w) = Total(w, D)
  BY <1>1, <1>3, <1>4, <1>6, SumIsTotal
<1>8. Total(w, D) \in Nat
  BY <1>1, <1>4, PointsAreFinite
<1> QED
  BY <1>7, <1>8 DEF D

\* A sample in the order of the round robin.
Turns == [idx : Idxs, len : 1 .. SeqLen, step : Nat, by : Tenants]

Prefix(q, k) == SubSeq(q, 1, k)
Tokens(q, k) == SumOf(Lens(Prefix(q, k)))

\* The tokens of one sample more.
LEMMA PrefixTokens ==
    ASSUME NEW n \in Nat, NEW q \in Seq(Turns), Len(q) = n, NEW k \in 0 .. n
    PROVE  /\ Prefix(q, k) \in Seq(Turns) /\ Len(Prefix(q, k)) = k
           /\ \A j \in 1 .. k : Prefix(q, k)[j] = q[j]
           /\ Tokens(q, k) \in Nat /\ (k = 0 => Tokens(q, k) = 0) /\ (k = 1 => Tokens(q, k) = q[1].len)
<1>1. /\ Prefix(q, k) \in Seq(Turns) /\ Len(Prefix(q, k)) = k
      /\ \A j \in 1 .. k : Prefix(q, k)[j] = q[j]
  BY DEF Prefix
<1> DEFINE p == Prefix(q, k)
           w == Lens(p)
<1>2. k \in Nat /\ DOMAIN p = 1 .. k
  BY <1>1
<1>3. DOMAIN w = 1 .. k /\ \A j \in 1 .. k : w[j] = q[j].len
  BY <1>1, <1>2 DEF Lens
<1>4. \A j \in 1 .. k : q[j].len \in Nat /\ q[j] \in Turns
  <2>1. \A t \in Turns : t.len \in Nat
    BY RunSettings DEF Turns
  <2>2. \A j \in 1 .. k : j \in 1 .. n /\ q[j] \in Turns
    OBVIOUS
  <2> QED
    BY <2>1, <2>2
<1> HIDE DEF w
<1>5. SumOf(w) = Total(w, 1 .. k) /\ SumOf(w) \in Nat
  BY <1>2, <1>3, <1>4, SumOfLengths
<1>6. Tokens(q, k) = SumOf(w)
  BY DEF Tokens, w
<1>7. ASSUME k = 0 PROVE Tokens(q, k) = 0
  <2>1. 1 .. k = {}
    BY <1>7
  <2> QED
    BY <1>5, <1>6, <2>1, TotalOfNone
<1>8. ASSUME k = 1 PROVE Tokens(q, k) = q[1].len
  <2>1. 1 .. k = {1} /\ w[1] = q[1].len /\ w[1] \in Nat
    BY <1>3, <1>4, <1>8
  <2> QED
    BY <1>5, <1>6, <2>1, TotalOfOne
<1> QED
  BY <1>1, <1>5, <1>6, <1>7, <1>8

\* The selection takes the first p samples of the queue, and pops from each buffer its share.
Cuts(q, sel, p) ==
    /\ sel.taken = SubSeq(q, 1, p)
    /\ \A i \in Idxs : sel.popped[i] = Cardinality({k \in 1 .. p : q[k].idx = i})

\* What is selected: nothing is thrown away, as every buffered sample fits.
LEMMA Selected ==
    ASSUME NEW E \in SUBSET Turns, NEW n \in Nat \ {0}, NEW q \in Seq(E), Len(q) = n,
           NEW sel, sel = Selection(q)
    PROVE  /\ sel.taken \in Seq(E) /\ Len(sel.taken) \in Nat \ {0}
           /\ SumOf(Lens(sel.taken)) <= Budget
           /\ sel.popped \in [Idxs -> Nat] /\ sel.position \in Idxs
           /\ \E p \in 1 .. n : Cuts(q, sel, p)
<1> DEFINE total == [k \in 0 .. n |-> Tokens(q, k)]
           Oversized == {k \in 0 .. n : \A j \in 1 .. k : q[j].len > Budget}
           d == Max(Oversized)
           Fitting == {k \in d .. n : total[k] - total[d] <= Budget}
           p == Max(Fitting)
           looked == IF p = n \/ (total[p] - total[d] = Budget /\ p > 0) THEN p ELSE p + 1
           count == [i \in Idxs |-> Cardinality({k \in 1 .. p : q[k].idx = i})]
<1>1. /\ sel.taken = SubSeq(q, d + 1, p) /\ sel.popped = count
      /\ sel.position = After(q[looked].idx)
  BY DEF Selection, Tokens, Prefix
<1>2. q \in Seq(Turns) /\ \A j \in 1 .. n : q[j] \in E /\ q[j] \in Turns
  OBVIOUS
<1>3. \A t \in Turns : t.len \in Nat /\ t.len <= Budget /\ t.idx \in Nat
  BY RunSettings DEF Turns, Idxs
<1>4. d = 0
  <2>1. Oversized = {0}
    BY <1>2, <1>3, RunSettings
  <2>2. {0} \in SUBSET (0 .. 0) /\ {0} # {}
    OBVIOUS
  <2>3. Max({0}) \in {0}
    BY <2>2, MaxIsThere, Zenon
  <2> QED
    BY <2>1, <2>3
<1> HIDE DEF d
<1>5. \A k \in 0 .. n : total[k] = Tokens(q, k) /\ total[k] \in Nat
  BY <1>2, PrefixTokens
<1>6. total[0] = 0 /\ total[1] = q[1].len
  <2>1. 0 \in 0 .. n /\ 1 \in 0 .. n
    OBVIOUS
  <2> QED
    BY <1>2, <1>5, <2>1, PrefixTokens
<1> HIDE DEF total
<1>7. Fitting \in SUBSET (0 .. n) /\ 1 \in Fitting
  BY <1>2, <1>3, <1>4, <1>6
<1>8. p \in Fitting /\ p >= 1
  <2>1. Max(Fitting) \in Fitting /\ \A y \in Fitting : Max(Fitting) >= y
    BY <1>7, MaxIsThere
  <2> QED
    BY <1>7, <2>1
<1> HIDE DEF p
<1>9. p \in 1 .. n /\ Tokens(q, p) <= Budget
  BY <1>4, <1>5, <1>6, <1>8
<1>10. sel.taken = Prefix(q, p)
  BY <1>1, <1>4 DEF Prefix
<1>11. sel.taken \in Seq(E) /\ Len(sel.taken) = p
  BY <1>9, <1>10 DEF Prefix
<1>12. SumOf(Lens(sel.taken)) <= Budget
  BY <1>9, <1>10 DEF Tokens
<1>13. count \in [Idxs -> Nat]
  <2>1. IsFiniteSet(1 .. p)
    BY <1>9, FS_Interval
  <2>2. ASSUME NEW i \in Idxs PROVE Cardinality({k \in 1 .. p : q[k].idx = i}) \in Nat
    <3>1. IsFiniteSet({k \in 1 .. p : q[k].idx = i})
      BY <2>1, FS_Subset
    <3> QED
      BY <3>1, FS_CardinalityType
  <2> QED
    BY <2>2
<1>14. looked \in 1 .. n
  BY <1>9
<1> HIDE DEF looked
<1>15. q[looked].idx \in Nat
  BY <1>2, <1>3, <1>14
<1>16. PICK m \in Nat, N \in Nat : m = q[looked].idx /\ N = MaxRuns /\ N >= 1
  BY <1>15, RunSettings
<1>17. (m + 1) % N \in 0 .. N - 1
  BY <1>16
<1>18. sel.position \in Idxs
  BY <1>1, <1>16, <1>17 DEF After, Idxs
<1>19. sel.popped \in [Idxs -> Nat]
  BY <1>1, <1>13
<1>20. Len(sel.taken) \in Nat \ {0}
  BY <1>9, <1>11
<1>21. p \in 1 .. n /\ Cuts(q, sel, p)
  BY <1>1, <1>9, <1>10 DEF Prefix, Cuts
<1> HIDE DEF count
<1> QED
  BY <1>11, <1>12, <1>18, <1>19, <1>20, <1>21

-----------------------------------------------------------------------------
\* The samples that may be buffered.
Good == {s \in Samples : Valid(s.len)}

\* Eligible is a prefix of the buffer, of samples of the current step or an earlier one.
LEMMA EligibleIs ==
    ASSUME NEW i \in Idxs, NEW n \in Nat, NEW b \in Seq(Good), b = buffers[i], Len(b) = n, progress[i] \in Nat
    PROVE  /\ Eligible(i) \in Seq(Good) /\ Len(Eligible(i)) \in 0 .. n
           /\ \A k \in 1 .. Len(Eligible(i)) : Eligible(i)[k] = b[k] /\ b[k].step <= progress[i]
<1> DEFINE S == {k \in 0 .. n : \A j \in 1 .. k : b[j].step <= progress[i]}
           m == Max(S)
<1>1. Eligible(i) = SubSeq(b, 1, m)
  BY DEF Eligible
<1>2. 0 \in S /\ S \in SUBSET (0 .. n)
  OBVIOUS
<1>3. Max(S) \in S
  BY <1>2, MaxIsThere
<1>4. m \in 0 .. n /\ \A j \in 1 .. m : b[j].step <= progress[i]
  BY <1>3
<1> HIDE DEF m
<1>5. SubSeq(b, 1, m) \in Seq(Good) /\ Len(SubSeq(b, 1, m)) = m /\ \A k \in 1 .. m : SubSeq(b, 1, m)[k] = b[k]
  BY <1>4
<1> QED
  BY <1>1, <1>4, <1>5

\* The index the round robin looks into in its k-th turn.
Turn(k) == (position + k - 1) % MaxRuns
Turned(i) == [j \in 1 .. Len(Eligible(i)) |-> At(i, Eligible(i)[j])]

\* Every index has its turn.
LEMMA EveryTurn ==
    ASSUME position \in Idxs
    PROVE  /\ \A k \in 1 .. MaxRuns : Turn(k) \in Idxs
           /\ \A i \in Idxs : \E k \in 1 .. MaxRuns : Turn(k) = i
<1>1. PICK n \in Nat, p \in Nat : n = MaxRuns /\ p = position /\ n >= 1 /\ p <= n - 1
  BY RunSettings DEF Idxs
<1>2. \A a \in Int : a % n \in 0 .. n - 1
  BY <1>1
<1>3. \A a \in 0 .. n - 1 : a % n = a /\ (a + n) % n = a
  BY <1>1
<1>4. \A k \in 1 .. n : p + k - 1 \in Int
  BY <1>1
<1>5. \A k \in 1 .. MaxRuns : Turn(k) \in Idxs
  BY <1>1, <1>2, <1>4 DEF Turn, Idxs
<1>6. ASSUME NEW i \in 0 .. n - 1 PROVE \E k \in 1 .. n : (p + k - 1) % n = i
  <2>1. CASE i >= p
    <3>1. i - p + 1 \in 1 .. n /\ p + (i - p + 1) - 1 = i
      BY <1>1, <2>1
    <3> QED
      BY <1>3, <3>1
  <2>2. CASE i < p
    <3>1. i - p + 1 + n \in 1 .. n /\ p + (i - p + 1 + n) - 1 = i + n
      BY <1>1, <2>2
    <3> QED
      BY <1>3, <3>1
  <2> QED
    BY <1>1, <2>1, <2>2
<1> QED
  BY <1>1, <1>5, <1>6 DEF Turn, Idxs

\* The samples that may be packed now.
Waiting == {t \in Turns : \E k \in 1 .. Len(buffers[t.idx]) :
                /\ t = At(t.idx, buffers[t.idx][k])
                /\ buffers[t.idx][k].step <= progress[t.idx]}

\* InTurn holds waiting samples only, and no fewer than there are at any index.
LEMMA InTurnIs ==
    ASSUME buffers \in [Idxs -> Seq(Good)], progress \in [Idxs -> Nat], position \in Idxs
    PROVE  InTurn \in Seq(Waiting) /\ \A i \in Idxs : Len(Eligible(i)) <= Len(InTurn)
<1> DEFINE parts == [k \in 1 .. MaxRuns |-> Turned(Turn(k))]
<1>1. InTurn = FlattenSeq(parts)
  BY DEF InTurn, Turned, Turn
<1>2. ASSUME NEW i \in Idxs PROVE Turned(i) \in Seq(Waiting) /\ Len(Turned(i)) = Len(Eligible(i))
  <2>1. PICK b \in Seq(Good), n \in Nat : b = buffers[i] /\ n = Len(b)
    BY LenProperties
  <2>2. progress[i] \in Nat
    OBVIOUS
  <2>a. /\ Len(Eligible(i)) \in 0 .. n
        /\ \A k \in 1 .. Len(Eligible(i)) : Eligible(i)[k] = b[k] /\ b[k].step <= progress[i]
    BY <2>1, <2>2, EligibleIs
  <2>3. PICK m \in Nat : /\ m = Len(Eligible(i)) /\ m <= n
                         /\ \A k \in 1 .. m : Eligible(i)[k] = b[k] /\ b[k].step <= progress[i]
    BY <2>1, <2>a
  <2>4. ASSUME NEW k \in 1 .. m PROVE At(i, Eligible(i)[k]) \in Waiting
    <3>1. k \in 1 .. n /\ b[k] \in Good /\ b[k].step <= progress[i] /\ Eligible(i)[k] = b[k]
      BY <2>1, <2>3
    <3>2. b[k].len \in 1 .. SeqLen /\ b[k].step \in Nat /\ b[k].by \in Tenants
      BY <3>1, RunSettings DEF Good, Samples, Valid
    <3>3. At(i, b[k]) \in Turns /\ At(i, b[k]).idx = i
      BY <3>2 DEF At, Turns
    <3> QED
      BY <2>1, <3>1, <3>3 DEF Waiting
  <2>5. Turned(i) = [j \in 1 .. m |-> At(i, Eligible(i)[j])]
    BY <2>3 DEF Turned
  <2> QED
    BY <2>3, <2>4, <2>5
<1>3. PICK N \in Nat : N = MaxRuns /\ N >= 1
  BY RunSettings
<1>4. \A k \in 1 .. N : Turned(Turn(k)) \in Seq(Waiting)
  BY <1>2, <1>3, EveryTurn
<1>5. parts \in Seq(Seq(Waiting)) /\ Len(parts) = N /\ \A k \in 1 .. N : parts[k] = Turned(Turn(k))
  BY <1>3, <1>4
<1> HIDE DEF parts
<1>6. N \in Nat \ {0}
  BY <1>3
<1>7. FlattenSeq(parts) \in Seq(Waiting) /\ \A j \in 1 .. N : Len(parts[j]) <= Len(FlattenSeq(parts))
  BY <1>5, <1>6, Flattened
<1>8. ASSUME NEW i \in Idxs PROVE Len(Eligible(i)) <= Len(InTurn)
  <2>1. PICK k \in 1 .. N : Turn(k) = i
    BY <1>3, EveryTurn
  <2>2. Len(parts[k]) = Len(Eligible(i))
    BY <1>2, <1>5, <2>1
  <2> QED
    BY <1>1, <1>7, <2>1, <2>2
<1> QED
  BY <1>1, <1>7, <1>8

\* Tokens to pack are those of a sample that may be packed.
LEMMA TokensWait ==
    ASSUME buffers \in [Idxs -> Seq(Good)], progress \in [Idxs -> Nat]
    PROVE  /\ CountTokens \in Nat
           /\ CountTokens > 0 => \E i \in Idxs : Len(Eligible(i)) > 0
<1> DEFINE w == [i \in UsedIdxs |-> TokensOf(i)]
           Solves(f) == f = [s \in SUBSET UsedIdxs |-> IF s = {} THEN 0
                          ELSE TokensOf(CHOOSE x \in s : TRUE) + f[s \ {CHOOSE x \in s : TRUE}]]
<1>1. IsFiniteSet(UsedIdxs)
  <2>1. MaxRuns \in Int /\ 0 \in Int /\ MaxRuns - 1 \in Int
    BY RunSettings
  <2>2. IsFiniteSet(0 .. MaxRuns - 1)
    BY <2>1, FS_Interval
  <2>3. UsedIdxs \subseteq 0 .. MaxRuns - 1
    BY DEF UsedIdxs, Idxs
  <2> QED
    BY <2>2, <2>3, FS_Subset
<1>2. ASSUME NEW i \in UsedIdxs PROVE TokensOf(i) \in Nat /\ (Len(Eligible(i)) = 0 => TokensOf(i) = 0)
  <2>1. i \in Idxs /\ buffers[i] \in Seq(Good) /\ progress[i] \in Nat /\ Len(buffers[i]) \in Nat
    BY LenProperties DEF UsedIdxs
  <2>2. Eligible(i) \in Seq(Good)
    BY <2>1, EligibleIs
  <2>3. PICK m \in Nat : m = Len(Eligible(i)) /\ DOMAIN Eligible(i) = 1 .. m /\ \A k \in 1 .. m : Eligible(i)[k] \in Good
    BY <2>2, LenProperties
  <2>4. \A g \in Good : g.len \in Nat
    BY DEF Good, Samples
  <2>5. DOMAIN Lens(Eligible(i)) = 1 .. m /\ \A k \in 1 .. m : Lens(Eligible(i))[k] \in Nat
    BY <2>3, <2>4 DEF Lens
  <2>6. TokensOf(i) = Total(Lens(Eligible(i)), 1 .. m) /\ TokensOf(i) \in Nat
    BY <2>5, SumOfLengths DEF TokensOf
  <2>7. ASSUME m = 0 PROVE TokensOf(i) = 0
    <3>1. 1 .. m = {}
      BY <2>7
    <3> QED
      BY <2>6, <3>1, TotalOfNone
  <2> QED
    BY <2>3, <2>6, <2>7
<1>3. CountTokens = (CHOOSE f : Solves(f))[UsedIdxs]
  BY Zenon DEF CountTokens, MapThenSumSet, MapThenFoldSet
<1>4. \A i \in UsedIdxs : w[i] = TokensOf(i)
  OBVIOUS
<1> HIDE DEF w
<1>5. \A f : Solves(f) <=> Sums(f, w, UsedIdxs)
  <2>1. \A s \in SUBSET UsedIdxs : s # {} =>
           w[CHOOSE x \in s : TRUE] = TokensOf(CHOOSE x \in s : TRUE)
    BY <1>4
  <2> DEFINE A(f) == [s \in SUBSET UsedIdxs |-> IF s = {} THEN 0
                ELSE TokensOf(CHOOSE x \in s : TRUE) + f[s \ {CHOOSE x \in s : TRUE}]]
             B(f) == [s \in SUBSET UsedIdxs |-> IF s = {} THEN 0
                ELSE w[CHOOSE x \in s : TRUE] + f[s \ {CHOOSE x \in s : TRUE}]]
  <2>2. \A f : A(f) = B(f)
    BY <2>1
  <2>3. \A f : (Solves(f) <=> f = A(f)) /\ (Sums(f, w, UsedIdxs) <=> f = B(f))
    BY Zenon DEF Sums
  <2> HIDE DEF A, B, Solves
  <2> QED
    BY <2>2, <2>3, Zenon
<1>6. \A i \in UsedIdxs : w[i] \in Nat
  BY <1>2, <1>4
<1>7. Sums([s \in SUBSET UsedIdxs |-> Total(w, s)], w, UsedIdxs)
  BY <1>1, <1>6, SumExists
<1> HIDE DEF Solves
<1>8. Sums(CHOOSE f : Solves(f), w, UsedIdxs)
  BY <1>5, <1>7
<1>9. CountTokens = Total(w, UsedIdxs)
  BY <1>1, <1>3, <1>6, <1>8, SumIsTotal
<1>10. CountTokens \in Nat
  BY <1>1, <1>6, <1>9, PointsAreFinite
<1>11. ASSUME \A i \in Idxs : Len(Eligible(i)) = 0 PROVE CountTokens = 0
  <2>1. \A i \in UsedIdxs : w[i] = 0
    BY <1>2, <1>4, <1>11 DEF UsedIdxs
  <2> QED
    BY <1>9, <2>1, TotalZero
<1>12. \A i \in Idxs : Len(Eligible(i)) \in Nat
  <2> TAKE i \in Idxs
  <2>1. buffers[i] \in Seq(Good) /\ progress[i] \in Nat /\ Len(buffers[i]) \in Nat
    BY LenProperties
  <2>2. Eligible(i) \in Seq(Good)
    BY <2>1, EligibleIs
  <2> QED
    BY <2>2, LenProperties
<1> QED
  BY <1>10, <1>11, <1>12

-----------------------------------------------------------------------------
(* Runs and their indices *)
Seats == Tenants \cup {NoRun}
Arrivals == [idx : Idxs, step : Nat \ {0}, by : Tenants, lens : Batches]

RunShapes ==
    /\ dir \in [Ids -> {"absent", "bare", "live"}]
    /\ life \in [Ids -> 0 .. MaxLives] /\ evicted \in [Ids -> BOOLEAN]
    /\ published \in [Ids -> Nat] /\ done \in [Ids -> Nat] /\ wrote \in [Ids -> Seq(Batches)]
    /\ tenant \in [Idxs -> Seats] /\ synced \in [Idxs -> Seats]
    /\ rank \in [Idxs -> Seats] /\ adapter \in [Idxs -> Seats]
    /\ progress \in [Idxs -> Nat \ {0}] /\ received \in [Idxs -> Nat]
    /\ buffers \in [Idxs -> Seq(Good)] /\ inbox \in Seq(Arrivals) /\ packed \in Seq(Turns)
    /\ ready \in [Idxs -> BOOLEAN] /\ slept \in BOOLEAN /\ position \in Idxs
    /\ phase \in Phases

\* An index belongs to one run; only its samples are buffered and flagged there.
RunIndices ==
    /\ \A r \in Ids : dir[r] # "absent" => life[r] >= 1
    /\ \A i \in UsedIdxs : life[tenant[i].id] >= 1
    /\ \A i, j \in UsedIdxs : tenant[i].id = tenant[j].id => i = j
    /\ \A i \in Idxs : tenant[i] = NoRun => buffers[i] = << >> /\ received[i] = 0
    /\ \A i \in Idxs : ready[i] =>
          tenant[i] # NoRun /\ phase \in {"sync", "train", "broadcast", "crashed"}

\* Where the receiver and the packer are.
RunSteps ==
    /\ \A i \in Idxs : received[i] # 0 => progress[i] <= received[i]
    /\ \A i \in Idxs : \A k \in 1 .. Len(buffers[i]) :
          /\ progress[i] <= buffers[i][k].step /\ buffers[i][k].step < received[i]
          /\ \A j \in 1 .. k : buffers[i][j].step <= buffers[i][k].step
    /\ phase = "buffer" => \A m \in DOMAIN inbox :
          /\ inbox[m].idx \in UsedIdxs
          /\ progress[inbox[m].idx] <= inbox[m].step /\ inbox[m].step < received[inbox[m].idx]
          /\ \A k \in 1 .. Len(buffers[inbox[m].idx]) : buffers[inbox[m].idx][k].step <= inbox[m].step

\* The step that is packed.
RunPacks ==
    /\ phase \notin {"sync", "train", "crashed"} => packed = << >>
    /\ phase \in {"sync", "train"} => Len(packed) >= 1 /\ SumOf(Lens(packed)) <= Budget
    /\ \A k \in 1 .. Len(packed) :
          /\ tenant[packed[k].idx] # NoRun
          /\ packed[k].step = IF ready[packed[k].idx] THEN progress[packed[k].idx] - 1
                                                      ELSE progress[packed[k].idx]

RunBase == RunShapes /\ RunIndices /\ RunSteps /\ RunPacks

-----------------------------------------------------------------------------
(* Names are not used again. *)
Holds(t, r) == \E i \in Idxs : t[i] # NoRun /\ t[i].id = r
\* A run that has been removed or evicted, for good.
IsOver(r) == life[r] = 1 /\ (dir[r] = "absent" \/ evicted[r])
\* A batch that is on the disk and in order.
InOrderOnDisk(r, s) == s \in 1 .. Len(wrote[r]) /\ \A len \in Range(wrote[r][s]) : Valid(len)

\* How far the packer is ahead of the optimizer.
Ahead(i) == IF ready[i] /\ phase \in {"sync", "train"} THEN 2 ELSE 1

RunCounts ==
    /\ \A r \in Ids : done[r] # 0 => Holds(tenant, r) \/ IsOver(r)
    /\ \A r \in Ids : life[r] = 0 => published[r] = 0
    /\ \A i \in UsedIdxs : progress[i] = done[tenant[i].id] + Ahead(i)

RunAdapters ==
    /\ rank = synced /\ phase # "crashed"
    /\ \A i \in Idxs : synced[i] # NoRun =>
          /\ adapter[i] = synced[i]
          /\ IsOver(synced[i].id) \/ Holds(tenant, synced[i].id)
    /\ \A i, j \in Idxs :
          synced[i] # NoRun /\ tenant[j] # NoRun /\ synced[i].id = tenant[j].id => i = j
    /\ phase \in {"train", "broadcast"} => synced = tenant

RunBatches ==
    /\ \A r \in Ids : dir[r] # "live" => wrote[r] = << >>
    /\ \A i \in UsedIdxs : evicted[tenant[i].id] => phase = "rediscover"
    /\ \A i \in UsedIdxs : ~IsOver(tenant[i].id) =>
          /\ \A k \in 1 .. Len(buffers[i]) : InOrderOnDisk(tenant[i].id, buffers[i][k].step)
          /\ \A k \in 1 .. Len(packed) : packed[k].idx = i => InOrderOnDisk(tenant[i].id, packed[k].step)
          /\ phase = "buffer" => \A m \in DOMAIN inbox : inbox[m].idx = i =>
                /\ inbox[m].step \in 1 .. Len(wrote[tenant[i].id])
                /\ inbox[m].lens = wrote[tenant[i].id][inbox[m].step]

RunOnce == RunCounts /\ RunAdapters /\ RunBatches
-----------------------------------------------------------------------------
(* What a step that leaves some variables alone preserves *)

\* RunSteps speaks of the receiver and the packer only.
LEMMA StepsKept ==
    ASSUME RunSteps, UNCHANGED <<tenant, progress, received, buffers, inbox>>,
           phase' = "buffer" => phase = "buffer"
    PROVE  RunSteps'
  BY DEF RunSteps, UsedIdxs

\* RunPacks speaks of the packer only.
LEMMA PacksKept ==
    ASSUME RunPacks, UNCHANGED <<tenant, progress, ready, packed>>,
           phase' \in {"sync", "train"} => phase \in {"sync", "train"},
           phase' \notin {"sync", "train", "crashed"} => phase \notin {"sync", "train", "crashed"}
    PROVE  RunPacks'
  BY DEF RunPacks

-----------------------------------------------------------------------------
(* The base: first the initial state and the disk *)

\* RunBase holds when the trainer starts.
LEMMA BaseInit == RunsInit => RunBase
<1> SUFFICES ASSUME RunsInit PROVE RunBase
  OBVIOUS
<1>1. RunShapes
  <2>1. 0 \in Idxs /\ 0 \in 0 .. MaxLives /\ "discover" \in Phases
    BY RunSettings DEF Idxs, Phases
  <2>2. NoRun \in Seats
    BY DEF Seats
  <2>3. buffers \in [Idxs -> Seq(Good)] /\ inbox \in Seq(Arrivals) /\ packed \in Seq(Turns)
    BY DEF RunsInit
  <2>4. wrote \in [Ids -> Seq(Batches)]
    BY DEF RunsInit
  <2>5. tenant \in [Idxs -> Seats] /\ synced = tenant /\ rank = tenant /\ adapter = tenant
    BY <2>2 DEF RunsInit
  <2>6. /\ life \in [Ids -> 0 .. MaxLives] /\ evicted \in [Ids -> BOOLEAN]
        /\ dir \in [Ids -> {"absent", "bare", "live"}]
        /\ published \in [Ids -> Nat] /\ done \in [Ids -> Nat]
    BY <2>1 DEF RunsInit
  <2>7. /\ progress \in [Idxs -> Nat \ {0}] /\ received \in [Idxs -> Nat]
        /\ ready \in [Idxs -> BOOLEAN] /\ slept \in BOOLEAN /\ position \in Idxs /\ phase \in Phases
    BY <2>1, SMTT(30) DEF RunsInit
  <2> QED
    BY <2>3, <2>4, <2>5, <2>6, <2>7 DEF RunShapes
<1>2. RunIndices
  BY DEF RunsInit, RunIndices, UsedIdxs
<1>3. RunSteps
  <2>1. \A i \in Idxs : received[i] = 0 /\ Len(buffers[i]) = 0
    BY DEF RunsInit
  <2>2. phase # "buffer"
    BY DEF RunsInit
  <2> QED
    BY <2>1, <2>2 DEF RunSteps
<1>4. RunPacks
  <2>1. packed = << >> /\ Len(packed) = 0 /\ phase = "discover"
    BY DEF RunsInit
  <2> QED
    BY <2>1 DEF RunPacks
<1> QED
  BY <1>1, <1>2, <1>3, <1>4 DEF RunBase

\* The disk as the environment leaves it.
LEMMA BaseEnvironment ==
    ASSUME RunBase, Environment
    PROVE  RunBase'
<1>1. /\ UNCHANGED <<tenant, progress, received, buffers, ready, position, slept, inbox, packed>>
      /\ UNCHANGED <<synced, rank, adapter, done, phase>>
  BY DEF Environment, runs, turn, ranks
<1>2. PICK r \in Ids : \/ NewDir(r) \/ WriteConfig(r) \/ RemoveDir(r)
                      \/ \E b \in Batches : WriteBatch(r, b)
  BY DEF Environment
<1>3. /\ dir \in [Ids -> {"absent", "bare", "live"}]
      /\ life \in [Ids -> 0 .. MaxLives] /\ evicted \in [Ids -> BOOLEAN]
      /\ published \in [Ids -> Nat] /\ wrote \in [Ids -> Seq(Batches)]
  BY DEF RunBase, RunShapes
<1>4. \A x \in Ids : dir[x] # "absent" => life[x] >= 1
  BY DEF RunBase, RunIndices
<1> DEFINE Fine ==
      /\ dir' \in [Ids -> {"absent", "bare", "live"}]
      /\ life' \in [Ids -> 0 .. MaxLives] /\ evicted' \in [Ids -> BOOLEAN]
      /\ published' \in [Ids -> Nat] /\ wrote' \in [Ids -> Seq(Batches)]
      /\ \A x \in Ids : life'[x] >= life[x] /\ (dir'[x] # "absent" => life'[x] >= 1)
<1>5. ASSUME NewDir(r) PROVE Fine
  <2>1. life[r] + 1 \in 0 .. MaxLives /\ life[r] \in Nat
    BY <1>3, <1>5, RunSettings DEF NewDir
  <2>2. \A x \in Ids : life'[x] = IF x = r THEN life[r] + 1 ELSE life[x]
    BY <1>3, <1>5 DEF NewDir
  <2>3. life' \in [Ids -> 0 .. MaxLives] /\ dir' \in [Ids -> {"absent", "bare", "live"}]
    BY <1>3, <1>5, <2>1 DEF NewDir
  <2>4. published' \in [Ids -> Nat] /\ evicted' = evicted /\ wrote' = wrote
    BY <1>3, <1>5 DEF NewDir
  <2>5. \A x \in Ids : life'[x] >= life[x] /\ (dir'[x] # "absent" => life'[x] >= 1)
    BY <1>3, <1>4, <1>5, <2>1, <2>2 DEF NewDir
  <2> QED
    BY <1>3, <2>3, <2>4, <2>5
<1>6. ASSUME WriteConfig(r) PROVE Fine
  <2>1. \A x \in Ids : dir'[x] # "absent" => dir[x] # "absent"
    BY <1>3, <1>6 DEF WriteConfig
  <2> QED
    BY <1>3, <1>4, <1>6, <2>1 DEF WriteConfig
<1>7. ASSUME RemoveDir(r) PROVE Fine
  <2>1. \A x \in Ids : dir'[x] # "absent" => dir[x] # "absent"
    BY <1>3, <1>7 DEF RemoveDir
  <2>2. wrote' \in [Ids -> Seq(Batches)]
    BY <1>3, <1>7 DEF RemoveDir
  <2> QED
    BY <1>3, <1>4, <1>7, <2>1, <2>2 DEF RemoveDir
<1>8. ASSUME NEW b \in Batches, WriteBatch(r, b) PROVE Fine
  <2>1. Append(wrote[r], b) \in Seq(Batches)
    BY <1>3
  <2>2. wrote' \in [Ids -> Seq(Batches)]
    BY <1>3, <1>8, <2>1 DEF WriteBatch
  <2> QED
    BY <1>3, <1>4, <1>8, <2>2 DEF WriteBatch
<1>9. Fine
  BY <1>2, <1>5, <1>6, <1>7, <1>8
<1> HIDE DEF Fine
<1>10. RunShapes'
  BY <1>1, <1>9 DEF RunBase, RunShapes, Fine
<1>11. RunIndices'
  <2>1. UsedIdxs' = UsedIdxs
    BY <1>1 DEF UsedIdxs
  <2>2. \A i \in UsedIdxs : tenant[i].id \in Ids
    BY DEF UsedIdxs, RunBase, RunShapes, Seats, Tenants
  <2>3. \A x \in Ids : life[x] \in Nat /\ life'[x] \in Nat /\ life'[x] >= life[x]
    BY <1>3, <1>9, RunSettings DEF Fine
  <2>4. \A i \in UsedIdxs : life[tenant[i].id] >= 1
    BY DEF RunBase, RunIndices
  <2>5. \A i \in UsedIdxs : life'[tenant[i].id] >= 1
    BY <2>2, <2>3, <2>4
  <2>6. \A x \in Ids : dir'[x] # "absent" => life'[x] >= 1
    BY <1>9 DEF Fine
  <2> QED
    BY <1>1, <2>1, <2>5, <2>6 DEF RunBase, RunIndices
<1>12. RunSteps' /\ RunPacks'
  BY <1>1, StepsKept, PacksKept DEF RunBase
<1> QED
  BY <1>10, <1>11, <1>12 DEF RunBase

-----------------------------------------------------------------------------
(* Discovery *)

Emptied(i) == progress'[i] = 1 /\ received'[i] = 0 /\ buffers'[i] = << >>
Keeps(i) == /\ tenant'[i] = tenant[i] /\ progress'[i] = progress[i]
            /\ received'[i] = received[i] /\ buffers'[i] = buffers[i]

\* New runs f take the indices of New, which others have left or nobody had.
Admits(New, f) ==
    /\ New \subseteq Idxs /\ \A i \in New : f[i] \in Newcomers
    /\ \A i, j \in New : f[i] = f[j] => i = j
    /\ \A i \in New : tenant[i] = NoRun \/ i \in Forgotten
    /\ \A i \in New : tenant'[i] = Owner(f[i]) /\ Emptied(i)
    /\ \A i \in Idxs \ New : \/ i \in Forgotten /\ tenant'[i] = NoRun /\ Emptied(i)
                             \/ i \notin Forgotten /\ Keeps(i)
    /\ tenant' = [i \in Idxs |-> tenant'[i]] /\ progress' = [i \in Idxs |-> progress'[i]]
    /\ received' = [i \in Idxs |-> received'[i]] /\ buffers' = [i \in Idxs |-> buffers'[i]]

\* Discovery admits new runs at indices that are free or forgotten.
LEMMA DiscoverAdmits ==
    ASSUME RunIndices, discover_runs
    PROVE  \E New, f : Admits(New, f)
<1>1. PICK f \in Admissions :
        LET Gone == Forgotten \ DOMAIN f
        IN /\ tenant' = [i \in Idxs |-> IF i \in DOMAIN f THEN Owner(f[i])
                                        ELSE IF i \in Gone THEN NoRun ELSE tenant[i]]
           /\ progress' = [i \in Idxs |-> IF i \in DOMAIN f \cup Gone THEN 1
                                          ELSE progress[i]]
           /\ received' = [i \in Idxs |-> IF i \in Forgotten THEN 0 ELSE received[i]]
           /\ buffers' = [i \in Idxs |-> IF i \in Forgotten THEN <<>> ELSE buffers[i]]
  BY DEF discover_runs
<1> DEFINE New == DOMAIN f
<1>2. New \subseteq Unused /\ (\A i \in New : f[i] \in Newcomers) /\ IsInjective(f)
  BY DEF Admissions
<1>3. \A i \in Unused : i \in Idxs /\ (tenant[i] = NoRun \/ i \in Forgotten)
  BY DEF Unused, UsedIdxs, Forgotten
<1>4. \A i, j \in New : f[i] = f[j] => i = j
  BY <1>2 DEF IsInjective
<1>5. \A i \in Idxs : tenant[i] = NoRun => buffers[i] = << >> /\ received[i] = 0
  BY DEF RunIndices
<1>6. \A i \in New : tenant'[i] = Owner(f[i]) /\ Emptied(i)
  BY <1>1, <1>2, <1>3, <1>5 DEF Emptied
<1>7. \A i \in Idxs \ New : \/ i \in Forgotten /\ tenant'[i] = NoRun /\ Emptied(i)
                            \/ i \notin Forgotten /\ Keeps(i)
  <2> TAKE i \in Idxs \ New
  <2>1. CASE i \in Forgotten
    BY <1>1, <2>1 DEF Emptied
  <2>2. CASE i \notin Forgotten
    BY <1>1, <2>2 DEF Keeps
  <2> QED
    BY <2>1, <2>2
<1>8. /\ tenant' = [i \in Idxs |-> tenant'[i]] /\ progress' = [i \in Idxs |-> progress'[i]]
      /\ received' = [i \in Idxs |-> received'[i]] /\ buffers' = [i \in Idxs |-> buffers'[i]]
  BY <1>1
<1>9. Admits(New, f)
  BY <1>2, <1>3, <1>4, <1>6, <1>7, <1>8 DEF Admits
<1> QED
  BY <1>9

\* RunBase is preserved by the discovery of runs.
LEMMA BaseDiscover ==
    ASSUME RunBase, Discover
    PROVE  RunBase'
<1>1. /\ UNCHANGED <<dir, life, evicted, wrote, published, ready, position, slept, inbox, packed>>
      /\ UNCHANGED <<synced, rank, adapter, done>>
      /\ phase \in {"discover", "rediscover"} /\ phase' \in {"receive", "pack"}
  BY DEF Discover, disk, ranks
<1>2. PICK New, f : Admits(New, f)
  BY DiscoverAdmits DEF Discover, RunBase
<1>3. \A r \in Newcomers : r \in Ids /\ dir[r] = "live" /\ \A i \in UsedIdxs : tenant[i].id # r
  BY DEF Newcomers, Visible
<1>4. \A i \in New : f[i] \in Ids /\ life[f[i]] >= 1 /\ life[f[i]] \in 1 .. MaxLives
  BY <1>2, <1>3, RunSettings, SMTT(30) DEF Admits, RunBase, RunIndices, RunShapes
<1>5. \A i \in New : Owner(f[i]) \in Tenants /\ Owner(f[i]).id = f[i]
  BY <1>4 DEF Owner, Tenants
<1>6. ASSUME NEW i \in Idxs
      PROVE  \/ i \in New /\ tenant'[i] = Owner(f[i]) /\ Emptied(i)
             \/ i \notin New /\ tenant'[i] = NoRun /\ Emptied(i)
             \/ i \notin New /\ Keeps(i)
  BY <1>2 DEF Admits
<1>7. RunShapes'
  <2>1. ASSUME NEW i \in Idxs
        PROVE  /\ tenant'[i] \in Seats /\ progress'[i] \in Nat \ {0}
               /\ received'[i] \in Nat /\ buffers'[i] \in Seq(Good)
    <3>1. /\ tenant[i] \in Seats /\ progress[i] \in Nat \ {0}
          /\ received[i] \in Nat /\ buffers[i] \in Seq(Good)
      BY DEF RunBase, RunShapes
    <3>2. << >> \in Seq(Good) /\ NoRun \in Seats
      BY DEF Seats
    <3>3. \A m \in New : Owner(f[m]) \in Seats
      BY <1>5 DEF Seats
    <3>4. CASE Emptied(i)
      <4>1. tenant'[i] \in Seats
        BY <1>6, <3>1, <3>2, <3>3 DEF Keeps
      <4> QED
        BY <3>2, <3>4, <4>1 DEF Emptied
    <3>5. CASE Keeps(i)
      BY <3>1, <3>5 DEF Keeps
    <3> QED
      BY <1>6, <3>4, <3>5
  <2>2. /\ tenant' \in [Idxs -> Seats] /\ progress' \in [Idxs -> Nat \ {0}]
        /\ received' \in [Idxs -> Nat] /\ buffers' \in [Idxs -> Seq(Good)]
    BY <1>2, <2>1 DEF Admits
  <2>3. phase' \in Phases
    BY <1>1 DEF Phases
  <2> QED
    BY <1>1, <2>2, <2>3 DEF RunBase, RunShapes
<1>8. RunIndices'
  <2>1. \A r \in Ids : dir'[r] # "absent" => life'[r] >= 1
    BY <1>1 DEF RunBase, RunIndices
  <2>2. \A i \in Idxs : tenant'[i] # NoRun =>
           \/ i \in New /\ tenant'[i].id = f[i]
           \/ i \notin New /\ i \in UsedIdxs /\ tenant'[i] = tenant[i]
    BY <1>5, <1>6 DEF Keeps, UsedIdxs
  <2>3. \A i \in UsedIdxs : life[tenant[i].id] >= 1
    BY DEF RunBase, RunIndices
  <2>4. \A i \in UsedIdxs' : life'[tenant'[i].id] >= 1
    BY <1>1, <1>4, <2>2, <2>3 DEF UsedIdxs
  <2>5. ASSUME NEW i \in UsedIdxs', NEW j \in UsedIdxs', tenant'[i].id = tenant'[j].id PROVE i = j
    <3>1. i \in Idxs /\ j \in Idxs /\ tenant'[i] # NoRun /\ tenant'[j] # NoRun
      BY DEF UsedIdxs
    <3>2. \A m \in New : \A k \in UsedIdxs : tenant[k].id # f[m]
      BY <1>2, <1>3 DEF Admits
    <3>3. \A m, k \in New : f[m] = f[k] => m = k
      BY <1>2 DEF Admits
    <3>4. \A m, k \in UsedIdxs : tenant[m].id = tenant[k].id => m = k
      BY DEF RunBase, RunIndices
    <3> QED
      BY <2>2, <2>5, <3>1, <3>2, <3>3, <3>4
  <2>6. ASSUME NEW i \in Idxs, tenant'[i] = NoRun PROVE buffers'[i] = << >> /\ received'[i] = 0
    BY <1>6, <2>6 DEF Emptied, Keeps, RunBase, RunIndices
  <2>7. \A i \in Idxs : ~ready'[i]
    BY <1>1 DEF RunBase, RunIndices
  <2> QED
    BY <2>1, <2>4, <2>5, <2>6, <2>7 DEF RunIndices
<1>9. RunSteps'
  <2>1. ASSUME NEW i \in Idxs
        PROVE  /\ received'[i] # 0 => progress'[i] <= received'[i]
               /\ \A k \in 1 .. Len(buffers'[i]) :
                    /\ progress'[i] <= buffers'[i][k].step /\ buffers'[i][k].step < received'[i]
                    /\ \A j \in 1 .. k : buffers'[i][j].step <= buffers'[i][k].step
    <3>1. CASE Emptied(i)
      <4>1. Len(buffers'[i]) = 0 /\ received'[i] = 0
        BY <3>1 DEF Emptied
      <4> QED
        BY <4>1
    <3>2. CASE Keeps(i)
      BY <3>2 DEF Keeps, RunBase, RunSteps
    <3> QED
      BY <1>6, <3>1, <3>2
  <2>2. phase' # "buffer"
    BY <1>1
  <2> QED
    BY <2>1, <2>2 DEF RunSteps
<1>10. RunPacks'
  <2>1. packed' = << >> /\ Len(packed') = 0
    BY <1>1 DEF RunBase, RunPacks
  <2> QED
    BY <1>1, <2>1 DEF RunPacks
<1> QED
  BY <1>7, <1>8, <1>9, <1>10 DEF RunBase

-----------------------------------------------------------------------------
(* Receiving *)

\* There are finitely many indices.
LEMMA IndicesAreFinite == IsFiniteSet(Idxs)
<1>1. MaxRuns \in Int /\ 0 \in Int /\ MaxRuns - 1 \in Int
  BY RunSettings
<1> QED
  BY <1>1, FS_Interval DEF Idxs

\* What is buffered is a sequence of steps and of lengths the model takes.
LEMMA SamplesAre ==
    ASSUME RunShapes, NEW i \in Idxs
    PROVE  /\ Len(buffers[i]) \in Nat /\ DOMAIN buffers[i] = 1 .. Len(buffers[i])
           /\ \A k \in 1 .. Len(buffers[i]) : buffers[i][k] \in Good /\ buffers[i][k].step \in Nat
<1>1. buffers[i] \in Seq(Good)
  BY DEF RunShapes
<1>2. \A g \in Good : g.step \in Nat
  BY DEF Good, Samples
<1> QED
  BY <1>1, <1>2, LenProperties

\* The next batch of an index.
LEMMA NextBatch ==
    ASSUME RunBase, NEW i \in UsedIdxs
    PROVE  /\ i \in Idxs /\ tenant[i] \in Tenants /\ tenant[i].id \in Ids
           /\ ReceivedStep(i) \in Nat \ {0} /\ progress[i] <= ReceivedStep(i)
           /\ \A k \in 1 .. Len(buffers[i]) : buffers[i][k].step < ReceivedStep(i)
           /\ HasBatch(i) => BatchOf(i) \in Arrivals
<1>1. i \in Idxs /\ tenant[i] \in Tenants /\ tenant[i].id \in Ids
  BY DEF UsedIdxs, RunBase, RunShapes, Seats, Tenants
<1>2. progress[i] \in Nat \ {0} /\ received[i] \in Nat /\ buffers[i] \in Seq(Good)
  BY <1>1 DEF RunBase, RunShapes
<1>3. received[i] # 0 => progress[i] <= received[i]
  BY <1>1 DEF RunBase, RunSteps
<1>4. \A k \in 1 .. Len(buffers[i]) : buffers[i][k].step < received[i] /\ buffers[i][k].step \in Nat
  BY <1>1, <1>2 DEF RunBase, RunSteps, Good, Samples
<1>5. ReceivedStep(i) \in Nat \ {0} /\ progress[i] <= ReceivedStep(i)
  BY <1>2, <1>3 DEF ReceivedStep
<1>6. \A k \in 1 .. Len(buffers[i]) : buffers[i][k].step < ReceivedStep(i)
  BY <1>2, <1>4 DEF ReceivedStep
<1>7. ASSUME HasBatch(i) PROVE BatchOf(i) \in Arrivals
  <2>1. wrote[tenant[i].id] \in Seq(Batches)
    BY <1>1 DEF RunBase, RunShapes
  <2>2. ReceivedStep(i) <= Len(wrote[tenant[i].id])
    BY <1>7 DEF HasBatch
  <2>3. ReceivedStep(i) \in 1 .. Len(wrote[tenant[i].id])
    BY <1>5, <2>1, <2>2
  <2>4. wrote[tenant[i].id][ReceivedStep(i)] \in Batches
    BY <2>1, <2>3
  <2>5. life[tenant[i].id] \in 1 .. MaxLives
    BY <1>1, RunSettings DEF RunBase, RunIndices, RunShapes
  <2>6. Owner(tenant[i].id) \in Tenants
    BY <1>1, <2>5 DEF Owner, Tenants
  <2> QED
    BY <1>1, <1>5, <2>4, <2>6 DEF BatchOf, Arrivals
<1> QED
  BY <1>1, <1>5, <1>6, <1>7

\* What a call of the receiver returns.
LEMMA ReceiveGives ==
    ASSUME RunBase, Receive
    PROVE  /\ inbox' \in Seq(Arrivals)
           /\ \A m \in DOMAIN inbox' : \E i \in UsedIdxs : inbox'[m] = BatchOf(i) /\ HasBatch(i)
                                                          /\ received'[i] = ReceivedStep(i) + 1
<1> DEFINE Got == {i \in UsedIdxs : HasBatch(i)}
<1>1. PICK order \in Ascending(Got) : inbox' = [k \in DOMAIN order |-> BatchOf(order[k])]
  BY DEF Receive
<1>2. \A i \in Got : received'[i] = ReceivedStep(i) + 1
  BY DEF Receive, UsedIdxs
<1>3. Cardinality(Got) \in Nat
  <2>1. Got \subseteq Idxs
    BY DEF UsedIdxs
  <2> QED
    BY <2>1, IndicesAreFinite, FS_Subset, FS_CardinalityType
<1>4. \A i \in Got : i \in UsedIdxs /\ HasBatch(i)
  OBVIOUS
<1> HIDE DEF Got
<1>5. order \in [1 .. Cardinality(Got) -> Got]
  BY DEF Ascending, SetToSeqs
<1>6. \A k \in 1 .. Cardinality(Got) : order[k] \in Got
  BY <1>5
<1>7. \A k \in 1 .. Cardinality(Got) : BatchOf(order[k]) \in Arrivals
  BY <1>4, <1>6, NextBatch
<1>8. PICK n \in Nat : n = Cardinality(Got)
  BY <1>3
<1>9. DOMAIN order = 1 .. n /\ inbox' = [k \in 1 .. n |-> BatchOf(order[k])]
  BY <1>1, <1>5, <1>8
<1>10. inbox' \in Seq(Arrivals) /\ DOMAIN inbox' = 1 .. n
  BY <1>7, <1>8, <1>9
<1> QED
  BY <1>2, <1>4, <1>6, <1>8, <1>9, <1>10

\* RunBase is preserved by the receiver.
LEMMA BaseReceive ==
    ASSUME RunBase, Receive
    PROVE  RunBase'
<1>1. /\ UNCHANGED <<dir, life, evicted, wrote, published, tenant, progress, buffers, ready, position>>
      /\ UNCHANGED <<slept, packed, synced, rank, adapter, done>>
      /\ phase = "receive" /\ phase' = "buffer"
  BY DEF Receive, disk, turn, ranks
<1>2. UsedIdxs' = UsedIdxs
  BY <1>1 DEF UsedIdxs
<1>3. /\ received' = [i \in Idxs |-> received'[i]]
      /\ \A i \in Idxs : IF i \in UsedIdxs
                          THEN received'[i] = ReceivedStep(i) + 1 \/ received'[i] = ReceivedStep(i)
                          ELSE received'[i] = received[i]
  BY DEF Receive
<1>4. \A i \in Idxs : received[i] \in Nat
  BY DEF RunBase, RunShapes
<1>5. \A i \in UsedIdxs : /\ ReceivedStep(i) \in Nat \ {0} /\ progress[i] <= ReceivedStep(i)
                          /\ \A k \in 1 .. Len(buffers[i]) : buffers[i][k].step < ReceivedStep(i)
  BY NextBatch
<1>6. \A i \in Idxs : received'[i] \in Nat
  BY <1>3, <1>4, <1>5
<1>7. RunShapes'
  <2>1. received' \in [Idxs -> Nat]
    BY <1>3, <1>6
  <2>2. phase' \in Phases
    BY <1>1 DEF Phases
  <2>3. inbox' \in Seq(Arrivals)
    BY ReceiveGives
  <2> QED
    BY <1>1, <2>1, <2>2, <2>3 DEF RunBase, RunShapes
<1>8. RunIndices'
  <2>1. \A i \in Idxs : tenant[i] = NoRun => received'[i] = received[i]
    BY <1>3 DEF UsedIdxs
  <2> QED
    BY <1>1, <1>2, <2>1 DEF RunBase, RunIndices
<1>9. RunSteps'
  <2>1. ASSUME NEW i \in Idxs
        PROVE  /\ received'[i] # 0 => progress[i] <= received'[i]
               /\ \A k \in 1 .. Len(buffers[i]) :
                    /\ progress[i] <= buffers[i][k].step /\ buffers[i][k].step < received'[i]
                    /\ \A j \in 1 .. k : buffers[i][j].step <= buffers[i][k].step
    <3>1. /\ received[i] # 0 => progress[i] <= received[i]
          /\ \A k \in 1 .. Len(buffers[i]) :
                /\ progress[i] <= buffers[i][k].step /\ buffers[i][k].step < received[i]
                /\ \A j \in 1 .. k : buffers[i][j].step <= buffers[i][k].step
      BY DEF RunBase, RunSteps
    <3>2. CASE i \notin UsedIdxs
      BY <1>3, <3>1, <3>2
    <3>3. CASE i \in UsedIdxs
      <4>1. PICK a \in Nat, r \in Nat, b \in Nat :
               /\ a = ReceivedStep(i) /\ r = received'[i] /\ b = progress[i]
               /\ (r = a + 1 \/ r = a)
        BY <1>3, <1>5, <3>3 DEF RunBase, RunShapes
      <4>2. a # 0 /\ b <= a /\ a <= r
        BY <1>5, <3>3, <4>1
      <4>3. \A k \in 1 .. Len(buffers[i]) : buffers[i][k].step < a /\ buffers[i][k].step \in Nat
        BY <1>5, <3>3, <4>1, SamplesAre DEF RunBase
      <4>4. \A k \in 1 .. Len(buffers[i]) : buffers[i][k].step < r
        BY <4>2, <4>3
      <4>5. b <= r
        BY <4>2
      <4> QED
        BY <3>1, <4>1, <4>4, <4>5
    <3> QED
      BY <3>2, <3>3
  <2>2. ASSUME NEW m \in DOMAIN inbox'
        PROVE  /\ inbox'[m].idx \in UsedIdxs
               /\ progress[inbox'[m].idx] <= inbox'[m].step /\ inbox'[m].step < received'[inbox'[m].idx]
               /\ \A k \in 1 .. Len(buffers[inbox'[m].idx]) : buffers[inbox'[m].idx][k].step <= inbox'[m].step
    <3>1. PICK i \in UsedIdxs : inbox'[m] = BatchOf(i) /\ received'[i] = ReceivedStep(i) + 1
      BY <2>2, ReceiveGives
    <3>2. inbox'[m].idx = i /\ inbox'[m].step = ReceivedStep(i)
      BY <3>1 DEF BatchOf
    <3>3. PICK a \in Nat : a = ReceivedStep(i) /\ progress[i] <= a
      BY <1>5
    <3>4. \A k \in 1 .. Len(buffers[i]) : buffers[i][k].step < a /\ buffers[i][k].step \in Nat
      BY <1>5, <3>3, SamplesAre DEF RunBase, UsedIdxs
    <3>5. \A k \in 1 .. Len(buffers[i]) : buffers[i][k].step <= a
      BY <3>3, <3>4
    <3>6. a < a + 1
      BY <3>3
    <3> QED
      BY <3>1, <3>2, <3>3, <3>5, <3>6
  <2> QED
    BY <1>1, <1>2, <2>1, <2>2 DEF RunSteps
<1>10. RunPacks'
  BY <1>1, PacksKept DEF RunBase
<1> QED
  BY <1>7, <1>8, <1>9, <1>10 DEF RunBase

-----------------------------------------------------------------------------
(* Buffering *)

\* The samples before the first invalid one; all of them, unless the batch is bad.
LEMMA AcceptedAre ==
    ASSUME NEW a \in Arrivals
    PROVE  /\ Accepted(a) \in Seq(Good)
           /\ \A k \in 1 .. Len(Accepted(a)) :
                 Accepted(a)[k].step = a.step /\ Accepted(a)[k].by = a.by /\ Accepted(a)[k].len = a.lens[k]
           /\ ~Bad(a) => Len(Accepted(a)) = Len(a.lens) /\ \A len \in Range(a.lens) : Valid(len)
<1>1. a.lens \in Seq(Nat) /\ a.step \in Nat /\ a.by \in Tenants
  BY RunSettings DEF Arrivals
<1>2. PICK N \in Nat : N = Len(a.lens) /\ DOMAIN a.lens = 1 .. N
  BY <1>1, LenProperties
<1> DEFINE S == {k \in 0 .. N : \A j \in 1 .. k : Valid(a.lens[j])}
           n == Max(S)
           Entry(k) == [len |-> a.lens[k], step |-> a.step, by |-> a.by]
<1>3. Accepted(a) = [k \in 1 .. n |-> Entry(k)]
  BY <1>2 DEF Accepted
<1>4. 0 \in S /\ S \in SUBSET (0 .. N)
  OBVIOUS
<1>5. Max(S) \in S
  BY <1>4, MaxIsThere
<1>6. n \in 0 .. N /\ \A j \in 1 .. n : Valid(a.lens[j])
  BY <1>5
<1> HIDE DEF n
<1>7. ASSUME NEW k \in 1 .. n
      PROVE  Entry(k) \in Good /\ Entry(k).step = a.step /\ Entry(k).by = a.by /\ Entry(k).len = a.lens[k]
  <2>1. a.lens[k] \in Nat /\ Valid(a.lens[k])
    BY <1>1, <1>2, <1>6
  <2>2. Entry(k) \in Samples /\ Entry(k).len = a.lens[k]
    BY <1>1, <2>1 DEF Samples
  <2> QED
    BY <2>1, <2>2 DEF Good
<1> HIDE DEF Entry
<1>8. Accepted(a) \in Seq(Good) /\ Len(Accepted(a)) = n
  BY <1>3, <1>6, <1>7
<1>9. \A k \in 1 .. n : Accepted(a)[k].step = a.step /\ Accepted(a)[k].by = a.by /\ Accepted(a)[k].len = a.lens[k]
  BY <1>3, <1>6, <1>7
<1>10. ASSUME ~Bad(a) PROVE Len(Accepted(a)) = Len(a.lens) /\ \A len \in Range(a.lens) : Valid(len)
  <2>1. n = N
    BY <1>2, <1>6, <1>8, <1>10 DEF Bad
  <2> QED
    BY <1>2, <1>6, <1>8, <2>1 DEF Range
<1> QED
  BY <1>8, <1>9, <1>10

\* Index i after a batch was buffered, or none.
Buffered1(i, m) ==
    /\ m \in DOMAIN inbox /\ inbox[m].idx = i
    /\ buffers'[i] = buffers[i] \o Accepted(inbox[m])

Evictions == {inbox[k].idx : k \in {m \in DOMAIN inbox : Bad(inbox[m])}}
EvictedIds == {tenant[i].id : i \in Evictions}

\* Buffering moves what the receiver found to the buffers and empties the inbox.
LEMMA BufferGives ==
    ASSUME Buffer
    PROVE  /\ UNCHANGED <<life, wrote, published, tenant, progress, received, ready>>
           /\ UNCHANGED <<position, slept, packed, synced, rank, adapter, done>>
           /\ phase = "buffer" /\ phase' = "rediscover" /\ inbox' = << >>
           /\ buffers' = [i \in Idxs |-> buffers'[i]]
           /\ \A i \in Idxs : \/ buffers'[i] = buffers[i] /\ \A m \in DOMAIN inbox : inbox[m].idx # i
                             \/ \E m : Buffered1(i, m)
           /\ evicted' = [r \in Ids |-> evicted[r] \/ r \in EvictedIds]
           /\ dir' = [r \in Ids |-> IF r \in EvictedIds /\ dir[r] = "absent" THEN "bare" ELSE dir[r]]
<1>1. /\ UNCHANGED <<life, wrote, published, tenant, progress, received, ready>>
      /\ UNCHANGED <<position, slept, packed, synced, rank, adapter, done>>
      /\ phase = "buffer" /\ phase' = "rediscover" /\ inbox' = << >>
  BY DEF Buffer, turn, ranks
<1>2. /\ evicted' = [r \in Ids |-> evicted[r] \/ r \in EvictedIds]
      /\ dir' = [r \in Ids |-> IF r \in EvictedIds /\ dir[r] = "absent" THEN "bare" ELSE dir[r]]
  BY Zenon DEF Buffer, EvictedIds, Evictions
<1> DEFINE Of(i) == {k \in DOMAIN inbox : inbox[k].idx = i}
<1>3. buffers' = [i \in Idxs |-> IF Of(i) = {} THEN buffers[i]
                            ELSE buffers[i] \o Accepted(inbox[CHOOSE k \in Of(i) : TRUE])]
  BY DEF Buffer
<1>4. ASSUME NEW i \in Idxs
      PROVE  \/ buffers'[i] = buffers[i] /\ \A m \in DOMAIN inbox : inbox[m].idx # i
             \/ \E m : Buffered1(i, m)
  <2>1. CASE Of(i) = {}
    BY <1>3, <2>1
  <2>2. CASE Of(i) # {}
    <3>1. PICK m : m = (CHOOSE k \in Of(i) : TRUE) /\ m \in Of(i)
      BY <2>2
    <3>2. buffers'[i] = buffers[i] \o Accepted(inbox[m])
      BY <1>3, <2>2, <3>1
    <3>3. Buffered1(i, m)
      BY <3>1, <3>2 DEF Buffered1
    <3> QED
      BY <3>3
  <2> QED
    BY <2>1, <2>2
<1>5. buffers' = [i \in Idxs |-> buffers'[i]]
  BY <1>3
<1> QED
  BY <1>1, <1>2, <1>4, <1>5

\* The samples of an index after Buffer: those it had, and then the new ones.
LEMMA BufferedSamples ==
    ASSUME RunBase, Buffer, NEW i \in Idxs, NEW m, Buffered1(i, m)
    PROVE  /\ m \in DOMAIN inbox /\ inbox[m].idx = i /\ inbox[m] \in Arrivals /\ i \in UsedIdxs
           /\ buffers'[i] \in Seq(Good) /\ Len(buffers'[i]) \in Nat /\ Len(buffers[i]) \in Nat
           /\ \A k \in 1 .. Len(buffers'[i]) :
                  \/ k \in 1 .. Len(buffers[i]) /\ buffers'[i][k] = buffers[i][k]
                  \/ /\ k > Len(buffers[i]) /\ buffers'[i][k].step = inbox[m].step
                     /\ buffers'[i][k].by = inbox[m].by
<1>1. /\ m \in DOMAIN inbox /\ inbox[m].idx = i
      /\ buffers'[i] = buffers[i] \o Accepted(inbox[m])
  BY DEF Buffered1
<1>2. inbox[m] \in Arrivals
  BY <1>1 DEF RunBase, RunShapes
<1>3. i \in UsedIdxs
  BY <1>1 DEF RunBase, RunSteps, Buffer
<1>a. /\ buffers[i] \in Seq(Good) /\ Accepted(inbox[m]) \in Seq(Good)
      /\ \A k \in 1 .. Len(Accepted(inbox[m])) :
            Accepted(inbox[m])[k].step = inbox[m].step /\ Accepted(inbox[m])[k].by = inbox[m].by
  BY <1>2, AcceptedAre DEF RunBase, RunShapes
<1>b. inbox[m].step \in Nat /\ inbox[m].by \in Tenants
  BY <1>2 DEF Arrivals
<1>4. PICK b \in Seq(Good), c \in Seq(Good), s \in Nat, t \in Tenants :
         /\ b = buffers[i] /\ c = Accepted(inbox[m]) /\ s = inbox[m].step /\ t = inbox[m].by
         /\ \A k \in 1 .. Len(c) : c[k].step = s /\ c[k].by = t
  BY <1>a, <1>b
<1>5. PICK x \in Nat, y \in Nat : x = Len(b) /\ y = Len(c)
  BY LenProperties
<1>6. b \o c \in Seq(Good) /\ Len(b \o c) = x + y
  BY <1>5
<1>7. \A k \in 1 .. x + y : (b \o c)[k] = IF k <= x THEN b[k] ELSE c[k - x]
  BY <1>5
<1>8. ASSUME NEW k \in 1 .. x + y
      PROVE  \/ k \in 1 .. x /\ (b \o c)[k] = b[k]
             \/ k > x /\ (b \o c)[k].step = s /\ (b \o c)[k].by = t
  <2>1. CASE k <= x
    <3>1. k \in 1 .. x /\ k \in 1 .. x + y
      BY <2>1
    <3>2. (b \o c)[k] = b[k]
      BY <1>7, <2>1, <3>1
    <3> QED
      BY <3>1, <3>2
  <2>2. CASE ~(k <= x)
    <3>1. k - x \in 1 .. y /\ k > x
      BY <2>2
    <3> QED
      BY <1>4, <1>5, <1>7, <2>2, <3>1
  <2> QED
    BY <2>1, <2>2
<1> QED
  BY <1>1, <1>2, <1>3, <1>4, <1>5, <1>6, <1>8

\* RunBase is preserved by the packer taking over what was received.
LEMMA BaseBuffer ==
    ASSUME RunBase, Buffer
    PROVE  RunBase'
<1>1. /\ UNCHANGED <<life, wrote, published, tenant, progress, received, ready>>
      /\ UNCHANGED <<position, slept, packed, synced, rank, adapter, done>>
      /\ phase = "buffer" /\ phase' = "rediscover" /\ inbox' = << >>
  BY BufferGives
<1>2. \A i \in Idxs : buffers'[i] = buffers[i] \/ \E m : Buffered1(i, m)
  BY BufferGives
<1>3. /\ evicted' = [r \in Ids |-> evicted[r] \/ r \in EvictedIds]
      /\ dir' = [r \in Ids |-> IF r \in EvictedIds /\ dir[r] = "absent" THEN "bare" ELSE dir[r]]
  BY BufferGives
<1>4. UsedIdxs' = UsedIdxs
  BY <1>1 DEF UsedIdxs
<1>5. RunShapes'
  <2>1. \A i \in Idxs : buffers'[i] \in Seq(Good)
    BY <1>2, BufferedSamples DEF RunBase, RunShapes
  <2>2. buffers' \in [Idxs -> Seq(Good)]
    BY <2>1, BufferGives
  <2>3. evicted' \in [Ids -> BOOLEAN]
    BY <1>3
  <2>4. dir' \in [Ids -> {"absent", "bare", "live"}]
    BY <1>3 DEF RunBase, RunShapes
  <2>5. phase' \in Phases /\ inbox' \in Seq(Arrivals)
    BY <1>1 DEF Phases
  <2> QED
    BY <1>1, <2>2, <2>3, <2>4, <2>5 DEF RunBase, RunShapes
<1>6. RunIndices'
  <2>1. \A i \in Evictions : i \in UsedIdxs
    BY <1>1 DEF Evictions, RunBase, RunSteps
  <2>2. \A r \in EvictedIds : life[r] >= 1
    BY <2>1 DEF EvictedIds, RunBase, RunIndices
  <2>3. \A r \in Ids : dir'[r] # "absent" => life[r] >= 1
    BY <1>3, <2>2 DEF RunBase, RunIndices
  <2>4. \A i \in Idxs : tenant[i] = NoRun => buffers'[i] = buffers[i]
    BY <1>2, BufferedSamples DEF UsedIdxs
  <2> QED
    BY <1>1, <1>4, <2>3, <2>4 DEF RunBase, RunIndices
<1>7. RunSteps'
  <2>1. ASSUME NEW i \in Idxs
        PROVE  \A k \in 1 .. Len(buffers'[i]) :
                    /\ progress[i] <= buffers'[i][k].step /\ buffers'[i][k].step < received[i]
                    /\ \A j \in 1 .. k : buffers'[i][j].step <= buffers'[i][k].step
    <3>1. \A k \in 1 .. Len(buffers[i]) :
                /\ progress[i] <= buffers[i][k].step /\ buffers[i][k].step < received[i]
                /\ \A j \in 1 .. k : buffers[i][j].step <= buffers[i][k].step
      BY DEF RunBase, RunSteps
    <3>2. CASE buffers'[i] = buffers[i]
      BY <3>1, <3>2
    <3>3. ASSUME NEW m, Buffered1(i, m)
          PROVE  \A k \in 1 .. Len(buffers'[i]) :
                    /\ progress[i] <= buffers'[i][k].step /\ buffers'[i][k].step < received[i]
                    /\ \A j \in 1 .. k : buffers'[i][j].step <= buffers'[i][k].step
      <4>1. PICK x \in Nat, y \in Nat : x = Len(buffers[i]) /\ y = Len(buffers'[i])
        BY <3>3, BufferedSamples
      <4>2. \A k \in 1 .. y :
               \/ k \in 1 .. x /\ buffers'[i][k] = buffers[i][k]
               \/ k > x /\ buffers'[i][k].step = inbox[m].step
        BY <3>3, <4>1, BufferedSamples
      <4>3. PICK s \in Nat : s = inbox[m].step
        BY <3>3, BufferedSamples DEF Arrivals
      <4>4. /\ progress[i] <= s /\ s < received[i]
            /\ \A k \in 1 .. x : buffers[i][k].step <= s
        <5>1. m \in DOMAIN inbox /\ inbox[m].idx = i
          BY <3>3, BufferedSamples
        <5>2. /\ progress[i] <= inbox[m].step /\ inbox[m].step < received[i]
              /\ \A k \in 1 .. Len(buffers[i]) : buffers[i][k].step <= inbox[m].step
          BY <1>1, <5>1 DEF RunBase, RunSteps
        <5> QED
          BY <4>1, <4>3, <5>2
      <4>5. ASSUME NEW k \in 1 .. y
            PROVE  progress[i] <= buffers'[i][k].step /\ buffers'[i][k].step < received[i]
        BY <3>1, <4>1, <4>2, <4>3, <4>4
      <4>6. ASSUME NEW k \in 1 .. y, NEW j \in 1 .. k PROVE buffers'[i][j].step <= buffers'[i][k].step
        <5>1. j \in 1 .. y /\ j <= k
          BY <4>6
        <5>2. CASE k \in 1 .. x /\ buffers'[i][k] = buffers[i][k]
          <6>1. j \in 1 .. x /\ ~(j > x)
            BY <5>1, <5>2
          <6>2. buffers'[i][j] = buffers[i][j]
            BY <4>2, <5>1, <6>1
          <6> QED
            BY <3>1, <4>1, <5>2, <6>2
        <5>3. CASE k > x /\ buffers'[i][k].step = s
          <6>1. CASE j \in 1 .. x /\ buffers'[i][j] = buffers[i][j]
            BY <4>4, <5>3, <6>1
          <6>2. CASE j > x /\ buffers'[i][j].step = s
            <7>1. s <= s
              OBVIOUS
            <7> QED
              BY <5>3, <6>2, <7>1
          <6> QED
            BY <4>2, <4>3, <5>1, <6>1, <6>2
        <5> QED
          BY <4>2, <4>3, <5>2, <5>3
      <4> QED
        BY <4>1, <4>5, <4>6
    <3> QED
      BY <1>2, <3>2, <3>3
  <2>2. phase' # "buffer"
    BY <1>1
  <2> QED
    BY <1>1, <2>1, <2>2 DEF RunBase, RunSteps
<1>8. RunPacks'
  BY <1>1, PacksKept DEF RunBase
<1> QED
  BY <1>5, <1>6, <1>7, <1>8 DEF RunBase

-----------------------------------------------------------------------------
(* Packing *)
\* What a suffix of a sequence holds, and where.
LEMMA RestIs ==
    ASSUME NEW S, NEW b \in Seq(S), NEW k \in Nat, NEW rest, rest = RestOf(b, k)
    PROVE  /\ rest \in Seq(S) /\ Len(rest) \in Nat
           /\ \A j \in 1 .. Len(rest) : k + j \in 1 .. Len(b) /\ rest[j] = b[k + j]
<1>1. PICK n \in Nat : n = Len(b)
  BY LenProperties
<1>2. rest = SubSeq(b, k + 1, n)
  BY <1>1 DEF RestOf
<1>3. CASE k + 1 <= n
  <2>1. Len(rest) = n - k /\ rest \in Seq(S)
    BY <1>1, <1>2, <1>3
  <2>2. \A j \in 1 .. n - k : rest[j] = b[k + j] /\ k + j \in 1 .. n
    BY <1>1, <1>2, <1>3
  <2> QED
    BY <1>1, <1>3, <2>1, <2>2
<1>4. CASE ~(k + 1 <= n)
  <2>1. rest = << >>
    BY <1>1, <1>2, <1>4
  <2> QED
    BY <2>1
<1> QED
  BY <1>1, <1>3, <1>4

\* A pack: the samples of taken go out and the steps of the indices of Over are complete.
PacksAs(popped, Over) ==
    /\ packed' \in Seq(Waiting) /\ Len(packed') \in Nat \ {0} /\ SumOf(Lens(packed')) <= Budget
    /\ popped \in [Idxs -> Nat] /\ position' \in Idxs
    /\ buffers' = [i \in Idxs |-> RestOf(buffers[i], popped[i])]
    /\ progress' = [i \in Idxs |-> IF i \in Over THEN progress[i] + 1 ELSE progress[i]]
    /\ ready' = [i \in Idxs |-> ready[i] \/ i \in Over]
    /\ \A i \in Over : /\ StepOver(i, RestOf(buffers[i], popped[i]))
                       /\ \E k \in 1 .. Len(packed') : packed'[k].idx = i

\* The samples a pack takes are the first ones of their buffers.
LEMMA PackGives ==
    ASSUME RunBase, Pack
    PROVE  \E popped, Over : PacksAs(popped, Over)
<1>1. PICK sel :
       LET Rest(i) == SubSeq(buffers[i], sel.popped[i] + 1, Len(buffers[i]))
           Over   == {i \in {sel.taken[k].idx : k \in DOMAIN sel.taken} : StepOver(i, Rest(i))}
       IN /\ sel = Selection(InTurn)
          /\ packed' = sel.taken
          /\ buffers' = [i \in Idxs |-> Rest(i)]
          /\ progress' = [i \in Idxs |-> IF i \in Over THEN progress[i] + 1 ELSE progress[i]]
          /\ ready' = [i \in Idxs |-> ready[i] \/ i \in Over]
          /\ position' = sel.position
  BY DEF Pack
<1>2. buffers \in [Idxs -> Seq(Good)] /\ progress \in [Idxs -> Nat] /\ position \in Idxs
  BY DEF RunBase, RunShapes
<1>3. InTurn \in Seq(Waiting) /\ \A i \in Idxs : Len(Eligible(i)) <= Len(InTurn)
  BY <1>2, InTurnIs
<1>4. PICK n \in Nat : n = Len(InTurn)
  BY <1>3, LenProperties
<1>5. n # 0
  <2>1. PICK i \in Idxs : Len(Eligible(i)) > 0
    BY <1>2, TokensWait DEF Pack
  <2>2. Len(Eligible(i)) <= n
    BY <1>3, <1>4
  <2>3. Len(Eligible(i)) \in Nat
    <3>1. buffers[i] \in Seq(Good) /\ progress[i] \in Nat /\ Len(buffers[i]) \in Nat
      BY <1>2, LenProperties
    <3>2. Eligible(i) \in Seq(Good)
      BY <3>1, EligibleIs
    <3> QED
      BY <3>2, LenProperties
  <2> QED
    BY <2>1, <2>2, <2>3
<1>6. Waiting \in SUBSET Turns /\ sel = Selection(InTurn)
  BY <1>1 DEF Waiting
<1>7. /\ sel.taken \in Seq(Waiting) /\ Len(sel.taken) \in Nat \ {0}
      /\ SumOf(Lens(sel.taken)) <= Budget
      /\ sel.popped \in [Idxs -> Nat] /\ sel.position \in Idxs
  BY <1>3, <1>4, <1>5, <1>6, Selected
<1> DEFINE popped == sel.popped
           Over == {i \in {sel.taken[k].idx : k \in DOMAIN sel.taken} :
                      StepOver(i, RestOf(buffers[i], popped[i]))}
<1>8. /\ packed' = sel.taken /\ position' = sel.position
      /\ buffers' = [i \in Idxs |-> RestOf(buffers[i], popped[i])]
      /\ progress' = [i \in Idxs |-> IF i \in Over THEN progress[i] + 1 ELSE progress[i]]
      /\ ready' = [i \in Idxs |-> ready[i] \/ i \in Over]
  BY <1>1, Zenon DEF RestOf
<1>9. DOMAIN sel.taken = 1 .. Len(sel.taken)
  BY <1>7, LenProperties
<1>10. \A i \in Over : /\ StepOver(i, RestOf(buffers[i], popped[i]))
                       /\ \E k \in 1 .. Len(sel.taken) : sel.taken[k].idx = i
  BY <1>9
<1> HIDE DEF Over
<1>11. PacksAs(popped, Over)
  BY <1>7, <1>8, <1>10 DEF PacksAs
<1> QED
  BY <1>11

\* What goes out is of the current step of its run; a step that is over leaves later samples only.
LEMMA PackedSamples ==
    ASSUME RunBase, Pack, NEW popped, NEW Over, PacksAs(popped, Over)
    PROVE  /\ \A k \in 1 .. Len(packed') :
                 /\ packed'[k] \in Turns /\ packed'[k].idx \in Idxs
                 /\ packed'[k].step = progress[packed'[k].idx]
                 /\ \E m \in 1 .. Len(buffers[packed'[k].idx]) :
                        buffers[packed'[k].idx][m].step = packed'[k].step
           /\ \A i \in Over : i \in Idxs /\ progress[i] + 1 <= received[i]
           /\ \A i \in Idxs : \A j \in 1 .. Len(buffers'[i]) :
                 popped[i] + j \in 1 .. Len(buffers[i]) /\ buffers'[i][j] = buffers[i][popped[i] + j]
           /\ \A i \in Over : \A j \in 1 .. Len(buffers'[i]) : progress[i] + 1 <= buffers'[i][j].step
<1>1. ASSUME NEW k \in 1 .. Len(packed')
      PROVE  /\ packed'[k] \in Turns /\ packed'[k].idx \in Idxs
             /\ packed'[k].step = progress[packed'[k].idx]
             /\ \E m \in 1 .. Len(buffers[packed'[k].idx]) :
                    buffers[packed'[k].idx][m].step = packed'[k].step
             /\ packed'[k].step < received[packed'[k].idx]
  <2>1. packed'[k] \in Waiting
    BY DEF PacksAs
  <2>2. PICK t \in Turns : t = packed'[k]
    BY <2>1 DEF Waiting
  <2>3. PICK i \in Idxs : i = t.idx
    BY <2>2 DEF Turns
  <2>4. PICK m \in 1 .. Len(buffers[i]) : t = At(i, buffers[i][m]) /\ buffers[i][m].step <= progress[i]
    BY <2>1, <2>2, <2>3 DEF Waiting
  <2>5. t.step = buffers[i][m].step
    BY <2>4 DEF At
  <2>6. progress[i] <= buffers[i][m].step /\ buffers[i][m].step < received[i]
    BY <2>4 DEF RunBase, RunSteps
  <2>7. buffers[i][m].step \in Nat /\ progress[i] \in Nat
    BY <2>4, SamplesAre DEF RunBase, RunShapes
  <2>8. buffers[i][m].step = progress[i]
    BY <2>4, <2>6, <2>7
  <2> QED
    BY <2>2, <2>3, <2>4, <2>5, <2>6, <2>8
<1>2. ASSUME NEW i \in Over PROVE i \in Idxs /\ progress[i] + 1 <= received[i]
  <2>1. PICK k \in 1 .. Len(packed') : packed'[k].idx = i
    BY DEF PacksAs
  <2>2. i \in Idxs /\ progress[i] < received[i]
    BY <1>1, <2>1
  <2>3. progress[i] \in Nat /\ received[i] \in Nat
    BY <2>2 DEF RunBase, RunShapes
  <2> QED
    BY <2>2, <2>3
<1>3. ASSUME NEW i \in Idxs
      PROVE  /\ Len(buffers'[i]) \in Nat /\ buffers'[i] \in Seq(Good)
             /\ \A j \in 1 .. Len(buffers'[i]) :
                   popped[i] + j \in 1 .. Len(buffers[i]) /\ buffers'[i][j] = buffers[i][popped[i] + j]
  <2>1. buffers[i] \in Seq(Good) /\ popped[i] \in Nat /\ buffers'[i] = RestOf(buffers[i], popped[i])
    BY DEF PacksAs, RunBase, RunShapes
  <2> QED
    BY <2>1, RestIs, SMTT(30)
<1>4. ASSUME NEW i \in Over, NEW j \in 1 .. Len(buffers'[i]) PROVE progress[i] + 1 <= buffers'[i][j].step
  <2>1. i \in Idxs
    BY <1>2
  <2>2. StepOver(i, buffers'[i])
    BY <2>1 DEF PacksAs
  <2>3. PICK n \in Nat : n = Len(buffers'[i]) /\ n >= 1 /\ j \in 1 .. n
    BY <1>3, <1>4, <2>1
  <2>4. buffers'[i] \in Seq(Good) /\ Len(buffers'[i]) # 0
    BY <1>3, <2>1, <2>3
  <2>5. Head(buffers'[i]).step > progress[i] /\ Head(buffers'[i]) = buffers'[i][1]
    BY <2>2, <2>4 DEF StepOver
  <2>a. popped[i] \in Nat
    BY <2>1 DEF PacksAs
  <2>b. 1 \in 1 .. n /\ j \in 1 .. n /\ Len(buffers'[i]) = n
    BY <2>3
  <2>c. popped[i] + 1 \in 1 .. Len(buffers[i]) /\ popped[i] + j \in 1 .. Len(buffers[i])
    BY <1>3, <2>1, <2>b
  <2>6. PICK p \in Nat : p = popped[i] /\ p + 1 \in 1 .. Len(buffers[i]) /\ p + j \in 1 .. Len(buffers[i])
    BY <2>a, <2>c
  <2>7. buffers'[i][1] = buffers[i][p + 1] /\ buffers'[i][j] = buffers[i][p + j]
    BY <1>3, <2>1, <2>3, <2>6
  <2>8. p + 1 \in 1 .. p + j
    BY <2>3, <2>6
  <2>9. buffers[i][p + 1].step <= buffers[i][p + j].step
    BY <2>1, <2>6, <2>8 DEF RunBase, RunSteps
  <2>10. PICK a \in Nat, b \in Nat, c \in Nat :
            a = buffers[i][p + 1].step /\ b = buffers[i][p + j].step /\ c = progress[i]
    BY <2>1, <2>6, SamplesAre DEF RunBase, RunShapes
  <2>11. a > c /\ a <= b /\ buffers'[i][j].step = b
    BY <2>5, <2>7, <2>9, <2>10
  <2>12. c + 1 <= b
    BY <2>10, <2>11, SMTT(30)
  <2> QED
    BY <2>10, <2>11, <2>12
<1> QED
  BY <1>1, <1>2, <1>3, <1>4

\* RunBase is preserved by the packing of a step.
LEMMA BasePack ==
    ASSUME RunBase, Pack
    PROVE  RunBase'
<1>1. /\ UNCHANGED <<dir, life, evicted, wrote, published, tenant, received, inbox>>
      /\ UNCHANGED <<synced, rank, adapter, done>>
      /\ phase = "pack" /\ phase' = "sync" /\ slept' = FALSE
  BY DEF Pack, disk, ranks
<1>2. PICK popped, Over : PacksAs(popped, Over)
  BY PackGives
<1>3. /\ packed' \in Seq(Waiting) /\ Len(packed') \in Nat \ {0} /\ SumOf(Lens(packed')) <= Budget
      /\ popped \in [Idxs -> Nat] /\ position' \in Idxs
      /\ buffers' = [i \in Idxs |-> RestOf(buffers[i], popped[i])]
      /\ progress' = [i \in Idxs |-> IF i \in Over THEN progress[i] + 1 ELSE progress[i]]
      /\ ready' = [i \in Idxs |-> ready[i] \/ i \in Over]
  BY <1>2 DEF PacksAs
<1>4. UsedIdxs' = UsedIdxs
  BY <1>1 DEF UsedIdxs
<1>5. \A i \in Idxs : ~ready[i]
  BY <1>1 DEF RunBase, RunIndices
<1>6. \A i \in Idxs : ready'[i] <=> i \in Over
  BY <1>3, <1>5
<1>7. ASSUME NEW k \in 1 .. Len(packed') PROVE packed'[k].idx \in Idxs /\ tenant[packed'[k].idx] # NoRun
  <2>1. PICK i \in Idxs : i = packed'[k].idx /\ \E m \in 1 .. Len(buffers[i]) : TRUE
    BY <1>2, PackedSamples
  <2>2. tenant[i] = NoRun => buffers[i] = << >>
    BY DEF RunBase, RunIndices
  <2>3. buffers[i] = << >> => Len(buffers[i]) = 0
    OBVIOUS
  <2> QED
    BY <2>1, <2>2, <2>3
<1>8. RunShapes'
  <2>1. \A i \in Idxs : RestOf(buffers[i], popped[i]) \in Seq(Good)
    BY <1>3, RestIs DEF RunBase, RunShapes
  <2>2. buffers' \in [Idxs -> Seq(Good)]
    BY <1>3, <2>1
  <2>3. progress' \in [Idxs -> Nat \ {0}]
    BY <1>3, SMTT(30) DEF RunBase, RunShapes
  <2>4. ready' \in [Idxs -> BOOLEAN]
    BY <1>3
  <2>5. packed' \in Seq(Turns)
    <3>1. Waiting \subseteq Turns
      BY DEF Waiting
    <3> QED
      BY <1>3, <3>1
  <2>6. phase' \in Phases /\ slept' \in BOOLEAN
    BY <1>1 DEF Phases
  <2> QED
    BY <1>1, <1>3, <2>2, <2>3, <2>4, <2>5, <2>6 DEF RunBase, RunShapes
<1>9. RunIndices'
  <2>1. ASSUME NEW i \in Idxs, tenant[i] = NoRun PROVE buffers'[i] = << >>
    <3>1. buffers[i] = << >> /\ popped[i] \in Nat /\ buffers'[i] = RestOf(buffers[i], popped[i])
      BY <1>3, <2>1 DEF RunBase, RunIndices
    <3> QED
      BY <3>1 DEF RestOf
  <2>2. ASSUME NEW i \in Idxs, ready'[i] PROVE tenant[i] # NoRun
    <3>1. PICK k \in 1 .. Len(packed') : packed'[k].idx = i
      BY <1>2, <1>6, <2>2 DEF PacksAs
    <3> QED
      BY <1>7, <3>1
  <2> QED
    BY <1>1, <1>4, <2>1, <2>2 DEF RunBase, RunIndices
<1>10. RunSteps'
  <2>1. ASSUME NEW i \in Idxs, received[i] # 0 PROVE progress'[i] <= received[i]
    <3>1. progress[i] <= received[i] /\ (i \in Over => progress[i] + 1 <= received[i])
      BY <1>2, <2>1, PackedSamples DEF RunBase, RunSteps
    <3> QED
      BY <1>3, <3>1
  <2>2. ASSUME NEW i \in Idxs, NEW k \in 1 .. Len(buffers'[i])
        PROVE  /\ progress'[i] <= buffers'[i][k].step /\ buffers'[i][k].step < received[i]
               /\ \A j \in 1 .. k : buffers'[i][j].step <= buffers'[i][k].step
    <3>a. popped[i] \in Nat
      BY <1>3
    <3>b. \A j \in 1 .. Len(buffers'[i]) :
             popped[i] + j \in 1 .. Len(buffers[i]) /\ buffers'[i][j] = buffers[i][popped[i] + j]
      BY <1>2, PackedSamples
    <3>1. PICK p \in Nat : p = popped[i] /\ \A j \in 1 .. Len(buffers'[i]) :
                               p + j \in 1 .. Len(buffers[i]) /\ buffers'[i][j] = buffers[i][p + j]
      BY <3>a, <3>b
    <3>2. Len(buffers'[i]) \in Nat
      BY <1>8, SamplesAre, LenProperties DEF RunShapes
    <3>3. /\ progress[i] <= buffers[i][p + k].step /\ buffers[i][p + k].step < received[i]
          /\ \A j \in 1 .. p + k : buffers[i][j].step <= buffers[i][p + k].step
      BY <2>2, <3>1 DEF RunBase, RunSteps
    <3>4. progress'[i] <= buffers'[i][k].step
      BY <1>2, <1>3, <2>2, <3>1, <3>3, PackedSamples
    <3>5. ASSUME NEW j \in 1 .. k PROVE buffers'[i][j].step <= buffers'[i][k].step
      <4>1. j \in 1 .. Len(buffers'[i]) /\ p + j \in 1 .. p + k
        BY <2>2, <3>1, <3>2
      <4> QED
        BY <2>2, <3>1, <3>3, <4>1
    <3> QED
      BY <2>2, <3>1, <3>3, <3>4, <3>5
  <2>3. phase' # "buffer"
    BY <1>1
  <2> QED
    BY <1>1, <2>1, <2>2, <2>3 DEF RunSteps
<1>11. RunPacks'
  <2>1. ASSUME NEW k \in 1 .. Len(packed')
        PROVE  packed'[k].step = IF ready'[packed'[k].idx] THEN progress'[packed'[k].idx] - 1
                                                            ELSE progress'[packed'[k].idx]
    <3>1. PICK i \in Idxs : i = packed'[k].idx /\ packed'[k].step = progress[i]
      BY <1>2, <2>1, PackedSamples
    <3>2. progress[i] \in Nat
      BY DEF RunBase, RunShapes
    <3>3. PICK n \in Nat : n = progress[i]
      BY <3>2
    <3>4. CASE i \in Over
      <4>1. ready'[i] /\ progress'[i] = n + 1
        BY <1>3, <1>6, <3>3, <3>4
      <4>2. n + 1 - 1 = n
        OBVIOUS
      <4> QED
        BY <3>1, <3>3, <4>1, <4>2
    <3>5. CASE i \notin Over
      <4>1. ~ready'[i] /\ progress'[i] = progress[i]
        BY <1>3, <1>6, <3>5
      <4> QED
        BY <3>1, <4>1
    <3> QED
      BY <3>4, <3>5
  <2>2. Len(packed') >= 1
    BY <1>3
  <2> QED
    BY <1>1, <1>3, <1>7, <2>1, <2>2 DEF RunPacks
<1> QED
  BY <1>8, <1>9, <1>10, <1>11 DEF RunBase

\* RunBase is preserved by a packer that waits for samples.
LEMMA BaseWait ==
    ASSUME RunBase, WaitForTokens
    PROVE  RunBase'
<1>1. /\ UNCHANGED <<dir, life, evicted, wrote, published, tenant, progress, received, buffers>>
      /\ UNCHANGED <<ready, position, inbox, packed, synced, rank, adapter, done>>
      /\ phase = "pack" /\ phase' = "discover" /\ slept' = TRUE
  BY DEF WaitForTokens, disk, runs, ranks
<1>2. RunShapes'
  <2>1. phase' \in Phases /\ slept' \in BOOLEAN
    BY <1>1 DEF Phases
  <2> QED
    BY <1>1, <2>1 DEF RunBase, RunShapes
<1>3. RunIndices'
  <2>1. UsedIdxs' = UsedIdxs
    BY <1>1 DEF UsedIdxs
  <2> QED
    BY <1>1, <2>1 DEF RunBase, RunIndices
<1>4. RunSteps' /\ RunPacks'
  BY <1>1, StepsKept, PacksKept DEF RunBase
<1> QED
  BY <1>2, <1>3, <1>4 DEF RunBase

-----------------------------------------------------------------------------
(* Synchronising, training and broadcasting *)

\* The index of a run the master knows.
LEMMA IdxOfIs ==
    ASSUME NEW t, NEW r, NEW i \in Idxs, t[i] # NoRun, t[i].id = r
    PROVE  IdxOf(t, r) \in Idxs /\ t[IdxOf(t, r)] # NoRun /\ t[IdxOf(t, r)].id = r
  BY DEF IdxOf

\* RunBase is preserved by the synchronisation of the ranks.
LEMMA BaseSync ==
    ASSUME RunBase, Sync
    PROVE  RunBase'
<1>1. /\ UNCHANGED <<dir, life, evicted, wrote, published, tenant, progress, received, buffers>>
      /\ UNCHANGED <<ready, position, slept, inbox, packed, done>>
      /\ phase = "sync" /\ phase' \in {"train", "crashed"}
  BY DEF Sync, disk, runs, turn
<1>2. tenant \in [Idxs -> Seats] /\ synced \in [Idxs -> Seats] /\ rank \in [Idxs -> Seats]
      /\ adapter \in [Idxs -> Seats] /\ NoRun \in Seats
  BY DEF RunBase, RunShapes, Seats
<1>3. synced' \in [Idxs -> Seats] /\ rank' \in [Idxs -> Seats] /\ adapter' \in [Idxs -> Seats]
  BY <1>2 DEF Sync, ranks
<1>4. RunShapes'
  <2>1. phase' \in Phases
    BY <1>1 DEF Phases
  <2> QED
    BY <1>1, <1>3, <2>1 DEF RunBase, RunShapes
<1>5. RunIndices'
  <2>1. UsedIdxs' = UsedIdxs
    BY <1>1 DEF UsedIdxs
  <2> QED
    BY <1>1, <2>1 DEF RunBase, RunIndices
<1>6. RunSteps' /\ RunPacks'
  BY <1>1, StepsKept, PacksKept DEF RunBase
<1> QED
  BY <1>4, <1>5, <1>6 DEF RunBase

\* RunBase is preserved by the optimizer step.
LEMMA BaseTrain ==
    ASSUME RunBase, Train
    PROVE  RunBase'
<1>1. /\ UNCHANGED <<dir, life, evicted, wrote, published, tenant, progress, received, buffers>>
      /\ UNCHANGED <<ready, position, slept, inbox, synced, rank, adapter>>
      /\ phase = "train" /\ phase' = "broadcast" /\ packed' = << >>
  BY DEF Train, disk, runs, turn, ranks
<1>2. done' = [r \in Ids |-> IF \E i \in {j \in Idxs : ready[j]} : tenant[i].id = r
                              THEN progress[IdxOf(tenant, r)] - 1 ELSE done[r]]
  BY DEF Train
<1>3. ASSUME NEW r \in Ids, NEW i \in Idxs, ready[i], tenant[i].id = r
      PROVE  progress[IdxOf(tenant, r)] - 1 \in Nat
  <2>1. tenant[i] # NoRun
    BY <1>3 DEF RunBase, RunIndices
  <2>2. IdxOf(tenant, r) \in Idxs
    BY <1>3, <2>1, IdxOfIs
  <2>3. progress[IdxOf(tenant, r)] \in Nat \ {0}
    BY <2>2 DEF RunBase, RunShapes
  <2> QED
    BY <2>3
<1>4. done' \in [Ids -> Nat]
  BY <1>2, <1>3 DEF RunBase, RunShapes
<1>5. RunShapes'
  <2>1. phase' \in Phases /\ packed' \in Seq(Turns)
    BY <1>1 DEF Phases
  <2> QED
    BY <1>1, <1>4, <2>1 DEF RunBase, RunShapes
<1>6. RunIndices'
  <2>1. UsedIdxs' = UsedIdxs
    BY <1>1 DEF UsedIdxs
  <2> QED
    BY <1>1, <2>1 DEF RunBase, RunIndices
<1>7. RunSteps'
  BY <1>1, StepsKept DEF RunBase
<1>8. RunPacks'
  <2>1. Len(packed') = 0
    BY <1>1
  <2> QED
    BY <1>1, <2>1 DEF RunPacks
<1> QED
  BY <1>5, <1>6, <1>7, <1>8 DEF RunBase

\* The runs whose weights are broadcast.
Announced == {r \in Ids : \E i \in UsedIdxs : ready[i] /\ tenant[i].id = r}

\* A broadcast writes weights for the runs that are ready and lowers their flags.
LEMMA BroadcastGives ==
    ASSUME Broadcast
    PROVE  /\ UNCHANGED <<life, wrote, tenant, progress, received, buffers, position, slept, inbox>>
           /\ UNCHANGED <<packed, synced, rank, adapter, done>>
           /\ phase = "broadcast" /\ phase' = "discover" /\ ready' = [i \in Idxs |-> FALSE]
           /\ published' = [r \in Ids |-> IF r \in Announced /\ dir[r] = "live"
                                          THEN progress[IdxOf(tenant, r)] - 1 ELSE published[r]]
           /\ dir' = [r \in Ids |-> IF r \in Announced /\ dir[r] = "bare" THEN "absent" ELSE dir[r]]
           /\ evicted' = [r \in Ids |-> evicted[r] /\ ~(r \in Announced /\ dir[r] = "bare")]
<1>1. /\ UNCHANGED <<life, wrote, tenant, progress, received, buffers, position, slept, inbox>>
      /\ UNCHANGED <<packed, synced, rank, adapter, done>>
      /\ phase = "broadcast" /\ phase' = "discover" /\ ready' = [i \in Idxs |-> FALSE]
  BY DEF Broadcast, runs, turn, ranks, ReadyAfterBroadcast
<1> QED
  BY <1>1, Zenon DEF Broadcast, Announced, BroadcastStep

\* RunBase is preserved by the broadcast.
LEMMA BaseBroadcast ==
    ASSUME RunBase, Broadcast
    PROVE  RunBase'
<1>1. /\ UNCHANGED <<life, wrote, tenant, progress, received, buffers, position, slept, inbox>>
      /\ UNCHANGED <<packed, synced, rank, adapter, done>>
      /\ phase = "broadcast" /\ phase' = "discover" /\ ready' = [i \in Idxs |-> FALSE]
      /\ published' = [r \in Ids |-> IF r \in Announced /\ dir[r] = "live"
                                     THEN progress[IdxOf(tenant, r)] - 1 ELSE published[r]]
      /\ dir' = [r \in Ids |-> IF r \in Announced /\ dir[r] = "bare" THEN "absent" ELSE dir[r]]
      /\ evicted' = [r \in Ids |-> evicted[r] /\ ~(r \in Announced /\ dir[r] = "bare")]
  BY BroadcastGives
<1>2. ASSUME NEW r \in Announced PROVE progress[IdxOf(tenant, r)] - 1 \in Nat
  <2>1. PICK i \in Idxs : tenant[i] # NoRun /\ tenant[i].id = r
    BY DEF Announced, UsedIdxs
  <2>2. IdxOf(tenant, r) \in Idxs
    BY <2>1, IdxOfIs
  <2>3. progress[IdxOf(tenant, r)] \in Nat \ {0}
    BY <2>2 DEF RunBase, RunShapes
  <2> QED
    BY <2>3
<1>3. RunShapes'
  <2>1. published' \in [Ids -> Nat]
    BY <1>1, <1>2 DEF RunBase, RunShapes
  <2>2. dir' \in [Ids -> {"absent", "bare", "live"}]
    BY <1>1 DEF RunBase, RunShapes
  <2>3. evicted' \in [Ids -> BOOLEAN] /\ ready' \in [Idxs -> BOOLEAN]
    BY <1>1
  <2>4. phase' \in Phases
    BY <1>1 DEF Phases
  <2> QED
    BY <1>1, <2>1, <2>2, <2>3, <2>4 DEF RunBase, RunShapes
<1>4. RunIndices'
  <2>1. UsedIdxs' = UsedIdxs /\ \A i \in Idxs : ~ready'[i]
    BY <1>1 DEF UsedIdxs
  <2>2. \A r \in Ids : dir'[r] # "absent" => dir[r] # "absent"
    BY <1>1
  <2> QED
    BY <1>1, <2>1, <2>2 DEF RunBase, RunIndices
<1>5. RunSteps'
  BY <1>1, StepsKept DEF RunBase
<1>6. RunPacks'
  <2>1. packed' = << >> /\ Len(packed') = 0
    BY <1>1 DEF RunBase, RunPacks
  <2> QED
    BY <1>1, <2>1 DEF RunPacks
<1> QED
  BY <1>3, <1>4, <1>5, <1>6 DEF RunBase

\* RunBase is preserved by every step.
LEMMA BaseStep == RunBase /\ [RunsNext]_runsVars => RunBase'
<1> SUFFICES ASSUME RunBase, [RunsNext]_runsVars PROVE RunBase'
  OBVIOUS
<1>1. CASE Trainer
  BY <1>1, BaseDiscover, BaseReceive, BaseBuffer, BasePack, BaseWait, BaseSync, BaseTrain,
     BaseBroadcast DEF Trainer
<1>2. CASE UNCHANGED runsVars
  <2>1. UNCHANGED <<dir, life, evicted, wrote, published, tenant, progress, received, buffers, ready,
                    position, slept, inbox, packed, synced, rank, adapter, done, phase>>
    BY <1>2 DEF runsVars, disk, runs, turn, ranks
  <2>2. RunShapes' /\ RunIndices'
    BY <2>1 DEF RunBase, RunShapes, RunIndices, UsedIdxs
  <2>3. RunSteps' /\ RunPacks'
    BY <2>1, StepsKept, PacksKept DEF RunBase
  <2> QED
    BY <2>2, <2>3 DEF RunBase
<1> QED
  BY <1>1, <1>2, BaseEnvironment DEF RunsNext

\* Every reachable state, however often directories of one name come and go.
THEOREM RunsBase == RunsSpec => []RunBase
<1> QED
  BY BaseInit, BaseStep, PTL DEF RunsSpec

\* The variables keep their types, and no index changes hands with its flag set.
THEOREM RunsTypes == RunsSpec => []RunsTypeOK
<1>1. RunBase => RunsTypeOK
  <2> SUFFICES ASSUME RunBase PROVE RunsTypeOK
    OBVIOUS
  <2>1. \A i \in Idxs : \A k \in DOMAIN buffers[i] : buffers[i][k] \in Samples
    BY SamplesAre DEF RunBase, Good
  <2>2. \A t \in {tenant, synced, rank, adapter} : t \in [Idxs -> Tenants \cup {NoRun}]
    BY DEF RunBase, RunShapes, Seats
  <2>3. \A r \in Ids : wrote[r] \in Seq(Batches)
    BY DEF RunBase, RunShapes
  <2>4. \A i \in Idxs : ready[i] => phase \in {"sync", "train", "broadcast", "crashed"}
    BY DEF RunBase, RunIndices
  <2> QED
    BY <2>1, <2>2, <2>3, <2>4 DEF RunsTypeOK, RunBase, RunShapes
<1> QED
  BY <1>1, RunsBase, PTL

-----------------------------------------------------------------------------
(* Names that are not used again *)

\* A directory exists only in the one life its name has.
LEMMA OneLife ==
    ASSUME MaxLives = 1, RunBase
    PROVE  /\ \A r \in Ids : life[r] \in {0, 1} /\ (dir[r] # "absent" => life[r] = 1)
           /\ \A i \in UsedIdxs : i \in Idxs /\ tenant[i] \in Tenants /\ tenant[i].id \in Ids /\ life[tenant[i].id] = 1
<1>1. \A r \in Ids : life[r] \in {0, 1}
  BY DEF RunBase, RunShapes
<1>2. \A r \in Ids : dir[r] # "absent" => life[r] >= 1
  BY DEF RunBase, RunIndices
<1>3. \A i \in UsedIdxs : i \in Idxs /\ tenant[i] \in Tenants /\ tenant[i].id \in Ids /\ life[tenant[i].id] >= 1
  BY DEF RunBase, RunIndices, RunShapes, UsedIdxs, Seats, Tenants
<1> QED
  BY <1>1, <1>2, <1>3

\* What was removed or evicted stays so.
LEMMA OverStays ==
    ASSUME MaxLives = 1, RunBase, [RunsNext]_runsVars
    PROVE  \A r \in Ids : IsOver(r) => IsOver(r)'
<1> SUFFICES ASSUME NEW r \in Ids, IsOver(r) PROVE IsOver(r)'
  OBVIOUS
<1>1. CASE UNCHANGED <<dir, life, evicted>>
  BY <1>1 DEF IsOver
<1>2. dir \in [Ids -> {"absent", "bare", "live"}] /\ life \in [Ids -> 0 .. MaxLives] /\ evicted \in [Ids -> BOOLEAN]
  BY DEF RunBase, RunShapes
<1>3. CASE Environment
  <2>1. PICK x \in Ids : \/ NewDir(x) \/ WriteConfig(x) \/ RemoveDir(x)
                        \/ \E b \in Batches : WriteBatch(x, b)
    BY <1>3 DEF Environment
  <2>2. CASE NewDir(x)
    <3>1. x # r
      BY <2>2 DEF NewDir, IsOver
    <3> QED
      BY <1>2, <2>2, <3>1 DEF NewDir, IsOver
  <2>3. CASE WriteConfig(x)
    <3>1. life' = life /\ evicted' = evicted /\ (dir[r] = "absent" => dir'[r] = "absent")
      BY <1>2, <2>3 DEF WriteConfig
    <3> QED
      BY <3>1 DEF IsOver
  <2>4. CASE RemoveDir(x)
    <3>1. life' = life /\ (x = r => dir'[r] = "absent") /\ (x # r => dir'[r] = dir[r] /\ evicted'[r] = evicted[r])
      BY <1>2, <2>4 DEF RemoveDir
    <3> QED
      BY <3>1 DEF IsOver
  <2>5. CASE \E b \in Batches : WriteBatch(x, b)
    BY <2>5 DEF WriteBatch, IsOver
  <2> QED
    BY <2>1, <2>2, <2>3, <2>4, <2>5
<1>4. CASE Buffer
  <2>1. /\ life' = life /\ evicted' = [x \in Ids |-> evicted[x] \/ x \in EvictedIds]
        /\ dir' = [x \in Ids |-> IF x \in EvictedIds /\ dir[x] = "absent" THEN "bare" ELSE dir[x]]
    BY <1>4, BufferGives
  <2>2. life'[r] = life[r] /\ (evicted[r] => evicted'[r]) /\ (dir[r] = "absent" => dir'[r] = "absent" \/ evicted'[r])
    BY <2>1
  <2> QED
    BY <2>2 DEF IsOver
<1>5. CASE Broadcast
  <2>1. /\ life' = life /\ evicted' = [x \in Ids |-> evicted[x] /\ ~(x \in Announced /\ dir[x] = "bare")]
        /\ dir' = [x \in Ids |-> IF x \in Announced /\ dir[x] = "bare" THEN "absent" ELSE dir[x]]
    BY <1>5, BroadcastGives
  <2>2. life'[r] = life[r] /\ (evicted[r] => evicted'[r] \/ dir'[r] = "absent") /\ (dir[r] = "absent" => dir'[r] = "absent")
    BY <2>1
  <2> QED
    BY <2>2 DEF IsOver
<1>6. CASE Discover \/ Receive \/ Pack \/ WaitForTokens \/ Sync \/ Train \/ UNCHANGED runsVars
  BY <1>1, <1>6 DEF Discover, Receive, Pack, WaitForTokens, Sync, Train, runsVars, disk
<1> QED
  BY <1>3, <1>4, <1>5, <1>6 DEF RunsNext, Trainer

\* RunOnce holds when the trainer starts.
LEMMA OnceInit == RunsInit => RunOnce
<1> SUFFICES ASSUME RunsInit PROVE RunOnce
  OBVIOUS
<1>1. RunCounts
  BY DEF RunsInit, RunCounts, UsedIdxs
<1>2. RunAdapters
  BY DEF RunsInit, RunAdapters
<1>3. RunBatches
  BY DEF RunsInit, RunBatches, UsedIdxs
<1> QED
  BY <1>1, <1>2, <1>3 DEF RunOnce

\* Counts and adapters depend on the disk only by what is over.
LEMMA CountsKept ==
    ASSUME MaxLives = 1, RunBase, RunCounts, [RunsNext]_runsVars,
           UNCHANGED <<tenant, progress, done, ready>>,
           phase' \in {"sync", "train"} <=> phase \in {"sync", "train"},
           \A r \in Ids : life'[r] = 0 => life[r] = 0 /\ published'[r] = published[r]
    PROVE  RunCounts'
<1>1. UsedIdxs' = UsedIdxs
  BY DEF UsedIdxs
<1>2. \A i \in Idxs : Ahead(i)' = Ahead(i)
  BY DEF Ahead
<1>3. \A r : Holds(tenant, r)' <=> Holds(tenant, r)
  BY DEF Holds
<1>4. \A r \in Ids : done'[r] # 0 => Holds(tenant', r) \/ IsOver(r)'
  BY <1>3, OverStays DEF RunCounts
<1>5. \A r \in Ids : life'[r] = 0 => published'[r] = 0
  BY DEF RunCounts
<1>6. \A i \in UsedIdxs : progress'[i] = done'[tenant'[i].id] + Ahead(i)'
  BY <1>2 DEF RunCounts, UsedIdxs
<1> QED
  BY <1>1, <1>4, <1>5, <1>6 DEF RunCounts

\* RunAdapters is preserved when neither the indices nor the phase change.
LEMMA AdaptersKept ==
    ASSUME MaxLives = 1, RunBase, RunAdapters, [RunsNext]_runsVars,
           UNCHANGED <<tenant, synced, rank, adapter>>, phase' # "crashed",
           phase' \in {"train", "broadcast"} => phase \in {"train", "broadcast"}
    PROVE  RunAdapters'
<1>1. \A i \in Idxs : synced[i] # NoRun => synced[i].id \in Ids
  BY DEF RunBase, RunShapes, Seats, Tenants
<1>2. ASSUME NEW i \in Idxs, synced[i] # NoRun
      PROVE  IsOver(synced[i].id)' \/ Holds(tenant, synced[i].id)'
  <2>1. CASE IsOver(synced[i].id)
    <3>1. PICK r \in Ids : r = synced[i].id
      BY <1>1, <1>2
    <3>2. IsOver(r)'
      BY <2>1, <3>1, OverStays
    <3>3. r = synced'[i].id
      BY <3>1
    <3> QED
      BY <3>2, <3>3 DEF IsOver
  <2>2. CASE Holds(tenant, synced[i].id)
    BY <2>2 DEF Holds
  <2> QED
    BY <1>2, <2>1, <2>2 DEF RunAdapters
<1>3. \A i \in Idxs : synced[i] # NoRun => adapter'[i] = synced'[i]
  BY DEF RunAdapters
<1> QED
  BY <1>2, <1>3 DEF RunAdapters

\* RunBatches is preserved when the receiver and the packer rest.
LEMMA BatchesKept ==
    ASSUME MaxLives = 1, RunBase, RunBatches, [RunsNext]_runsVars,
           UNCHANGED <<tenant, buffers, wrote>>, packed' = packed \/ packed' = << >>,
           phase # "rediscover", phase' # "buffer",
           \A r \in Ids : (dir'[r] # "live" => dir[r] # "live") /\ (evicted'[r] => evicted[r])
    PROVE  RunBatches'
<1>1. UsedIdxs' = UsedIdxs
  BY DEF UsedIdxs
<1>2. \A i \in UsedIdxs : tenant[i].id \in Ids
  BY OneLife
<1>3. \A r \in Ids : dir'[r] # "live" => wrote'[r] = << >>
  BY DEF RunBatches
<1>4. \A i \in UsedIdxs : ~evicted'[tenant[i].id]
  BY <1>2 DEF RunBatches
<1>5. ASSUME NEW i \in UsedIdxs, ~IsOver(tenant[i].id)'
      PROVE  /\ \A k \in 1 .. Len(buffers[i]) : InOrderOnDisk(tenant[i].id, buffers[i][k].step)'
             /\ \A k \in 1 .. Len(packed') : packed'[k].idx = i => InOrderOnDisk(tenant[i].id, packed'[k].step)
  <2>1. PICK r \in Ids : r = tenant[i].id
    BY <1>2
  <2>2. ~IsOver(r)'
    BY <1>5, <2>1 DEF IsOver
  <2>3. ~IsOver(r)
    BY <2>2, OverStays
  <2>4. /\ \A k \in 1 .. Len(buffers[i]) : InOrderOnDisk(r, buffers[i][k].step)
        /\ \A k \in 1 .. Len(packed) : packed[k].idx = i => InOrderOnDisk(r, packed[k].step)
    BY <2>1, <2>3 DEF RunBatches
  <2>5. packed' = << >> => Len(packed') = 0
    OBVIOUS
  <2>6. \A k \in 1 .. Len(packed') : packed'[k].idx = i => InOrderOnDisk(r, packed'[k].step)
    BY <2>4, <2>5
  <2> QED
    BY <2>1, <2>4, <2>6 DEF InOrderOnDisk
<1>6. \A i \in UsedIdxs : ~IsOver(tenant[i].id)' =>
             \A k \in 1 .. Len(packed') : packed'[k].idx = i => InOrderOnDisk(tenant[i].id, packed[k].step)'
  BY <1>5 DEF InOrderOnDisk
<1> QED
  BY <1>1, <1>3, <1>4, <1>5, <1>6 DEF RunBatches

\* RunOnce is preserved by whatever happens to the directories.
LEMMA OnceEnvironment ==
    ASSUME MaxLives = 1, RunBase, RunOnce, Environment
    PROVE  RunOnce'
<1>1. /\ UNCHANGED <<tenant, progress, received, buffers, ready, inbox, packed, synced, rank, adapter, done, phase>>
      /\ [RunsNext]_runsVars
  BY DEF Environment, runs, turn, ranks, RunsNext
<1>2. PICK x \in Ids : \/ NewDir(x) \/ WriteConfig(x) \/ RemoveDir(x)
                      \/ \E b \in Batches : WriteBatch(x, b)
  BY DEF Environment
<1>3. /\ dir \in [Ids -> {"absent", "bare", "live"}] /\ life \in [Ids -> {0, 1}]
      /\ evicted \in [Ids -> BOOLEAN] /\ published \in [Ids -> Nat] /\ wrote \in [Ids -> Seq(Batches)]
  BY DEF RunBase, RunShapes
<1>4. \A r \in Ids : (dir[r] # "live" => wrote[r] = << >>) /\ (dir[r] # "absent" => life[r] = 1)
  BY OneLife DEF RunOnce, RunBatches
<1> DEFINE Fine(r) ==
      /\ life'[r] = 0 => life[r] = 0 /\ published'[r] = published[r]
      /\ dir'[r] # "live" => wrote'[r] = << >>
      /\ evicted'[r] => evicted[r]
      /\ \/ life[r] = 1 => IsOver(r)'
         \/ wrote'[r] = wrote[r]
         \/ \E b \in Batches : wrote'[r] = Append(wrote[r], b)
<1>5. ASSUME NEW r \in Ids, NewDir(x) PROVE Fine(r)
  <2>1. life[x] = 0 /\ wrote' = wrote /\ evicted' = evicted /\ dir[x] = "absent"
    BY <1>3, <1>5 DEF NewDir
  <2>2. life' = [life EXCEPT ![x] = 1] /\ published' = [published EXCEPT ![x] = 0] /\ dir' = [dir EXCEPT ![x] = "bare"]
    BY <1>5, <2>1 DEF NewDir
  <2>3. CASE r = x
    BY <1>3, <1>4, <2>1, <2>2, <2>3
  <2>4. CASE r # x
    BY <1>3, <1>4, <2>1, <2>2, <2>4
  <2> QED
    BY <2>3, <2>4
<1>6. ASSUME NEW r \in Ids, WriteConfig(x) PROVE Fine(r)
  BY <1>3, <1>4, <1>6 DEF WriteConfig
<1>7. ASSUME NEW r \in Ids, RemoveDir(x) PROVE Fine(r)
  <2>1. life' = life /\ published' = published
    BY <1>7 DEF RemoveDir
  <2>2. CASE r = x
    <3>1. dir'[r] = "absent" /\ wrote'[r] = << >> /\ evicted'[r] = FALSE
      BY <1>3, <1>7, <2>2 DEF RemoveDir
    <3>2. life[r] = 1 => IsOver(r)'
      BY <2>1, <3>1 DEF IsOver
    <3> QED
      BY <2>1, <3>1, <3>2
  <2>3. CASE r # x
    <3>1. dir'[r] = dir[r] /\ wrote'[r] = wrote[r] /\ evicted'[r] = evicted[r]
      BY <1>3, <1>7, <2>3 DEF RemoveDir
    <3> QED
      BY <1>4, <2>1, <3>1
  <2> QED
    BY <2>2, <2>3
<1>8. ASSUME NEW r \in Ids, NEW b \in Batches, WriteBatch(x, b) PROVE Fine(r)
  <2>1. UNCHANGED <<dir, life, evicted, published>> /\ dir[x] = "live"
    BY <1>8 DEF WriteBatch
  <2>2. wrote'[r] = IF r = x THEN Append(wrote[r], b) ELSE wrote[r]
    BY <1>3, <1>8 DEF WriteBatch
  <2> QED
    BY <1>4, <2>1, <2>2
<1>9. \A r \in Ids : Fine(r)
  BY <1>2, <1>5, <1>6, <1>7, <1>8
<1> HIDE DEF Fine
<1>10. RunCounts'
  <2>1. \A r \in Ids : life'[r] = 0 => life[r] = 0 /\ published'[r] = published[r]
    BY <1>9 DEF Fine
  <2> QED
    BY <1>1, <2>1, CountsKept DEF RunOnce
<1>11. RunAdapters'
  BY <1>1, AdaptersKept DEF RunOnce, RunAdapters
<1>12. RunBatches'
  <2>1. UsedIdxs' = UsedIdxs
    BY <1>1 DEF UsedIdxs
  <2>2. \A r \in Ids : (dir'[r] # "live" => wrote'[r] = << >>) /\ (evicted'[r] => evicted[r])
    BY <1>9 DEF Fine
  <2>3. \A i \in UsedIdxs : tenant[i].id \in Ids /\ life[tenant[i].id] = 1
    BY OneLife
  <2>4. ASSUME NEW i \in UsedIdxs, ~IsOver(tenant[i].id)'
        PROVE  \E r \in Ids :
                  /\ r = tenant[i].id /\ ~IsOver(r)
                  /\ \A s : InOrderOnDisk(r, s) => InOrderOnDisk(r, s)'
                  /\ \A s \in 1 .. Len(wrote[r]) : s \in 1 .. Len(wrote'[r]) /\ wrote'[r][s] = wrote[r][s]
    <3>1. PICK r \in Ids : r = tenant[i].id /\ life[r] = 1
      BY <2>3
    <3>2. ~IsOver(r)'
      BY <1>1, <2>4, <3>1 DEF IsOver
    <3>3. ~IsOver(r)
      BY <1>1, <3>2, OverStays
    <3>4. wrote'[r] = wrote[r] \/ \E b \in Batches : wrote'[r] = Append(wrote[r], b)
      BY <1>9, <3>1, <3>2 DEF Fine
    <3>5. PICK w \in Seq(Batches), n \in Nat : w = wrote[r] /\ n = Len(w)
      BY <1>3, LenProperties
    <3>6. \A s \in 1 .. n : s \in 1 .. Len(wrote'[r]) /\ wrote'[r][s] = w[s]
      <4>1. CASE wrote'[r] = w
        BY <3>5, <4>1
      <4>2. ASSUME NEW b \in Batches, wrote'[r] = Append(w, b)
            PROVE  \A s \in 1 .. n : s \in 1 .. Len(wrote'[r]) /\ wrote'[r][s] = w[s]
        <5>1. Len(Append(w, b)) = n + 1 /\ \A s \in 1 .. n : Append(w, b)[s] = w[s] /\ s \in 1 .. n + 1
          BY <3>5
        <5> QED
          BY <4>2, <5>1
      <4> QED
        BY <3>4, <3>5, <4>1, <4>2
    <3>7. \A s : InOrderOnDisk(r, s) => InOrderOnDisk(r, s)'
      BY <3>5, <3>6 DEF InOrderOnDisk
    <3> QED
      BY <3>1, <3>3, <3>5, <3>6, <3>7
  <2>5. ASSUME NEW i \in UsedIdxs, ~IsOver(tenant[i].id)'
        PROVE  /\ \A k \in 1 .. Len(buffers[i]) : InOrderOnDisk(tenant[i].id, buffers[i][k].step)'
               /\ \A k \in 1 .. Len(packed) : packed[k].idx = i => InOrderOnDisk(tenant[i].id, packed[k].step)'
               /\ phase = "buffer" => \A m \in DOMAIN inbox : inbox[m].idx = i =>
                     /\ inbox[m].step \in 1 .. Len(wrote'[tenant[i].id])
                     /\ inbox[m].lens = wrote'[tenant[i].id][inbox[m].step]
    <3>1. PICK r \in Ids :
                  /\ r = tenant[i].id /\ ~IsOver(r)
                  /\ \A s : InOrderOnDisk(r, s) => InOrderOnDisk(r, s)'
                  /\ \A s \in 1 .. Len(wrote[r]) : s \in 1 .. Len(wrote'[r]) /\ wrote'[r][s] = wrote[r][s]
      BY <2>4, <2>5
    <3>2. /\ \A k \in 1 .. Len(buffers[i]) : InOrderOnDisk(r, buffers[i][k].step)
          /\ \A k \in 1 .. Len(packed) : packed[k].idx = i => InOrderOnDisk(r, packed[k].step)
          /\ phase = "buffer" => \A m \in DOMAIN inbox : inbox[m].idx = i =>
                /\ inbox[m].step \in 1 .. Len(wrote[r])
                /\ inbox[m].lens = wrote[r][inbox[m].step]
      BY <3>1 DEF RunOnce, RunBatches
    <3>3. \A k \in 1 .. Len(buffers[i]) : InOrderOnDisk(tenant[i].id, buffers[i][k].step)'
      BY <1>1, <3>1, <3>2 DEF InOrderOnDisk
    <3>4. \A k \in 1 .. Len(packed) : packed[k].idx = i => InOrderOnDisk(tenant[i].id, packed[k].step)'
      BY <1>1, <3>1, <3>2 DEF InOrderOnDisk
    <3> QED
      BY <3>1, <3>2, <3>3, <3>4
  <2> QED
    BY <1>1, <2>1, <2>2, <2>3, <2>5 DEF RunOnce, RunBatches
<1> QED
  BY <1>10, <1>11, <1>12 DEF RunOnce

\* RunOnce is preserved by the discovery of runs.
LEMMA OnceDiscover ==
    ASSUME MaxLives = 1, RunBase, RunOnce, Discover
    PROVE  RunOnce'
<1>1. /\ UNCHANGED <<dir, life, evicted, wrote, published, ready, inbox, packed>>
      /\ UNCHANGED <<synced, rank, adapter, done>>
      /\ phase \in {"discover", "rediscover"} /\ phase' \in {"receive", "pack"}
  BY DEF Discover, disk, ranks
<1>2. PICK New, f : Admits(New, f)
  BY DiscoverAdmits DEF Discover, RunBase
<1>3. \A i \in UsedIdxs : i \in Idxs /\ tenant[i].id \in Ids /\ life[tenant[i].id] = 1
  BY OneLife
<1>4. \A r \in Ids : IsOver(r)' <=> IsOver(r)
  BY <1>1 DEF IsOver
<1>5. \A i \in Forgotten : IsOver(tenant[i].id)
  BY <1>3 DEF Forgotten, Visible, IsOver
<1>6. ASSUME NEW i \in New
      PROVE  /\ i \in Idxs /\ f[i] \in Ids /\ ~IsOver(f[i]) /\ ~Holds(tenant, f[i]) /\ ~evicted[f[i]]
             /\ tenant'[i].id = f[i] /\ Emptied(i)
  <2>1. f[i] \in Newcomers /\ i \in Idxs /\ tenant'[i] = Owner(f[i]) /\ Emptied(i)
    BY <1>2 DEF Admits
  <2>2. f[i] \in Visible /\ \A j \in UsedIdxs : tenant[j].id # f[i]
    BY <2>1 DEF Newcomers
  <2>3. f[i] \in Ids /\ ~IsOver(f[i]) /\ ~evicted[f[i]]
    BY <2>2 DEF Visible, IsOver
  <2>4. ~Holds(tenant, f[i])
    BY <2>2 DEF Holds, UsedIdxs
  <2> QED
    BY <2>1, <2>3, <2>4 DEF Owner
\* A used index is new or has kept its run.
<1>7. ASSUME NEW i \in Idxs, tenant'[i] # NoRun
      PROVE  i \in New \/ (i \notin New /\ i \in UsedIdxs /\ i \notin Forgotten /\ Keeps(i))
  BY <1>2, <1>7 DEF Admits, Keeps, UsedIdxs
<1>8. ASSUME NEW r \in Ids, Holds(tenant, r) PROVE Holds(tenant, r)' \/ IsOver(r)
  <2>1. PICK i \in UsedIdxs : tenant[i].id = r /\ i \in Idxs
    BY <1>8 DEF Holds, UsedIdxs
  <2>2. CASE i \in Forgotten
    BY <1>5, <2>1, <2>2
  <2>3. CASE i \notin Forgotten
    <3>1. i \notin New /\ Keeps(i)
      BY <1>2, <2>1, <2>3 DEF Admits, UsedIdxs
    <3> QED
      BY <2>1, <3>1 DEF Keeps, Holds, UsedIdxs
  <2> QED
    BY <2>2, <2>3
<1>9. RunCounts'
  <2>1. ASSUME NEW r \in Ids, done[r] # 0 PROVE Holds(tenant, r)' \/ IsOver(r)'
    BY <1>4, <1>8, <2>1 DEF RunOnce, RunCounts
  <2>2. \A r \in Ids : life[r] = 0 => published[r] = 0
    BY DEF RunOnce, RunCounts
  <2>3. \A i \in Idxs : Ahead(i) = 1 /\ Ahead(i)' = 1
    BY <1>1 DEF Ahead
  <2>4. ASSUME NEW i \in UsedIdxs' PROVE progress'[i] = done[tenant'[i].id] + 1
    <3>1. i \in Idxs /\ tenant'[i] # NoRun
      BY DEF UsedIdxs
    <3>2. CASE i \in New
      <4>1. done[f[i]] = 0
        BY <1>6, <3>2 DEF RunOnce, RunCounts
      <4> QED
        BY <1>6, <3>2, <4>1 DEF Emptied
    <3>3. CASE i \in UsedIdxs /\ Keeps(i)
      BY <2>3, <3>1, <3>3 DEF Keeps, RunOnce, RunCounts
    <3> QED
      BY <1>7, <3>1, <3>2, <3>3
  <2>5. \A i \in UsedIdxs' : i \in Idxs
    BY DEF UsedIdxs
  <2> QED
    BY <1>1, <2>1, <2>2, <2>3, <2>4, <2>5 DEF RunCounts
<1>10. RunAdapters'
  <2>1. \A i \in Idxs : synced[i] # NoRun => synced[i].id \in Ids
    BY DEF RunBase, RunShapes, Seats, Tenants
  <2>2. ASSUME NEW i \in Idxs, synced[i] # NoRun
        PROVE  adapter[i] = synced[i] /\ (IsOver(synced[i].id)' \/ Holds(tenant, synced[i].id)')
    <3>1. PICK r \in Ids : r = synced[i].id
      BY <2>1, <2>2
    <3>2. adapter[i] = synced[i] /\ (IsOver(r) \/ Holds(tenant, r))
      BY <2>2, <3>1 DEF RunOnce, RunAdapters
    <3>3. IsOver(r)' \/ Holds(tenant, r)'
      BY <1>4, <1>8, <3>2
    <3>4. r = synced'[i].id
      BY <1>1, <3>1
    <3> QED
      BY <3>2, <3>3, <3>4 DEF IsOver, Holds
  <2>3. ASSUME NEW i \in Idxs, NEW j \in Idxs, synced[i] # NoRun, tenant'[j] # NoRun,
               synced[i].id = tenant'[j].id
        PROVE  i = j
    <3>1. CASE j \in New
      <4>1. synced[i].id = f[j] /\ ~IsOver(f[j]) /\ ~Holds(tenant, f[j])
        BY <1>6, <2>3, <3>1
      <4> QED
        BY <2>3, <4>1 DEF RunOnce, RunAdapters
    <3>2. CASE j \in UsedIdxs /\ Keeps(j)
      BY <2>3, <3>2 DEF Keeps, UsedIdxs, RunOnce, RunAdapters
    <3> QED
      BY <1>7, <2>3, <3>1, <3>2
  <2>4. phase' \notin {"train", "broadcast", "crashed"} /\ rank' = synced'
    BY <1>1 DEF RunOnce, RunAdapters
  <2> QED
    BY <1>1, <2>2, <2>3, <2>4 DEF RunAdapters
<1>11. RunBatches'
  <2>1. \A r \in Ids : dir[r] # "live" => wrote[r] = << >>
    BY DEF RunOnce, RunBatches
  <2>2. packed' = << >> /\ Len(packed') = 0
    BY <1>1 DEF RunBase, RunPacks
  <2>3. ASSUME NEW i \in UsedIdxs'
        PROVE  /\ ~evicted'[tenant'[i].id]
               /\ ~IsOver(tenant[i].id)' =>
                     \A k \in 1 .. Len(buffers'[i]) : InOrderOnDisk(tenant[i].id, buffers[i][k].step)'
    <3>1. i \in Idxs /\ tenant'[i] # NoRun
      BY DEF UsedIdxs
    <3>2. CASE i \in New
      <4>1. Len(buffers'[i]) = 0 /\ ~evicted'[tenant'[i].id]
        BY <1>1, <1>6, <3>2 DEF Emptied
      <4> QED
        BY <4>1
    <3>3. CASE i \in UsedIdxs /\ i \notin Forgotten /\ Keeps(i)
      <4>1. PICK r \in Ids : r = tenant[i].id /\ r = tenant'[i].id /\ ~evicted[r]
        BY <1>3, <3>3 DEF Forgotten, Visible, Keeps
      <4>2. ~IsOver(r) => \A k \in 1 .. Len(buffers[i]) : InOrderOnDisk(r, buffers[i][k].step)
        BY <3>3, <4>1 DEF RunOnce, RunBatches
      <4>3. buffers'[i] = buffers[i]
        BY <3>3 DEF Keeps
      <4>4. IsOver(tenant[i].id)' <=> IsOver(r)
        BY <1>1, <4>1 DEF IsOver
      <4>5. ~IsOver(r) => \A k \in 1 .. Len(buffers'[i]) : InOrderOnDisk(tenant[i].id, buffers[i][k].step)'
        BY <1>1, <4>1, <4>2, <4>3 DEF InOrderOnDisk
      <4> QED
        BY <1>1, <4>1, <4>4, <4>5
    <3> QED
      BY <1>7, <3>1, <3>2, <3>3
  <2> QED
    BY <1>1, <2>1, <2>2, <2>3 DEF RunBatches
<1> QED
  BY <1>9, <1>10, <1>11 DEF RunOnce

\* RunOnce is preserved by the receiver.
LEMMA OnceReceive ==
    ASSUME MaxLives = 1, RunBase, RunOnce, Receive
    PROVE  RunOnce'
<1>1. /\ UNCHANGED <<dir, life, evicted, wrote, published, tenant, progress, buffers, ready, packed>>
      /\ UNCHANGED <<synced, rank, adapter, done>>
      /\ phase = "receive" /\ phase' = "buffer" /\ [RunsNext]_runsVars
  BY DEF Receive, disk, ranks, RunsNext, Trainer
<1>2. RunCounts'
  BY <1>1, CountsKept DEF RunOnce
<1>3. RunAdapters'
  BY <1>1, AdaptersKept DEF RunOnce
<1>4. RunBatches'
  <2>1. UsedIdxs' = UsedIdxs
    BY <1>1 DEF UsedIdxs
  <2>2. ASSUME NEW i \in UsedIdxs, NEW m \in DOMAIN inbox', inbox'[m].idx = i
        PROVE  /\ inbox'[m].step \in 1 .. Len(wrote[tenant[i].id])
               /\ inbox'[m].lens = wrote[tenant[i].id][inbox'[m].step]
    <3>1. PICK j \in UsedIdxs : inbox'[m] = BatchOf(j) /\ HasBatch(j)
      BY ReceiveGives
    <3>2. j = i /\ inbox'[m].step = ReceivedStep(i) /\ inbox'[m].lens = wrote[tenant[i].id][ReceivedStep(i)]
      BY <2>2, <3>1 DEF BatchOf
    <3>3. ReceivedStep(i) \in Nat \ {0} /\ tenant[i].id \in Ids
      BY NextBatch
    <3>4. ReceivedStep(i) <= Len(wrote[tenant[i].id])
      BY <3>1, <3>2 DEF HasBatch
    <3>5. Len(wrote[tenant[i].id]) \in Nat
      BY <3>3, LenProperties DEF RunBase, RunShapes
    <3> QED
      BY <3>2, <3>3, <3>4, <3>5
  <2>3. \A i \in UsedIdxs : IsOver(tenant[i].id)' <=> IsOver(tenant[i].id)
    BY <1>1 DEF IsOver
  <2>4. \A i \in UsedIdxs : ~IsOver(tenant[i].id) =>
          /\ \A k \in 1 .. Len(buffers[i]) : InOrderOnDisk(tenant[i].id, buffers[i][k].step)'
          /\ \A k \in 1 .. Len(packed) : packed[k].idx = i => InOrderOnDisk(tenant[i].id, packed[k].step)'
    BY <1>1 DEF RunOnce, RunBatches, InOrderOnDisk
  <2>5. /\ \A r \in Ids : dir[r] # "live" => wrote[r] = << >>
        /\ \A i \in UsedIdxs : ~evicted[tenant[i].id]
    BY <1>1 DEF RunOnce, RunBatches
  <2> QED
    BY <1>1, <2>1, <2>2, <2>3, <2>4, <2>5 DEF RunBatches
<1> QED
  BY <1>2, <1>3, <1>4 DEF RunOnce

\* RunOnce is preserved by the packer taking over what was received.
LEMMA OnceBuffer ==
    ASSUME MaxLives = 1, RunBase, RunOnce, Buffer
    PROVE  RunOnce'
<1>1. /\ UNCHANGED <<life, wrote, published, tenant, progress, received, ready>>
      /\ UNCHANGED <<packed, synced, rank, adapter, done>>
      /\ phase = "buffer" /\ phase' = "rediscover" /\ inbox' = << >>
      /\ [RunsNext]_runsVars
  BY BufferGives DEF RunsNext, Trainer
<1>2. RunCounts'
  BY <1>1, CountsKept DEF RunOnce
<1>3. RunAdapters'
  BY <1>1, AdaptersKept DEF RunOnce
<1>4. RunBatches'
  <2>1. UsedIdxs' = UsedIdxs
    BY <1>1 DEF UsedIdxs
  <2>2. /\ evicted' = [r \in Ids |-> evicted[r] \/ r \in EvictedIds]
        /\ dir' = [r \in Ids |-> IF r \in EvictedIds /\ dir[r] = "absent" THEN "bare" ELSE dir[r]]
        /\ \A i \in Idxs : buffers'[i] = buffers[i] \/ \E m : Buffered1(i, m)
    BY BufferGives
  <2>3. \A r \in Ids : dir'[r] # "live" => wrote[r] = << >>
    BY <2>2 DEF RunOnce, RunBatches
  <2>4. \A i \in UsedIdxs : i \in Idxs /\ tenant[i].id \in Ids /\ life[tenant[i].id] = 1
    BY OneLife
  <2>5. packed' = << >> /\ Len(packed') = 0
    BY <1>1 DEF RunBase, RunPacks
  <2>6. ASSUME NEW i \in UsedIdxs, ~IsOver(tenant[i].id)'
        PROVE  \A k \in 1 .. Len(buffers'[i]) : InOrderOnDisk(tenant[i].id, buffers[i][k].step)'
    <3>1. PICK r \in Ids : r = tenant[i].id /\ life[r] = 1
      BY <2>4
    <3>2. ~IsOver(r)' /\ ~evicted'[r]
      BY <1>1, <2>6, <3>1 DEF IsOver
    <3>3. ~IsOver(r)
      BY <1>1, <3>2, OverStays
    <3>4. i \notin Evictions
      BY <2>2, <3>1, <3>2 DEF EvictedIds
    <3>5. \A k \in 1 .. Len(buffers[i]) : InOrderOnDisk(r, buffers[i][k].step)
      BY <3>1, <3>3 DEF RunOnce, RunBatches
    <3>6. ASSUME NEW m, Buffered1(i, m) PROVE InOrderOnDisk(r, inbox[m].step)
      <4>1. m \in DOMAIN inbox /\ inbox[m].idx = i /\ inbox[m] \in Arrivals
        BY <2>4, <3>6, BufferedSamples
      <4>2. ~Bad(inbox[m])
        BY <3>4, <4>1 DEF Evictions
      <4>3. \A len \in Range(inbox[m].lens) : Valid(len)
        BY <4>1, <4>2, AcceptedAre
      <4>4. inbox[m].step \in 1 .. Len(wrote[r]) /\ inbox[m].lens = wrote[r][inbox[m].step]
        BY <1>1, <3>1, <3>3, <4>1 DEF RunOnce, RunBatches
      <4> QED
        BY <4>3, <4>4 DEF InOrderOnDisk
    <3>7. ASSUME NEW k \in 1 .. Len(buffers'[i]) PROVE InOrderOnDisk(r, buffers'[i][k].step)
      <4>1. CASE buffers'[i] = buffers[i]
        BY <3>5, <4>1
      <4>2. ASSUME NEW m, Buffered1(i, m) PROVE InOrderOnDisk(r, buffers'[i][k].step)
        <5>1. \/ k \in 1 .. Len(buffers[i]) /\ buffers'[i][k] = buffers[i][k]
              \/ buffers'[i][k].step = inbox[m].step
          BY <2>4, <4>2, BufferedSamples
        <5> QED
          BY <3>5, <3>6, <4>2, <5>1
      <4> QED
        BY <2>2, <2>4, <4>1, <4>2
    <3> QED
      BY <1>1, <3>1, <3>7 DEF InOrderOnDisk
  <2> QED
    BY <1>1, <2>1, <2>3, <2>5, <2>6 DEF RunBatches
<1> QED
  BY <1>2, <1>3, <1>4 DEF RunOnce

\* RunOnce is preserved by the packing of a step.
LEMMA OncePack ==
    ASSUME MaxLives = 1, RunBase, RunOnce, Pack
    PROVE  RunOnce'
<1>1. /\ UNCHANGED <<dir, life, evicted, wrote, published, tenant, received, inbox>>
      /\ UNCHANGED <<synced, rank, adapter, done>>
      /\ phase = "pack" /\ phase' = "sync" /\ [RunsNext]_runsVars
  BY DEF Pack, disk, ranks, RunsNext, Trainer
<1>2. PICK popped, Over : PacksAs(popped, Over)
  BY PackGives
<1>3. UsedIdxs' = UsedIdxs
  BY <1>1 DEF UsedIdxs
<1>4. \A i \in UsedIdxs : i \in Idxs /\ tenant[i].id \in Ids
  BY OneLife
<1>5. RunCounts'
  <2>1. \A r \in Ids : done'[r] # 0 => Holds(tenant, r)' \/ IsOver(r)'
    BY <1>1 DEF RunOnce, RunCounts, Holds, IsOver
  <2>2. ASSUME NEW i \in UsedIdxs PROVE progress'[i] = done[tenant[i].id] + Ahead(i)'
    <3>1. ~ready[i] /\ progress[i] = done[tenant[i].id] + 1
      BY <1>1, <1>4 DEF RunBase, RunIndices, RunOnce, RunCounts, Ahead
    <3>2. PICK n \in Nat : n = done[tenant[i].id]
      BY <1>4 DEF RunBase, RunShapes
    <3>3. CASE i \in Over
      <4>1. ready'[i] /\ progress'[i] = n + 1 + 1
        BY <1>2, <1>4, <3>1, <3>2, <3>3 DEF PacksAs
      <4>2. Ahead(i)' = 2
        BY <1>1, <4>1 DEF Ahead
      <4>3. n + 1 + 1 = n + 2
        OBVIOUS
      <4> QED
        BY <3>2, <4>1, <4>2, <4>3
    <3>4. CASE i \notin Over
      <4>1. ~ready'[i] /\ progress'[i] = progress[i]
        BY <1>2, <1>4, <3>1, <3>4 DEF PacksAs
      <4>2. Ahead(i)' = 1
        BY <4>1 DEF Ahead
      <4> QED
        BY <3>1, <4>1, <4>2
    <3> QED
      BY <3>3, <3>4
  <2>3. \A r \in Ids : life'[r] = 0 => published'[r] = 0
    BY <1>1 DEF RunOnce, RunCounts
  <2>4. \A i \in UsedIdxs : progress'[i] = done'[tenant'[i].id] + Ahead(i)'
    BY <1>1, <2>2
  <2> QED
    BY <1>3, <2>1, <2>3, <2>4 DEF RunCounts
<1>6. RunAdapters'
  BY <1>1, AdaptersKept DEF RunOnce
<1>7. RunBatches'
  <2>1. ASSUME NEW i \in UsedIdxs, ~IsOver(tenant[i].id)
        PROVE  /\ \A k \in 1 .. Len(buffers'[i]) : InOrderOnDisk(tenant[i].id, buffers[i][k].step)'
               /\ \A k \in 1 .. Len(packed') : packed'[k].idx = i => InOrderOnDisk(tenant[i].id, packed[k].step)'
    <3>1. PICK r \in Ids : r = tenant[i].id
      BY <1>4
    <3>2. \A k \in 1 .. Len(buffers[i]) : InOrderOnDisk(r, buffers[i][k].step)
      BY <2>1, <3>1 DEF RunOnce, RunBatches
    <3>3. \A k \in 1 .. Len(buffers'[i]) :
             popped[i] + k \in 1 .. Len(buffers[i]) /\ buffers'[i][k] = buffers[i][popped[i] + k]
      BY <1>2, <1>4, PackedSamples
    <3>4. \A k \in 1 .. Len(buffers'[i]) : InOrderOnDisk(r, buffers'[i][k].step)
      BY <3>2, <3>3
    <3>5. \A k \in 1 .. Len(packed') : packed'[k].idx = i => InOrderOnDisk(r, packed'[k].step)
      BY <1>2, <3>2, PackedSamples
    <3> QED
      BY <1>1, <3>1, <3>4, <3>5 DEF InOrderOnDisk
  <2>2. \A i \in UsedIdxs : IsOver(tenant[i].id)' <=> IsOver(tenant[i].id)
    BY <1>1 DEF IsOver
  <2>3. /\ \A r \in Ids : dir[r] # "live" => wrote[r] = << >>
        /\ \A i \in UsedIdxs : ~evicted[tenant[i].id]
    BY <1>1 DEF RunOnce, RunBatches
  <2> QED
    BY <1>1, <1>3, <2>1, <2>2, <2>3 DEF RunBatches
<1> QED
  BY <1>5, <1>6, <1>7 DEF RunOnce

\* RunOnce is preserved by a packer that waits for samples.
LEMMA OnceWait ==
    ASSUME MaxLives = 1, RunBase, RunOnce, WaitForTokens
    PROVE  RunOnce'
<1>1. /\ UNCHANGED <<dir, life, evicted, wrote, published, tenant, progress, received, buffers>>
      /\ UNCHANGED <<ready, packed, synced, rank, adapter, done>>
      /\ phase = "pack" /\ phase' = "discover" /\ [RunsNext]_runsVars
  BY DEF WaitForTokens, disk, runs, ranks, RunsNext, Trainer
<1>2. RunCounts'
  BY <1>1, CountsKept DEF RunOnce
<1>3. RunAdapters'
  BY <1>1, AdaptersKept DEF RunOnce
<1>4. RunBatches'
  BY <1>1, BatchesKept DEF RunOnce
<1> QED
  BY <1>2, <1>3, <1>4 DEF RunOnce

\* The only index of a run.
LEMMA IdxOfTenant ==
    ASSUME RunBase, NEW i \in Idxs, tenant[i] # NoRun
    PROVE  IdxOf(tenant, tenant[i].id) = i
<1>1. /\ IdxOf(tenant, tenant[i].id) \in Idxs /\ tenant[IdxOf(tenant, tenant[i].id)] # NoRun
      /\ tenant[IdxOf(tenant, tenant[i].id)].id = tenant[i].id
  BY IdxOfIs
<1> QED
  BY <1>1 DEF RunBase, RunIndices, UsedIdxs

\* The ranks set an index up for every run that is new to them, and agree on all the others.
LEMMA SyncMatches ==
    ASSUME MaxLives = 1, RunBase, RunOnce, Sync
    PROVE  /\ phase' = "train" /\ synced' = tenant /\ rank' = tenant
           /\ \A i \in Idxs : tenant[i] # NoRun => adapter'[i] = tenant[i]
<1> DEFINE Kept    == NamesIn(tenant) \cap NamesIn(rank)
           NewIdx  == {IdxOf(tenant, r) : r \in NewRuns}
           KeptIdx == {IdxOf(rank, r) : r \in Kept}
<1>1. IF NewIdx \cap KeptIdx # {}
      THEN phase' = "crashed" /\ UNCHANGED ranks
      ELSE /\ adapter' = [i \in Idxs |-> IF i \in NewIdx THEN tenant[i] ELSE adapter[i]]
           /\ rank' = [i \in Idxs |-> IF i \in NewIdx THEN tenant[i]
                                      ELSE IF i \in KeptIdx THEN rank[i] ELSE NoRun]
           /\ synced' = tenant
           /\ phase' = "train"
  BY DEF Sync
<1>2. rank = synced
  BY DEF RunOnce, RunAdapters
<1>3. \A i, j \in Idxs : synced[i] # NoRun /\ tenant[j] # NoRun /\ synced[i].id = tenant[j].id => i = j
  BY DEF RunOnce, RunAdapters
<1>4. \A i \in Idxs : tenant[i] # NoRun => tenant[i] \in Tenants
  BY DEF RunBase, RunShapes, Seats
<1>5. \A i \in Idxs : synced[i] # NoRun => synced[i] \in Tenants
  BY DEF RunBase, RunShapes, Seats
\* An index whose run is new, and one whose run the ranks know.
<1>6. ASSUME NEW i \in NewIdx
      PROVE  i \in Idxs /\ tenant[i] # NoRun /\ tenant[i].id \notin NamesIn(synced)
  <2>1. PICK r : r \in NewRuns /\ i = IdxOf(tenant, r)
    OBVIOUS
  <2>2. PICK j \in Idxs : tenant[j] # NoRun /\ tenant[j].id = r /\ r \notin NamesIn(synced)
    BY <2>1 DEF NewRuns, NamesIn
  <2>3. i = j
    BY <2>1, <2>2, IdxOfTenant
  <2> QED
    BY <2>2, <2>3
<1>7. ASSUME NEW i \in KeptIdx
      PROVE  /\ i \in Idxs /\ tenant[i] # NoRun /\ tenant[i].id \in NamesIn(synced)
  <2>1. PICK r : r \in Kept /\ i = IdxOf(synced, r)
    BY <1>2
  <2>2. PICK j \in Idxs, k \in Idxs : /\ tenant[j] # NoRun /\ tenant[j].id = r
                                    /\ synced[k] # NoRun /\ synced[k].id = r
    BY <1>2, <2>1 DEF NamesIn
  <2>3. i \in Idxs /\ synced[i] # NoRun /\ synced[i].id = r
    BY <2>1, <2>2, IdxOfIs
  <2>4. i = j
    BY <1>3, <2>2, <2>3
  <2> QED
    BY <2>1, <2>2, <2>4 DEF NamesIn
<1>8. NewIdx \cap KeptIdx = {}
  BY <1>6, <1>7
<1>9. ASSUME NEW i \in Idxs, tenant[i] # NoRun, i \notin NewIdx
      PROVE  i \in KeptIdx /\ synced[i] = tenant[i] /\ adapter[i] = tenant[i]
  <2>1. PICK r : r = tenant[i].id /\ r \in NamesIn(tenant) /\ IdxOf(tenant, r) = i
    BY <1>9, IdxOfTenant DEF NamesIn
  <2>2. r \in NamesIn(synced)
    BY <1>9, <2>1 DEF NewRuns
  <2>3. PICK k \in Idxs : synced[k] # NoRun /\ synced[k].id = r
    BY <2>2 DEF NamesIn
  <2>4. k = i
    BY <1>3, <1>9, <2>1, <2>3
  <2>5. IdxOf(synced, r) \in Idxs /\ synced[IdxOf(synced, r)] # NoRun /\ synced[IdxOf(synced, r)].id = r
    BY <2>3, IdxOfIs
  <2>6. IdxOf(synced, r) = i
    BY <1>3, <1>9, <2>1, <2>5
  <2>7. i \in KeptIdx
    BY <1>2, <2>1, <2>2, <2>6
  <2>8. synced[i].id = tenant[i].id /\ synced[i] \in Tenants /\ tenant[i] \in Tenants
    BY <1>4, <1>5, <1>9, <2>1, <2>3, <2>4
  <2>9. \A x, y \in Tenants : x.id = y.id => x = y
    <3>1. 1 .. MaxLives = {1}
      OBVIOUS
    <3> QED
      BY <3>1 DEF Tenants
  <2>10. synced[i] = tenant[i]
    BY <2>8, <2>9
  <2>11. adapter[i] = synced[i]
    BY <2>3, <2>4 DEF RunOnce, RunAdapters
  <2> QED
    BY <2>7, <2>10, <2>11
<1> HIDE DEF NewIdx, KeptIdx
<1>10. /\ adapter' = [i \in Idxs |-> IF i \in NewIdx THEN tenant[i] ELSE adapter[i]]
       /\ rank' = [i \in Idxs |-> IF i \in NewIdx THEN tenant[i]
                                  ELSE IF i \in KeptIdx THEN rank[i] ELSE NoRun]
       /\ synced' = tenant /\ phase' = "train"
  BY <1>1, <1>8
<1>11. \A i \in Idxs : tenant[i] # NoRun => adapter'[i] = tenant[i]
  BY <1>9, <1>10
<1>12. ASSUME NEW i \in Idxs PROVE rank'[i] = tenant[i]
  <2>1. CASE i \in NewIdx
    BY <1>10, <2>1
  <2>2. CASE i \notin NewIdx /\ tenant[i] # NoRun
    BY <1>2, <1>9, <1>10, <2>2
  <2>3. CASE i \notin NewIdx /\ tenant[i] = NoRun
    BY <1>7, <1>10, <2>3
  <2> QED
    BY <2>1, <2>2, <2>3
<1>13. tenant = [i \in Idxs |-> tenant[i]] /\ rank' = [i \in Idxs |-> rank'[i]]
  BY <1>10 DEF RunBase, RunShapes
<1>14. rank' = tenant
  BY <1>12, <1>13
<1> QED
  BY <1>10, <1>11, <1>14

\* RunOnce is preserved by the synchronisation of the ranks.
LEMMA OnceSync ==
    ASSUME MaxLives = 1, RunBase, RunOnce, Sync
    PROVE  RunOnce'
<1>1. /\ UNCHANGED <<dir, life, evicted, wrote, published, tenant, progress, received, buffers>>
      /\ UNCHANGED <<ready, packed, done>>
      /\ phase = "sync" /\ [RunsNext]_runsVars
  BY DEF Sync, disk, runs, RunsNext, Trainer
<1>2. /\ phase' = "train" /\ synced' = tenant /\ rank' = tenant
      /\ \A i \in Idxs : tenant[i] # NoRun => adapter'[i] = tenant[i]
  BY SyncMatches
<1>3. RunCounts'
  BY <1>1, <1>2, CountsKept DEF RunOnce
<1>4. RunAdapters'
  <2>1. \A i \in Idxs : tenant[i] # NoRun => Holds(tenant, tenant[i].id)'
    BY <1>1 DEF Holds
  <2>2. \A i, j \in Idxs : tenant[i] # NoRun /\ tenant[j] # NoRun /\ tenant[i].id = tenant[j].id => i = j
    BY DEF RunBase, RunIndices, UsedIdxs
  <2>3. \A i \in Idxs : tenant[i] # NoRun => Holds(tenant, synced[i].id)'
    BY <1>1, <1>2, <2>1 DEF Holds
  <2> QED
    BY <1>1, <1>2, <2>2, <2>3 DEF RunAdapters
<1>5. RunBatches'
  BY <1>1, <1>2, BatchesKept DEF RunOnce
<1> QED
  BY <1>3, <1>4, <1>5 DEF RunOnce

\* The runs whose step is complete.
Complete == {r \in Ids : \E i \in Idxs : ready[i] /\ tenant[i].id = r}

\* Every one of them has its next step trained.
LEMMA TrainGives ==
    ASSUME MaxLives = 1, RunBase, RunOnce, Train
    PROVE  /\ \A i \in UsedIdxs : ready[i] => done'[tenant[i].id] = progress[i] - 1
           /\ \A r \in Ids : done'[r] = IF r \in Complete THEN done[r] + 1 ELSE done[r]
           /\ done' = [r \in Ids |-> done'[r]]
<1>1. done' = [r \in Ids |-> IF \E i \in {j \in Idxs : ready[j]} : tenant[i].id = r
                              THEN progress[IdxOf(tenant, r)] - 1 ELSE done[r]]
  BY DEF Train
<1>2. ASSUME NEW i \in Idxs, ready[i]
      PROVE  /\ i \in UsedIdxs /\ tenant[i].id \in Ids
             /\ done'[tenant[i].id] = progress[i] - 1 /\ progress[i] = done[tenant[i].id] + 2
  <2>1. tenant[i] # NoRun /\ i \in UsedIdxs
    BY <1>2 DEF RunBase, RunIndices, UsedIdxs
  <2>2. tenant[i].id \in Ids /\ IdxOf(tenant, tenant[i].id) = i
    BY <2>1, OneLife, IdxOfTenant
  <2>3. Ahead(i) = 2
    BY <1>2 DEF Ahead, Train
  <2>4. progress[i] = done[tenant[i].id] + 2
    BY <2>1, <2>3 DEF RunOnce, RunCounts
  <2> QED
    BY <1>1, <1>2, <2>1, <2>2, <2>4
<1>3. ASSUME NEW r \in Ids, r \in Complete PROVE done'[r] = done[r] + 1
  <2>1. PICK i \in Idxs : ready[i] /\ tenant[i].id = r
    BY <1>3 DEF Complete
  <2>2. PICK n \in Nat : n = done[r]
    BY DEF RunBase, RunShapes
  <2>3. done'[r] = n + 2 - 1
    BY <1>2, <2>1, <2>2
  <2>4. n + 2 - 1 = n + 1
    OBVIOUS
  <2> QED
    BY <2>2, <2>3, <2>4
<1>4. ASSUME NEW r \in Ids, r \notin Complete PROVE done'[r] = done[r]
  BY <1>1, <1>4 DEF Complete
<1>5. done' = [r \in Ids |-> done'[r]]
  BY <1>1
<1>6. \A i \in UsedIdxs : i \in Idxs
  BY DEF UsedIdxs
<1> QED
  BY <1>2, <1>3, <1>4, <1>5, <1>6

\* RunOnce is preserved by the optimizer step.
LEMMA OnceTrain ==
    ASSUME MaxLives = 1, RunBase, RunOnce, Train
    PROVE  RunOnce'
<1>1. /\ UNCHANGED <<dir, life, evicted, wrote, published, tenant, progress, received, buffers>>
      /\ UNCHANGED <<ready, synced, rank, adapter>>
      /\ phase = "train" /\ phase' = "broadcast" /\ packed' = << >> /\ [RunsNext]_runsVars
  BY DEF Train, disk, runs, ranks, RunsNext, Trainer
<1>2. UsedIdxs' = UsedIdxs
  BY <1>1 DEF UsedIdxs
<1>3. \A i \in UsedIdxs : i \in Idxs /\ tenant[i] # NoRun /\ tenant[i].id \in Ids
  BY OneLife DEF UsedIdxs
<1>4. RunCounts'
  <2>1. ASSUME NEW r \in Ids, done'[r] # 0 PROVE Holds(tenant, r)' \/ IsOver(r)'
    <3>1. CASE r \in Complete
      <4>1. PICK i \in Idxs : ready[i] /\ tenant[i].id = r
        BY <3>1 DEF Complete
      <4>2. tenant[i] # NoRun
        BY <4>1 DEF RunBase, RunIndices
      <4> QED
        BY <1>1, <4>1, <4>2 DEF Holds
    <3>2. CASE r \notin Complete
      <4>1. done[r] # 0
        BY <2>1, <3>2, TrainGives
      <4> QED
        BY <1>1, <4>1 DEF RunOnce, RunCounts, Holds, IsOver
    <3> QED
      BY <3>1, <3>2
  <2>2. ASSUME NEW i \in UsedIdxs PROVE progress[i] = done'[tenant[i].id] + 1
    <3>1. progress[i] \in Nat \ {0} /\ done[tenant[i].id] \in Nat
      BY <1>3 DEF RunBase, RunShapes
    <3>2. CASE ready[i]
      <4>1. done'[tenant[i].id] = progress[i] - 1
        BY <3>2, TrainGives
      <4>2. PICK n \in Nat : n = progress[i]
        BY <3>1
      <4>3. n = n - 1 + 1
        OBVIOUS
      <4> QED
        BY <4>1, <4>2, <4>3
    <3>3. CASE ~ready[i]
      <4>1. tenant[i].id \notin Complete
        <5>1. ASSUME NEW j \in Idxs, ready[j], tenant[j].id = tenant[i].id PROVE FALSE
          <6>1. tenant[j] # NoRun
            BY <5>1 DEF RunBase, RunIndices
          <6>2. i = j
            BY <1>3, <5>1, <6>1, IdxOfTenant
          <6> QED
            BY <3>3, <5>1, <6>2
        <5> QED
          BY <5>1 DEF Complete
      <4>2. done'[tenant[i].id] = done[tenant[i].id]
        BY <1>3, <4>1, TrainGives
      <4>3. Ahead(i) = 1
        BY <3>3 DEF Ahead
      <4> QED
        BY <4>2, <4>3 DEF RunOnce, RunCounts
    <3> QED
      BY <3>2, <3>3
  <2>3. \A i \in UsedIdxs : Ahead(i)' = 1
    BY <1>1 DEF Ahead
  <2>4. \A i \in UsedIdxs : progress'[i] = done'[tenant'[i].id] + Ahead(i)'
    BY <1>1, <2>2, <2>3
  <2>5. \A r \in Ids : life'[r] = 0 => published'[r] = 0
    BY <1>1 DEF RunOnce, RunCounts
  <2> QED
    BY <1>2, <2>1, <2>4, <2>5 DEF RunCounts
<1>5. RunAdapters'
  BY <1>1, AdaptersKept DEF RunOnce
<1>6. RunBatches'
  BY <1>1, BatchesKept DEF RunOnce
<1> QED
  BY <1>4, <1>5, <1>6 DEF RunOnce

\* RunOnce is preserved by the broadcast.
LEMMA OnceBroadcast ==
    ASSUME MaxLives = 1, RunBase, RunOnce, Broadcast
    PROVE  RunOnce'
<1>1. /\ UNCHANGED <<life, wrote, tenant, progress, received, buffers>>
      /\ UNCHANGED <<packed, synced, rank, adapter, done>>
      /\ phase = "broadcast" /\ phase' = "discover" /\ ready' = [i \in Idxs |-> FALSE]
      /\ published' = [r \in Ids |-> IF r \in Announced /\ dir[r] = "live"
                                     THEN progress[IdxOf(tenant, r)] - 1 ELSE published[r]]
      /\ dir' = [r \in Ids |-> IF r \in Announced /\ dir[r] = "bare" THEN "absent" ELSE dir[r]]
      /\ evicted' = [r \in Ids |-> evicted[r] /\ ~(r \in Announced /\ dir[r] = "bare")]
      /\ [RunsNext]_runsVars
  BY BroadcastGives DEF RunsNext, Trainer
<1>2. UsedIdxs' = UsedIdxs
  BY <1>1 DEF UsedIdxs
<1>3. RunCounts'
  <2>1. ASSUME NEW r \in Ids, done[r] # 0 PROVE Holds(tenant, r)' \/ IsOver(r)'
    <3>1. Holds(tenant, r)' <=> Holds(tenant, r)
      BY <1>1 DEF Holds
    <3> QED
      BY <1>1, <2>1, <3>1, OverStays DEF RunOnce, RunCounts
  <2>2. ASSUME NEW r \in Ids, life[r] = 0 PROVE published'[r] = 0
    <3>1. r \notin Announced
      BY <2>2, OneLife DEF Announced
    <3> QED
      BY <1>1, <2>2, <3>1 DEF RunOnce, RunCounts
  <2>3. \A i \in UsedIdxs : i \in Idxs /\ Ahead(i) = 1 /\ Ahead(i)' = 1
    BY <1>1 DEF Ahead, UsedIdxs
  <2>4. \A i \in UsedIdxs : progress'[i] = done'[tenant'[i].id] + Ahead(i)'
    BY <1>1, <2>3 DEF RunOnce, RunCounts
  <2> QED
    BY <1>1, <1>2, <2>1, <2>2, <2>4 DEF RunCounts
<1>4. RunAdapters'
  BY <1>1, AdaptersKept DEF RunOnce
<1>5. RunBatches'
  <2>1. \A r \in Ids : (dir'[r] # "live" => dir[r] # "live") /\ (evicted'[r] => evicted[r])
    BY <1>1
  <2> QED
    BY <1>1, <2>1, BatchesKept DEF RunOnce
<1> QED
  BY <1>3, <1>4, <1>5 DEF RunOnce

\* RunOnce is preserved by every step.
LEMMA OnceStep ==
    ASSUME MaxLives = 1
    PROVE  RunBase /\ RunOnce /\ [RunsNext]_runsVars => RunOnce'
<1> SUFFICES ASSUME RunBase, RunOnce, [RunsNext]_runsVars PROVE RunOnce'
  OBVIOUS
<1>1. CASE Trainer
  BY <1>1, OnceDiscover, OnceReceive, OnceBuffer, OncePack, OnceWait, OnceSync, OnceTrain,
     OnceBroadcast DEF Trainer
<1>2. CASE UNCHANGED runsVars
  <2>1. UNCHANGED <<dir, life, evicted, wrote, published, tenant, progress, received, buffers, ready,
                    position, slept, inbox, packed, synced, rank, adapter, done, phase>>
    BY <1>2 DEF runsVars, disk, runs, turn, ranks
  <2>2. RunCounts'
    BY <2>1 DEF RunOnce, RunCounts, UsedIdxs, Ahead, Holds, IsOver
  <2>3. RunAdapters'
    BY <2>1 DEF RunOnce, RunAdapters, Holds, IsOver
  <2>4. RunBatches'
    BY <2>1 DEF RunOnce, RunBatches, UsedIdxs, IsOver, InOrderOnDisk
  <2> QED
    BY <2>2, <2>3, <2>4 DEF RunOnce
<1> QED
  BY <1>1, <1>2, OnceEnvironment DEF RunsNext

\* The strengthening holds when no name of a run directory is used twice.
THEOREM RunsOnce ==
    ASSUME MaxLives = 1
    PROVE  RunsSpec => []RunOnce
<1>1. RunsInit => RunOnce
  BY OnceInit
<1>2. RunBase /\ RunOnce /\ [RunsNext]_runsVars => RunOnce'
  BY OnceStep
<1> QED
  BY <1>1, <1>2, RunsBase, PTL DEF RunsSpec

\* Ranks and adapters match the master's runs when a step is trained.
THEOREM RunsAdapters ==
    ASSUME MaxLives = 1
    PROVE  RunsSpec => []AdaptersMatchRuns
<1>1. RunBase /\ RunOnce => AdaptersMatchRuns
  <2> SUFFICES ASSUME RunBase, RunOnce, phase \in {"train", "broadcast"}, NEW i \in Idxs
               PROVE  /\ (rank[i] = NoRun) <=> (tenant[i] = NoRun)
                      /\ tenant[i] # NoRun => rank[i].id = tenant[i].id /\ adapter[i] = tenant[i]
    BY DEF AdaptersMatchRuns
  <2>1. rank = tenant /\ synced = tenant
    BY DEF RunOnce, RunAdapters
  <2>2. tenant[i] # NoRun => adapter[i] = tenant[i]
    BY <2>1 DEF RunOnce, RunAdapters
  <2> QED
    BY <2>1, <2>2
<1>2. RunsSpec => []RunOnce
  BY RunsOnce
<1> QED
  BY <1>1, <1>2, RunsBase, PTL

\* What is packed is sound.
THEOREM RunsStepsSound ==
    ASSUME MaxLives = 1
    PROVE  RunsSpec => []StepsAreSound
<1>1. RunBase /\ RunOnce => StepsAreSound
  <2> SUFFICES ASSUME RunBase, RunOnce PROVE StepsAreSound
    OBVIOUS
  <2>1. PICK n \in Nat : n = Len(packed) /\ DOMAIN packed = 1 .. n
    BY LenProperties DEF RunBase, RunShapes
  <2>2. ASSUME NEW k \in 1 .. n
        PROVE  /\ tenant[packed[k].idx] # NoRun
               /\ wrote[tenant[packed[k].idx].id] # <<>> =>
                     \A len \in Range(wrote[tenant[packed[k].idx].id][packed[k].step]) : Valid(len)
    <3>1. packed[k] \in Turns
      BY <2>1 DEF RunBase, RunShapes
    <3>2. PICK i \in Idxs : i = packed[k].idx
      BY <3>1 DEF Turns
    <3>3. tenant[i] # NoRun /\ i \in UsedIdxs
      BY <2>1, <3>2 DEF RunBase, RunPacks, UsedIdxs
    <3>4. PICK r \in Ids : r = tenant[i].id /\ life[r] = 1
      BY <3>3, OneLife
    <3>5. phase # "rediscover"
      <4>1. phase \in {"sync", "train", "crashed"} \/ packed = << >>
        BY DEF RunBase, RunPacks
      <4>2. packed = << >> => Len(packed) = 0
        OBVIOUS
      <4> QED
        BY <2>1, <2>2, <4>1, <4>2
    <3>6. ~evicted[r] /\ (dir[r] = "absent" => wrote[r] = << >>)
      BY <3>3, <3>4, <3>5 DEF RunOnce, RunBatches
    <3>7. ASSUME wrote[r] # << >> PROVE InOrderOnDisk(r, packed[k].step)
      <4>1. ~IsOver(r)
        BY <3>6, <3>7 DEF IsOver
      <4> QED
        BY <2>1, <3>2, <3>3, <3>4, <4>1 DEF RunOnce, RunBatches
    <3> QED
      BY <3>2, <3>3, <3>4, <3>7 DEF InOrderOnDisk
  <2>3. ASSUME phase \in {"sync", "train"}
        PROVE  packed # <<>> /\ SumOf(Lens(packed)) <= Budget
    <3>1. Len(packed) >= 1 /\ SumOf(Lens(packed)) <= Budget
      BY <2>3 DEF RunBase, RunPacks
    <3>2. packed = << >> => Len(packed) = 0
      OBVIOUS
    <3> QED
      BY <3>1, <3>2
  <2>4. \A j, k \in 1 .. n : packed[j].idx = packed[k].idx => packed[j].step = packed[k].step
    BY <2>1 DEF RunBase, RunPacks
  <2> QED
    BY <2>1, <2>2, <2>3, <2>4 DEF StepsAreSound
<1>2. RunsSpec => []RunOnce
  BY RunsOnce
<1> QED
  BY <1>1, <1>2, RunsBase, PTL

\* The trainer keeps each run's ledger.
THEOREM RunsKeepLedger ==
    ASSUME MaxLives = 1
    PROVE  RunsSpec => LedgerSpec
<1>1. RunBase /\ RunOnce /\ [RunsNext]_runsVars => [Ledger!Next]_(Ledger!vars)
  <2> SUFFICES ASSUME RunBase, RunOnce, [RunsNext]_runsVars
               PROVE  Ledger!Next \/ UNCHANGED <<done, published>>
    BY DEF Ledger!vars
  <2>1. done = [r \in Ids |-> done[r]] /\ published = [r \in Ids |-> published[r]]
    BY DEF RunBase, RunShapes
  <2>2. CASE Environment
    <3>1. done' = done
      BY <2>2 DEF Environment
    <3>2. PICK x \in Ids : \/ NewDir(x) \/ WriteConfig(x) \/ RemoveDir(x)
                          \/ \E b \in Batches : WriteBatch(x, b)
      BY <2>2 DEF Environment
    <3>3. CASE NewDir(x)
      <4>1. life[x] = 0
        BY <3>3, OneLife DEF NewDir
      <4>2. published[x] = 0 /\ published' = [published EXCEPT ![x] = 0]
        BY <3>3, <4>1 DEF NewDir, RunOnce, RunCounts
      <4>3. published' = published
        BY <2>1, <4>2
      <4> QED
        BY <3>1, <4>3
    <3>4. CASE WriteConfig(x) \/ RemoveDir(x) \/ \E b \in Batches : WriteBatch(x, b)
      BY <3>1, <3>4 DEF WriteConfig, RemoveDir, WriteBatch
    <3> QED
      BY <3>2, <3>3, <3>4
  <2>3. CASE Train
    <3>1. published' = published
      BY <2>3 DEF Train, disk
    <3>2. /\ done' = [r \in Ids |-> done'[r]]
          /\ \A r \in Ids : done'[r] = IF r \in Complete THEN done[r] + 1 ELSE done[r]
      BY <2>3, TrainGives
    <3>3. done' = [r \in Ids |-> IF r \in Complete THEN done[r] + 1 ELSE done[r]]
      BY <3>2
    <3>4. CASE Complete = {}
      <4>1. done' = done
        BY <2>1, <3>3, <3>4
      <4> QED
        BY <3>1, <4>1
    <3>5. CASE Complete # {}
      <4>1. Complete \in (SUBSET Ids) \ {{}}
        BY <3>5 DEF Complete
      <4>2. Ledger!Train(Complete)
        BY <3>1, <3>3 DEF Ledger!Train
      <4> QED
        BY <4>1, <4>2 DEF Ledger!Next
    <3> QED
      BY <3>4, <3>5
  <2>4. CASE Broadcast
    <3> DEFINE R == {r \in Announced : dir[r] = "live"}
    <3>1. done' = done /\ published' = [r \in Ids |-> IF r \in Announced /\ dir[r] = "live"
                                     THEN progress[IdxOf(tenant, r)] - 1 ELSE published[r]]
      BY <2>4, BroadcastGives
    <3>2. ASSUME NEW r \in Announced PROVE r \in Ids /\ progress[IdxOf(tenant, r)] - 1 = done[r]
      <4>1. PICK i \in UsedIdxs : tenant[i].id = r /\ r \in Ids /\ i \in Idxs /\ tenant[i] # NoRun
        BY DEF Announced, UsedIdxs
      <4>2. IdxOf(tenant, r) = i
        BY <4>1, IdxOfTenant
      <4>3. PICK n \in Nat : n = done[r]
        BY <4>1 DEF RunBase, RunShapes
      <4>4. progress[i] = n + 1
        BY <2>4, <4>1, <4>3 DEF RunOnce, RunCounts, Ahead, Broadcast
      <4>5. n + 1 - 1 = n
        OBVIOUS
      <4> QED
        BY <4>1, <4>2, <4>3, <4>4, <4>5
    <3>3. published' = [r \in Ids |-> IF r \in R THEN done[r] ELSE published[r]]
      BY <3>1, <3>2
    <3>4. R \subseteq Ids
      BY <3>2
    <3> HIDE DEF R
    <3>5. CASE R = {}
      <4>1. published' = published
        BY <2>1, <3>3, <3>5
      <4> QED
        BY <3>1, <4>1
    <3>6. CASE R # {}
      <4>1. R \in (SUBSET Ids) \ {{}}
        BY <3>4, <3>6
      <4>2. Ledger!Publish(R)
        BY <3>1, <3>3 DEF Ledger!Publish
      <4> QED
        BY <4>1, <4>2 DEF Ledger!Next
    <3> QED
      BY <3>5, <3>6
  <2>5. CASE Discover \/ Receive \/ Buffer \/ Pack \/ WaitForTokens \/ Sync \/ UNCHANGED runsVars
    BY <2>5 DEF Discover, Receive, Buffer, Pack, WaitForTokens, Sync, runsVars, disk
  <2> QED
    BY <2>2, <2>3, <2>4, <2>5 DEF RunsNext, Trainer
<1>2. RunsSpec => []RunOnce
  BY RunsOnce
<1> QED
  BY <1>1, <1>2, RunsBase, PTL DEF RunsSpec, LedgerSpec

-----------------------------------------------------------------------------
(***************************************************************************)
(* What is trained is a whole batch (UpdatesAreWhole), when no name is     *)
(* used twice.  The tokens of a step that was received are in the index's  *)
(* buffer, then in the step that is packed, then in its gradients.         *)
(* RunSums says that their number stays that of the batch until the        *)
(* optimizer uses the gradients, and that nothing is left over by then.    *)
(***************************************************************************)

\* No index has two turns.
LEMMA TurnsDiffer ==
    ASSUME position \in Idxs, NEW h \in 1 .. MaxRuns, NEW k \in 1 .. MaxRuns, Turn(h) = Turn(k)
    PROVE  h = k
<1>1. PICK n \in Nat, p \in Nat : n = MaxRuns /\ p = position /\ n >= 1 /\ p <= n - 1
  BY RunSettings DEF Idxs
<1>2. \A a \in 0 .. n - 1 : a % n = a /\ (a + n) % n = a
  BY <1>1
<1>3. ASSUME NEW x \in 1 .. n
      PROVE  \/ (p + x - 1) % n = p + x - 1 /\ p + x - 1 <= n - 1
             \/ (p + x - 1) % n = p + x - 1 - n /\ p + x - 1 >= n
  <2>1. CASE p + x - 1 <= n - 1
    <3>1. p + x - 1 \in 0 .. n - 1
      BY <1>1, <2>1
    <3> QED
      BY <1>2, <2>1, <3>1
  <2>2. CASE ~(p + x - 1 <= n - 1)
    <3>1. p + x - 1 - n \in 0 .. n - 1 /\ (p + x - 1 - n) + n = p + x - 1 /\ p + x - 1 >= n
      BY <1>1, <2>2
    <3> QED
      BY <1>2, <3>1
  <2> QED
    BY <2>1, <2>2
<1>4. PICK x \in 1 .. n, y \in 1 .. n : x = h /\ y = k
  BY <1>1
<1>5. (p + x - 1) % n = (p + y - 1) % n
  BY <1>1, <1>4 DEF Turn
<1>6. \/ (p + x - 1) % n = p + x - 1 /\ p + x - 1 <= n - 1
      \/ (p + x - 1) % n = p + x - 1 - n /\ p + x - 1 >= n
  BY <1>3
<1>7. \/ (p + y - 1) % n = p + y - 1 /\ p + y - 1 <= n - 1
      \/ (p + y - 1) % n = p + y - 1 - n /\ p + y - 1 >= n
  BY <1>3
<1> HIDE DEF Turn
<1>8. PICK z : z = (p + x - 1) % n /\ z = (p + y - 1) % n
  BY <1>5
<1>9. x = y
  <2>1. \/ z = p + x - 1 /\ p + x - 1 <= n - 1
        \/ z = p + x - 1 - n /\ p + x - 1 >= n
    BY <1>6, <1>8
  <2>2. \/ z = p + y - 1 /\ p + y - 1 <= n - 1
        \/ z = p + y - 1 - n /\ p + y - 1 >= n
    BY <1>7, <1>8
  <2> QED
    BY <1>1, <2>1, <2>2
<1> QED
  BY <1>4, <1>9

\* Where the samples of an index lie in the queue of the round robin.
LEMMA PlaceInTurn ==
    ASSUME buffers \in [Idxs -> Seq(Good)], progress \in [Idxs -> Nat], position \in Idxs, NEW i \in Idxs
    PROVE  \E o \in Nat, m \in 0 .. Len(buffers[i]) :
              /\ o + m <= Len(InTurn) /\ \A j \in 1 .. m : InTurn[o + j] = At(i, buffers[i][j])
              /\ \A x \in 1 .. Len(InTurn) : InTurn[x].idx = i <=> x \in (o + 1) .. (o + m)
<1> DEFINE parts == [k \in 1 .. MaxRuns |-> Turned(Turn(k))]
<1>1. InTurn = FlattenSeq(parts)
  BY DEF InTurn, Turned, Turn
<1>2. ASSUME NEW h \in Idxs
      PROVE  \E m \in 0 .. Len(buffers[h]) :
                /\ Len(Turned(h)) = m /\ Turned(h) \in Seq({At(h, g) : g \in Good})
                /\ \A j \in 1 .. m : Turned(h)[j] = At(h, buffers[h][j])
  <2>1. PICK b \in Seq(Good), n \in Nat : b = buffers[h] /\ n = Len(b)
    BY LenProperties
  <2>2. progress[h] \in Nat
    OBVIOUS
  <2>3. /\ Len(Eligible(h)) \in 0 .. n
        /\ \A k \in 1 .. Len(Eligible(h)) : Eligible(h)[k] = b[k] /\ b[k].step <= progress[h]
    BY <2>1, <2>2, EligibleIs
  <2>4. PICK m \in Nat : m = Len(Eligible(h)) /\ m <= n /\ \A k \in 1 .. m : Eligible(h)[k] = b[k]
    <3>1. PICK m : m = Len(Eligible(h))
      OBVIOUS
    <3>2. m \in 0 .. n
      BY <2>3, <3>1
    <3>3. m \in Nat /\ m <= n
      BY <3>2
    <3>4. \A k \in 1 .. m : Eligible(h)[k] = b[k]
      BY <2>3, <3>1
    <3> QED
      BY <3>1, <3>3, <3>4, Zenon
  <2>5. Turned(h) = [j \in 1 .. m |-> At(h, Eligible(h)[j])]
    BY <2>4 DEF Turned
  <2>6. \A j \in 1 .. m : b[j] \in Good /\ Turned(h)[j] = At(h, b[j])
    BY <2>1, <2>4, <2>5
  <2>7. \A j \in 1 .. m : Turned(h)[j] \in {At(h, g) : g \in Good}
    BY <2>6
  <2>8. Turned(h) \in Seq({At(h, g) : g \in Good}) /\ Len(Turned(h)) = m
    BY <2>5, <2>7
  <2>9. m \in 0 .. Len(buffers[h])
    BY <2>1, <2>4
  <2>10. \A j \in 1 .. m : Turned(h)[j] = At(h, buffers[h][j])
    BY <2>1, <2>6
  <2> QED
    BY <2>8, <2>9, <2>10
<1>3. PICK N \in Nat : N = MaxRuns /\ N >= 1
  BY RunSettings
<1> DEFINE E == {At(h, g) : h \in Idxs, g \in Good}
<1>4. \A k \in 1 .. N : Turned(Turn(k)) \in Seq(E)
  <2> TAKE k \in 1 .. N
  <2>1. Turn(k) \in Idxs
    BY <1>3, EveryTurn
  <2>2. Turned(Turn(k)) \in Seq({At(Turn(k), g) : g \in Good})
    BY <1>2, <2>1
  <2>3. {At(Turn(k), g) : g \in Good} \subseteq E
    BY <2>1
  <2>4. PICK S : S = {At(Turn(k), g) : g \in Good}
    OBVIOUS
  <2> HIDE DEF E
  <2>5. Turned(Turn(k)) \in Seq(S) /\ S \subseteq E
    BY <2>2, <2>3, <2>4
  <2> QED
    BY <2>5
<1> HIDE DEF E
<1>5. parts \in Seq(Seq(E)) /\ Len(parts) = N /\ \A k \in 1 .. N : parts[k] = Turned(Turn(k))
  BY <1>3, <1>4
<1> HIDE DEF parts
<1>6. PICK t \in 1 .. N : Turn(t) = i
  BY <1>3, EveryTurn
<1>7. N \in Nat \ {0}
  BY <1>3
<1>8. PICK o \in Nat : Block(InTurn, parts[t], o, parts, N, t)
  BY <1>1, <1>5, <1>6, <1>7, FlattenedBlock
<1>9. PICK m \in 0 .. Len(buffers[i]) : Len(parts[t]) = m /\ \A j \in 1 .. m : parts[t][j] = At(i, buffers[i][j])
  <2>1. parts[t] = Turned(i)
    BY <1>5, <1>6
  <2> QED
    BY <1>2, <2>1
<1>10. o + m <= Len(InTurn) /\ \A j \in 1 .. m : InTurn[o + j] = At(i, buffers[i][j])
  BY <1>8, <1>9 DEF Block
<1>11. \A x \in 1 .. Len(InTurn) : x \in (o + 1) .. (o + m) \/ Foreign(InTurn[x], parts, N, t)
  BY <1>8, <1>9 DEF Block
<1>12. ASSUME NEW v, Foreign(v, parts, N, t) PROVE v.idx # i
  <2>1. PICK h \in 1 .. N : h # t /\ v \in Range(parts[h])
    BY <1>12 DEF Foreign
  <2>2. Turn(h) \in Idxs /\ Turn(h) # i
    BY <1>3, <1>6, <2>1, EveryTurn, TurnsDiffer
  <2>3. parts[h] \in Seq({At(Turn(h), g) : g \in Good})
    BY <1>2, <1>5, <2>2
  <2>4. v \in {At(Turn(h), g) : g \in Good}
    BY <2>1, <2>3, RangeCounts
  <2>5. \A g : At(Turn(h), g).idx = Turn(h)
    BY DEF At
  <2> QED
    BY <2>2, <2>4, <2>5
<1>13. ASSUME NEW x \in 1 .. Len(InTurn) PROVE InTurn[x].idx = i <=> x \in (o + 1) .. (o + m)
  <2>1. CASE x \in (o + 1) .. (o + m)
    <3>1. x - o \in 1 .. m /\ o + (x - o) = x
      BY <1>9, <2>1
    <3>2. InTurn[x] = At(i, buffers[i][x - o])
      BY <1>10, <3>1
    <3> QED
      BY <2>1, <3>2 DEF At
  <2>2. CASE x \notin (o + 1) .. (o + m)
    BY <1>11, <1>12, <2>2
  <2> QED
    BY <2>1, <2>2
<1>14. \A x \in 1 .. Len(InTurn) : InTurn[x].idx = i <=> x \in (o + 1) .. (o + m)
  BY <1>13
<1>15. /\ o + m <= Len(InTurn) /\ \A j \in 1 .. m : InTurn[o + j] = At(i, buffers[i][j])
       /\ \A x \in 1 .. Len(InTurn) : InTurn[x].idx = i <=> x \in (o + 1) .. (o + m)
  BY <1>10, <1>14, Zenon
<1> QED
  BY <1>9, <1>15, Zenon

\* What is selected is a prefix of the queue.
LEMMA SelectedFirst ==
    ASSUME NEW E \in SUBSET Turns, NEW n \in Nat \ {0}, NEW q \in Seq(E), Len(q) = n,
           NEW sel, sel = Selection(q)
    PROVE  \E p \in 1 .. n :
              /\ sel.taken = SubSeq(q, 1, p)
              /\ \A i \in Idxs : sel.popped[i] = Cardinality({k \in 1 .. p : q[k].idx = i})
<1>1. PICK p \in 1 .. n : Cuts(q, sel, p)
  BY Selected
<1> QED
  BY <1>1 DEF Cuts

\* A pack takes the first samples of a buffer, and they go out one after the other.
LEMMA PackTakes ==
    ASSUME RunBase, Pack, NEW i \in Idxs
    PROVE  \E o \in Nat, c \in 0 .. Len(buffers[i]) :
              /\ buffers'[i] = RestOf(buffers[i], c)
              /\ {k \in 1 .. Len(packed') : packed'[k].idx = i} = (o + 1) .. (o + c)
              /\ \A j \in 1 .. c : packed'[o + j] = At(i, buffers[i][j])
<1>1. PICK sel :
         /\ sel = Selection(InTurn) /\ packed' = sel.taken
         /\ buffers' = [h \in Idxs |-> RestOf(buffers[h], sel.popped[h])]
  BY DEF Pack, RestOf
<1>2. buffers \in [Idxs -> Seq(Good)] /\ progress \in [Idxs -> Nat] /\ position \in Idxs
  BY DEF RunBase, RunShapes
<1>3. InTurn \in Seq(Waiting) /\ \A h \in Idxs : Len(Eligible(h)) <= Len(InTurn)
  BY <1>2, InTurnIs
<1>4. PICK n \in Nat : n = Len(InTurn)
  BY <1>3, LenProperties
<1>5. n # 0
  <2>1. PICK h \in Idxs : Len(Eligible(h)) > 0
    BY <1>2, TokensWait DEF Pack
  <2>2. Len(Eligible(h)) <= n
    BY <1>3, <1>4
  <2>3. buffers[h] \in Seq(Good) /\ progress[h] \in Nat /\ Len(buffers[h]) \in Nat
    BY <1>2, LenProperties
  <2>4. Eligible(h) \in Seq(Good)
    BY <2>3, EligibleIs
  <2>5. Len(Eligible(h)) \in Nat
    BY <2>4, LenProperties
  <2> QED
    BY <2>1, <2>2, <2>5
<1>6. Waiting \in SUBSET Turns
  BY DEF Waiting
<1>7. PICK p \in 1 .. n :
         /\ sel.taken = SubSeq(InTurn, 1, p)
         /\ \A h \in Idxs : sel.popped[h] = Cardinality({k \in 1 .. p : InTurn[k].idx = h})
  <2>1. n \in Nat \ {0} /\ InTurn \in Seq(Waiting) /\ Len(InTurn) = n /\ sel = Selection(InTurn)
    BY <1>1, <1>3, <1>4, <1>5
  <2>2. \E p \in 1 .. n :
           /\ sel.taken = SubSeq(InTurn, 1, p)
           /\ \A h \in Idxs : sel.popped[h] = Cardinality({k \in 1 .. p : InTurn[k].idx = h})
    BY <1>6, <2>1, SelectedFirst
  <2> QED
    BY <2>2
<1>8. PICK o \in Nat, m \in 0 .. Len(buffers[i]) :
              /\ o + m <= n /\ \A j \in 1 .. m : InTurn[o + j] = At(i, buffers[i][j])
              /\ \A x \in 1 .. n : InTurn[x].idx = i <=> x \in (o + 1) .. (o + m)
  BY <1>2, <1>4, PlaceInTurn
<1>9. packed' = SubSeq(InTurn, 1, p) /\ Len(packed') = p /\ \A k \in 1 .. p : packed'[k] = InTurn[k]
  BY <1>1, <1>3, <1>4, <1>7
<1>10. PICK l \in Nat : l = Len(buffers[i])
  BY <1>2, LenProperties
<1> DEFINE K == {k \in 1 .. p : InTurn[k].idx = i}
           c == IF p <= o THEN 0 ELSE IF p >= o + m THEN m ELSE p - o
<1>11. m \in Nat /\ c \in 0 .. m /\ \A j \in 1 .. c : o + j \in 1 .. p
  BY <1>7, <1>8, <1>10
<1>12. K = (o + 1) .. (o + c)
  <2>1. K = {x \in 1 .. p : x \in (o + 1) .. (o + m)}
    BY <1>7, <1>8
  <2>2. \A x \in Nat : x \in 1 .. p /\ x \in (o + 1) .. (o + m) <=> x \in (o + 1) .. (o + c)
    BY <1>7, <1>11
  <2> HIDE DEF c, K
  <2>3. \A x \in (o + 1) .. (o + c) : x \in Nat
    BY <1>11
  <2> QED
    BY <2>1, <2>2, <2>3
<1> HIDE DEF c
<1>13. Cardinality(K) = c
  <2>1. o + 1 \in Int /\ o + c \in Int
    BY <1>11
  <2>2. Cardinality((o + 1) .. (o + c)) = IF o + 1 > o + c THEN 0 ELSE (o + c) - (o + 1) + 1
    BY <2>1, FS_Interval
  <2>3. (o + 1 > o + c <=> c = 0) /\ (o + c) - (o + 1) + 1 = c
    BY <1>11
  <2> HIDE DEF K
  <2> QED
    BY <1>12, <2>2, <2>3
<1>14. buffers'[i] = RestOf(buffers[i], c)
  BY <1>1, <1>7, <1>13
<1>15. {k \in 1 .. Len(packed') : packed'[k].idx = i} = K
  BY <1>9
<1>16. \A j \in 1 .. c : packed'[o + j] = At(i, buffers[i][j])
  <2> TAKE j \in 1 .. c
  <2>1. j \in 1 .. m /\ o + j \in 1 .. p
    BY <1>11
  <2> QED
    BY <1>8, <1>9, <2>1
<1>17. c \in 0 .. Len(buffers[i])
  BY <1>8, <1>10, <1>11
<1> QED
  BY <1>12, <1>14, <1>15, <1>16, <1>17

\* Numbers that are shifted, each to one of the same weight.
Shifts(S, T, o, w, v) ==
    /\ S \in SUBSET Int /\ T \in SUBSET Int /\ IsFiniteSet(S) /\ o \in Int
    /\ \A x \in S : x + o \in T /\ w[x] \in Nat /\ v[x + o] = w[x]
    /\ \A y \in T : y - o \in S

\* A sum over shifted numbers.
LEMMA TotalShifted ==
    ASSUME NEW S, NEW T, NEW o, NEW w, NEW v, Shifts(S, T, o, w, v)
    PROVE  IsFiniteSet(T) /\ Total(v, T) = Total(w, S)
<1> USE DEF Shifts
<1> DEFINE f == [x \in S |-> x + o]
<1>1. \A x \in S : f[x] = x + o
  OBVIOUS
<1>2. \A x, y \in S : f[x] = f[y] => x = y
  OBVIOUS
<1>3. f \in [S -> T]
  OBVIOUS
<1>4. \A t \in T : \E x \in S : f[x] = t
  <2> TAKE t \in T
  <2>1. t - o \in S /\ f[t - o] = t
    OBVIOUS
  <2> QED
    BY <2>1
<1> HIDE DEF f
<1> HIDE DEF Shifts
<1>5. f \in Bijection(S, T)
  BY <1>2, <1>3, <1>4 DEF Bijection, Injection, Surjection, IsInjective
<1>6. \A x \in S : v[f[x]] = w[x]
  BY <1>1 DEF Shifts
<1>7. IsFiniteSet(S) /\ \A x \in S : w[x] \in Nat
  BY DEF Shifts
<1> QED
  BY <1>5, <1>6, <1>7, TotalRenamed

-----------------------------------------------------------------------------
(* The tokens of a step *)

\* Gradients that were scaled at least once.
Grads == [by : Tenants, step : Nat, tokens : Nat, times : Nat \ {0}]

\* The step of which index i has gradients.
Current(i) == IF ready[i] /\ phase \in {"sync", "train"} THEN progress[i] - 1 ELSE progress[i]

\* The tokens of step s of run t in the gradients gs.
Of(gs, t, s) == {g \in gs : g.by = t /\ g.step = s}
TokensIn(gs, t, s) == Total([g \in gs |-> g.tokens], Of(gs, t, s))

\* The tokens of step s of the run at index i that are accumulated, packed and buffered.
InGrads(i, s) == TokensIn(grad[i], tenant[i], s)
PackedAt(i, s) == {k \in 1 .. Len(packed) : packed[k].idx = i /\ packed[k].step = s}
InPack(i, s) == Total(Lens(packed), PackedAt(i, s))
StepAt(b, s) == {k \in 1 .. Len(b) : b[k].step = s}
InBuffer(i, s) == Total(Lens(buffers[i]), StepAt(buffers[i], s))
Arrives(i, s) == phase = "buffer" /\ \E m \in DOMAIN inbox : inbox[m].idx = i /\ inbox[m].step = s

\* What is not of the index's own run is of a run that is over.
RunOwners ==
    /\ \A i \in Idxs : IsFiniteSet(grad[i])
    /\ \A i \in Idxs : \A g \in grad[i] :
          g \in Grads /\ (IsOver(g.by.id) \/ (tenant[i] # NoRun /\ g.by = tenant[i]))
    /\ \A i \in UsedIdxs : \A k \in 1 .. Len(buffers[i]) : buffers[i][k].by = tenant[i]
    /\ \A k \in 1 .. Len(packed) : packed[k].by = tenant[packed[k].idx]
    /\ phase = "buffer" => \A m \in DOMAIN inbox : inbox[m].by = tenant[inbox[m].idx]

\* Gradients are of the current step of their run, which was received.
RunProgress ==
    /\ \A i \in Idxs : received[i] = 0 => progress[i] = 1
    /\ \A i \in UsedIdxs : \A g \in grad[i] :
          g.by = tenant[i] => g.step = Current(i) /\ Current(i) < received[i]
    /\ \A k \in 1 .. Len(packed) : packed[k].step < received[packed[k].idx]
    /\ \A i \in Idxs : ready[i] /\ phase \in {"sync", "train"} => Current(i) < received[i]
    /\ phase = "buffer" => \A m \in DOMAIN inbox :
          LET i == inbox[m].idx
          IN /\ received[i] = inbox[m].step + 1
             /\ \A k \in 1 .. Len(buffers[i]) : buffers[i][k].step < inbox[m].step
             /\ \A g \in grad[i] : g.by = tenant[i] => g.step < inbox[m].step

\* Of a batch that was received nothing is lost and nothing used twice.
RunTokens ==
    \A i \in UsedIdxs : ~IsOver(tenant[i].id) =>
        /\ received[i] <= Len(wrote[tenant[i].id]) + 1
        /\ \A s \in Current(i) .. received[i] - 1 : ~Arrives(i, s) =>
              InGrads(i, s) + InPack(i, s) + InBuffer(i, s) = SumOf(wrote[tenant[i].id][s])

\* The steps just taken used whole batches.
RunUpdates ==
    \A u \in updates :
        /\ phase = "broadcast" /\ u.idx \in UsedIdxs /\ u.by = tenant[u.idx]
        /\ u.grads \in SUBSET Grads /\ IsFiniteSet(u.grads)
        /\ ~IsOver(u.by.id) =>
              /\ u.step \in 1 .. Len(wrote[u.by.id])
              /\ Total([g \in u.grads |-> g.tokens], {g \in u.grads : g.by = u.by})
                   = SumOf(wrote[u.by.id][u.step])

RunSums == RunOwners /\ RunProgress /\ RunTokens /\ RunUpdates

-----------------------------------------------------------------------------
\* The tokens of a step in a sequence of samples.
LEMMA StepTokens ==
    ASSUME NEW S, \A x \in S : x.len \in Nat, NEW b \in Seq(S), NEW s
    PROVE  /\ IsFiniteSet(StepAt(b, s)) /\ StepAt(b, s) \in SUBSET Int
           /\ \A k \in 1 .. Len(b) : Lens(b)[k] = b[k].len /\ Lens(b)[k] \in Nat
           /\ Total(Lens(b), StepAt(b, s)) \in Nat
<1>1. PICK n \in Nat : n = Len(b) /\ DOMAIN b = 1 .. n
  BY LenProperties
<1>2. \A k \in 1 .. n : b[k] \in S
  BY <1>1
<1>3. \A k \in 1 .. n : Lens(b)[k] = b[k].len /\ Lens(b)[k] \in Nat
  BY <1>1, <1>2 DEF Lens
<1>4. IsFiniteSet(1 .. n)
  BY FS_Interval
<1>5. StepAt(b, s) \in SUBSET (1 .. n)
  BY <1>1 DEF StepAt
<1>6. IsFiniteSet(StepAt(b, s))
  BY <1>4, <1>5, FS_Subset
<1>7. \A k \in StepAt(b, s) : Lens(b)[k] \in Nat
  BY <1>3, <1>5
<1>8. Total(Lens(b), StepAt(b, s)) \in Nat
  BY <1>6, <1>7, PointsAreFinite
<1>9. StepAt(b, s) \in SUBSET Int
  BY <1>5
<1> QED
  BY <1>1, <1>3, <1>6, <1>8, <1>9

\* The first c samples of index i go out one after the other and the others stay.
Takes(q, i, n, b, c, o, r) ==
    /\ q \in Seq(Turns) /\ n \in Nat /\ b \in Seq(Good) /\ Len(b) = n /\ c \in 0 .. n /\ o \in Nat
    /\ {k \in 1 .. Len(q) : q[k].idx = i} = (o + 1) .. (o + c)
    /\ \A j \in 1 .. c : q[o + j] = At(i, b[j])
    /\ r = RestOf(b, c)
TakenAt(q, i, s) == {k \in 1 .. Len(q) : q[k].idx = i /\ q[k].step = s}

\* What a pack takes of a step leaves the buffer.
LEMMA PackMoves ==
    ASSUME NEW q, NEW i, NEW n, NEW b, NEW c, NEW o, NEW r, Takes(q, i, n, b, c, o, r), NEW s
    PROVE  /\ Total(Lens(q), TakenAt(q, i, s)) \in Nat
           /\ Total(Lens(q), TakenAt(q, i, s)) + Total(Lens(r), StepAt(r, s)) = Total(Lens(b), StepAt(b, s))
<1>1. /\ q \in Seq(Turns) /\ n \in Nat /\ b \in Seq(Good) /\ Len(b) = n /\ c \in 0 .. n /\ o \in Nat
      /\ {k \in 1 .. Len(q) : q[k].idx = i} = (o + 1) .. (o + c)
      /\ \A j \in 1 .. c : q[o + j] = At(i, b[j])
      /\ r = RestOf(b, c)
  BY DEF Takes
<1>0. PICK P : P = TakenAt(q, i, s) /\ P = {k \in 1 .. Len(q) : q[k].idx = i /\ q[k].step = s}
  BY DEF TakenAt
<1> USE <1>1, <1>0
<1>2. /\ r \in Seq(Good) /\ Len(r) = n - c /\ n - c \in Nat
      /\ \A j \in 1 .. n - c : j + c \in 1 .. n /\ r[j] = b[j + c]
  <2>1. r = SubSeq(b, c + 1, n)
    BY <1>1 DEF RestOf
  <2> QED
    BY <2>1, SMTT(30)
<1>3. \A x \in Good : x.len \in Nat
  BY DEF Good, Samples
<1>4. \A x \in Turns : x.len \in Nat
  BY RunSettings DEF Turns
<1>5. /\ IsFiniteSet(StepAt(b, s)) /\ StepAt(b, s) \in SUBSET Int
      /\ \A k \in 1 .. n : Lens(b)[k] = b[k].len /\ Lens(b)[k] \in Nat
  BY <1>3, StepTokens
<1>6. /\ IsFiniteSet(StepAt(r, s)) /\ StepAt(r, s) \in SUBSET Int
      /\ \A k \in 1 .. n - c : Lens(r)[k] = r[k].len /\ Lens(r)[k] \in Nat
      /\ Total(Lens(r), StepAt(r, s)) \in Nat
  BY <1>2, <1>3, StepTokens
<1>7. \A k \in 1 .. Len(q) : Lens(q)[k] = q[k].len /\ Lens(q)[k] \in Nat
  BY <1>4, StepTokens
<1> DEFINE B1 == {j \in 1 .. c : b[j].step = s}
           B2 == {j \in (c + 1) .. n : b[j].step = s}
<1>8. StepAt(b, s) = B1 \cup B2 /\ B1 \cap B2 = {}
  BY DEF StepAt
<1>9. IsFiniteSet(B1) /\ IsFiniteSet(B2) /\ B1 \in SUBSET (1 .. n) /\ B2 \in SUBSET (1 .. n)
  BY <1>5, <1>8, FS_Subset
<1>10. Total(Lens(b), StepAt(b, s)) = Total(Lens(b), B1) + Total(Lens(b), B2)
  <2>1. \A x \in B1 \cup B2 : Lens(b)[x] \in Nat
    BY <1>5, <1>9
  <2> HIDE DEF B1, B2
  <2>2. Total(Lens(b), B1 \cup B2) = Total(Lens(b), B1) + Total(Lens(b), B2)
    BY <1>8, <1>9, <2>1, TotalOfUnion
  <2> QED
    BY <1>8, <2>2
<1>11. Total(Lens(b), B2) = Total(Lens(r), StepAt(r, s))
  <2>1. ASSUME NEW x \in StepAt(r, s) PROVE x + c \in B2 /\ Lens(r)[x] \in Nat /\ Lens(b)[x + c] = Lens(r)[x]
    <3>1. x \in 1 .. n - c /\ r[x].step = s /\ r[x] = b[x + c] /\ x + c \in 1 .. n
      BY <1>2 DEF StepAt
    <3>2. x + c \in (c + 1) .. n
      BY <3>1
    <3> QED
      BY <1>5, <1>6, <3>1, <3>2
  <2>2. ASSUME NEW y \in B2 PROVE y - c \in StepAt(r, s)
    <3>1. y - c \in 1 .. n - c /\ (y - c) + c = y /\ b[y].step = s
      OBVIOUS
    <3>2. r[y - c] = b[y]
      BY <1>2, <3>1
    <3> QED
      BY <1>2, <3>1, <3>2 DEF StepAt
  <2>3. B2 \in SUBSET Int /\ c \in Int
    OBVIOUS
  <2> HIDE DEF B2
  <2>4. Shifts(StepAt(r, s), B2, c, Lens(r), Lens(b))
    BY <1>6, <2>1, <2>2, <2>3 DEF Shifts
  <2> QED
    BY <2>4, TotalShifted
<1>12. Total(Lens(q), P) = Total(Lens(b), B1) /\ Total(Lens(b), B1) \in Nat
  <2>1. P = {k \in (o + 1) .. (o + c) : q[k].step = s}
    OBVIOUS
  <2>2. ASSUME NEW x \in B1 PROVE x + o \in P /\ Lens(b)[x] \in Nat /\ Lens(q)[x + o] = Lens(b)[x]
    <3>1. x \in 1 .. c /\ x \in 1 .. n /\ x + o = o + x /\ b[x].step = s
      OBVIOUS
    <3>2. q[x + o] = At(i, b[x]) /\ x + o \in (o + 1) .. (o + c)
      BY <3>1
    <3>3. x + o \in 1 .. Len(q)
      BY <3>2
    <3>4. q[x + o].len = b[x].len /\ q[x + o].step = s
      BY <3>1, <3>2 DEF At
    <3> QED
      BY <1>5, <1>7, <2>1, <3>1, <3>2, <3>3, <3>4
  <2>3. ASSUME NEW y \in P PROVE y - o \in B1
    <3>1. y \in (o + 1) .. (o + c) /\ q[y].step = s
      BY <2>1
    <3>2. y - o \in 1 .. c /\ o + (y - o) = y
      BY <3>1
    <3>3. q[y] = At(i, b[y - o])
      BY <3>2
    <3> QED
      BY <3>1, <3>2, <3>3 DEF At
  <2>0. (o + 1) .. (o + c) \in SUBSET Int /\ 1 .. c \in SUBSET Int
    OBVIOUS
  <2>4. B1 \in SUBSET Int /\ o \in Int /\ P \in SUBSET Int /\ IsFiniteSet(B1)
    BY <1>9, <2>0, <2>1
  <2>5. Total(Lens(b), B1) \in Nat
    BY <1>9, <2>2, PointsAreFinite
  <2> HIDE DEF B1
  <2>6. Shifts(B1, P, o, Lens(b), Lens(q))
    BY <2>2, <2>3, <2>4 DEF Shifts
  <2> QED
    BY <2>5, <2>6, TotalShifted
<1> HIDE DEF B1, B2
<1> QED
  BY <1>0, <1>6, <1>10, <1>11, <1>12

\* The fold over the tokens of gradients is their sum.
LEMMA SumOfGrads ==
    ASSUME NEW D, IsFiniteSet(D), \A g \in D : g.tokens \in Nat
    PROVE  MapThenSumSet(LAMBDA g : g.tokens, D) = Total([g \in D |-> g.tokens], D)
<1> DEFINE w == [g \in D |-> g.tokens]
           A(f) == [s \in SUBSET D |-> IF s = {} THEN 0
                      ELSE (CHOOSE x \in s : TRUE).tokens + f[s \ {CHOOSE x \in s : TRUE}]]
           B(f) == [s \in SUBSET D |-> IF s = {} THEN 0
                      ELSE w[CHOOSE x \in s : TRUE] + f[s \ {CHOOSE x \in s : TRUE}]]
           Solves(f) == f = A(f)
<1>1. MapThenSumSet(LAMBDA g : g.tokens, D) = (CHOOSE f : Solves(f))[D]
  BY Zenon DEF MapThenSumSet, MapThenFoldSet
<1>2. \A f : Sums(f, w, D) <=> f = B(f)
  BY Zenon DEF Sums
<1>3. \A g \in D : w[g] = g.tokens /\ w[g] \in Nat
  OBVIOUS
<1> HIDE DEF w
<1>4. \A s \in SUBSET D : s # {} => w[CHOOSE x \in s : TRUE] = (CHOOSE x \in s : TRUE).tokens
  BY <1>3
<1>5. \A f : A(f) = B(f)
  BY <1>4
<1>6. \A f : Solves(f) <=> f = A(f)
  OBVIOUS
<1> HIDE DEF A, B, Solves
<1>7. \A f : Solves(f) <=> Sums(f, w, D)
  BY <1>2, <1>5, <1>6, Zenon
<1>8. Sums([s \in SUBSET D |-> Total(w, s)], w, D)
  BY <1>3, SumExists
<1>9. Sums(CHOOSE f : Solves(f), w, D)
  BY <1>7, <1>8
<1>10. MapThenSumSet(LAMBDA g : g.tokens, D) = Total(w, D)
  BY <1>1, <1>3, <1>9, SumIsTotal
<1> QED
  BY <1>10 DEF w

\* So is the one over packed samples.
LEMMA SumOfPacked ==
    ASSUME NEW D, IsFiniteSet(D), \A k \in D : packed[k].len \in Nat,
           NEW w, \A k \in D : w[k] = packed[k].len
    PROVE  MapThenSumSet(LAMBDA k : packed[k].len, D) = Total(w, D)
<1> DEFINE A(f) == [s \in SUBSET D |-> IF s = {} THEN 0
                      ELSE packed[CHOOSE x \in s : TRUE].len + f[s \ {CHOOSE x \in s : TRUE}]]
           B(f) == [s \in SUBSET D |-> IF s = {} THEN 0
                      ELSE w[CHOOSE x \in s : TRUE] + f[s \ {CHOOSE x \in s : TRUE}]]
           Solves(f) == f = A(f)
<1>1. MapThenSumSet(LAMBDA k : packed[k].len, D) = (CHOOSE f : Solves(f))[D]
  BY Zenon DEF MapThenSumSet, MapThenFoldSet
<1>2. \A f : Sums(f, w, D) <=> f = B(f)
  BY Zenon DEF Sums
<1>3. \A k \in D : w[k] \in Nat
  OBVIOUS
<1>4. \A s \in SUBSET D : s # {} => w[CHOOSE x \in s : TRUE] = packed[CHOOSE x \in s : TRUE].len
  OBVIOUS
<1>5. \A f : A(f) = B(f)
  BY <1>4
<1>6. \A f : Solves(f) <=> f = A(f)
  OBVIOUS
<1> HIDE DEF A, B, Solves
<1>7. \A f : Solves(f) <=> Sums(f, w, D)
  BY <1>2, <1>5, <1>6, Zenon
<1>8. Sums([s \in SUBSET D |-> Total(w, s)], w, D)
  BY <1>3, SumExists
<1>9. Sums(CHOOSE f : Solves(f), w, D)
  BY <1>7, <1>8
<1> QED
  BY <1>1, <1>3, <1>9, SumIsTotal

\* Gradients before and after they are scaled.
RawGrads == [by : Tenants, step : Nat, tokens : Nat, times : Nat]

\* The tokens of gradients are a number.
LEMMA TokensInIs ==
    ASSUME NEW gs \in SUBSET RawGrads, IsFiniteSet(gs), NEW t, NEW s
    PROVE  /\ IsFiniteSet(Of(gs, t, s)) /\ TokensIn(gs, t, s) \in Nat
           /\ \A g \in gs : [h \in gs |-> h.tokens][g] = g.tokens /\ g.tokens \in Nat
<1>1. \A g \in gs : [h \in gs |-> h.tokens][g] = g.tokens /\ g.tokens \in Nat
  BY DEF RawGrads
<1>2. Of(gs, t, s) \in SUBSET gs
  BY DEF Of
<1>3. IsFiniteSet(Of(gs, t, s))
  BY <1>2, FS_Subset
<1> QED
  BY <1>1, <1>2, <1>3, PointsAreFinite DEF TokensIn

\* Scaling changes no tokens.
LEMMA ScaledTokens ==
    ASSUME NEW gs \in SUBSET RawGrads, IsFiniteSet(gs)
    PROVE  /\ IsFiniteSet(Scaled(gs)) /\ Scaled(gs) \in SUBSET Grads
           /\ \A h \in Scaled(gs) : \E g \in gs : h.by = g.by /\ h.step = g.step
           /\ \A t, s : TokensIn(Scaled(gs), t, s) = TokensIn(gs, t, s)
<1> DEFINE up(g) == [g EXCEPT !.times = @ + 1]
<1>1. Scaled(gs) = {up(g) : g \in gs}
  BY DEF Scaled
<1>2. \A g \in RawGrads : /\ up(g) \in Grads /\ up(g).by = g.by /\ up(g).step = g.step
                          /\ up(g).tokens = g.tokens /\ up(g).times = g.times + 1
  BY DEF RawGrads, Grads
<1>3. \A g, h \in RawGrads : up(g) = up(h) => g = h
  <2> SUFFICES ASSUME NEW g \in RawGrads, NEW h \in RawGrads, up(g) = up(h) PROVE g = h
    OBVIOUS
  <2>1. g.by = h.by /\ g.step = h.step /\ g.tokens = h.tokens /\ g.times + 1 = h.times + 1
    BY <1>2
  <2>2. g.times \in Nat /\ h.times \in Nat
    BY DEF RawGrads
  <2>3. g.times = h.times
    BY <2>1, <2>2
  <2> QED
    BY <2>1, <2>3 DEF RawGrads
<1> HIDE DEF up
<1>4. ASSUME NEW t, NEW s PROVE TokensIn(Scaled(gs), t, s) = TokensIn(gs, t, s)
  <2>0. Of(gs, t, s) \in SUBSET gs
    BY DEF Of
  <2>1. IsFiniteSet(Of(gs, t, s)) /\ \A g \in Of(gs, t, s) : [h \in gs |-> h.tokens][g] \in Nat
    BY <2>0, TokensInIs
  <2> DEFINE f == [g \in Of(gs, t, s) |-> up(g)]
  <2>2. \A g \in Of(gs, t, s) : g \in RawGrads /\ g \in gs /\ g.by = t /\ g.step = s
    BY DEF Of
  <2>3. \A g \in Of(gs, t, s) : f[g] = up(g)
    OBVIOUS
  <2>4. f \in [Of(gs, t, s) -> Of(Scaled(gs), t, s)]
    <3>1. \A g \in Of(gs, t, s) : up(g) \in Of(Scaled(gs), t, s)
      BY <1>1, <1>2, <2>2 DEF Of
    <3> QED
      BY <3>1
  <2>5. \A h \in Of(Scaled(gs), t, s) : \E g \in Of(gs, t, s) : f[g] = h
    <3> TAKE h \in Of(Scaled(gs), t, s)
    <3>1. PICK g \in gs : h = up(g) /\ h.by = t /\ h.step = s
      BY <1>1 DEF Of
    <3>2. g \in Of(gs, t, s)
      BY <1>2, <3>1 DEF Of
    <3> QED
      BY <2>3, <3>1, <3>2
  <2>6. \A g, h \in Of(gs, t, s) : f[g] = f[h] => g = h
    BY <1>3, <2>2, <2>3
  <2> HIDE DEF f
  <2>7. f \in Bijection(Of(gs, t, s), Of(Scaled(gs), t, s))
    BY <2>4, <2>5, <2>6 DEF Bijection, Injection, Surjection, IsInjective
  <2>8. \A g \in Of(gs, t, s) : [h \in Scaled(gs) |-> h.tokens][f[g]] = [h \in gs |-> h.tokens][g]
    <3> TAKE g \in Of(gs, t, s)
    <3>1. f[g] = up(g) /\ up(g) \in Scaled(gs) /\ up(g).tokens = g.tokens /\ g \in gs
      BY <1>1, <1>2, <2>2, <2>3
    <3> QED
      BY <3>1
  <2> QED
    BY <2>1, <2>7, <2>8, TotalRenamed DEF TokensIn
<1>5. IsFiniteSet(Scaled(gs))
  <2> DEFINE f == [g \in gs |-> up(g)]
  <2>1. f \in Surjection(gs, Scaled(gs))
    BY <1>1 DEF Surjection
  <2> HIDE DEF f
  <2> QED
    BY <2>1, FS_Surjection
<1>6. Scaled(gs) \in SUBSET Grads /\ \A h \in Scaled(gs) : \E g \in gs : h.by = g.by /\ h.step = g.step
  BY <1>1, <1>2
<1> QED
  BY <1>4, <1>5, <1>6

\* What is accumulated besides adds up.
LEMMA JoinedTokens ==
    ASSUME NEW gs \in SUBSET RawGrads, IsFiniteSet(gs), NEW hs \in SUBSET RawGrads, IsFiniteSet(hs),
           gs \cap hs = {}, NEW t, NEW s
    PROVE  TokensIn(gs \cup hs, t, s) = TokensIn(gs, t, s) + TokensIn(hs, t, s)
<1> DEFINE all == gs \cup hs
           w == [g \in all |-> g.tokens]
<1>1. Of(all, t, s) = Of(gs, t, s) \cup Of(hs, t, s) /\ Of(gs, t, s) \cap Of(hs, t, s) = {}
  BY DEF Of
<1>2. IsFiniteSet(Of(gs, t, s)) /\ IsFiniteSet(Of(hs, t, s))
  BY TokensInIs
<1>3. \A g \in all : w[g] \in Nat /\ w[g] = g.tokens
  BY DEF RawGrads
<1>4. \A g \in Of(gs, t, s) \cup Of(hs, t, s) : w[g] \in Nat
  BY <1>3 DEF Of
<1>5. Total(w, Of(gs, t, s)) = TokensIn(gs, t, s)
  <2>1. \A g \in Of(gs, t, s) : w[g] = [h \in gs |-> h.tokens][g]
    BY <1>3 DEF Of
  <2> QED
    BY <2>1, TotalSame DEF TokensIn
<1>6. Total(w, Of(hs, t, s)) = TokensIn(hs, t, s)
  <2>1. \A g \in Of(hs, t, s) : w[g] = [h \in hs |-> h.tokens][g]
    BY <1>3 DEF Of
  <2> QED
    BY <2>1, TotalSame DEF TokensIn
<1>7. TokensIn(all, t, s) = Total(w, Of(all, t, s))
  BY DEF TokensIn
<1> HIDE DEF w
<1>8. Total(w, Of(gs, t, s) \cup Of(hs, t, s)) = Total(w, Of(gs, t, s)) + Total(w, Of(hs, t, s))
  BY <1>1, <1>2, <1>4, TotalOfUnion
<1> QED
  BY <1>1, <1>5, <1>6, <1>7, <1>8

\* What an index contributes to its gradients are the tokens packed for it.
LEMMA ContributionIs ==
    ASSUME RunBase, RunOwners, phase = "train", NEW i \in Idxs
    PROVE  /\ Contribution(i) \in SUBSET RawGrads /\ IsFiniteSet(Contribution(i))
           /\ \A g \in Contribution(i) :
                 /\ g.times = 0 /\ tenant[i] # NoRun /\ g.by = tenant[i] /\ g.step = Current(i)
                 /\ \E k \in 1 .. Len(packed) : packed[k].idx = i /\ packed[k].step = g.step
           /\ \A s : TokensIn(Contribution(i), tenant[i], s) = InPack(i, s) /\ InPack(i, s) \in Nat
<1>1. PICK n \in Nat : n = Len(packed) /\ DOMAIN packed = 1 .. n /\ \A k \in 1 .. n : packed[k] \in Turns
  BY LenProperties DEF RunBase, RunShapes
<1>2. \A x \in Turns : x.len \in Nat /\ x.step \in Nat /\ x.by \in Tenants
  BY RunSettings DEF Turns
<1> DEFINE mine == {k \in DOMAIN packed : packed[k].idx = i}
           m == Min(mine)
           tokens == MapThenSumSet(LAMBDA k : packed[k].len, mine)
           g == [by |-> packed[m].by, step |-> packed[m].step, tokens |-> tokens, times |-> 0]
<1>3. Contribution(i) = IF mine = {} THEN {} ELSE {g}
  BY Zenon DEF Contribution
<1>4. mine = {k \in 1 .. n : packed[k].idx = i}
  BY <1>1
<1>5. IsFiniteSet(mine)
  <2>1. IsFiniteSet(1 .. n)
    BY FS_Interval
  <2>2. mine \in SUBSET (1 .. n)
    BY <1>4
  <2> QED
    BY <2>1, <2>2, FS_Subset
<1>6. \A k \in mine : k \in 1 .. n /\ Lens(packed)[k] = packed[k].len /\ packed[k].len \in Nat
  BY <1>1, <1>2, <1>4 DEF Lens
<1>7. ASSUME NEW k \in mine
      PROVE  tenant[i] # NoRun /\ packed[k].by = tenant[i] /\ packed[k].step = Current(i) /\ packed[k] \in Turns
  <2>1. k \in 1 .. n /\ packed[k].idx = i
    BY <1>4
  <2>2. tenant[i] # NoRun /\ packed[k].step = IF ready[i] THEN progress[i] - 1 ELSE progress[i]
    BY <1>1, <2>1 DEF RunBase, RunPacks
  <2>3. packed[k].by = tenant[i]
    BY <1>1, <2>1 DEF RunOwners
  <2> QED
    BY <1>1, <2>1, <2>2, <2>3 DEF Current
<1>8. \A s : PackedAt(i, s) = {k \in mine : packed[k].step = s}
  BY <1>1, <1>4 DEF PackedAt
<1>9. tokens = Total(Lens(packed), mine)
  <2> HIDE DEF mine
  <2> QED
    BY <1>5, <1>6, SumOfPacked
<1>10. Total(Lens(packed), mine) \in Nat
  <2> HIDE DEF mine
  <2> QED
    BY <1>5, <1>6, PointsAreFinite
<1>11. CASE mine = {}
  <2>1. Contribution(i) = {} /\ \A s : PackedAt(i, s) = {}
    BY <1>3, <1>8, <1>11
  <2>2. \A s : InPack(i, s) = 0
    BY <2>1, TotalOfNone DEF InPack
  <2>3. \A s : TokensIn({}, tenant[i], s) = 0
    <3> TAKE s
    <3>1. Of({}, tenant[i], s) = {}
      BY DEF Of
    <3> QED
      BY <3>1, TotalOfNone DEF TokensIn
  <2> QED
    BY <2>1, <2>2, <2>3, FS_EmptySet
<1>12. CASE mine # {}
  <2>1. m \in mine
    <3>1. mine \in SUBSET Nat
      BY <1>4
    <3> HIDE DEF mine
    <3> QED
      BY <3>1, <1>12, MinIsThere
  <2> HIDE DEF m, tokens, mine
  <2>2. g \in RawGrads /\ g.times = 0 /\ g.by = tenant[i] /\ g.step = Current(i) /\ g.tokens = tokens /\ tenant[i] # NoRun
    BY <1>2, <1>7, <1>9, <1>10, <2>1 DEF RawGrads
  <2>3. m \in 1 .. n /\ packed[m].idx = i /\ packed[m].step = g.step
    BY <1>4, <2>1
  <2> HIDE DEF g
  <2>4. Contribution(i) = {g} /\ IsFiniteSet({g})
    BY <1>3, <1>12, FS_Singleton
  <2>5. ASSUME NEW s PROVE TokensIn({g}, tenant[i], s) = InPack(i, s) /\ InPack(i, s) \in Nat
    <3>1. CASE s = Current(i)
      <4>1. PackedAt(i, s) = mine
        BY <1>7, <1>8, <3>1
      <4>2. Of({g}, tenant[i], s) = {g}
        BY <2>2, <3>1 DEF Of
      <4> DEFINE w == [h \in {g} |-> h.tokens]
      <4>3. w[g] = tokens /\ w[g] \in Nat
        BY <1>9, <1>10, <2>2
      <4> HIDE DEF w
      <4>4. Total(w, {g}) = tokens
        BY <4>3, TotalOfOne
      <4>5. TokensIn({g}, tenant[i], s) = Total(w, {g})
        BY <4>2 DEF TokensIn, w
      <4> QED
        BY <1>9, <1>10, <4>1, <4>4, <4>5 DEF InPack
    <3>2. CASE s # Current(i)
      <4>1. PackedAt(i, s) = {}
        BY <1>7, <1>8, <3>2
      <4>2. Of({g}, tenant[i], s) = {}
        BY <2>2, <3>2 DEF Of
      <4> QED
        BY <4>1, <4>2, TotalOfNone DEF InPack, TokensIn
    <3> QED
      BY <3>1, <3>2
  <2> QED
    BY <1>1, <2>2, <2>3, <2>4, <2>5
<1> QED
  BY <1>11, <1>12

\* The gradients of an index after the micro batches were run.
LEMMA TrainedTokens ==
    ASSUME RunBase, RunOwners, phase = "train", NEW i \in Idxs,
           NEW now, now = Scaled(grad[i] \cup Contribution(i))
    PROVE  /\ now \in SUBSET Grads /\ IsFiniteSet(now)
           /\ \A h \in now : \/ \E g \in grad[i] : h.by = g.by /\ h.step = g.step
                             \/ /\ tenant[i] # NoRun /\ h.by = tenant[i] /\ h.step = Current(i)
                                /\ \E k \in 1 .. Len(packed) : packed[k].idx = i /\ packed[k].step = h.step
           /\ \A s : /\ TokensIn(now, tenant[i], s) = InGrads(i, s) + InPack(i, s)
                     /\ InGrads(i, s) \in Nat /\ InPack(i, s) \in Nat
<1>1. Grads \subseteq RawGrads /\ \A g \in Grads : g.times # 0
  BY DEF Grads, RawGrads
<1>2. grad[i] \in SUBSET RawGrads /\ IsFiniteSet(grad[i]) /\ \A g \in grad[i] : g.times # 0
  BY <1>1 DEF RunOwners
<1>3. PICK c : /\ c = Contribution(i) /\ c \in SUBSET RawGrads /\ IsFiniteSet(c)
               /\ \A g \in c : /\ g.times = 0 /\ tenant[i] # NoRun /\ g.by = tenant[i] /\ g.step = Current(i)
                               /\ \E k \in 1 .. Len(packed) : packed[k].idx = i /\ packed[k].step = g.step
               /\ \A s : TokensIn(c, tenant[i], s) = InPack(i, s) /\ InPack(i, s) \in Nat
  BY ContributionIs
<1>4. grad[i] \cap c = {}
  BY <1>2, <1>3
<1>5. PICK all : all = grad[i] \cup c
  OBVIOUS
<1>6. all \in SUBSET RawGrads /\ IsFiniteSet(all)
  <2>1. IsFiniteSet(grad[i] \cup c)
    BY <1>2, <1>3, FS_Union
  <2> QED
    BY <1>2, <1>3, <1>5, <2>1
<1>7. /\ IsFiniteSet(Scaled(all)) /\ Scaled(all) \in SUBSET Grads
      /\ \A h \in Scaled(all) : \E g \in all : h.by = g.by /\ h.step = g.step
      /\ \A t, s : TokensIn(Scaled(all), t, s) = TokensIn(all, t, s)
  BY <1>6, ScaledTokens
<1>8. \A s : TokensIn(all, tenant[i], s) = TokensIn(grad[i], tenant[i], s) + TokensIn(c, tenant[i], s)
  BY <1>2, <1>3, <1>4, <1>5, JoinedTokens
<1>9. \A s : InGrads(i, s) \in Nat
  BY <1>2, TokensInIs DEF InGrads
<1>10. now = Scaled(all)
  BY <1>3, <1>5
<1>11. \A h \in now : \/ \E g \in grad[i] : h.by = g.by /\ h.step = g.step
                      \/ /\ tenant[i] # NoRun /\ h.by = tenant[i] /\ h.step = Current(i)
                         /\ \E k \in 1 .. Len(packed) : packed[k].idx = i /\ packed[k].step = h.step
  <2> TAKE h \in now
  <2>1. PICK g \in all : h.by = g.by /\ h.step = g.step
    BY <1>7, <1>10
  <2>2. CASE g \in grad[i]
    BY <2>1, <2>2
  <2>3. CASE g \in c
    BY <1>3, <2>1, <2>3
  <2> QED
    BY <1>5, <2>2, <2>3
<1>12. \A s : TokensIn(now, tenant[i], s) = InGrads(i, s) + InPack(i, s)
  BY <1>3, <1>7, <1>8, <1>10 DEF InGrads
<1> QED
  BY <1>3, <1>7, <1>9, <1>10, <1>11, <1>12

\* Batches are only added.
GrowsOnly(r) == /\ wrote[r] \in Seq(Batches) /\ Len(wrote[r]) \in Nat /\ Len(wrote'[r]) \in Nat
                /\ Len(wrote[r]) <= Len(wrote'[r])
                /\ \A s \in 1 .. Len(wrote[r]) : wrote'[r][s] = wrote[r][s]

\* While a run is not over its batches stay on the disk.
LEMMA DiskGrows ==
    ASSUME MaxLives = 1, RunBase, [RunsNext]_runsVars, NEW r \in Ids, life[r] = 1, ~IsOver(r)'
    PROVE  ~IsOver(r) /\ GrowsOnly(r)
<1>1. ~IsOver(r)
  BY OverStays
<1>2. wrote \in [Ids -> Seq(Batches)] /\ dir \in [Ids -> {"absent", "bare", "live"}]
  BY DEF RunBase, RunShapes
<1>3. wrote[r] \in Seq(Batches) /\ Len(wrote[r]) \in Nat
  BY <1>2, LenProperties
<1>4. wrote'[r] = wrote[r] \/ \E b \in Batches : wrote'[r] = Append(wrote[r], b)
  <2>1. CASE Environment
    <3>1. PICK x \in Ids : \/ NewDir(x) \/ WriteConfig(x) \/ RemoveDir(x)
                          \/ \E b \in Batches : WriteBatch(x, b)
      BY <2>1 DEF Environment
    <3>2. CASE NewDir(x) \/ WriteConfig(x)
      BY <3>2 DEF NewDir, WriteConfig
    <3>3. CASE RemoveDir(x)
      <4>1. life' = life /\ dir' = [dir EXCEPT ![x] = "absent"] /\ wrote' = [wrote EXCEPT ![x] = <<>>]
        BY <3>3 DEF RemoveDir
      <4>2. x # r
        BY <1>2, <4>1 DEF IsOver
      <4> QED
        BY <1>2, <4>1, <4>2
    <3>4. CASE \E b \in Batches : WriteBatch(x, b)
      <4>1. PICK b \in Batches : wrote' = [wrote EXCEPT ![x] = Append(@, b)]
        BY <3>4 DEF WriteBatch
      <4> QED
        BY <1>2, <4>1
    <3> QED
      BY <3>1, <3>2, <3>3, <3>4
  <2>2. CASE Buffer \/ Broadcast
    BY <2>2, BufferGives, BroadcastGives
  <2>3. CASE Discover \/ Receive \/ Pack \/ WaitForTokens \/ Sync \/ Train \/ UNCHANGED runsVars
    BY <2>3 DEF Discover, Receive, Pack, WaitForTokens, Sync, Train, runsVars, disk
  <2> QED
    BY <2>1, <2>2, <2>3 DEF RunsNext, Trainer
<1>5. PICK w \in Seq(Batches), n \in Nat : w = wrote[r] /\ n = Len(w)
  BY <1>3
<1>6. Len(wrote'[r]) \in Nat /\ n <= Len(wrote'[r]) /\ \A s \in 1 .. n : wrote'[r][s] = w[s]
  <2>1. CASE wrote'[r] = w
    BY <1>5, <2>1
  <2>2. ASSUME NEW b \in Batches, wrote'[r] = Append(w, b)
        PROVE  Len(wrote'[r]) \in Nat /\ n <= Len(wrote'[r]) /\ \A s \in 1 .. n : wrote'[r][s] = w[s]
    <3>1. Len(Append(w, b)) = n + 1 /\ \A s \in 1 .. n : Append(w, b)[s] = w[s]
      BY <1>5
    <3> QED
      BY <2>2, <3>1
  <2> QED
    BY <1>4, <1>5, <2>1, <2>2
<1> QED
  BY <1>1, <1>3, <1>5, <1>6 DEF GrowsOnly

\* The steps of an index that are counted are on the disk.
LEMMA StepsOnDisk ==
    ASSUME MaxLives = 1, RunBase, RunOnce, NEW i \in UsedIdxs
    PROVE  /\ i \in Idxs /\ tenant[i] # NoRun /\ tenant[i] \in Tenants /\ tenant[i].id \in Ids
           /\ life[tenant[i].id] = 1
           /\ Current(i) \in Nat \ {0} /\ received[i] \in Nat
           /\ progress[i] = IF ready[i] /\ phase \in {"sync", "train"} THEN Current(i) + 1 ELSE Current(i)
<1>1. i \in Idxs /\ tenant[i] # NoRun /\ tenant[i] \in Tenants /\ tenant[i].id \in Ids /\ life[tenant[i].id] = 1
  BY OneLife DEF UsedIdxs
<1>2. progress[i] \in Nat \ {0} /\ received[i] \in Nat /\ done[tenant[i].id] \in Nat
  BY <1>1 DEF RunBase, RunShapes
<1>3. progress[i] = done[tenant[i].id] + Ahead(i)
  BY DEF RunOnce, RunCounts
<1>4. PICK p \in Nat, d \in Nat : p = progress[i] /\ d = done[tenant[i].id]
  BY <1>2
<1>5. CASE ready[i] /\ phase \in {"sync", "train"}
  <2>1. p = d + 2 /\ Current(i) = p - 1
    BY <1>3, <1>4, <1>5 DEF Ahead, Current
  <2>2. p - 1 \in Nat \ {0} /\ p = p - 1 + 1
    BY <2>1
  <2> QED
    BY <1>1, <1>2, <1>4, <1>5, <2>1, <2>2
<1>6. CASE ~(ready[i] /\ phase \in {"sync", "train"})
  BY <1>1, <1>2, <1>6 DEF Current
<1> QED
  BY <1>5, <1>6

\* What is over stays over, whoever owned the gradients.
LEMMA OwnersStay ==
    ASSUME MaxLives = 1, RunBase, RunOwners, [RunsNext]_runsVars, NEW i \in Idxs, NEW g \in grad[i]
    PROVE  /\ g \in Grads /\ g.by.id \in Ids
           /\ IsOver(g.by.id)' \/ (~IsOver(g.by.id) /\ tenant[i] # NoRun /\ g.by = tenant[i])
<1>1. g \in Grads /\ (IsOver(g.by.id) \/ (tenant[i] # NoRun /\ g.by = tenant[i]))
  BY DEF RunOwners
<1>2. PICK r \in Ids : r = g.by.id
  BY <1>1 DEF Grads, Tenants
<1>3. IsOver(r) => IsOver(r)'
  BY OverStays
<1>4. IsOver(r)' => IsOver(g.by.id)'
  BY <1>2 DEF IsOver
<1> QED
  BY <1>1, <1>2, <1>3, <1>4

\* The sums hold when the trainer starts.
LEMMA SumsInit == RunsInit => RunSums
<1> SUFFICES ASSUME RunsInit PROVE RunSums
  OBVIOUS
<1>1. UsedIdxs = {} /\ Len(packed) = 0 /\ phase = "discover" /\ updates = {}
  BY DEF RunsInit, UsedIdxs
<1>2. \A i \in Idxs : grad[i] = {} /\ progress[i] = 1 /\ ~ready[i]
  BY DEF RunsInit
<1>3. RunOwners
  <2>1. \A i \in Idxs : IsFiniteSet(grad[i])
    BY <1>2, FS_EmptySet
  <2> QED
    BY <1>1, <1>2, <2>1 DEF RunOwners
<1>4. RunProgress
  BY <1>1, <1>2 DEF RunProgress
<1>5. RunTokens /\ RunUpdates
  BY <1>1 DEF RunTokens, RunUpdates
<1> QED
  BY <1>3, <1>4, <1>5 DEF RunSums

\* The sums speak of the receiver, the packer and the optimizer only.
LEMMA SumsRest ==
    ASSUME MaxLives = 1, RunBase, RunOnce, RunSums, [RunsNext]_runsVars,
           UNCHANGED <<tenant, progress, received, buffers, inbox, packed, grad>>,
           phase' = "buffer" <=> phase = "buffer",
           \A i \in Idxs : Current(i)' = Current(i),
           \A i \in Idxs : ready'[i] /\ phase' \in {"sync", "train"} => ready[i] /\ phase \in {"sync", "train"},
           updates' = {} \/ (updates' = updates /\ phase' = phase)
    PROVE  RunSums'
<1>1. UsedIdxs' = UsedIdxs /\ \A i \in UsedIdxs : i \in Idxs
  BY DEF UsedIdxs
<1>2. RunOwners'
  <2>1. \A i \in Idxs : \A g \in grad[i] : g \in Grads /\ (IsOver(g.by.id)' \/ (tenant[i] # NoRun /\ g.by = tenant[i]))
    BY OwnersStay DEF RunSums
  <2>2. \A i \in Idxs : \A g \in grad'[i] :
           g \in Grads /\ (IsOver(g.by.id)' \/ (tenant'[i] # NoRun /\ g.by = tenant'[i]))
    BY <2>1
  <2> QED
    BY <1>1, <2>2 DEF RunSums, RunOwners
<1>3. RunProgress'
  BY <1>1 DEF RunSums, RunProgress
<1>4. \A i, s : InGrads(i, s)' = InGrads(i, s) /\ InPack(i, s)' = InPack(i, s) /\ InBuffer(i, s)' = InBuffer(i, s)
  BY DEF InGrads, InPack, InBuffer, PackedAt
<1>5. \A i, s : Arrives(i, s)' <=> Arrives(i, s)
  BY DEF Arrives
<1>6. \A i \in UsedIdxs : tenant[i].id \in Ids /\ life[tenant[i].id] = 1
  BY OneLife
<1>7. RunTokens'
  <2> SUFFICES ASSUME NEW i \in UsedIdxs, ~IsOver(tenant[i].id)'
               PROVE  /\ received[i] <= Len(wrote'[tenant[i].id]) + 1
                      /\ \A s \in Current(i) .. received[i] - 1 : ~Arrives(i, s) =>
                           InGrads(i, s) + InPack(i, s) + InBuffer(i, s) = SumOf(wrote'[tenant[i].id][s])
    BY <1>1, <1>4, <1>5 DEF RunTokens
  <2>1. PICK r \in Ids : r = tenant[i].id /\ life[r] = 1
    BY <1>6
  <2>2. ~IsOver(r)'
    BY <2>1 DEF IsOver
  <2>3. ~IsOver(r) /\ GrowsOnly(r)
    BY <2>1, <2>2, DiskGrows
  <2>4. /\ received[i] <= Len(wrote[r]) + 1
        /\ \A s \in Current(i) .. received[i] - 1 : ~Arrives(i, s) =>
              InGrads(i, s) + InPack(i, s) + InBuffer(i, s) = SumOf(wrote[r][s])
    BY <2>1, <2>3 DEF RunSums, RunTokens
  <2>5. Current(i) \in Nat \ {0} /\ received[i] \in Nat
    BY StepsOnDisk
  <2>6. PICK c \in Nat \ {0}, d \in Nat, n \in Nat, m \in Nat :
           c = Current(i) /\ d = received[i] /\ n = Len(wrote[r]) /\ m = Len(wrote'[r])
    BY <2>3, <2>5 DEF GrowsOnly
  <2>7. d <= n + 1 /\ n <= m
    BY <2>3, <2>4, <2>6 DEF GrowsOnly
  <2>8. \A s \in c .. d - 1 : s \in 1 .. n
    BY <2>7
  <2>9. \A s \in c .. d - 1 : wrote'[r][s] = wrote[r][s]
    BY <2>3, <2>6, <2>8 DEF GrowsOnly
  <2>10. d <= m + 1
    BY <2>7
  <2> QED
    BY <2>1, <2>4, <2>6, <2>9, <2>10
<1>8. RunUpdates'
  <2>1. CASE updates' = {}
    BY <2>1 DEF RunUpdates
  <2>2. CASE updates' = updates /\ phase' = phase
    <3> SUFFICES ASSUME NEW u \in updates
                 PROVE  /\ phase = "broadcast" /\ u.idx \in UsedIdxs /\ u.by = tenant[u.idx]
                        /\ u.grads \in SUBSET Grads /\ IsFiniteSet(u.grads)
                        /\ ~IsOver(u.by.id)' =>
                             /\ u.step \in 1 .. Len(wrote'[u.by.id])
                             /\ Total([g \in u.grads |-> g.tokens], {g \in u.grads : g.by = u.by})
                                  = SumOf(wrote'[u.by.id][u.step])
      BY <1>1, <2>2 DEF RunUpdates
    <3>1. /\ phase = "broadcast" /\ u.idx \in UsedIdxs /\ u.by = tenant[u.idx]
          /\ u.grads \in SUBSET Grads /\ IsFiniteSet(u.grads)
      BY DEF RunSums, RunUpdates
    <3>2. PICK r \in Ids : r = u.by.id /\ life[r] = 1
      BY <1>6, <3>1
    <3>3. ASSUME ~IsOver(u.by.id)'
          PROVE  /\ u.step \in 1 .. Len(wrote'[r])
                 /\ Total([g \in u.grads |-> g.tokens], {g \in u.grads : g.by = u.by}) = SumOf(wrote'[r][u.step])
      <4>1. ~IsOver(r)'
        BY <3>2, <3>3 DEF IsOver
      <4>2. ~IsOver(r) /\ GrowsOnly(r)
        BY <3>2, <4>1, DiskGrows
      <4>3. /\ u.step \in 1 .. Len(wrote[r])
            /\ Total([g \in u.grads |-> g.tokens], {g \in u.grads : g.by = u.by}) = SumOf(wrote[r][u.step])
        BY <3>2, <4>2 DEF RunSums, RunUpdates
      <4>4. u.step \in 1 .. Len(wrote'[r]) /\ wrote'[r][u.step] = wrote[r][u.step]
        BY <4>2, <4>3 DEF GrowsOnly
      <4> QED
        BY <4>3, <4>4
    <3> QED
      BY <3>1, <3>2, <3>3
  <2> QED
    BY <2>1, <2>2
<1> QED
  BY <1>2, <1>3, <1>7, <1>8 DEF RunSums

-----------------------------------------------------------------------------
(* The steps of the trainer *)

\* Optimizer steps are at hand only while weights are broadcast.
LEMMA NoUpdates ==
    ASSUME RunUpdates, phase # "broadcast"
    PROVE  updates = {}
  BY DEF RunUpdates

\* What neither moves samples nor steps preserves the sums.
LEMMA SumsQuiet ==
    ASSUME MaxLives = 1, RunBase, RunOnce, RunSums,
           Environment \/ WaitForTokens \/ Sync \/ Broadcast \/ UNCHANGED runsVars
    PROVE  RunSums'
<1>1. [RunsNext]_runsVars
  BY DEF RunsNext, Trainer
<1>2. CASE Environment
  <2>1. /\ UNCHANGED <<tenant, progress, received, buffers, inbox, packed, grad>>
        /\ UNCHANGED <<ready, updates, phase>>
    BY <1>2 DEF Environment, runs
  <2>2. \A i \in Idxs : Current(i)' = Current(i)
    BY <2>1 DEF Current
  <2> QED
    BY <1>1, <2>1, <2>2, SumsRest
<1>3. CASE WaitForTokens
  <2>1. /\ UNCHANGED <<tenant, progress, received, buffers, inbox, packed, grad>>
        /\ UNCHANGED <<ready, updates>> /\ phase = "pack" /\ phase' = "discover"
    BY <1>3 DEF WaitForTokens, runs
  <2>2. \A i \in Idxs : Current(i)' = Current(i)
    BY <2>1 DEF Current
  <2>3. updates' = {}
    BY <2>1, NoUpdates DEF RunSums
  <2> QED
    BY <1>1, <2>1, <2>2, <2>3, SumsRest
<1>4. CASE Sync
  <2>1. /\ UNCHANGED <<tenant, progress, received, buffers, inbox, packed, grad>>
        /\ UNCHANGED <<ready, updates>> /\ phase = "sync"
    BY <1>4 DEF Sync, runs
  <2>2. phase' = "train"
    BY <1>4, SyncMatches
  <2>3. \A i \in Idxs : Current(i)' = Current(i)
    BY <2>1, <2>2 DEF Current
  <2>4. updates' = {}
    BY <2>1, NoUpdates DEF RunSums
  <2> QED
    BY <1>1, <2>1, <2>2, <2>3, <2>4, SumsRest
<1>5. CASE Broadcast
  <2>1. /\ UNCHANGED <<tenant, progress, received, buffers, inbox, packed, grad>>
        /\ updates' = {} /\ phase = "broadcast" /\ phase' = "discover"
    BY <1>5 DEF Broadcast, runs
  <2>2. \A i \in Idxs : Current(i)' = Current(i)
    BY <2>1 DEF Current
  <2> QED
    BY <1>1, <2>1, <2>2, SumsRest
<1>6. CASE UNCHANGED runsVars
  <2>1. /\ UNCHANGED <<tenant, progress, received, buffers, inbox, packed, grad>>
        /\ UNCHANGED <<ready, updates, phase>>
    BY <1>6 DEF runsVars, runs
  <2>2. \A i \in Idxs : Current(i)' = Current(i)
    BY <2>1 DEF Current
  <2> QED
    BY <1>1, <2>1, <2>2, SumsRest
<1> QED
  BY <1>2, <1>3, <1>4, <1>5, <1>6

\* Discovery: an index that is handed on has no gradients of its new run.
LEMMA SumsDiscover ==
    ASSUME MaxLives = 1, RunBase, RunOnce, RunSums, Discover
    PROVE  RunSums'
<1>1. /\ UNCHANGED <<dir, life, evicted, wrote, ready, inbox, packed, grad, updates>>
      /\ phase \in {"discover", "rediscover"} /\ phase' \in {"receive", "pack"} /\ [RunsNext]_runsVars
  BY DEF Discover, disk, RunsNext, Trainer
<1>2. PICK New, f : Admits(New, f)
  BY DiscoverAdmits DEF Discover, RunBase
<1>3. \A i \in UsedIdxs : i \in Idxs /\ tenant[i].id \in Ids /\ life[tenant[i].id] = 1
  BY OneLife
<1>4. \A r \in Ids : IsOver(r)' <=> IsOver(r)
  BY <1>1 DEF IsOver
<1>5. \A i \in Forgotten : i \in UsedIdxs /\ IsOver(tenant[i].id)
  BY <1>3 DEF Forgotten, Visible, IsOver
<1>6. ASSUME NEW i \in New
      PROVE  /\ i \in Idxs /\ f[i] \in Ids /\ ~IsOver(f[i]) /\ ~Holds(tenant, f[i])
             /\ tenant'[i].id = f[i] /\ Emptied(i)
  <2>1. f[i] \in Newcomers /\ i \in Idxs /\ tenant'[i] = Owner(f[i]) /\ Emptied(i)
    BY <1>2 DEF Admits
  <2>2. f[i] \in Visible /\ \A j \in UsedIdxs : tenant[j].id # f[i]
    BY <2>1 DEF Newcomers
  <2>3. f[i] \in Ids /\ ~IsOver(f[i])
    BY <2>2 DEF Visible, IsOver
  <2>4. ~Holds(tenant, f[i])
    BY <2>2 DEF Holds, UsedIdxs
  <2> QED
    BY <2>1, <2>3, <2>4 DEF Owner
<1>7. ASSUME NEW i \in Idxs
      PROVE  \/ i \in New
             \/ i \notin New /\ i \in Forgotten /\ tenant'[i] = NoRun /\ Emptied(i)
             \/ i \notin New /\ i \notin Forgotten /\ Keeps(i)
  BY <1>2 DEF Admits
<1>8. \A i \in Idxs : Current(i)' = progress'[i] /\ Current(i) = progress[i]
  BY <1>1 DEF Current
<1>9. Len(packed) = 0 /\ packed = << >>
  BY <1>1 DEF RunBase, RunPacks
\* Gradients that are not over belong to the run that stays.
<1>10. ASSUME NEW i \in Idxs, NEW g \in grad[i], tenant'[i] # NoRun, g.by = tenant'[i]
       PROVE  IsOver(tenant'[i].id) \/ (i \notin New /\ i \notin Forgotten /\ Keeps(i) /\ i \in UsedIdxs)
  <2>1. IsOver(g.by.id) \/ (tenant[i] # NoRun /\ g.by = tenant[i])
    BY DEF RunSums, RunOwners
  <2>2. CASE i \in New
    <3>1. g.by.id = f[i] /\ ~IsOver(f[i]) /\ ~Holds(tenant, f[i])
      BY <1>6, <1>10, <2>2
    <3> QED
      BY <2>1, <3>1 DEF Holds
  <2>3. CASE i \notin New /\ i \notin Forgotten /\ Keeps(i)
    BY <1>10, <2>3 DEF Keeps, UsedIdxs
  <2> QED
    BY <1>7, <1>10, <2>2, <2>3
<1>11. RunOwners'
  <2>1. ASSUME NEW i \in Idxs, NEW g \in grad[i]
        PROVE  g \in Grads /\ (IsOver(g.by.id)' \/ (tenant'[i] # NoRun /\ g.by = tenant'[i]))
    <3>1. g \in Grads /\ g.by.id \in Ids /\ (IsOver(g.by.id)' \/ (~IsOver(g.by.id) /\ tenant[i] # NoRun /\ g.by = tenant[i]))
      BY <1>1, OwnersStay DEF RunSums
    <3>2. CASE ~IsOver(g.by.id) /\ tenant[i] # NoRun /\ g.by = tenant[i]
      <4>1. i \notin Forgotten /\ i \in UsedIdxs
        BY <1>5, <3>2 DEF UsedIdxs
      <4>2. i \notin New
        BY <1>2, <3>2, <4>1 DEF Admits
      <4>3. tenant'[i] = tenant[i]
        BY <1>7, <4>1, <4>2 DEF Keeps
      <4> QED
        BY <3>1, <3>2, <4>3
    <3> QED
      BY <3>1, <3>2
  <2>2. ASSUME NEW i \in UsedIdxs', NEW k \in 1 .. Len(buffers'[i]) PROVE buffers'[i][k].by = tenant'[i]
    <3>1. i \in Idxs /\ tenant'[i] # NoRun
      BY DEF UsedIdxs
    <3>2. CASE Emptied(i)
      <4>1. Len(buffers'[i]) = 0
        BY <3>2 DEF Emptied
      <4> QED
        BY <2>2, <4>1
    <3>3. CASE Keeps(i)
      <4>1. buffers'[i] = buffers[i] /\ tenant'[i] = tenant[i] /\ i \in UsedIdxs
        BY <3>1, <3>3 DEF Keeps, UsedIdxs
      <4>2. \A x \in 1 .. Len(buffers[i]) : buffers[i][x].by = tenant[i]
        BY <4>1 DEF RunSums, RunOwners
      <4> QED
        BY <2>2, <4>1, <4>2
    <3> QED
      BY <1>6, <1>7, <3>1, <3>2, <3>3
  <2>3. \A i \in Idxs : IsFiniteSet(grad[i])
    BY DEF RunSums, RunOwners
  <2>4. \A i \in Idxs : \A g \in grad'[i] :
           g \in Grads /\ (IsOver(g.by.id)' \/ (tenant'[i] # NoRun /\ g.by = tenant'[i]))
    BY <1>1, <2>1
  <2>5. \A k \in 1 .. Len(packed') : packed'[k].by = tenant'[packed'[k].idx]
    BY <1>1, <1>9
  <2>6. phase' # "buffer"
    BY <1>1
  <2> QED
    BY <1>1, <2>2, <2>3, <2>4, <2>5, <2>6 DEF RunOwners
<1>12. RunProgress'
  <2>1. \A i \in Idxs : received'[i] = 0 => progress'[i] = 1
    <3> SUFFICES ASSUME NEW i \in Idxs, received'[i] = 0 PROVE progress'[i] = 1
      OBVIOUS
    <3>1. CASE Emptied(i)
      BY <3>1 DEF Emptied
    <3>2. CASE Keeps(i)
      BY <3>2 DEF Keeps, RunSums, RunProgress
    <3> QED
      BY <1>6, <1>7, <3>1, <3>2
  <2>2. ASSUME NEW i \in UsedIdxs', NEW g \in grad'[i], g.by = tenant'[i]
        PROVE  g.step = Current(i)' /\ Current(i)' < received'[i]
    <3>1. i \in Idxs /\ tenant'[i] # NoRun /\ g \in grad[i]
      BY <1>1 DEF UsedIdxs
    <3>2. CASE i \in New
      <4>1. tenant[i] # NoRun => ~(g.by = tenant[i])
        BY <1>6, <2>2, <3>1, <3>2 DEF Holds
      <4>2. ~IsOver(g.by.id)
        BY <1>6, <2>2, <3>2
      <4> QED
        BY <3>1, <4>1, <4>2 DEF RunSums, RunOwners
    <3>3. CASE Keeps(i) /\ i \in UsedIdxs
      <4>1. g.step = Current(i) /\ Current(i) < received[i]
        BY <2>2, <3>1, <3>3 DEF Keeps, RunSums, RunProgress
      <4> QED
        BY <1>8, <3>1, <3>3, <4>1 DEF Keeps
    <3>4. i \in New \/ (Keeps(i) /\ i \in UsedIdxs)
      BY <1>7, <3>1 DEF Keeps, UsedIdxs
    <3> QED
      BY <3>2, <3>3, <3>4
  <2>3. /\ \A k \in 1 .. Len(packed') : packed'[k].step < received'[packed'[k].idx]
        /\ phase' \notin {"buffer", "sync", "train"}
    BY <1>1, <1>9
  <2> QED
    BY <2>1, <2>2, <2>3 DEF RunProgress
<1>13. RunTokens'
  <2>1. ASSUME NEW i \in UsedIdxs', ~IsOver(tenant[i].id)'
        PROVE  /\ received'[i] <= Len(wrote'[tenant'[i].id]) + 1
               /\ \A s \in Current(i)' .. received'[i] - 1 :
                     InGrads(i, s)' + InPack(i, s)' + InBuffer(i, s)' = SumOf(wrote'[tenant'[i].id][s])
    <3>1. i \in Idxs /\ tenant'[i] # NoRun
      BY DEF UsedIdxs
    <3>2. CASE i \in New
      <4>1. received'[i] = 0 /\ Current(i)' = 1 /\ tenant'[i].id \in Ids
        BY <1>6, <1>8, <3>1, <3>2 DEF Emptied
      <4>2. Len(wrote'[tenant'[i].id]) \in Nat
        BY <1>1, <4>1, LenProperties DEF RunBase, RunShapes
      <4>3. Current(i)' .. received'[i] - 1 = {}
        BY <4>1
      <4> QED
        BY <4>1, <4>2, <4>3
    <3>3. CASE Keeps(i) /\ i \in UsedIdxs
      <4>1. tenant'[i] = tenant[i] /\ progress'[i] = progress[i] /\ received'[i] = received[i] /\ buffers'[i] = buffers[i]
        BY <3>3 DEF Keeps
      <4>2. \A s : InGrads(i, s)' = InGrads(i, s) /\ InPack(i, s)' = InPack(i, s) /\ InBuffer(i, s)' = InBuffer(i, s)
        BY <1>1, <4>1 DEF InGrads, InPack, InBuffer, PackedAt
      <4>3. ~IsOver(tenant[i].id)
        <5>1. PICK r \in Ids : r = tenant[i].id /\ r = tenant'[i].id
          BY <1>3, <3>3, <4>1
        <5>2. ~IsOver(r)'
          BY <2>1, <5>1 DEF IsOver
        <5> QED
          BY <1>4, <5>1, <5>2
      <4>4. \A s : ~Arrives(i, s)
        BY <1>1 DEF Arrives
      <4>5. /\ received[i] <= Len(wrote[tenant[i].id]) + 1
            /\ \A s \in Current(i) .. received[i] - 1 :
                  InGrads(i, s) + InPack(i, s) + InBuffer(i, s) = SumOf(wrote[tenant[i].id][s])
        BY <3>3, <4>3, <4>4 DEF RunSums, RunTokens
      <4>6. Current(i)' = Current(i)
        BY <1>8, <3>1, <4>1
      <4> QED
        BY <1>1, <4>1, <4>2, <4>5, <4>6
    <3> QED
      BY <1>7, <3>1, <3>2, <3>3 DEF Keeps, UsedIdxs
  <2> QED
    BY <2>1 DEF RunTokens
<1>14. RunUpdates'
  BY <1>1, NoUpdates DEF RunSums, RunUpdates
<1> QED
  BY <1>11, <1>12, <1>13, <1>14 DEF RunSums

\* The receiver moves on by one batch, which is in the inbox, or finds none.
LEMMA ReceiveMoves ==
    ASSUME RunBase, Receive, NEW i \in UsedIdxs
    PROVE  \/ /\ HasBatch(i) /\ received'[i] = ReceivedStep(i) + 1
              /\ \E m \in DOMAIN inbox' : inbox'[m] = BatchOf(i)
           \/ ~HasBatch(i) /\ received'[i] = ReceivedStep(i)
<1> DEFINE Got == {h \in UsedIdxs : HasBatch(h)}
<1>1. PICK order \in Ascending(Got) : inbox' = [k \in DOMAIN order |-> BatchOf(order[k])]
  BY DEF Receive
<1>2. i \in Idxs
  BY DEF UsedIdxs
<1>3. received'[i] = IF i \in Got THEN ReceivedStep(i) + 1 ELSE ReceivedStep(i)
  BY <1>2 DEF Receive
<1>4. Got \in SUBSET Idxs /\ IsFiniteSet(Got)
  <2>1. Got \in SUBSET Idxs
    BY DEF UsedIdxs
  <2> QED
    BY <2>1, IndicesAreFinite, FS_Subset
<1>5. i \in Got <=> HasBatch(i)
  OBVIOUS
<1> HIDE DEF Got
<1>6. order \in SetToSeqs(Got)
  BY <1>1 DEF Ascending
<1>7. Range(order) = Got
  BY <1>4, <1>6, ListsAll
<1>8. CASE i \in Got
  <2>1. PICK m \in DOMAIN order : order[m] = i
    BY <1>7, <1>8 DEF Range
  <2>2. m \in DOMAIN inbox' /\ inbox'[m] = BatchOf(i)
    BY <1>1, <2>1
  <2> QED
    BY <1>3, <1>5, <1>8, <2>2
<1> QED
  BY <1>3, <1>5, <1>8

\* Receiving: the batch received next is the one after the last.
LEMMA SumsReceive ==
    ASSUME MaxLives = 1, RunBase, RunOnce, RunSums, Receive
    PROVE  RunSums'
<1>1. /\ UNCHANGED <<dir, life, evicted, wrote, tenant, progress, buffers, ready, packed, grad, updates>>
      /\ phase = "receive" /\ phase' = "buffer" /\ [RunsNext]_runsVars
      /\ \A i \in Idxs : i \notin UsedIdxs => received'[i] = received[i]
  BY DEF Receive, disk, RunsNext, Trainer
<1>2. UsedIdxs' = UsedIdxs /\ \A i \in UsedIdxs : i \in Idxs
  BY <1>1 DEF UsedIdxs
<1>3. \A i \in Idxs : Current(i)' = progress[i] /\ Current(i) = progress[i]
  BY <1>1 DEF Current
<1>4. Len(packed) = 0 /\ packed = << >>
  BY <1>1 DEF RunBase, RunPacks
\* The steps of an index, before and after.
<1>5. ASSUME NEW i \in UsedIdxs
      PROVE  \E p \in Nat, r \in Nat, a \in Nat, q \in Nat :
                /\ p = progress[i] /\ r = received[i] /\ a = ReceivedStep(i) /\ q = received'[i]
                /\ p <= a /\ p >= 1 /\ a = (IF r = 0 THEN p ELSE r) /\ (r = 0 => p = 1)
                /\ (q = a + 1 \/ q = a) /\ (HasBatch(i) <=> q = a + 1)
  <2>1. ReceivedStep(i) \in Nat \ {0} /\ progress[i] <= ReceivedStep(i) /\ i \in Idxs
    BY NextBatch
  <2>2. progress[i] \in Nat \ {0} /\ received[i] \in Nat
    BY <2>1 DEF RunBase, RunShapes
  <2>3. ReceivedStep(i) = (IF received[i] = 0 THEN progress[i] ELSE received[i])
    BY DEF ReceivedStep
  <2>4. received[i] = 0 => progress[i] = 1
    BY <2>1 DEF RunSums, RunProgress
  <2>5. \/ HasBatch(i) /\ received'[i] = ReceivedStep(i) + 1
        \/ ~HasBatch(i) /\ received'[i] = ReceivedStep(i)
    <3>1. \/ /\ HasBatch(i) /\ received'[i] = ReceivedStep(i) + 1
             /\ \E m \in DOMAIN inbox' : inbox'[m] = BatchOf(i)
          \/ ~HasBatch(i) /\ received'[i] = ReceivedStep(i)
      BY ReceiveMoves
    <3> QED
      BY <3>1
  <2>6. PICK p \in Nat, r \in Nat, a \in Nat : p = progress[i] /\ r = received[i] /\ a = ReceivedStep(i) /\ p >= 1
    BY <2>1, <2>2
  <2>7. CASE HasBatch(i)
    <3>1. received'[i] = a + 1 /\ a + 1 \in Nat
      BY <2>5, <2>6, <2>7
    <3> QED
      BY <2>1, <2>3, <2>4, <2>6, <2>7, <3>1
  <2>8. CASE ~HasBatch(i)
    <3>1. received'[i] = a /\ a # a + 1
      BY <2>5, <2>6, <2>8
    <3> QED
      BY <2>1, <2>3, <2>4, <2>6, <2>8, <3>1
  <2> QED
    BY <2>7, <2>8
<1>6. \A i \in UsedIdxs : /\ tenant[i].id \in Ids /\ tenant[i] \in Tenants /\ Owner(tenant[i].id) = tenant[i]
  <2> SUFFICES ASSUME NEW i \in UsedIdxs
               PROVE  tenant[i].id \in Ids /\ tenant[i] \in Tenants /\ Owner(tenant[i].id) = tenant[i]
    OBVIOUS
  <2>1. tenant[i].id \in Ids /\ tenant[i] \in Tenants /\ life[tenant[i].id] = 1
    BY OneLife
  <2>2. tenant[i].life = 1 /\ tenant[i] = [id |-> tenant[i].id, life |-> tenant[i].life]
    BY <2>1 DEF Tenants
  <2> QED
    BY <2>1, <2>2 DEF Owner
\* Old gradients of an index that are its run's are of its current step.
<1>7. ASSUME NEW i \in UsedIdxs, NEW g \in grad[i], g.by = tenant[i]
      PROVE  g.step = progress[i] /\ progress[i] < received'[i] /\ g.step < ReceivedStep(i)
  <2>1. g.step = progress[i] /\ progress[i] < received[i]
    BY <1>2, <1>3, <1>7 DEF RunSums, RunProgress
  <2>2. PICK p \in Nat, r \in Nat, a \in Nat, q \in Nat :
           /\ p = progress[i] /\ r = received[i] /\ a = ReceivedStep(i) /\ q = received'[i]
           /\ a = (IF r = 0 THEN p ELSE r) /\ (q = a + 1 \/ q = a)
    BY <1>5
  <2>3. p < r /\ a = r /\ p < q /\ p < a
    BY <2>1, <2>2
  <2> QED
    BY <2>1, <2>2, <2>3
<1>8. ASSUME NEW m \in DOMAIN inbox'
      PROVE  \E i \in UsedIdxs : /\ inbox'[m].idx = i /\ inbox'[m].step = ReceivedStep(i)
                                 /\ inbox'[m].by = tenant[i] /\ received'[i] = ReceivedStep(i) + 1
  <2>1. PICK i \in UsedIdxs : inbox'[m] = BatchOf(i) /\ received'[i] = ReceivedStep(i) + 1
    BY ReceiveGives
  <2> QED
    BY <1>6, <2>1 DEF BatchOf
<1>9. RunOwners'
  <2>1. \A i \in Idxs : \A g \in grad[i] : g \in Grads /\ (IsOver(g.by.id)' \/ (tenant[i] # NoRun /\ g.by = tenant[i]))
    BY <1>1, OwnersStay DEF RunSums
  <2>2. \A i \in Idxs : \A g \in grad'[i] :
           g \in Grads /\ (IsOver(g.by.id)' \/ (tenant'[i] # NoRun /\ g.by = tenant'[i]))
    BY <1>1, <2>1
  <2>3. /\ \A i \in Idxs : IsFiniteSet(grad[i])
        /\ \A i \in UsedIdxs : \A k \in 1 .. Len(buffers[i]) : buffers[i][k].by = tenant[i]
    BY DEF RunSums, RunOwners
  <2>4. \A k \in 1 .. Len(packed') : packed'[k].by = tenant'[packed'[k].idx]
    BY <1>1, <1>4
  <2>5. \A m \in DOMAIN inbox' : inbox'[m].by = tenant'[inbox'[m].idx]
    BY <1>1, <1>8
  <2> QED
    BY <1>1, <1>2, <2>2, <2>3, <2>4, <2>5 DEF RunOwners
<1>10. RunProgress'
  <2>1. ASSUME NEW i \in Idxs, received'[i] = 0 PROVE progress'[i] = 1
    <3>1. CASE i \in UsedIdxs
      <4>1. received'[i] # 0
        BY <1>5, <3>1
      <4> QED
        BY <2>1, <4>1
    <3>2. CASE i \notin UsedIdxs
      BY <1>1, <2>1, <3>2 DEF RunSums, RunProgress
    <3> QED
      BY <3>1, <3>2
  <2>2. \A i \in UsedIdxs' : \A g \in grad'[i] : g.by = tenant'[i] => g.step = Current(i)' /\ Current(i)' < received'[i]
    BY <1>1, <1>2, <1>3, <1>7
  <2>3. ASSUME NEW m \in DOMAIN inbox', NEW i, i = inbox'[m].idx
        PROVE  /\ received'[i] = inbox'[m].step + 1
               /\ \A k \in 1 .. Len(buffers'[i]) : buffers'[i][k].step < inbox'[m].step
               /\ \A g \in grad'[i] : g.by = tenant'[i] => g.step < inbox'[m].step
    <3>1. i \in UsedIdxs /\ inbox'[m].step = ReceivedStep(i) /\ received'[i] = ReceivedStep(i) + 1
      BY <1>8, <2>3
    <3>2. \A k \in 1 .. Len(buffers[i]) : buffers[i][k].step < ReceivedStep(i)
      BY <3>1, NextBatch
    <3> QED
      BY <1>1, <1>7, <3>1, <3>2
  <2>4. \A k \in 1 .. Len(packed') : packed'[k].step < received'[packed'[k].idx]
    BY <1>1, <1>4
  <2>5. phase' \notin {"sync", "train"}
    BY <1>1
  <2> QED
    BY <2>1, <2>2, <2>3, <2>4, <2>5 DEF RunProgress
<1>11. RunTokens'
  <2>1. ASSUME NEW i \in UsedIdxs, ~IsOver(tenant[i].id)'
        PROVE  /\ received'[i] <= Len(wrote[tenant[i].id]) + 1
               /\ \A s \in Current(i)' .. received'[i] - 1 : ~Arrives(i, s)' =>
                     InGrads(i, s)' + InPack(i, s)' + InBuffer(i, s)' = SumOf(wrote[tenant[i].id][s])
    <3>1. ~IsOver(tenant[i].id)
      <4>1. PICK x \in Ids : x = tenant[i].id
        BY <1>6
      <4>2. ~IsOver(x)'
        BY <1>1, <2>1, <4>1 DEF IsOver
      <4> QED
        BY <1>1, <4>1, <4>2 DEF IsOver
    <3>2. \A s : ~Arrives(i, s)
      BY <1>1 DEF Arrives
    <3>3. /\ received[i] <= Len(wrote[tenant[i].id]) + 1
          /\ \A s \in Current(i) .. received[i] - 1 :
                InGrads(i, s) + InPack(i, s) + InBuffer(i, s) = SumOf(wrote[tenant[i].id][s])
      BY <3>1, <3>2 DEF RunSums, RunTokens
    <3>4. \A s : InGrads(i, s)' = InGrads(i, s) /\ InPack(i, s)' = InPack(i, s) /\ InBuffer(i, s)' = InBuffer(i, s)
      BY <1>1 DEF InGrads, InPack, InBuffer, PackedAt
    <3>5. PICK p \in Nat, r \in Nat, a \in Nat, q \in Nat :
             /\ p = progress[i] /\ r = received[i] /\ a = ReceivedStep(i) /\ q = received'[i]
             /\ p <= a /\ p >= 1 /\ a = (IF r = 0 THEN p ELSE r) /\ (r = 0 => p = 1)
             /\ (q = a + 1 \/ q = a) /\ (HasBatch(i) <=> q = a + 1)
      BY <1>5
    <3>6. PICK n \in Nat : n = Len(wrote[tenant[i].id])
      BY <1>6, LenProperties DEF RunBase, RunShapes
    <3>7. q <= n + 1
      <4>1. CASE q = a + 1
        <5>1. a <= n
          BY <3>5, <3>6, <4>1 DEF HasBatch
        <5> QED
          BY <4>1, <5>1
      <4>2. CASE q = a
        BY <3>3, <3>5, <3>6, <4>2
      <4> QED
        BY <3>5, <4>1, <4>2
    <3>8. ASSUME NEW s \in Current(i)' .. received'[i] - 1, ~Arrives(i, s)'
          PROVE  s \in Current(i) .. received[i] - 1
      <4>1. s \in p .. q - 1 /\ Current(i) = p
        BY <1>2, <1>3, <3>5, <3>8
      <4>2. CASE s = a
        <5>1. q = a + 1
          BY <3>5, <4>1, <4>2
        <5>2. PICK m \in DOMAIN inbox' : inbox'[m] = BatchOf(i)
          BY <3>5, <5>1, ReceiveMoves
        <5>3. inbox'[m].idx = i /\ inbox'[m].step = ReceivedStep(i)
          BY <5>2 DEF BatchOf
        <5>4. inbox'[m].step = s
          BY <3>5, <4>2, <5>3
        <5> QED
          BY <1>1, <3>8, <5>3, <5>4 DEF Arrives
      <4>3. CASE s # a
        BY <3>5, <4>1, <4>3
      <4> QED
        BY <4>2, <4>3
    <3> QED
      BY <3>3, <3>4, <3>5, <3>6, <3>7, <3>8
  <2> QED
    BY <1>1, <1>2, <2>1 DEF RunTokens
<1>12. RunUpdates'
  BY <1>1, NoUpdates DEF RunSums, RunUpdates
<1> QED
  BY <1>9, <1>10, <1>11, <1>12 DEF RunSums

\* Samples of one step are appended to a buffer.
Appended(d, b, c, t) == /\ b \in Seq(Good) /\ c \in Seq(Good) /\ d = b \o c
                        /\ \A k \in 1 .. Len(c) : c[k].step = t

\* What is appended to a buffer leaves the tokens of the other steps alone.
LEMMA BufferElse ==
    ASSUME NEW b, NEW c, NEW d, NEW t, Appended(d, b, c, t), NEW s, s # t
    PROVE  Total(Lens(d), StepAt(d, s)) = Total(Lens(b), StepAt(b, s))
<1> USE DEF Appended
<1>1. PICK x \in Nat, y \in Nat : x = Len(b) /\ y = Len(c)
  BY LenProperties
<1>3. /\ d \in Seq(Good) /\ Len(d) = x + y
      /\ \A k \in 1 .. x + y : d[k] = IF k <= x THEN b[k] ELSE c[k - x]
  BY <1>1
<1>4. \A g \in Good : g.len \in Nat
  BY DEF Good, Samples
<1>5. \A k \in 1 .. x + y : Lens(d)[k] = d[k].len /\ Lens(d)[k] \in Nat
  BY <1>3, <1>4, StepTokens
<1>6. \A k \in 1 .. x : Lens(b)[k] = b[k].len /\ Lens(b)[k] \in Nat
  BY <1>1, <1>4, StepTokens
<1>7. Total(Lens(d), StepAt(d, s)) = Total(Lens(b), StepAt(b, s))
  <2>1. ASSUME NEW k \in 1 .. x + y PROVE d[k].step = s <=> (k <= x /\ b[k].step = s)
    <3>1. CASE k <= x
      BY <1>3, <3>1
    <3>2. CASE ~(k <= x)
      <4>1. k - x \in 1 .. y
        BY <3>2
      <4> QED
        BY <1>1, <1>3, <3>2, <4>1
    <3> QED
      BY <3>1, <3>2
  <2>2. StepAt(d, s) = StepAt(b, s)
    <3>1. StepAt(d, s) = {k \in 1 .. x + y : d[k].step = s}
      BY <1>3 DEF StepAt
    <3>2. StepAt(b, s) = {k \in 1 .. x : b[k].step = s}
      BY <1>1 DEF StepAt
    <3>3. \A k \in 1 .. x : k \in 1 .. x + y /\ k <= x
      OBVIOUS
    <3>4. \A k \in 1 .. x + y : k <= x => k \in 1 .. x
      OBVIOUS
    <3> HIDE DEF Appended
    <3> QED
      BY <2>1, <3>1, <3>2, <3>3, <3>4
  <2>3. IsFiniteSet(StepAt(b, s)) /\ StepAt(b, s) \in SUBSET (1 .. x)
    <3>1. StepAt(b, s) \in SUBSET (1 .. x)
      BY <1>1 DEF StepAt
    <3> QED
      BY <1>4, <3>1, StepTokens
  <2>4. \A k \in StepAt(b, s) : Lens(d)[k] = Lens(b)[k] /\ Lens(b)[k] \in Nat
    <3>1. \A k \in 1 .. x : k \in 1 .. x + y /\ d[k] = b[k]
      BY <1>3
    <3> QED
      BY <1>5, <1>6, <2>3, <3>1
  <2> QED
    BY <2>2, <2>3, <2>4, TotalSame
<1> QED
  BY <1>7

\* A batch that is appended to a buffer that has nothing of its step.
LEMMA BufferAdds ==
    ASSUME NEW b, NEW c, NEW d, NEW t, Appended(d, b, c, t),
           \A k \in 1 .. Len(b) : b[k].step # t,
           NEW lens \in Seq(Nat), Len(lens) = Len(c), \A k \in 1 .. Len(c) : c[k].len = lens[k]
    PROVE  Total(Lens(d), StepAt(d, t)) = SumOf(lens)
<1> USE DEF Appended
<1>1. PICK x \in Nat, y \in Nat : x = Len(b) /\ y = Len(c)
  BY LenProperties
<1>3. /\ d \in Seq(Good) /\ Len(d) = x + y
      /\ \A k \in 1 .. x + y : d[k] = IF k <= x THEN b[k] ELSE c[k - x]
  BY <1>1
<1>4. \A g \in Good : g.len \in Nat
  BY DEF Good, Samples
<1>5. \A k \in 1 .. x + y : Lens(d)[k] = d[k].len /\ Lens(d)[k] \in Nat
  BY <1>3, <1>4, StepTokens
<1>6. Total(Lens(d), StepAt(d, t)) = SumOf(lens)
  <2>1. StepAt(d, t) = {k \in 1 .. x + y : d[k].step = t}
    BY <1>3 DEF StepAt
  <2>2. ASSUME NEW k \in StepAt(d, t) PROVE k - x \in 1 .. y
    <3>1. k \in 1 .. x + y /\ d[k].step = t
      BY <2>1
    <3>2. ~(k <= x)
      BY <1>1, <1>3, <3>1
    <3> QED
      BY <3>1, <3>2
  <2>3. ASSUME NEW k \in 1 .. y PROVE k + x \in StepAt(d, t) /\ lens[k] \in Nat /\ Lens(d)[k + x] = lens[k]
    <3>1. k + x \in 1 .. x + y /\ ~(k + x <= x) /\ (k + x) - x = k
      OBVIOUS
    <3>2. d[k + x] = c[k]
      BY <1>3, <3>1
    <3>3. c[k].step = t /\ c[k].len = lens[k] /\ lens[k] \in Nat
      BY <1>1
    <3> QED
      BY <1>5, <2>1, <3>1, <3>2, <3>3
  <2>4. IsFiniteSet(1 .. y)
    BY FS_Interval
  <2>5. StepAt(d, t) \in SUBSET Int /\ 1 .. y \in SUBSET Int /\ x \in Int
    BY <2>1
  <2>6. Shifts(1 .. y, StepAt(d, t), x, lens, Lens(d))
    BY <2>2, <2>3, <2>4, <2>5 DEF Shifts
  <2>7. Total(Lens(d), StepAt(d, t)) = Total(lens, 1 .. y)
    BY <2>6, TotalShifted
  <2>8. DOMAIN lens = 1 .. y /\ \A k \in 1 .. y : lens[k] \in Nat
    BY <1>1
  <2>9. SumOf(lens) = Total(lens, 1 .. y)
    BY <2>8, SumOfLengths
  <2> QED
    BY <2>7, <2>9
<1> QED
  BY <1>6

\* Buffering: what was received is buffered whole, or the run is evicted.
LEMMA SumsBuffer ==
    ASSUME MaxLives = 1, RunBase, RunOnce, RunSums, Buffer
    PROVE  RunSums'
<1>1. /\ UNCHANGED <<life, wrote, tenant, progress, received, ready, packed>>
      /\ phase = "buffer" /\ phase' = "rediscover" /\ inbox' = << >>
      /\ evicted' = [r \in Ids |-> evicted[r] \/ r \in EvictedIds]
  BY BufferGives
<1>2. grad' = grad /\ updates' = updates /\ [RunsNext]_runsVars
  BY DEF Buffer, RunsNext, Trainer
<1>3. UsedIdxs' = UsedIdxs /\ \A i \in UsedIdxs : i \in Idxs
  BY <1>1 DEF UsedIdxs
<1>4. \A i \in Idxs : Current(i)' = Current(i)
  BY <1>1 DEF Current
<1>5. Len(packed) = 0 /\ packed = << >>
  BY <1>1 DEF RunBase, RunPacks
<1>6. ASSUME NEW i \in Idxs
      PROVE  \/ buffers'[i] = buffers[i] /\ \A m \in DOMAIN inbox : inbox[m].idx # i
             \/ \E m : Buffered1(i, m)
  BY BufferGives
<1>7. RunOwners'
  <2>1. \A i \in Idxs : \A g \in grad[i] : g \in Grads /\ (IsOver(g.by.id)' \/ (tenant[i] # NoRun /\ g.by = tenant[i]))
    BY <1>2, OwnersStay DEF RunSums
  <2>2. \A i \in Idxs : \A g \in grad'[i] :
           g \in Grads /\ (IsOver(g.by.id)' \/ (tenant'[i] # NoRun /\ g.by = tenant'[i]))
    BY <1>1, <1>2, <2>1
  <2>3. ASSUME NEW i \in UsedIdxs, NEW k \in 1 .. Len(buffers'[i]) PROVE buffers'[i][k].by = tenant[i]
    <3>1. \A j \in 1 .. Len(buffers[i]) : buffers[i][j].by = tenant[i]
      BY DEF RunSums, RunOwners
    <3>2. CASE buffers'[i] = buffers[i]
      BY <2>3, <3>1, <3>2
    <3>3. CASE \E m : Buffered1(i, m)
      <4>1. PICK m : Buffered1(i, m)
        BY <3>3
      <4>2. /\ m \in DOMAIN inbox /\ inbox[m].idx = i
            /\ \/ k \in 1 .. Len(buffers[i]) /\ buffers'[i][k] = buffers[i][k]
               \/ buffers'[i][k].by = inbox[m].by
        BY <1>3, <2>3, <4>1, BufferedSamples
      <4>3. inbox[m].by = tenant[i]
        BY <1>1, <4>2 DEF RunSums, RunOwners
      <4> QED
        BY <3>1, <4>2, <4>3
    <3> QED
      BY <1>3, <1>6, <3>2, <3>3
  <2>4. \A i \in Idxs : IsFiniteSet(grad[i])
    BY DEF RunSums, RunOwners
  <2>5. \A k \in 1 .. Len(packed') : packed'[k].by = tenant'[packed'[k].idx]
    BY <1>1, <1>5
  <2>6. phase' # "buffer"
    BY <1>1
  <2> QED
    BY <1>1, <1>2, <1>3, <2>2, <2>3, <2>4, <2>5, <2>6 DEF RunOwners
<1>8. RunProgress'
  <2>1. /\ \A i \in Idxs : received[i] = 0 => progress[i] = 1
        /\ \A i \in UsedIdxs : \A g \in grad[i] :
              g.by = tenant[i] => g.step = Current(i) /\ Current(i) < received[i]
    BY DEF RunSums, RunProgress
  <2>2. \A k \in 1 .. Len(packed') : packed'[k].step < received'[packed'[k].idx]
    BY <1>1, <1>5
  <2>3. phase' \notin {"buffer", "sync", "train"}
    BY <1>1
  <2> QED
    BY <1>1, <1>2, <1>3, <1>4, <2>1, <2>2, <2>3 DEF RunProgress
<1>9. RunTokens'
  <2>1. ASSUME NEW i \in UsedIdxs, ~IsOver(tenant[i].id)'
        PROVE  /\ received[i] <= Len(wrote[tenant[i].id]) + 1
               /\ \A s \in Current(i) .. received[i] - 1 :
                     InGrads(i, s)' + InPack(i, s)' + InBuffer(i, s)' = SumOf(wrote[tenant[i].id][s])
    <3>1. PICK r \in Ids : r = tenant[i].id /\ life[r] = 1
      BY OneLife
    <3>2. ~IsOver(r)'
      BY <1>1, <2>1, <3>1 DEF IsOver
    <3>3. ~IsOver(r)
      BY <1>2, <3>1, <3>2, DiskGrows
    <3>4. /\ received[i] <= Len(wrote[r]) + 1
          /\ \A s \in Current(i) .. received[i] - 1 : ~Arrives(i, s) =>
                InGrads(i, s) + InPack(i, s) + InBuffer(i, s) = SumOf(wrote[r][s])
      BY <3>1, <3>3 DEF RunSums, RunTokens
    <3>5. \A s : InGrads(i, s)' = InGrads(i, s) /\ InPack(i, s)' = InPack(i, s)
      BY <1>1, <1>2 DEF InGrads, InPack, PackedAt
    <3>6. buffers[i] \in Seq(Good) /\ i \in Idxs
      BY <1>3 DEF RunBase, RunShapes
    <3>7. ASSUME NEW s \in Current(i) .. received[i] - 1
          PROVE  InGrads(i, s)' + InPack(i, s)' + InBuffer(i, s)' = SumOf(wrote[r][s])
      <4>1. CASE buffers'[i] = buffers[i] /\ \A m \in DOMAIN inbox : inbox[m].idx # i
        <5>1. ~Arrives(i, s)
          BY <4>1 DEF Arrives
        <5>2. InBuffer(i, s)' = InBuffer(i, s)
          BY <4>1 DEF InBuffer
        <5> QED
          BY <3>4, <3>5, <5>1, <5>2
      <4>2. CASE \E m : Buffered1(i, m)
        <5>1. PICK m : Buffered1(i, m)
          BY <4>2
        <5>2. /\ m \in DOMAIN inbox /\ inbox[m].idx = i /\ inbox[m] \in Arrivals
              /\ buffers'[i] = buffers[i] \o Accepted(inbox[m])
          BY <3>6, <5>1, BufferedSamples DEF Buffered1
        <5>3. PICK c \in Seq(Good), t \in Nat, lens \in Seq(Nat) :
                 /\ c = Accepted(inbox[m]) /\ t = inbox[m].step /\ lens = inbox[m].lens
                 /\ \A k \in 1 .. Len(c) : c[k].step = t /\ c[k].len = lens[k]
                 /\ ~Bad(inbox[m]) => Len(c) = Len(lens)
          <6>1. inbox[m].step \in Nat /\ inbox[m].lens \in Seq(Nat)
            BY <5>2, RunSettings DEF Arrivals
          <6>2. /\ Accepted(inbox[m]) \in Seq(Good)
                /\ \A k \in 1 .. Len(Accepted(inbox[m])) :
                      Accepted(inbox[m])[k].step = inbox[m].step /\ Accepted(inbox[m])[k].len = inbox[m].lens[k]
                /\ ~Bad(inbox[m]) => Len(Accepted(inbox[m])) = Len(inbox[m].lens)
            BY <5>2, AcceptedAre
          <6> QED
            BY <6>1, <6>2
        <5>4. /\ received[i] = t + 1
              /\ \A k \in 1 .. Len(buffers[i]) : buffers[i][k].step < t
              /\ \A g \in grad[i] : g.by = tenant[i] => g.step < t
          BY <1>1, <5>2, <5>3 DEF RunSums, RunProgress
        <5>5. Appended(buffers'[i], buffers[i], c, t)
          BY <3>6, <5>2, <5>3 DEF Appended
        <5>6. CASE s # t
          <6>1. ~Arrives(i, s)
            <7>1. ASSUME NEW h \in DOMAIN inbox, inbox[h].idx = i, inbox[h].step = s PROVE FALSE
              <8>1. received[i] = s + 1
                BY <1>1, <7>1 DEF RunSums, RunProgress
              <8>2. s \in Int
                BY <7>1 DEF RunBase, RunShapes, Arrivals
              <8> QED
                BY <5>3, <5>4, <5>6, <8>1, <8>2
            <7> QED
              BY <7>1 DEF Arrives
          <6>2. InBuffer(i, s)' = InBuffer(i, s)
            <7>1. Total(Lens(buffers'[i]), StepAt(buffers'[i], s)) = Total(Lens(buffers[i]), StepAt(buffers[i], s))
              BY <5>5, <5>6, BufferElse
            <7> QED
              BY <7>1 DEF InBuffer
          <6> QED
            BY <3>4, <3>5, <6>1, <6>2
        <5>7. CASE s = t
          <6>1. ~Bad(inbox[m])
            <7>1. ASSUME Bad(inbox[m]) PROVE FALSE
              <8>1. i \in Evictions
                BY <5>2, <7>1 DEF Evictions
              <8>2. r \in EvictedIds
                BY <3>1, <8>1 DEF EvictedIds
              <8>3. evicted'[r] /\ life'[r] = 1
                BY <1>1, <3>1, <8>2
              <8> QED
                BY <3>2, <8>3 DEF IsOver
            <7> QED
              BY <7>1
          <6>2. \A k \in 1 .. Len(buffers[i]) : buffers[i][k].step # t
            <7>1. \A k \in 1 .. Len(buffers[i]) : buffers[i][k].step \in Nat
              BY <3>6, SamplesAre DEF RunBase
            <7> QED
              BY <5>3, <5>4, <7>1
          <6>3. InBuffer(i, s)' = SumOf(lens)
            <7>1. Len(lens) = Len(c) /\ \A k \in 1 .. Len(c) : c[k].len = lens[k]
              BY <5>3, <6>1
            <7>2. Total(Lens(buffers'[i]), StepAt(buffers'[i], t)) = SumOf(lens)
              BY <5>5, <6>2, <7>1, BufferAdds
            <7> QED
              BY <5>7, <7>2 DEF InBuffer
          <6>4. lens = wrote[r][s]
            BY <1>1, <3>1, <3>3, <5>2, <5>3, <5>7 DEF RunOnce, RunBatches
          <6>5. InGrads(i, s) = 0
            <7>1. \A g \in grad[i] : g \in Grads
              BY <3>6 DEF RunSums, RunOwners
            <7>2. \A g \in grad[i] : g.by = tenant[i] => g.step # s
              BY <5>3, <5>4, <5>7, <7>1 DEF Grads
            <7>3. Of(grad[i], tenant[i], s) = {}
              BY <7>2 DEF Of
            <7> QED
              BY <7>3, TotalOfNone DEF InGrads, TokensIn
          <6>6. InPack(i, s) = 0
            <7>1. PackedAt(i, s) = {}
              BY <1>5 DEF PackedAt
            <7> QED
              BY <7>1, TotalOfNone DEF InPack
          <6>7. SumOf(lens) \in Nat
            <7>1. PICK n \in Nat : DOMAIN lens = 1 .. n /\ \A k \in 1 .. n : lens[k] \in Nat
              BY LenProperties
            <7> QED
              BY <7>1, SumOfLengths
          <6> QED
            BY <3>5, <6>3, <6>4, <6>5, <6>6, <6>7
        <5> QED
          BY <5>6, <5>7
      <4> QED
        BY <1>6, <3>6, <4>1, <4>2
    <3> QED
      BY <3>1, <3>4, <3>7
  <2>2. \A i \in UsedIdxs : Current(i)' = Current(i)
    BY <1>3, <1>4
  <2> QED
    BY <1>1, <1>3, <2>1, <2>2 DEF RunTokens
<1>10. RunUpdates'
  BY <1>1, <1>2, NoUpdates DEF RunSums, RunUpdates
<1> QED
  BY <1>7, <1>8, <1>9, <1>10 DEF RunSums

\* The tokens of a step of an index before and after a pack.
LEMMA PackSums ==
    ASSUME RunBase, Pack, NEW i \in Idxs, NEW s
    PROVE  InPack(i, s)' \in Nat /\ InPack(i, s)' + InBuffer(i, s)' = InBuffer(i, s)
<1>1. PICK o \in Nat, c \in 0 .. Len(buffers[i]) :
         /\ buffers'[i] = RestOf(buffers[i], c)
         /\ {k \in 1 .. Len(packed') : packed'[k].idx = i} = (o + 1) .. (o + c)
         /\ \A j \in 1 .. c : packed'[o + j] = At(i, buffers[i][j])
  BY PackTakes
<1>2. packed' \in Seq(Turns)
  BY BaseStep DEF RunsNext, Trainer, RunBase, RunShapes
<1>3. PICK b \in Seq(Good), n \in Nat, q \in Seq(Turns) : b = buffers[i] /\ n = Len(b) /\ q = packed'
  <2>1. buffers[i] \in Seq(Good) /\ Len(buffers[i]) \in Nat
    BY LenProperties DEF RunBase, RunShapes
  <2> QED
    BY <1>2, <2>1
<1>5. c \in 0 .. n /\ {k \in 1 .. Len(q) : q[k].idx = i} = (o + 1) .. (o + c) /\ \A j \in 1 .. c : q[o + j] = At(i, b[j])
  BY <1>1, <1>3
<1>a. PICK r : r = buffers'[i]
  OBVIOUS
<1>b. Takes(q, i, n, b, c, o, r)
  BY <1>1, <1>3, <1>5, <1>a DEF Takes
<1>6. /\ Total(Lens(q), TakenAt(q, i, s)) \in Nat
      /\ Total(Lens(q), TakenAt(q, i, s)) + Total(Lens(r), StepAt(r, s)) = Total(Lens(b), StepAt(b, s))
  BY <1>b, PackMoves
<1>7. PackedAt(i, s)' = TakenAt(q, i, s)
  BY <1>3 DEF PackedAt, TakenAt
<1>8. InPack(i, s)' = Total(Lens(q), TakenAt(q, i, s))
  BY <1>3, <1>7 DEF InPack
<1>9. InBuffer(i, s)' = Total(Lens(r), StepAt(r, s))
  BY <1>a DEF InBuffer
<1>10. InBuffer(i, s) = Total(Lens(b), StepAt(b, s))
  BY <1>3 DEF InBuffer
<1> QED
  BY <1>6, <1>8, <1>9, <1>10

\* Packing: what is packed leaves the buffers.
LEMMA SumsPack ==
    ASSUME MaxLives = 1, RunBase, RunOnce, RunSums, Pack
    PROVE  RunSums'
<1>1. /\ UNCHANGED <<dir, life, evicted, wrote, tenant, received, inbox, grad, updates>>
      /\ phase = "pack" /\ phase' = "sync" /\ [RunsNext]_runsVars
  BY DEF Pack, disk, RunsNext, Trainer
<1>2. PICK popped, Over : PacksAs(popped, Over)
  BY PackGives
<1>3. /\ progress' = [i \in Idxs |-> IF i \in Over THEN progress[i] + 1 ELSE progress[i]]
      /\ ready' = [i \in Idxs |-> ready[i] \/ i \in Over]
  BY <1>2 DEF PacksAs
<1>4. \A i \in Idxs : ~ready[i]
  BY <1>1 DEF RunBase, RunIndices
<1>5. \A i \in Idxs : progress[i] \in Nat \ {0} /\ received[i] \in Nat /\ buffers[i] \in Seq(Good) /\ Len(buffers[i]) \in Nat
  BY LenProperties DEF RunBase, RunShapes
<1>6. /\ \A k \in 1 .. Len(packed') :
            /\ packed'[k].idx \in Idxs /\ packed'[k].step = progress[packed'[k].idx]
            /\ \E m \in 1 .. Len(buffers[packed'[k].idx]) :
                   buffers[packed'[k].idx][m].step = packed'[k].step
      /\ \A i \in Over : i \in Idxs /\ progress[i] + 1 <= received[i]
  BY <1>2, PackedSamples
<1>7. ASSUME NEW i \in Idxs PROVE Current(i)' = progress[i] /\ Current(i) = progress[i]
  <2>1. Current(i) = progress[i]
    BY <1>1 DEF Current
  <2>2. CASE i \in Over
    <3>1. ready'[i] /\ progress'[i] = progress[i] + 1
      BY <1>3, <2>2
    <3>2. progress[i] + 1 - 1 = progress[i]
      BY <1>5
    <3>3. phase' \in {"sync", "train"}
      BY <1>1
    <3>4. Current(i)' = progress'[i] - 1
      BY <3>1, <3>3 DEF Current
    <3>5. PICK p \in Nat : p = progress[i] /\ progress'[i] = p + 1 /\ p + 1 - 1 = p
      BY <1>5, <3>1, <3>2
    <3> QED
      BY <2>1, <3>4, <3>5
  <2>3. CASE i \notin Over
    <3>1. ~ready'[i] /\ progress'[i] = progress[i]
      BY <1>3, <1>4, <2>3
    <3>2. Current(i)' = progress'[i]
      BY <3>1 DEF Current
    <3> QED
      BY <2>1, <3>1, <3>2
  <2> QED
    BY <2>2, <2>3
<1>8. UsedIdxs' = UsedIdxs /\ \A i \in UsedIdxs : i \in Idxs
  BY <1>1 DEF UsedIdxs
<1>9. RunOwners'
  <2>1. \A i \in Idxs : \A g \in grad[i] : g \in Grads /\ (IsOver(g.by.id)' \/ (tenant[i] # NoRun /\ g.by = tenant[i]))
    BY <1>1, OwnersStay DEF RunSums
  <2>2. \A i \in Idxs : \A g \in grad'[i] :
           g \in Grads /\ (IsOver(g.by.id)' \/ (tenant'[i] # NoRun /\ g.by = tenant'[i]))
    BY <1>1, <2>1
  <2>3. ASSUME NEW i \in Idxs
        PROVE  /\ i \in UsedIdxs => \A k \in 1 .. Len(buffers'[i]) : buffers'[i][k].by = tenant[i]
               /\ \A k \in 1 .. Len(packed') : packed'[k].idx = i => packed'[k].by = tenant[i]
    <3>1. PICK o \in Nat, c \in 0 .. Len(buffers[i]) :
             /\ buffers'[i] = RestOf(buffers[i], c)
             /\ {k \in 1 .. Len(packed') : packed'[k].idx = i} = (o + 1) .. (o + c)
             /\ \A j \in 1 .. c : packed'[o + j] = At(i, buffers[i][j])
      BY PackTakes
    <3>2. PICK n \in Nat : n = Len(buffers[i]) /\ c \in 0 .. n
      BY <1>5, <3>1
    <3>3. i \in UsedIdxs => \A k \in 1 .. n : buffers[i][k].by = tenant[i]
      BY <3>2 DEF RunSums, RunOwners
    <3>4. \A k \in 1 .. Len(buffers'[i]) : c + k \in 1 .. n /\ buffers'[i][k] = buffers[i][c + k]
      BY <1>5, <3>1, <3>2, RestIs
    <3>5. ASSUME NEW k \in 1 .. Len(packed'), packed'[k].idx = i PROVE packed'[k].by = tenant[i]
      <4>1. k \in (o + 1) .. (o + c)
        BY <3>1, <3>5
      <4>2. k - o \in 1 .. c /\ o + (k - o) = k /\ k - o \in 1 .. n
        BY <3>2, <4>1
      <4>3. packed'[k] = At(i, buffers[i][k - o])
        BY <3>1, <4>2
      <4>4. i \in UsedIdxs
        <5>1. tenant[i] = NoRun => buffers[i] = << >>
          BY DEF RunBase, RunIndices
        <5>2. buffers[i] = << >> => n = 0
          BY <3>2
        <5>3. n # 0
          BY <4>2
        <5> QED
          BY <5>1, <5>2, <5>3 DEF UsedIdxs
      <4> QED
        BY <3>3, <4>2, <4>3, <4>4 DEF At
    <3> QED
      BY <3>3, <3>4, <3>5, SMTT(30)
  <2>4. \A i \in Idxs : IsFiniteSet(grad[i])
    BY DEF RunSums, RunOwners
  <2>5. \A k \in 1 .. Len(packed') : packed'[k].by = tenant'[packed'[k].idx]
    BY <1>1, <1>6, <2>3
  <2>6. phase' # "buffer"
    BY <1>1
  <2> QED
    BY <1>1, <1>8, <2>2, <2>3, <2>4, <2>5, <2>6 DEF RunOwners
<1>10. RunProgress'
  <2>1. ASSUME NEW i \in Idxs, received'[i] = 0 PROVE progress'[i] = 1
    <3>1. received[i] = 0 /\ progress[i] = 1
      BY <1>1, <2>1 DEF RunSums, RunProgress
    <3>2. i \notin Over
      BY <1>5, <1>6, <3>1
    <3> QED
      BY <1>3, <3>1, <3>2
  <2>2. \A i \in UsedIdxs' : \A g \in grad'[i] : g.by = tenant'[i] => g.step = Current(i)' /\ Current(i)' < received'[i]
    BY <1>1, <1>7, <1>8 DEF RunSums, RunProgress
  <2>3. ASSUME NEW k \in 1 .. Len(packed') PROVE packed'[k].step < received'[packed'[k].idx]
    <3>1. PICK i \in Idxs : i = packed'[k].idx
      BY <1>6
    <3>2. PICK m \in 1 .. Len(buffers[i]) : buffers[i][m].step = packed'[k].step
      BY <1>6, <3>1
    <3>3. buffers[i][m].step < received[i]
      BY DEF RunBase, RunSteps
    <3> QED
      BY <1>1, <3>1, <3>2, <3>3
  <2>4. ASSUME NEW i \in Idxs, ready'[i] PROVE Current(i)' < received'[i]
    <3>1. i \in Over
      BY <1>3, <1>4, <2>4
    <3>2. progress[i] + 1 <= received[i] /\ progress[i] \in Nat /\ received[i] \in Nat
      BY <1>5, <1>6, <3>1
    <3>3. progress[i] < received[i]
      BY <3>2
    <3> QED
      BY <1>1, <1>7, <3>3
  <2>5. phase' # "buffer"
    BY <1>1
  <2> QED
    BY <2>1, <2>2, <2>3, <2>4, <2>5 DEF RunProgress
<1>11. RunTokens'
  <2>1. ASSUME NEW i \in UsedIdxs, ~IsOver(tenant[i].id)'
        PROVE  /\ received[i] <= Len(wrote[tenant[i].id]) + 1
               /\ \A s \in Current(i) .. received[i] - 1 :
                     InGrads(i, s)' + InPack(i, s)' + InBuffer(i, s)' = SumOf(wrote[tenant[i].id][s])
    <3>1. ~IsOver(tenant[i].id)
      <4>1. PICK x \in Ids : x = tenant[i].id
        BY OneLife
      <4>2. ~IsOver(x)'
        BY <1>1, <2>1, <4>1 DEF IsOver
      <4> QED
        BY <1>1, <4>1, <4>2 DEF IsOver
    <3>2. \A s : ~Arrives(i, s)
      BY <1>1 DEF Arrives
    <3>3. /\ received[i] <= Len(wrote[tenant[i].id]) + 1
          /\ \A s \in Current(i) .. received[i] - 1 :
                InGrads(i, s) + InPack(i, s) + InBuffer(i, s) = SumOf(wrote[tenant[i].id][s])
      BY <3>1, <3>2 DEF RunSums, RunTokens
    <3>4. ASSUME NEW s PROVE InGrads(i, s)' + InPack(i, s)' + InBuffer(i, s)' = InGrads(i, s) + InPack(i, s) + InBuffer(i, s)
      <4>1. InGrads(i, s)' = InGrads(i, s)
        BY <1>1 DEF InGrads
      <4>2. InPack(i, s) = 0
        <5>1. Len(packed) = 0
          BY <1>1 DEF RunBase, RunPacks
        <5>2. PackedAt(i, s) = {}
          BY <5>1 DEF PackedAt
        <5> QED
          BY <5>2, TotalOfNone DEF InPack
      <4>3. InPack(i, s)' \in Nat /\ InPack(i, s)' + InBuffer(i, s)' = InBuffer(i, s)
        BY <1>8, PackSums
      <4>4. InGrads(i, s) \in Nat
        <5>1. Grads \subseteq RawGrads
          BY DEF Grads, RawGrads
        <5>2. grad[i] \in SUBSET RawGrads /\ IsFiniteSet(grad[i])
          BY <1>8, <5>1 DEF RunSums, RunOwners
        <5> QED
          BY <5>2, TokensInIs DEF InGrads
      <4>5. InBuffer(i, s)' \in Nat
        <5>1. buffers'[i] \in Seq(Good)
          BY <1>8, BaseStep DEF RunsNext, Trainer, RunBase, RunShapes
        <5>2. \A x \in Good : x.len \in Nat
          BY DEF Good, Samples
        <5>3. Total(Lens(buffers'[i]), StepAt(buffers'[i], s)) \in Nat
          BY <5>1, <5>2, StepTokens
        <5> QED
          BY <5>3 DEF InBuffer
      <4> QED
        BY <4>1, <4>2, <4>3, <4>4, <4>5
    <3> QED
      BY <3>3, <3>4
  <2>2. \A i \in UsedIdxs : Current(i)' = Current(i)
    BY <1>7, <1>8
  <2> QED
    BY <1>1, <1>8, <2>1, <2>2 DEF RunTokens
<1>12. RunUpdates'
  BY <1>1, NoUpdates DEF RunSums, RunUpdates
<1> QED
  BY <1>9, <1>10, <1>11, <1>12 DEF RunSums

\* The gradients of index i after the micro batches were run.
Trained(i) == Scaled(grad[i] \cup Contribution(i))

\* What is trained at an index is of the step its run is at.
LEMMA TrainedStep ==
    ASSUME RunBase, RunSums, phase = "train", NEW i \in UsedIdxs
    PROVE  \A h \in Trained(i) : h.by = tenant[i] => h.step = Current(i) /\ Current(i) < received[i]
<1>1. i \in Idxs
  BY DEF UsedIdxs
<1>2. \A h \in Trained(i) : \/ \E g \in grad[i] : h.by = g.by /\ h.step = g.step
                            \/ /\ tenant[i] # NoRun /\ h.by = tenant[i] /\ h.step = Current(i)
                               /\ \E k \in 1 .. Len(packed) : packed[k].idx = i /\ packed[k].step = h.step
  BY <1>1, TrainedTokens DEF Trained, RunSums
<1>3. \A g \in grad[i] : g.by = tenant[i] => g.step = Current(i) /\ Current(i) < received[i]
  BY DEF RunSums, RunProgress
<1>4. \A k \in 1 .. Len(packed) : packed[k].step < received[packed[k].idx]
  BY DEF RunSums, RunProgress
<1>5. ASSUME NEW h \in Trained(i), h.by = tenant[i] PROVE h.step = Current(i) /\ Current(i) < received[i]
  <2>1. CASE \E g \in grad[i] : h.by = g.by /\ h.step = g.step
    BY <1>3, <1>5, <2>1
  <2>2. CASE /\ h.step = Current(i)
             /\ \E k \in 1 .. Len(packed) : packed[k].idx = i /\ packed[k].step = h.step
    BY <1>4, <2>2
  <2> QED
    BY <1>2, <1>5, <2>1, <2>2
<1> QED
  BY <1>5

\* What the trainer's step changes, with the steps it counts.
LEMMA TrainMoves ==
    ASSUME MaxLives = 1, RunBase, RunOnce, Train, NEW i \in UsedIdxs
    PROVE  \E p \in Nat \ {0}, c \in Nat \ {0}, d \in Nat :
              /\ p = progress[i] /\ c = Current(i) /\ d = received[i] /\ Current(i)' = p
              /\ p = IF ready[i] THEN c + 1 ELSE c
<1>1. phase = "train" /\ phase' = "broadcast" /\ progress' = progress /\ ready' = ready
  BY DEF Train, runs
<1>2. /\ Current(i) \in Nat \ {0} /\ received[i] \in Nat
      /\ progress[i] = IF ready[i] /\ phase \in {"sync", "train"} THEN Current(i) + 1 ELSE Current(i)
  BY StepsOnDisk
<1>3. Current(i)' = progress[i]
  BY <1>1 DEF Current
<1>4. progress[i] \in Nat \ {0}
  BY DEF RunBase, RunShapes, UsedIdxs
<1>5. progress[i] = IF ready[i] THEN Current(i) + 1 ELSE Current(i)
  BY <1>1, <1>2
<1> QED
  BY <1>2, <1>3, <1>4, <1>5

\* A run whose step is complete has nothing of it left in its buffer.
LEMMA CompleteSteps ==
    ASSUME MaxLives = 1, RunBase, RunOnce, RunSums, Train, NEW i \in UsedIdxs, ready[i]
    PROVE  /\ InBuffer(i, Current(i)) = 0
           /\ \A s : s # Current(i) => InGrads(i, s) = 0 /\ InPack(i, s) = 0
<1>1. PICK p \in Nat \ {0}, c \in Nat \ {0}, d \in Nat :
         p = progress[i] /\ c = Current(i) /\ d = received[i] /\ Current(i)' = p /\ p = IF ready[i] THEN c + 1 ELSE c
  BY TrainMoves
<1>2. i \in Idxs /\ p = c + 1
  BY <1>1 DEF UsedIdxs
<1>3. InBuffer(i, Current(i)) = 0
  <2>1. \A k \in 1 .. Len(buffers[i]) : p <= buffers[i][k].step /\ buffers[i][k].step \in Nat
    BY <1>1, <1>2, SamplesAre DEF RunBase, RunSteps
  <2>2. \A k \in 1 .. Len(buffers[i]) : buffers[i][k].step # c
    BY <1>2, <2>1
  <2>3. StepAt(buffers[i], c) = {}
    BY <2>2 DEF StepAt
  <2> QED
    BY <1>1, <2>3, TotalOfNone DEF InBuffer
<1>4. ASSUME NEW s, s # Current(i) PROVE InGrads(i, s) = 0 /\ InPack(i, s) = 0
  <2>1. \A g \in grad[i] : g.by = tenant[i] => g.step # s
    BY <1>4 DEF RunSums, RunProgress
  <2>2. Of(grad[i], tenant[i], s) = {}
    BY <2>1 DEF Of
  <2>3. InGrads(i, s) = 0
    BY <2>2, TotalOfNone DEF InGrads, TokensIn
  <2>4. \A k \in 1 .. Len(packed) : packed[k].idx = i => packed[k].step = progress[i] - 1
    BY DEF RunBase, RunPacks
  <2>5. progress[i] - 1 = c
    BY <1>1, <1>2
  <2>6. PackedAt(i, s) = {}
    BY <1>1, <1>4, <2>4, <2>5 DEF PackedAt
  <2>7. InPack(i, s) = 0
    BY <2>6, TotalOfNone DEF InPack
  <2> QED
    BY <2>3, <2>7
<1> QED
  BY <1>3, <1>4

\* Training: the tokens of a step that goes on are kept, those of a complete step are used.
LEMMA SumsTrain ==
    ASSUME MaxLives = 1, RunBase, RunOnce, RunSums, Train
    PROVE  RunSums'
<1>1. /\ UNCHANGED <<dir, life, evicted, wrote, tenant, progress, received, buffers, ready>>
      /\ phase = "train" /\ phase' = "broadcast" /\ packed' = << >> /\ [RunsNext]_runsVars
      /\ grad' = [i \in Idxs |-> IF ready[i] THEN {} ELSE Trained(i)]
      /\ updates' = {[idx |-> i, by |-> tenant[i], step |-> progress[i] - 1, grads |-> Trained(i)] :
                       i \in {h \in Idxs : ready[h]}}
  <2>1. /\ UNCHANGED <<dir, life, evicted, wrote, tenant, progress, received, buffers, ready>>
        /\ phase = "train" /\ phase' = "broadcast" /\ packed' = << >> /\ [RunsNext]_runsVars
    BY DEF Train, disk, runs, RunsNext, Trainer
  <2>2. grad' = [i \in Idxs |-> IF i \in {h \in Idxs : ready[h]} THEN {}
                               ELSE [h \in Idxs |-> Trained(h)][i]]
    BY DEF Train, Trained
  <2>3. updates' = {[idx |-> i, by |-> tenant[i], step |-> progress[i] - 1,
                     grads |-> [h \in Idxs |-> Trained(h)][i]] : i \in {h \in Idxs : ready[h]}}
    BY DEF Train, Trained
  <2> QED
    BY <2>1, <2>2, <2>3
<1>2. UsedIdxs' = UsedIdxs /\ \A i \in UsedIdxs : i \in Idxs
  BY <1>1 DEF UsedIdxs
<1>3. ASSUME NEW i \in Idxs
      PROVE  /\ Trained(i) \in SUBSET Grads /\ IsFiniteSet(Trained(i))
             /\ \A h \in Trained(i) : IsOver(h.by.id)' \/ (tenant[i] # NoRun /\ h.by = tenant[i])
             /\ \A s : /\ TokensIn(Trained(i), tenant[i], s) = InGrads(i, s) + InPack(i, s)
                       /\ InGrads(i, s) \in Nat /\ InPack(i, s) \in Nat
  <2>1. /\ Trained(i) \in SUBSET Grads /\ IsFiniteSet(Trained(i))
        /\ \A h \in Trained(i) : \/ \E g \in grad[i] : h.by = g.by
                                 \/ tenant[i] # NoRun /\ h.by = tenant[i]
        /\ \A s : /\ TokensIn(Trained(i), tenant[i], s) = InGrads(i, s) + InPack(i, s)
                  /\ InGrads(i, s) \in Nat /\ InPack(i, s) \in Nat
    <3>1. RunOwners /\ phase = "train" /\ Trained(i) = Scaled(grad[i] \cup Contribution(i))
      BY <1>1 DEF Trained, RunSums
    <3>2. /\ Trained(i) \in SUBSET Grads /\ IsFiniteSet(Trained(i))
          /\ \A h \in Trained(i) : \/ \E g \in grad[i] : h.by = g.by /\ h.step = g.step
                                   \/ /\ tenant[i] # NoRun /\ h.by = tenant[i] /\ h.step = Current(i)
                                      /\ \E k \in 1 .. Len(packed) : packed[k].idx = i /\ packed[k].step = h.step
          /\ \A s : /\ TokensIn(Trained(i), tenant[i], s) = InGrads(i, s) + InPack(i, s)
                    /\ InGrads(i, s) \in Nat /\ InPack(i, s) \in Nat
      BY <3>1, TrainedTokens
    <3>3. ASSUME NEW h \in Trained(i) PROVE (\E g \in grad[i] : h.by = g.by) \/ (tenant[i] # NoRun /\ h.by = tenant[i])
      BY <3>2
    <3> QED
      BY <3>2, <3>3
  <2>2. \A g \in grad[i] : IsOver(g.by.id)' \/ (tenant[i] # NoRun /\ g.by = tenant[i])
    BY <1>1, OwnersStay DEF RunSums
  <2>3. ASSUME NEW h \in Trained(i) PROVE IsOver(h.by.id)' \/ (tenant[i] # NoRun /\ h.by = tenant[i])
    <3>1. CASE \E g \in grad[i] : h.by = g.by
      <4>1. PICK g \in grad[i] : h.by = g.by
        BY <3>1
      <4>2. IsOver(g.by.id)' \/ (tenant[i] # NoRun /\ g.by = tenant[i])
        BY <2>2
      <4> QED
        BY <4>1, <4>2 DEF IsOver
    <3> QED
      BY <2>1, <3>1
  <2> QED
    BY <2>1, <2>3
<1>4. RunOwners'
  <2>1. ASSUME NEW i \in Idxs
        PROVE  /\ IsFiniteSet(grad'[i])
               /\ \A g \in grad'[i] : g \in Grads /\ (IsOver(g.by.id)' \/ (tenant'[i] # NoRun /\ g.by = tenant'[i]))
    <3>1. CASE ready[i]
      <4>1. grad'[i] = {}
        BY <1>1, <3>1
      <4> QED
        BY <4>1, FS_EmptySet
    <3>2. CASE ~ready[i]
      <4>1. grad'[i] = Trained(i)
        BY <1>1, <3>2
      <4>2. \A g \in Trained(i) : g \in Grads /\ (IsOver(g.by.id)' \/ (tenant'[i] # NoRun /\ g.by = tenant'[i]))
        BY <1>1, <1>3
      <4> QED
        BY <1>3, <4>1, <4>2
    <3> QED
      BY <3>1, <3>2
  <2>2. \A i \in UsedIdxs' : \A k \in 1 .. Len(buffers'[i]) : buffers'[i][k].by = tenant'[i]
    BY <1>1, <1>2 DEF RunSums, RunOwners
  <2>3. Len(packed') = 0 /\ phase' # "buffer"
    BY <1>1
  <2> QED
    BY <2>1, <2>2, <2>3 DEF RunOwners
<1>5. RunProgress'
  <2>1. \A i \in Idxs : received'[i] = 0 => progress'[i] = 1
    BY <1>1 DEF RunSums, RunProgress
  <2>2. ASSUME NEW i \in UsedIdxs, NEW g \in grad'[i], g.by = tenant[i]
        PROVE  g.step = Current(i)' /\ Current(i)' < received[i]
    <3>1. ~ready[i] /\ g \in Trained(i)
      BY <1>1, <1>2, <2>2
    <3>2. g.step = Current(i) /\ Current(i) < received[i]
      BY <1>1, <2>2, <3>1, TrainedStep
    <3>3. Current(i)' = Current(i)
      BY <3>1, TrainMoves
    <3> QED
      BY <3>2, <3>3
  <2>3. Len(packed') = 0 /\ phase' \notin {"buffer", "sync", "train"}
    BY <1>1
  <2>4. \A i \in UsedIdxs' : \A g \in grad'[i] : g.by = tenant'[i] => g.step = Current(i)' /\ Current(i)' < received'[i]
    BY <1>1, <1>2, <2>2
  <2> QED
    BY <2>1, <2>3, <2>4 DEF RunProgress
\* The tokens received of a step before the gradients are used.
<1>6. ASSUME NEW i \in UsedIdxs, ~IsOver(tenant[i].id)'
      PROVE  /\ received[i] <= Len(wrote[tenant[i].id]) + 1
             /\ \A s \in Current(i) .. received[i] - 1 :
                   InGrads(i, s) + InPack(i, s) + InBuffer(i, s) = SumOf(wrote[tenant[i].id][s])
  <2>1. ~IsOver(tenant[i].id)
    <3>1. PICK x \in Ids : x = tenant[i].id
      BY OneLife
    <3>2. ~IsOver(x)'
      BY <1>1, <1>6, <3>1 DEF IsOver
    <3> QED
      BY <1>1, <3>1, <3>2 DEF IsOver
  <2>2. \A s : ~Arrives(i, s)
    BY <1>1 DEF Arrives
  <2> QED
    BY <2>1, <2>2 DEF RunSums, RunTokens
<1>7. ASSUME NEW i \in Idxs, NEW s PROVE InPack(i, s)' = 0 /\ InBuffer(i, s)' = InBuffer(i, s) /\ InBuffer(i, s) \in Nat
  <2>1. Len(packed') = 0
    BY <1>1
  <2>2. PackedAt(i, s)' = {}
    BY <2>1 DEF PackedAt
  <2>3. InPack(i, s)' = 0
    BY <2>2, TotalOfNone DEF InPack
  <2>4. InBuffer(i, s)' = InBuffer(i, s)
    BY <1>1 DEF InBuffer
  <2>5. buffers[i] \in Seq(Good)
    BY DEF RunBase, RunShapes
  <2>6. \A x \in Good : x.len \in Nat
    BY DEF Good, Samples
  <2>7. Total(Lens(buffers[i]), StepAt(buffers[i], s)) \in Nat
    BY <2>5, <2>6, StepTokens
  <2> QED
    BY <2>3, <2>4, <2>7 DEF InBuffer
<1>8. RunTokens'
  <2>1. ASSUME NEW i \in UsedIdxs, ~IsOver(tenant[i].id)', NEW s \in Current(i)' .. received[i] - 1
        PROVE  InGrads(i, s)' + InPack(i, s)' + InBuffer(i, s)' = SumOf(wrote[tenant[i].id][s])
    <3>1. PICK p \in Nat \ {0}, c \in Nat \ {0}, d \in Nat :
             p = progress[i] /\ c = Current(i) /\ d = received[i] /\ Current(i)' = p /\ p = IF ready[i] THEN c + 1 ELSE c
      BY TrainMoves
    <3>2. s \in p .. d - 1 /\ s \in c .. d - 1
      BY <2>1, <3>1
    <3>3. InGrads(i, s) + InPack(i, s) + InBuffer(i, s) = SumOf(wrote[tenant[i].id][s])
      BY <1>6, <2>1, <3>1, <3>2
    <3>4. InPack(i, s)' = 0 /\ InBuffer(i, s)' = InBuffer(i, s) /\ InBuffer(i, s) \in Nat
      BY <1>2, <1>7
    <3>5. InGrads(i, s) \in Nat /\ InPack(i, s) \in Nat
      BY <1>2, <1>3
    <3>6. InGrads(i, s)' = InGrads(i, s) + InPack(i, s)
      <4>1. InGrads(i, s)' = TokensIn(grad'[i], tenant[i], s)
        BY <1>1 DEF InGrads
      <4>2. CASE ready[i]
        <5>1. s # Current(i)
          BY <3>1, <3>2, <4>2
        <5>2. InGrads(i, s) = 0 /\ InPack(i, s) = 0
          BY <4>2, <5>1, CompleteSteps
        <5>3. grad'[i] = {}
          BY <1>1, <1>2, <4>2
        <5>4. Of({}, tenant[i], s) = {}
          BY DEF Of
        <5>5. TokensIn({}, tenant[i], s) = 0
          BY <5>4, TotalOfNone DEF TokensIn
        <5> QED
          BY <4>1, <5>2, <5>3, <5>5
      <4>3. CASE ~ready[i]
        <5>1. grad'[i] = Trained(i)
          BY <1>1, <1>2, <4>3
        <5> QED
          BY <1>2, <1>3, <4>1, <5>1
      <4> QED
        BY <4>2, <4>3
    <3> QED
      BY <3>3, <3>4, <3>5, <3>6
  <2> QED
    BY <1>1, <1>2, <1>6, <2>1 DEF RunTokens
<1>9. RunUpdates'
  <2> SUFFICES ASSUME NEW u \in updates'
               PROVE  /\ phase' = "broadcast" /\ u.idx \in UsedIdxs' /\ u.by = tenant'[u.idx]
                      /\ u.grads \in SUBSET Grads /\ IsFiniteSet(u.grads)
                      /\ ~IsOver(u.by.id)' =>
                            /\ u.step \in 1 .. Len(wrote'[u.by.id])
                            /\ Total([g \in u.grads |-> g.tokens], {g \in u.grads : g.by = u.by})
                                 = SumOf(wrote'[u.by.id][u.step])
    BY DEF RunUpdates
  <2>1. PICK i \in Idxs : /\ ready[i] /\ u.idx = i /\ u.by = tenant[i]
                          /\ u.step = progress[i] - 1 /\ u.grads = Trained(i)
    BY <1>1
  <2>2. i \in UsedIdxs
    BY <2>1 DEF UsedIdxs, RunBase, RunIndices
  <2>3. PICK p \in Nat \ {0}, c \in Nat \ {0}, d \in Nat :
           p = progress[i] /\ c = Current(i) /\ d = received[i] /\ Current(i)' = p /\ p = IF ready[i] THEN c + 1 ELSE c
    BY <2>2, TrainMoves
  <2>4. u.step = c
    BY <2>1, <2>3
  <2>5. ASSUME ~IsOver(u.by.id)'
        PROVE  /\ u.step \in 1 .. Len(wrote[tenant[i].id])
               /\ Total([g \in u.grads |-> g.tokens], {g \in u.grads : g.by = u.by})
                    = SumOf(wrote[tenant[i].id][u.step])
    <3>1. ~IsOver(tenant[i].id)'
      BY <1>1, <2>1, <2>5 DEF IsOver
    <3>2. d <= Len(wrote[tenant[i].id]) + 1 /\ c < d
      <4>1. Current(i) < received[i]
        BY <1>1, <2>1 DEF RunSums, RunProgress
      <4> QED
        BY <1>6, <2>2, <2>3, <3>1, <4>1
    <3>3. PICK n \in Nat : n = Len(wrote[tenant[i].id])
      BY <2>2, OneLife, LenProperties DEF RunBase, RunShapes
    <3>4. c \in 1 .. n /\ c \in c .. d - 1
      BY <3>2, <3>3
    <3>5. InGrads(i, c) + InPack(i, c) + InBuffer(i, c) = SumOf(wrote[tenant[i].id][c])
      BY <1>6, <2>2, <2>3, <3>1, <3>4
    <3>6. InBuffer(i, c) = 0
      BY <2>1, <2>2, <2>3, CompleteSteps
    <3>7. TokensIn(Trained(i), tenant[i], c) = InGrads(i, c) + InPack(i, c) /\ InGrads(i, c) \in Nat /\ InPack(i, c) \in Nat
      BY <1>3
    <3>8. {g \in Trained(i) : g.by = tenant[i]} = Of(Trained(i), tenant[i], c)
      <4>1. \A h \in Trained(i) : h.by = tenant[i] => h.step = c
        BY <1>1, <2>2, <2>3, TrainedStep
      <4> QED
        BY <4>1 DEF Of
    <3>9. Total([g \in Trained(i) |-> g.tokens], {g \in Trained(i) : g.by = tenant[i]}) = TokensIn(Trained(i), tenant[i], c)
      BY <3>8 DEF TokensIn
    <3>10. TokensIn(Trained(i), tenant[i], c) = SumOf(wrote[tenant[i].id][c])
      BY <3>5, <3>6, <3>7
    <3> QED
      BY <2>1, <2>4, <3>3, <3>4, <3>9, <3>10
  <2> QED
    BY <1>1, <1>2, <1>3, <2>1, <2>2, <2>5
<1> QED
  BY <1>4, <1>5, <1>8, <1>9 DEF RunSums

-----------------------------------------------------------------------------
\* The sums are inductive relative to the base.
LEMMA SumsStep ==
    ASSUME MaxLives = 1, RunBase, RunOnce, RunSums, [RunsNext]_runsVars
    PROVE  RunSums'
<1>1. CASE Environment \/ WaitForTokens \/ Sync \/ Broadcast \/ UNCHANGED runsVars
  BY <1>1, SumsQuiet
<1>2. CASE Discover
  BY <1>2, SumsDiscover
<1>3. CASE Receive
  BY <1>3, SumsReceive
<1>4. CASE Buffer
  BY <1>4, SumsBuffer
<1>5. CASE Pack
  BY <1>5, SumsPack
<1>6. CASE Train
  BY <1>6, SumsTrain
<1> QED
  BY <1>1, <1>2, <1>3, <1>4, <1>5, <1>6 DEF RunsNext, Trainer

\* Of a run that is not over every token that was received is somewhere, once.
THEOREM RunsConserve ==
    ASSUME MaxLives = 1
    PROVE  RunsSpec => []RunSums
<1>1. RunsInit => RunSums
  BY SumsInit
<1>2. RunBase /\ RunOnce /\ RunSums /\ [RunsNext]_runsVars => RunSums'
  BY SumsStep
<1>3. RunsSpec => []RunOnce
  BY RunsOnce
<1> QED
  BY <1>1, <1>2, <1>3, RunsBase, PTL DEF RunsSpec

\* What is packed is sound and what is trained is a whole batch.
THEOREM RunsStepsWhole ==
    ASSUME MaxLives = 1
    PROVE  RunsSpec => []StepsAreWhole
<1>1. RunBase /\ RunOnce /\ RunSums => UpdatesAreWhole
  <2> SUFFICES ASSUME RunBase, RunOnce, RunSums, NEW u \in updates, wrote[u.by.id] # <<>>
               PROVE  MapThenSumSet(LAMBDA g : g.tokens, {g \in u.grads : g.by = u.by})
                        = SumOf(wrote[u.by.id][u.step])
    BY DEF UpdatesAreWhole
  <2>1. /\ phase = "broadcast" /\ u.idx \in UsedIdxs /\ u.by = tenant[u.idx]
        /\ u.grads \in SUBSET Grads /\ IsFiniteSet(u.grads)
    BY DEF RunSums, RunUpdates
  <2>2. PICK r \in Ids : r = u.by.id /\ life[r] = 1
    BY <2>1, OneLife
  <2>3. ~IsOver(u.by.id)
    <3>1. ~evicted[r] /\ (dir[r] = "absent" => wrote[r] = << >>)
      BY <2>1, <2>2 DEF RunOnce, RunBatches
    <3> QED
      BY <2>2, <3>1 DEF IsOver
  <2> DEFINE D == {g \in u.grads : g.by = u.by}
  <2>4. D \in SUBSET u.grads /\ IsFiniteSet(D) /\ \A g \in D : g.tokens \in Nat
    <3>1. D \in SUBSET u.grads
      OBVIOUS
    <3>2. IsFiniteSet(D)
      BY <2>1, <3>1, FS_Subset
    <3> QED
      BY <2>1, <3>1, <3>2 DEF Grads
  <2>5. Total([g \in u.grads |-> g.tokens], D) = SumOf(wrote[u.by.id][u.step])
    BY <2>3 DEF RunSums, RunUpdates
  <2> HIDE DEF D
  <2>6. MapThenSumSet(LAMBDA g : g.tokens, D) = Total([g \in D |-> g.tokens], D)
    BY <2>4, SumOfGrads
  <2>7. Total([g \in D |-> g.tokens], D) = Total([g \in u.grads |-> g.tokens], D)
    <3> DEFINE v == [g \in D |-> g.tokens]
               w == [g \in u.grads |-> g.tokens]
    <3>1. \A g \in D : v[g] = w[g] /\ v[g] \in Nat
      BY <2>4
    <3> HIDE DEF v, w
    <3>2. Total(v, D) = Total(w, D)
      BY <2>4, <3>1, TotalSame
    <3> QED
      BY <3>2 DEF v, w
  <2>8. MapThenSumSet(LAMBDA g : g.tokens, D) = SumOf(wrote[u.by.id][u.step])
    BY <2>5, <2>6, <2>7
  <2> QED
    BY <2>8 DEF D
<1>2. RunsSpec => []StepsAreSound
  BY RunsStepsSound
<1>3. RunsSpec => []RunOnce
  BY RunsOnce
<1>4. RunsSpec => []RunSums
  BY RunsConserve
<1>5. StepsAreSound /\ UpdatesAreWhole => StepsAreWhole
  BY DEF StepsAreWhole
<1> QED
  BY <1>1, <1>2, <1>3, <1>4, <1>5, RunsBase, PTL
=============================================================================
