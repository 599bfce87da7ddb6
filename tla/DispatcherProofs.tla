-------------------------- MODULE DispatcherProofs --------------------------
(***************************************************************************)
(* Proofs about the dispatcher, for any environments, group sizes, limits  *)
(* and number of groups.                                                   *)
(*                                                                         *)
(* Rollouts are conserved because every task is known by one key (Keys),   *)
(* so that handle_completed_rollout and drop_group never both take it, and *)
(* because the count a group keeps of what it has emitted is what was put  *)
(* and the one that waits (Emission): a group is forgotten only when it    *)
(* owes nothing more.  Permits are kept because what try_schedule checked  *)
(* before it suspended stays true while the other coroutines only give     *)
(* permits back (Booking).                                                 *)
(***************************************************************************)
EXTENDS Dispatcher, Sums

\* The permits that the next task of a group takes.
Need(gr) == IF gr.env \in GroupScored THEN gr.toSchedule ELSE 1

OpenedTrain == {g \in Opened : IsTrain(g)}
OpenedEval  == {g \in Opened : ~IsTrain(g)}

Shapes ==
    /\ policyVersion \in 0 .. shipped /\ shipped \in 0 .. MaxSteps
    /\ mode \in {"train", "eval"} /\ main \in {"loop", "ship", "shipped"}
    /\ gate \in BOOLEAN /\ draining \in BOOLEAN /\ stopped \in BOOLEAN
    /\ triggered \in Nat /\ evalExamples \in 0 .. triggered
    /\ nextGroup \in Nat \ {0} /\ Opened \subseteq Gids /\ groups \subseteq Opened
    /\ group \in [Gids -> [env : Envs, toSchedule : Nat, emitted : Nat, pinned : BOOLEAN]]
    /\ inflight \subseteq Task /\ done \subseteq Task /\ IsFiniteSet(inflight)
    /\ permits \in Nat
    /\ outQ \in [Gids -> Nat] /\ received \in [Gids -> Nat] /\ OutSize <= OutCapacity
    /\ pc \in Suspended \cup {"fill", "handle"}
    /\ scheduling \in [gid : {Nobody} \cup Gids, need : Nat, got : Nat]
    /\ putting \in PutState /\ dropping \in PutState
    /\ watcher \in {"idle", "claim", "cancel", "update"} /\ stale \subseteq Opened
    /\ abandoned \subseteq Opened /\ oldestShipped \in Nat

\* Batches: the last one is followed by the drain.  Groups: as many are opened
\* as the sources offered examples.
Sources ==
    /\ main = "ship" \/ (main = "loop" /\ ~draining) => shipped < MaxSteps
    /\ triggered <= MaxTriggers * EvalSize
    /\ Cardinality(OpenedTrain) <= MaxTrainGroups
    /\ Cardinality(OpenedEval) + evalExamples = triggered
    /\ \A g \in Gids \ Opened : received[g] = 0 /\ outQ[g] = 0

\* What try_schedule has booked for the task it is starting.
Booking ==
    /\ pc \notin {"client", "acquire"} => scheduling = NoSchedule
    /\ pc \in {"client", "acquire"} => scheduling.gid \in Opened
    /\ pc = "client" => /\ scheduling.need = 0 /\ scheduling.got = 0
                        /\ group[scheduling.gid].toSchedule > 0
                        /\ permits + Need(group[scheduling.gid]) <= MaxInflight
    /\ pc = "acquire" => /\ scheduling.got < scheduling.need
                         /\ permits + scheduling.need - scheduling.got <= MaxInflight

\* A task in flight, or returned by asyncio.wait, is known by its group and place.
Keys ==
    /\ pc \notin {"handle", "put"} => done = {}
    /\ \A t \in inflight \cup done :
          /\ t.gid \in Opened /\ t.nth >= group[t.gid].toSchedule
          /\ pc = "acquire" /\ scheduling.gid = t.gid => t.nth > group[t.gid].toSchedule
    /\ \A t, u \in inflight : t.gid = u.gid /\ t.nth = u.nth => t = u
    /\ \A t \in done, u \in inflight : t.gid = u.gid /\ t.nth = u.nth => t.count = u.count

\* What a group has counted as emitted was put, or is the rollout that waits.
Emission ==
    /\ pc # "put" => putting = NoPut
    /\ pc = "put" => putting.gid \in Opened /\ putting.left > 0
    /\ putting.gid \in groups => putting.counted
    /\ \A g \in groups :
          group[g].emitted = received[g] + outQ[g] + (IF putting.gid = g THEN 1 ELSE 0)
    /\ watcher # "cancel" => dropping = NoPut
    /\ dropping # NoPut => dropping.gid \in Opened \ groups

\* Once(g): EveryRolloutOnce for one group.
Once(g) ==
    IF stopped \/ g \in abandoned
    THEN received[g] + Owed(g) <= GroupSize[group[g].env]
    ELSE received[g] + Owed(g) = GroupSize[group[g].env]

\* Between on_version_pending and the update what is too old is about to be dropped.
Ages ==
    /\ oldestShipped <= MaxOffPolicySteps + 1
    /\ \A t \in inflight :
          /\ t.age <= MaxOffPolicySteps + 1
          /\ t.age > MaxOffPolicySteps => t.gid \in stale
    /\ watcher \in {"idle", "update"} => stale = {}

IInv ==
    /\ Shapes /\ Sources /\ Booking /\ Keys /\ PermitsMatchWork /\ Emission
    /\ \A g \in Opened : Once(g)

-----------------------------------------------------------------------------
(* Rollouts in flight, and in out_q. *)

Count == [t \in Task |-> t.count]

LEMMA CountIsTotal ==
    ASSUME NEW T \in SUBSET Task, IsFiniteSet(T)
    PROVE  CountOf(T) = Total(Count, T)
<1> DEFINE Solves(f) == f = [s \in SUBSET T |-> IF s = {} THEN 0
                                ELSE (CHOOSE x \in s : TRUE).count + f[s \ {CHOOSE x \in s : TRUE}]]
<1>1. \A t \in T : Count[t] \in Nat /\ Count[t] = t.count
  BY DEF Count, Task
<1>2. ASSUME NEW s \in SUBSET T, s # {}
      PROVE  (CHOOSE x \in s : TRUE).count = Count[CHOOSE x \in s : TRUE]
  <2>1. (CHOOSE x \in s : TRUE) \in T
    BY <1>2
  <2> QED
    BY <1>1, <2>1
<1>3. \A f : Solves(f) <=> Sums(f, Count, T)
  BY <1>2 DEF Sums
<1>4. \E f : Solves(f)
  BY <1>1, <1>3, SumExists
<1>5. Solves(CHOOSE f : Solves(f))
  BY <1>4
<1>6. CountOf(T) = (CHOOSE f : Solves(f))[T]
  BY Zenon DEF CountOf, MapThenSumSet, MapThenFoldSet
<1> HIDE DEF Solves
<1>7. Sums(CHOOSE f : Solves(f), Count, T)
  BY <1>3, <1>5
<1> QED
  BY <1>1, <1>6, <1>7, SumIsTotal

SizeOf(q) == MapThenSumSet(LAMBDA g : q[g], Gids)

LEMMA SizeIsTotal ==
    ASSUME NEW q \in [Gids -> Nat], IsFiniteSet(Gids)
    PROVE  SizeOf(q) = Total(q, Gids)
<1> DEFINE Solves(f) == f = [s \in SUBSET Gids |-> IF s = {} THEN 0
                                ELSE q[CHOOSE x \in s : TRUE] + f[s \ {CHOOSE x \in s : TRUE}]]
<1>1. \A g \in Gids : q[g] \in Nat
  OBVIOUS
<1>2. \A f : Solves(f) <=> Sums(f, q, Gids)
  BY DEF Sums
<1>3. SizeOf(q) = (CHOOSE f : Solves(f))[Gids]
  BY Zenon DEF SizeOf, MapThenSumSet, MapThenFoldSet
<1>4. Sums([s \in SUBSET Gids |-> Total(q, s)], q, Gids)
  BY <1>1, SumExists
<1> HIDE DEF Solves
<1>5. \E f : Solves(f)
  BY <1>2, <1>4
<1>6. Sums(CHOOSE f : Solves(f), q, Gids)
  BY <1>2, <1>5
<1> QED
  BY <1>1, <1>3, <1>6, SumIsTotal

LEMMA GidsFinite ==
    /\ IsFiniteSet(Gids)
    /\ MaxTrainGroups + MaxTriggers * EvalSize \in Nat
    /\ Cardinality(Gids) = MaxTrainGroups + MaxTriggers * EvalSize
<1>1. MaxTrainGroups + MaxTriggers * EvalSize \in Nat
  BY DispatcherAssumption
<1> QED
  BY <1>1, FS_Interval DEF Gids

\* Tasks in, tasks out.
LEMMA CountType ==
    ASSUME NEW T \in SUBSET Task, IsFiniteSet(T)
    PROVE  CountOf(T) \in Nat
<1>1. \A t \in T : Count[t] \in Nat
  BY DEF Count, Task
<1> QED
  BY <1>1, CountIsTotal, PointsAreFinite

LEMMA CountNone == CountOf({}) = 0
  BY CountIsTotal, TotalOfNone, FS_EmptySet

LEMMA CountWith ==
    ASSUME NEW T \in SUBSET Task, IsFiniteSet(T), NEW t \in Task, t \notin T
    PROVE  IsFiniteSet(T \cup {t}) /\ CountOf(T \cup {t}) = CountOf(T) + t.count
<1>1. \A u \in T \cup {t} : Count[u] \in Nat /\ Count[u] = u.count
  BY DEF Count, Task
<1>2. IsFiniteSet(T \cup {t}) /\ T \cup {t} \in SUBSET Task
  BY FS_AddElement
<1>3. Total(Count, T \cup {t}) = Total(Count, T) + Count[t]
  BY <1>1, TotalWith
<1> QED
  BY <1>1, <1>2, <1>3, CountIsTotal

LEMMA CountWithout ==
    ASSUME NEW T \in SUBSET Task, IsFiniteSet(T), NEW U \in SUBSET T
    PROVE  /\ IsFiniteSet(T \ U) /\ IsFiniteSet(U)
           /\ CountOf(T) = CountOf(T \ U) + CountOf(U)
<1>1. \A u \in T : Count[u] \in Nat
  BY DEF Count, Task
<1>2. IsFiniteSet(T \ U) /\ IsFiniteSet(U) /\ T \ U \in SUBSET Task /\ U \in SUBSET Task
  BY FS_Subset
<1>3. Total(Count, T) = Total(Count, T \ U) + Total(Count, U)
  BY <1>1, TotalWithout
<1> QED
  BY <1>2, <1>3, CountIsTotal

LEMMA CountOne ==
    ASSUME NEW t \in Task
    PROVE  CountOf({t}) = t.count
<1>1. Count[t] \in Nat /\ Count[t] = t.count
  BY DEF Count, Task
<1> QED
  BY <1>1, CountIsTotal, TotalOfOne, FS_Singleton

LEMMA TasksOfFinite ==
    ASSUME inflight \subseteq Task, IsFiniteSet(inflight)
    PROVE  \A g : TasksOf(g) \in SUBSET Task /\ IsFiniteSet(TasksOf(g)) /\ CountOf(TasksOf(g)) \in Nat
<1>1. \A g : TasksOf(g) \in SUBSET inflight
  BY DEF TasksOf
<1>2. \A g : IsFiniteSet(TasksOf(g))
  BY <1>1, FS_Subset
<1> QED
  BY <1>1, <1>2, CountType

\* A new task.
LEMMA TaskAdded ==
    ASSUME inflight \subseteq Task, IsFiniteSet(inflight), NEW t \in Task, t \notin inflight,
           inflight' = inflight \cup {t}
    PROVE  /\ IsFiniteSet(inflight') /\ CountOf(inflight') = CountOf(inflight) + t.count
           /\ \A g : CountOf(TasksOf(g)') = CountOf(TasksOf(g)) + (IF g = t.gid THEN t.count ELSE 0)
<1>1. IsFiniteSet(inflight') /\ CountOf(inflight') = CountOf(inflight) + t.count
  BY CountWith
<1>2. ASSUME NEW g
      PROVE  CountOf(TasksOf(g)') = CountOf(TasksOf(g)) + (IF g = t.gid THEN t.count ELSE 0)
  <2>1. TasksOf(g) \in SUBSET Task /\ IsFiniteSet(TasksOf(g)) /\ CountOf(TasksOf(g)) \in Nat
    BY TasksOfFinite
  <2>2. CASE g = t.gid
    <3>1. TasksOf(g)' = TasksOf(g) \cup {t} /\ t \notin TasksOf(g)
      BY <2>2 DEF TasksOf
    <3> QED
      BY <2>1, <2>2, <3>1, CountWith
  <2>3. CASE g # t.gid
    <3>1. TasksOf(g)' = TasksOf(g)
      BY <2>3 DEF TasksOf
    <3> QED
      BY <2>1, <2>3, <3>1
  <2> QED
    BY <2>2, <2>3
<1> QED
  BY <1>1, <1>2

\* Tasks are removed.
Among(U, g) == {t \in U : t.gid = g}

LEMMA TasksRemoved ==
    ASSUME inflight \subseteq Task, IsFiniteSet(inflight), NEW U \in SUBSET inflight,
           inflight' = inflight \ U
    PROVE  /\ IsFiniteSet(inflight') /\ CountOf(U) \in Nat
           /\ CountOf(inflight') = CountOf(inflight) - CountOf(U)
           /\ \A g : /\ CountOf(TasksOf(g)') = CountOf(TasksOf(g)) - CountOf(Among(U, g))
                     /\ CountOf(Among(U, g)) \in Nat
<1>1. /\ IsFiniteSet(inflight \ U) /\ IsFiniteSet(U)
      /\ CountOf(inflight) = CountOf(inflight \ U) + CountOf(U)
  BY CountWithout
<1>2. CountOf(inflight \ U) \in Nat /\ CountOf(U) \in Nat
  <2>1. inflight \ U \in SUBSET Task /\ U \in SUBSET Task
    OBVIOUS
  <2> QED
    BY <1>1, <2>1, CountType
<1>3. CountOf(inflight') = CountOf(inflight) - CountOf(U)
  BY <1>1, <1>2
<1>4. ASSUME NEW g
      PROVE  /\ CountOf(TasksOf(g)') = CountOf(TasksOf(g)) - CountOf(Among(U, g))
             /\ CountOf(Among(U, g)) \in Nat
  <2> DEFINE V == {t \in U : t.gid = g}
  <2>1. TasksOf(g) \in SUBSET Task /\ IsFiniteSet(TasksOf(g))
    BY TasksOfFinite
  <2>2. V \in SUBSET TasksOf(g) /\ TasksOf(g)' = TasksOf(g) \ V
    BY DEF TasksOf
  <2> HIDE DEF V
  <2>3. /\ IsFiniteSet(TasksOf(g) \ V) /\ IsFiniteSet(V)
        /\ CountOf(TasksOf(g)) = CountOf(TasksOf(g) \ V) + CountOf(V)
    BY <2>1, <2>2, CountWithout
  <2>4. CountOf(TasksOf(g) \ V) \in Nat /\ CountOf(V) \in Nat
    <3>1. TasksOf(g) \ V \in SUBSET Task /\ V \in SUBSET Task
      BY <2>1, <2>2
    <3> QED
      BY <2>3, <3>1, CountType
  <2>5. CountOf(TasksOf(g)') = CountOf(TasksOf(g)) - CountOf(V)
    BY <2>2, <2>3, <2>4
  <2> QED
    BY <2>4, <2>5 DEF V, Among
<1> QED
  BY <1>1, <1>2, <1>3, <1>4

\* Every task becomes another one of the same group and as many rollouts.
LEMMA TasksRenamed ==
    ASSUME inflight \subseteq Task, IsFiniteSet(inflight), NEW f \in [inflight -> Task],
           inflight' = {f[t] : t \in inflight},
           \A t, u \in inflight : f[t] = f[u] => t = u,
           \A t \in inflight : f[t].gid = t.gid /\ f[t].count = t.count
    PROVE  /\ IsFiniteSet(inflight') /\ CountOf(inflight') = CountOf(inflight)
           /\ \A g : CountOf(TasksOf(g)') = CountOf(TasksOf(g))
<1>1. ASSUME NEW U \in SUBSET inflight
      PROVE  /\ IsFiniteSet({f[t] : t \in U}) /\ CountOf({f[t] : t \in U}) = CountOf(U)
  <2> DEFINE V == {f[t] : t \in U}
             h == [t \in U |-> f[t]]
  <2>1. IsFiniteSet(U) /\ U \in SUBSET Task /\ V \in SUBSET Task
    BY FS_Subset
  <2>2. h \in Bijection(U, V)
    BY DEF Bijection, Injection, Surjection, IsInjective
  <2>3. \A t \in U : Count[t] \in Nat /\ Count[h[t]] = Count[t]
    BY DEF Count, Task
  <2> HIDE DEF h, V
  <2>4. IsFiniteSet(V) /\ Total(Count, V) = Total(Count, U)
    BY <2>1, <2>2, <2>3, TotalRenamed
  <2>5. CountOf(V) = CountOf(U)
    BY <2>1, <2>4, CountIsTotal
  <2> QED
    BY <2>4, <2>5 DEF V
<1>2. ASSUME NEW g PROVE CountOf(TasksOf(g)') = CountOf(TasksOf(g))
  <2>1. TasksOf(g)' = {f[t] : t \in TasksOf(g)} /\ TasksOf(g) \in SUBSET inflight
    BY DEF TasksOf
  <2> QED
    BY <1>1, <2>1
<1> QED
  BY <1>1, <1>2

\* put: as many as fit.
LEMMA FitsIs ==
    ASSUME outQ \in [Gids -> Nat], OutSize <= OutCapacity, NEW n \in Nat
    PROVE  /\ Fits(n) \in 0 .. n /\ OutSize \in Nat /\ OutSize + Fits(n) <= OutCapacity
           /\ Left(n) \in Nat /\ Left(n) = n - Fits(n)
           /\ Counted(n) \in 0 .. n /\ Counted(n) = Fits(n) + (IF Left(n) > 0 THEN 1 ELSE 0)
           /\ OutSize < OutCapacity /\ n > 0 => Fits(n) > 0 /\ Counted(n) > 0
<1>1. OutSize \in Nat
  BY GidsFinite, SizeIsTotal, PointsAreFinite DEF OutSize, SizeOf
<1>2. OutCapacity \in Int
  <2>1. MinOutCapacity \in Int /\ MaxInflight \in Int
    BY DispatcherAssumption
  <2>2. \E x \in {MinOutCapacity, MaxInflight} : \A y \in {MinOutCapacity, MaxInflight} : x >= y
    BY <2>1
  <2>3. OutCapacity \in {MinOutCapacity, MaxInflight}
    BY <2>2 DEF OutCapacity, Max
  <2> QED
    BY <2>1, <2>3
<1>3. Fits(n) = IF n <= OutCapacity - OutSize THEN n ELSE OutCapacity - OutSize
  BY <1>1, <1>2, MinOfTwo DEF Fits
<1> QED
  BY <1>1, <1>2, <1>3 DEF Left, Counted

LEMMA OutSame ==
    ASSUME outQ' = outQ
    PROVE  OutSize' = OutSize
  BY Zenon DEF OutSize, MapThenSumSet, MapThenFoldSet

LEMMA PutIs ==
    ASSUME outQ \in [Gids -> Nat], OutSize <= OutCapacity, NEW n \in Nat, NEW g \in Gids, Put(g, n)
    PROVE  /\ outQ' \in [Gids -> Nat] /\ (OutSize <= OutCapacity)'
           /\ outQ'[g] = outQ[g] + Fits(n)
           /\ \A h \in Gids \ {g} : outQ'[h] = outQ[h]
<1>1. Fits(n) \in Nat /\ OutSize \in Nat /\ OutSize + Fits(n) <= OutCapacity
  BY FitsIs
<1>2. outQ' = [outQ EXCEPT ![g] = outQ[g] + Fits(n)]
  BY DEF Put
<1>3. outQ' \in [Gids -> Nat] /\ outQ[g] + Fits(n) \in Nat /\ outQ[g] \in Nat
  BY <1>1, <1>2
<1>4. Total([outQ EXCEPT ![g] = outQ[g] + Fits(n)], Gids) = Total(outQ, Gids) - outQ[g] + (outQ[g] + Fits(n))
  BY <1>3, GidsFinite, TotalChanged
<1>5. OutSize' = Total(outQ', Gids)
  <2>1. SizeOf(outQ') = Total(outQ', Gids)
    BY <1>3, GidsFinite, SizeIsTotal
  <2>2. OutSize' = SizeOf(outQ')
    BY Zenon DEF OutSize, SizeOf, MapThenSumSet, MapThenFoldSet
  <2> QED
    BY <2>1, <2>2
<1>6. OutSize = Total(outQ, Gids)
  BY GidsFinite, SizeIsTotal DEF OutSize, SizeOf
<1>7. OutSize' = OutSize + Fits(n)
  BY <1>1, <1>2, <1>3, <1>4, <1>5, <1>6
<1> QED
  BY <1>1, <1>2, <1>3, <1>7

-----------------------------------------------------------------------------
(* Where the rollouts of a group are. *)

Unscheduled(g) == IF g \in groups THEN group[g].toSchedule ELSE 0
Booked(g)  == IF scheduling.gid = g THEN scheduling.need ELSE 0
Flying(g)  == CountOf(TasksOf(g))
Waiting(g) == IF putting.gid = g THEN putting.left ELSE 0
Dropped(g) == IF dropping.gid = g THEN dropping.left ELSE 0

LEMMA PlacesAre ==
    ASSUME Shapes, NEW g \in Gids
    PROVE  /\ Unscheduled(g) \in Nat /\ Booked(g) \in Nat /\ Flying(g) \in Nat
           /\ Waiting(g) \in Nat /\ Dropped(g) \in Nat /\ outQ[g] \in Nat /\ received[g] \in Nat
           /\ group[g].env \in Envs /\ GroupSize[group[g].env] \in Nat
           /\ Owed(g) = Unscheduled(g) + Booked(g) + Flying(g) + Waiting(g) + Dropped(g) + outQ[g]
<1>1. Flying(g) \in Nat
  BY TasksOfFinite DEF Shapes, Flying
<1>2. Unscheduled(g) \in Nat /\ Booked(g) \in Nat /\ Waiting(g) \in Nat /\ Dropped(g) \in Nat
  BY DEF Shapes, Unscheduled, Booked, Waiting, Dropped, PutState
<1>3. outQ[g] \in Nat /\ received[g] \in Nat /\ group[g].env \in Envs /\ GroupSize[group[g].env] \in Nat
  BY DispatcherAssumption DEF Shapes
<1>4. Owed(g) = Unscheduled(g) + Booked(g) + Flying(g) + Waiting(g) + Dropped(g) + outQ[g]
  BY DEF Owed, Unscheduled, Booked, Flying, Waiting, Dropped
<1> QED
  BY <1>1, <1>2, <1>3, <1>4

\* The same after a step.
LEMMA PlacesNext ==
    ASSUME Shapes', NEW g \in Gids
    PROVE  /\ Unscheduled(g)' \in Nat /\ Booked(g)' \in Nat /\ Flying(g)' \in Nat
           /\ Waiting(g)' \in Nat /\ Dropped(g)' \in Nat /\ outQ'[g] \in Nat /\ received'[g] \in Nat
           /\ Owed(g)' = Unscheduled(g)' + Booked(g)' + Flying(g)' + Waiting(g)' + Dropped(g)' + outQ'[g]
<1>1. Flying(g)' \in Nat
  <2>1. TasksOf(g)' \in SUBSET inflight' /\ inflight' \in SUBSET Task /\ IsFiniteSet(inflight')
    BY DEF TasksOf, Shapes
  <2>2. TasksOf(g)' \in SUBSET Task /\ IsFiniteSet(TasksOf(g)')
    BY <2>1, FS_Subset
  <2>3. CountOf(TasksOf(g)') \in Nat
    BY <2>2, CountType
  <2> QED
    BY <2>3 DEF Flying
<1>2. Unscheduled(g)' \in Nat /\ Booked(g)' \in Nat /\ Waiting(g)' \in Nat /\ Dropped(g)' \in Nat
  BY DEF Shapes, Unscheduled, Booked, Waiting, Dropped, PutState
<1>3. outQ'[g] \in Nat /\ received'[g] \in Nat
  BY DEF Shapes
<1>4. Owed(g)' = Unscheduled(g)' + Booked(g)' + Flying(g)' + Waiting(g)' + Dropped(g)' + outQ'[g]
  BY DEF Owed, Unscheduled, Booked, Flying, Waiting, Dropped
<1> QED
  BY <1>1, <1>2, <1>3, <1>4

\* Nothing is lost or gained if the places a step moves rollouts between add up.
LEMMA OnceMoved ==
    ASSUME Shapes, Shapes', NEW g \in Opened, Once(g),
           stopped' = stopped, abandoned' = abandoned, group'[g].env = group[g].env,
           received'[g] + (Unscheduled(g)' + Booked(g)' + Flying(g)' + Waiting(g)' + Dropped(g)' + outQ'[g])
             = received[g] + (Unscheduled(g) + Booked(g) + Flying(g) + Waiting(g) + Dropped(g) + outQ[g])
    PROVE  Once(g)'
<1>1. g \in Gids
  BY DEF Shapes
<1>2. received'[g] + Owed(g)' = received[g] + Owed(g)
  BY <1>1, PlacesAre, PlacesNext
<1> QED
  BY <1>2 DEF Once

\* A step that touches none of the places.
LEMMA OnceQuiet ==
    ASSUME \A g \in Opened : Once(g),
           UNCHANGED <<nextGroup, group, groups, inflight, outQ, received, scheduling, putting, dropping,
                       stopped, abandoned>>
    PROVE  \A g \in Opened' : Once(g)'
  BY DEF Opened, Once, Owed, TasksOf

-----------------------------------------------------------------------------
(* The invariant holds initially. *)

LEMMA InitIInv == Init => IInv
<1> SUFFICES ASSUME Init PROVE IInv
  OBVIOUS
<1> USE DispatcherAssumption
<1>1. Opened = {} /\ OpenedTrain = {} /\ OpenedEval = {} /\ Cardinality({}) = 0 /\ IsFiniteSet({})
  BY FS_EmptySet DEF Init, Opened, OpenedTrain, OpenedEval
<1>2. CountOf(inflight) = 0
  BY CountNone DEF Init
<1>3. OutSize <= OutCapacity
  <2>1. outQ \in [Gids -> Nat] /\ \A g \in Gids : outQ[g] = 0
    BY DEF Init
  <2>2. OutSize = 0
    BY <2>1, GidsFinite, SizeIsTotal, TotalZero DEF OutSize, SizeOf
  <2>3. \E x \in {MinOutCapacity, MaxInflight} : \A y \in {MinOutCapacity, MaxInflight} : x >= y
    OBVIOUS
  <2>4. OutCapacity \in {MinOutCapacity, MaxInflight}
    BY <2>3 DEF OutCapacity, Max
  <2> QED
    BY <2>2, <2>4
<1>4. triggered \in Nat /\ triggered <= MaxTriggers * EvalSize
  <2>1. MaxTriggers * EvalSize = (MaxTriggers - 1) * EvalSize + EvalSize
    OBVIOUS
  <2>2. (MaxTriggers - 1) * EvalSize \in Nat /\ EvalSize \in Nat
    OBVIOUS
  <2>3. triggered \in {0, EvalSize}
    BY DEF Init
  <2> QED
    BY <2>1, <2>2, <2>3
<1>5. EvalEnv \in Envs
  BY DEF Envs
<1>6. Shapes
  <2>1. group \in [Gids -> [env : Envs, toSchedule : Nat, emitted : Nat, pinned : BOOLEAN]]
    BY <1>5 DEF Init, Unopened
  <2>2. outQ \in [Gids -> Nat] /\ received \in [Gids -> Nat]
    BY DEF Init
  <2>3. /\ scheduling \in [gid : {Nobody} \cup Gids, need : Nat, got : Nat]
        /\ putting \in PutState /\ dropping \in PutState
    BY DEF Init, NoSchedule, NoPut, PutState
  <2>4. mode \in {"train", "eval"} /\ pc \in Suspended \cup {"fill", "handle"} /\ evalExamples \in 0 .. triggered
    BY <1>4 DEF Init
  <2>5. /\ policyVersion \in 0 .. shipped /\ shipped \in 0 .. MaxSteps /\ nextGroup \in Nat \ {0}
        /\ permits \in Nat /\ oldestShipped \in Nat
    BY DEF Init
  <2>6. gate \in BOOLEAN /\ draining \in BOOLEAN /\ stopped \in BOOLEAN
    BY DEF Init
  <2>7. inflight = {} /\ done = {} /\ groups = {} /\ stale = {} /\ abandoned = {}
    BY DEF Init
  <2>8. main \in {"loop", "ship", "shipped"} /\ watcher \in {"idle", "claim", "cancel", "update"}
    BY DEF Init
  <2> QED
    BY <1>1, <1>3, <1>4, <2>1, <2>2, <2>3, <2>4, <2>5, <2>6, <2>7, <2>8 DEF Shapes
<1>7. Sources
  BY <1>1, <1>4 DEF Init, Sources
<1>8. Booking /\ Keys /\ Emission /\ PermitsMatchWork
  BY <1>2 DEF Init, Booking, Keys, Emission, PermitsMatchWork, NoSchedule, NoPut, Nobody
<1> QED
  BY <1>1, <1>6, <1>7, <1>8 DEF IInv

\* Steps that decide and count, and move no rollout.
LEMMA QuietIInv ==
    ASSUME IInv,
           FillDone \/ PreferTrain \/ Collect \/ TasksCancelled \/ Ship
             \/ \E v \in 1 .. MaxSteps : VersionAdopted(v)
    PROVE  IInv'
<1> USE DispatcherAssumption
<1>1. /\ UNCHANGED <<nextGroup, group, groups, inflight, permits, outQ, received, scheduling, putting, dropping,
                     stopped, draining, triggered, evalExamples, stale, abandoned, oldestShipped>>
  BY DEF FillDone, PreferTrain, Collect, TasksCancelled, Ship, VersionAdopted, controlVars, evalVars, groupVars,
         outVars, loopVars, watcherVars, historyVars
<1>2. /\ pc' = pc \/ (pc = "fill" /\ pc' = "wait") \/ (pc = "wait" /\ pc' \in {"fill", "handle"})
      /\ done' = done \/ (done' \subseteq inflight /\ (pc' = "handle" \/ done' = {}))
      /\ watcher' = watcher \/ (watcher = "cancel" /\ dropping = NoPut) \/ watcher = "update"
      /\ watcher' \in {"idle", "claim", "cancel", "update"}
  BY DEF IInv, Shapes, FillDone, PreferTrain, Collect, TasksCancelled, Ship, VersionAdopted, controlVars, loopVars, watcherVars, AfterDrop
<1>3. /\ policyVersion' \in 0 .. shipped' /\ shipped' \in 0 .. MaxSteps /\ gate' \in BOOLEAN
      /\ mode' \in {"train", "eval"} /\ main' \in {"loop", "ship", "shipped"}
      /\ main' = "ship" \/ (main' = "loop" /\ ~draining) => shipped' < MaxSteps
  <2>1. CASE FillDone \/ PreferTrain \/ Collect \/ TasksCancelled
    BY <2>1 DEF IInv, Shapes, Sources, FillDone, PreferTrain, Collect, TasksCancelled, controlVars
  <2>2. CASE Ship
    BY <2>2 DEF IInv, Shapes, Sources, Ship, GateAfter
  <2>3. CASE \E v \in 1 .. MaxSteps : VersionAdopted(v)
    BY <2>3 DEF IInv, Shapes, Sources, VersionAdopted, Published, GateAfter
  <2> QED
    BY <2>1, <2>2, <2>3
<1>4. Shapes'
  <2>1. Opened' = Opened /\ OutSize' = OutSize
    BY <1>1, OutSame DEF Opened
  <2>2. done' \subseteq Task
    BY <1>2 DEF IInv, Shapes
  <2>3. pc' \in Suspended \cup {"fill", "handle"}
    BY <1>2 DEF IInv, Shapes, Suspended
  <2> QED
    BY <1>1, <1>2, <1>3, <2>1, <2>2, <2>3 DEF IInv, Shapes
<1>5. Sources'
  BY <1>1, <1>3 DEF IInv, Sources, Opened, OpenedTrain, OpenedEval, IsTrain
<1>6. Booking' /\ PermitsMatchWork'
  BY <1>1, <1>2 DEF IInv, Booking, PermitsMatchWork, Opened, Need
<1>7. Keys'
  BY <1>1, <1>2 DEF IInv, Keys, Opened
<1>8. Emission'
  BY <1>1, <1>2 DEF IInv, Emission, Opened
<1>9. \A g \in Opened' : Once(g)'
  BY <1>1, OnceQuiet DEF IInv
<1> QED
  BY <1>4, <1>5, <1>6, <1>7, <1>8, <1>9 DEF IInv

-----------------------------------------------------------------------------
(* try_schedule *)

\* A group that changes its counters keeps its environment.
LEMMA SourcesKept ==
    ASSUME Sources, Opened \subseteq Gids,
           \A g \in Opened : group'[g].env = group[g].env,
           UNCHANGED <<main, draining, shipped, triggered, evalExamples, nextGroup>>,
           \A g \in Gids \ Opened : received'[g] = 0 /\ outQ'[g] = 0
    PROVE  Sources' /\ Opened' = Opened
<1>1. Opened' = Opened
  BY DEF Opened
<1>2. OpenedTrain' = OpenedTrain /\ OpenedEval' = OpenedEval
  BY <1>1 DEF OpenedTrain, OpenedEval, IsTrain
<1> QED
  BY <1>1, <1>2 DEF Sources

\* The rollouts leave rollouts_to_schedule and are booked, or fly at once.
LEMMA IssueIInv ==
    ASSUME IInv, NEW g \in groups, pc \in {"fill", "client"}, scheduling.need = 0, scheduling.got = 0,
           group[g].toSchedule > 0, permits + Need(group[g]) <= MaxInflight, Issue(g, group[g]),
           UNCHANGED <<controlVars, evalVars, nextGroup, groups, outVars, done, putting, watcherVars, historyVars>>
    PROVE  IInv'
<1> USE DispatcherAssumption
<1> DEFINE n == Need(group[g])
           left == group[g].toSchedule - n
           new == Started(g, n, left)
<1>1. /\ g \in Opened /\ g \in Gids
      /\ group[g] \in [env : Envs, toSchedule : Nat, emitted : Nat, pinned : BOOLEAN]
  BY DEF IInv, Shapes
<1>2. n \in Nat /\ n >= 1 /\ left \in Nat /\ group[g].toSchedule = left + n /\ left < group[g].toSchedule
  BY <1>1 DEF Need
<1>3. /\ group' = [group EXCEPT ![g] = [group[g] EXCEPT !.toSchedule = left, !.pinned = TRUE]]
      /\ \/ /\ pc' = "acquire" /\ scheduling' = [gid |-> g, need |-> n, got |-> 0]
            /\ inflight' = inflight /\ permits' = permits
         \/ /\ pc' = "fill" /\ scheduling' = NoSchedule
            /\ permits' = permits + n /\ inflight' = inflight \cup {new}
  BY DEF Issue, Need
<1>4. /\ UNCHANGED <<policyVersion, shipped, mode, gate, draining, stopped, main, evalExamples, triggered, nextGroup,
                     groups, outQ, received, done, putting, watcher, stale, dropping, abandoned, oldestShipped>>
      /\ done = {} /\ putting = NoPut
  BY DEF controlVars, evalVars, outVars, watcherVars, historyVars, IInv, Keys, Emission
<1> HIDE DEF n, left, new
<1>5. /\ group' \in [Gids -> [env : Envs, toSchedule : Nat, emitted : Nat, pinned : BOOLEAN]]
      /\ group'[g].toSchedule = left /\ group'[g].env = group[g].env /\ group'[g].emitted = group[g].emitted
      /\ \A h \in Gids : h # g => group'[h] = group[h]
  BY <1>1, <1>2, <1>3 DEF IInv, Shapes
<1>6. \A h \in Opened : group'[h].env = group[h].env
  BY <1>5 DEF IInv, Shapes
<1>7. new \in Task /\ new.gid = g /\ new.count = n /\ new.nth = left /\ new \notin inflight
  <2>1. new \in Task /\ new.gid = g /\ new.count = n /\ new.nth = left
    BY <1>1, <1>2 DEF new, Started, Task
  <2>2. \A t \in inflight : t.gid = g => t.nth >= group[g].toSchedule /\ t.nth \in Nat
    BY DEF IInv, Keys, Shapes, Task
  <2> QED
    BY <1>1, <1>2, <2>1, <2>2
<1>8. Sources' /\ Opened' = Opened
  BY <1>4, <1>6, SourcesKept DEF IInv, Shapes, Sources
<1>9. /\ IsFiniteSet(inflight') /\ inflight' \subseteq Task
      /\ CountOf(inflight') = CountOf(inflight) + (permits' - permits)
      /\ \A h : CountOf(TasksOf(h)') = CountOf(TasksOf(h)) + (IF h = g THEN permits' - permits ELSE 0)
  <2>0. inflight \subseteq Task /\ IsFiniteSet(inflight) /\ CountOf(inflight) \in Nat /\ permits \in Nat
    BY CountType DEF IInv, Shapes
  <2>1. CASE inflight' = inflight /\ permits' = permits
    <3>1. \A h : TasksOf(h)' = TasksOf(h) /\ CountOf(TasksOf(h)) \in Nat
      BY <2>0, <2>1, TasksOfFinite DEF TasksOf
    <3> QED
      BY <2>0, <2>1, <3>1
  <2>2. CASE permits' = permits + n /\ inflight' = inflight \cup {new}
    <3>1. permits' - permits = n
      BY <1>2, <2>0, <2>2
    <3> QED
      BY <1>7, <2>0, <2>2, <3>1, TaskAdded
  <2> QED
    BY <1>3, <2>1, <2>2
<1>10. Shapes'
  <2>1. /\ permits' \in Nat /\ pc' \in Suspended \cup {"fill", "handle"}
        /\ scheduling' \in [gid : {Nobody} \cup Gids, need : Nat, got : Nat]
    BY <1>1, <1>2, <1>3 DEF IInv, Shapes, NoSchedule, Suspended
  <2>2. OutSize' = OutSize
    BY <1>4, OutSame
  <2> QED
    BY <1>4, <1>5, <1>8, <1>9, <2>1, <2>2 DEF IInv, Shapes
<1>11. Booking'
  BY <1>1, <1>2, <1>3, <1>8 DEF IInv, Shapes, Booking, n, NoSchedule
<1>12. Keys'
  <2>1. ASSUME NEW t \in inflight' \cup done'
        PROVE  /\ t.gid \in Opened' /\ t.nth >= group'[t.gid].toSchedule
               /\ pc' = "acquire" /\ scheduling'.gid = t.gid => t.nth > group'[t.gid].toSchedule
    <3>1. CASE t \in inflight
      <4>1. t.gid \in Opened /\ t.gid \in Gids /\ t.nth \in Nat /\ t.nth >= group[t.gid].toSchedule
        BY <3>1 DEF IInv, Keys, Shapes, Task
      <4>2. CASE t.gid = g
        BY <1>2, <1>5, <1>8, <4>1, <4>2
      <4>3. CASE t.gid # g
        BY <1>3, <1>5, <1>8, <4>1, <4>3, <1>4 DEF IInv, Shapes
      <4> QED
        BY <4>2, <4>3
    <3>2. CASE t = new /\ pc' = "fill"
      BY <1>1, <1>2, <1>5, <1>7, <1>8, <3>2
    <3> QED
      BY <1>3, <1>4, <2>1, <3>1, <3>2
  <2>2. \A t, u \in inflight' : t.gid = u.gid /\ t.nth = u.nth => t = u
    <3>1. \A t \in inflight : t.gid = g => t.nth # left
      BY <1>1, <1>2 DEF IInv, Keys, Shapes, Task
    <3> QED
      BY <1>3, <1>7, <3>1 DEF IInv, Keys
  <2> QED
    BY <1>4, <2>1, <2>2 DEF Keys
<1>13. PermitsMatchWork'
  <2>1. permits \in Nat /\ permits = CountOf(inflight) /\ CountOf(inflight) \in Nat
    BY CountType DEF IInv, PermitsMatchWork, Shapes
  <2>2. permits' \in Nat /\ permits' <= MaxInflight /\ scheduling'.got = 0
    BY <1>2, <1>3, <2>1 DEF n, NoSchedule, IInv, PermitsMatchWork
  <2> QED
    BY <1>9, <2>1, <2>2 DEF PermitsMatchWork
<1>14. Emission'
  <2>1. pc' # "put" /\ \A h \in groups : group'[h].emitted = group[h].emitted
    BY <1>3, <1>5 DEF IInv, Shapes
  <2> QED
    BY <1>4, <1>8, <2>1 DEF IInv, Emission
<1>15. \A h \in Opened' : Once(h)'
  <2> SUFFICES ASSUME NEW h \in Opened PROVE Once(h)'
    BY <1>8
  <2>1. Waiting(h)' = Waiting(h) /\ Dropped(h)' = Dropped(h) /\ h \in Gids
    BY <1>4 DEF Waiting, Dropped, IInv, Shapes
  <2>2. Flying(h)' = Flying(h) + (IF h = g THEN permits' - permits ELSE 0)
    BY <1>9 DEF Flying
  <2>3. Booked(h) = 0
    BY DEF Booked
  <2>4. CASE h # g
    <3>1. Unscheduled(h)' = Unscheduled(h) /\ Booked(h)' = 0
      BY <1>1, <1>3, <1>4, <1>5, <2>1, <2>4 DEF Unscheduled, Booked, NoSchedule, Nobody
    <3>2. Flying(h)' = Flying(h)
      BY <2>2, <2>4, PlacesAre, <2>1 DEF IInv
    <3> QED
      BY <1>4, <1>6, <1>10, <2>1, <2>3, <3>1, <3>2, OnceMoved DEF IInv
  <2>5. CASE h = g
    <3>1. Unscheduled(h) = left + n /\ Unscheduled(h)' = left
      BY <1>2, <1>4, <1>5, <2>5 DEF Unscheduled
    <3>2. Booked(h)' + Flying(h)' = Flying(h) + n /\ Booked(h)' \in Nat /\ Flying(h)' \in Nat /\ Flying(h) \in Nat
      BY <1>2, <1>3, <1>10, <2>1, <2>2, <2>5, PlacesAre, PlacesNext DEF Booked, NoSchedule, IInv, Shapes
    <3>3. received'[h] + (Unscheduled(h)' + Booked(h)' + Flying(h)' + Waiting(h)' + Dropped(h)' + outQ'[h])
             = received[h] + (Unscheduled(h) + Booked(h) + Flying(h) + Waiting(h) + Dropped(h) + outQ[h])
      <4>1. received[h] \in Nat /\ outQ[h] \in Nat /\ Waiting(h) \in Nat /\ Dropped(h) \in Nat
        BY <2>1, PlacesAre DEF IInv
      <4> QED
        BY <1>2, <1>4, <2>1, <2>3, <3>1, <3>2, <4>1
    <3> QED
      BY <1>4, <1>6, <1>10, <3>3, OnceMoved DEF IInv
  <2> QED
    BY <2>4, <2>5
<1> QED
  BY <1>8, <1>10, <1>11, <1>12, <1>13, <1>14, <1>15 DEF IInv

LEMMA ContinueGroupIInv ==
    ASSUME IInv, ContinueGroup
    PROVE  IInv'
<1> USE DispatcherAssumption
<1> DEFINE g == Min(Continuable)
<1>1. Continuable \in SUBSET Nat /\ Continuable # {}
  <2>1. Continuable \subseteq groups /\ groups \subseteq Opened
    BY DEF Continuable, IInv, Shapes
  <2>2. Opened \subseteq Nat
    BY DEF Opened, IInv, Shapes
  <2> QED
    BY <2>1, <2>2 DEF ContinueGroup
<1>2. g \in Continuable
  BY <1>1, MinIsThere
<1>3. /\ pc = "fill" /\ ScheduleGroupRollout(g, group[g])
      /\ UNCHANGED <<controlVars, evalVars, nextGroup, groups, outVars, done, putting, watcherVars, historyVars>>
  BY DEF ContinueGroup, MayFill
<1> HIDE DEF g
<1>4. /\ g \in groups /\ g \in Opened /\ g \in Gids /\ group[g].toSchedule > 0
      /\ permits + Need(group[g]) <= MaxInflight
  BY <1>2 DEF Continuable, Affordable, Available, Need, IInv, Shapes
<1>5. scheduling = NoSchedule
  BY <1>3 DEF IInv, Booking
<1>6. CASE group[g].pinned
  <2>1. Issue(g, group[g])
    BY <1>3, <1>6 DEF ScheduleGroupRollout
  <2> QED
    BY <1>3, <1>4, <1>5, <2>1, IssueIInv DEF NoSchedule
<1>7. CASE ~group[g].pinned
  <2>1. /\ pc' = "client" /\ scheduling' = [gid |-> g, need |-> 0, got |-> 0] /\ group' = group
        /\ UNCHANGED <<inflight, permits>>
    BY <1>3, <1>4, <1>7 DEF ScheduleGroupRollout, IInv, Shapes
  <2>2. /\ UNCHANGED <<policyVersion, shipped, mode, gate, draining, stopped, main, evalExamples, triggered, nextGroup,
                       groups, outQ, received, done, putting, watcher, stale, dropping, abandoned, oldestShipped>>
        /\ done = {}
    BY <1>3 DEF controlVars, evalVars, outVars, watcherVars, historyVars, IInv, Keys
  <2>3. Sources' /\ Opened' = Opened
    BY <2>1, <2>2, SourcesKept DEF IInv, Shapes, Sources
  <2>4. OutSize' = OutSize
    BY <2>2, OutSame
  <2>5. Shapes'
    BY <1>4, <2>1, <2>2, <2>3, <2>4 DEF IInv, Shapes, Suspended
  <2>6. Booking' /\ PermitsMatchWork'
    BY <1>4, <1>5, <2>1, <2>3 DEF IInv, Booking, PermitsMatchWork, NoSchedule, Need
  <2>7. Keys' /\ Emission'
    BY <1>3, <2>1, <2>2, <2>3 DEF IInv, Keys, Emission
  <2>8. \A h \in Opened' : Once(h)'
    <3> SUFFICES ASSUME NEW h \in Opened PROVE Once(h)'
      BY <2>3
    <3>1. /\ Unscheduled(h)' = Unscheduled(h) /\ Booked(h)' = 0 /\ Booked(h) = 0 /\ Flying(h)' = Flying(h)
          /\ Waiting(h)' = Waiting(h) /\ Dropped(h)' = Dropped(h)
      BY <1>5, <2>1, <2>2 DEF Unscheduled, Booked, Flying, TasksOf, Waiting, Dropped, NoSchedule
    <3> QED
      BY <2>1, <2>2, <2>5, <3>1, OnceMoved DEF IInv
  <2> QED
    BY <2>3, <2>5, <2>6, <2>7, <2>8 DEF IInv
<1> QED
  BY <1>6, <1>7

\* The client is there; the group may be gone.
LEMMA ClientReadyIInv ==
    ASSUME IInv, ClientReady
    PROVE  IInv'
<1> USE DispatcherAssumption
<1>1. /\ pc = "client" /\ scheduling.gid \in Opened
      /\ UNCHANGED <<controlVars, evalVars, nextGroup, groups, outVars, done, putting, watcherVars, historyVars>>
      /\ scheduling.need = 0 /\ scheduling.got = 0 /\ group[scheduling.gid].toSchedule > 0
      /\ permits + Need(group[scheduling.gid]) <= MaxInflight
  BY DEF ClientReady, IInv, Booking
<1>2. CASE scheduling.gid \in groups
  <2>1. Issue(scheduling.gid, group[scheduling.gid])
    BY <1>2 DEF ClientReady
  <2> QED
    BY <1>1, <1>2, <2>1, IssueIInv
<1>3. CASE scheduling.gid \notin groups
  <2>1. pc' = "wait" /\ scheduling' = NoSchedule /\ UNCHANGED <<group, inflight, permits>>
    BY <1>3 DEF ClientReady
  <2>2. /\ UNCHANGED <<policyVersion, shipped, mode, gate, draining, stopped, main, evalExamples, triggered, nextGroup,
                       groups, outQ, received, done, putting, watcher, stale, dropping, abandoned, oldestShipped>>
        /\ done = {}
    BY <1>1 DEF controlVars, evalVars, outVars, watcherVars, historyVars, IInv, Keys
  <2>3. Sources' /\ Opened' = Opened
    BY <2>1, <2>2, SourcesKept DEF IInv, Shapes, Sources
  <2>4. OutSize' = OutSize
    BY <2>2, OutSame
  <2>5. Shapes'
    BY <2>1, <2>2, <2>3, <2>4 DEF IInv, Shapes, Suspended, NoSchedule
  <2>6. Booking' /\ PermitsMatchWork'
    BY <1>1, <2>1, <2>3 DEF IInv, Booking, PermitsMatchWork, NoSchedule
  <2>7. Keys' /\ Emission'
    BY <1>1, <2>1, <2>2, <2>3 DEF IInv, Keys, Emission
  <2>8. \A h \in Opened' : Once(h)'
    <3> SUFFICES ASSUME NEW h \in Opened PROVE Once(h)'
      BY <2>3
    <3>0. h # Nobody
      BY DEF Opened, Nobody
    <3>1. /\ Unscheduled(h)' = Unscheduled(h) /\ Booked(h)' = 0 /\ Booked(h) = 0 /\ Flying(h)' = Flying(h)
          /\ Waiting(h)' = Waiting(h) /\ Dropped(h)' = Dropped(h)
      BY <1>1, <2>1, <2>2 DEF Unscheduled, Booked, Flying, TasksOf, Waiting, Dropped, NoSchedule
    <3> QED
      BY <2>1, <2>2, <2>5, <3>1, OnceMoved DEF IInv
  <2> QED
    BY <2>3, <2>5, <2>6, <2>7, <2>8 DEF IInv
<1> QED
  BY <1>2, <1>3

\* One more permit; with the last the booked rollouts fly.
LEMMA AcquireIInv ==
    ASSUME IInv, Acquire
    PROVE  IInv'
<1> USE DispatcherAssumption
<1> DEFINE g == scheduling.gid
           new == Started(g, scheduling.need, group[g].toSchedule)
<1>1. /\ pc = "acquire" /\ g \in Opened /\ g \in Gids /\ permits' = permits + 1
      /\ UNCHANGED <<policyVersion, shipped, mode, gate, draining, stopped, main, evalExamples, triggered, nextGroup,
                     group, groups, outQ, received, done, putting, watcher, stale, dropping, abandoned, oldestShipped>>
      /\ done = {}
      /\ scheduling.got < scheduling.need /\ permits + scheduling.need - scheduling.got <= MaxInflight
      /\ scheduling \in [gid : {Nobody} \cup Gids, need : Nat, got : Nat] /\ permits \in Nat
  BY DEF Acquire, controlVars, evalVars, outVars, watcherVars, historyVars, IInv, Keys, Booking, Shapes
<1>2. /\ Sources' /\ Opened' = Opened
  BY <1>1, SourcesKept DEF IInv, Shapes, Sources
<1>3. OutSize' = OutSize
  BY <1>1, OutSame
<1>4. permits = CountOf(inflight) + scheduling.got /\ CountOf(inflight) \in Nat
  BY CountType DEF IInv, PermitsMatchWork, Shapes
<1>5. CASE scheduling.got + 1 < scheduling.need
  <2>1. scheduling' = [scheduling EXCEPT !.got = scheduling.got + 1] /\ UNCHANGED <<pc, inflight>>
    BY <1>5 DEF Acquire
  <2>2. /\ scheduling' \in [gid : {Nobody} \cup Gids, need : Nat, got : Nat]
        /\ scheduling'.gid = g /\ scheduling'.need = scheduling.need /\ scheduling'.got = scheduling.got + 1
    BY <1>1, <2>1
  <2>3. Shapes'
    BY <1>1, <1>2, <1>3, <2>1, <2>2 DEF IInv, Shapes
  <2>4. Booking'
    BY <1>1, <1>2, <1>5, <2>1, <2>2 DEF Booking
  <2>5. PermitsMatchWork'
    BY <1>1, <1>4, <2>1, <2>2 DEF PermitsMatchWork
  <2>6. Keys' /\ Emission'
    BY <1>1, <1>2, <2>1, <2>2 DEF IInv, Keys, Emission
  <2>7. \A h \in Opened' : Once(h)'
    <3> SUFFICES ASSUME NEW h \in Opened PROVE Once(h)'
      BY <1>2
    <3>1. /\ Unscheduled(h)' = Unscheduled(h) /\ Booked(h)' = Booked(h) /\ Flying(h)' = Flying(h)
          /\ Waiting(h)' = Waiting(h) /\ Dropped(h)' = Dropped(h)
      BY <1>1, <2>1, <2>2 DEF Unscheduled, Booked, Flying, TasksOf, Waiting, Dropped
    <3> QED
      BY <1>1, <2>3, <3>1, OnceMoved DEF IInv
  <2> QED
    BY <1>2, <2>3, <2>4, <2>5, <2>6, <2>7 DEF IInv
<1>6. CASE ~(scheduling.got + 1 < scheduling.need)
  <2>1. inflight' = inflight \cup {new} /\ pc' = "fill" /\ scheduling' = NoSchedule
    BY <1>6 DEF Acquire
  <2>2. scheduling.need = scheduling.got + 1
    BY <1>1, <1>6
  <2> HIDE DEF new
  <2>3. /\ new \in Task /\ new.gid = g /\ new.count = scheduling.need /\ new.nth = group[g].toSchedule
        /\ group[g].toSchedule \in Nat
    BY <1>1 DEF new, Started, Task, IInv, Shapes
  <2>4. \A t \in inflight : t.gid = g => t.nth # group[g].toSchedule
    BY <1>1 DEF IInv, Keys, Shapes, Task
  <2>5. new \notin inflight
    BY <2>3, <2>4
  <2>6. /\ IsFiniteSet(inflight') /\ CountOf(inflight') = CountOf(inflight) + scheduling.need
        /\ \A h : CountOf(TasksOf(h)') = CountOf(TasksOf(h)) + (IF h = g THEN scheduling.need ELSE 0)
    BY <2>1, <2>3, <2>5, TaskAdded DEF IInv, Shapes
  <2>7. Shapes'
    BY <1>1, <1>2, <1>3, <2>1, <2>3, <2>6 DEF IInv, Shapes, NoSchedule
  <2>8. Booking' /\ Emission'
    BY <1>1, <1>2, <2>1 DEF IInv, Booking, Emission
  <2>9. PermitsMatchWork'
    <3>1. permits' = CountOf(inflight') + scheduling'.got /\ permits' \in Nat /\ permits' <= MaxInflight
      BY <1>1, <1>4, <2>1, <2>2, <2>6 DEF NoSchedule
    <3> QED
      BY <3>1 DEF PermitsMatchWork
  <2>10. Keys'
    <3>1. \A t \in inflight' : t.gid \in Opened' /\ t.nth >= group'[t.gid].toSchedule
      BY <1>1, <1>2, <2>1, <2>3 DEF IInv, Keys
    <3>2. \A t, u \in inflight' : t.gid = u.gid /\ t.nth = u.nth => t = u
      BY <2>1, <2>3, <2>4 DEF IInv, Keys
    <3> QED
      BY <1>1, <2>1, <3>1, <3>2 DEF Keys
  <2>11. \A h \in Opened' : Once(h)'
    <3> SUFFICES ASSUME NEW h \in Opened PROVE Once(h)'
      BY <1>2
    <3>0. h \in Gids /\ h # Nobody
      BY DEF IInv, Shapes, Opened, Nobody
    <3>1. Unscheduled(h)' = Unscheduled(h) /\ Waiting(h)' = Waiting(h) /\ Dropped(h)' = Dropped(h) /\ Booked(h)' = 0
      BY <1>1, <2>1, <3>0 DEF Unscheduled, Booked, Waiting, Dropped, NoSchedule
    <3>2. Flying(h)' = Flying(h) + Booked(h)
      <4>1. Flying(h)' = Flying(h) + (IF h = g THEN scheduling.need ELSE 0)
        BY <2>6 DEF Flying
      <4> QED
        BY <4>1 DEF Booked
    <3>3. received'[h] + (Unscheduled(h)' + Booked(h)' + Flying(h)' + Waiting(h)' + Dropped(h)' + outQ'[h])
             = received[h] + (Unscheduled(h) + Booked(h) + Flying(h) + Waiting(h) + Dropped(h) + outQ[h])
      BY <1>1, <3>0, <3>1, <3>2, PlacesAre DEF IInv
    <3> QED
      BY <1>1, <2>7, <3>3, OnceMoved DEF IInv
  <2> QED
    BY <1>2, <2>7, <2>8, <2>9, <2>10, <2>11 DEF IInv
<1> QED
  BY <1>5, <1>6

LEMMA FirstNumbers ==
    ASSUME NEW n \in Nat
    PROVE  IsFiniteSet(1 .. n) /\ Cardinality(1 .. n) = n
  BY FS_Interval

\* next_fresh_group: the examples offered bound the groups opened.
LEMMA OpenGroupIInv ==
    ASSUME IInv, NEW e \in Envs, OpenGroup(e)
    PROVE  IInv'
<1> USE DispatcherAssumption
<1>0. PICK g \in Nat \ {0} : g = nextGroup
  BY DEF IInv, Shapes
<1> DEFINE gr == [env |-> e, toSchedule |-> GroupSize[e], emitted |-> 0, pinned |-> FALSE]
<1>1. /\ pc = "fill" /\ pc' = "client" /\ scheduling' = [gid |-> g, need |-> 0, got |-> 0]
      /\ group' = [group EXCEPT ![g] = gr]
      /\ nextGroup' = g + 1 /\ groups' = groups \cup {g}
      /\ evalExamples' = evalExamples - (IF e = EvalEnv THEN 1 ELSE 0)
      /\ UNCHANGED <<policyVersion, shipped, mode, gate, draining, stopped, main, triggered,
                     inflight, permits, outQ, received, done, putting, watcher, stale, dropping, abandoned, oldestShipped>>
  BY <1>0 DEF OpenGroup, ScheduleGroupRollout, MayFill, controlVars, evalVars, outVars, watcherVars, historyVars
<1>2. done = {} /\ scheduling = NoSchedule /\ putting = NoPut
  BY <1>1 DEF IInv, Keys, Booking, Emission
<1>3. GroupSize[e] \in Nat /\ GroupSize[e] > 0 /\ permits + Need(gr) <= MaxInflight
  BY DEF OpenGroup, Affordable, Available, Need, IInv, Shapes
<1>4. Opened = 1 .. g - 1 /\ Opened' = Opened \cup {g} /\ g \notin Opened
  <2>1. Opened = 1 .. g - 1 /\ Opened' = 1 .. (g + 1) - 1
    BY <1>0, <1>1 DEF Opened
  <2>2. 1 .. (g + 1) - 1 = (1 .. g - 1) \cup {g} /\ g \notin 1 .. g - 1
    OBVIOUS
  <2> QED
    BY <2>1, <2>2
<1>5. /\ IsFiniteSet(Opened) /\ Cardinality(Opened) = g - 1
      /\ IsFiniteSet(OpenedTrain) /\ IsFiniteSet(OpenedEval)
      /\ Cardinality(OpenedTrain) \in Nat /\ Cardinality(OpenedEval) \in Nat
      /\ Cardinality(OpenedTrain) + Cardinality(OpenedEval) = g - 1
  <2>1. IsFiniteSet(Opened) /\ Cardinality(Opened) = g - 1
    <3>1. PICK n \in Nat : n = g - 1
      BY <1>0
    <3>2. Opened = 1 .. n
      BY <1>4, <3>1
    <3> QED
      BY <3>1, <3>2, FirstNumbers, Zenon
  <2>2. OpenedTrain \in SUBSET Opened /\ OpenedEval \in SUBSET Opened
    BY DEF OpenedTrain, OpenedEval
  <2>3. IsFiniteSet(OpenedTrain) /\ IsFiniteSet(OpenedEval)
    BY <2>1, <2>2, FS_Subset
  <2>4. Cardinality(OpenedTrain) \in Nat /\ Cardinality(OpenedEval) \in Nat
    BY <2>3, FS_CardinalityType
  <2>5. OpenedTrain \cup OpenedEval = Opened /\ OpenedTrain \cap OpenedEval = {}
    BY DEF OpenedTrain, OpenedEval
  <2>6. Cardinality(OpenedTrain \cup OpenedEval)
          = Cardinality(OpenedTrain) + Cardinality(OpenedEval) - Cardinality(OpenedTrain \cap OpenedEval)
    BY <2>3, FS_Union
  <2>7. Cardinality(OpenedTrain \cap OpenedEval) = 0
    BY <2>5, FS_EmptySet
  <2>8. Cardinality(OpenedTrain) + Cardinality(OpenedEval) = g - 1
    <3>1. PICK a \in Nat, b \in Nat : a = Cardinality(OpenedTrain) /\ b = Cardinality(OpenedEval)
      BY <2>4
    <3> HIDE DispatcherAssumption
    <3>2. a + b - 0 = a + b
      OBVIOUS
    <3> QED
      BY <2>1, <2>5, <2>6, <2>7, <3>1, <3>2
  <2> QED
    BY <2>1, <2>3, <2>4, <2>8
<1>6. /\ e = EvalEnv => evalExamples > 0
      /\ e # EvalEnv => e \in TrainEnvs /\ Cardinality(OpenedTrain) < MaxTrainGroups
  BY DEF OpenGroup, Offered, Kind, OpenedTrain
<1>7. /\ triggered \in Nat /\ evalExamples \in Nat /\ evalExamples <= triggered
      /\ triggered <= MaxTriggers * EvalSize /\ MaxTriggers * EvalSize \in Nat
      /\ Cardinality(OpenedTrain) <= MaxTrainGroups
      /\ Cardinality(OpenedEval) + evalExamples = triggered
  <2>1. MaxTriggers * EvalSize \in Nat
    OBVIOUS
  <2> QED
    BY <2>1 DEF IInv, Shapes, Sources
<1>8. g \in Gids
  <2>1. PICK a \in Nat, b \in Nat, m \in Nat : /\ a = Cardinality(OpenedTrain) /\ b = Cardinality(OpenedEval)
                                               /\ m = MaxTriggers * EvalSize
    BY <1>5, <1>7
  <2>2. a + b = g - 1 /\ a <= MaxTrainGroups /\ b <= m /\ (a < MaxTrainGroups \/ b < m)
    BY <1>5, <1>6, <1>7, <2>1
  <2>3. 1 <= g /\ g <= MaxTrainGroups + m
    BY <2>2
  <2> QED
    BY <2>1, <2>3 DEF Gids
<1>9. /\ group' \in [Gids -> [env : Envs, toSchedule : Nat, emitted : Nat, pinned : BOOLEAN]]
      /\ group'[g] = gr /\ \A h \in Gids : h # g => group'[h] = group[h]
  BY <1>1, <1>3, <1>8 DEF IInv, Shapes
<1>10. \A h \in Opened : h \in Gids /\ h # g /\ group'[h] = group[h]
  BY <1>4, <1>9 DEF IInv, Shapes
<1>11. Shapes'
  <2>1. OutSize' = OutSize
    BY <1>1, OutSame
  <2>2. nextGroup' \in Nat \ {0} /\ Opened' \subseteq Gids /\ groups' \subseteq Opened'
    <3>1. nextGroup' \in Nat \ {0}
      BY <1>1
    <3>2. Opened \subseteq Gids /\ groups \subseteq Opened
      BY DEF IInv, Shapes
    <3> QED
      BY <1>1, <1>4, <1>8, <3>1, <3>2
  <2>3. evalExamples' \in 0 .. triggered'
    BY <1>1, <1>6, <1>7
  <2>4. scheduling' \in [gid : {Nobody} \cup Gids, need : Nat, got : Nat] /\ pc' \in Suspended
    BY <1>1, <1>8 DEF Suspended
  <2>5. stale' \subseteq Opened' /\ abandoned' \subseteq Opened'
    BY <1>1, <1>4 DEF IInv, Shapes
  <2> QED
    BY <1>1, <1>9, <2>1, <2>2, <2>3, <2>4, <2>5 DEF IInv, Shapes
<1>12. Sources'
  <2>1. CASE e = EvalEnv
    <3>1. OpenedTrain' = OpenedTrain /\ OpenedEval' = OpenedEval \cup {g} /\ g \notin OpenedEval
      BY <1>4, <1>9, <1>10, <2>1, SMTT(30) DEF OpenedTrain, OpenedEval, IsTrain
    <3>2. Cardinality(OpenedEval') = Cardinality(OpenedEval) + 1
      BY <1>5, <3>1, FS_AddElement
    <3>3. /\ Cardinality(OpenedTrain') <= MaxTrainGroups
          /\ Cardinality(OpenedEval') + evalExamples' = triggered'
      BY <1>1, <1>5, <1>7, <2>1, <3>1, <3>2
    <3> QED
      BY <1>1, <1>4, <3>3 DEF IInv, Sources
  <2>2. CASE e # EvalEnv
    <3>1. OpenedEval' = OpenedEval /\ OpenedTrain' = OpenedTrain \cup {g} /\ g \notin OpenedTrain
      BY <1>4, <1>6, <1>9, <1>10, <2>2, SMTT(30) DEF OpenedTrain, OpenedEval, IsTrain
    <3>2. Cardinality(OpenedTrain') = Cardinality(OpenedTrain) + 1
      BY <1>5, <3>1, FS_AddElement
    <3>3. /\ Cardinality(OpenedTrain') <= MaxTrainGroups
          /\ Cardinality(OpenedEval') + evalExamples' = triggered'
      BY <1>1, <1>5, <1>6, <1>7, <2>2, <3>1, <3>2
    <3> QED
      BY <1>1, <1>4, <3>3 DEF IInv, Sources
  <2> QED
    BY <2>1, <2>2
<1>13. Booking' /\ PermitsMatchWork'
  BY <1>1, <1>2, <1>3, <1>4, <1>9 DEF IInv, Booking, PermitsMatchWork, NoSchedule
<1>14. Keys'
  BY <1>1, <1>2, <1>4, <1>10 DEF IInv, Keys
<1>15. Emission'
  <2>1. received[g] = 0 /\ outQ[g] = 0
    BY <1>4, <1>8 DEF IInv, Sources
  <2>2. dropping # NoPut => dropping.gid \in Opened' \ groups'
    BY <1>1, <1>4 DEF IInv, Emission
  <2>3. \A h \in groups' : group'[h].emitted = received'[h] + outQ'[h] + (IF putting'.gid = h THEN 1 ELSE 0)
    <3>1. putting'.gid \notin groups' /\ \A h \in groups : h \in Opened
      BY <1>1, <1>2, <1>4 DEF IInv, Shapes, NoPut, Nobody, Opened
    <3>2. \A h \in groups : group[h].emitted = received[h] + outQ[h] + 0
      BY <1>1, <1>2, <3>1 DEF IInv, Emission
    <3> QED
      BY <1>1, <1>9, <1>10, <2>1, <3>1, <3>2
  <2>4. putting'.gid \notin groups'
    BY <1>1, <1>2, <1>4 DEF IInv, Shapes, NoPut, Nobody, Opened
  <2> QED
    BY <1>1, <1>2, <2>2, <2>3, <2>4 DEF IInv, Emission
<1>16. \A h \in Opened' : Once(h)'
  <2>1. ASSUME NEW h \in Opened PROVE Once(h)'
    <3>1. /\ Unscheduled(h)' = Unscheduled(h) /\ Booked(h)' = 0 /\ Booked(h) = 0 /\ Flying(h)' = Flying(h)
          /\ Waiting(h)' = Waiting(h) /\ Dropped(h)' = Dropped(h)
      <4>1. h \in groups' <=> h \in groups
        BY <1>1, <1>10
      <4> QED
        BY <1>1, <1>2, <1>10, <4>1 DEF Unscheduled, Booked, Flying, TasksOf, Waiting, Dropped, NoSchedule
    <3> QED
      BY <1>1, <1>10, <1>11, <3>1, OnceMoved DEF IInv
  <2>2. Once(g)'
    <3>1. received[g] = 0 /\ outQ[g] = 0 /\ g \notin abandoned /\ g \in groups' /\ g # Nobody
      BY <1>1, <1>4, <1>8 DEF IInv, Sources, Shapes, Nobody
    <3>2. ~stopped
      BY DEF OpenGroup, MayFill
    <3>3. TasksOf(g)' = {}
      BY <1>1, <1>4 DEF IInv, Keys, TasksOf
    <3>4. Flying(g)' = 0
      BY <3>3, CountNone DEF Flying
    <3>5. dropping.gid # g
      BY <1>4, <3>1 DEF IInv, Emission, NoPut
    <3>6. /\ Unscheduled(g)' = GroupSize[e] /\ Booked(g)' = 0 /\ Waiting(g)' = 0 /\ Dropped(g)' = 0
      BY <1>1, <1>2, <1>9, <3>1, <3>5 DEF Unscheduled, Booked, Waiting, Dropped, NoPut
    <3>7. Owed(g)' = GroupSize[e]
      BY <1>1, <1>3, <1>8, <1>11, <3>1, <3>4, <3>6, PlacesNext
    <3> QED
      BY <1>1, <1>3, <1>9, <3>1, <3>2, <3>7 DEF Once
  <2> QED
    BY <1>4, <2>1, <2>2
<1> QED
  BY <1>11, <1>12, <1>13, <1>14, <1>15, <1>16 DEF IInv

-----------------------------------------------------------------------------
(* handle_completed_rollout *)

\* The task that asyncio.wait returned is in flight once or not at all.
LEMMA StillInflightIs ==
    ASSUME IInv, NEW t \in done, StillInflight(t) # {}
    PROVE  \E u \in inflight : /\ StillInflight(t) = {u} /\ u.gid = t.gid /\ u.nth = t.nth
                               /\ u.count = t.count
  BY DEF StillInflight, IInv, Keys

\* A group that is forgotten owes nothing that is not counted.
LEMMA ForgottenOwesNothing ==
    ASSUME IInv, NEW g \in groups, NEW k \in Nat, k <= Flying(g) + Waiting(g),
           group[g].emitted + k - (IF putting.gid = g THEN 1 ELSE 0) >= GroupSize[group[g].env]
    PROVE  Unscheduled(g) = 0 /\ group[g].toSchedule = 0
<1>1. g \in Gids /\ g \in Opened /\ Once(g) /\ Shapes
  BY DEF IInv, Shapes
<1>2. /\ group[g].emitted = received[g] + outQ[g] + (IF putting.gid = g THEN 1 ELSE 0)
      /\ group[g].emitted \in Nat /\ group[g].toSchedule \in Nat
  BY <1>1 DEF IInv, Emission, Shapes
<1>3. received[g] + Owed(g) <= GroupSize[group[g].env] /\ Owed(g) \in Nat
  BY <1>1, PlacesAre DEF Once
<1>4. Unscheduled(g) = group[g].toSchedule
  BY DEF Unscheduled
<1>5. received[g] + outQ[g] + k >= GroupSize[group[g].env]
  BY <1>1, <1>2, PlacesAre
<1>6. ASSUME NEW r \in Nat, NEW q \in Nat, NEW a \in Nat, NEW b \in Nat, NEW c \in Nat, NEW d \in Nat,
             NEW w \in Nat, NEW s \in Nat, r + (a + b + c + w + d + q) <= s, r + q + k >= s, k <= c + w
      PROVE  a = 0
  BY <1>6
<1>7. /\ Unscheduled(g) \in Nat /\ Booked(g) \in Nat /\ Flying(g) \in Nat /\ Waiting(g) \in Nat
      /\ Dropped(g) \in Nat /\ outQ[g] \in Nat /\ received[g] \in Nat /\ GroupSize[group[g].env] \in Nat
  BY <1>1, PlacesAre
<1>8. received[g] + (Unscheduled(g) + Booked(g) + Flying(g) + Waiting(g) + Dropped(g) + outQ[g])
        <= GroupSize[group[g].env]
  BY <1>1, <1>3, PlacesAre
<1>9. Unscheduled(g) = 0
  BY <1>5, <1>6, <1>7, <1>8
<1> QED
  BY <1>4, <1>9

LEMMA AnotherPermitsKept ==
    ASSUME IInv, NEW U \in SUBSET inflight, inflight' = inflight \ U, permits' = permits - CountOf(U),
           scheduling' = scheduling
    PROVE  PermitsMatchWork' /\ permits' \in Nat /\ permits' <= permits /\ inflight' \subseteq Task /\ IsFiniteSet(inflight')
<1>1. /\ IsFiniteSet(inflight') /\ CountOf(U) \in Nat /\ CountOf(inflight') = CountOf(inflight) - CountOf(U)
  BY TasksRemoved DEF IInv, Shapes
<1>2. inflight' \subseteq Task
  BY DEF IInv, Shapes
<1>3. CountOf(inflight') \in Nat /\ CountOf(inflight) \in Nat
  BY <1>1, <1>2, CountType DEF IInv, Shapes
<1>4. scheduling.got \in Nat /\ permits \in Nat
  BY DEF IInv, Shapes
<1>5. permits = CountOf(inflight) + scheduling.got /\ permits <= MaxInflight
  BY DEF IInv, PermitsMatchWork
<1>6. permits' = CountOf(inflight') + scheduling.got /\ permits' \in Nat /\ permits' <= permits
  BY <1>1, <1>3, <1>4, <1>5
<1>7. permits' \in 0 .. MaxInflight
  BY <1>4, <1>5, <1>6, DispatcherAssumption
<1> QED
  BY <1>1, <1>2, <1>6, <1>7 DEF PermitsMatchWork

LEMMA HandleCompletedIInv ==
    ASSUME IInv, NEW t \in done, HandleCompleted(t)
    PROVE  IInv'
<1> USE DispatcherAssumption
<1>1. /\ pc = "handle" /\ done' = done \ {t}
      /\ UNCHANGED <<policyVersion, shipped, mode, gate, draining, stopped, main, evalExamples, triggered, nextGroup,
                     received, scheduling, watcher, stale, dropping, abandoned>>
      /\ putting = NoPut /\ scheduling = NoSchedule
  BY DEF HandleCompleted, controlVars, evalVars, watcherVars, IInv, Emission, Booking
<1>2. t \in Task /\ t.gid \in Opened /\ t.gid \in Gids /\ t.count \in Nat
  BY DEF IInv, Shapes, Keys, Task
<1>3. AfterHandling(done') \in {"fill", "handle"} /\ (AfterHandling(done') = "fill" => done' = {})
  BY DEF AfterHandling
<1>4. CASE StillInflight(t) = {}
  <2>1. /\ pc' = AfterHandling(done')
        /\ UNCHANGED <<group, groups, inflight, permits, outQ, putting, oldestShipped>>
    BY <1>4 DEF HandleCompleted
  <2>2. Sources' /\ Opened' = Opened
    BY <1>1, <2>1, SourcesKept DEF IInv, Shapes, Sources
  <2>3. OutSize' = OutSize
    BY <2>1, OutSame
  <2>4. Shapes'
    BY <1>1, <1>3, <2>1, <2>2, <2>3 DEF IInv, Shapes
  <2>5. Booking' /\ PermitsMatchWork' /\ Emission'
    BY <1>1, <1>3, <2>1, <2>2 DEF IInv, Booking, PermitsMatchWork, Emission
  <2>6. Keys'
    BY <1>1, <1>3, <2>1, <2>2 DEF IInv, Keys
  <2>7. \A g \in Opened' : Once(g)'
    BY <1>1, <2>1, OnceQuiet DEF IInv
  <2> QED
    BY <2>2, <2>4, <2>5, <2>6, <2>7 DEF IInv
<1>5. CASE StillInflight(t) # {}
  <2>1. PICK u \in inflight : StillInflight(t) = {u} /\ u.gid = t.gid /\ u.nth = t.nth /\ u.count = t.count
    BY <1>5, StillInflightIs
  <2>2. PICK g \in Opened, n \in Nat : g = t.gid /\ n = t.count
    BY <1>2
  <2>3. PICK f \in Nat, l \in Nat, c \in Nat : /\ f = Fits(n) /\ l = Left(n) /\ c = Counted(n)
                     /\ n = f + l /\ c = f + (IF l > 0 THEN 1 ELSE 0) /\ c <= n
    <3>1. outQ \in [Gids -> Nat] /\ OutSize <= OutCapacity
      BY DEF IInv, Shapes
    <3>2. Fits(n) \in 0 .. n /\ Left(n) \in Nat /\ Left(n) = n - Fits(n) /\ Counted(n) \in 0 .. n
          /\ Counted(n) = Fits(n) + (IF Left(n) > 0 THEN 1 ELSE 0)
      BY <3>1, FitsIs
    <3>3. Fits(n) \in Nat /\ Counted(n) \in Nat /\ n = Fits(n) + Left(n) /\ Counted(n) <= n
      BY <3>2
    <3> QED
      BY <3>2, <3>3
  <2>4. /\ inflight' = inflight \ {u} /\ permits' = permits - n /\ Put(g, n)
        /\ group' = IF g \in groups THEN [group EXCEPT ![g].emitted = @ + c] ELSE group
        /\ groups' = IF g \in groups THEN groups \ Forget(g, c) ELSE groups
        /\ oldestShipped' = Max({oldestShipped} \cup {v.age : v \in {w \in {u} : w.state = "ok"}})
        /\ \/ l > 0 /\ putting' = [gid |-> g, left |-> l, counted |-> g \in groups] /\ pc' = "put"
           \/ ~(l > 0) /\ pc' = AfterHandling(done') /\ putting' = putting
    BY <1>5, <2>1, <2>2, <2>3 DEF HandleCompleted
  <2>5. /\ outQ' \in [Gids -> Nat] /\ (OutSize <= OutCapacity)'
        /\ outQ'[g] = outQ[g] + f
        /\ \A h \in Gids \ {g} : outQ'[h] = outQ[h]
    BY <1>2, <2>2, <2>3, <2>4, PutIs DEF IInv, Shapes
  <2>6. /\ group' \in [Gids -> [env : Envs, toSchedule : Nat, emitted : Nat, pinned : BOOLEAN]]
        /\ \A h \in Gids : group'[h].env = group[h].env /\ group'[h].toSchedule = group[h].toSchedule
        /\ \A h \in Gids : h # g => group'[h].emitted = group[h].emitted
        /\ g \in groups => group'[g].emitted = group[g].emitted + c
        /\ groups' \subseteq groups /\ groups \ {g} \subseteq groups'
    <3>1. g \in Gids /\ group[g].emitted + c \in Nat
      BY <1>2, <2>2, <2>3 DEF IInv, Shapes
    <3> QED
      BY <2>4, <3>1 DEF IInv, Shapes, Forget
  <2>7. Sources' /\ Opened' = Opened
    BY <1>1, <2>2, <2>5, <2>6, SourcesKept DEF IInv, Shapes, Sources
  <2>8. oldestShipped' \in {oldestShipped, u.age} /\ u.age \in Nat
    <3>1. u.age \in Nat /\ oldestShipped \in Nat
      BY DEF IInv, Shapes, Task
    <3>2. \/ {v.age : v \in {w \in {u} : w.state = "ok"}} = {}
          \/ {v.age : v \in {w \in {u} : w.state = "ok"}} = {u.age}
      OBVIOUS
    <3>3. PICK S : S = {oldestShipped} \cup {v.age : v \in {w \in {u} : w.state = "ok"}}
      OBVIOUS
    <3>4. S = {oldestShipped} \/ S = {oldestShipped, u.age}
      BY <3>2, <3>3
    <3>5. \E x \in S : \A y \in S : x >= y
      BY <3>1, <3>4
    <3>6. Max(S) \in S
      BY <3>5 DEF Max
    <3> QED
      BY <2>4, <3>1, <3>3, <3>4, <3>6
  <2>9. /\ CountOf({u}) = n /\ \A h : CountOf(TasksOf(h)') = CountOf(TasksOf(h)) - (IF h = g THEN n ELSE 0)
    <3>1. u \in Task /\ CountOf({u}) = n
      BY <2>1, <2>2, CountOne DEF IInv, Shapes
    <3>2. ASSUME NEW h PROVE CountOf(Among({u}, h)) = IF h = g THEN n ELSE 0
      <4>1. CASE h = g
        <5>1. Among({u}, h) = {u}
          BY <2>1, <2>2, <4>1 DEF Among
        <5> QED
          BY <3>1, <4>1, <5>1
      <4>2. CASE h # g
        <5>1. Among({u}, h) = {}
          BY <2>1, <2>2, <4>2 DEF Among
        <5> QED
          BY <4>2, <5>1, CountNone
      <4> QED
        BY <4>1, <4>2
    <3>3. \A h : CountOf(TasksOf(h)') = CountOf(TasksOf(h)) - CountOf(Among({u}, h))
      <4>1. {u} \in SUBSET inflight /\ inflight \subseteq Task /\ IsFiniteSet(inflight) /\ inflight' = inflight \ {u}
        BY <2>4 DEF IInv, Shapes
      <4> QED
        BY <4>1, TasksRemoved
    <3> QED
      BY <3>1, <3>2, <3>3
  <2>10. PermitsMatchWork' /\ permits' \in Nat /\ inflight' \subseteq Task /\ IsFiniteSet(inflight')
    BY <1>1, <2>4, <2>9, AnotherPermitsKept, ZenonT(60)
  <2>11. Shapes'
    <3>1. putting' \in PutState /\ pc' \in Suspended \cup {"fill", "handle"}
      <4>1. [gid |-> g, left |-> l, counted |-> g \in groups] \in PutState
        <5>1. g \in Gids /\ l \in Nat /\ (g \in groups) \in BOOLEAN
          BY <1>2, <2>2, <2>3
        <5> QED
          BY <5>1, Zenon DEF PutState
      <4>2. putting \in PutState
        BY DEF IInv, Shapes
      <4>3. putting' = [gid |-> g, left |-> l, counted |-> g \in groups] \/ putting' = putting
        BY <2>4, Zenon
      <4>4. putting' \in PutState
        BY <4>1, <4>2, <4>3, Zenon
      <4> QED
        BY <1>3, <2>4, <4>4 DEF Suspended
    <3>2. groups' \subseteq Opened' /\ done' \subseteq Task /\ oldestShipped' \in Nat
      BY <1>1, <2>6, <2>7, <2>8 DEF IInv, Shapes
    <3> QED
      BY <1>1, <2>5, <2>6, <2>7, <2>10, <3>1, <3>2 DEF IInv, Shapes
  <2>12. Booking'
    BY <1>1, <1>3, <2>4 DEF Booking
  <2>13. Keys'
    <3>1. pc' \in {"put", "fill", "handle"} /\ (pc' = "fill" => done' = {})
      BY <1>3, <2>4
    <3>2. inflight' \subseteq inflight /\ done' \subseteq done
      BY <1>1, <2>4
    <3>3. \A v \in inflight \cup done : v.gid \in Opened /\ v.gid \in Gids /\ v.nth >= group[v.gid].toSchedule
      BY DEF IInv, Keys, Shapes
    <3> QED
      BY <2>6, <2>7, <3>1, <3>2, <3>3 DEF IInv, Keys
  <2>14. Emission'
    <3>1. pc' # "put" => putting' = NoPut
      BY <1>1, <1>3, <2>4
    <3>2. pc' = "put" => putting'.gid \in Opened' /\ putting'.left > 0
      BY <1>3, <2>4, <2>7
    <3>3. putting'.gid \in groups' => putting'.counted
      <4>1. CASE l > 0
        <5>1. putting' = [gid |-> g, left |-> l, counted |-> g \in groups] /\ groups' \subseteq groups
          BY <2>4, <2>6, <4>1
        <5>2. putting'.gid = g /\ putting'.counted = (g \in groups)
          BY <5>1, Zenon
        <5> QED
          BY <5>1, <5>2
      <4>2. CASE ~(l > 0)
        <5>1. putting' = NoPut /\ 0 \notin groups'
          BY <1>1, <2>4, <2>6, <4>2 DEF Opened, IInv, Shapes
        <5> QED
          BY <5>1 DEF NoPut, Nobody
      <4> QED
        BY <4>1, <4>2
    <3>4. ASSUME NEW h \in groups'
          PROVE  group'[h].emitted = received'[h] + outQ'[h] + (IF putting'.gid = h THEN 1 ELSE 0)
      <4>1. h \in groups /\ h \in Gids /\ h # 0
        BY <2>6 DEF IInv, Shapes, Opened
      <4>2. group[h].emitted = received[h] + outQ[h] /\ received[h] \in Nat /\ outQ[h] \in Nat
        BY <1>1, <4>1 DEF IInv, Emission, Shapes, NoPut, Nobody
      <4>3. CASE h = g
        BY <1>1, <2>3, <2>4, <2>5, <2>6, <4>1, <4>2, <4>3 DEF NoPut, Nobody
      <4>4. CASE h # g
        BY <1>1, <2>4, <2>5, <2>6, <4>1, <4>2, <4>4 DEF NoPut, Nobody
      <4> QED
        BY <4>3, <4>4
    <3>5. dropping' # NoPut => dropping'.gid \in Opened' \ groups'
      BY <1>1, <2>6, <2>7 DEF IInv, Emission
    <3> QED
      BY <1>1, <3>1, <3>2, <3>3, <3>4, <3>5 DEF IInv, Emission
  <2>15. \A h \in Opened' : Once(h)'
    <3> SUFFICES ASSUME NEW h \in Opened PROVE Once(h)'
      BY <2>7
    <3>1. h \in Gids /\ h # 0 /\ Shapes
      BY DEF IInv, Shapes, Opened
    <3>2. Flying(h)' = Flying(h) - (IF h = g THEN n ELSE 0)
      BY <2>9 DEF Flying
    <3>3. Dropped(h)' = Dropped(h) /\ Booked(h)' = Booked(h) /\ Waiting(h) = 0
      BY <1>1, <3>1 DEF Dropped, Booked, Waiting, NoPut, Nobody
    <3>4. CASE h # g
      <4>1. Unscheduled(h)' = Unscheduled(h) /\ Waiting(h)' = 0
        BY <1>1, <2>4, <2>6, <3>1, <3>4 DEF Unscheduled, Waiting, NoPut, Nobody
      <4>2. Flying(h)' = Flying(h)
        BY <3>1, <3>2, <3>4, PlacesAre
      <4> QED
        BY <1>1, <2>5, <2>6, <2>11, <3>1, <3>3, <3>4, <4>1, <4>2, OnceMoved DEF IInv
    <3>5. CASE h = g
      <4>1. Waiting(h)' = l /\ outQ'[h] = outQ[h] + f /\ Flying(h)' = Flying(h) - n
        BY <1>1, <2>3, <2>4, <2>5, <3>1, <3>2, <3>5 DEF Waiting, NoPut, Nobody
      <4>2. Flying(h) \in Nat /\ Flying(h)' \in Nat
        BY <2>11, <3>1, PlacesAre, PlacesNext
      <4>3. n <= Flying(h)
        BY <4>1, <4>2
      <4>4. Unscheduled(h)' = Unscheduled(h)
        <5>1. CASE h \in groups /\ group[h].emitted + c >= GroupSize[group[h].env]
          <6>1. c <= Flying(h) + Waiting(h)
            BY <2>3, <3>3, <4>2, <4>3
          <6>2. group[h].emitted + c - (IF putting.gid = h THEN 1 ELSE 0) >= GroupSize[group[h].env]
            BY <1>1, <2>3, <3>1, <5>1 DEF NoPut, Nobody, IInv, Shapes
          <6>3. Unscheduled(h) = 0 /\ group[h].toSchedule = 0
            BY <2>3, <5>1, <6>1, <6>2, ForgottenOwesNothing
          <6> QED
            BY <2>6, <3>1, <6>3 DEF Unscheduled
        <5>2. CASE ~(h \in groups /\ group[h].emitted + c >= GroupSize[group[h].env])
          <6>1. h \in groups' <=> h \in groups
            BY <2>4, <3>5, <5>2 DEF Forget
          <6> QED
            BY <2>6, <3>1, <6>1 DEF Unscheduled
        <5> QED
          BY <5>1, <5>2
      <4>5. received'[h] + (Unscheduled(h)' + Booked(h)' + Flying(h)' + Waiting(h)' + Dropped(h)' + outQ'[h])
             = received[h] + (Unscheduled(h) + Booked(h) + Flying(h) + Waiting(h) + Dropped(h) + outQ[h])
        <5>1. PICK r \in Nat, q \in Nat, a \in Nat, b \in Nat, x \in Nat, d \in Nat :
                /\ r = received[h] /\ q = outQ[h] /\ a = Unscheduled(h) /\ b = Booked(h) /\ x = Flying(h)
                /\ d = Dropped(h)
          BY <3>1, PlacesAre
        <5>2. r + (a + b + (x - n) + l + d + (q + f)) = r + (a + b + x + 0 + d + q)
          BY <2>3
        <5>3. /\ received'[h] = r /\ Unscheduled(h)' = a /\ Booked(h)' = b /\ Flying(h)' = x - n
              /\ Waiting(h)' = l /\ Dropped(h)' = d /\ outQ'[h] = q + f
          BY <1>1, <3>3, <4>1, <4>4, <5>1
        <5> QED
          BY <3>3, <5>1, <5>2, <5>3
      <4> QED
        BY <1>1, <2>6, <2>11, <3>1, <4>5, OnceMoved DEF IInv
    <3> QED
      BY <3>4, <3>5
  <2> QED
    BY <2>7, <2>10, <2>11, <2>12, <2>13, <2>14, <2>15 DEF IInv
<1> QED
  BY <1>4, <1>5


\* A suspended put goes through.
LEMMA PutCompletedIInv ==
    ASSUME IInv, PutCompleted
    PROVE  IInv'
<1> USE DispatcherAssumption
<1>1. /\ pc = "put" /\ OutSize < OutCapacity
      /\ UNCHANGED <<policyVersion, shipped, mode, gate, draining, stopped, main, evalExamples, triggered, nextGroup,
                     inflight, permits, received, scheduling, done, watcher, stale, dropping, abandoned, oldestShipped>>
      /\ scheduling = NoSchedule
  BY DEF PutCompleted, controlVars, evalVars, watcherVars, historyVars, IInv, Booking
<1>2. AfterHandling(done) \in {"fill", "handle"} /\ (AfterHandling(done) = "fill" => done = {})
  BY DEF AfterHandling
<1>3. PICK g \in Opened, n \in Nat : g = putting.gid /\ n = putting.left /\ n > 0
  BY <1>1 DEF IInv, Emission, Shapes, PutState
<1>4. g \in Gids /\ g # 0 /\ (g \in groups => putting.counted)
  BY <1>3 DEF IInv, Shapes, Opened, Emission
<1>5. PICK f \in Nat, l \in Nat, c \in Nat : /\ f = Fits(n) /\ l = Left(n) /\ c = Counted(n) /\ c > 0
                   /\ n = f + l /\ c = f + (IF l > 0 THEN 1 ELSE 0) /\ c <= n
  <2>1. outQ \in [Gids -> Nat] /\ OutSize <= OutCapacity
    BY DEF IInv, Shapes
  <2>2. /\ Fits(n) \in 0 .. n /\ Left(n) \in Nat /\ Left(n) = n - Fits(n) /\ Counted(n) \in 0 .. n
        /\ Counted(n) = Fits(n) + (IF Left(n) > 0 THEN 1 ELSE 0)
        /\ Counted(n) > 0
    BY <1>1, <1>3, <2>1, FitsIs
  <2>3. Fits(n) \in Nat /\ Counted(n) \in Nat /\ n = Fits(n) + Left(n) /\ Counted(n) <= n
    BY <2>2
  <2> QED
    BY <2>2, <2>3
<1>6. /\ Put(g, n)
      /\ group' = IF putting.counted THEN [group EXCEPT ![g].emitted = @ + (c - 1)] ELSE group
      /\ groups' = IF putting.counted THEN groups \ Forget(g, c - 1) ELSE groups
      /\ \/ l > 0 /\ putting' = [putting EXCEPT !.left = l] /\ pc' = pc
         \/ ~(l > 0) /\ putting' = NoPut /\ pc' = AfterHandling(done)
  BY <1>3, <1>5 DEF PutCompleted
<1>7. /\ outQ' \in [Gids -> Nat] /\ (OutSize <= OutCapacity)'
      /\ outQ'[g] = outQ[g] + f
      /\ \A h \in Gids \ {g} : outQ'[h] = outQ[h]
  BY <1>4, <1>5, <1>6, PutIs DEF IInv, Shapes
<1>8. /\ group' \in [Gids -> [env : Envs, toSchedule : Nat, emitted : Nat, pinned : BOOLEAN]]
      /\ \A h \in Gids : group'[h].env = group[h].env /\ group'[h].toSchedule = group[h].toSchedule
      /\ \A h \in Gids : h # g => group'[h].emitted = group[h].emitted
      /\ g \in groups => group'[g].emitted = group[g].emitted + (c - 1)
      /\ groups' \subseteq groups /\ groups \ {g} \subseteq groups'
  <2>1. group[g].emitted + (c - 1) \in Nat
    BY <1>4, <1>5 DEF IInv, Shapes
  <2> QED
    BY <1>4, <1>6, <2>1 DEF IInv, Shapes, Forget
<1>9. Sources' /\ Opened' = Opened
  BY <1>1, <1>3, <1>7, <1>8, SourcesKept DEF IInv, Shapes, Sources
<1>10. /\ putting' \in PutState /\ pc' \in {"put", "fill", "handle"} /\ (pc' = "fill" => done = {})
       /\ l > 0 => pc' = "put" /\ putting'.gid = g /\ putting'.left = l /\ putting'.counted = putting.counted
       /\ ~(l > 0) => pc' # "put" /\ putting' = NoPut
  <2>1. NoPut \in PutState /\ putting \in PutState
    BY DEF NoPut, PutState, IInv, Shapes
  <2> QED
    BY <1>1, <1>2, <1>3, <1>5, <1>6, <2>1 DEF PutState
<1>11. Shapes'
  <2>1. pc' \in Suspended \cup {"fill", "handle"} /\ groups' \subseteq Opened'
    BY <1>8, <1>9, <1>10 DEF Suspended, IInv, Shapes
  <2> QED
    BY <1>1, <1>7, <1>8, <1>9, <1>10, <2>1 DEF IInv, Shapes
<1>12. Booking' /\ PermitsMatchWork'
  BY <1>1, <1>10 DEF IInv, Booking, PermitsMatchWork
<1>13. Keys'
  <2>1. \A v \in inflight \cup done : v.gid \in Opened /\ v.gid \in Gids /\ v.nth >= group[v.gid].toSchedule
    BY DEF IInv, Keys, Shapes
  <2> QED
    BY <1>1, <1>8, <1>9, <1>10, <2>1 DEF IInv, Keys
<1>14. Emission'
  <2>1. (pc' # "put" => putting' = NoPut) /\ (pc' = "put" => putting'.gid \in Opened' /\ putting'.left > 0)
    BY <1>9, <1>10
  <2>2. putting'.gid \in groups' => putting'.counted
    <3>1. 0 \notin groups'
      BY <1>8 DEF IInv, Shapes, Opened
    <3> QED
      BY <1>4, <1>8, <1>10, <3>1 DEF NoPut, Nobody
  <2>3. ASSUME NEW h \in groups'
        PROVE  group'[h].emitted = received'[h] + outQ'[h] + (IF putting'.gid = h THEN 1 ELSE 0)
    <3>1. h \in groups /\ h \in Gids /\ h # 0
      BY <1>8 DEF IInv, Shapes, Opened
    <3>2. /\ group[h].emitted = received[h] + outQ[h] + (IF h = g THEN 1 ELSE 0)
          /\ received[h] \in Nat /\ outQ[h] \in Nat
      BY <1>1, <1>3, <3>1 DEF IInv, Emission, Shapes
    <3>3. putting'.gid = h <=> h = g /\ l > 0
      BY <1>10, <3>1 DEF NoPut, Nobody
    <3>4. CASE h = g
      <4>1. group'[h].emitted = received[h] + outQ[h] + 1 + (c - 1)
        BY <1>8, <3>1, <3>2, <3>4
      <4>2. PICK r \in Nat, q \in Nat : r = received[h] /\ q = outQ[h]
        BY <3>2
      <4>3. r + q + 1 + (c - 1) = r + (q + f) + (IF l > 0 THEN 1 ELSE 0)
        BY <1>5
      <4>4. received'[h] = r /\ outQ'[h] = q + f /\ group'[h].emitted = r + q + 1 + (c - 1)
        BY <1>1, <1>7, <3>4, <4>1, <4>2
      <4> QED
        BY <3>3, <3>4, <4>3, <4>4
    <3>5. CASE h # g
      BY <1>1, <1>7, <1>8, <3>1, <3>2, <3>3, <3>5
    <3> QED
      BY <3>4, <3>5
  <2>4. dropping' # NoPut => dropping'.gid \in Opened' \ groups'
    BY <1>1, <1>8, <1>9 DEF IInv, Emission
  <2> QED
    BY <1>1, <2>1, <2>2, <2>3, <2>4 DEF IInv, Emission
<1>15. \A h \in Opened' : Once(h)'
  <2> SUFFICES ASSUME NEW h \in Opened PROVE Once(h)'
    BY <1>9
  <2>1. h \in Gids /\ h # 0 /\ Shapes
    BY DEF IInv, Shapes, Opened
  <2>2. Dropped(h)' = Dropped(h) /\ Booked(h)' = Booked(h) /\ Flying(h)' = Flying(h)
    BY <1>1 DEF Dropped, Booked, Flying, TasksOf
  <2>3. CASE h # g
    <3>1. Unscheduled(h)' = Unscheduled(h) /\ Waiting(h)' = 0 /\ Waiting(h) = 0
      BY <1>3, <1>8, <1>10, <2>1, <2>3 DEF Unscheduled, Waiting, NoPut, Nobody
    <3> QED
      BY <1>1, <1>7, <1>8, <1>11, <2>1, <2>2, <2>3, <3>1, OnceMoved DEF IInv
  <2>4. CASE h = g
    <3>1. Waiting(h) = n /\ Waiting(h)' = l /\ outQ'[h] = outQ[h] + f
      BY <1>3, <1>5, <1>7, <1>10, <2>1, <2>4 DEF Waiting, NoPut, Nobody
    <3>2. Unscheduled(h)' = Unscheduled(h)
      <4>1. CASE h \in groups /\ group[h].emitted + (c - 1) >= GroupSize[group[h].env]
        <5>1. c <= Flying(h) + Waiting(h)
          BY <1>5, <2>1, <3>1, PlacesAre
        <5>2. group[h].emitted + c - (IF putting.gid = h THEN 1 ELSE 0) >= GroupSize[group[h].env]
          BY <1>3, <1>5, <2>1, <2>4, <4>1, PlacesAre DEF IInv, Shapes
        <5>3. Unscheduled(h) = 0 /\ group[h].toSchedule = 0
          BY <1>5, <4>1, <5>1, <5>2, ForgottenOwesNothing
        <5> QED
          BY <1>8, <2>1, <5>3 DEF Unscheduled
      <4>2. CASE ~(h \in groups /\ group[h].emitted + (c - 1) >= GroupSize[group[h].env])
        <5>1. h \in groups' <=> h \in groups
          BY <1>6, <2>4, <4>2 DEF Forget
        <5> QED
          BY <1>8, <2>1, <5>1 DEF Unscheduled
      <4> QED
        BY <4>1, <4>2
    <3>3. received'[h] + (Unscheduled(h)' + Booked(h)' + Flying(h)' + Waiting(h)' + Dropped(h)' + outQ'[h])
           = received[h] + (Unscheduled(h) + Booked(h) + Flying(h) + Waiting(h) + Dropped(h) + outQ[h])
      <4>1. PICK r \in Nat, q \in Nat, a \in Nat, b \in Nat, x \in Nat, d \in Nat :
              /\ r = received[h] /\ q = outQ[h] /\ a = Unscheduled(h) /\ b = Booked(h) /\ x = Flying(h)
              /\ d = Dropped(h)
        BY <2>1, PlacesAre
      <4>2. r + (a + b + x + l + d + (q + f)) = r + (a + b + x + n + d + q)
        BY <1>5
      <4>3. /\ received'[h] = r /\ Unscheduled(h)' = a /\ Booked(h)' = b /\ Flying(h)' = x
            /\ Waiting(h)' = l /\ Dropped(h)' = d /\ outQ'[h] = q + f
        BY <1>1, <2>2, <3>1, <3>2, <4>1
      <4> QED
        BY <3>1, <4>1, <4>2, <4>3
    <3> QED
      BY <1>1, <1>8, <1>11, <2>1, <3>3, OnceMoved DEF IInv
  <2> QED
    BY <2>3, <2>4
<1> QED
  BY <1>9, <1>11, <1>12, <1>13, <1>14, <1>15 DEF IInv

-----------------------------------------------------------------------------
(* The watcher *)

\* on_version_pending ages the tasks and keeps their keys.
LEMMA VersionPendingIInv ==
    ASSUME IInv, VersionPending
    PROVE  IInv'
<1>1. /\ UNCHANGED <<policyVersion, shipped, mode, gate, draining, stopped, main, evalExamples, triggered, nextGroup,
                     group, groups, permits, outQ, received, pc, scheduling, done, putting, dropping,
                     abandoned, oldestShipped>>
      /\ inflight' = {Aged(t) : t \in inflight} /\ watcher = "idle"
      /\ watcher' \in {"update", "claim"}
      /\ stale' = {t.gid : t \in {u \in inflight' : TooOld(u)}}
  BY DEF VersionPending, controlVars, evalVars, outVars, loopVars, historyVars
<1>2. \A t \in inflight : /\ Aged(t) \in Task /\ Aged(t).gid = t.gid /\ Aged(t).count = t.count
                          /\ Aged(t).nth = t.nth
  BY DEF IInv, Shapes, Task, Aged
<1>3. \A t, u \in inflight : t.gid = u.gid /\ t.nth = u.nth => t = u
  BY DEF IInv, Keys
<1>4. /\ IsFiniteSet(inflight') /\ CountOf(inflight') = CountOf(inflight)
      /\ \A g : CountOf(TasksOf(g)') = CountOf(TasksOf(g))
  <2> DEFINE f == [t \in inflight |-> Aged(t)]
  <2>1. f \in [inflight -> Task] /\ inflight' = {f[t] : t \in inflight}
    BY <1>1, <1>2
  <2>2. \A t \in inflight : f[t].gid = t.gid /\ f[t].count = t.count /\ f[t].nth = t.nth
    BY <1>2
  <2>3. \A t, u \in inflight : f[t] = f[u] => t = u
    BY <1>3, <2>2
  <2> HIDE DEF f
  <2> QED
    BY <2>1, <2>2, <2>3, TasksRenamed, ZenonT(40) DEF IInv, Shapes
<1>5. Sources' /\ Opened' = Opened
  BY <1>1, SourcesKept DEF IInv, Shapes, Sources
<1>6. \A t \in inflight' : \E u \in inflight : t = Aged(u) /\ t.gid = u.gid /\ t.nth = u.nth /\ t.count = u.count
  BY <1>1, <1>2
<1>7. Keys'
  <2>1. \A t \in inflight' \cup done :
          /\ t.gid \in Opened /\ t.nth >= group[t.gid].toSchedule
          /\ pc = "acquire" /\ scheduling.gid = t.gid => t.nth > group[t.gid].toSchedule
    BY <1>6 DEF IInv, Keys
  <2>2. \A t, u \in inflight' : t.gid = u.gid /\ t.nth = u.nth => t = u
    BY <1>3, <1>6
  <2>3. \A t \in done, u \in inflight' : t.gid = u.gid /\ t.nth = u.nth => t.count = u.count
    BY <1>6 DEF IInv, Keys
  <2> QED
    BY <1>1, <1>5, <2>1, <2>2, <2>3 DEF IInv, Keys
<1>8. Shapes'
  <2>1. inflight' \subseteq Task /\ stale' \subseteq Opened'
    BY <1>1, <1>2, <1>7, <1>5 DEF Keys
  <2>2. OutSize' = OutSize
    BY <1>1, OutSame
  <2> QED
    BY <1>1, <1>4, <1>5, <2>1, <2>2 DEF IInv, Shapes
<1>9. Booking' /\ PermitsMatchWork'
  BY <1>1, <1>4, <1>5 DEF IInv, Booking, PermitsMatchWork, Need
<1>10. Emission'
  BY <1>1, <1>5 DEF IInv, Emission
<1>11. \A g \in Opened' : Once(g)'
  BY <1>1, <1>4, <1>5 DEF IInv, Once, Owed
<1> QED
  BY <1>5, <1>7, <1>8, <1>9, <1>10, <1>11 DEF IInv

\* drop_group turns what a group has not started and what flies into markers.
LEMMA DropGroupIInv ==
    ASSUME IInv, NEW g \in stale, DropGroup(g)
    PROVE  IInv'
<1> USE DispatcherAssumption
<1>1. /\ UNCHANGED <<policyVersion, shipped, mode, gate, draining, stopped, main, evalExamples, triggered, nextGroup,
                     group, received, pc, scheduling, done, putting, abandoned, oldestShipped>>
      /\ watcher = "claim" /\ dropping = NoPut
      /\ stale' = stale \ {g} /\ groups' = groups \ {g}
      /\ inflight' = inflight \ TasksOf(g) /\ permits' = permits - CountOf(TasksOf(g))
  BY DEF DropGroup, controlVars, evalVars, loopVars, historyVars, IInv, Emission
<1>2. g \in Opened /\ g \in Gids /\ g # 0 /\ Shapes
  BY DEF IInv, Shapes, Opened
<1>3. PICK n \in Nat : n = Markers(g) /\ n = Flying(g) + Unscheduled(g)
  <2>1. Markers(g) = Flying(g) + Unscheduled(g)
    BY DEF Markers, Flying, Unscheduled
  <2>2. Flying(g) + Unscheduled(g) \in Nat
    BY <1>2, PlacesAre
  <2> QED
    BY <2>1, <2>2
<1>4. PICK f \in Nat, l \in Nat : f = Fits(n) /\ l = Left(n) /\ n = f + l
  <2>1. outQ \in [Gids -> Nat] /\ OutSize <= OutCapacity
    BY DEF IInv, Shapes
  <2>2. Fits(n) \in 0 .. n /\ Left(n) \in Nat /\ Left(n) = n - Fits(n)
    BY <2>1, FitsIs
  <2>3. Fits(n) \in Nat /\ n = Fits(n) + Left(n)
    BY <2>2
  <2> QED
    BY <2>2, <2>3
<1>5. /\ Put(g, n)
      /\ \/ l > 0 /\ dropping' = [gid |-> g, left |-> l, counted |-> FALSE] /\ watcher' = "cancel"
         \/ ~(l > 0) /\ dropping' = NoPut /\ watcher' \in {"cancel", "update", "claim"}
  BY <1>3, <1>4 DEF DropGroup
<1>6. /\ outQ' \in [Gids -> Nat] /\ (OutSize <= OutCapacity)'
      /\ outQ'[g] = outQ[g] + f
      /\ \A h \in Gids \ {g} : outQ'[h] = outQ[h]
  BY <1>2, <1>4, <1>5, PutIs DEF IInv, Shapes
<1>7. Sources' /\ Opened' = Opened
  BY <1>1, <1>2, <1>6, SourcesKept DEF IInv, Shapes, Sources
<1>8. TasksOf(g) \in SUBSET inflight
  BY DEF TasksOf
<1>9. \A h : TasksOf(h)' = IF h = g THEN {} ELSE TasksOf(h)
  BY <1>1 DEF TasksOf
<1>10. PermitsMatchWork' /\ permits' \in Nat /\ permits' <= permits /\ inflight' \subseteq Task /\ IsFiniteSet(inflight')
  BY <1>1, <1>8, AnotherPermitsKept
<1>11. Shapes'
  <2>1. dropping' \in PutState /\ watcher' \in {"idle", "claim", "cancel", "update"}
    <3>1. NoPut \in PutState
      BY DEF NoPut, PutState
    <3>2. [gid |-> g, left |-> l, counted |-> FALSE] \in PutState
      <4>1. g \in Gids /\ l \in Nat /\ FALSE \in BOOLEAN
        BY <1>2, <1>4
      <4> QED
        BY <4>1, Zenon DEF PutState
    <3>3. dropping' = NoPut \/ dropping' = [gid |-> g, left |-> l, counted |-> FALSE]
      BY <1>5, Zenon
    <3>4. dropping' \in PutState
      BY <3>1, <3>2, <3>3, Zenon
    <3> QED
      BY <1>5, <3>4
  <2>2. groups' \subseteq Opened' /\ stale' \subseteq Opened'
    BY <1>1, <1>7 DEF IInv, Shapes
  <2> QED
    BY <1>1, <1>6, <1>7, <1>10, <2>1, <2>2 DEF IInv, Shapes
<1>12. Booking'
  <2>1. Need(group[scheduling.gid]) \in Int \/ pc # "client"
    BY DEF IInv, Booking, Shapes, Need
  <2>2. /\ pc = "client" => permits' + Need(group[scheduling.gid]) <= MaxInflight
        /\ pc = "acquire" => permits' + scheduling.need - scheduling.got <= MaxInflight
    BY <1>10, <2>1 DEF IInv, Booking, Shapes
  <2> QED
    BY <1>1, <1>7, <2>2 DEF IInv, Booking, Need
<1>13. Keys'
  BY <1>1, <1>7 DEF IInv, Keys
<1>14. Emission'
  <2>1. dropping' # NoPut => dropping'.gid = g /\ watcher' = "cancel"
    BY <1>5
  <2>2. \A h \in groups' : h \in groups /\ h # g /\ h \in Gids
    BY <1>1 DEF IInv, Shapes
  <2>3. \A h \in groups' : group'[h].emitted = received'[h] + outQ'[h] + (IF putting'.gid = h THEN 1 ELSE 0)
    BY <1>1, <1>6, <2>2 DEF IInv, Emission
  <2> QED
    BY <1>1, <1>2, <1>7, <2>1, <2>2, <2>3 DEF IInv, Emission
<1>15. \A h \in Opened' : Once(h)'
  <2> SUFFICES ASSUME NEW h \in Opened PROVE Once(h)'
    BY <1>7
  <2>1. h \in Gids /\ h # 0
    BY DEF IInv, Shapes, Opened
  <2>2. Booked(h)' = Booked(h) /\ Waiting(h)' = Waiting(h) /\ Dropped(h) = 0
    BY <1>1, <2>1 DEF Booked, Waiting, Dropped, NoPut, Nobody
  <2>3. CASE h # g
    <3>1. Unscheduled(h)' = Unscheduled(h) /\ Flying(h)' = Flying(h) /\ Dropped(h)' = 0
      BY <1>1, <1>5, <1>9, <2>1, <2>3 DEF Unscheduled, Flying, Dropped, NoPut, Nobody
    <3> QED
      BY <1>1, <1>2, <1>6, <1>11, <2>1, <2>2, <2>3, <3>1, OnceMoved DEF IInv
  <2>4. CASE h = g
    <3>1. Unscheduled(h)' = 0 /\ Flying(h)' = 0 /\ Dropped(h)' = l /\ outQ'[h] = outQ[h] + f
      <4>1. Flying(h)' = 0
        <5>1. TasksOf(h)' = {}
          BY <1>9, <2>4
        <5> QED
          BY <5>1, CountNone DEF Flying
      <4>2. Unscheduled(h)' = 0 /\ outQ'[h] = outQ[h] + f
        BY <1>1, <1>6, <2>4 DEF Unscheduled
      <4>3. Dropped(h)' = l
        BY <1>4, <1>5, <2>1, <2>4 DEF Dropped, NoPut, Nobody
      <4> QED
        BY <4>1, <4>2, <4>3
    <3>2. received'[h] + (Unscheduled(h)' + Booked(h)' + Flying(h)' + Waiting(h)' + Dropped(h)' + outQ'[h])
           = received[h] + (Unscheduled(h) + Booked(h) + Flying(h) + Waiting(h) + Dropped(h) + outQ[h])
      <4>1. PICK r \in Nat, q \in Nat, a \in Nat, b \in Nat, x \in Nat, w \in Nat :
              /\ r = received[h] /\ q = outQ[h] /\ a = Unscheduled(h) /\ b = Booked(h) /\ x = Flying(h)
              /\ w = Waiting(h)
        BY <1>2, <2>1, PlacesAre
      <4>2. r + (0 + b + 0 + w + l + (q + f)) = r + (a + b + x + w + 0 + q)
        BY <1>3, <1>4, <2>4, <4>1
      <4>3. /\ received'[h] = r /\ Unscheduled(h)' = 0 /\ Booked(h)' = b /\ Flying(h)' = 0
            /\ Waiting(h)' = w /\ Dropped(h)' = l /\ outQ'[h] = q + f
        BY <1>1, <2>2, <3>1, <4>1
      <4> QED
        BY <2>2, <4>1, <4>2, <4>3
    <3> QED
      BY <1>1, <1>2, <1>11, <2>1, <3>2, OnceMoved DEF IInv
  <2> QED
    BY <2>3, <2>4
<1> QED
  BY <1>7, <1>10, <1>11, <1>12, <1>13, <1>14, <1>15 DEF IInv

\* Suspended markers go through.
LEMMA PutMarkersIInv ==
    ASSUME IInv, PutMarkers
    PROVE  IInv'
<1> USE DispatcherAssumption
<1>1. /\ UNCHANGED <<policyVersion, shipped, mode, gate, draining, stopped, main, evalExamples, triggered, nextGroup,
                     group, groups, inflight, permits, received, pc, scheduling, done, putting, watcher, stale,
                     abandoned, oldestShipped>>
      /\ dropping # NoPut
  BY DEF PutMarkers, controlVars, evalVars, groupVars, loopVars, historyVars
<1>2. PICK g \in Opened \ groups, n \in Nat : g = dropping.gid /\ n = dropping.left
  BY <1>1 DEF IInv, Emission, Shapes, PutState
<1>3. g \in Gids /\ g # 0 /\ Shapes /\ watcher = "cancel"
  BY <1>1 DEF IInv, Shapes, Opened, Emission
<1>4. PICK f \in Nat, l \in Nat : f = Fits(n) /\ l = Left(n) /\ n = f + l
  <2>1. outQ \in [Gids -> Nat] /\ OutSize <= OutCapacity
    BY DEF IInv, Shapes
  <2>2. Fits(n) \in 0 .. n /\ Left(n) \in Nat /\ Left(n) = n - Fits(n)
    BY <2>1, FitsIs
  <2>3. Fits(n) \in Nat /\ n = Fits(n) + Left(n)
    BY <2>2
  <2> QED
    BY <2>2, <2>3
<1>5. Put(g, n) /\ dropping' = IF l > 0 THEN [dropping EXCEPT !.left = l] ELSE NoPut
  BY <1>2, <1>4 DEF PutMarkers
<1>6. /\ outQ' \in [Gids -> Nat] /\ (OutSize <= OutCapacity)'
      /\ outQ'[g] = outQ[g] + f
      /\ \A h \in Gids \ {g} : outQ'[h] = outQ[h]
  BY <1>3, <1>4, <1>5, PutIs DEF IInv, Shapes
<1>7. Sources' /\ Opened' = Opened
  BY <1>1, <1>2, <1>6, SourcesKept DEF IInv, Shapes, Sources
<1>8. /\ dropping' \in PutState
      /\ l > 0 => dropping'.gid = g /\ dropping'.left = l
      /\ ~(l > 0) => dropping' = NoPut
  <2>1. NoPut \in PutState /\ dropping \in PutState
    BY DEF NoPut, PutState, IInv, Shapes
  <2> QED
    BY <1>2, <1>4, <1>5, <2>1 DEF PutState
<1>9. Shapes'
  BY <1>1, <1>6, <1>7, <1>8 DEF IInv, Shapes
<1>10. Booking' /\ PermitsMatchWork' /\ Keys'
  BY <1>1, <1>7 DEF IInv, Booking, PermitsMatchWork, Keys, Need
<1>11. Emission'
  <2>1. \A h \in groups : h # g /\ h \in Gids /\ outQ'[h] = outQ[h]
    BY <1>2, <1>6 DEF IInv, Shapes
  <2> QED
    BY <1>1, <1>2, <1>3, <1>7, <1>8, <2>1 DEF IInv, Emission
<1>12. \A h \in Opened' : Once(h)'
  <2> SUFFICES ASSUME NEW h \in Opened PROVE Once(h)'
    BY <1>7
  <2>1. h \in Gids /\ h # 0
    BY DEF IInv, Shapes, Opened
  <2>2. /\ Unscheduled(h)' = Unscheduled(h) /\ Booked(h)' = Booked(h) /\ Waiting(h)' = Waiting(h)
        /\ Flying(h)' = Flying(h)
    BY <1>1 DEF Unscheduled, Booked, Waiting, Flying, TasksOf
  <2>3. CASE h # g
    <3>1. Dropped(h)' = 0 /\ Dropped(h) = 0
      BY <1>2, <1>8, <2>1, <2>3 DEF Dropped, NoPut, Nobody
    <3> QED
      BY <1>1, <1>3, <1>6, <1>9, <2>1, <2>2, <2>3, <3>1, OnceMoved DEF IInv
  <2>4. CASE h = g
    <3>1. Dropped(h) = n /\ Dropped(h)' = l /\ outQ'[h] = outQ[h] + f
      BY <1>2, <1>4, <1>6, <1>8, <2>1, <2>4 DEF Dropped, NoPut, Nobody
    <3>2. received'[h] + (Unscheduled(h)' + Booked(h)' + Flying(h)' + Waiting(h)' + Dropped(h)' + outQ'[h])
           = received[h] + (Unscheduled(h) + Booked(h) + Flying(h) + Waiting(h) + Dropped(h) + outQ[h])
      <4>1. PICK r \in Nat, q \in Nat, a \in Nat, b \in Nat, x \in Nat, w \in Nat :
              /\ r = received[h] /\ q = outQ[h] /\ a = Unscheduled(h) /\ b = Booked(h) /\ x = Flying(h)
              /\ w = Waiting(h)
        BY <1>3, <2>1, PlacesAre
      <4>2. r + (a + b + x + w + l + (q + f)) = r + (a + b + x + w + n + q)
        BY <1>4
      <4>3. /\ received'[h] = r /\ Unscheduled(h)' = a /\ Booked(h)' = b /\ Flying(h)' = x
            /\ Waiting(h)' = w /\ Dropped(h)' = l /\ outQ'[h] = q + f
        BY <1>1, <2>2, <3>1, <4>1
      <4> QED
        BY <3>1, <4>1, <4>2, <4>3
    <3> QED
      BY <1>1, <1>3, <1>9, <2>1, <3>2, OnceMoved DEF IInv
  <2> QED
    BY <2>3, <2>4
<1> QED
  BY <1>7, <1>9, <1>10, <1>11, <1>12 DEF IInv

-----------------------------------------------------------------------------
(* The main loop, and the environments *)

\* A rollout leaves out_q for the sinks.
LEMMA ConsumeIInv ==
    ASSUME IInv, NEW g \in Gids, NEW batch \in BOOLEAN, Consume(g, batch)
    PROVE  IInv'
<1> USE DispatcherAssumption
<1>1. /\ UNCHANGED <<policyVersion, shipped, mode, gate, draining, stopped, evalExamples, triggered, nextGroup,
                     group, groups, inflight, permits, pc, scheduling, done, putting, watcher, stale, dropping,
                     abandoned, oldestShipped>>
      /\ main = "loop" /\ outQ[g] > 0
      /\ main' \in {"ship", "loop"} /\ (main' = "ship" => ~draining)
      /\ outQ' = [outQ EXCEPT ![g] = outQ[g] - 1] /\ received' = [received EXCEPT ![g] = received[g] + 1]
  BY DEF Consume, controlVars, evalVars, groupVars, loopVars, watcherVars, historyVars
<1>2. outQ \in [Gids -> Nat] /\ received \in [Gids -> Nat] /\ outQ[g] \in Nat /\ received[g] \in Nat
  BY DEF IInv, Shapes
<1>3. /\ outQ' \in [Gids -> Nat] /\ received' \in [Gids -> Nat] /\ outQ[g] - 1 \in Nat
      /\ outQ'[g] = outQ[g] - 1 /\ received'[g] = received[g] + 1
      /\ \A h \in Gids \ {g} : outQ'[h] = outQ[h] /\ received'[h] = received[h]
  BY <1>1, <1>2
<1>4. g \in Opened
  BY <1>1 DEF IInv, Sources
<1>5. (OutSize <= OutCapacity)'
  <2>0. PICK v \in Nat : v = outQ[g] - 1
    BY <1>3
  <2>1. Total([outQ EXCEPT ![g] = v], Gids) = Total(outQ, Gids) - outQ[g] + v
    <3>1. IsFiniteSet(Gids) /\ outQ \in [Gids -> Nat]
      BY <1>2, GidsFinite
    <3> HIDE DispatcherAssumption
    <3> QED
      BY <3>1, TotalChanged, ZenonT(40)
  <2>2. OutSize' = Total(outQ', Gids)
    <3>1. SizeOf(outQ') = Total(outQ', Gids)
      BY <1>3, GidsFinite, SizeIsTotal
    <3>2. OutSize' = SizeOf(outQ')
      BY Zenon DEF OutSize, SizeOf, MapThenSumSet, MapThenFoldSet
    <3> QED
      BY <3>1, <3>2
  <2>3. OutSize = Total(outQ, Gids)
    BY <1>2, GidsFinite, SizeIsTotal DEF OutSize, SizeOf
  <2>4. OutSize \in Nat /\ OutSize <= OutCapacity /\ OutCapacity \in Int
    <3>1. OutSize \in Nat /\ OutSize <= OutCapacity
      BY <1>2, FitsIs DEF IInv, Shapes
    <3>2. \E x \in {MinOutCapacity, MaxInflight} : \A y \in {MinOutCapacity, MaxInflight} : x >= y
      OBVIOUS
    <3>3. OutCapacity \in {MinOutCapacity, MaxInflight}
      BY <3>2 DEF OutCapacity, Max
    <3> QED
      BY <3>1, <3>3
  <2>5. OutSize' = OutSize - 1
    <3>1. outQ' = [outQ EXCEPT ![g] = v]
      BY <1>1, <2>0
    <3> QED
      BY <1>2, <2>0, <2>1, <2>2, <2>3, <2>4, <3>1
  <2> QED
    BY <2>4, <2>5
<1>6. Sources' /\ Opened' = Opened
  <2>1. Opened' = Opened /\ OpenedTrain' = OpenedTrain /\ OpenedEval' = OpenedEval
    BY <1>1 DEF Opened, OpenedTrain, OpenedEval, IsTrain
  <2>2. \A h \in Gids \ Opened' : received'[h] = 0 /\ outQ'[h] = 0
    BY <1>3, <1>4, <2>1 DEF IInv, Sources
  <2> QED
    BY <1>1, <2>1, <2>2 DEF IInv, Sources
<1>7. Shapes'
  BY <1>1, <1>3, <1>5, <1>6 DEF IInv, Shapes
<1>8. Booking' /\ PermitsMatchWork' /\ Keys'
  BY <1>1, <1>6 DEF IInv, Booking, PermitsMatchWork, Keys, Need
<1>9. Emission'
  <2>1. ASSUME NEW h \in groups PROVE h \in Gids /\ received'[h] + outQ'[h] = received[h] + outQ[h]
    BY <1>1, <1>2, <1>3 DEF IInv, Shapes
  <2>2. \A h \in groups : group[h].emitted = received'[h] + outQ'[h] + (IF putting.gid = h THEN 1 ELSE 0)
    BY <2>1 DEF IInv, Emission
  <2> QED
    BY <1>1, <1>6, <2>2 DEF IInv, Emission
<1>10. \A h \in Opened' : Once(h)'
  <2> SUFFICES ASSUME NEW h \in Opened PROVE Once(h)'
    BY <1>6
  <2>1. h \in Gids /\ Shapes
    BY DEF IInv, Shapes
  <2>2. /\ Unscheduled(h)' = Unscheduled(h) /\ Booked(h)' = Booked(h) /\ Waiting(h)' = Waiting(h)
        /\ Flying(h)' = Flying(h) /\ Dropped(h)' = Dropped(h)
    BY <1>1 DEF Unscheduled, Booked, Waiting, Flying, Dropped, TasksOf
  <2>3. received'[h] + (Unscheduled(h)' + Booked(h)' + Flying(h)' + Waiting(h)' + Dropped(h)' + outQ'[h])
         = received[h] + (Unscheduled(h) + Booked(h) + Flying(h) + Waiting(h) + Dropped(h) + outQ[h])
    <3>1. PICK r \in Nat, q \in Nat, a \in Nat, b \in Nat, x \in Nat, w \in Nat, d \in Nat :
            /\ r = received[h] /\ q = outQ[h] /\ a = Unscheduled(h) /\ b = Booked(h) /\ x = Flying(h)
            /\ w = Waiting(h) /\ d = Dropped(h)
      BY <2>1, PlacesAre
    <3>2. r + 1 + (a + b + x + w + d + (q - 1)) = r + (a + b + x + w + d + q)
      OBVIOUS
    <3>3. CASE h = g
      BY <1>3, <2>2, <3>1, <3>2, <3>3
    <3>4. CASE h # g
      BY <1>3, <2>1, <2>2, <3>4
    <3> QED
      BY <3>3, <3>4
  <2> QED
    BY <1>1, <1>7, <2>1, <2>3, OnceMoved DEF IInv
<1> QED
  BY <1>6, <1>7, <1>8, <1>9, <1>10 DEF IInv

\* A history variable says that a group was cut short, or the loop has left: then
\* it is enough that no rollout comes twice.
LEMMA OnceCut ==
    ASSUME Shapes, Shapes', NEW g \in Opened, Once(g), group'[g].env = group[g].env,
           stopped' \/ g \in abandoned',
           received'[g] + (Unscheduled(g)' + Booked(g)' + Flying(g)' + Waiting(g)' + Dropped(g)' + outQ'[g])
             <= received[g] + (Unscheduled(g) + Booked(g) + Flying(g) + Waiting(g) + Dropped(g) + outQ[g])
    PROVE  Once(g)'
<1>1. g \in Gids
  BY DEF Shapes
<1>2. received'[g] + Owed(g)' <= received[g] + Owed(g)
  BY <1>1, PlacesAre, PlacesNext
<1>3. received[g] + Owed(g) \in Nat /\ received'[g] + Owed(g)' \in Nat /\ GroupSize[group[g].env] \in Nat
  BY <1>1, PlacesAre, PlacesNext
<1>4. received[g] + Owed(g) <= GroupSize[group[g].env]
  BY <1>3 DEF Once
<1>5. received'[g] + Owed(g)' <= GroupSize[group[g].env]
  BY <1>2, <1>3, <1>4
<1> QED
  BY <1>5 DEF Once

\* An eval is triggered, and the last batch cuts the train groups short.
LEMMA AfterShipIInv ==
    ASSUME IInv, NEW n \in {0, EvalSize}, AfterShip(n)
    PROVE  IInv'
<1> USE DispatcherAssumption
<1>1. PICK T : T = IF draining' THEN TrainTasks ELSE {}
  OBVIOUS
<1>2. /\ UNCHANGED <<policyVersion, shipped, gate, stopped, nextGroup, group, outQ, received, pc, scheduling, done,
                     putting, watcher, stale, dropping, oldestShipped>>
      /\ triggered + n <= MaxTriggers * EvalSize
      /\ evalExamples' = evalExamples + n /\ triggered' = triggered + n
      /\ main = "shipped" /\ main' = "loop" /\ draining' = (shipped >= MaxSteps)
      /\ mode' = IF n > 0 THEN "eval" ELSE mode
  BY DEF AfterShip, outVars, loopVars, watcherVars
<1>3. /\ inflight' = inflight \ T /\ permits' = permits - CountOf(T)
      /\ groups' = groups \ {t.gid : t \in T} /\ abandoned' = abandoned \cup {t.gid : t \in T}
  BY <1>1 DEF AfterShip
<1>4. T \in SUBSET inflight
  BY <1>1 DEF TrainTasks
<1>5. PermitsMatchWork' /\ permits' \in Nat /\ permits' <= permits /\ inflight' \subseteq Task /\ IsFiniteSet(inflight')
  BY <1>2, <1>3, <1>4, AnotherPermitsKept
<1>6. Opened' = Opened /\ OpenedTrain' = OpenedTrain /\ OpenedEval' = OpenedEval
  BY <1>2 DEF Opened, OpenedTrain, OpenedEval, IsTrain
<1>7. Sources'
  <2>1. Cardinality(OpenedEval) + evalExamples = triggered /\ evalExamples \in Int /\ triggered \in Int /\ n \in Nat
    BY DEF IInv, Sources, Shapes
  <2>2. Cardinality(OpenedEval) \in Nat
    BY FS_CardinalityType, FS_Subset, GidsFinite DEF OpenedEval, IInv, Shapes
  <2>3. Cardinality(OpenedEval) + evalExamples' = triggered'
    BY <1>2, <2>1, <2>2
  <2>4. main' = "ship" \/ (main' = "loop" /\ ~draining') => shipped' < MaxSteps
    <3>1. shipped >= MaxSteps => draining'
      BY <1>2, Zenon
    <3>2. ~(shipped >= MaxSteps) => shipped < MaxSteps
      BY DEF IInv, Shapes
    <3> QED
      BY <1>2, <3>1, <3>2
  <2> QED
    BY <1>2, <1>6, <2>3, <2>4 DEF IInv, Sources
<1>8. Shapes'
  <2>1. draining' \in BOOLEAN /\ mode' \in {"train", "eval"}
    BY <1>2 DEF IInv, Shapes
  <2>2. triggered' \in Nat /\ evalExamples' \in 0 .. triggered'
    BY <1>2 DEF IInv, Shapes
  <2>3. \A t \in T : t.gid \in Opened
    BY <1>4 DEF IInv, Keys
  <2>4. groups' \subseteq Opened' /\ abandoned' \subseteq Opened'
    BY <1>3, <1>6, <2>3 DEF IInv, Shapes
  <2>5. OutSize' = OutSize
    BY <1>2, OutSame
  <2> QED
    BY <1>2, <1>5, <1>6, <2>1, <2>2, <2>4, <2>5 DEF IInv, Shapes
<1>9. Booking'
  <2>1. Need(group[scheduling.gid]) \in Int \/ pc # "client"
    BY DEF IInv, Booking, Shapes, Need
  <2>2. /\ pc = "client" => permits' + Need(group[scheduling.gid]) <= MaxInflight
        /\ pc = "acquire" => permits' + scheduling.need - scheduling.got <= MaxInflight
    BY <1>5, <2>1 DEF IInv, Booking, Shapes
  <2> QED
    BY <1>2, <1>6, <2>2 DEF IInv, Booking, Need
<1>10. Keys'
  BY <1>2, <1>3, <1>6 DEF IInv, Keys
<1>11. Emission'
  <2>1. groups' \subseteq groups
    BY <1>3
  <2> QED
    BY <1>2, <1>6, <2>1 DEF IInv, Emission
<1>12. \A h \in Opened' : Once(h)'
  <2> SUFFICES ASSUME NEW h \in Opened PROVE Once(h)'
    BY <1>6
  <2>1. h \in Gids /\ Shapes
    BY DEF IInv, Shapes
  <2>2. Booked(h)' = Booked(h) /\ Waiting(h)' = Waiting(h) /\ Dropped(h)' = Dropped(h)
    BY <1>2 DEF Booked, Waiting, Dropped
  <2>3. Flying(h)' = Flying(h) - CountOf(Among(T, h)) /\ CountOf(Among(T, h)) \in Nat
    <3>1. inflight \subseteq Task /\ IsFiniteSet(inflight)
      BY DEF IInv, Shapes
    <3> QED
      BY <1>3, <1>4, <3>1, TasksRemoved DEF Flying
  <2>4. CASE h \in {t.gid : t \in T}
    <3>1. h \in abandoned' /\ Unscheduled(h)' = 0
      BY <1>3, <2>4 DEF Unscheduled
    <3>2. received'[h] + (Unscheduled(h)' + Booked(h)' + Flying(h)' + Waiting(h)' + Dropped(h)' + outQ'[h])
            <= received[h] + (Unscheduled(h) + Booked(h) + Flying(h) + Waiting(h) + Dropped(h) + outQ[h])
      <4>1. PICK r \in Nat, q \in Nat, a \in Nat, b \in Nat, x \in Nat, w \in Nat, d \in Nat, y \in Nat :
              /\ r = received[h] /\ q = outQ[h] /\ a = Unscheduled(h) /\ b = Booked(h) /\ x = Flying(h)
              /\ w = Waiting(h) /\ d = Dropped(h) /\ y = CountOf(Among(T, h))
        BY <2>1, <2>3, PlacesAre
      <4>2. r + (0 + b + (x - y) + w + d + q) <= r + (a + b + x + w + d + q)
        OBVIOUS
      <4>3. /\ received'[h] = r /\ Unscheduled(h)' = 0 /\ Booked(h)' = b /\ Flying(h)' = x - y
            /\ Waiting(h)' = w /\ Dropped(h)' = d /\ outQ'[h] = q
        BY <1>2, <2>2, <2>3, <3>1, <4>1
      <4> QED
        BY <4>1, <4>2, <4>3
    <3> QED
      BY <1>2, <1>8, <2>1, <3>1, <3>2, OnceCut DEF IInv
  <2>5. CASE h \notin {t.gid : t \in T}
    <3>1. Unscheduled(h)' = Unscheduled(h) /\ (h \in abandoned' <=> h \in abandoned)
      BY <1>2, <1>3, <2>5 DEF Unscheduled
    <3>2. TasksOf(h)' = TasksOf(h)
      BY <1>3, <2>5 DEF TasksOf
    <3>3. Flying(h)' = Flying(h)
      BY <3>2 DEF Flying
    <3>4. Owed(h)' = Owed(h) /\ received'[h] = received[h]
      BY <1>2, <1>8, <2>1, <2>2, <3>1, <3>3, PlacesAre, PlacesNext
    <3> QED
      BY <1>2, <3>1, <3>4 DEF IInv, Once
  <2> QED
    BY <2>4, <2>5
<1> QED
  BY <1>5, <1>7, <1>8, <1>9, <1>10, <1>11, <1>12 DEF IInv

\* stop() clears the groups.
LEMMA ExitIInv ==
    ASSUME IInv, Exit
    PROVE  IInv'
<1>1. /\ UNCHANGED <<policyVersion, shipped, mode, gate, draining, main, evalExamples, triggered, nextGroup, group,
                     inflight, permits, outQ, received, pc, scheduling, done, putting, watcher, stale, dropping,
                     abandoned, oldestShipped>>
      /\ stopped' = TRUE /\ groups' = {}
  BY DEF Exit, evalVars, outVars, loopVars, watcherVars, historyVars
<1>2. Sources' /\ Opened' = Opened
  BY <1>1, SourcesKept DEF IInv, Shapes, Sources
<1>3. Shapes'
  <2>1. OutSize' = OutSize
    BY <1>1, OutSame
  <2> QED
    BY <1>1, <1>2, <2>1 DEF IInv, Shapes
<1>4. Booking' /\ PermitsMatchWork' /\ Keys' /\ Emission'
  BY <1>1, <1>2 DEF IInv, Booking, PermitsMatchWork, Keys, Emission, Need
<1>5. \A h \in Opened' : Once(h)'
  <2> SUFFICES ASSUME NEW h \in Opened PROVE Once(h)'
    BY <1>2
  <2>1. h \in Gids /\ Shapes
    BY DEF IInv, Shapes
  <2>2. /\ Booked(h)' = Booked(h) /\ Waiting(h)' = Waiting(h) /\ Dropped(h)' = Dropped(h)
        /\ Flying(h)' = Flying(h) /\ Unscheduled(h)' = 0
    BY <1>1 DEF Booked, Waiting, Dropped, Flying, TasksOf, Unscheduled
  <2>3. received'[h] + (Unscheduled(h)' + Booked(h)' + Flying(h)' + Waiting(h)' + Dropped(h)' + outQ'[h])
          <= received[h] + (Unscheduled(h) + Booked(h) + Flying(h) + Waiting(h) + Dropped(h) + outQ[h])
    <3>1. PICK r \in Nat, q \in Nat, a \in Nat, b \in Nat, x \in Nat, w \in Nat, d \in Nat :
            /\ r = received[h] /\ q = outQ[h] /\ a = Unscheduled(h) /\ b = Booked(h) /\ x = Flying(h)
            /\ w = Waiting(h) /\ d = Dropped(h)
      BY <2>1, PlacesAre
    <3>2. r + (0 + b + x + w + d + q) <= r + (a + b + x + w + d + q)
      OBVIOUS
    <3> QED
      BY <1>1, <2>2, <3>1, <3>2
  <2> QED
    BY <1>1, <1>3, <2>1, <2>3, OnceCut DEF IInv
<1> QED
  BY <1>2, <1>3, <1>4, <1>5 DEF IInv

\* A task returns: it is the same task.
LEMMA TaskFinishesIInv ==
    ASSUME IInv, NEW t \in inflight, NEW o \in {"ok", "error"}, TaskFinishes(t, o)
    PROVE  IInv'
<1> DEFINE Ended(u) == IF u = t THEN [t EXCEPT !.state = o] ELSE u
<1>1. /\ UNCHANGED <<policyVersion, shipped, mode, gate, draining, stopped, main, evalExamples, triggered, nextGroup,
                     group, groups, permits, outQ, received, pc, scheduling, done, putting, watcher, stale, dropping,
                     abandoned, oldestShipped>>
      /\ inflight' = (inflight \ {t}) \cup {[t EXCEPT !.state = o]}
  BY DEF TaskFinishes, controlVars, evalVars, outVars, loopVars, watcherVars, historyVars
<1>2. \A u \in inflight : /\ Ended(u) \in Task /\ Ended(u).gid = u.gid /\ Ended(u).count = u.count
                          /\ Ended(u).nth = u.nth
  BY DEF IInv, Shapes, Task
<1>3. \A u, v \in inflight : u.gid = v.gid /\ u.nth = v.nth => u = v
  BY DEF IInv, Keys
<1>4. inflight' = {Ended(u) : u \in inflight}
  BY <1>1
<1> HIDE DEF Ended
<1>5. /\ IsFiniteSet(inflight') /\ CountOf(inflight') = CountOf(inflight)
      /\ \A g : CountOf(TasksOf(g)') = CountOf(TasksOf(g))
  <2> DEFINE f == [u \in inflight |-> Ended(u)]
  <2>1. f \in [inflight -> Task] /\ inflight' = {f[u] : u \in inflight}
    BY <1>2, <1>4
  <2>2. \A u \in inflight : f[u].gid = u.gid /\ f[u].count = u.count /\ f[u].nth = u.nth
    BY <1>2
  <2>3. \A u, v \in inflight : f[u] = f[v] => u = v
    BY <1>3, <2>2
  <2> HIDE DEF f
  <2> QED
    BY <2>1, <2>2, <2>3, TasksRenamed, ZenonT(40) DEF IInv, Shapes
<1>6. Sources' /\ Opened' = Opened
  BY <1>1, SourcesKept DEF IInv, Shapes, Sources
<1>7. \A u \in inflight' : \E v \in inflight : u = Ended(v) /\ u.gid = v.gid /\ u.nth = v.nth /\ u.count = v.count
  BY <1>2, <1>4
<1>8. Keys'
  <2>1. \A u \in inflight' \cup done :
          /\ u.gid \in Opened /\ u.nth >= group[u.gid].toSchedule
          /\ pc = "acquire" /\ scheduling.gid = u.gid => u.nth > group[u.gid].toSchedule
    BY <1>7 DEF IInv, Keys
  <2>2. \A u, v \in inflight' : u.gid = v.gid /\ u.nth = v.nth => u = v
    BY <1>3, <1>7
  <2>3. \A u \in done, v \in inflight' : u.gid = v.gid /\ u.nth = v.nth => u.count = v.count
    BY <1>7 DEF IInv, Keys
  <2> QED
    BY <1>1, <1>6, <2>1, <2>2, <2>3 DEF IInv, Keys
<1>9. Shapes'
  <2>1. inflight' \subseteq Task
    BY <1>2, <1>4
  <2>2. OutSize' = OutSize
    BY <1>1, OutSame
  <2> QED
    BY <1>1, <1>5, <1>6, <2>1, <2>2 DEF IInv, Shapes
<1>10. Booking' /\ PermitsMatchWork' /\ Emission'
  BY <1>1, <1>5, <1>6 DEF IInv, Booking, PermitsMatchWork, Emission, Need
<1>11. \A g \in Opened' : Once(g)'
  BY <1>1, <1>5, <1>6 DEF IInv, Once, Owed
<1> QED
  BY <1>6, <1>8, <1>9, <1>10, <1>11 DEF IInv

-----------------------------------------------------------------------------
(* Every step keeps the invariant. *)

LEMMA NextIInv == IInv /\ [Next]_vars => IInv'
<1> SUFFICES ASSUME IInv, [Next]_vars PROVE IInv'
  OBVIOUS
<1>1. CASE DispatchLoop
  BY <1>1, ContinueGroupIInv, OpenGroupIInv, QuietIInv, ClientReadyIInv, AcquireIInv, HandleCompletedIInv,
     PutCompletedIInv DEF DispatchLoop
<1>2. CASE Watcher
  BY <1>2, VersionPendingIInv, DropGroupIInv, PutMarkersIInv, QuietIInv DEF Watcher
<1>3. CASE MainLoop
  BY <1>3, ConsumeIInv, QuietIInv, AfterShipIInv, ExitIInv DEF MainLoop
<1>4. CASE Environment
  BY <1>4, TaskFinishesIInv DEF Environment
<1>5. CASE UNCHANGED vars
  <2>1. /\ UNCHANGED <<policyVersion, shipped, mode, gate, draining, stopped, main, evalExamples, triggered, nextGroup,
                       group, groups, inflight, permits, outQ, received, pc, scheduling, done, putting, watcher, stale,
                       dropping, abandoned, oldestShipped>>
    BY <1>5 DEF vars, controlVars, evalVars, groupVars, outVars, loopVars, watcherVars, historyVars
  <2>2. Sources' /\ Opened' = Opened
    BY <2>1, SourcesKept DEF IInv, Shapes, Sources
  <2>3. OutSize' = OutSize
    BY <2>1, OutSame
  <2>4. Shapes'
    BY <2>1, <2>2, <2>3 DEF IInv, Shapes
  <2>5. Booking' /\ PermitsMatchWork' /\ Keys' /\ Emission'
    BY <2>1, <2>2 DEF IInv, Booking, PermitsMatchWork, Keys, Emission, Need
  <2>6. \A g \in Opened' : Once(g)'
    BY <2>1, OnceQuiet DEF IInv
  <2> QED
    BY <2>2, <2>4, <2>5, <2>6 DEF IInv
<1> QED
  BY <1>1, <1>2, <1>3, <1>4, <1>5 DEF Next

\* The inductive invariant of the dispatch loop, the watcher and the main loop.
THEOREM DispatcherInductive == Spec => []IInv
  BY InitIInv, NextIInv, PTL DEF Spec

\* Type correctness of the dispatcher's state, for any constants: the numbers of
\* groups stay within those the sources offer, and out_q within its maxsize,
\* although put is called from two coroutines.
THEOREM DispatcherTypes == Spec => []TypeOK
<1>1. IInv => TypeOK
  <2> SUFFICES ASSUME IInv PROVE TypeOK
    OBVIOUS
  <2>1. nextGroup \in 1 .. Cardinality(Gids) + 1
    <3>1. PICK c \in Nat : c = Cardinality(Gids) /\ Gids = 1 .. c
      BY GidsFinite DEF Gids
    <3>2. nextGroup \in Nat /\ nextGroup >= 1 /\ 1 .. nextGroup - 1 \subseteq 1 .. c
      <4>1. nextGroup \in Nat /\ nextGroup >= 1
        BY DEF IInv, Shapes
      <4>2. 1 .. nextGroup - 1 \subseteq Gids
        BY DEF IInv, Shapes, Opened
      <4> QED
        BY <3>1, <4>1, <4>2
    <3>3. nextGroup - 1 <= c
      <4>1. CASE nextGroup = 1
        BY <4>1
      <4>2. CASE nextGroup # 1
        <5>1. nextGroup - 1 \in 1 .. nextGroup - 1
          BY <3>2, <4>2
        <5> QED
          BY <3>2, <5>1
      <4> QED
        BY <4>1, <4>2
    <3> QED
      BY <3>1, <3>2, <3>3
  <2>2. {gate, draining, stopped} \subseteq BOOLEAN
    <3>1. gate \in BOOLEAN /\ draining \in BOOLEAN /\ stopped \in BOOLEAN
      BY Zenon DEF IInv, Shapes
    <3> QED
      BY <3>1, Zenon
  <2> QED
    BY <2>1, <2>2 DEF IInv, Shapes, TypeOK
<1> QED
  BY <1>1, DispatcherInductive, PTL

\* inflight_permits is what the tasks in flight and the task being started hold,
\* and never exceeds max_inflight_rollouts: completed, dropped and cancelled
\* tasks give their permits back once, in any order.
THEOREM DispatcherPermits == Spec => []PermitsMatchWork
<1>1. IInv => PermitsMatchWork
  BY DEF IInv
<1> QED
  BY <1>1, DispatcherInductive, PTL

\* handle_completed_rollout's promise: of every opened group the main loop is owed
\* and has received group_size rollouts and markers, exactly, unless the drain or
\* the exit cut it short; then at most that many.
THEOREM DispatcherOnce == Spec => []EveryRolloutOnce
<1>1. IInv => EveryRolloutOnce
  BY DEF IInv, EveryRolloutOnce, Once
<1> QED
  BY <1>1, DispatcherInductive, PTL

-----------------------------------------------------------------------------
(* Nothing much too old is shipped. *)

LEMMA InitAges == Init => Ages
  BY DispatcherAssumption DEF Init, Ages

\* Steps that keep the tasks and the stale groups.
LEMMA AgesKept ==
    ASSUME Ages, inflight' \subseteq inflight, UNCHANGED <<stale, oldestShipped>>,
           watcher' \in {"idle", "update"} => stale = {}
    PROVE  Ages'
  BY DEF Ages

LEMMA NextAges == IInv /\ Ages /\ [Next]_vars => Ages'
<1> SUFFICES ASSUME IInv, Ages, [Next]_vars PROVE Ages'
  OBVIOUS
<1> USE DispatcherAssumption
<1>1. ASSUME NEW g, NEW gr, Issue(g, gr) \/ UNCHANGED inflight,
             UNCHANGED <<stale, watcher, oldestShipped>>
      PROVE  Ages'
  <2>1. \A t \in inflight' : t \in inflight \/ t.age = 0
    BY <1>1 DEF Issue, Started
  <2> QED
    BY <1>1, <2>1 DEF Ages
<1>2. CASE ContinueGroup \/ \E e \in Envs : OpenGroup(e)
  <2>1. PICK g, gr : ScheduleGroupRollout(g, gr)
    BY <1>2 DEF ContinueGroup, OpenGroup
  <2>2. UNCHANGED <<stale, watcher, oldestShipped>>
    BY <1>2 DEF ContinueGroup, OpenGroup, watcherVars, historyVars
  <2>3. Issue(g, gr) \/ UNCHANGED inflight
    BY <2>1 DEF ScheduleGroupRollout
  <2> QED
    BY <1>1, <2>2, <2>3
<1>3. CASE ClientReady
  <2>1. UNCHANGED <<stale, watcher, oldestShipped>>
    BY <1>3 DEF ClientReady, watcherVars, historyVars
  <2>2. \E g, gr : Issue(g, gr) \/ UNCHANGED inflight
    BY <1>3 DEF ClientReady
  <2> QED
    BY <1>1, <2>1, <2>2
<1>4. CASE Acquire
  <2>1. UNCHANGED <<stale, watcher, oldestShipped>>
    BY <1>4 DEF Acquire, watcherVars, historyVars
  <2>2. \A t \in inflight' : t \in inflight \/ t.age = 0
    BY <1>4 DEF Acquire, Started
  <2> QED
    BY <2>1, <2>2 DEF Ages
<1>5. CASE FillDone \/ PreferTrain \/ Collect \/ PutCompleted
  <2>1. UNCHANGED <<inflight, stale, watcher, oldestShipped>>
    BY <1>5 DEF FillDone, PreferTrain, Collect, PutCompleted, groupVars, watcherVars, historyVars
  <2> QED
    BY <2>1, AgesKept DEF Ages
<1>6. ASSUME NEW t \in done, HandleCompleted(t) PROVE Ages'
  <2>1. UNCHANGED <<stale, watcher>>
    BY <1>6 DEF HandleCompleted, watcherVars
  <2>2. CASE StillInflight(t) = {}
    <3>1. UNCHANGED <<inflight, oldestShipped>>
      BY <1>6, <2>2 DEF HandleCompleted
    <3> QED
      BY <2>1, <3>1, AgesKept DEF Ages
  <2>3. CASE StillInflight(t) # {}
    <3>1. PICK u \in inflight : StillInflight(t) = {u}
      BY <1>6, <2>3, StillInflightIs
    <3>2. /\ inflight' = inflight \ {u}
          /\ oldestShipped' = Max({oldestShipped} \cup {v.age : v \in {w \in {u} : w.state = "ok"}})
      BY <1>6, <2>3, <3>1 DEF HandleCompleted
    <3>3. u.age \in Nat /\ oldestShipped \in Nat
      BY DEF IInv, Shapes, Task
    <3>4. PICK S : S = {oldestShipped} \cup {v.age : v \in {w \in {u} : w.state = "ok"}}
      OBVIOUS
    <3>5. S = {oldestShipped} \/ S = {oldestShipped, u.age}
      <4>1. \/ {v.age : v \in {w \in {u} : w.state = "ok"}} = {}
            \/ {v.age : v \in {w \in {u} : w.state = "ok"}} = {u.age}
        OBVIOUS
      <4> QED
        BY <3>4, <4>1
    <3>6. \E x \in S : \A y \in S : x >= y
      BY <3>3, <3>5
    <3>7. Max(S) \in S
      BY <3>6 DEF Max
    <3>8. oldestShipped' \in {oldestShipped, u.age}
      BY <3>2, <3>4, <3>5, <3>7
    <3> QED
      BY <2>1, <3>2, <3>8 DEF Ages
  <2> QED
    BY <2>2, <2>3
<1>7. CASE VersionPending
  <2>1. /\ inflight' = {Aged(t) : t \in inflight} /\ watcher = "idle" /\ UNCHANGED oldestShipped
        /\ watcher' = IF stale' = {} THEN "update" ELSE "claim"
        /\ stale' = {t.gid : t \in {u \in inflight' : TooOld(u)}}
    BY <1>7 DEF VersionPending, historyVars
  <2>2. \A t \in inflight : t.age \in Nat /\ t.age <= MaxOffPolicySteps
    BY <2>1 DEF Ages, IInv, Shapes, Task
  <2>3. \A t \in inflight : Aged(t).age \in {t.age, t.age + 1}
    BY DEF Aged, IInv, Shapes, Task
  <2>4. \A t \in inflight' : t.age <= MaxOffPolicySteps + 1
    BY <2>1, <2>2, <2>3
  <2>5. \A t \in inflight' : t.age > MaxOffPolicySteps => t.gid \in stale'
    BY <2>1 DEF TooOld
  <2> QED
    BY <2>1, <2>4, <2>5 DEF Ages
<1>8. ASSUME NEW g \in stale, DropGroup(g) PROVE Ages'
  <2>1. /\ inflight' = inflight \ TasksOf(g) /\ stale' = stale \ {g} /\ UNCHANGED oldestShipped
        /\ watcher' \in {"idle", "update"} => stale' = {}
    BY <1>8 DEF DropGroup, historyVars
  <2> QED
    BY <2>1 DEF Ages, TasksOf
<1>9. CASE PutMarkers \/ TasksCancelled \/ \E v \in 1 .. MaxSteps : VersionAdopted(v)
  <2>1. UNCHANGED <<inflight, stale, oldestShipped>>
    BY <1>9 DEF PutMarkers, TasksCancelled, VersionAdopted, groupVars, historyVars
  <2>2. watcher' \in {"idle", "update"} => stale = {}
    BY <1>9 DEF PutMarkers, TasksCancelled, VersionAdopted, AfterDrop, Ages
  <2> QED
    BY <2>1, <2>2, AgesKept
<1>10. CASE MainLoop
  <2>1. UNCHANGED <<watcher, stale, oldestShipped>> /\ inflight' \subseteq inflight
    BY <1>10 DEF MainLoop, Consume, Ship, AfterShip, Exit, groupVars, watcherVars, historyVars
  <2> QED
    BY <2>1, AgesKept DEF Ages
<1>11. CASE Environment
  <2>1. PICK t \in inflight, o \in {"ok", "error"} : TaskFinishes(t, o)
    BY <1>11 DEF Environment
  <2>2. UNCHANGED <<watcher, stale, oldestShipped>> /\ inflight' = (inflight \ {t}) \cup {[t EXCEPT !.state = o]}
    BY <2>1 DEF TaskFinishes, watcherVars, historyVars
  <2>3. [t EXCEPT !.state = o].age = t.age /\ [t EXCEPT !.state = o].gid = t.gid
    BY DEF IInv, Shapes, Task
  <2> QED
    BY <2>2, <2>3 DEF Ages
<1>12. CASE UNCHANGED vars
  <2>1. UNCHANGED <<inflight, watcher, stale, oldestShipped>>
    BY <1>12 DEF vars, groupVars, watcherVars, historyVars
  <2> QED
    BY <2>1, AgesKept DEF Ages
<1> QED
  BY <1>2, <1>3, <1>4, <1>5, <1>6, <1>7, <1>8, <1>9, <1>10, <1>11, <1>12 DEF Next, DispatchLoop, Watcher

\* A completed rollout exceeds max_off_policy_steps by one update at most, and
\* nothing too old is in flight while the engines are updated.
THEOREM DispatcherOnPolicy == Spec => []AlmostOnPolicy
<1>1. IInv /\ Ages => AlmostOnPolicy
  <2> SUFFICES ASSUME IInv, Ages PROVE AlmostOnPolicy
    OBVIOUS
  <2>1. \A t \in inflight : t.age \in Nat
    BY DEF IInv, Shapes, Task
  <2> QED
    BY <2>1, DispatcherAssumption DEF Ages, AlmostOnPolicy
<1> QED
  BY <1>1, InitAges, NextAges, DispatcherInductive, PTL DEF Spec
=============================================================================
