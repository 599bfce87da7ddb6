---------------------------- MODULE RolloutSinks ----------------------------
(***************************************************************************)
(* Where finished rollouts become batches: TrainSink                       *)
(* (src/prime_rl/orchestrator/train_sink.py), EvalSink (eval_sink.py), and *)
(* what the orchestrator's main loop does with the batch that add()        *)
(* returns (orchestrator.py).  The main loop handles one rollout at a      *)
(* time, so add() is one step, in which it also waits for the values that  *)
(* a complete group still lacks.  Unless the values are conditioned on the *)
(* group, a rollout is scored by a task of its own from its arrival on, at *)
(* the version that the evaluator serves when it answers: the versions in  *)
(* a group may differ, and be older than the evaluator's.                  *)
(*                                                                         *)
(* A rollout is its group and its place in it.  What tokenisation, scoring *)
(* and the filters will make of it is chosen when it arrives: it failed,   *)
(* has no samples, is dropped by a filter before or after batching, or is  *)
(* good.  Weight is 1 for batches counted in rollouts, and the tokens of a *)
(* rollout for batches counted in tokens.                                  *)
(***************************************************************************)
EXTENDS Integers, FiniteSets, Sequences, FiniteSetsExt, SequencesExt

CONSTANTS
    Groups, GroupSize,    \* groups the dispatcher completes; rollouts of each
    ScoredGroups,         \* groups whose environment scores the group as one
    ValueGroups,          \* groups whose algorithm asks the value evaluator
    GroupContext,         \* privileged_context is "group_leave_one_out"
    MinGroupSize,         \* minimum_group_size of the algorithm of each group
    Qualities,            \* what may become of a rollout of each group
    Weight, BatchSize,    \* weight of a rollout; weight of a batch
    EmptyLimit,           \* max_inflight_rollouts
    MaxEmptyBatches,      \* MAX_CONSECUTIVE_EMPTY_BATCHES
    Warmup, MaxVersion,   \* warmup_updates; bound: evaluator versions
    MaxSteps,             \* max_steps
    EvalGroups, Epoch, Epochs    \* groups of the eval epochs, and the epoch of each

ASSUME SinkAssumption ==
    /\ {GroupSize, BatchSize, EmptyLimit, MaxEmptyBatches} \subseteq Nat \ {0}
    /\ GroupContext \in BOOLEAN /\ MinGroupSize \in [Groups -> Nat \ {0}]
    /\ {Warmup, MaxVersion, MaxSteps} \subseteq Nat
    /\ ScoredGroups \cup ValueGroups \subseteq Groups
    /\ Qualities \in [Groups -> SUBSET {"failed", "bare", "prefiltered", "postfiltered", "good"}]
    /\ Weight \in [Groups \X (1 .. GroupSize) -> Nat \ {0}]
    /\ IsFiniteSet(EvalGroups) /\ Epoch \in [EvalGroups -> Epochs]
    /\ \A e \in Epochs : \E g \in EvalGroups : Epoch[g] = e

Members(g) == {g} \X (1 .. GroupSize)
AllRollouts == Groups \X (1 .. GroupSize)
Unscored == -1        \* value_version is None

VARIABLES
    arrived,          \* rollouts of each group that have arrived
    quality,          \* what becomes of each that has
    window,           \* pending_rollouts
    pendingGroups,    \* groups in pending_groups
    pendingBatch, pendingTokens,
    valueVersion,     \* value_version of each rollout
    offered,        \* rollouts queued for the critic
    lastEmptyProgress,
    batch,            \* what add() has returned and the main loop has not handled
    emptyBatches,     \* consecutive_empty_batches
    evaluator,        \* the version the value evaluator serves
    step,             \* progress.step
    loop,             \* "run", "draining", or "raised"
    evalArrived, evalBatches,     \* EvalSink.pending_groups; pending_batches
    reports, shipped, \* history: rollouts in reported windows; sent to the trainer
    evalReports,      \* history: sizes of the epochs reported
    streak            \* history: batches without samples or progress since the last other one

trainVars == <<arrived, quality, window, pendingGroups, pendingBatch, pendingTokens,
               valueVersion, offered, lastEmptyProgress>>
evalVars == <<evalArrived, evalBatches, evalReports>>
loopVars == <<emptyBatches, step, loop>>
vars == <<trainVars, evalVars, loopVars, batch, evaluator, reports, shipped, streak>>

None == << >>

\* What the rollouts of S count for; a queue holds each at most once.
Weigh(S) == MapThenSumSet(LAMBDA r : Weight[r], S)

\* A resumed run may start behind its last step.
Init ==
    /\ arrived = [g \in Groups |-> 0] /\ quality = [r \in AllRollouts |-> "none"]
    /\ window = {} /\ pendingGroups = {} /\ pendingBatch = << >> /\ pendingTokens = 0
    /\ valueVersion = [r \in AllRollouts |-> Unscored] /\ offered = {}
    /\ lastEmptyProgress = 0 /\ batch = None
    /\ emptyBatches = 0 /\ evaluator = 0 /\ step \in 1 .. MaxSteps + 1 /\ loop = "run"
    /\ evalArrived = [g \in EvalGroups |-> 0] /\ evalBatches = [e \in Epochs |-> 0]
    /\ evalReports = [e \in Epochs |-> << >>]
    /\ reports = << >> /\ shipped = << >> /\ streak = 0
-----------------------------------------------------------------------------
\* process_rollout: the members of a group that it made samples of.
Usable(g, q) == {r \in Members(g) : q[r] \notin {"failed", "bare"}}

\* Rewards relative to the group, or values conditioned on it, need all of it.
NeedsAll(g) == g \in ScoredGroups \/ (GroupContext /\ g \in ValueGroups)

\* Mutant: any survivors will do.
AnySurvivors(g, q) == IF NeedsAll(g) => Usable(g, q) = Members(g) THEN Usable(g, q) ELSE {}

\* The members of a complete group that process_group keeps: all or none of a group
\* that is needed whole, and no fewer than the algorithm needs.
Survivors(g, q) ==
    IF (NeedsAll(g) => Usable(g, q) = Members(g)) /\ Cardinality(Usable(g, q)) >= MinGroupSize[g]
    THEN Usable(g, q) ELSE {}

\* The members of a complete group whose values are still to come: all that are kept,
\* if they are conditioned on the group, or those whose own task has not had them.
Awaited(g, q, kept) ==
    IF g \notin ValueGroups THEN {}
    ELSE IF GroupContext THEN kept
    ELSE {r \in Usable(g, q) : valueVersion[r] = Unscored}

\* _publish_value_rollouts: the critic is offered what survives, unfiltered.
Offered(g, kept) == IF g \in ValueGroups THEN kept ELSE {}

\* The members S of a group in their order; there is one such sequence.
InOrder(S) == {s \in SetToSeqs(S) : \A i, j \in 1 .. Cardinality(S) : i < j => s[i][2] < s[j][2]}

\* process_batch: how many of s make a batch: up to the first that fills it.
Cut(s) == Min({k \in 1 .. Len(s) : Weigh(Range(SubSeq(s, 1, k))) >= BatchSize})

\* _pop_settled_rollouts: those of a window that no later batch can use.
Settled(w, queued, groups) == {r \in w : r \notin Range(queued) /\ r[1] \notin groups}

\* Mutant: the batch is taken to weigh what was asked for.
NominalWeight(cohort) == BatchSize

CohortWeight(cohort) == Weigh(Range(cohort))

\* The window that process_batch reports: all of it with a batch that ships.
Report(w, settled, ships) == IF ships THEN w ELSE settled

\* Mutant: what a later batch can use is kept, although it was reported.
KeepUsable(w, settled, told) == w \ settled

\* pending_rollouts afterwards.
WindowAfter(w, settled, told) == w \ told

FlushDue(settled) == Cardinality(settled) >= EmptyLimit

\* The rest of add(), once the group of the new rollout r is dealt with: queued joins
\* the queue, which gives up a batch if it weighs one; if not, what a complete group
\* lost may be told of.
Enqueue(g, r, qual, complete, queued) ==
    LET groups == IF complete THEN pendingGroups \ {g} ELSE pendingGroups \cup {g}
        grown == pendingBatch \o queued
        progress == pendingTokens + Weigh(Range(queued))
        ready == progress >= BatchSize
        cohort == IF ready THEN SubSeq(grown, 1, Cut(grown)) ELSE << >>
        rest == SubSeq(grown, Len(cohort) + 1, Len(grown))
        ship == {x \in Range(cohort) : qual[x] = "good"}
        settled == Settled(window \cup {r}, rest, groups)
        flush == ~ready /\ complete /\ FlushDue(settled)
        told == IF ready THEN Report(window \cup {r}, settled, ship # {})
                ELSE IF flush THEN settled ELSE {}
    IN  /\ pendingGroups' = groups
        /\ pendingBatch' = rest
        /\ pendingTokens' = IF ready THEN progress - CohortWeight(cohort) ELSE progress
        /\ window' = IF ready \/ flush THEN WindowAfter(window \cup {r}, settled, told) ELSE window \cup {r}
        /\ lastEmptyProgress' = IF ready \/ flush THEN pendingTokens' ELSE lastEmptyProgress
        /\ batch' = IF ready \/ flush
                    THEN [rollouts |-> told, samples |-> ship,
                          progress |-> flush /\ progress > lastEmptyProgress]
                    ELSE None
        /\ reports' = IF ready \/ flush THEN Append(reports, told) ELSE reports

\* TrainSink.add, on the next rollout r of group g, which turns out as q.  A group of
\* rollouts is scored by one request, and each rollout by one of its own; the evaluator
\* may advance meanwhile.
Add(g, q) ==
    LET r == <<g, arrived[g] + 1>>
        qual == [quality EXCEPT ![r] = q]
        complete == r[2] = GroupSize
        kept == IF complete THEN Survivors(g, qual) ELSE {}
        asked == IF complete THEN Awaited(g, qual, kept) ELSE {}
    IN  /\ batch = None /\ loop # "raised" /\ arrived[g] < GroupSize
        /\ arrived' = [arrived EXCEPT ![g] = @ + 1]
        /\ quality' = qual
        /\ \E newest \in evaluator .. MaxVersion : \E score \in [asked -> evaluator .. newest] :
              /\ GroupContext => \A x, y \in asked : score[x] = score[y]
              /\ evaluator' = newest
              /\ valueVersion' = [x \in AllRollouts |-> IF x \in asked THEN score[x] ELSE valueVersion[x]]
        /\ offered' = offered \cup Offered(g, kept)
        /\ \E queued \in InOrder({x \in kept : qual[x] # "prefiltered"}) :
              Enqueue(g, r, qual, complete, queued)
        /\ UNCHANGED <<evalVars, loopVars, shipped, streak>>

\* finalize_rollout: the task of a rollout that waits for its siblings has its values.
Score(r) ==
    /\ ~GroupContext /\ r[1] \in ValueGroups \cap pendingGroups /\ loop # "raised"
    /\ quality[r] \notin {"none", "failed", "bare"} /\ valueVersion[r] = Unscored
    /\ valueVersion' = [valueVersion EXCEPT ![r] = evaluator]
    /\ UNCHANGED <<arrived, quality, window, pendingGroups, pendingBatch, pendingTokens, offered,
                   lastEmptyProgress, evalVars, loopVars, batch, evaluator, reports, shipped, streak>>
-----------------------------------------------------------------------------
(***************************************************************************)
(* The main loop, on the batch that add() has returned.                    *)
(***************************************************************************)
Versions(S) == {valueVersion[r] : r \in S} \ {Unscored}

\* Mutant: the gate looks at the version that is being served.
LiveVersion(S) == evaluator

\* Mutant: the gate looks at the newest version in the batch.
NewestVersion(S) == IF Versions(S) = {} THEN evaluator ELSE Max(Versions(S))

\* shipped_value_version_min, or the live version if nothing was scored.
GateVersion(S) == IF Versions(S) = {} THEN evaluator ELSE Min(Versions(S))

Handled == batch # None /\ batch' = None

\* A batch that is complete while the pipeline drains is dropped.
DropWhileDraining ==
    /\ Handled /\ loop = "draining"
    /\ UNCHANGED <<trainVars, evalVars, loopVars, evaluator, reports, shipped, streak>>

\* _passes_value_warmup: a batch scored by too young a value model is dropped.
Withhold ==
    /\ Handled /\ loop = "run" /\ batch.samples # {}
    /\ GateVersion(batch.samples) < Warmup
    /\ streak' = 0
    /\ UNCHANGED <<trainVars, evalVars, loopVars, evaluator, reports, shipped>>

PastLastStep == step > MaxSteps

\* A batch past max_steps starts the drain.
StartDrain ==
    /\ Handled /\ loop = "run"
    /\ batch.samples = {} \/ GateVersion(batch.samples) >= Warmup
    /\ PastLastStep
    /\ loop' = "draining"
    /\ UNCHANGED <<trainVars, evalVars, emptyBatches, step, evaluator, reports, shipped, streak>>

EmptyBatchesAfter(b) == IF b.progress THEN 0 ELSE emptyBatches + 1

\* A batch without samples: nothing ships, and too many of them end the run.
SkipEmpty ==
    /\ Handled /\ loop = "run" /\ batch.samples = {} /\ ~PastLastStep
    /\ emptyBatches' = EmptyBatchesAfter(batch)
    /\ streak' = IF batch.progress THEN 0 ELSE streak + 1
    /\ loop' = IF emptyBatches' >= MaxEmptyBatches THEN "raised" ELSE loop
    /\ UNCHANGED <<trainVars, evalVars, step, evaluator, reports, shipped>>

\* The last step to ship starts the drain as well.
Ship ==
    /\ Handled /\ loop = "run" /\ batch.samples # {} /\ ~PastLastStep
    /\ GateVersion(batch.samples) >= Warmup
    /\ emptyBatches' = 0 /\ streak' = 0
    /\ shipped' = Append(shipped, [samples |-> batch.samples, rollouts |-> batch.rollouts])
    /\ step' = step + 1
    /\ loop' = IF step >= MaxSteps THEN "draining" ELSE loop
    /\ UNCHANGED <<trainVars, evalVars, evaluator, reports>>

\* A value update reaches the evaluator.
EvaluatorAdvances ==
    /\ evaluator < MaxVersion
    /\ evaluator' = evaluator + 1
    /\ UNCHANGED <<trainVars, evalVars, loopVars, batch, reports, shipped, streak>>
-----------------------------------------------------------------------------
EpochSize(e) == GroupSize * Cardinality({g \in EvalGroups : Epoch[g] = e})

\* Mutant: an epoch is over with the first of its groups.
FirstGroup(e, n) == n >= GroupSize

EpochOver(e, n) == n >= EpochSize(e)

\* EvalSink.add, failed rollouts included.
AddEval(g) ==
    LET e == Epoch[g]
        n == evalBatches[e] + (IF evalArrived[g] + 1 = GroupSize THEN GroupSize ELSE 0)
    IN  /\ batch = None /\ loop # "raised" /\ evalArrived[g] < GroupSize
        /\ evalArrived' = [evalArrived EXCEPT ![g] = @ + 1]
        /\ evalBatches' = [evalBatches EXCEPT ![e] = IF EpochOver(e, n) THEN 0 ELSE n]
        /\ evalReports' = IF EpochOver(e, n) THEN [evalReports EXCEPT ![e] = Append(@, n)] ELSE evalReports
        /\ UNCHANGED <<trainVars, loopVars, batch, evaluator, reports, shipped, streak>>

Next ==
    \/ \E g \in Groups : \E q \in Qualities[g] : Add(g, q)
    \/ \E r \in AllRollouts : Score(r)
    \/ DropWhileDraining \/ Withhold \/ StartDrain \/ SkipEmpty \/ Ship
    \/ EvaluatorAdvances
    \/ \E g \in EvalGroups : AddEval(g)

Spec == Init /\ [][Next]_vars
-----------------------------------------------------------------------------
(***************************************************************************)
(* Properties.                                                             *)
(***************************************************************************)
Arrived == {r \in AllRollouts : r[2] <= arrived[r[1]]}

\* Every variable keeps its type, and what the sink counts stays in step with what
\* it holds: pending_groups with the arrivals, the readiness counter with the queue
\* it stands for, over overflow.
TypeOK ==
    /\ arrived \in [Groups -> 0 .. GroupSize]
    /\ \A r \in AllRollouts : quality[r] \in Qualities[r[1]] \cup {"none"}
    /\ window \cup Range(pendingBatch) \cup offered \subseteq Arrived
    /\ pendingGroups = {g \in Groups : arrived[g] \in 1 .. GroupSize - 1}
    /\ IsInjective(pendingBatch) /\ pendingTokens = Weigh(Range(pendingBatch)) /\ lastEmptyProgress \in Nat
    /\ emptyBatches \in 0 .. MaxEmptyBatches /\ step \in 1 .. MaxSteps + 1
    /\ loop \in {"run", "draining", "raised"}

\* Every arrival is reported once: it is in the window that is still open or in
\* exactly one report, whether it ships, is dropped, overflows into a later batch
\* or is waiting for its siblings.  And rollouts that were dropped do not pile up
\* in silence: EmptyLimit of them have been told of, so a run that cannot fill a
\* batch is ended and does not hang.
ReportedOnce ==
    /\ \A i, j \in 1 .. Len(reports) : i # j => reports[i] \cap reports[j] = {}
    /\ window \cap UNION Range(reports) = {}
    /\ window \cup UNION Range(reports) = Arrived
    /\ Cardinality(Settled(window, pendingBatch, pendingGroups)) < EmptyLimit

\* Whatever ships was good and ships once; its group was whole if its rewards or its
\* value context need that, and had siblings enough for its algorithm; and if the
\* critic scores it, it was offered to the critic, and the value model that scored it
\* was past its warmup: each rollout's own version counts, over groups scored one by
\* one while the evaluator advances, cohorts mixed from several groups and overflow.
ShippedIsSound ==
    /\ \A i, j \in 1 .. Len(shipped) : i # j => shipped[i].samples \cap shipped[j].samples = {}
    /\ \A i \in 1 .. Len(shipped) : \A r \in shipped[i].samples :
          /\ quality[r] = "good"
          /\ r[1] \in ScoredGroups \/ (GroupContext /\ r[1] \in ValueGroups)
                => \A s \in Members(r[1]) : quality[s] \notin {"failed", "bare"}
          /\ Cardinality(Usable(r[1], quality)) >= MinGroupSize[r[1]]
          /\ r[1] \in ValueGroups => r \in offered /\ valueVersion[r] >= Warmup

\* An eval epoch is reported once and whole, also if two epochs overlap.
EpochsAreWhole ==
    \A e \in Epochs :
        /\ evalReports[e] \in {<< >>, <<EpochSize(e)>>}
        /\ (\A g \in EvalGroups : Epoch[g] = e => evalArrived[g] = GroupSize) => evalReports[e] # << >>

\* A run is ended for as many batches in a row as it says had neither samples
\* nor progress.
EmptyBatchesAreConsecutive == emptyBatches <= streak

\* The effective rollouts of a batch's window are those that ship with it.
EffectiveIsShipped ==
    \A i \in 1 .. Len(shipped) :
        {r \in shipped[i].rollouts : quality[r] = "good"} = shipped[i].samples
=============================================================================
