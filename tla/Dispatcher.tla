----------------------------- MODULE Dispatcher -----------------------------
(***************************************************************************)
(* RolloutDispatcher (src/prime_rl/orchestrator/dispatcher.py) with the    *)
(* two coroutines it shares its state with: the weight watcher, which      *)
(* drops stale groups before each policy update, and the orchestrator's    *)
(* main loop, which consumes out_q, triggers evals, drains training and    *)
(* exits when the dispatcher says it is idle.                              *)
(*                                                                         *)
(* All three run on one event loop, so a step of the model is the code     *)
(* between two suspension points: waiting for a client, the rate limiter,  *)
(* a full out_q, asyncio.wait, the cancellation of dropped tasks.  An      *)
(* await that cannot suspend (put on a queue with room, acquire without a  *)
(* rate limiter) is not a step boundary.                                   *)
(*                                                                         *)
(* A rollout has no content here.  A task runs one rollout of its group,   *)
(* or all of them when the environment scores groups; out_q is the number  *)
(* of waiting rollouts of each group.                                      *)
(***************************************************************************)
EXTENDS Integers, FiniteSets, FiniteSetsExt

CONSTANTS
    TrainEnvs, EvalEnv,   \* the environments
    GroupSize,            \* rollouts of a group, by environment
    GroupScored,          \* environments with requires_group_scoring
    LiveEnvs,             \* train environments sampling from the live policy
    MaxInflight,          \* max_inflight_rollouts
    MinOutCapacity,       \* out_q is never smaller than this (8 in the code)
    RateLimited,          \* tasks_per_minute is set
    MaxOffPolicySteps,
    TargetLag,            \* TARGET_LAG
    MaxSteps,             \* max_steps
    CollectiveBroadcast,  \* weight_broadcast.type is "nccl"
    EvalSize,             \* examples queued by an eval trigger
    MaxTrainGroups,       \* bound: train groups opened
    MaxTriggers           \* bound: eval triggers, the one at startup included

Envs == TrainEnvs \cup {EvalEnv}
Cost(e) == IF e \in GroupScored THEN GroupSize[e] ELSE 1
OutCapacity == Max({MinOutCapacity, MaxInflight})
Gids == 1 .. MaxTrainGroups + MaxTriggers * EvalSize

\* A group that does not fit in the permits would wait for ever.
ASSUME DispatcherAssumption ==
    /\ EvalEnv \notin TrainEnvs
    /\ GroupSize \in [Envs -> Nat \ {0}]
    /\ GroupScored \subseteq Envs /\ LiveEnvs \subseteq TrainEnvs
    /\ MaxInflight \in Nat /\ \A e \in Envs : Cost(e) <= MaxInflight
    /\ MinOutCapacity \in Nat \ {0}
    /\ {MaxOffPolicySteps, TargetLag, EvalSize, MaxTrainGroups} \subseteq Nat
    /\ MaxSteps \in Nat \ {0} /\ MaxTriggers \in Nat \ {0}

ASSUME ModesAssumption == RateLimited \in BOOLEAN /\ CollectiveBroadcast \in BOOLEAN

VARIABLES
    policyVersion,
    shipped,         \* batches sent to the trainer: progress.step - 1
    mode,            \* "train" or "eval": which kind fill_inflight prefers
    gate,            \* dispatch_allowed
    draining,        \* training is over: train scheduling is disabled
    stopped,         \* the main loop has left
    evalExamples,    \* examples queued in the eval source
    triggered,       \* examples ever queued there
    main,            \* the main loop: at its top, shipping, or after shipping
    nextGroup,       \* groups are numbered in the order they are opened
    group,           \* the GroupState objects
    groups,          \* self.groups: the groups that are still registered
    inflight,        \* self.inflight
    permits,         \* inflight_permits
    outQ, received,  \* rollouts of each group in out_q, and taken from it
    pc, scheduling, done, putting,     \* the dispatch loop
    watcher, stale, dropping,          \* apply_policy_update
    abandoned,       \* history: groups cancel_inflight_train_rollouts took tasks from
    oldestShipped    \* history: greatest off_policy_steps of a completed rollout

loopVars == <<pc, scheduling, done, putting>>
watcherVars == <<watcher, stale, dropping>>
evalVars == <<evalExamples, triggered>>
controlVars == <<policyVersion, shipped, mode, gate, draining, stopped, main>>
groupVars == <<nextGroup, group, groups, inflight, permits>>
outVars == <<outQ, received>>
historyVars == <<abandoned, oldestShipped>>
vars == <<controlVars, evalVars, groupVars, outVars, loopVars, watcherVars, historyVars>>

Opened == 1 .. nextGroup - 1
Nobody == 0          \* no group is being scheduled, emitted or dropped

IsTrain(g) == group[g].env \in TrainEnvs
Available == MaxInflight - permits

\* Mutant: a partly scheduled eval group is forgotten.
QueueHasWork == evalExamples > 0

EvalHasWork ==
    \/ evalExamples > 0
    \/ \E g \in groups : ~IsTrain(g) /\ group[g].toSchedule > 0

CountOf(T) == MapThenSumSet(LAMBDA t : t.count, T)
TasksOf(g) == {t \in inflight : t.gid = g}
OutSize == MapThenSumSet(LAMBDA g : outQ[g], Gids)

IsIdle == inflight = {} /\ ~EvalHasWork /\ OutSize = 0

\* The event loop is free: neither the dispatch loop nor the watcher is
\* between two suspension points.
Suspended == {"client", "acquire", "wait", "put"}
LoopFree == pc \in Suspended /\ watcher # "claim" /\ ~stopped
-----------------------------------------------------------------------------
NoSchedule == [gid |-> Nobody, need |-> 0, got |-> 0]
NoPut == [gid |-> Nobody, left |-> 0, counted |-> FALSE]
Unopened == [env |-> EvalEnv, toSchedule |-> 0, emitted |-> 0, pinned |-> FALSE]

\* The eval triggered at startup may already be queued.
Init ==
    /\ policyVersion = 0 /\ shipped = 0 /\ gate = TRUE
    /\ draining = FALSE /\ stopped = FALSE /\ main = "loop"
    /\ triggered \in {0, EvalSize} /\ evalExamples = triggered
    /\ mode = (IF triggered > 0 THEN "eval" ELSE "train")
    /\ nextGroup = 1 /\ group = [g \in Gids |-> Unopened] /\ groups = {}
    /\ inflight = {} /\ permits = 0
    /\ outQ = [g \in Gids |-> 0] /\ received = [g \in Gids |-> 0]
    /\ pc = "fill" /\ scheduling = NoSchedule /\ done = {} /\ putting = NoPut
    /\ watcher = "idle" /\ stale = {} /\ dropping = NoPut
    /\ abandoned = {} /\ oldestShipped = 0
-----------------------------------------------------------------------------
(***************************************************************************)
(* emit_rollout, for n rollouts of group g in a row.  Each is counted on   *)
(* the group before it is put, and the group is forgotten once all are.    *)
(* put suspends on a full queue, so Left(n) of the rollouts remain to be   *)
(* put, and the first of them is counted already.                          *)
(***************************************************************************)
\* Mutant: put does not suspend.
FitsAlways(n) == n

Fits(n) == Min({n, OutCapacity - OutSize})
Left(n) == n - Fits(n)
Counted(n) == Fits(n) + (IF Left(n) > 0 THEN 1 ELSE 0)

Put(g, n) == outQ' = [outQ EXCEPT ![g] = @ + Fits(n)]

\* The groups forgotten when k more rollouts of g are counted.
Forget(g, k) == IF group[g].emitted + k >= GroupSize[group[g].env] THEN {g} ELSE {}
-----------------------------------------------------------------------------
(***************************************************************************)
(* The dispatch loop: start, fill_inflight, try_schedule,                  *)
(* schedule_group_rollout, handle_completed_rollout.                       *)
(***************************************************************************)
\* rollouts_to_schedule tells the tasks of a group apart.
Started(g, n, left) == [gid |-> g, nth |-> left, count |-> n, age |-> 0, state |-> "running"]

\* schedule_group_rollout once the client is known: the rollouts leave
\* rollouts_to_schedule, then the permits are acquired, then the task starts.
Issue(g, gr) ==
    LET n == IF gr.env \in GroupScored THEN gr.toSchedule ELSE 1
        left == gr.toSchedule - n
    IN  /\ group' = [group EXCEPT ![g] = [gr EXCEPT !.toSchedule = left, !.pinned = TRUE]]
        /\ IF RateLimited
           THEN /\ pc' = "acquire"
                /\ scheduling' = [gid |-> g, need |-> n, got |-> 0]
                /\ UNCHANGED <<inflight, permits>>
           ELSE /\ pc' = "fill"
                /\ scheduling' = NoSchedule
                /\ permits' = permits + n
                /\ inflight' = inflight \cup {Started(g, n, left)}

\* schedule_group_rollout: the first rollout of a group waits for a client.
ScheduleGroupRollout(g, gr) ==
    IF gr.pinned
    THEN Issue(g, gr)
    ELSE /\ pc' = "client"
         /\ scheduling' = [gid |-> g, need |-> 0, got |-> 0]
         /\ group' = [group EXCEPT ![g] = gr]
         /\ UNCHANGED <<inflight, permits>>

Kind == IF mode = "eval" THEN {EvalEnv} ELSE TrainEnvs

\* Mutant: a group-scored task is checked like any other.
AffordsOne(e, need) == 1 <= Available

\* The permits the next task of the group needs are free.
Affordable(e, need) == (IF e \in GroupScored THEN need ELSE 1) <= Available

\* Registered groups of the preferred kind that try_schedule can continue.
Continuable ==
    {g \in groups :
        /\ group[g].env \in Kind /\ group[g].toSchedule > 0
        /\ Affordable(group[g].env, group[g].toSchedule)}

\* Examples a source may offer: the train source draws an environment at random.
Offered(e) ==
    /\ e \in Kind
    /\ IF e = EvalEnv
       THEN evalExamples > 0
       ELSE Cardinality({g \in Opened : IsTrain(g)}) < MaxTrainGroups

\* fill_inflight has permits, and leave to schedule the preferred kind.
MayFill ==
    /\ pc = "fill" /\ ~stopped /\ Available > 0
    /\ IF mode = "eval" THEN EvalHasWork ELSE gate /\ ~draining

\* try_schedule prefers the oldest group it can continue.
ContinueGroup ==
    /\ MayFill /\ Continuable # {}
    /\ LET g == Min(Continuable) IN ScheduleGroupRollout(g, group[g])
    /\ UNCHANGED <<controlVars, evalVars, nextGroup, groups, outVars, done, putting, watcherVars, historyVars>>

\* next_fresh_group: the source's example fits, and its group is opened.
OpenGroup(e) ==
    /\ MayFill /\ Continuable = {}
    /\ Offered(e) /\ Affordable(e, GroupSize[e])
    /\ evalExamples' = evalExamples - (IF e = EvalEnv THEN 1 ELSE 0)
    /\ nextGroup' = nextGroup + 1
    /\ groups' = groups \cup {nextGroup}
    /\ ScheduleGroupRollout(nextGroup,
           [env |-> e, toSchedule |-> GroupSize[e], emitted |-> 0, pinned |-> FALSE])
    /\ UNCHANGED <<controlVars, triggered, outVars, done, putting, watcherVars, historyVars>>

\* fill_inflight gives up: no permits, no leave, no example or one that does not fit.
FillDone ==
    /\ pc = "fill" /\ ~stopped
    /\ \/ Available <= 0
       \/ mode = "train" /\ (~gate \/ draining)
       \/ /\ MayFill /\ Continuable = {}
          /\ \/ ~\E e \in Envs : Offered(e)
             \/ \E e \in Envs : Offered(e) /\ ~Affordable(e, GroupSize[e])
    /\ pc' = "wait"
    /\ UNCHANGED <<controlVars, evalVars, groupVars, outVars, scheduling, done, putting, watcherVars, historyVars>>

\* fill_inflight flips back once every eval rollout is scheduled.
PreferTrain ==
    /\ pc = "fill" /\ ~stopped /\ Available > 0
    /\ mode = "eval" /\ ~EvalHasWork
    /\ mode' = "train"
    /\ UNCHANGED <<policyVersion, shipped, gate, draining, stopped, main, evalVars,
                   groupVars, outVars, loopVars, watcherVars, historyVars>>

\* The client is there; the group may have been dropped meanwhile.
ClientReady ==
    /\ pc = "client" /\ LoopFree
    /\ LET g == scheduling.gid
       IN  IF g \in groups
           THEN Issue(g, group[g])
           ELSE /\ pc' = "wait" /\ scheduling' = NoSchedule
                /\ UNCHANGED <<group, inflight, permits>>
    /\ UNCHANGED <<controlVars, evalVars, nextGroup, groups, outVars, done, putting, watcherVars, historyVars>>

\* acquire: the rate limiter lets one more permit through; with the last, the task starts.
Acquire ==
    /\ pc = "acquire" /\ LoopFree
    /\ permits' = permits + 1
    /\ LET s == scheduling
       IN  IF s.got + 1 < s.need
           THEN /\ scheduling' = [s EXCEPT !.got = @ + 1]
                /\ UNCHANGED <<pc, inflight>>
           ELSE /\ inflight' = inflight \cup {Started(s.gid, s.need, group[s.gid].toSchedule)}
                /\ pc' = "fill" /\ scheduling' = NoSchedule
    /\ UNCHANGED <<controlVars, evalVars, nextGroup, group, groups, outVars, done, putting, watcherVars, historyVars>>

\* asyncio.wait returns, with what has finished or on its timeout; with nothing
\* in flight the loop just sleeps.
Collect ==
    /\ pc = "wait" /\ LoopFree
    /\ done' = {t \in inflight : t.state # "running"}
    /\ pc' = IF done' = {} THEN "fill" ELSE "handle"
    /\ UNCHANGED <<controlVars, evalVars, groupVars, outVars, scheduling, putting, watcherVars, historyVars>>

AfterHandling(rest) == IF rest = {} THEN "fill" ELSE "handle"

\* Mutant: the task that asyncio.wait returned is handled even if it was dropped.
ReturnedBy(t) == {t}

\* inflight.pop(task, None): the task, if nobody dropped it since asyncio.wait returned.
StillInflight(t) == {u \in inflight : u.gid = t.gid /\ u.nth = t.nth}

\* handle_completed_rollout.  A failed task emits as many error markers as it
\* had rollouts, so the count is the same.
HandleCompleted(t) ==
    /\ pc = "handle" /\ ~stopped /\ t \in done
    /\ LET now == StillInflight(t)
           g == t.gid
           registered == g \in groups
       IN  /\ done' = done \ {t}
           /\ IF now = {}
              THEN /\ pc' = AfterHandling(done')
                   /\ UNCHANGED <<group, groups, inflight, permits, outQ, putting, oldestShipped>>
              ELSE /\ inflight' = inflight \ now
                   /\ permits' = permits - t.count
                   /\ Put(g, t.count)
                   /\ group' = IF registered THEN [group EXCEPT ![g].emitted = @ + Counted(t.count)] ELSE group
                   /\ groups' = IF registered THEN groups \ Forget(g, Counted(t.count)) ELSE groups
                   /\ oldestShipped' = Max({oldestShipped} \cup {u.age : u \in {v \in now : v.state = "ok"}})
                   /\ IF Left(t.count) > 0
                      THEN /\ putting' = [gid |-> g, left |-> Left(t.count), counted |-> registered]
                           /\ pc' = "put"
                      ELSE pc' = AfterHandling(done') /\ UNCHANGED putting
    /\ UNCHANGED <<controlVars, evalVars, nextGroup, received, scheduling, watcherVars, abandoned>>

\* A put that was suspended goes through, and the ones after it while they fit.
PutCompleted ==
    /\ pc = "put" /\ LoopFree /\ OutSize < OutCapacity
    /\ LET g == putting.gid
           more == Counted(putting.left) - 1
       IN  /\ Put(g, putting.left)
           /\ group' = IF putting.counted THEN [group EXCEPT ![g].emitted = @ + more] ELSE group
           /\ groups' = IF putting.counted THEN groups \ Forget(g, more) ELSE groups
    /\ IF Left(putting.left) > 0
       THEN putting' = [putting EXCEPT !.left = Left(putting.left)] /\ UNCHANGED pc
       ELSE putting' = NoPut /\ pc' = AfterHandling(done)
    /\ UNCHANGED <<controlVars, evalVars, nextGroup, inflight, permits, received, scheduling, done, watcherVars, historyVars>>
-----------------------------------------------------------------------------
(***************************************************************************)
(* The watcher: apply_policy_update, on_version_pending, drop_group.       *)
(***************************************************************************)
Aged(t) == IF group[t.gid].env \in LiveEnvs THEN [t EXCEPT !.age = @ + 1] ELSE t

\* Mutant: a rollout may be one update older.
TooOldLate(t) == t.age > MaxOffPolicySteps + 1

TooOld(t) == t.age > MaxOffPolicySteps

\* The trainer broadcasts what it was sent, collectively all but the last two.
Published(v) == v <= shipped /\ (CollectiveBroadcast => v <= MaxSteps - 2)

\* on_version_pending: a newer checkpoint is there.  Age what is in flight; the
\* groups that got too old are dropped next.
VersionPending ==
    /\ watcher = "idle" /\ LoopFree /\ Published(policyVersion + 1)
    /\ inflight' = {Aged(t) : t \in inflight}
    /\ stale' = {t.gid : t \in {u \in inflight' : TooOld(u)}}
    /\ watcher' = IF stale' = {} THEN "update" ELSE "claim"
    /\ UNCHANGED <<controlVars, evalVars, nextGroup, group, groups, permits, outVars, loopVars, dropping, historyVars>>

\* The Cancelled markers of a dropped group: its rollouts in flight, and the
\* ones not yet scheduled if the group was still registered.
Markers(g) == CountOf(TasksOf(g)) + (IF g \in groups THEN group[g].toSchedule ELSE 0)

\* drop_group: unregister the group, claim its tasks and their permits without
\* suspending, emit the markers, then wait for the claimed tasks to be cancelled.
DropGroup(g) ==
    /\ watcher = "claim" /\ ~stopped /\ g \in stale
    /\ stale' = stale \ {g}
    /\ groups' = groups \ {g}
    /\ inflight' = inflight \ TasksOf(g)
    /\ permits' = permits - CountOf(TasksOf(g))
    /\ Put(g, Markers(g))
    /\ dropping' = IF Left(Markers(g)) > 0
                   THEN [gid |-> g, left |-> Left(Markers(g)), counted |-> FALSE]
                   ELSE NoPut
    /\ watcher' = IF TasksOf(g) # {} \/ Left(Markers(g)) > 0
                  THEN "cancel"
                  ELSE IF stale' = {} THEN "update" ELSE "claim"
    /\ UNCHANGED <<controlVars, evalVars, nextGroup, group, received, loopVars, historyVars>>

PutMarkers ==
    /\ dropping # NoPut /\ LoopFree /\ OutSize < OutCapacity
    /\ Put(dropping.gid, dropping.left)
    /\ dropping' = IF Left(dropping.left) > 0
                   THEN [dropping EXCEPT !.left = Left(dropping.left)]
                   ELSE NoPut
    /\ UNCHANGED <<controlVars, evalVars, groupVars, received, loopVars, watcher, stale, historyVars>>

\* What follows a drop: the next stale group, or the update.
AfterDrop == IF stale = {} THEN "update" ELSE "claim"

\* safe_cancel_all returns.
TasksCancelled ==
    /\ watcher = "cancel" /\ dropping = NoPut /\ LoopFree
    /\ watcher' = AfterDrop
    /\ UNCHANGED <<controlVars, evalVars, groupVars, outVars, loopVars, stale, dropping, historyVars>>

GateAfter(ship, version) == ship - version <= TargetLag

\* update_weights has finished: version v is live, and on_new_version
\* re-evaluates the dispatch gate.  The watcher takes the latest checkpoint, so
\* versions may be skipped.
VersionAdopted(v) ==
    /\ watcher = "update" /\ LoopFree
    /\ v > policyVersion /\ Published(v)
    /\ policyVersion' = v
    /\ gate' = GateAfter(shipped, v)
    /\ watcher' = "idle"
    /\ UNCHANGED <<shipped, mode, draining, stopped, main, evalVars, groupVars, outVars,
                   loopVars, stale, dropping, historyVars>>
-----------------------------------------------------------------------------
(***************************************************************************)
(* The orchestrator's main loop, and the environments.                     *)
(***************************************************************************)
\* The main loop takes a rollout from out_q for the sinks.  A train rollout may
\* complete a batch, which is shipped unless the pipeline is draining.
Consume(g, batch) ==
    /\ main = "loop" /\ LoopFree /\ outQ[g] > 0
    /\ outQ' = [outQ EXCEPT ![g] = @ - 1]
    /\ received' = [received EXCEPT ![g] = @ + 1]
    /\ batch => IsTrain(g) /\ ~draining
    /\ main' = IF batch THEN "ship" ELSE "loop"
    /\ UNCHANGED <<policyVersion, shipped, mode, gate, draining, stopped, evalVars,
                   groupVars, loopVars, watcherVars, historyVars>>

\* finalize_train_batch: the batch is sent and the dispatch gate updated.
Ship ==
    /\ main = "ship" /\ LoopFree
    /\ shipped' = shipped + 1
    /\ gate' = GateAfter(shipped', policyVersion)
    /\ main' = "shipped"
    /\ UNCHANGED <<policyVersion, mode, draining, stopped, evalVars, groupVars, outVars,
                   loopVars, watcherVars, historyVars>>

TrainTasks == {t \in inflight : IsTrain(t.gid)}

\* finalize_train_batch, at its end: maybe_trigger_eval queues n examples, and
\* the last step drains training with cancel_inflight_train_rollouts.
AfterShip(n) ==
    /\ main = "shipped" /\ LoopFree
    /\ triggered + n <= MaxTriggers * EvalSize
    /\ evalExamples' = evalExamples + n
    /\ triggered' = triggered + n
    /\ mode' = IF n > 0 THEN "eval" ELSE mode
    /\ main' = "loop"
    /\ draining' = (shipped >= MaxSteps)
    /\ LET T == IF draining' THEN TrainTasks ELSE {}
       IN  /\ inflight' = inflight \ T
           /\ permits' = permits - CountOf(T)
           /\ groups' = groups \ {t.gid : t \in T}
           /\ abandoned' = abandoned \cup {t.gid : t \in T}
    /\ UNCHANGED <<policyVersion, shipped, gate, stopped, nextGroup, group,
                   outVars, loopVars, watcherVars, oldestShipped>>

\* _required_broadcasts_adopted: every collective broadcast that is made.
RequiredVersion == IF CollectiveBroadcast THEN Max({0, MaxSteps - 2}) ELSE 0

\* The main loop leaves when the drained dispatcher is idle; stop() cancels the
\* dispatch loop and clears the groups.
Exit ==
    /\ main = "loop" /\ LoopFree /\ draining /\ IsIdle
    /\ policyVersion >= RequiredVersion
    /\ stopped' = TRUE
    /\ groups' = {}
    /\ UNCHANGED <<policyVersion, shipped, mode, gate, draining, main, evalVars, nextGroup, group,
                   inflight, permits, outVars, loopVars, watcherVars, historyVars>>

\* A rollout task returns or raises.
TaskFinishes(t, outcome) ==
    /\ t.state = "running" /\ LoopFree
    /\ inflight' = (inflight \ {t}) \cup {[t EXCEPT !.state = outcome]}
    /\ UNCHANGED <<controlVars, evalVars, nextGroup, group, groups, permits, outVars, loopVars, watcherVars, historyVars>>
-----------------------------------------------------------------------------
DispatchLoop ==
    \/ ContinueGroup \/ (\E e \in Envs : OpenGroup(e)) \/ FillDone \/ PreferTrain
    \/ ClientReady \/ Acquire \/ Collect
    \/ (\E t \in done : HandleCompleted(t)) \/ PutCompleted

Watcher ==
    \/ VersionPending
    \/ \E g \in stale : DropGroup(g)
    \/ PutMarkers \/ TasksCancelled
    \/ \E v \in 1 .. MaxSteps : VersionAdopted(v)

MainLoop ==
    \/ \E g \in Gids, batch \in BOOLEAN : Consume(g, batch)
    \/ Ship
    \/ \E n \in {0, EvalSize} : AfterShip(n)
    \/ Exit

Environment == \E t \in inflight : TaskFinishes(t, "ok") \/ TaskFinishes(t, "error")

Next == DispatchLoop \/ Watcher \/ MainLoop \/ Environment

Spec == Init /\ [][Next]_vars

(***************************************************************************)
(* The event loop runs whatever is ready in turn, but a ready step is not  *)
(* enabled while another coroutine runs: hence strong fairness.  That      *)
(* rollouts return, and that the trainer publishes what it was sent, is    *)
(* assumed of the other processes.                                         *)
(***************************************************************************)
Fairness ==
    /\ SF_vars(DispatchLoop) /\ SF_vars(Watcher)
    /\ SF_vars(MainLoop) /\ SF_vars(Environment)

FairSpec == Spec /\ Fairness
-----------------------------------------------------------------------------
(***************************************************************************)
(* Properties.                                                             *)
(***************************************************************************)
Task == [gid : Gids, nth : Nat, count : Nat, age : Nat, state : {"running", "ok", "error"}]
PutState == [gid : {Nobody} \cup Gids, left : Nat, counted : BOOLEAN]

\* Every variable keeps its type; out_q never exceeds its bound.
TypeOK ==
    /\ policyVersion \in 0 .. shipped /\ shipped \in 0 .. MaxSteps
    /\ mode \in {"train", "eval"} /\ main \in {"loop", "ship", "shipped"}
    /\ {gate, draining, stopped} \subseteq BOOLEAN
    /\ triggered \in Nat /\ evalExamples \in 0 .. triggered
    /\ nextGroup \in 1 .. Cardinality(Gids) + 1 /\ groups \subseteq Opened
    /\ group \in [Gids -> [env : Envs, toSchedule : Nat, emitted : Nat, pinned : BOOLEAN]]
    /\ inflight \subseteq Task /\ done \subseteq Task
    /\ outQ \in [Gids -> Nat] /\ received \in [Gids -> Nat] /\ OutSize <= OutCapacity
    /\ pc \in Suspended \cup {"fill", "handle"}
    /\ scheduling \in [gid : {Nobody} \cup Gids, need : Nat, got : Nat]
    /\ putting \in PutState /\ dropping \in PutState
    /\ watcher \in {"idle", "claim", "cancel", "update"} /\ stale \subseteq Opened
    /\ abandoned \subseteq Opened

\* Permits in use are those of the tasks in flight and of the task being
\* started: a task that is completed, dropped and cancelled in any order gives
\* its permits back once.  acquire does not wait, so the limit is kept only by
\* the check that try_schedule makes before it suspends.
PermitsMatchWork ==
    /\ permits = CountOf(inflight) + scheduling.got
    /\ permits \in 0 .. MaxInflight

\* Rollouts of g that the dispatcher still owes the main loop.
Owed(g) ==
    (IF g \in groups THEN group[g].toSchedule ELSE 0)
    + (IF scheduling.gid = g THEN scheduling.need ELSE 0)
    + CountOf(TasksOf(g))
    + (IF putting.gid = g THEN putting.left ELSE 0)
    + (IF dropping.gid = g THEN dropping.left ELSE 0)
    + outQ[g]

\* handle_completed_rollout's "every dispatched rollout exactly once": the sinks
\* count to group_size, so a group must yield that many rollouts or markers, no
\* more and no fewer, however completion, failure, staleness and a suspended
\* put interleave.  Only the drain and the exit may cut a group short.
EveryRolloutOnce ==
    \A g \in Opened :
        IF stopped \/ g \in abandoned
        THEN received[g] + Owed(g) <= GroupSize[group[g].env]
        ELSE received[g] + Owed(g) = GroupSize[group[g].env]

\* A completed rollout may slip past on_version_pending while another group is
\* being dropped, but never by more than one update; and the engines are paused
\* for the update only when nothing too old is in flight (apply_policy_update
\* drains first).
AlmostOnPolicy ==
    /\ oldestShipped <= MaxOffPolicySteps + 1
    /\ watcher = "update" => \A t \in inflight : t.age <= MaxOffPolicySteps

\* What max_off_policy_steps promises: older rollouts are discarded.
OffPolicyBound == oldestShipped <= MaxOffPolicySteps

Completed == {g \in Opened : ~IsTrain(g) /\ received[g] = GroupSize[EvalEnv]}

\* What is_idle promises, and _drain_training after it: when the main loop has
\* left, every eval rollout that was triggered has been received.
EvalsSurviveTheDrain == stopped => Cardinality(Completed) = triggered

\* Every eval that is triggered is run to the end while the main loop lives,
\* also under a closed gate, a full out_q and train rollouts holding the permits;
\* and once training is over the main loop exits, whatever was in flight, partly
\* scheduled or waiting in out_q.
EvalsAndDrainFinish ==
    /\ \A n \in 1 .. MaxTriggers * EvalSize :
          triggered >= n ~> stopped \/ Cardinality(Completed) >= n
    /\ draining ~> stopped
=============================================================================
