# TLA+ models of prime-rl's asynchronous core

This directory holds a verification project for `prime-rl`: TLA+ modules
translated from the Python source, TLC configurations that check them on small
instances, and TLAPS proofs of the properties that matter most. Paths below are
relative to the repository root. `PROJECT.json` is the machine-readable index:
it maps every definition to the source lines it stands for, lists the runs, the
mutants (small faults that each property must detect), the findings, the hazards
and the theorems.

## 1. The system

A training run is a set of processes:

* the **orchestrator** (`src/prime_rl/orchestrator/`, one asyncio event loop)
  asks environments for rollouts, collects them into batches and sends the
  batches to the RL trainer;
* the **inference servers** (vLLM) generate tokens for the environments and are
  updated with new policy weights by the orchestrator's weight watcher;
* the **RL trainer** (`src/prime_rl/trainer/`) packs batches into micro batches,
  takes optimizer steps and publishes weights;
* the **value trainer** (`src/prime_rl/value/train.py`, `trainer.py`) trains a
  critic on finalized rollouts it pulls from the orchestrator, and publishes its
  weights;
* the **value evaluator** (`value/evaluator.py`, `service.py`) answers the
  orchestrator's requests for per-token values. It is a process of its own or,
  with trainer placement, part of the value trainer (`value/colocated.py`).

### Inventory

| component | state | operations | interacts with | hard behaviour | correct when |
|---|---|---|---|---|---|
| rollout dispatcher (`dispatcher.py`, sources) | in-flight tasks, groups, permits, mode, gate, `out_q` | fill, continue or open a group, start a task, handle a completion, drop a group, cancel for the drain | environments (tasks), watcher (callbacks), main loop (`out_q`, flags) | three coroutines interleave at every await; full queue; rate limiter | permits conserved, every group yields exactly its size, evals served |
| weight watcher (`watcher.py`) | adopted checkpoint | poll, drain stale work, update engines, announce | dispatcher, orchestrator, trainer (files) | update while tasks start, end and are dropped | nothing stale when the engines pause |
| main loop (`orchestrator.py`) | step, draining, stopped | consume, ship, trigger eval, drain, exit | dispatcher, sinks, sender | exit condition read across coroutines | ends, and only when drained |
| train and eval sinks | pending groups, batch, arrival window, epochs | add, finalize group, finalize batch, flush | main loop, value client | three ways out of the window, overflow, scoring against a moving evaluator | each rollout reported once, a batch is sound, epochs are whole |
| value rollout transport (`value/transport.py`) | bounded queue, responder position, pending request, leftovers | publish, respond, restore, receive, close | orchestrator and value trainer over ZMQ | full queue behind a failing send, late replies, lost wakeups | FIFO, nothing twice, waiting work is served |
| value replay buffer (`value/replay.py`) | entries with attempts, gate, totals | add, sample | value trainer loop | hysteresis, eviction against retirement | never stalls, reuse bounded, totals exact |
| value request service (`value/service.py`) | queue, tickets, futures, admission counters, version | submit, cancel, take batch, complete, fail, close | HTTP threads, worker, receiver | deadlines race answers, expiry and shutdown | counters exact, every thread answered |
| value evaluator (`value/evaluator.py`) | one or two model copies, version | receive and apply, evaluate | service, value trainer (NCCL) | updates concurrent with evaluation, failed updates | answers come from one version, the reported one |
| value trainer loop, colocated trainer | sampled or reserved batch, step, version | admit, sample, step, infer, stop | transport, replay, service, weight stream | alternation, reserved batch at the end | each update uses one batch, stop is clean |
| value weight broadcast (`value/weights.py`) | control sockets, NCCL group | publish, receive | trainer, evaluators | two channels, either may break | both agree on the version |
| packer and runs (`trainer/rl/packer.py`, `trainer/runs.py`) | buffers, run progress, indices | receive, select, pack, discover, evict, synchronise | transports, all ranks | eviction and index reuse, resume | a batch holds one step per run, no leak between runs |
| batch transports (`transport/`) | received step per run | send, receive, reset | orchestrator, packer | re-reads, resume | each step read once, in order |
| checkpoints, weight broadcast (`trainer/ckpt.py`, `orchestrator/ckpt.py`, `trainer/rl/broadcast/`) | step directories, markers, saved progress | save, clean, load, resume, broadcast, adopt | launcher, all processes | crash between any two steps, two separate trees, files that outlive a crash | resume repeats and skips nothing, weights in use are not removed |
| elastic inference pool (`utils/elastic.py`) | status per server, desired adapter, lock | discover, add, remove, check, load, update | DNS, servers, weight watcher, dispatcher | servers die and join during an update, failed loads | exposed servers have the current adapter, the pool converges |
| algorithms, value arithmetic, losses, models, SFT | tensors | numeric | | | floating point: out of reach here |
| inference server, configuration, launcher, monitoring | | | | | external or without protocol state |

## 2. Modules

| module | models | kind |
|---|---|---|
| `ValueReplay` | `value/replay.py` | component |
| `ValueReplayProofs` | theorems about `ValueReplay` | proofs |
| `RolloutFeed` | what the rollout stream promises | abstract specification |
| `ValueTransport` | `value/transport.py`, both ends and the sockets | component, refines `RolloutFeed` |
| `ValueTransportProofs` | theorems about `ValueTransport`, the refinement included | proofs |
| `ValueService` | `value/service.py` driven by `value/evaluator.py` | composition of four kinds of threads |
| `ValueServiceProofs` | theorems about `ValueService` | proofs |
| `Dispatcher` | `orchestrator/dispatcher.py` with the parts of `watcher.py` and `orchestrator.py` that share its state | composition of three coroutines and the environments |
| `DispatcherProofs` | theorems about `Dispatcher` | proofs |
| `MultiRun` | `trainer/runs.py`, `trainer/rl/packer.py`, the filesystem transport, the multi-run optimizer and broadcast | composition of orchestrators, master and ranks |
| `RunLedger` | what the trainer promises each run | abstract specification, refined by `MultiRun` |
| `PolicyLoop` | orchestrator, watcher, trainer, launcher and their files over a whole run with crashes | composition |
| `PolicyLoopProofs` | theorems about `PolicyLoop` | proofs |
| `ValueTrainer` | `value/train.py`, `colocated.py`, `trainer.py`, `coordinator.py` | composition with `ValueReplay` (instantiated) |
| `ValueTrainerProofs` | theorems about `ValueTrainer` | proofs, on top of those of `ValueReplay` |
| `RolloutSinks` | `train_sink.py`, `eval_sink.py` and the main loop's handling of a batch | component |
| `ElasticPool` | `utils/elastic.py` | composition of servers, sync loop and updates |
| `BatchProofs` | theorems about `RolloutSinks` and `MultiRun`: how a batch is formed and how it is trained | proofs |
| `Sums` | sums and maxima over finite sets, sequences without repetition, joined sequences, for the proofs | lemmas |
| `MC*` | the instances TLC checks | model |

### ValueReplay

An entry is its id; ids grow, so the oldest resident of the `OrderedDict` is the
least id. `Add(r)` is `add` with its eviction and the opening of the gate;
`Sample(S)` is `sample` for one of the batches `rng.sample` can return, with the
attempt counts, retirements, totals and the closing of the gate. `rollout` and
`attempts` are functions over all ids ever issued, so that a property can speak
about rollouts that have left.

### ValueTransport and RolloutFeed

Rollouts are numbered in publication order. A step of the responder is the code
between two awaits of `_respond_loop`; `RespondCheck` contains the clear of the
wake event and the second look at the queue, which are not separated by an
await. `RespondAgain` is `zmq.Again` with `restore_oldest`; `RespondFails` any
other error, which ends the task and loses what it held. No counter of the code has
those rollouts (`transport.py:197-203`); in the model they stay in `inHand`, and
`CountersConserveRollouts` counts them there, so that it says nothing about their loss.
`receive_available` is
a call that hands out leftovers, sends a request or takes the reply of the
outstanding request; a call that times out changes nothing, so it is a stutter,
and the next call may carry another limit. ZMQ's high-water marks and REQ/REP
lockstep give one message per direction. The refinement maps the feed's
undelivered rollouts to leftovers, reply on the wire, reply being sent and queue,
in this order.

### ValueService

One action per hold of the service's condition (or of the model lock), or per
piece of code between two holds. Each HTTP thread makes one request. Time is the
order in which deadlines pass: all requests have the same timeout, so deadlines
pass in the order of `admitted_at`, which is read before the lock and therefore
need not be the order of the queue. `TakeBatch` covers `_expire_head` and
`_take_head` over as many tickets as one uninterrupted hold of the lock uses.
The receiver loads an update in place under the model lock, or into the second
copy (`DoubleBuffer`); a load may fail in the middle. `weights` is what the
serving model's parameters really are, `modelVersion` what the runtime reports.

### Dispatcher

All coroutines run on one event loop, so an action is the code between two
points where a coroutine can really be suspended, and no other coroutine's
action is enabled while the dispatch loop or the watcher is between two such
points (`LoopFree`). An await that cannot suspend (a put on a queue with room,
`acquire` without a limiter) is not such a point. Tasks are told apart by their
group and the `rollouts_to_schedule` they left behind. `outQ[g]` counts the
rollouts of a group in `out_q`: their order does not matter to anything
modelled. Whether a consumed rollout completes a batch, and how many examples an
eval trigger queues, is a free choice, because the sinks and the eval intervals
are not part of this module. `VersionAdopted` may skip versions as the watcher does;
`Published` are the broadcasts the trainer makes, which with collective broadcasts are
all but the last two (`CollectiveBroadcast`), and the exit waits for those
(`RequiredVersion`).

### MultiRun and RunLedger

Run directories appear, get a configuration, get batches, and vanish at any time.
An action of the trainer is one phase of the loop: `discover_runs`, `receive`,
the buffering and validation of what was received, a second discovery,
`pack` or the wait for more tokens, `synchronize_state`, the optimizer step, the
broadcast. A sample is its length, step and owner; `life` tells two directories
of one name apart. `Selection` is the round robin as a function of the queue of
eligible samples. `grad` holds what each index has accumulated, with the number
of times it was rescaled. The micro batches of a pack and their distribution over
ranks are left out. `RunLedger` sees only `done` and `published`.

### PolicyLoop

The files decide, so they are the state: rollouts, broadcasts and the two trees of
checkpoints, each batch and broadcast with the launch (`life`) that wrote it. A
checkpoint is `partial` between the creation of its directory and the end of
the save. `Ship` is `finalize_train_batch`, `Watch` and `Adopt` the watcher,
`TrainStep`, `WaitForReady` and `Send` the optimizer step and the two weight
transports, `TrainerSave` the save with `maybe_clean`. `Crash` kills the whole job;
an interrupted orchestrator may still write its last checkpoint. The launcher resumes
at a step both have (`"step"`), at -1 (`"latest"`), at -1 when both have the same
newest checkpoint (`"agreed"`), or starts over. `mode` is the configuration, fixed
at the start: the weight transport, and how many batches rollouts in flight can
fill behind a closed gate.

The packer finds its run by `control/orch.toml` and takes its first step from the
resume point in it (`DiscoverRun`, `RunFrom`). The file is written first thing in the
orchestrator's setup (`OrchWrite`) and survives a crash, so that `toml` may still be what
an earlier launch was resumed at when the trainer packs. It goes astray then if that
resume point is not its own (`astray`; `MCPolicyLoopStale.cfg` in section 4); the
safety properties that relate the trainer to the orchestrator, and completion, are
about trainers that have not gone astray.

### ValueTrainer

The replay buffer is module `ValueReplay` itself (`INSTANCE`); what the loop adds is
admission in slices, the reserved batch, `choose_next_operation`, the request
queue as a FIFO, the update with publication and checkpoint, serve-only mode after
the last step, and the ends: `run_done`, the last step and an exception. An exception may
come out of an update half-way (`HalfUpdate`): the weights are new, and the publication
or the checkpoint is missing. `placement` chooses between the colocated and the dedicated
loop.

### RolloutSinks

The main loop handles one rollout at a time, so `add` is one action, with group
completion, survivors, cut, window and flush inside. What tokenisation, scoring
and filters make of a rollout is chosen when it arrives. In the default `"task"` context
each rollout is scored by a task of its own from its arrival on (`Score`), and a group that
completes waits for the tasks that are left, during which the evaluator may advance: the
rollouts of one group may have several versions. With `group_leave_one_out`
(`GroupContext`) one request scores the complete group, which must be whole
(`NeedsAll`). A group with fewer survivors than `minimum_group_size` is dropped. The batch
`add` returns is then dropped while draining, withheld by the value warmup, counted as
empty, or shipped; the last step that ships starts the drain. The evaluator's version
advances between steps.

### ElasticPool

`_sync_server_adapter` is a small automaton per server (query, load, verify), run
by `sync` for one server at a time and by `sync_weights` for all at once, both
under the lock. A query may fail, a load may fail with or without having
happened. Servers start without an adapter, die, and appear in and vanish from DNS
on their own. A look-up that fails finds no server at all, as `discover_server_ips`
returns `[]`, and a health check may fail for a server that lives: both remove living
servers, which then miss updates. Deaths, failed look-ups and failed health checks are
counted together (`faults`, bounded by `MaxFaults`).

## 3. Runs

| run | configuration | distinct states | shows |
|---|---|---|---|
| `replay` | batch 2, refill 3, capacity 4, 2 updates, 6 admissions of two kinds of rollout | 119k | gate and admission, accounting with the totals, reuse, departures, drain |
| `transport` | queue of 3, limits 1 to 3, 7 rollouts | 23k | conservation, order, refinement, service of what waits |
| `service` | three clients, 2 requests or 3 tokens pending, batches of 3 tokens, one update, two copies | 3.9M | counters, futures, freshness and coherence of answers |
| `service_answers` | two clients, one copy | 113k | every thread is answered |
| `dispatcher` | two train groups (one scored as a group) and one eval, groups of 2, 3 permits, limiter, 2 steps, no tolerance for staleness | 1.5M | permits, exactly-once, staleness at updates |
| `dispatcher_progress` | a group-scored environment and an eval, 3 permits, 3 steps at a lag of 1, collective broadcasts | 38k | evals are served and the drain ends, also behind the closed gate |
| `dispatcher_drain` | as `dispatcher`, 1 step, the code's queue capacity | violation | an eval can be lost at exit |
| `multi_run` | two runs, two indices, a budget of 2 tokens, batches of three samples or with an invalid one, 2 batches each | 195k | sound packs, whole steps, adapters, refinement of `RunLedger`, every batch trained |
| `policy` | 12 steps, checkpoints every 4, `keep_last` 2, both transports, two crashes | 323k | steps coordinated, nothing stale, resume point kept, completion |
| `value_trainer` | both placements, batch 2, capacity 4, 7 rollouts, 2 requests, cap of 5 steps, checkpoints every 3, start at 0, 2 or 5 | 160k | no batch in vain, less than an interval unsaved, neither side starves |
| `sinks` | three groups of 2 with uneven weights, one scored as a group, one whose algorithm needs both siblings, two with values, batch of 3, warmup, two eval epochs of three groups | 379k | reported once, sound batches, whole epochs |
| `elastic` | two servers, two updates, two faults | 38k | exposed servers are current, the pool converges |

**Bounds.** Every counter that could grow is bounded by a named constant:
`MaxAdmitted`, `MaxPublished`, `MaxVersion`, `MaxTrainGroups`, `MaxTriggers`,
`MaxSteps`, `MaxStep`, `MaxBatches`, `MaxLives`, `MaxCrashes`, `MaxFaults`. The instances
are the smallest in which the interesting cases occur: a replay buffer that overflows,
retires and refills; a transport queue that overflows behind a full reply whose
send then fails; clients that together exceed the pending limits and that fit in
one batch; groups that are partly scheduled, partly complete and dropped, with a
full `out_q`; a dispatch gate that closes before the last step while an eval is pending,
and again for good in the drain; a batch spread over two packs while the next step is
buffered, and an index that passes from one run to another; checkpoints that are cleaned (three
of them, two kept), and a second crash right after a resume; a replay that fills
while requests are queued and the last step is near; a batch that overflows into
the next while groups are open, with rollouts of a group scored at different versions; a
server that dies in the middle of an update, and one that a failed look-up removes.
`out_q`'s capacity is `max(8, max_inflight)` in the code; the passing runs scale 8
down to 3 or 2 so that it fills, the violation keeps the 8. The symmetries exchange the two clients
of `service` with equal requests, and the two eval groups of one epoch in `sinks`.
`MCRolloutSinksGroup.cfg` is `sinks` with values conditioned on the siblings
(`group_leave_one_out`); the theorems of section 5 cover both contexts.

**What the passing runs assume.** `policy`: with filesystem broadcasts nothing in
flight fills a batch behind the closed gate, `-1` is used only while both trees have
the same newest checkpoint, checkpoints are further apart than the orchestrator can
ship before the trainer's first pack, and a step whose broadcast an earlier resume
removed is not resumed from; the behaviours in which a trainer goes by an earlier
launch's `orch.toml` are in the run, and the properties say what they do not promise then
(`~astray`). `multi_run`: a directory name is used once. `elastic`: a server that dies
comes back only after the pool has seen it gone. Each of these is a real limit of the
code, and section 4 says which configuration shows it.

**Deadlock** is not checked where the system legitimately stops: the arrivals are
bounded, the services close, the main loops exit. What must not stop is stated as
liveness. `elastic` never stops and is checked for deadlock.

**Fairness.** `ValueReplay`: the trainer samples while it can. `ValueTransport`:
weak fairness of the responder's steps and of the trainer's calls; strong
fairness of the successful send, since the socket has polled writable before each
attempt. Publishing is not fair. `ValueService`: HTTP threads run, deadlines
pass, and `close` goes through its list; nothing is assumed of the worker and
the receiver, so a hanging model cannot hang a request. `Dispatcher`: strong
fairness for each coroutine, because asyncio runs ready callbacks in FIFO order
but a ready coroutine's step is disabled while another one runs; it is assumed
that environments return or raise and that the trainer publishes what it was
sent. `MultiRun`: the trainer's loop runs; the environment owes nothing.
`PolicyLoop`: each process keeps going, rollouts complete a batch while the gate is
open (behind a closed gate nothing is assumed), and a killed job is launched again.
`ValueTrainer`: the loop runs, and taking a batch of requests is strongly fair:
`has_queued` drops what has expired right before `take_batch` looks, so it
cannot find the queue emptied every time. `ElasticPool`: the sync loop and the
update run; a server asked again and again answers some of the times, and a repeated
load works in the end; look-ups and health checks fail finitely often.

**Mutants.** Each property has a mutant, some have several, an operator next to the definition it
replaces, marked "Mutant" in the module. It changes one definition the way a
plausible bug would (a dropped guard, an off-by-one, a missing wakeup, a swapped
order), and the property's run must then fail.

## 4. Findings

* **An eval rollout can be lost at exit** (run `dispatcher_drain`). With
  `tasks_per_minute` set, `schedule_group_rollout` decrements
  `rollouts_to_schedule` and then awaits the limiter; the task is registered only
  afterwards. Between the two, `is_idle` sees neither, and a draining main loop
  leaves. `EveryRolloutOnce` holds in that window because the model counts the
  rollout being started; `is_idle` does not.

The following deviations are not part of the regular runs. Each is reproduced by
`tlc -config <cfg> <module>` with the configuration named; TLC reports the
property violated.

| configuration | property | what happens |
|---|---|---|
| `MCDispatcherOffPolicy.cfg` | `OffPolicyBound` | `on_version_pending` awaits the cancellation of one stale group before it claims the next; a task of the next one that completes meanwhile is emitted as a normal rollout past `max_off_policy_steps`. `AlmostOnPolicy` shows by at most one. |
| `MCValueServiceInPlace.cfg` | `AnswerIsCoherent` | With `double_buffer_weights = false` an update that raises in the middle leaves mixed layers; a worker that had already looked for an error answers with the old version. `docs/value-functions.md:65` promises the single version that produced it. |
| `MCMultiRunFair.cfg` | `BoundedBypass` | `_select_samples_round_robin` (`packer.py:244`) moves past a run before it knows whether its sample fits, so a run with large samples beside one that leaves little room is passed over pack after pack; `pack` calls this "round-robin fair scheduling". |
| `MCMultiRunReturn.cfg` | `AdaptersMatchRuns` | `synchronize_state` (`runs.py:405`) compares names: a run removed and created again under its name between two synchronisations keeps the old run's parameters and optimizer. |
| `MCMultiRunGrad.cfg` | `GradientsAreOwn` | `zero_grad` (`optim.py:310`) clears only complete runs: one dropped in the middle of a step leaves its gradients to the next run at that index. |
| `MCMultiRunScale.cfg` | `GradientsScaledOnce` | Every iteration multiplies every `.grad` by the FSDP factor (`train.py:553`), gradients carried over from earlier packs included. |
| `MCPolicyLoopClean.cfg` | `LoadedWeightsAreThere` | Rollouts in flight fill a third batch behind the gate; the trainer then removes `step - 2` (`trainer/utils.py:833`) while the servers still load it. |
| `MCPolicyLoopLatest.cfg` | `SameResumePoint` | With `resume_step = -1` trainer and orchestrator take the newest directory of their own tree, which a crash leaves at different steps. |
| `MCPolicyLoopStale.cfg` | `MatchesOrchestrator` | The packer takes the run's first step from `control/orch.toml` (`runs.py:226`, `:279-291`, "match orchestrator behavior"). A crash leaves the file (`clean_future_steps` removes rollouts and broadcasts only), and the new orchestrator rewrites it in its setup (`orchestrator.py:227-231`), for which the trainer does not wait. If the trainer packs first, it starts after the resume point of the launch before, or at step 1, with the weights of the right one; rollouts of the earlier launch up to the resume point are still on disk, so it may train on them, or wait for a batch nobody sends. With NCCL a resume from a checkpoint is safe: the trainer first sends its weights to the orchestrator, whose setup has written the file by then. |
| `MCPolicyLoopRace.cfg` | `StepsCoordinated` | The packer looks up `-1` again at its first pack (`runs.py:289`) and may find a checkpoint the resumed orchestrator has written since; it then waits for a later batch for ever. |
| `MCRolloutSinksStreak.cfg` | `EmptyBatchesAreConsecutive` | A batch withheld by the warmup does not reset `consecutive_empty_batches` (`orchestrator.py:586`), so the run can end on empty batches that were not consecutive. |
| `MCRolloutSinksEffective.cfg` | `EffectiveIsShipped` | The "effective (shipped) subset" (`orchestrator.py:682`) is the whole arrival window, with rollouts that ship later or wait for siblings. |
| `MCElasticPoolRestart.cfg` | `ExposedAreCurrent` | A server that restarts between two health checks (or while a long update holds the lock) is still `ready`, is not asked for its adapter before the next update (`elastic.py:442`), and gets rollouts without one. |

Two more limits are visible in the guards of `PolicyLoop`. After a resume at an earlier
step, later checkpoints stay on disk while `clean_future_steps` has removed their
broadcasts; with filesystem broadcasts a second resume from one of them ends with "No
weight directory found" (`WeightsKept`). And with `keep_last = 1` the trainer may
remove the last common checkpoint before the orchestrator has saved the new one:
that is the mutant of `ResumePointKept`.

## 5. Proofs

A theorem holds for every value of the constants that the component's `ASSUME`
admits, however many clients, servers, steps, crashes or rollouts: the bounds that make
TLC's instances finite are constants too, and the proofs do not look at their values.
Each `...Inductive` theorem states the component's inductive invariant `IInv`; the
others follow from it. Every `IInv` was checked by TLC on the instance of the
component's run before it was proved.

### ValueReplay

`ValueReplayProofs` proves, for every batch size, capacity, refill mark, reuse
bound and set of rollouts (`ReplayAssumption`, the conditions `__init__` checks):

| theorem | statement |
|---|---|
| `ReplayInductive` | `Spec => []IInv` |
| `ReplayTypes` | `Spec => []TypeOK` |
| `ReplayGate` | `Spec => []GateIsConsistent` |
| `ReplayAccounting` | `Spec => []RolloutsAccountedFor`, the totals included |
| `ReplayReuse` | `Spec => []ReuseIsBounded` |
| `ReplayAdmission` | `Spec => []AdmissionNeverStalls` |
| `ReplayEviction` | `Spec => EvictOnlyWhileTraining` |
| `ReplayDeparture` | `Spec => DepartureIsFinal` |
| `ReplayDepartures` | `Spec => DeparturesAreLegal`, the two together |

The inductive invariant `IInv` joins the type invariant, the gate, the
accounting and the reuse bound. None is inductive alone. That the gate is
consistent after an admission needs the type of the ids (the fresh id is not
resident, so the size grows by one, or stays at a full buffer). That
`retired` counts exactly the entries used up needs that residents are below the
bound (so a selection uses up only entries that were not counted yet), and the
accounting needs that the spent entries are residents. Cardinalities come from
the library's finite-set theorems; the lemmas are that the ids are finite, that
a nonempty set of ids has a least one, and hence that an eviction removes exactly
one entry of a full buffer and none otherwise. `ReplayEviction`
follows from `IInv` in the state before the step: only a full buffer evicts, a
full buffer is at or above the refill mark, so its gate is open. `ReplayDeparture`
needs only the types: a fresh id was never issued, and batches are residents.
The totals (`TotalsInStep`) are folds over the residents; that they follow every
admission, eviction and retirement comes from `Sums`.

### ValueTransport

| theorem | statement |
|---|---|
| `TransportInductive` | `Spec => []IInv` |
| `TransportTypes` | `Spec => []TypeOK` |
| `TransportConserves` | `Spec => []CountersConserveRollouts` |
| `TransportFeed` | `Spec => ImplementsFeed`, the refinement of `RolloutFeed` |

A reply is the expected one because there is one request, and it is on the wire, with
the responder, or answered (`OneRequest`); a reply is never empty because the
responder polls only with something queued (`InHand`). The difficult part is
`restore_oldest`: what a failed send puts back must not leave a gap. It does not,
because rollouts are dropped behind it only while the queue is full, and then nothing
is put back (`InHandJoinsQueue`). The refinement needs more: that everything under
way is in publication order across leftovers, wires, responder and queue
(`UnderwayInOrder`); a publication that overflows, a restore that does not fit and a
failing responder are `Lose` or `Publish` steps of the feed, which keep a subsequence of the undelivered rollouts in
order. The only assumption besides the capacities is that the constant `None` is no
message (`NoneAssumption`).

### ValueService

| theorem | statement |
|---|---|
| `ServiceInductive` | `Spec => []IInv` |
| `ServiceTypes` | `Spec => []TypeOK`, with the limits of the request plane |
| `ServicePending` | `Spec => []PendingMatchesTickets` |
| `ServiceCoherent` | `Spec => []AnswerIsCoherent`, if `DoubleBuffer = TRUE` |

Four kinds of threads give slots back. That none does so twice rests on where a ticket
is: in the queue or in the batch, once, and its future says in which (`Tickets`). So
`cancel` finds a pending future in the queue, an answer finds a running one in the
batch, and the counters stay the number and the token sum of what is held
(`Counters`, through the lemma `ReleaseKeeps`). Coherence needs the chain of versions
"at submit <= announced <= loaded <= evaluated" (`Fresh`). Its hypothesis is the setting
`double_buffer_weights`: without it TLC shows an answer from half-loaded weights
(section 4).

### Dispatcher

| theorem | statement |
|---|---|
| `DispatcherInductive` | `Spec => []IInv` |
| `DispatcherTypes` | `Spec => []TypeOK` |
| `DispatcherPermits` | `Spec => []PermitsMatchWork` |
| `DispatcherOnce` | `Spec => []EveryRolloutOnce` |
| `DispatcherOnPolicy` | `Spec => []AlmostOnPolicy` |

Rollouts are conserved because a task is known by one key (`Keys`), so that
`handle_completed_rollout` and `drop_group` never both take it, and because the count
a group keeps of what it emitted is what was put and the one that waits (`Emission`): a
group is forgotten only when it owes nothing more. Permits are kept because what
`try_schedule` checked before it suspended stays true while other coroutines only give
permits back (`Booking`). The bound on the groups opened comes from what the sources
offered, the eval trigger at start-up included (`Sources`). `Ages` is a second
invariant, over `IInv`: between the announcement of a version and its update
everything too old is about to be dropped.

### ValueTrainer

| theorem | statement |
|---|---|
| `TrainerInductive` | `Spec => []IInv` |
| `TrainerTypes` | `Spec => []TypeOK` |
| `TrainerNothingInVain` | `Spec => []NothingInVain` |
| `TrainerLittleIsLost` | `Spec => []LittleIsLost` |

For both placements and from `TrainerAssumption` alone, which repeats the bounds the
configuration checks. The module instantiates `ValueReplayProofs` (`Buffer`) and uses its
lemmas instead of opening the buffer again: `BufferAdds`, `BufferSamples` and `BufferStays`
say what an operation of the buffer does to its size, its gate and the evictions. On top of
that, `Room` is the reason why nothing is displaced unseen when a rollout is used once:
outside the admission a buffer that can be sampled has room for a whole batch below the
refill mark, and during it what is still to be added fits below that mark. `Phases` says that at
most one batch is in hand, drawn while a step was left; `Turns` that an update passed over
once is chosen next, since nothing but the loop itself can make it impossible.
`LittleIsLost` rests on a second invariant (`Unsaved`): the last checkpoint is never behind
a multiple of the interval that the version has passed, from any resumed version, on or
off the interval. Since versions go up by one, the remainder bounds what is unsaved. The
step cap takes a checkpoint of its own in `_checkpoint_if_due`; `finish` is only needed
when the policy run ends in between; an exception half-way adds the one update whose
checkpoint it prevented.

### PolicyLoop

| theorem | statement | further hypotheses |
|---|---|---|
| `LoopInductive` | `Spec => []IInv` | |
| `LoopTypes` | `Spec => []TypeOK` | |
| `LoopCoordinated` | `Spec => []StepsCoordinated` | |
| `LoopNothingStale` | `Spec => []NothingStaleAfterResume` | every mode is NCCL, or nothing in flight fills a batch behind the gate |
| `LoopResumePoint` | `Spec => ResumePointKept` | `KeepLast >= 2` |

All of them assume that a job is resumed at a step that is named, or started over
(`Resumes \subseteq {"step"}`). Crashes may leave any earlier launch's `orch.toml`, and the
trainer may go by it; the statements about the trainer are about the others (`~astray`, which
stands in the properties, see `PolicyLoop`), and `LoopTypes`, the gate and the broadcasts
hold for both. Resuming at "latest" stays with TLC, which shows that each
process may then find another checkpoint. The other two hypotheses are not
technical either: TLC violates the properties without them (`MCPolicyLoopClean.cfg`;
the mutant of `ResumePointKept` with one checkpoint kept).

The processes share only the disk. Past the resume point it holds what this life
wrote and nothing else (`ThisLife`); a batch is written before the trainer takes it, and
its two counters agree unless it has gone astray (`TrainerSide`); a collective is about the one broadcast the servers do not have
(`Collective`); `Setup` and `OrchSide` say what each process knows on its way there and
how far batches are ahead of weights. `ResumePointKept` needs that the orchestrator
has finished the checkpoints it is past (`OrchSaved`), and that there is always a common
step with nothing newer among the checkpoints the trainer counts, but the one being saved
(`Anchored`): cleaning with two or more kept cannot reach it.

### RolloutSinks

| theorem | statement |
|---|---|
| `SinksInductive` | `Spec => []IInv` |
| `SinksTypes` | `Spec => []TypeOK` |
| `SinksReportedOnce` | `Spec => []ReportedOnce` |
| `SinksShippedSound` | `Spec => []ShippedIsSound` |
| `SinksEpochsWhole` | `Spec => []EpochsAreWhole` |

From `SinkAssumption` alone: positive sizes and limits, and every epoch has a group; for
either value context. A rollout joins the queue only when its group is complete, and by then
the values its own task owed it, or its group's request, are there, so what was found out
about it (its siblings, its value version, its offer to the critic) cannot change any more:
`Score` concerns groups that still wait. Two rollouts of a group may have different
versions. And and a group that still grows has nothing in the queue, in the batch in hand or
in what has shipped (`Queues`, `Shipped`). That is why nothing enters the queue twice, why
the cut of process_batch parts it into a cohort and a rest that have nothing in common
(`QueueMoves`), and why `pendingTokens` stays the weight of the rest, also when the cohort
weighs more than a batch. The window is partitioned because every report is taken
out of it (`WindowIsTold`). The bound on untold drops holds because an arrival before the
last of its group settles nothing (`SettledNoMore`), and after a report nothing is left
that could be told of. That a gate passed by the least version is passed by each
(`GateIsSound`) is what the warmup rests on, since a cohort has as many versions as
rollouts. In `EvalSink` the batch of an epoch is the
size of a group times the finished groups (`Evals`), so its threshold is met by the last
one and by none before.

### ElasticPool

| theorem | statement |
|---|---|
| `PoolInductive` | `PoolSpec => []PoolIInv` |
| `PoolTypes` | `PoolSpec => []PoolTypeOK` |
| `PoolExposesCurrent` | `PoolSpec => []ExposedAreCurrent`, if `QuickRestarts = FALSE` |

These are the last part of `PolicyLoopProofs`, whose broadcasts the pool adopts; they
need `ElasticPoolAssumption` only, and hold whatever look-ups, health checks and loads fail. `PoolLockWorks` (nobody is being synchronised when the lock is free, one server at a time
in `sync`) and `AdapterNotAhead` (no server has an adapter that was not asked for) make
it inductive. The hypothesis excludes servers that restart between two health checks,
which TLC shows to be exposed without their adapter (section 4).

### MultiRun

| theorem | statement | further hypothesis |
|---|---|---|
| `RunsBase` | `RunsSpec => []RunBase` | |
| `RunsTypes` | `RunsSpec => []RunsTypeOK` | |
| `RunsOnce` | `RunsSpec => []RunOnce` | `MaxLives = 1` |
| `RunsAdapters` | `RunsSpec => []AdaptersMatchRuns` | `MaxLives = 1` |
| `RunsConserve` | `RunsSpec => []RunSums` | `MaxLives = 1` |
| `RunsStepsWhole` | `RunsSpec => []StepsAreWhole`: `StepsAreSound` (`RunsStepsSound`) and `UpdatesAreWhole` | `MaxLives = 1` |
| `RunsKeepLedger` | `RunsSpec => LedgerSpec`, the refinement of `RunLedger` | `MaxLives = 1` |

These are the second part of `BatchProofs`, from `MultiRunAssumption` (positive sizes, any
set of runs and of batches). `RunBase` holds however often names are reused: an index belongs
to one run, only present runs have samples or flags (`RunIndices`), the buffer of an index
holds steps in ascending order, from the packer's to the last received (`RunSteps`), and a
pack holds one step of each run, within the budget (`RunPacks`). That a flag is down while
indices change hands is the second half of the type invariant: a discovery runs only before
a pack, and the broadcast takes down every flag the pack raised.

The other properties compare what an index holds with the run that holds the index, and
runs are compared by name. `MaxLives = 1` says that no name is used twice; without it TLC
shows a run that trains on the adapter of its predecessor (`MCMultiRunReturn.cfg`). A run that
is gone or evicted then stays so (`OverStays`), which makes `RunOnce` inductive: what the
master, the ranks and the adapters hold under an index is its run, or one that is over
(`RunAdapters`); what is received, buffered or packed under it is a valid sample of the batch
the run wrote for that step (`RunBatches`); and the trained steps are behind the packer's
step by the flag that is up (`RunCounts`), so that each optimizer step trains the next step
of every ready run and each broadcast announces it.

The queue of the round robin is the joined buffers (`FlattenSeq`, a recursion): `InTurnIs`
says that it holds waiting samples only, `TokensWait` that it is not empty when tokens are
counted, `Selected` that a pack is never empty and stays within the budget, and
`PackedSamples` that what it leaves in each buffer is a suffix.

That an optimizer step uses its whole batch (`UpdatesAreWhole`) is a conservation law. For
every step of a run from the one it is at (`Current`) to the last one received, the tokens
in the gradients of its index, in the step that is packed and in its buffer add up to the
batch the run wrote (`RunTokens`); only the batch that is in the inbox is not counted yet.
`SumsBuffer` has the batch enter the buffer whole or the run evicted, `SumsPack` moves
tokens from the buffer to the pack: what a pack takes of a buffer is a prefix of it that
goes out in one piece (`PackTakes`), since an index has one turn in the queue
(`TurnsDiffer`). `SumsTrain` moves them to the gradients, or takes the gradients when the
step is complete, of which nothing is left in the buffer then (`CompleteSteps`). The law
needs to know that gradients are of the current step only and that a batch arrives when
nothing of its step is there (`RunProgress`), and that gradients of another run under the
index are of a run that is over (`RunOwners`). They are not counted, and they do mix with
the next run's (`MCMultiRunGrad.cfg`).

### Sums

The counters are compared with folds of the community modules, which are recursive
functions over sets. `SumIsTotal` shows what such a fold computes, for every finite set:
the number of points under the graph of the weights. In place of induction it takes a
minimal counterexample, which the well-foundedness of `<` on the naturals gives. Sums
of unions, changes of one weight, maxima and minima follow from the library's facts
about cardinality. The last part is about sequences that hold nothing twice: what
appending, joining, cutting and removing do to their sets, and where each of the joined
sequences lies in the flattened one (`FlattenedBlock`).

### Only model-checked

All liveness properties (fairness and `ENABLED` are beyond the installed provers); in
`PolicyLoop` the resumes at "latest" and "agreed", where `StepsCoordinated` does not hold
in general (`MCPolicyLoopRace.cfg`).

## 6. Not modelled

Inside modelled components: a broken TCP connection under the REQ/REP pair (the
code has no resend, and the receiver then waits for ever); malformed messages; HTTP
parsing, request validation and metrics; `UnsupportedEpisodeError`, which ends the
orchestrator; a `CancelledError` raised by an environment itself; a start with a step
already beyond `max_steps` (in `RolloutSinks` only); `SinglePacker`'s checks, the packer's watchdog and the bin
packing of micro batches; the ZMQ transports of training batches; per-run checkpoints
of the multi-run trainer, weight checkpoints and `keep_interval`; a crash inside
`maybe_clean`, between a save and the removal of the old checkpoint (it leaves one
checkpoint more, which the next start knows); what a filter looks at; the pool's
router, client selection by load, and stopping the pool.

Whole components, with the reason in their `not_modelled` entry of `PROJECT.json`:
models, layers, losses, optimizers, SFT, advantage algorithms and value arithmetic are
floating-point tensor code, most of the repository's lines, which TLC cannot evaluate;
the inference server is a set of patches on an external engine; environments and
trajectories wrap an external library and tokenisers; configuration, launcher and
monitoring are declarations, process start-up and logging, whose checks appear as
`ASSUME`s. The NCCL transfer of value weights is a collective of an external library;
`ValueService` models its outcome.

## 7. Plan

1. Per-run checkpoints of the multi-run trainer (`trainer/multi_ckpt.py`) in `MultiRun`.
2. Client selection by load and the pool's exposed set in `Dispatcher`.
