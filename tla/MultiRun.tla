------------------------------ MODULE MultiRun ------------------------------
(***************************************************************************)
(* Several LoRA runs share one trainer.  Every run is a directory run_* an *)
(* orchestrator writes its batches to; the master rank gives it an index   *)
(* (trainer/runs.py), buffers its samples and packs a training step from   *)
(* the runs in round-robin (trainer/rl/packer.py), the ranks synchronise,  *)
(* one optimizer step is taken for the runs whose step is complete, and    *)
(* their weights are broadcast.  Directories appear and vanish at any time.*)
(***************************************************************************)
EXTENDS Integers, FiniteSets, SequencesExt, Functions

CONSTANTS
    Ids,            \* names of run directories
    MaxRuns,        \* max_concurrent_runs: the indices are 0 .. MaxRuns - 1
    SeqLen,         \* longest sample the model takes
    DpWorldSize,    \* data-parallel workers: a step holds SeqLen * DpWorldSize
    Batches,        \* what an orchestrator may write: sequences of lengths
    MaxBatches,     \* bound: batches a run writes
    MaxLives,       \* bound: how often a directory of one name is created
    NoRun           \* an index without a run

ASSUME MultiRunAssumption ==
    /\ MaxRuns \in Nat \ {0} /\ SeqLen \in Nat \ {0} /\ DpWorldSize \in Nat \ {0}
    /\ Batches \subseteq Seq(Nat)
    /\ MaxBatches \in Nat /\ MaxLives \in Nat

VARIABLES
    dir,            \* run directory: "absent", "bare" (no config) or "live"
    life,           \* how many directories of that name there have been
    evicted,        \* control/evicted.txt exists
    wrote,          \* train_rollouts.bin of step 1, 2, ...
    published,      \* the last broadcasts/step_* that was marked STABLE
    tenant,         \* idx_2_id, with the life the master discovered
    progress,       \* progress[idx].step
    ready,          \* ready_to_update
    received,       \* the receiver's _received_steps; 0 is no entry
    buffers,        \* samples per index
    position,       \* _round_robin_position
    bypassed,       \* packs in a row that took nothing of an index with samples
    slept,          \* the packer has slept since it began to wait for tokens
    inbox,          \* batches receive() returned
    packed,         \* micro batches sent: the samples selected
    synced,         \* tenant at the last synchronize_state
    rank,           \* idx_2_id of a rank that is not the master
    adapter,        \* whom the index's parameters and optimizer were set up for
    grad,           \* gradients the index has accumulated
    updates,        \* the optimizer steps just taken
    done,           \* last step an optimizer step was taken for, per run
    phase           \* where the trainer's loop is

disk   == <<dir, life, evicted, wrote, published>>
runs   == <<tenant, progress, received, buffers>>
turn   == <<position, bypassed, slept>>
ranks  == <<synced, rank, adapter>>
runsVars == <<disk, runs, ready, turn, inbox, packed, ranks, grad, updates,
              done, phase>>

Idxs   == 0 .. MaxRuns - 1
Budget == SeqLen * DpWorldSize
Owner(r) == [id |-> r, life |-> life[r]]
Tenants  == [id : Ids, life : 1 .. MaxLives]
UsedIdxs == {i \in Idxs : tenant[i] # NoRun}
SumOf(lens) == MapThenSumSet(LAMBDA k : lens[k], DOMAIN lens)
Lens(samples) == [k \in DOMAIN samples |-> samples[k].len]

Phases == {"discover", "receive", "buffer", "rediscover", "pack", "sync",
           "train", "broadcast", "crashed"}

RunsInit ==
    /\ dir = [r \in Ids |-> "absent"] /\ life = [r \in Ids |-> 0]
    /\ evicted = [r \in Ids |-> FALSE]
    /\ wrote = [r \in Ids |-> <<>>] /\ published = [r \in Ids |-> 0]
    /\ tenant = [i \in Idxs |-> NoRun] /\ progress = [i \in Idxs |-> 1]
    /\ received = [i \in Idxs |-> 0] /\ buffers = [i \in Idxs |-> <<>>]
    /\ ready = [i \in Idxs |-> FALSE]
    /\ position = 0 /\ bypassed = [i \in Idxs |-> 0]
    /\ slept = FALSE /\ inbox = <<>> /\ packed = <<>>
    /\ synced = tenant /\ rank = tenant /\ adapter = tenant
    /\ grad = [i \in Idxs |-> {}] /\ updates = {}
    /\ done = [r \in Ids |-> 0] /\ phase = "discover"

-----------------------------------------------------------------------------
(* The orchestrators, and whoever starts and removes runs. *)

NewDir(r) ==
    /\ dir[r] = "absent" /\ life[r] < MaxLives
    /\ dir' = [dir EXCEPT ![r] = "bare"]
    /\ life' = [life EXCEPT ![r] = @ + 1]
    /\ published' = [published EXCEPT ![r] = 0]
    /\ UNCHANGED <<evicted, wrote>>

WriteConfig(r) ==
    /\ dir[r] = "bare"
    /\ dir' = [dir EXCEPT ![r] = "live"]
    /\ UNCHANGED <<life, evicted, wrote, published>>

(* send: the batch is renamed into place, whole. *)
WriteBatch(r, b) ==
    /\ dir[r] = "live" /\ Len(wrote[r]) < MaxBatches
    /\ wrote' = [wrote EXCEPT ![r] = Append(@, b)]
    /\ UNCHANGED <<dir, life, evicted, published>>

RemoveDir(r) ==
    /\ dir[r] # "absent"
    /\ dir' = [dir EXCEPT ![r] = "absent"]
    /\ evicted' = [evicted EXCEPT ![r] = FALSE]
    /\ wrote' = [wrote EXCEPT ![r] = <<>>]
    /\ UNCHANGED <<life, published>>

Environment ==
    /\ \E r \in Ids : \/ NewDir(r) \/ WriteConfig(r) \/ RemoveDir(r)
                      \/ \E b \in Batches : WriteBatch(r, b)
    /\ UNCHANGED <<runs, ready, turn, inbox, packed, ranks, grad, updates,
                   done, phase>>

-----------------------------------------------------------------------------
(* discover_runs: runs gone from the disk or evicted are forgotten, their  *)
(* buffers and receiver entries with them; then new runs with a valid      *)
(* configuration take the free indices, lowest first, in any order.        *)

Visible   == {r \in Ids : dir[r] # "absent" /\ ~evicted[r]}
Forgotten == {i \in UsedIdxs : tenant[i].id \notin Visible}
Unused    == (Idxs \ UsedIdxs) \cup Forgotten
Newcomers == {r \in Visible : dir[r] = "live" /\
                              \A i \in UsedIdxs : tenant[i].id # r}

Admissions ==
    LET n    == Min({Cardinality(Newcomers), Cardinality(Unused)})
        Taken == {i \in Unused : Cardinality({j \in Unused : j < i}) < n}
    IN {f \in [Taken -> Newcomers] : IsInjective(f)}

discover_runs ==
    \E f \in Admissions :
        LET Gone == Forgotten \ DOMAIN f
        IN /\ tenant' = [i \in Idxs |-> IF i \in DOMAIN f THEN Owner(f[i])
                                        ELSE IF i \in Gone THEN NoRun ELSE tenant[i]]
           /\ progress' = [i \in Idxs |-> IF i \in DOMAIN f \cup Gone THEN 1
                                          ELSE progress[i]]
           /\ received' = [i \in Idxs |-> IF i \in Forgotten THEN 0 ELSE received[i]]
           /\ buffers' = [i \in Idxs |-> IF i \in Forgotten THEN <<>> ELSE buffers[i]]
           /\ bypassed' = [i \in Idxs |-> IF i \in Forgotten THEN 0 ELSE bypassed[i]]

Discover ==
    /\ phase \in {"discover", "rediscover"}
    /\ discover_runs
    /\ phase' = IF phase = "discover" THEN "receive" ELSE "pack"
    /\ UNCHANGED <<disk, ready, position, slept, inbox, packed, ranks, grad, updates, done>>

(* receive: the next batch of every run that is not waiting for its update. *)
ReceivedStep(i) == IF received[i] = 0 THEN progress[i] ELSE received[i]
HasBatch(i) == /\ ~ready[i]
               /\ ReceivedStep(i) <= Len(wrote[tenant[i].id])

(* The indices of S, ascending; there is one such sequence. *)
Ascending(S) == {s \in SetToSeqs(S) : \A j, k \in DOMAIN s : j < k => s[j] < s[k]}

BatchOf(i) == [idx |-> i, step |-> ReceivedStep(i), by |-> Owner(tenant[i].id),
               lens |-> wrote[tenant[i].id][ReceivedStep(i)]]

Receive ==
    /\ phase = "receive"
    /\ LET Got == {i \in UsedIdxs : HasBatch(i)}
       IN /\ \E order \in Ascending(Got) : inbox' = [k \in DOMAIN order |-> BatchOf(order[k])]
          /\ received' = [i \in Idxs |->
                             IF i \in Got THEN ReceivedStep(i) + 1
                             ELSE IF i \in UsedIdxs THEN ReceivedStep(i)
                             ELSE received[i]]
    /\ phase' = "buffer"
    /\ UNCHANGED <<disk, tenant, progress, buffers, ready, turn, packed, ranks,
                   grad, updates, done>>

(* _validate_sample: a sample must hold tokens, and no more than SeqLen. *)
Valid(len) == len > 0 /\ len <= SeqLen

(* _get_batch: the samples before the first invalid one are buffered, and  *)
(* the run is evicted for an invalid sample or an empty batch.  Writing    *)
(* evicted.txt recreates a directory that was removed meanwhile.           *)
Accepted(batch) ==
    LET n == Max({k \in 0 .. Len(batch.lens) :
                    \A j \in 1 .. k : Valid(batch.lens[j])})
    IN [k \in 1 .. n |-> [len |-> batch.lens[k], step |-> batch.step, by |-> batch.by]]
Bad(batch) == Len(batch.lens) = 0 \/ Len(Accepted(batch)) < Len(batch.lens)

Buffer ==
    /\ phase = "buffer"
    /\ LET Of(i)  == {k \in DOMAIN inbox : inbox[k].idx = i}
           Out    == {inbox[k].idx : k \in {m \in DOMAIN inbox : Bad(inbox[m])}}
           OutIds == {tenant[i].id : i \in Out}
       IN /\ buffers' = [i \in Idxs |->
                            IF Of(i) = {} THEN buffers[i]
                            ELSE buffers[i] \o Accepted(inbox[CHOOSE k \in Of(i) : TRUE])]
          /\ evicted' = [r \in Ids |-> evicted[r] \/ r \in OutIds]
          /\ dir' = [r \in Ids |-> IF r \in OutIds /\ dir[r] = "absent"
                                   THEN "bare" ELSE dir[r]]
    /\ inbox' = <<>> /\ phase' = "rediscover"
    /\ UNCHANGED <<life, wrote, published, tenant, progress, received, ready,
                   turn, packed, ranks, grad, updates, done>>

-----------------------------------------------------------------------------
(* pack *)

\* Mutant: samples of later steps as well.
Buffered(i) == buffers[i]
(* The samples of index i that may be packed now. *)
Eligible(i) ==
    LET n == Max({k \in 0 .. Len(buffers[i]) :
                    \A j \in 1 .. k : buffers[i][j].step <= progress[i]})
    IN SubSeq(buffers[i], 1, n)

TokensOf(i) == SumOf(Lens(Eligible(i)))
CountTokens == MapThenSumSet(TokensOf, UsedIdxs)

At(i, s) == [idx |-> i, len |-> s.len, step |-> s.step, by |-> s.by]

(* All eligible samples in the order the round robin meets them. *)
InTurn ==
    LET at(k) == (position + k - 1) % MaxRuns
    IN FlattenSeq([k \in 1 .. MaxRuns |->
          [j \in 1 .. Len(Eligible(at(k))) |-> At(at(k), Eligible(at(k))[j])]])

After(i) == (i + 1) % MaxRuns

(* _select_samples_round_robin: samples that no step could hold are thrown *)
(* away while nothing is selected; then as many are taken as the budget    *)
(* allows, and the position moves past the last index looked into.         *)
Selection(queue) ==
    LET total == [k \in 0 .. Len(queue) |-> SumOf(Lens(SubSeq(queue, 1, k)))]
        dropped == Max({k \in 0 .. Len(queue) : \A j \in 1 .. k : queue[j].len > Budget})
        popped  == Max({k \in dropped .. Len(queue) : total[k] - total[dropped] <= Budget})
        full    == total[popped] - total[dropped] = Budget
        looked  == IF popped = Len(queue) \/ (full /\ popped > 0) THEN popped ELSE popped + 1
    IN [taken    |-> SubSeq(queue, dropped + 1, popped),
        popped   |-> [i \in Idxs |-> Cardinality({k \in 1 .. popped : queue[k].idx = i})],
        position |-> After(queue[looked].idx)]

\* Mutant: the step is over only with the buffer.
OverWhenEmpty(i, rest) == rest = <<>>
\* Mutant: every pack ends the step.
OverAtOnce(i, rest) == TRUE
(* _update_run_progress: the step is over when nothing of it is left. *)
StepOver(i, rest) == rest = <<>> \/ Head(rest).step > progress[i]

Pack ==
    /\ phase = "pack"
    /\ CountTokens > 0
    /\ \E sel \in {Selection(InTurn)} :
       LET Rest(i) == SubSeq(buffers[i], sel.popped[i] + 1, Len(buffers[i]))
           Over   == {i \in {sel.taken[k].idx : k \in DOMAIN sel.taken} : StepOver(i, Rest(i))}
       IN /\ packed' = sel.taken
          /\ buffers' = [i \in Idxs |-> Rest(i)]
          /\ progress' = [i \in Idxs |-> IF i \in Over THEN progress[i] + 1 ELSE progress[i]]
          /\ ready' = [i \in Idxs |-> ready[i] \/ i \in Over]
          /\ position' = sel.position /\ slept' = FALSE
          /\ bypassed' = [i \in Idxs |->
                IF Eligible(i) # <<>> /\ sel.popped[i] = 0 THEN bypassed[i] + 1 ELSE 0]
    /\ phase' = "sync"
    /\ UNCHANGED <<disk, tenant, received, inbox, ranks, grad, updates, done>>

(* Not enough tokens for a full step: the packer sleeps and asks for more  *)
(* batches, but after one sleep the timeout has passed and any token will  *)
(* do.                                                                     *)
WaitForTokens ==
    /\ phase = "pack"
    /\ CountTokens < Budget
    /\ CountTokens = 0 \/ ~slept
    /\ slept' = TRUE /\ phase' = "discover"
    /\ UNCHANGED <<disk, runs, ready, position, bypassed, inbox, packed, ranks, grad,
                   updates, done>>

-----------------------------------------------------------------------------
(* synchronize_state: runs are compared by name with the last synchronised *)
(* ones; hooks reset parameters and optimizer of the new ones.             *)

NamesIn(t)  == {t[i].id : i \in {j \in Idxs : t[j] # NoRun}}
IdxOf(t, r) == CHOOSE i \in Idxs : t[i] # NoRun /\ t[i].id = r

\* Mutant: only indices that were free hold a new run.
AtFreeIdxs == {tenant[i].id : i \in {j \in UsedIdxs : synced[j] = NoRun}}
NewRuns == NamesIn(tenant) \ NamesIn(synced)

Sync ==
    /\ phase = "sync"
    /\ LET Kept    == NamesIn(tenant) \cap NamesIn(rank)
           NewIdx  == {IdxOf(tenant, r) : r \in NewRuns}
           KeptIdx == {IdxOf(rank, r) : r \in Kept}
       IN IF NewIdx \cap KeptIdx # {}   \* unused_idxs.remove raises
          THEN phase' = "crashed" /\ UNCHANGED ranks
          ELSE /\ adapter' = [i \in Idxs |-> IF i \in NewIdx THEN tenant[i] ELSE adapter[i]]
               /\ rank' = [i \in Idxs |-> IF i \in NewIdx THEN tenant[i]
                                          ELSE IF i \in KeptIdx THEN rank[i] ELSE NoRun]
               /\ synced' = tenant
               /\ phase' = "train"
    /\ UNCHANGED <<disk, runs, ready, turn, inbox, packed, grad, updates, done>>

(* The micro batches are run; the gradients of every index are scaled;     *)
(* the optimizers of the complete runs step and their gradients are        *)
(* cleared, while the other runs keep accumulating.                        *)
Contribution(i) ==
    LET mine == {k \in DOMAIN packed : packed[k].idx = i}
    IN IF mine = {} THEN {}
       ELSE {[by |-> packed[Min(mine)].by, step |-> packed[Min(mine)].step,
              tokens |-> MapThenSumSet(LAMBDA k : packed[k].len, mine), times |-> 0]}

Scaled(gs) == {[g EXCEPT !.times = @ + 1] : g \in gs}

Train ==
    /\ phase = "train"
    /\ LET now == [i \in Idxs |-> Scaled(grad[i] \cup Contribution(i))]
           Ready == {i \in Idxs : ready[i]}
       IN /\ grad' = [i \in Idxs |-> IF i \in Ready THEN {} ELSE now[i]]
          /\ updates' = {[idx |-> i, by |-> tenant[i], step |-> progress[i] - 1,
                          grads |-> now[i]] : i \in Ready}
          /\ done' = [r \in Ids |-> IF \E i \in Ready : tenant[i].id = r
                                    THEN progress[IdxOf(tenant, r)] - 1 ELSE done[r]]
    /\ packed' = <<>> /\ phase' = "broadcast"
    /\ UNCHANGED <<disk, runs, ready, turn, inbox, ranks>>

\* Mutant: the step being packed next.
PackedStep(r) == progress[IdxOf(tenant, r)]
(* pack() has already moved progress on to the next step. *)
BroadcastStep(r) == progress[IdxOf(tenant, r)] - 1

\* Mutant: the flag of a run that is gone is not cleared.
ReadyIfGone == [i \in Idxs |-> ready[i] /\ dir[tenant[i].id] = "absent"]
ReadyAfterBroadcast == [i \in Idxs |-> FALSE]

(* broadcast_weights: the runs that are ready get their weights and the    *)
(* STABLE marker; a directory without a config is removed again.           *)
Broadcast ==
    /\ phase = "broadcast"
    /\ LET Out == {r \in Ids : \E i \in UsedIdxs : ready[i] /\ tenant[i].id = r}
       IN /\ published' = [r \in Ids |-> IF r \in Out /\ dir[r] = "live"
                                         THEN BroadcastStep(r) ELSE published[r]]
          /\ dir' = [r \in Ids |-> IF r \in Out /\ dir[r] = "bare" THEN "absent" ELSE dir[r]]
          /\ evicted' = [r \in Ids |-> evicted[r] /\ ~(r \in Out /\ dir[r] = "bare")]
    /\ ready' = ReadyAfterBroadcast
    /\ updates' = {} /\ phase' = "discover"
    /\ UNCHANGED <<life, wrote, runs, turn, inbox, packed, ranks, grad, done>>

Trainer == Discover \/ Receive \/ Buffer \/ Pack \/ WaitForTokens \/ Sync
           \/ Train \/ Broadcast

RunsNext == Environment \/ Trainer

RunsSpec == RunsInit /\ [][RunsNext]_runsVars

(* Weak fairness of the trainer's loop; the environment owes nothing.  The *)
(* loop can take a step in every phase and each of its steps, and no       *)
(* other, changes the phase, so that WF_runsVars(Trainer) is the formula   *)
(* below, which spares TLC the evaluation of ENABLED.                      *)
FairRunsSpec == RunsSpec /\ []<><<phase' # phase>>_runsVars

-----------------------------------------------------------------------------
Samples == [len : Nat, step : Nat, by : Tenants]

(* Every variable has the shape the code gives it.  While indices change   *)
(* hands no run is marked ready: one that is dropped or replaced leaves no *)
(* flag behind for the next (runs.py:296-308 keeps the flag).              *)
RunsTypeOK ==
    /\ dir \in [Ids -> {"absent", "bare", "live"}]
    /\ life \in [Ids -> 0 .. MaxLives] /\ evicted \in [Ids -> BOOLEAN]
    /\ published \in [Ids -> Nat] /\ done \in [Ids -> Nat]
    /\ \A r \in Ids : wrote[r] \in Seq(Batches)
    /\ \A t \in {tenant, synced, rank, adapter} : t \in [Idxs -> Tenants \cup {NoRun}]
    /\ progress \in [Idxs -> Nat \ {0}] /\ received \in [Idxs -> Nat]
    /\ \A i \in Idxs : \A k \in DOMAIN buffers[i] : buffers[i][k] \in Samples
    /\ ready \in [Idxs -> BOOLEAN] /\ slept \in BOOLEAN /\ position \in Idxs /\ phase \in Phases
    /\ \A i \in Idxs : ready[i] => phase \in {"sync", "train", "broadcast", "crashed"}

(* The packer's own two assertions hold, a step never goes out empty and   *)
(* the samples of one run in it are of a single step, although any sample  *)
(* with step <= progress is eligible and several batches of one run may be *)
(* buffered (packer.py:294, 306).  No sample of a batch that got its run   *)
(* evicted goes out, not even those buffered before the invalid one was    *)
(* met (packer.py:195-203).                                                *)
StepsAreSound ==
    /\ \A k \in DOMAIN packed :
          LET t == tenant[packed[k].idx]
          IN /\ t # NoRun
             /\ wrote[t.id] # <<>> =>
                   \A len \in Range(wrote[t.id][packed[k].step]) : Valid(len)
    /\ phase \in {"sync", "train"} =>
          /\ packed # <<>>
          /\ \A j, k \in DOMAIN packed :
                packed[j].idx = packed[k].idx => packed[j].step = packed[k].step
          /\ SumOf(Lens(packed)) <= Budget

(* The optimizer step of a run uses the gradients of its whole batch, over *)
(* however many packs it was spread (packer.py:265-275).                   *)
UpdatesAreWhole ==
    \A u \in updates :
        wrote[u.by.id] # <<>> =>
            MapThenSumSet(LAMBDA g : g.tokens, {g \in u.grads : g.by = u.by})
                = SumOf(wrote[u.by.id][u.step])

(* A step is sound when it is packed, and whole when it is trained.        *)
StepsAreWhole == StepsAreSound /\ UpdatesAreWhole

(* When a step is trained every rank has the master's indices, and each    *)
(* index's parameters and optimizer were set up for the run it trains      *)
(* (runs.py:395-462).                                                      *)
AdaptersMatchRuns ==
    phase \in {"train", "broadcast"} =>
        \A i \in Idxs :
            /\ (rank[i] = NoRun) <=> (tenant[i] = NoRun)
            /\ tenant[i] # NoRun => rank[i].id = tenant[i].id /\ adapter[i] = tenant[i]

(* The gradients an optimizer step uses come from samples of its own run,  *)
(* not from the run that held the index before.                            *)
GradientsAreOwn == \A u \in updates : \A g \in u.grads : g.by = u.by

(* Each gradient is rescaled once before it is used, so that the step is   *)
(* the mean over the batch.                                                *)
GradientsScaledOnce == \A u \in updates : \A g \in u.grads : g.times = 1

Ledger == INSTANCE RunLedger

(* Steps are trained in order, each once, and announced after training. *)
LedgerSpec == [][Ledger!Next]_Ledger!vars

(* The round robin is fair: a run with samples for its current step is     *)
(* passed over fewer times in a row than there are indices.                *)
BoundedBypass == \A i \in Idxs : bypassed[i] < MaxRuns

(* Every batch a run writes is trained on, unless the run is removed or    *)
(* evicted: no flag, step counter or buffer is left in a state in which    *)
(* the receiver waits for a batch that will not come.                      *)
EveryBatchIsTrained ==
    \A r \in Ids : \A s \in 1 .. MaxBatches :
        (Len(wrote[r]) >= s) ~> (done[r] >= s \/ dir[r] # "live" \/ evicted[r])
=============================================================================
