---------------------------- MODULE ValueTrainer ----------------------------
(***************************************************************************)
(* The loop of the value trainer's rank 0, around the replay buffer of     *)
(* module ValueReplay: with a dedicated evaluator                          *)
(* (src/prime_rl/value/train.py) it admits, samples, updates and           *)
(* publishes; placed in the trainer (src/prime_rl/value/colocated.py) it   *)
(* also serves the evaluation requests, one batch between two updates.     *)
(* The other ranks follow its commands in step and keep no state of their  *)
(* own that differs.                                                       *)
(*                                                                         *)
(* Of the request service the loop sees a FIFO queue; module ValueService  *)
(* has its threads, deadlines and counters.  A batch is the set of its     *)
(* entry ids.                                                              *)
(***************************************************************************)
EXTENDS Integers, FiniteSets, Sequences, FiniteSetsExt, SequencesExt

CONSTANTS
    BatchSize, Capacity, RefillSize, MaxUpdates, Rollouts, NumSamples, NumTokens,
    MaxAdmitted,          \* of ValueReplay
    Placements,           \* values of evaluator.placement: "trainer", "dedicated"
    MaxSteps,             \* value_function.max_steps; beyond MaxAdmitted it is never reached
    ResumeSteps,          \* versions the run may start from: 0, or one that was saved
    CkptInterval,         \* ckpt.interval
    Clients               \* requests that may be pending at once

ASSUME TrainerAssumption ==
    /\ BatchSize \in Nat \ {0} /\ BatchSize <= RefillSize
    /\ RefillSize \in Nat /\ Capacity \in Nat /\ RefillSize <= Capacity
    /\ MaxUpdates \in Nat \ {0} /\ MaxAdmitted \in Nat
    /\ NumSamples \in [Rollouts -> Nat \ {0}] /\ NumTokens \in [Rollouts -> Nat]
    /\ Placements \subseteq {"trainer", "dedicated"}
    /\ MaxSteps \in Nat
    /\ ResumeSteps \subseteq Nat
    /\ CkptInterval \in Nat \ {0}

VARIABLES
    entries, rollout, attempts, nextEntryId, ready, samples, tokens,
    totalAttempts, retired, evicted, batch,     \* of ValueReplay
    placement,        \* evaluator.placement
    loop,             \* where the loop is
    slice,            \* received rollouts that are still to be added
    pending,          \* pending_batch
    training,         \* the batch of the train command
    lastOperation,    \* last_operation
    serveOnly,        \* serve_only
    version, saved,   \* progress.step; _last_checkpoint_version
    served,           \* the version that was published, or given to the service
    queue, taken,     \* requests in the service's queue, and in the active batch
    closed,           \* the service has been closed
    runDone,          \* the launcher has written run_done_file
    waited            \* history: inference batches run while an update was possible

replayVars == <<entries, rollout, attempts, nextEntryId, ready, samples, tokens,
                totalAttempts, retired, evicted, batch>>
serviceVars == <<queue, taken, closed>>
runtimeVars == <<placement, version, saved, served>>
vars == <<replayVars, serviceVars, runtimeVars, loop, slice, pending, training, lastOperation,
          serveOnly, runDone, waited>>

Colocated == placement = "trainer"

Replay == INSTANCE ValueReplay

MaxStepsReached == version >= MaxSteps

\* can_sample as choose_next_operation sees it, or a reserved batch.
HasTraining == pending # {} \/ (~serveOnly /\ Replay!CanSample)
-----------------------------------------------------------------------------
\* The runtime is new or resumed; the replay is empty in both cases.
Init ==
    /\ Replay!Init
    /\ placement \in Placements
    /\ loop = "top" /\ slice = 0 /\ pending = {} /\ training = {}
    /\ lastOperation = "none"
    /\ version \in ResumeSteps /\ saved = version /\ served = version
    /\ serveOnly = MaxStepsReached
    /\ queue = << >> /\ taken = {} /\ closed = FALSE
    /\ runDone = FALSE /\ waited = 0

\* admit_available_rollouts: what the receiver returns, within the limit that is
\* read before the first rollout is added.
Receive(next) ==
    /\ slice' \in 0 .. Min({Replay!AdmissionLimit, MaxAdmitted - nextEntryId})
    /\ loop' = next

Add(r) ==
    /\ loop \in {"fill", "top up"} /\ slice > 0
    /\ Replay!Add(r)
    /\ slice' = slice - 1
    /\ UNCHANGED <<loop, pending, training, lastOperation, serveOnly, serviceVars, runtimeVars, runDone, waited>>
-----------------------------------------------------------------------------
(***************************************************************************)
(* The update.                                                             *)
(***************************************************************************)
\* Mutants: the last step is not saved by itself; only the last one is.
IntervalOnly(v) == v % CkptInterval = 0
LastOnly(v) == v >= MaxSteps

\* _checkpoint_if_due, at version v.
CheckpointDue(v) == v % CkptInterval = 0 \/ v >= MaxSteps

SavedAfter(v) == IF CheckpointDue(v) THEN v ELSE saved

\* publish, or set_version.
Announce == served' = version'

\* prepare_batch and step on the batch of the command.  A batch without a
\* trainable token is dropped; can_step is false, and the batch would stay
\* prepared, if the last step had been made.
Train ==
    /\ loop = "train"
    /\ \/ /\ ~MaxStepsReached
          /\ version' = version + 1 /\ Announce
          /\ saved' = SavedAfter(version')
          /\ UNCHANGED placement
       \/ UNCHANGED runtimeVars
    /\ training' = {}
    /\ lastOperation' = "train" /\ waited' = 0
    /\ loop' = "top"
    /\ UNCHANGED <<replayVars, slice, pending, serveOnly, serviceVars, runDone>>

\* Mutant: the last version counts as saved if there has been any checkpoint.
NothingToSave == saved > 0

\* finish: whether the final version is already on disk.
FinalIsSaved == version = 0 \/ saved = version

Finish ==
    /\ loop = "finish"
    /\ saved' = IF FinalIsSaved THEN saved ELSE version
    /\ loop' = "done"
    /\ UNCHANGED <<replayVars, slice, pending, training, lastOperation, serveOnly, serviceVars,
                   placement, version, served, runDone, waited>>

\* The policy run is over.
RunDone ==
    /\ ~runDone
    /\ runDone' = TRUE
    /\ UNCHANGED <<replayVars, loop, slice, pending, training, lastOperation, serveOnly, serviceVars,
                   runtimeVars, waited>>
-----------------------------------------------------------------------------
(***************************************************************************)
(* train_value: the dedicated loop.                                        *)
(***************************************************************************)
BroadcastBatch ==
    /\ ~Colocated /\ loop = "top" /\ ~MaxStepsReached /\ ~runDone
    /\ Receive("fill")
    /\ UNCHANGED <<replayVars, pending, training, lastOperation, serveOnly, serviceVars, runtimeVars, runDone, waited>>

SampleAfterFill ==
    /\ ~Colocated /\ loop = "fill" /\ slice = 0
    /\ \/ /\ Replay!CanSample
          /\ \E S \in Replay!Batches : Replay!Sample(S) /\ training' = S
          /\ loop' = "train"
       \/ /\ ~Replay!CanSample
          /\ loop' = "top"
          /\ UNCHANGED <<replayVars, training>>
    /\ UNCHANGED <<slice, pending, lastOperation, serveOnly, serviceVars, runtimeVars, runDone, waited>>

LoopEnds ==
    /\ ~Colocated /\ loop = "top" /\ (MaxStepsReached \/ runDone)
    /\ loop' = "finish"
    /\ UNCHANGED <<replayVars, slice, pending, training, lastOperation, serveOnly, serviceVars,
                   runtimeVars, runDone, waited>>
-----------------------------------------------------------------------------
(***************************************************************************)
(* run_colocated.                                                          *)
(***************************************************************************)
\* Mutant: the run is over; the reserved batch is forgotten.
StopAtOnce ==
    /\ Colocated /\ loop = "top" /\ runDone
    /\ closed' = TRUE /\ queue' = << >>
    /\ loop' = "finish"
    /\ UNCHANGED <<replayVars, slice, pending, training, lastOperation, serveOnly, taken, runtimeVars, runDone, waited>>

\* The run is over and nothing is reserved: the service is closed, which fails
\* what is queued, and the ranks are stopped.
Stop ==
    /\ Colocated /\ loop = "top" /\ runDone /\ pending = {}
    /\ closed' = TRUE /\ queue' = << >>
    /\ loop' = "finish"
    /\ UNCHANGED <<replayVars, slice, pending, training, lastOperation, serveOnly, taken, runtimeVars, runDone, waited>>

\* The run is over: the reserved batch becomes the last update.
TrainReserved ==
    /\ Colocated /\ loop = "top" /\ runDone /\ pending # {}
    /\ training' = pending /\ pending' = {}
    /\ loop' = "train"
    /\ UNCHANGED <<replayVars, slice, lastOperation, serveOnly, serviceVars, runtimeVars, runDone, waited>>

ServeOnlyNow == serveOnly \/ MaxStepsReached

\* The head of a round: after the last step the receiver is closed for good; a
\* replay that is filling is fed.
BeginRound ==
    /\ Colocated /\ loop = "top" /\ ~runDone
    /\ serveOnly' = ServeOnlyNow
    /\ IF ~serveOnly' /\ pending = {} /\ ~Replay!CanSample
       THEN Receive("fill")
       ELSE loop' = "choose" /\ UNCHANGED slice
    /\ UNCHANGED <<replayVars, pending, training, lastOperation, serviceVars, runtimeVars, runDone, waited>>

\* Mutant: a full replay is left for the train command to sample from.
ReserveLater ==
    /\ Colocated /\ loop = "fill" /\ slice = 0
    /\ loop' = "choose"
    /\ UNCHANGED <<replayVars, slice, pending, training, lastOperation, serveOnly, serviceVars, runtimeVars, runDone, waited>>

\* A replay that has just filled up gives its batch away at once.
Reserve ==
    /\ Colocated /\ loop = "fill" /\ slice = 0
    /\ \/ Replay!CanSample /\ \E S \in Replay!Batches : Replay!Sample(S) /\ pending' = S
       \/ ~Replay!CanSample /\ UNCHANGED <<replayVars, pending>>
    /\ loop' = "choose"
    /\ UNCHANGED <<slice, training, lastOperation, serveOnly, serviceVars, runtimeVars, runDone, waited>>

\* Mutant: requests always come first.
InferenceFirst == IF queue # << >> THEN "infer" ELSE IF HasTraining THEN "train" ELSE "none"

ChooseNextOperation ==
    IF queue # << >> /\ HasTraining
    THEN IF lastOperation = "infer" THEN "train" ELSE "infer"
    ELSE IF queue # << >> THEN "infer" ELSE IF HasTraining THEN "train" ELSE "none"

Choose ==
    /\ loop = "choose"
    /\ \/ /\ ChooseNextOperation = "infer"
          /\ loop' = "take"
          /\ UNCHANGED <<slice, pending, training>>
       \/ /\ ChooseNextOperation = "train" /\ pending # {}
          /\ loop' = "train" /\ training' = pending /\ pending' = {}
          /\ UNCHANGED slice
       \/ /\ ChooseNextOperation = "train" /\ pending = {}
          /\ Receive("top up")
          /\ UNCHANGED <<pending, training>>
       \/ /\ ChooseNextOperation = "none"
          /\ loop' = "top"
          /\ UNCHANGED <<slice, pending, training>>
    /\ UNCHANGED <<replayVars, lastOperation, serveOnly, serviceVars, runtimeVars, runDone, waited>>

\* A replay that can be sampled is topped up before the batch is drawn.
SampleAfterTopUp ==
    /\ loop = "top up" /\ slice = 0
    /\ \E S \in Replay!Batches : Replay!Sample(S) /\ training' = S
    /\ loop' = "train"
    /\ UNCHANGED <<slice, pending, lastOperation, serveOnly, serviceVars, runtimeVars, runDone, waited>>

\* take_batch: a prefix of the queue, or None if it has emptied since has_queued.
Take ==
    /\ loop = "take" /\ queue # << >>
    /\ \E k \in 1 .. Len(queue) :
          taken' = Range(SubSeq(queue, 1, k)) /\ queue' = SubSeq(queue, k + 1, Len(queue))
    /\ loop' = "infer"
    /\ UNCHANGED <<replayVars, slice, pending, training, lastOperation, serveOnly, closed, runtimeVars, runDone, waited>>

TakeNone ==
    /\ loop = "take" /\ queue = << >>
    /\ loop' = "top"
    /\ UNCHANGED <<replayVars, slice, pending, training, lastOperation, serveOnly, serviceVars, runtimeVars, runDone, waited>>

Infer ==
    /\ loop = "infer"
    /\ taken' = {}
    /\ lastOperation' = "infer"
    /\ waited' = IF HasTraining THEN waited + 1 ELSE 0
    /\ loop' = "top"
    /\ UNCHANGED <<replayVars, slice, pending, training, serveOnly, queue, closed, runtimeVars, runDone>>

\* What an update that raises has done: the weights are new, but the publication or
\* the checkpoint may have failed.  The dedicated trainer publishes and then saves; in
\* the trainer the service is told the version after the checkpoint.
HalfUpdate ==
    /\ loop = "train" /\ ~MaxStepsReached
    /\ version' = version + 1
    /\ served' \in {served, version'} /\ saved' \in {saved, SavedAfter(version')}
    /\ IF Colocated THEN served' = version' => saved' = SavedAfter(version')
                    ELSE saved' # saved => served' = version'
    /\ UNCHANGED placement

\* An operation raises: fail and fail_service answer everybody, and the process ends.
Raise ==
    /\ loop \in {"infer", "train", "finish"}
    /\ HalfUpdate \/ UNCHANGED runtimeVars
    /\ taken' = {} /\ queue' = << >> /\ closed' = TRUE
    /\ loop' = "raised"
    /\ UNCHANGED <<replayVars, slice, pending, training, lastOperation, serveOnly, runDone, waited>>
-----------------------------------------------------------------------------
\* An HTTP thread queues its request; its deadline withdraws a queued one.
Submit(c) ==
    /\ Colocated /\ ~closed /\ c \notin Range(queue) \cup taken
    /\ queue' = Append(queue, c)
    /\ UNCHANGED <<replayVars, taken, closed, loop, slice, pending, training, lastOperation, serveOnly,
                   runtimeVars, runDone, waited>>

Withdraw(c) ==
    /\ c \in Range(queue)
    /\ queue' = RemoveFirst(queue, c)
    /\ UNCHANGED <<replayVars, taken, closed, loop, slice, pending, training, lastOperation, serveOnly,
                   runtimeVars, runDone, waited>>

Loop ==
    \/ \E r \in Rollouts : Add(r)
    \/ BroadcastBatch \/ SampleAfterFill \/ LoopEnds
    \/ Stop \/ TrainReserved \/ BeginRound \/ Reserve \/ Choose \/ SampleAfterTopUp
    \/ Take \/ TakeNone \/ Infer \/ Train \/ Finish

Next == Loop \/ Raise \/ RunDone \/ \E c \in Clients : Submit(c) \/ Withdraw(c)

Spec == Init /\ [][Next]_vars

\* The loop runs; has_queued drops what has expired just before take_batch looks,
\* so it cannot find the queue emptied every time.  Nothing is assumed of
\* arrivals, of requests, of deadlines or of the policy run.
FairSpec == Spec /\ WF_vars(Loop) /\ SF_vars(Take)
-----------------------------------------------------------------------------
(***************************************************************************)
(* Properties.                                                             *)
(***************************************************************************)
\* Every variable keeps its type, also those of the replay that the loop drives;
\* whoever asks for the version, or gets values, gets the one just trained; and a
\* possible update waits for at most one inference batch, whatever the stream of
\* requests.
TypeOK ==
    /\ Replay!TypeOK
    /\ placement \in Placements
    /\ loop \in {"top", "fill", "top up", "choose", "take", "infer", "train", "finish", "done", "raised"}
    /\ slice \in 0 .. BatchSize
    /\ pending \cup training \subseteq Replay!Issued
    /\ lastOperation \in {"none", "infer", "train"}
    /\ {serveOnly, closed, runDone} \subseteq BOOLEAN
    /\ version \in Nat /\ saved \in 0 .. version /\ served \in 0 .. version
    /\ Range(queue) \cup taken \subseteq Clients
    /\ loop \in {"top", "choose", "take", "infer", "done"} => served = version
    /\ waited <= 1

\* With one update per rollout no rollout is displaced before it was trained on:
\* the loop never admits more between two samples than the sample takes out, and
\* a full replay is reserved before inference gives new arrivals time to come.
\* And every batch that is sampled can be stepped: the last step is never made
\* while another batch waits in hand, also not the one reserved before the policy
\* run ended.  prepare_batch would raise on the batch after it.
NothingInVain ==
    /\ MaxUpdates = 1 => evicted = 0
    /\ pending # {} \/ loop = "train" => ~MaxStepsReached

\* Wherever the process dies, with whatever version it was resumed from, it repeats at
\* most ckpt.interval updates, and that many only if the checkpoint itself failed: between
\* two operations fewer are unsaved, none after the last step, and none when the process
\* has ended in order (_checkpoint_if_due and finish).
LittleIsLost ==
    /\ version - saved <= CkptInterval
    /\ loop # "raised" => version - saved < CkptInterval
    /\ loop = "done" \/ (loop # "raised" /\ MaxStepsReached) => saved = version

\* Neither side starves the other: a reserved batch is trained on, also after the
\* policy run has ended and under an endless stream of requests, unless the process
\* fails; and a queued request is taken or answered however many updates are possible.
NobodyStarves ==
    /\ pending # {} ~> (pending = {} \/ loop = "raised")
    /\ \A c \in Clients : (c \in Range(queue)) ~> (c \notin Range(queue))
=============================================================================
