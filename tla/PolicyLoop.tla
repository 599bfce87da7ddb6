----------------------------- MODULE PolicyLoop -----------------------------
(***************************************************************************)
(* The asynchronous loop of one RL run and its restarts.  The orchestrator *)
(* ships the batch of each step and checkpoints its progress, the trainer  *)
(* trains it, broadcasts the weights and checkpoints, the weight watcher   *)
(* has the inference servers adopt the broadcast, and the dispatch gate    *)
(* keeps the orchestrator near the trainer.  The job may be killed at any  *)
(* point and launched again from a checkpoint.  Weights travel through the *)
(* filesystem, or by a collective that both sides must join (NCCL).        *)
(***************************************************************************)
EXTENDS Integers, FiniteSetsExt

CONSTANTS
    MaxSteps,       \* max_steps of the configuration
    Interval,       \* ckpt.interval of both processes
    KeepLast,       \* ckpt.keep_last of the trainer
    Modes,          \* configurations of the broadcast and the dispatcher, see mode
    MaxCrashes,     \* bound: how often the job is killed
    Resumes         \* how it is launched again: "step" names one, "latest" is -1,
                    \* "agreed" is -1 while both have the same latest checkpoint

ASSUME PolicyLoopAssumption ==
    /\ MaxSteps \in Nat \ {0} /\ Interval \in Nat \ {0} /\ KeepLast \in Nat \ {0}
    /\ Modes \subseteq [nccl : BOOLEAN, surplus : Nat] /\ MaxCrashes \in Nat
    /\ Resumes \subseteq {"step", "latest", "agreed"}

VARIABLES
    mode,       \* the configuration: nccl, if weight_broadcast.type = "nccl"; surplus,
                \* the batches that rollouts in flight at a closing gate can fill
    sent,       \* rollouts/step_*: the life that wrote the batch, or 0
    bcast,      \* broadcasts/step_*: the life that marked it STABLE, or 0
    ready,      \* steps whose broadcast directory holds NCCL_READY
    tckpt,      \* the trainer's checkpoints/step_*
    ockpt,      \* the orchestrator's checkpoints/step_*
    toml,       \* ckpt.resume_step in run_default/control/orch.toml, or Absent
    job,        \* "running", "crashed" or "failed" (a process raised)
    life,       \* which launch this is
    resume,     \* ckpt.resume_step; 0 stands for None
    orch,       \* where the orchestrator's main task is
    ostep,      \* its progress.step: the batch being collected
    version,    \* policy.version: what the servers run
    credit,     \* batches that can still be filled behind a closed gate
    loading,    \* the broadcast the watcher is having adopted, or 0
    trn,        \* where the trainer is
    tstep,      \* its progress.step
    known,      \* the ckpt_steps its checkpoint manager keeps track of
    rstep,      \* progress[0].step of its run: the next batch to take
    astray      \* history: the orch.toml it found its run by was another launch's,
                \* and names another resume point than this one's

disk     == <<sent, bcast, ready, tckpt, ockpt, toml>>
launch   == <<job, life, resume, mode>>
orchVars == <<orch, ostep, version, credit, loading>>
trnVars  == <<trn, tstep, known, rstep, astray>>
vars     == <<disk, launch, orchVars, trnVars>>

Nccl    == mode.nccl
Surplus == mode.surplus

Steps == 1 .. MaxSteps
None  == [s \in Steps |-> "none"]
Absent == -2
Dirs(ckpt)   == {s \in Steps : ckpt[s] # "none"}
(* resolve_latest_ckpt_step: any directory counts; 0 stands for None. *)
Latest(ckpt) == Max(Dirs(ckpt) \cup {0})

Init ==
    /\ mode \in Modes
    /\ sent = [s \in Steps |-> 0] /\ bcast = sent /\ ready = {}
    /\ tckpt = None /\ ockpt = None /\ toml = Absent
    /\ job = "running" /\ life = 1 /\ resume = 0
    /\ orch = "start" /\ ostep = 1 /\ version = 0 /\ credit = Surplus /\ loading = 0
    /\ trn = "start" /\ tstep = 1 /\ known = {} /\ rstep = 1 /\ astray = FALSE

-----------------------------------------------------------------------------
(* The launcher *)

(* A process raised: the launcher ends the job. *)
Fail == job' = "failed" /\ UNCHANGED <<life, resume, mode>>

(* The job is killed.  An orchestrator that is interrupted rather than     *)
(* killed still writes its last checkpoint (start's finally block).        *)
Crash ==
    /\ job = "running" /\ life <= MaxCrashes /\ trn # "end"
    /\ ockpt' \in {ockpt} \cup
         {[ockpt EXCEPT ![s] = "full"] :
            s \in {t \in Steps : t = ostep - 1 /\ orch \in {"collect", "save", "drain"}}}
    /\ job' = "crashed"
    /\ orch' = "down" /\ ostep' = 1 /\ version' = 0 /\ credit' = Surplus /\ loading' = 0
    /\ trn' = "down" /\ tstep' = 1 /\ known' = {} /\ rstep' = 1 /\ astray' = FALSE
    /\ UNCHANGED <<sent, bcast, ready, tckpt, toml, life, resume, mode>>

\* Mutant: only the rollouts are cleaned.
CleanRollouts(n) ==
    /\ sent' = [s \in Steps |-> IF s > n THEN 0 ELSE sent[s]]
    /\ UNCHANGED <<bcast, ready>>
(* clean_future_steps *)
clean_future_steps(n) ==
    /\ sent'  = [s \in Steps |-> IF s > n THEN 0 ELSE sent[s]]
    /\ bcast' = [s \in Steps |-> IF s > n THEN 0 ELSE bcast[s]]
    /\ ready' = {s \in ready : s <= n}

Relaunch(n) ==
    /\ job = "crashed"
    /\ job' = "running" /\ life' = life + 1 /\ resume' = n
    /\ orch' = "start" /\ trn' = "start"
    /\ UNCHANGED <<mode, ostep, version, credit, loading, tstep, known, rstep, astray>>

(* The steps both processes have a checkpoint of. *)
Common == {s \in Steps : tckpt[s] = "full" /\ ockpt[s] = "full"}

(* Resuming at an earlier step removes later broadcasts and leaves the     *)
(* checkpoints of those steps; they are not named for a second resume.     *)
WeightsKept(n) == Nccl \/ n \in {0} \cup {s \in Steps : bcast[s] # 0}

ResumeStep ==
    \E n \in {s \in Common : WeightsKept(s)} :
        /\ "step" \in Resumes /\ n < MaxSteps
        /\ Relaunch(n) /\ clean_future_steps(n)
        /\ UNCHANGED <<tckpt, ockpt, toml>>

Agreed == /\ Latest(tckpt) = Latest(ockpt)
          /\ Latest(tckpt) \in Common \cup {0} /\ WeightsKept(Latest(tckpt))

ResumeLatest ==
    /\ "latest" \in Resumes \/ ("agreed" \in Resumes /\ Agreed)
    /\ Latest(tckpt) < MaxSteps
    /\ Relaunch(-1) /\ clean_future_steps(Latest(tckpt))
    /\ UNCHANGED <<tckpt, ockpt, toml>>

(* validate_output_dir refuses a directory with trainer checkpoints unless *)
(* clean_output_dir removes everything first.  Only that removes orch.toml.*)
StartOver ==
    /\ Relaunch(0) /\ clean_future_steps(0)
    /\ \/ Dirs(tckpt) = {} /\ UNCHANGED <<tckpt, ockpt, toml>>
       \/ tckpt' = None /\ ockpt' = None /\ toml' = Absent

Launcher == ResumeStep \/ ResumeLatest \/ StartOver

-----------------------------------------------------------------------------
(* The orchestrator *)

OrchFrom == IF resume = -1 THEN Latest(ockpt) ELSE resume

(* The first act of setup: the resolved configuration goes to orch.toml. *)
OrchWrite ==
    /\ job = "running" /\ orch = "start"
    /\ toml' = resume /\ orch' = "setup"
    /\ UNCHANGED <<sent, bcast, ready, tckpt, ockpt, launch, ostep, version, credit,
                   loading, trnVars>>

(* setup: load the checkpoint and have the servers load its weights. *)
OrchStart ==
    /\ job = "running" /\ orch = "setup"
    /\ \/ /\ OrchFrom = 0
          /\ ostep' = 1 /\ version' = 0 /\ orch' = "collect" /\ UNCHANGED launch
       \/ /\ OrchFrom > 0 /\ ockpt[OrchFrom] = "full" /\ Nccl
          /\ ostep' = OrchFrom + 1 /\ orch' = "receive" /\ UNCHANGED <<version, launch>>
       \/ /\ OrchFrom > 0 /\ ockpt[OrchFrom] = "full" /\ ~Nccl /\ bcast[OrchFrom] # 0
          /\ ostep' = OrchFrom + 1 /\ version' = OrchFrom
          /\ orch' = "collect" /\ UNCHANGED launch
       \/ /\ OrchFrom > 0
          /\ ockpt[OrchFrom] # "full" \/ (~Nccl /\ bcast[OrchFrom] = 0)
          /\ Fail /\ UNCHANGED <<orch, ostep, version>>
    /\ UNCHANGED <<disk, credit, loading, trnVars>>

\* Mutant: one batch more.
GateTwo == (ostep - 1) - version <= 2
(* update_dispatch_gate, TARGET_LAG = 1 *)
Gate == (ostep - 1) - version <= 1

(* finalize_train_batch: send, advance, checkpoint, drain after the last.  *)
(* Behind a closed gate only rollouts already in flight complete a batch.  *)
Ship ==
    /\ job = "running" /\ orch = "collect" /\ ostep <= MaxSteps
    /\ Gate \/ credit > 0
    /\ sent' = [sent EXCEPT ![ostep] = life]
    /\ ostep' = ostep + 1
    /\ credit' = IF Gate THEN Surplus ELSE credit - 1
    /\ orch' = IF ostep = MaxSteps THEN "drain"
               ELSE IF ostep % Interval = 0 THEN "save" ELSE "collect"
    /\ UNCHANGED <<bcast, ready, tckpt, ockpt, toml, launch, version, loading, trnVars>>

(* CheckpointManager.save: the directory first, the file by replacement. *)
OrchSave ==
    /\ job = "running" /\ orch = "save"
    /\ IF ockpt[ostep - 1] = "none"
       THEN ockpt' = [ockpt EXCEPT ![ostep - 1] = "partial"] /\ UNCHANGED orch
       ELSE ockpt' = [ockpt EXCEPT ![ostep - 1] = "full"] /\ orch' = "collect"
    /\ UNCHANGED <<sent, bcast, ready, tckpt, toml, launch, ostep, version, credit,
                   loading, trnVars>>

\* Mutant: waits for one broadcast more.
RequiresAll == ~Nccl \/ version >= Max({0, MaxSteps - 1})
(* _required_broadcasts_adopted *)
BroadcastsAdopted == ~Nccl \/ version >= Max({0, MaxSteps - 2})

(* main_loop exits once drained; start() writes the final checkpoint. *)
OrchEnd ==
    /\ job = "running" /\ orch = "drain" /\ BroadcastsAdopted
    /\ ockpt' = [ockpt EXCEPT ![ostep - 1] = "full"]
    /\ orch' = "end" /\ loading' = 0
    /\ UNCHANGED <<sent, bcast, ready, tckpt, toml, launch, ostep, version, credit, trnVars>>

-----------------------------------------------------------------------------
(* The weight watcher *)

Newest == Max({s \in Steps : bcast[s] # 0} \cup {0})

Watch ==
    /\ job = "running" /\ orch \in {"collect", "save", "drain"}
    /\ loading = 0 /\ Newest > version
    /\ loading' = Newest
    /\ ready' = IF Nccl THEN ready \cup {Newest} ELSE ready   \* read by nobody otherwise
    /\ UNCHANGED <<sent, bcast, tckpt, ockpt, toml, launch, orch, ostep, version, credit,
                   trnVars>>

(* The servers read the directory; if it is gone the update raises, and    *)
(* with it the orchestrator.                                               *)
Adopt ==
    /\ job = "running" /\ loading # 0 /\ ~Nccl
    /\ IF bcast[loading] # 0 THEN version' = loading /\ UNCHANGED launch
                             ELSE Fail /\ UNCHANGED version
    /\ loading' = 0
    /\ UNCHANGED <<disk, orch, ostep, credit, trnVars>>

-----------------------------------------------------------------------------
(* The trainer *)

TrainerFrom == IF resume = -1 THEN Latest(tckpt) ELSE resume

NextStep == TrainerFrom + 1

(* CheckpointManager.__init__ *)
KnownAtStart == {s \in Dirs(tckpt) : resume > 0 => s <= resume}

TrainerStart ==
    /\ job = "running" /\ trn = "start"
    /\ IF TrainerFrom > 0 /\ tckpt[TrainerFrom] # "full"
       THEN Fail /\ UNCHANGED <<trn, tstep>>
       ELSE /\ tstep' = NextStep /\ UNCHANGED launch
            /\ trn' = IF Nccl /\ TrainerFrom > 0 THEN "resend" ELSE "discover"
    /\ known' = KnownAtStart
    /\ UNCHANGED <<disk, orchVars, rstep, astray>>

(* synchronize_restored_weights meets the orchestrator's update_weights. *)
Resend ==
    /\ job = "running" /\ trn = "resend" /\ orch = "receive"
    /\ trn' = "discover" /\ orch' = "collect" /\ version' = ostep - 1
    /\ UNCHANGED <<disk, launch, ostep, credit, loading, tstep, known, rstep, astray>>

(* The packer finds the run once its orch.toml is there, whichever launch  *)
(* wrote it, and takes the step from the resume point it names: -1 is, in  *)
(* single-run mode, the orchestrator's latest checkpoint directory by now. *)
RunFrom == IF toml = -1 THEN Latest(ockpt) ELSE toml

DiscoverRun ==
    /\ job = "running" /\ trn = "discover" /\ toml # Absent
    /\ rstep' = RunFrom + 1 /\ trn' = "wait" /\ astray' = (toml # resume)
    /\ UNCHANGED <<disk, launch, orchVars, tstep, known>>

PackBatch ==
    /\ job = "running" /\ trn = "wait" /\ rstep \in Steps /\ sent[rstep] # 0
    /\ rstep' = rstep + 1 /\ trn' = "train"
    /\ UNCHANGED <<disk, launch, orchVars, tstep, known, astray>>

(* maybe_clean: the broadcast of two steps ago, unless on the interval. *)
Cleaned(s) == {c \in Steps : c = s - 2 /\ c % Interval # 0}

\* Mutant: only the last broadcast is left out.
OnlyLastUnused == tstep >= MaxSteps
(* The last two NCCL broadcasts have no receiver. *)
BroadcastUnused == tstep >= MaxSteps - 1

(* The optimizer step and the broadcast. *)
TrainStep ==
    /\ job = "running" /\ trn = "train"
    /\ IF Nccl /\ BroadcastUnused THEN trn' = "save" /\ UNCHANGED bcast
       ELSE /\ bcast' = [s \in Steps |-> IF s = rstep - 1 THEN life
                                         ELSE IF ~Nccl /\ s \in Cleaned(rstep - 1) THEN 0
                                         ELSE bcast[s]]
            /\ trn' = IF Nccl THEN "offer" ELSE "save"
    /\ UNCHANGED <<sent, ready, tckpt, ockpt, toml, launch, orchVars, tstep, known, rstep,
                   astray>>

WaitForReady ==
    /\ job = "running" /\ trn = "offer" /\ (rstep - 1) \in ready
    /\ trn' = "send"
    /\ UNCHANGED <<disk, launch, orchVars, tstep, known, rstep, astray>>

(* The collective: the trainer's layers meet the servers' receive. *)
Send ==
    /\ job = "running" /\ trn = "send" /\ loading # 0
    /\ version' = loading /\ loading' = 0 /\ trn' = "save"
    /\ UNCHANGED <<disk, launch, orch, ostep, credit, tstep, known, rstep, astray>>

(* Checkpoint at the interval, and after the last step; DCP writes into    *)
(* the final directory.                                                    *)
SaveDue == tstep % Interval = 0 \/ tstep = MaxSteps

\* Mutant: one checkpoint fewer.
KeepsFewer(ckpts) == {s \in ckpts : Cardinality({t \in ckpts : t >= s}) < KeepLast}
(* The trainer's maybe_clean: the most recent keep_last stay. *)
Kept(ckpts) == {s \in ckpts : Cardinality({t \in ckpts : t >= s}) <= KeepLast}

TrainerSave ==
    /\ job = "running" /\ trn \in {"save", "saving"}
    /\ IF trn = "save" /\ SaveDue
       THEN /\ tckpt' = [tckpt EXCEPT ![tstep] = "partial"]
            /\ trn' = "saving" /\ UNCHANGED <<tstep, known>>
       ELSE /\ IF trn = "save" THEN UNCHANGED <<tckpt, known>>
               ELSE LET saved == known \cup {tstep}
                    IN /\ known' = Kept(saved)
                       /\ tckpt' = [s \in Steps |-> IF s \in saved \ Kept(saved) THEN "none"
                                                    ELSE IF s = tstep THEN "full" ELSE tckpt[s]]
            /\ IF tstep = MaxSteps THEN trn' = "end" /\ UNCHANGED tstep
                                   ELSE trn' = "wait" /\ tstep' = tstep + 1
    /\ UNCHANGED <<sent, bcast, ready, ockpt, toml, launch, orchVars, rstep, astray>>

-----------------------------------------------------------------------------
MainTask == OrchWrite \/ OrchStart \/ Ship \/ OrchSave \/ OrchEnd
Watcher  == Watch \/ Adopt
Trainer  == TrainerStart \/ Resend \/ DiscoverRun \/ PackBatch \/ TrainStep
            \/ WaitForReady \/ Send \/ TrainerSave

Ended == orch = "end" /\ trn = "end"

(* Nothing is left to do; anything else that cannot move is a deadlock. *)
Rest == (Ended \/ job = "failed") /\ UNCHANGED vars

Next == Crash \/ Launcher \/ MainTask \/ Watcher \/ Trainer \/ Rest

Spec == Init /\ [][Next]_vars

(* Every process keeps going, and a killed job is launched again.  Rollouts *)
(* complete a batch while the gate is open; behind a closed gate nothing   *)
(* says that those in flight ever do.                                      *)
FairSpec ==
    /\ Spec /\ WF_vars(OrchWrite \/ OrchStart \/ (Gate /\ Ship) \/ OrchSave \/ OrchEnd)
    /\ WF_vars(Watcher) /\ WF_vars(Trainer) /\ WF_vars(Launcher)

-----------------------------------------------------------------------------
Marks == {"none", "partial", "full"}

(* Every variable has the shape the code gives it, and batches run ahead   *)
(* of the weights the servers hold by two and what was in flight, never    *)
(* more, whatever the order of shipping and adoption.                      *)
TypeOK ==
    /\ mode \in Modes
    /\ sent \in [Steps -> 0 .. MaxCrashes + 1] /\ bcast \in [Steps -> 0 .. MaxCrashes + 1]
    /\ ready \subseteq Steps /\ tckpt \in [Steps -> Marks] /\ ockpt \in [Steps -> Marks]
    /\ toml \in -2 .. MaxSteps /\ astray \in BOOLEAN
    /\ job \in {"running", "crashed", "failed"} /\ life \in 1 .. MaxCrashes + 1
    /\ resume \in -1 .. MaxSteps /\ ostep \in 1 .. MaxSteps + 1
    /\ version \in 0 .. MaxSteps /\ credit \in 0 .. Surplus /\ loading \in 0 .. MaxSteps
    /\ tstep \in Steps /\ known \subseteq Steps /\ rstep \in 1 .. MaxSteps + 1
    /\ job = "running" /\ orch = "collect" => (ostep - 1) - version <= 2 + Surplus

(* The weights the inference servers are told to load are not removed      *)
(* while they load them: two steps of slack are enough (trainer/utils.py,  *)
(* maybe_clean), as long as nothing in flight fills a batch behind the     *)
(* gate.                                                                   *)
LoadedWeightsAreThere == (~Nccl /\ loading # 0) => bcast[loading] # 0

(* The trainer's step and the step of the batch it trains are the same,    *)
(* also after a restart: both are derived separately from checkpoints.     *)
(* And the two sides of a collective are about one step: no marker of      *)
(* another step or an earlier life lets the trainer in alone.  It rests on *)
(* the trainer reading orch.toml no earlier than this launch writes it, or *)
(* on the earlier one naming the same resume point (runs.py:226-240).      *)
StepsCoordinated == ~astray =>
    /\ trn = "wait" => rstep = tstep
    /\ trn \in {"train", "offer", "send", "save", "saving"} => rstep = tstep + 1
    /\ trn = "send" => loading = rstep - 1

(* After a restart nothing past the resume point survives from an earlier  *)
(* life: the trainer takes only batches of this one, unless it has gone by *)
(* an earlier launch's orch.toml, and the servers adopt only this life's   *)
(* broadcasts, which stay on disk while they load them, even then.         *)
NothingStaleAfterResume ==
    /\ trn = "train" /\ ~astray => sent[rstep - 1] = life
    /\ loading # 0 => bcast[loading] \in {0, life}
    /\ LoadedWeightsAreThere

(* Once there is a step both processes can resume from, there always is    *)
(* one: the trainer's cleaning, which knows nothing of the orchestrator's  *)
(* checkpoints, and a save that is killed half-way never take the last of  *)
(* them.  Only starting over does (trainer/ckpt.py:307-339), or a trainer  *)
(* whose steps are not the orchestrator's because it has gone astray.      *)
ResumePointKept ==
    [][Common # {} /\ ~astray => Common' # {} \/ (life' # life /\ resume' = 0)]_vars

(* However the gate, the handshake and the exit conditions interleave, and *)
(* after a restart from a checkpoint, both processes come to their end, as *)
(* long as no launch's trainer goes by the orch.toml of an earlier one.    *)
RunCompletes == []~astray => <>Ended

(* The trainer's progress on its run is set "to match orchestrator         *)
(* behavior" (runs.py:279): it starts at the batch the orchestrator does.  *)
MatchesOrchestrator ==
    [][trn = "discover" /\ trn' = "wait" => rstep' = OrchFrom + 1]_vars

(* Both processes resume from the same step. *)
SameResumePoint ==
    (job = "running" /\ orch \in {"start", "setup"} /\ trn = "start") => OrchFrom = TrainerFrom
=============================================================================
