-------------------------- MODULE PolicyLoopProofs --------------------------
(***************************************************************************)
(* Proofs about the loop of one run and its restarts, for any number of    *)
(* steps, interval and crashes, when the job is resumed from a step that   *)
(* is named or started over.  Resuming from "the latest" is left out: the  *)
(* runs show that each process may find another one.                       *)
(*                                                                         *)
(* The two processes share nothing but the disk.  That their steps agree   *)
(* rests on what a life leaves on it: past the resume point there is only  *)
(* what this life wrote (ThisLife), a batch is written before the trainer  *)
(* takes it (TrainerSide), and a collective has at most one broadcast that *)
(* the servers have not adopted (Collective).  A trainer that has gone     *)
(* astray, by the orch.toml of an earlier launch, keeps only the first     *)
(* two, which is enough for the gate and for what the servers load.        *)
(*                                                                         *)
(* The last part is about the elastic pool that adopts what is broadcast.  *)
(***************************************************************************)
EXTENDS PolicyLoop, ElasticPool, Sums

\* The orchestrator is past its setup; the trainer has not found its run yet;
\* the trainer has taken the batch of its step.
Up    == {"collect", "save", "drain", "end"}
Fresh == {"start", "resend", "discover"}
Busy  == {"train", "offer", "send", "save", "saving", "end"}

Shapes ==
    /\ mode \in Modes
    /\ sent \in [Steps -> 0 .. MaxCrashes + 1] /\ bcast \in [Steps -> 0 .. MaxCrashes + 1]
    /\ ready \subseteq Steps /\ tckpt \in [Steps -> Marks] /\ ockpt \in [Steps -> Marks]
    /\ job \in {"running", "crashed", "failed"} /\ life \in 1 .. MaxCrashes + 1
    /\ resume \in 0 .. MaxSteps - 1 /\ ostep \in 1 .. MaxSteps + 1
    /\ version \in 0 .. MaxSteps /\ credit \in 0 .. Surplus /\ loading \in 0 .. MaxSteps
    /\ tstep \in Steps /\ known \subseteq Steps /\ rstep \in 1 .. MaxSteps + 1
    /\ orch \in Up \cup {"start", "setup", "receive", "down"}
    /\ trn \in Fresh \cup {"wait", "down"} \cup Busy
    /\ toml \in {Absent} \cup 0 .. MaxSteps - 1 /\ astray \in BOOLEAN

\* What a process holds before it has set itself up, and after it was killed.
Setup ==
    /\ job = "crashed" => orch = "down" /\ trn = "down" /\ life <= MaxCrashes
    /\ orch = "down" \/ trn = "down" => job = "crashed"
    /\ orch \in {"start", "setup", "receive", "down"} => version = 0 /\ loading = 0 /\ credit = Surplus
    /\ orch \in {"start", "setup", "down"} => ostep = 1
    /\ orch = "receive" => Nccl /\ resume > 0 /\ ostep = resume + 1
    /\ trn \in Fresh \cup {"down"} => rstep = 1 /\ ~astray
    /\ trn \in {"start", "down"} => tstep = 1
    /\ trn \in {"resend", "discover"} => tstep = resume + 1
    /\ trn = "resend" => Nccl

\* The gate: how far batches are ahead of the weights; and which checkpoints
\* the orchestrator has finished.
OrchSide ==
    orch \in Up =>
        /\ ostep > resume /\ version >= resume
        /\ (ostep - 1) - version <= 2 + Surplus - credit
        /\ loading = 0 \/ loading > version
        /\ orch = "collect" => ostep <= MaxSteps
        /\ orch = "save" => ostep > resume + 1 /\ ostep <= MaxSteps
        /\ orch \in {"drain", "end"} => ostep = MaxSteps + 1
        /\ orch = "end" => loading = 0

\* The trainer has only taken what was shipped, and unless it has gone astray
\* its two counters agree.
TrainerSide ==
    /\ trn \in Busy => rstep >= 2 /\ sent[rstep - 1] # 0
    /\ trn \in {"offer", "send"} => Nccl /\ tstep < MaxSteps - 1
    /\ trn = "saving" => SaveDue
    /\ trn = "wait" /\ ~astray => /\ rstep = tstep /\ rstep > resume
                                  /\ rstep = resume + 1 \/ (orch \in Up /\ rstep <= ostep)
    /\ trn \in Busy /\ ~astray => rstep = tstep + 1 /\ rstep > resume + 1 /\ orch \in Up /\ rstep <= ostep

\* Past the resume point the disk holds what this life wrote, and nothing else.
ThisLife ==
    job # "crashed" =>
        \A s \in Steps : s > resume =>
            /\ sent[s] # 0 => sent[s] = life /\ orch \in Up /\ s < ostep
            /\ bcast[s] # 0 => /\ bcast[s] = life /\ trn \in {"wait"} \cup Busy
                               /\ s < rstep /\ (trn = "train" => s < rstep - 1)

\* A collective is about the one broadcast that the servers do not have.
Collective ==
    /\ \A s \in ready : Nccl /\ bcast[s] # 0
    /\ ~astray =>
          /\ Nccl /\ loading # 0 => trn \in {"offer", "send"} /\ loading = rstep - 1
          /\ trn = "offer" => bcast[rstep - 1] # 0 /\ (rstep - 1 \in ready => loading = rstep - 1)
          /\ trn = "send" => loading = rstep - 1
          /\ Nccl /\ orch \in Up =>
                \A s \in Steps : bcast[s] # 0 /\ s > resume =>
                    s <= version \/ (trn \in {"offer", "send"} /\ s = rstep - 1)

IInv == Shapes /\ Setup /\ OrchSide /\ TrainerSide /\ ThisLife /\ Collective

-----------------------------------------------------------------------------
\* The orchestrator has finished the checkpoints of the steps it is past.
OrchSaved ==
    orch \in Up =>
        \A s \in Steps :
            s > resume /\ s % Interval = 0 /\ s < MaxSteps /\ s < ostep =>
                ockpt[s] = "full" \/ (orch = "save" /\ s = ostep - 1)

\* A step both can resume from, with nothing newer among the checkpoints the
\* trainer counts, except the one the orchestrator is just saving.
Anchor(s) ==
    /\ s \in Common /\ s < tstep
    /\ \A t \in known : t > s => orch = "save" /\ t = ostep - 1 /\ tckpt[t] = "full"

Anchored ==
    /\ trn \in {"start", "down"} => known = {}
    /\ trn # "end" /\ ~astray => \A t \in known : t < tstep
    /\ trn = "start" => /\ resume > 0 => resume \in Common
                        /\ resume = 0 => Dirs(tckpt) = {}
    /\ trn \notin {"start", "down", "end"} /\ ~astray =>
          /\ resume = 0 => \A s \in Steps : tckpt[s] = "full" => s < tstep
          /\ resume > 0 \/ Common # {} => \E s \in Steps : Anchor(s)

-----------------------------------------------------------------------------
(* Maxima *)

\* What the watcher finds: the newest broadcast, or none.
LEMMA NewestIs ==
    ASSUME Shapes
    PROVE  /\ Newest \in 0 .. MaxSteps
           /\ Newest # 0 => bcast[Newest] # 0
           /\ \A s \in Steps : bcast[s] # 0 => s <= Newest
<1> DEFINE S == {s \in Steps : bcast[s] # 0} \cup {0}
<1>1. MaxSteps \in Nat /\ S \in SUBSET (0 .. MaxSteps) /\ S # {}
  BY PolicyLoopAssumption DEF Steps
<1> HIDE DEF S
<1>2. Max(S) \in S /\ \A y \in S : Max(S) >= y
  BY <1>1, MaxIsThere
<1>3. Max(S) \in 0 .. MaxSteps
  BY <1>1, <1>2
<1>4. Newest = Max(S)
  BY DEF Newest, S
<1> QED
  BY <1>2, <1>3, <1>4, PolicyLoopAssumption DEF S, Steps

\* The drain over NCCL waits for all broadcasts but the last two.
LEMMA AdoptedMeans ==
    ASSUME Shapes, Nccl, BroadcastsAdopted
    PROVE  version >= MaxSteps - 2
<1>1. MaxSteps - 2 \in Int /\ version \in Int
  BY PolicyLoopAssumption DEF Shapes
<1>2. \E x \in {0, MaxSteps - 2} : \A y \in {0, MaxSteps - 2} : x >= y
  BY <1>1
<1>3. \A y \in {0, MaxSteps - 2} : Max({0, MaxSteps - 2}) >= y
  BY <1>2 DEF Max
<1>4. Max({0, MaxSteps - 2}) \in Int
  BY <1>1, <1>2 DEF Max
<1> QED
  BY <1>1, <1>3, <1>4 DEF BroadcastsAdopted

-----------------------------------------------------------------------------
(* The invariant holds initially and every process preserves it. *)

LEMMA InitIInv == Init => IInv
<1> SUFFICES ASSUME Init PROVE IInv
  OBVIOUS
<1> USE PolicyLoopAssumption DEF Init, Up, Fresh, Busy
<1>1. Shapes
  <2>1. sent \in [Steps -> 0 .. MaxCrashes + 1] /\ tckpt \in [Steps -> Marks]
    BY DEF Marks, None
  <2>2. 1 \in Steps /\ Surplus \in Nat
    BY DEF Surplus, Steps
  <2>3. /\ life \in 1 .. MaxCrashes + 1 /\ resume \in 0 .. MaxSteps - 1 /\ ostep \in 1 .. MaxSteps + 1
        /\ version \in 0 .. MaxSteps /\ credit \in 0 .. Surplus /\ rstep \in 1 .. MaxSteps + 1
    BY <2>2
  <2> QED
    BY <2>1, <2>2, <2>3 DEF Shapes
<1>2. Setup
  BY DEF Setup, Surplus
<1>3. OrchSide /\ TrainerSide /\ ThisLife /\ Collective
  BY DEF OrchSide, TrainerSide, ThisLife, Collective
<1> QED
  BY <1>1, <1>2, <1>3 DEF IInv

\* A crash leaves the disk and takes everything else.
LEMMA CrashIInv ==
    ASSUME IInv, Crash
    PROVE  IInv'
<1>1. Shapes'
  <2>1. ockpt' \in [Steps -> Marks]
    BY DEF IInv, Crash, Shapes, Marks
  <2>2. credit' \in 0 .. Surplus' /\ 1 \in Steps /\ 1 \in 1 .. MaxSteps + 1 /\ 0 \in 0 .. MaxSteps
    BY PolicyLoopAssumption DEF IInv, Crash, Shapes, Surplus, Steps
  <2> QED
    BY <2>1, <2>2 DEF IInv, Crash, Shapes
<1>2. Setup'
  BY DEF IInv, Crash, Shapes, Setup, Surplus, Nccl, Fresh, Up
<1>3. OrchSide' /\ TrainerSide' /\ ThisLife'
  BY DEF Crash, OrchSide, TrainerSide, ThisLife, Up, Busy
<1>4. Collective'
  BY DEF IInv, Crash, Collective, Nccl, Up
<1> QED
  BY <1>1, <1>2, <1>3, <1>4 DEF IInv

\* A new life starts with nothing past its resume point on the disk.
LEMMA LauncherIInv ==
    ASSUME IInv, Resumes \subseteq {"step"}, Launcher
    PROVE  IInv'
<1>1. PICK n \in 0 .. MaxSteps - 1 : Relaunch(n) /\ clean_future_steps(n)
  <2>1. CASE ResumeStep
    BY <2>1, PolicyLoopAssumption DEF ResumeStep, Common, Steps
  <2>2. CASE StartOver
    BY <2>2, PolicyLoopAssumption DEF StartOver
  <2>3. ~ResumeLatest
    BY DEF ResumeLatest
  <2> QED
    BY <2>1, <2>2, <2>3 DEF Launcher
<1>2. /\ tckpt' \in [Steps -> Marks] /\ ockpt' \in [Steps -> Marks]
      /\ toml' \in {Absent} \cup 0 .. MaxSteps - 1
  BY DEF IInv, Shapes, Launcher, ResumeStep, ResumeLatest, StartOver, None, Marks
<1>3. /\ job = "crashed" /\ job' = "running" /\ life' = life + 1 /\ resume' = n
      /\ orch' = "start" /\ trn' = "start"
      /\ UNCHANGED <<mode, ostep, version, credit, loading, tstep, known, rstep, astray>>
  BY <1>1 DEF Relaunch
<1>4. Shapes'
  <2>1. life' \in 1 .. MaxCrashes + 1
    BY <1>3, PolicyLoopAssumption DEF IInv, Shapes, Setup
  <2>2. /\ sent' \in [Steps -> 0 .. MaxCrashes + 1] /\ bcast' \in [Steps -> 0 .. MaxCrashes + 1]
        /\ ready' \subseteq Steps
    BY <1>1, PolicyLoopAssumption DEF IInv, Shapes, clean_future_steps
  <2>3. credit' \in 0 .. Surplus'
    BY <1>3 DEF IInv, Shapes, Surplus
  <2> QED
    BY <1>2, <1>3, <2>1, <2>2, <2>3 DEF IInv, Shapes, Fresh
<1>5. Setup'
  BY <1>3 DEF IInv, Setup, Surplus, Nccl, Fresh
<1>6. OrchSide' /\ TrainerSide'
  BY <1>3 DEF OrchSide, TrainerSide, Up, Busy
<1>7. ThisLife'
  BY <1>1, <1>3 DEF clean_future_steps, ThisLife, Steps
<1>8. Collective'
  <2>1. \A s \in ready' : Nccl' /\ bcast'[s] # 0
    BY <1>1, <1>3 DEF IInv, Shapes, Collective, clean_future_steps, Nccl, Steps
  <2> QED
    BY <1>3, <2>1 DEF IInv, Setup, Collective, Up
<1> QED
  BY <1>4, <1>5, <1>6, <1>7, <1>8 DEF IInv

\* Before it sets up, the orchestrator writes its configuration.
LEMMA OrchWriteIInv ==
    ASSUME IInv, OrchWrite
    PROVE  IInv'
<1>1. /\ job = "running" /\ orch = "start" /\ orch' = "setup" /\ toml' = resume
      /\ UNCHANGED <<sent, bcast, ready, tckpt, ockpt, job, life, resume, mode, ostep, version, credit,
                     loading, trn, tstep, known, rstep, astray>>
  BY DEF OrchWrite, launch, trnVars
<1>2. Shapes' /\ Setup' /\ OrchSide'
  BY <1>1 DEF IInv, Shapes, Setup, OrchSide, Up, Surplus, Nccl
<1>3. TrainerSide' /\ ThisLife' /\ Collective'
  BY <1>1 DEF IInv, TrainerSide, ThisLife, Collective, Up, Nccl, SaveDue
<1> QED
  BY <1>2, <1>3 DEF IInv

\* Setting up, the orchestrator stands one past the step it resumes from.
LEMMA OrchStartIInv ==
    ASSUME IInv, OrchStart
    PROVE  IInv'
<1> USE PolicyLoopAssumption
<1>1. /\ job = "running" /\ orch = "setup" /\ OrchFrom = resume
      /\ UNCHANGED <<sent, bcast, ready, tckpt, ockpt, toml, life, resume, mode, credit, loading, trn, tstep,
                     known, rstep, astray>>
      /\ version = 0 /\ loading = 0 /\ credit = Surplus /\ ostep = 1
  BY DEF IInv, Shapes, Setup, OrchStart, OrchFrom, disk, trnVars, launch, Fail
<1>2. \/ /\ job' = "running" /\ ostep' = resume + 1 /\ version' = resume /\ orch' = "collect"
         /\ resume = 0 \/ ~Nccl
      \/ /\ job' = "running" /\ ostep' = resume + 1 /\ version' = 0 /\ orch' = "receive" /\ resume > 0 /\ Nccl
      \/ /\ job' = "failed" /\ UNCHANGED <<ostep, version, orch>>
  BY <1>1 DEF IInv, Shapes, OrchStart, launch, Fail
<1>3. Shapes'
  BY <1>1, <1>2 DEF IInv, Shapes, Up, Surplus
<1>4. Setup' /\ OrchSide'
  BY <1>1, <1>2 DEF IInv, Shapes, Setup, OrchSide, Up, Surplus, Nccl
<1>5. TrainerSide' /\ ThisLife'
  BY <1>1, <1>2 DEF IInv, TrainerSide, ThisLife, Up, Nccl, SaveDue, Busy
<1>6. Collective'
  <2> SUFFICES ASSUME ~astray' PROVE Collective'
    BY <1>1 DEF IInv, Collective, Nccl
  <2>1. trn \notin Busy
    BY <1>1 DEF IInv, TrainerSide, Up
  <2>2. \A s \in Steps : s > resume => bcast[s] = 0
    BY <1>1, <2>1 DEF IInv, Shapes, TrainerSide, ThisLife, Up, Steps
  <2>3. Nccl' = Nccl
    BY <1>1 DEF Nccl
  <2> QED
    BY <1>1, <2>1, <2>2, <2>3 DEF IInv, Collective, Busy
<1> QED
  BY <1>3, <1>4, <1>5, <1>6 DEF IInv

\* Shipping a batch: the gate bounds how far ahead it is.
LEMMA ShipIInv ==
    ASSUME IInv, Ship
    PROVE  IInv'
<1> USE PolicyLoopAssumption
<1>1. /\ job = "running" /\ orch = "collect" /\ ostep \in Steps /\ ostep' = ostep + 1
      /\ sent' = [sent EXCEPT ![ostep] = life]
      /\ orch' = IF ostep = MaxSteps THEN "drain" ELSE IF ostep % Interval = 0 THEN "save" ELSE "collect"
      /\ credit' = IF Gate THEN Surplus ELSE credit - 1
      /\ Gate \/ credit > 0
      /\ UNCHANGED <<bcast, ready, tckpt, ockpt, toml, job, life, resume, mode, version, loading, trn, tstep,
                     known, rstep, astray>>
  BY DEF IInv, Shapes, Ship, Steps, launch, trnVars
<1>2. credit' \in 0 .. Surplus /\ (ostep' - 1) - version <= 2 + Surplus - credit' /\ Surplus \in Nat
  BY <1>1 DEF IInv, Shapes, OrchSide, Up, Gate, Surplus
<1>3. /\ ostep' \in 1 .. MaxSteps + 1 /\ sent' \in [Steps -> 0 .. MaxCrashes + 1] /\ orch' \in Up
      /\ orch' = "drain" => ostep' = MaxSteps + 1
      /\ orch' # "drain" => ostep' <= MaxSteps
      /\ ostep > resume /\ ostep' > resume + 1
      /\ Surplus' = Surplus /\ Nccl' = Nccl /\ orch' # "end"
  BY <1>1, SMTT(30) DEF IInv, Shapes, OrchSide, Up, Steps, Surplus, Nccl
<1>4. Shapes' /\ Setup' /\ OrchSide'
  <2>1. Shapes'
    BY <1>1, <1>2, <1>3 DEF IInv, Shapes
  <2>2. Setup'
    BY <1>1, <1>3 DEF IInv, Setup, Up
  <2>3. OrchSide'
    <3>1. resume' = resume /\ version' = version /\ loading' = loading
      BY <1>1
    <3>2. version >= resume /\ (loading = 0 \/ loading > version) /\ resume \in Nat
      BY <1>1 DEF IInv, Shapes, OrchSide, Up
    <3>3. ostep' > resume' /\ ostep' \in Nat
      BY <1>3, <3>1, <3>2
    <3> QED
      BY <1>2, <1>3, <3>1, <3>2, <3>3 DEF OrchSide, Up
  <2> QED
    BY <2>1, <2>2, <2>3
<1>5. TrainerSide' /\ ThisLife'
  BY <1>1, SMTT(30) DEF IInv, Shapes, OrchSide, TrainerSide, ThisLife, Up, Nccl, SaveDue, Busy, Steps
<1>6. Collective'
  BY <1>1 DEF IInv, Collective, Up, Nccl
<1> QED
  BY <1>4, <1>5, <1>6 DEF IInv

\* The orchestrator's checkpoints disturb nobody, and at the end of its drain no
\* collective is under way.
LEMMA OrchSaveEndIInv ==
    ASSUME IInv, OrchSave \/ OrchEnd
    PROVE  IInv'
<1> USE PolicyLoopAssumption
<1>1. /\ job = "running"
      /\ \/ orch = "save" /\ orch' \in {"save", "collect"} /\ loading' = loading
         \/ orch = "drain" /\ orch' = "end" /\ loading' = 0 /\ BroadcastsAdopted
      /\ UNCHANGED <<sent, bcast, ready, tckpt, toml, job, life, resume, mode, ostep, version, credit, trn,
                     tstep, known, rstep, astray>>
  BY DEF OrchSave, OrchEnd, launch, trnVars
<1>2. ockpt' \in [Steps -> Marks]
  BY DEF IInv, Shapes, OrchSide, Up, OrchSave, OrchEnd, Marks, Steps
<1>3. Shapes'
  BY <1>1, <1>2 DEF IInv, Shapes, Up, Surplus
<1>4. Setup' /\ OrchSide'
  BY <1>1 DEF IInv, Shapes, Setup, OrchSide, Up, Surplus, Nccl
<1>5. TrainerSide' /\ ThisLife'
  BY <1>1 DEF IInv, TrainerSide, ThisLife, Up, Nccl, SaveDue, Busy
<1>6. Collective'
  <2>1. CASE orch = "save"
    BY <1>1, <2>1 DEF IInv, Collective, Up, Nccl
  <2>2. CASE orch = "drain"
    <3> SUFFICES ASSUME ~astray' PROVE Collective'
      BY <1>1 DEF IInv, Collective, Nccl
    <3>1. Nccl => loading = 0
      <4> SUFFICES ASSUME Nccl, loading # 0 PROVE FALSE
        OBVIOUS
      <4>1. version >= MaxSteps - 2
        BY <1>1, <2>2, AdoptedMeans DEF IInv
      <4>2. loading = rstep - 1 /\ rstep = tstep + 1 /\ tstep < MaxSteps - 1 /\ loading > version
        BY <1>1, <2>2 DEF IInv, Collective, TrainerSide, OrchSide, Up, Busy
      <4> QED
        BY <4>1, <4>2 DEF IInv, Shapes, Steps
    <3>2. Nccl' = Nccl
      BY <1>1 DEF Nccl
    <3>3. trn \in {"offer", "send"} => Nccl
      BY DEF IInv, TrainerSide
    <3> QED
      BY <1>1, <2>2, <3>1, <3>2, <3>3 DEF IInv, Collective, Up
  <2> QED
    BY <1>1, <2>1, <2>2
<1> QED
  BY <1>3, <1>4, <1>5, <1>6 DEF IInv

\* The watcher announces the newest broadcast, and over NCCL it is the one the
\* trainer is offering.
LEMMA WatchIInv ==
    ASSUME IInv, Watch
    PROVE  IInv'
<1> USE PolicyLoopAssumption
<1>1. /\ job = "running" /\ orch \in {"collect", "save", "drain"} /\ loading = 0 /\ loading' = Newest
      /\ Newest > version /\ ready' = IF Nccl THEN ready \cup {Newest} ELSE ready
      /\ UNCHANGED <<sent, bcast, tckpt, ockpt, toml, job, life, resume, mode, orch, ostep, version, credit,
                     trn, tstep, known, rstep, astray>>
  BY DEF Watch, launch, trnVars
<1>2. /\ Newest \in Steps /\ bcast[Newest] # 0 /\ Newest > resume
      /\ \A s \in Steps : bcast[s] # 0 => s <= Newest
  <2>1. version \in 0 .. MaxSteps /\ resume \in 0 .. MaxSteps /\ version >= resume
    BY <1>1 DEF IInv, Shapes, OrchSide, Up
  <2>2. /\ Newest \in 0 .. MaxSteps /\ (Newest # 0 => bcast[Newest] # 0)
        /\ \A s \in Steps : bcast[s] # 0 => s <= Newest
    BY NewestIs DEF IInv
  <2>3. Newest \in Steps /\ Newest > resume /\ Newest # 0
    BY <1>1, <2>1, <2>2 DEF Steps
  <2> QED
    BY <2>2, <2>3
<1>3. Shapes'
  BY <1>1, <1>2, SMTT(30) DEF IInv, Shapes, Surplus, Steps
<1>4. Setup' /\ OrchSide'
  BY <1>1, <1>2 DEF IInv, Shapes, Setup, OrchSide, Up, Surplus, Nccl
<1>5. TrainerSide' /\ ThisLife'
  BY <1>1 DEF IInv, TrainerSide, ThisLife, Nccl, SaveDue
<1>6. Nccl /\ ~astray => trn = "offer" /\ Newest = rstep - 1
  BY <1>1, <1>2 DEF IInv, Shapes, Collective, Up, Steps
<1>7. Collective'
  <2> SUFFICES ASSUME ~astray' PROVE Collective'
    BY <1>1, <1>2 DEF IInv, Collective, Nccl
  <2>1. Nccl' = Nccl
    BY <1>1 DEF Nccl
  <2>2. trn = "offer" => Nccl
    BY DEF IInv, TrainerSide
  <2>3. \A s \in ready' : Nccl' /\ bcast'[s] # 0
    BY <1>1, <1>2, <2>1 DEF IInv, Collective
  <2>4. Nccl' /\ orch' \in Up =>
          \A s \in Steps : bcast'[s] # 0 /\ s > resume' =>
              s <= version' \/ (trn' \in {"offer", "send"} /\ s = rstep' - 1)
    BY <1>1, <2>1 DEF IInv, Collective
  <2>5. trn' # "send"
    BY <1>1, <1>6 DEF IInv, TrainerSide
  <2>6. trn' = "offer" => bcast'[rstep' - 1] # 0 /\ loading' = rstep' - 1
    BY <1>1, <1>6, <2>2 DEF IInv, Collective
  <2>7. Nccl' => trn' = "offer" /\ loading' = rstep' - 1
    BY <1>1, <1>6, <2>1
  <2> QED
    BY <2>3, <2>4, <2>5, <2>6, <2>7 DEF Collective
<1> QED
  BY <1>3, <1>4, <1>5, <1>7 DEF IInv

\* Adopting from the filesystem.
LEMMA AdoptIInv ==
    ASSUME IInv, Adopt
    PROVE  IInv'
<1> USE PolicyLoopAssumption
<1>1. /\ job = "running" /\ loading # 0 /\ ~Nccl /\ loading' = 0
      /\ \/ version' = loading /\ job' = job
         \/ version' = version /\ job' = "failed"
      /\ UNCHANGED <<sent, bcast, ready, tckpt, ockpt, toml, life, resume, mode, orch, ostep, credit,
                     trn, tstep, known, rstep, astray>>
  BY DEF Adopt, Fail, launch, disk, trnVars
<1>2. orch \in Up
  BY <1>1 DEF IInv, Shapes, Setup
<1>3. Shapes'
  BY <1>1 DEF IInv, Shapes, Surplus
<1>4. Setup' /\ OrchSide'
  BY <1>1, <1>2 DEF IInv, Shapes, Setup, OrchSide, Up, Surplus, Nccl
<1>5. TrainerSide' /\ ThisLife'
  BY <1>1 DEF IInv, TrainerSide, ThisLife, Nccl, SaveDue
<1>6. Collective'
  BY <1>1 DEF IInv, TrainerSide, Collective, Nccl
<1> QED
  BY <1>3, <1>4, <1>5, <1>6 DEF IInv

\* The trainer sets up: where it stands comes from the step it resumes from, and
\* so does where its run stands.
LEMMA TrainerStartIInv ==
    ASSUME IInv, TrainerStart \/ DiscoverRun
    PROVE  IInv'
<1> USE PolicyLoopAssumption
<1>1. /\ job = "running" /\ OrchFrom = resume /\ TrainerFrom = resume /\ NextStep = resume + 1
      /\ resume + 1 \in Steps /\ trn \in {"start", "discover"} /\ known' \subseteq Steps /\ ~astray
      /\ UNCHANGED <<sent, bcast, ready, tckpt, ockpt, toml, life, resume, mode, orch, ostep, version, credit, loading>>
  <2>1. resume \in 0 .. MaxSteps - 1 /\ MaxSteps \in Nat /\ known \subseteq Steps
    BY DEF IInv, Shapes
  <2>2. resume # -1 /\ resume + 1 \in Steps
    BY <2>1 DEF Steps
  <2>3. OrchFrom = resume /\ TrainerFrom = resume /\ NextStep = resume + 1
    BY <2>2 DEF OrchFrom, TrainerFrom, NextStep
  <2>4. known' \subseteq Steps
    BY <2>1 DEF TrainerStart, DiscoverRun, KnownAtStart, Dirs
  <2>5. ~astray /\ trn \in {"start", "discover"}
    BY DEF TrainerStart, DiscoverRun, IInv, Setup, Fresh
  <2> QED
    BY <2>2, <2>3, <2>4, <2>5 DEF TrainerStart, DiscoverRun, disk, orchVars, launch, Fail
<1>2. \/ /\ job' = "failed" /\ UNCHANGED <<trn, tstep, rstep, astray>>
      \/ /\ job' = job /\ trn' \in {"resend", "discover"} /\ (trn' = "resend" => Nccl)
         /\ tstep' = resume + 1 /\ rstep' = rstep /\ rstep = 1 /\ astray' = astray
      \/ /\ job' = job /\ trn' = "wait" /\ tstep = resume + 1 /\ tstep' = tstep
         /\ rstep' \in Steps /\ astray' \in BOOLEAN /\ (~astray' => rstep' = resume + 1)
  <2>1. CASE TrainerStart
    BY <1>1, <2>1 DEF IInv, Setup, TrainerStart, Fresh, launch, Fail
  <2>2. CASE DiscoverRun
    <3>1. toml \in 0 .. MaxSteps - 1
      BY <2>2 DEF IInv, Shapes, DiscoverRun
    <3>2. RunFrom = toml
      BY <3>1 DEF RunFrom
    <3>3. /\ job' = job /\ trn = "discover" /\ trn' = "wait" /\ tstep' = tstep
          /\ rstep' = toml + 1 /\ astray' = (toml # resume)
      BY <2>2, <3>2 DEF DiscoverRun, launch
    <3>4. tstep = resume + 1
      BY <3>3 DEF IInv, Setup
    <3>5. toml + 1 \in Steps /\ (toml # resume) \in BOOLEAN
      BY <3>1 DEF Steps
    <3>6. ~astray' => rstep' = resume + 1
      BY <3>3
    <3> QED
      BY <3>3, <3>4, <3>5, <3>6
  <2> QED
    BY <2>1, <2>2
<1>3. Shapes' /\ Setup'
  <2>1. Shapes'
    <3>1. tstep' \in Steps /\ rstep' \in 1 .. MaxSteps + 1 /\ job' \in {"running", "failed"}
      <4>1. tstep \in Steps /\ rstep \in 1 .. MaxSteps + 1 /\ resume + 1 \in 1 .. MaxSteps + 1
        BY <1>1 DEF IInv, Shapes, Steps
      <4> QED
        BY <1>1, <1>2, <4>1 DEF Steps
    <3>2. trn' \in Fresh \cup {"wait"} /\ Surplus' = Surplus /\ astray' \in BOOLEAN
      BY <1>1, <1>2 DEF Fresh, Surplus, IInv, Shapes
    <3> QED
      BY <1>1, <3>1, <3>2 DEF IInv, Shapes
  <2>2. Setup'
    <3>1. CASE trn' = trn
      BY <1>1, <1>2, <3>1 DEF IInv, Setup, Fresh, Surplus, Nccl
    <3>2. CASE trn' \in {"resend", "discover"} /\ tstep' = resume + 1 /\ astray' = astray
      BY <1>1, <1>2, <3>2 DEF IInv, Setup, Fresh, Surplus, Nccl
    <3>3. CASE trn' = "wait"
      BY <1>1, <1>2, <3>3 DEF IInv, Setup, Fresh, Surplus, Nccl
    <3> QED
      BY <1>2, <3>1, <3>2, <3>3
  <2> QED
    BY <2>1, <2>2
<1>4. OrchSide' /\ TrainerSide'
  BY <1>1, <1>2 DEF IInv, Shapes, OrchSide, TrainerSide, Surplus, Nccl, Busy
<1>5. \A s \in Steps : s > resume => bcast[s] = 0
  BY <1>1 DEF IInv, ThisLife, Busy
<1>6. ThisLife' /\ Collective'
  BY <1>1, <1>2, <1>5 DEF IInv, ThisLife, Collective, Nccl, Busy
<1> QED
  BY <1>3, <1>4, <1>6 DEF IInv

\* The restored weights reach the servers.
LEMMA ResendIInv ==
    ASSUME IInv, Resend
    PROVE  IInv'
<1> USE PolicyLoopAssumption
<1>1. /\ job = "running" /\ trn = "resend" /\ orch = "receive" /\ trn' = "discover" /\ orch' = "collect"
      /\ version' = resume /\ ostep = resume + 1
      /\ UNCHANGED <<sent, bcast, ready, tckpt, ockpt, toml, job, life, resume, mode, ostep, credit, loading,
                     tstep, known, rstep, astray>>
  BY DEF IInv, Shapes, Setup, Resend, disk, launch
<1>2. Shapes' /\ Setup'
  BY <1>1, SMTT(30) DEF IInv, Shapes, Setup, Fresh, Up, Surplus, Nccl, Steps
<1>3. OrchSide' /\ TrainerSide'
  BY <1>1 DEF IInv, Shapes, Setup, OrchSide, TrainerSide, Surplus, Nccl, Busy, Up
<1>4. \A s \in Steps : s > resume => bcast[s] = 0 /\ sent[s] = 0
  BY <1>1 DEF IInv, ThisLife, Busy, Up
<1>5. ThisLife' /\ Collective'
  BY <1>1, <1>4 DEF IInv, Setup, ThisLife, Collective, Nccl, Busy
<1> QED
  BY <1>2, <1>3, <1>5 DEF IInv

\* The trainer takes the batch of its step, and trains on it.
LEMMA PackBatchIInv ==
    ASSUME IInv, PackBatch
    PROVE  IInv'
<1> USE PolicyLoopAssumption
<1>1. /\ job = "running" /\ trn = "wait" /\ rstep \in Steps /\ sent[rstep] # 0 /\ rstep' = rstep + 1 /\ trn' = "train"
      /\ UNCHANGED <<sent, bcast, ready, tckpt, ockpt, toml, job, life, resume, mode, orch, ostep, version, credit,
                     loading, tstep, known, astray>>
  BY DEF PackBatch, disk, launch, orchVars
<1>2. ~astray => rstep = tstep /\ rstep > resume /\ orch \in Up /\ rstep < ostep /\ sent[rstep] = life
  BY <1>1 DEF IInv, TrainerSide, ThisLife
<1>3. Shapes' /\ Setup'
  BY <1>1, SMTT(30) DEF IInv, Shapes, Setup, Fresh, Busy, Surplus, Nccl, Steps
<1>4. OrchSide' /\ TrainerSide'
  BY <1>1, <1>2 DEF IInv, Shapes, OrchSide, TrainerSide, Surplus, Nccl, Busy, Steps
<1>5. ThisLife'
  BY <1>1, <1>2 DEF IInv, Shapes, ThisLife, Busy, Steps
<1>6. Collective'
  BY <1>1 DEF IInv, Collective, Nccl
<1> QED
  BY <1>3, <1>4, <1>5, <1>6 DEF IInv

LEMMA TrainStepIInv ==
    ASSUME IInv, TrainStep
    PROVE  IInv'
<1> USE PolicyLoopAssumption
<1>1. /\ job = "running" /\ trn = "train"
      /\ UNCHANGED <<sent, ready, tckpt, ockpt, toml, job, life, resume, mode, orch, ostep, version, credit,
                     loading, tstep, known, rstep, astray>>
      /\ Nccl' = Nccl /\ Surplus' = Surplus
  BY DEF TrainStep, launch, orchVars, Nccl, Surplus
<1>2. \/ trn' = "save" /\ bcast' = bcast /\ Nccl
      \/ /\ trn' = IF Nccl THEN "offer" ELSE "save"
         /\ Nccl => tstep < MaxSteps - 1
         /\ \A s \in Steps : bcast'[s] = IF s = rstep - 1 THEN life
                                         ELSE IF ~Nccl /\ s \in Cleaned(rstep - 1) THEN 0 ELSE bcast[s]
  <2>1. tstep \in Int /\ MaxSteps \in Int
    BY DEF IInv, Shapes, Steps
  <2>2. CASE Nccl /\ BroadcastUnused
    BY <2>2 DEF TrainStep
  <2>3. CASE ~(Nccl /\ BroadcastUnused)
    BY <2>1, <2>3 DEF TrainStep, BroadcastUnused
  <2> QED
    BY <2>2, <2>3
<1>3. /\ rstep - 1 \in Steps
      /\ ~astray => rstep = tstep + 1 /\ rstep > resume + 1 /\ orch \in Up /\ rstep <= ostep
  BY <1>1 DEF IInv, Shapes, TrainerSide, Busy, Steps
<1>4. Shapes'
  <2>1. bcast' \in [Steps -> 0 .. MaxCrashes + 1]
    BY <1>1 DEF IInv, Shapes, TrainStep
  <2> QED
    BY <1>1, <1>2, <2>1 DEF IInv, Shapes, Busy
<1>5. Setup' /\ OrchSide' /\ TrainerSide'
  BY <1>1, <1>2, <1>3 DEF IInv, Setup, OrchSide, TrainerSide, Busy, Fresh
<1>6. \A s \in Steps : s > resume /\ bcast[s] # 0 => bcast[s] = life /\ s < rstep - 1
  BY <1>1 DEF IInv, ThisLife
<1>7. ThisLife'
  <2>1. ASSUME NEW s \in Steps, s > resume, bcast'[s] # 0
        PROVE  bcast'[s] = life /\ s < rstep
    BY <1>2, <1>3, <1>6, <2>1 DEF IInv, Shapes, Steps
  <2>2. trn' \in Busy /\ trn' # "train"
    BY <1>2 DEF Busy
  <2> QED
    BY <1>1, <2>1, <2>2 DEF IInv, ThisLife
<1>8. Collective'
  <2> SUFFICES ASSUME ~astray' PROVE Collective'
    <3>1. \A s \in ready' : Nccl' /\ bcast'[s] # 0
      BY <1>1, <1>2 DEF IInv, Shapes, Collective
    <3> QED
      BY <3>1 DEF Collective
  <2>1. Nccl => loading = 0
    BY <1>1 DEF IInv, Collective
  <2>2. \A s \in ready : s # rstep - 1
    BY <1>1, <1>3, <1>6 DEF IInv, Shapes, Collective, Steps
  <2>3. \A s \in ready' : Nccl' /\ bcast'[s] # 0
    BY <1>1, <1>2, <2>2 DEF IInv, Shapes, Collective
  <2>4. trn' = "offer" => bcast'[rstep' - 1] # 0 /\ rstep' - 1 \notin ready'
    BY <1>1, <1>2, <1>3, <2>2 DEF IInv, Shapes
  <2>5. Nccl /\ orch \in Up => \A s \in Steps : bcast[s] # 0 /\ s > resume => s <= version
    BY <1>1 DEF IInv, Collective
  <2>6. Nccl' /\ orch' \in Up =>
          \A s \in Steps : bcast'[s] # 0 /\ s > resume' =>
              s <= version' \/ (trn' \in {"offer", "send"} /\ s = rstep' - 1)
    BY <1>1, <1>2, <2>5
  <2>7. trn' # "send"
    BY <1>2
  <2> QED
    BY <1>1, <2>1, <2>3, <2>4, <2>6, <2>7 DEF Collective
<1> QED
  BY <1>4, <1>5, <1>7, <1>8 DEF IInv

\* The collective: the trainer goes in when the watcher has announced this step.
LEMMA SendIInv ==
    ASSUME IInv, WaitForReady \/ Send
    PROVE  IInv'
<1> USE PolicyLoopAssumption
<1>1. /\ job = "running"
      /\ \/ trn = "offer" /\ trn' = "send" /\ UNCHANGED <<version, loading>> /\ rstep - 1 \in ready
         \/ trn = "send" /\ trn' = "save" /\ version' = loading /\ loading' = 0 /\ loading # 0
      /\ UNCHANGED <<sent, bcast, ready, tckpt, ockpt, toml, job, life, resume, mode, orch, ostep, credit,
                     tstep, known, rstep, astray>>
      /\ Nccl' = Nccl /\ Surplus' = Surplus
  BY DEF WaitForReady, Send, disk, launch, orchVars, Nccl, Surplus
<1>2. /\ Nccl /\ (loading # 0 => orch \in Up /\ loading > version)
      /\ ~astray => loading = rstep - 1
  BY <1>1 DEF IInv, Shapes, Setup, TrainerSide, Collective, OrchSide, Busy
<1>3. Shapes' /\ Setup'
  BY <1>1, <1>2 DEF IInv, Shapes, Setup, Fresh, Busy, Up
<1>4. OrchSide' /\ TrainerSide'
  <2>1. OrchSide'
    <3> SUFFICES ASSUME orch \in Up PROVE OrchSide'
      BY <1>1 DEF OrchSide
    <3>1. /\ orch' = orch /\ ostep' = ostep /\ resume' = resume /\ credit' = credit /\ Surplus' = Surplus
          /\ version' \in Int /\ version' >= version /\ (loading' = 0 \/ loading' > version')
      BY <1>1, <1>2 DEF IInv, Shapes
    <3>2. version \in Int /\ ostep \in Int /\ credit \in Int /\ Surplus \in Int /\ resume \in Int
      BY DEF IInv, Shapes, Surplus
    <3>3. orch' = "end" => loading' = 0
      BY <1>1 DEF IInv, OrchSide
    <3>4. version' >= resume /\ (ostep - 1) - version' <= 2 + Surplus - credit
      <4>1. version >= resume /\ (ostep - 1) - version <= 2 + Surplus - credit
        BY <1>2 DEF IInv, OrchSide
      <4>2. version' \in Int /\ version' >= version
        BY <3>1
      <4>3. PICK v \in Int, w \in Int, o \in Int, b \in Int :
              v = version /\ w = version' /\ o = ostep /\ b = 2 + Surplus - credit
        BY <3>2, <4>2
      <4>4. w >= v /\ v >= resume /\ (o - 1) - v <= b
        BY <4>1, <4>2, <4>3
      <4>5. w >= resume /\ (o - 1) - w <= b
        BY <3>2, <4>4
      <4> QED
        BY <4>3, <4>5
    <3> QED
      BY <3>1, <3>3, <3>4 DEF IInv, OrchSide
  <2>2. TrainerSide'
    BY <1>1, <1>2 DEF IInv, Shapes, OrchSide, TrainerSide, Busy
  <2> QED
    BY <2>1, <2>2
<1>5. ThisLife'
  BY <1>1 DEF IInv, ThisLife, Busy
<1>6. Collective'
  BY <1>1, <1>2 DEF IInv, Shapes, Collective, Steps
<1> QED
  BY <1>3, <1>4, <1>5, <1>6 DEF IInv

\* The trainer's checkpoints, and on to its next step.
LEMMA TrainerSaveIInv ==
    ASSUME IInv, TrainerSave
    PROVE  IInv'
<1> USE PolicyLoopAssumption
<1>1. /\ job = "running" /\ trn \in {"save", "saving"}
      /\ UNCHANGED <<sent, bcast, ready, ockpt, toml, job, life, resume, mode, orch, ostep, version, credit,
                     loading, rstep, astray>>
      /\ Nccl' = Nccl /\ Surplus' = Surplus
  BY DEF TrainerSave, launch, orchVars, Nccl, Surplus
<1>2. \/ trn = "save" /\ SaveDue /\ trn' = "saving" /\ tstep' = tstep
      \/ tstep = MaxSteps /\ trn' = "end" /\ tstep' = tstep
      \/ tstep # MaxSteps /\ trn' = "wait" /\ tstep' = tstep + 1
  BY <1>1 DEF TrainerSave
<1>3. known' \subseteq Steps /\ tckpt' \in [Steps -> Marks]
  BY DEF IInv, Shapes, TrainerSave, Kept, Marks
<1>4. ~astray => rstep = tstep + 1 /\ rstep > resume + 1 /\ orch \in Up /\ rstep <= ostep
  BY <1>1 DEF IInv, TrainerSide, Busy
<1>5. Shapes' /\ Setup'
  <2>1. Shapes'
    <3>1. tstep' \in Steps /\ trn' \in {"wait"} \cup Busy
      BY <1>2, SMTT(30) DEF IInv, Shapes, Steps, Busy
    <3> QED
      BY <1>1, <1>3, <3>1 DEF IInv, Shapes
  <2>2. Setup'
    BY <1>1, <1>2, <1>3 DEF IInv, Shapes, Setup, Fresh, Busy, Steps
  <2> QED
    BY <2>1, <2>2
<1>6. OrchSide' /\ TrainerSide'
  <2>1. OrchSide'
    BY <1>1, <1>2, <1>4 DEF IInv, Shapes, OrchSide, TrainerSide, SaveDue, Busy, Steps
  <2>2. TrainerSide'
    <3>1. resume \in Int /\ tstep \in Int /\ rstep \in Int /\ ostep \in Int
      BY DEF IInv, Shapes, Steps
    <3>2. trn' = "saving" => SaveDue'
      BY <1>2 DEF SaveDue
    <3>3. trn' = "wait" /\ ~astray' => rstep' = tstep' /\ rstep' > resume'
      BY <1>1, <1>2, <1>4, <3>1
    <3>4. /\ trn' \in Busy /\ ~astray' => rstep' = tstep' + 1
          /\ rstep' >= 2 /\ sent'[rstep' - 1] # 0
      BY <1>1, <1>2, <1>4 DEF IInv, TrainerSide, Busy
    <3>5. trn' \notin {"offer", "send", "train"}
      BY <1>2
    <3> QED
      BY <1>1, <1>4, <3>2, <3>3, <3>4, <3>5 DEF TrainerSide
  <2> QED
    BY <2>1, <2>2
<1>7. ThisLife' /\ Collective'
  BY <1>1, <1>2 DEF IInv, ThisLife, Collective, Busy
<1> QED
  BY <1>5, <1>6, <1>7 DEF IInv

LEMMA NextIInv ==
    ASSUME Resumes \subseteq {"step"}
    PROVE  IInv /\ [Next]_vars => IInv'
<1> SUFFICES ASSUME IInv, [Next]_vars PROVE IInv'
  OBVIOUS
<1>1. CASE UNCHANGED vars
  BY <1>1 DEF vars, disk, launch, orchVars, trnVars, IInv, Shapes, Setup, OrchSide, TrainerSide, ThisLife,
              Collective, Nccl, Surplus, SaveDue
<1>2. CASE MainTask
  BY <1>2, OrchWriteIInv, OrchStartIInv, ShipIInv, OrchSaveEndIInv DEF MainTask
<1>3. CASE Watcher
  BY <1>3, WatchIInv, AdoptIInv DEF Watcher
<1>4. CASE Trainer
  BY <1>4, TrainerStartIInv, ResendIInv, PackBatchIInv, TrainStepIInv, SendIInv, TrainerSaveIInv DEF Trainer
<1> QED
  BY <1>1, <1>2, <1>3, <1>4, CrashIInv, LauncherIInv DEF Next, Rest

\* The inductive invariant of orchestrator, trainer and disk, when jobs are resumed
\* from a named step or started over.
THEOREM LoopInductive ==
    ASSUME Resumes \subseteq {"step"}
    PROVE  Spec => []IInv
  BY InitIInv, NextIInv, PTL DEF Spec

\* Types, and the gate: batches run ahead of the weights the servers hold by two
\* and what was in flight, never more.
THEOREM LoopTypes ==
    ASSUME Resumes \subseteq {"step"}
    PROVE  Spec => []TypeOK
<1>1. IInv => TypeOK
  <2> SUFFICES ASSUME IInv PROVE TypeOK
    OBVIOUS
  <2>1. job = "running" /\ orch = "collect" => (ostep - 1) - version <= 2 + Surplus
    BY PolicyLoopAssumption DEF IInv, Shapes, OrchSide, Up, Surplus
  <2>2. resume \in -1 .. MaxSteps /\ toml \in -2 .. MaxSteps
    BY PolicyLoopAssumption DEF IInv, Shapes, Absent
  <2> QED
    BY <2>1, <2>2 DEF IInv, Shapes, TypeOK
<1> QED
  BY <1>1, LoopInductive, PTL

\* The trainer's step and the step of its batch stay the same, and the two sides
\* of a collective are about one step, through any number of crashes and resumes.
THEOREM LoopCoordinated ==
    ASSUME Resumes \subseteq {"step"}
    PROVE  Spec => []StepsCoordinated
<1>1. IInv => StepsCoordinated
  BY DEF IInv, TrainerSide, Collective, StepsCoordinated, Busy
<1> QED
  BY <1>1, LoopInductive, PTL

-----------------------------------------------------------------------------
(* What the servers load is on the disk. *)

\* Two steps of slack are enough: what the trainer removes is behind what the
\* servers hold, which is behind what they load.
LEMMA NextLoaded ==
    ASSUME \A m \in Modes : m.nccl \/ m.surplus = 0,
           IInv, LoadedWeightsAreThere, [Next]_vars
    PROVE  LoadedWeightsAreThere'
<1> USE PolicyLoopAssumption
<1>1. CASE Crash
  BY <1>1 DEF Crash, LoadedWeightsAreThere
<1>2. CASE Launcher
  <2>1. loading = 0 /\ loading' = loading
    BY <1>2 DEF Launcher, ResumeStep, ResumeLatest, StartOver, Relaunch, IInv, Setup
  <2> QED
    BY <2>1 DEF LoadedWeightsAreThere
<1>3. CASE OrchWrite \/ OrchStart \/ Ship \/ OrchSave
  BY <1>3 DEF OrchWrite, OrchStart, Ship, OrchSave, LoadedWeightsAreThere, Nccl, disk, launch, Fail
<1>4. CASE OrchEnd \/ Adopt \/ Send
  BY <1>4 DEF OrchEnd, Adopt, Send, LoadedWeightsAreThere
<1>5. CASE Watch
  <2>1. loading' = Newest /\ bcast' = bcast
    BY <1>5 DEF Watch
  <2>2. Newest # 0 => bcast[Newest] # 0
    BY NewestIs DEF IInv
  <2> QED
    BY <2>1, <2>2 DEF LoadedWeightsAreThere
<1>6. CASE TrainerStart \/ Resend \/ DiscoverRun \/ PackBatch \/ WaitForReady \/ TrainerSave
  BY <1>6 DEF TrainerStart, Resend, DiscoverRun, PackBatch, WaitForReady, TrainerSave,
              LoadedWeightsAreThere, Nccl, disk, launch, orchVars, Fail
<1>7. CASE TrainStep
  <2> SUFFICES ASSUME ~Nccl', loading' # 0 PROVE bcast'[loading'] # 0
    BY DEF LoadedWeightsAreThere
  <2>1. /\ trn = "train" /\ loading' = loading /\ ~Nccl /\ loading # 0
        /\ \A s \in Steps : bcast'[s] = IF s = rstep - 1 THEN life
                                        ELSE IF ~Nccl /\ s \in Cleaned(rstep - 1) THEN 0 ELSE bcast[s]
    BY <1>7 DEF TrainStep, Nccl, launch, orchVars
  <2>2. bcast[loading] # 0 /\ loading \in Steps /\ life # 0
    BY <2>1 DEF LoadedWeightsAreThere, IInv, Shapes, Steps
  <2>3. Surplus = 0 /\ credit = 0
    BY <2>1 DEF IInv, Shapes, Nccl, Surplus
  <2>4. /\ orch \in Up /\ loading > version /\ version >= resume
        /\ (ostep - 1) - version <= 2 + Surplus - credit
    BY <2>1 DEF IInv, Shapes, Setup, OrchSide
  <2>5. rstep - 1 \in Steps /\ (rstep - 1 > resume => rstep <= ostep)
    <3>1. rstep - 1 \in Steps /\ sent[rstep - 1] # 0 /\ rstep \in Int /\ ostep \in Int
      BY <2>1 DEF IInv, Shapes, TrainerSide, Busy, Steps
    <3>2. rstep - 1 > resume => rstep - 1 < ostep
      BY <2>4, <3>1 DEF IInv, Setup, ThisLife, Up
    <3> QED
      BY <3>1, <3>2
  <2>6. loading # (rstep - 1) - 2
    <3>1. (ostep - 1) - version <= 2
      BY <2>3, <2>4
    <3> QED
      BY <2>4, <2>5, <3>1 DEF IInv, Shapes
  <2>7. loading \notin Cleaned(rstep - 1)
    BY <2>6 DEF Cleaned
  <2> QED
    BY <2>1, <2>2, <2>7
<1>8. CASE UNCHANGED vars
  BY <1>8 DEF vars, disk, launch, orchVars, LoadedWeightsAreThere, Nccl
<1> QED
  BY <1>1, <1>2, <1>3, <1>4, <1>5, <1>6, <1>7, <1>8 DEF Next, MainTask, Watcher, Trainer, Rest

\* After a restart nothing past the resume point survives from an earlier life,
\* and what the servers load stays on disk, as long as nothing in flight fills a
\* batch behind a closed gate when weights travel through the filesystem.
THEOREM LoopNothingStale ==
    ASSUME Resumes \subseteq {"step"}, \A m \in Modes : m.nccl \/ m.surplus = 0
    PROVE  Spec => []NothingStaleAfterResume
<1>1. Init => LoadedWeightsAreThere
  BY DEF Init, LoadedWeightsAreThere
<1>2. IInv /\ LoadedWeightsAreThere /\ [Next]_vars => LoadedWeightsAreThere'
  BY NextLoaded
<1>3. IInv /\ LoadedWeightsAreThere => NothingStaleAfterResume
  <2> SUFFICES ASSUME IInv, LoadedWeightsAreThere PROVE NothingStaleAfterResume
    OBVIOUS
  <2>1. trn = "train" /\ ~astray => sent[rstep - 1] = life
    <3> SUFFICES ASSUME trn = "train", ~astray PROVE sent[rstep - 1] = life
      OBVIOUS
    <3>1. rstep - 1 \in Steps /\ rstep - 1 > resume /\ sent[rstep - 1] # 0 /\ job # "crashed"
      BY PolicyLoopAssumption DEF IInv, Shapes, Setup, TrainerSide, Busy, Steps
    <3> QED
      BY <3>1 DEF IInv, ThisLife
  <2>2. loading # 0 => bcast[loading] \in {0, life}
    <3> SUFFICES ASSUME loading # 0 PROVE bcast[loading] \in {0, life}
      OBVIOUS
    <3>1. orch \in Up
      BY DEF IInv, Shapes, Setup
    <3>2. loading \in Steps /\ loading > resume /\ job # "crashed"
      BY <3>1, PolicyLoopAssumption DEF IInv, Shapes, Setup, OrchSide, Up, Steps
    <3> QED
      BY <3>2 DEF IInv, ThisLife
  <2> QED
    BY <2>1, <2>2 DEF NothingStaleAfterResume
<1> QED
  BY <1>1, <1>2, <1>3, LoopInductive, PTL DEF Spec
-----------------------------------------------------------------------------
(* A step both can resume from is kept. *)

\* The two most recent checkpoints survive the trainer's cleaning.
LEMMA KeepsTwo ==
    ASSUME KeepLast >= 2, NEW S \in SUBSET Steps, NEW m \in S, NEW s \in Steps, s < m,
           \A t \in S : t <= s \/ t = m
    PROVE  m \in Kept(S) /\ (s \in S => s \in Kept(S))
<1> USE PolicyLoopAssumption
<1>1. IsFiniteSet({s, m}) /\ Cardinality({s, m}) = 2
  <2>1. IsFiniteSet({s}) /\ Cardinality({s}) = 1
    BY FS_Singleton
  <2>2. {s} \cup {m} = {s, m} /\ m \notin {s}
    BY DEF Steps
  <2>3. IsFiniteSet({s} \cup {m}) /\ Cardinality({s} \cup {m}) = 1 + 1
    BY <2>1, <2>2, FS_AddElement
  <2> QED
    BY <2>2, <2>3
<1>2. ASSUME NEW x \in {s, m}
      PROVE  Cardinality({t \in S : t >= x}) <= KeepLast
  <2>0. ASSUME NEW t \in S, t >= x PROVE t \in {s, m}
    <3>1. t \in Int /\ s \in Int /\ m \in Int /\ (t <= s \/ t = m)
      BY DEF Steps
    <3> QED
      BY <1>2, <2>0, <3>1
  <2>1. {t \in S : t >= x} \in SUBSET {s, m}
    BY <2>0
  <2>2. Cardinality({t \in S : t >= x}) <= 2 /\ Cardinality({t \in S : t >= x}) \in Nat
    BY <1>1, <2>1, FS_Subset, FS_CardinalityType
  <2> QED
    BY <2>2
<1> QED
  BY <1>2 DEF Kept

\* The orchestrator's checkpoints.
LEMMA NextOrchSaved ==
    ASSUME Resumes \subseteq {"step"}, IInv, OrchSaved, [Next]_vars
    PROVE  OrchSaved'
<1> USE PolicyLoopAssumption
<1>1. CASE Crash \/ Launcher
  BY <1>1 DEF Crash, Launcher, ResumeStep, ResumeLatest, StartOver, Relaunch, OrchSaved, Up
<1>2. CASE OrchWrite \/ OrchStart
  BY <1>2, SMTT(30) DEF OrchWrite, OrchStart, OrchFrom, OrchSaved, Up, IInv, Shapes, disk, launch, Fail, Steps
<1>3. CASE Ship
  BY <1>3, SMTT(30) DEF Ship, OrchSaved, Up, IInv, Shapes, launch, Steps
<1>4. CASE OrchSave
  BY <1>4 DEF OrchSave, OrchSaved, Up, IInv, Shapes, OrchSide, launch, Steps
<1>5. CASE OrchEnd
  BY <1>5 DEF OrchEnd, OrchSaved, Up, IInv, Shapes, launch, Steps
<1>6. CASE Watch \/ Adopt
  BY <1>6 DEF Watch, Adopt, OrchSaved, launch, Fail, disk
<1>7. CASE Resend
  BY <1>7 DEF Resend, OrchSaved, IInv, Setup, Shapes, launch, disk, Steps
<1>8. CASE TrainerStart \/ DiscoverRun \/ PackBatch \/ TrainStep \/ WaitForReady \/ Send \/ TrainerSave
  BY <1>8 DEF TrainerStart, DiscoverRun, PackBatch, TrainStep, WaitForReady, Send, TrainerSave,
              OrchSaved, launch, disk, orchVars, Fail
<1>9. CASE UNCHANGED vars
  BY <1>9 DEF vars, disk, launch, orchVars, OrchSaved
<1> QED
  BY <1>1, <1>2, <1>3, <1>4, <1>5, <1>6, <1>7, <1>8, <1>9 DEF Next, MainTask, Watcher, Trainer, Rest

\* The trainer has taken no batch that was not shipped.
LEMMA TrainerBehind ==
    ASSUME IInv, orch \in Up, trn \notin {"down"}, ~astray
    PROVE  tstep <= ostep
  BY PolicyLoopAssumption DEF IInv, Shapes, Setup, OrchSide, TrainerSide, Fresh, Busy, Steps

\* The orchestrator completes a checkpoint: if the trainer has one of that step,
\* it is the new anchor.
LEMMA OrchSaveAnchored ==
    ASSUME IInv, Anchored, OrchSave, ~astray
    PROVE  Anchored' /\ Common \subseteq Common'
<1> USE PolicyLoopAssumption
<1>1. /\ orch = "save" /\ ostep - 1 \in Steps /\ orch \in Up
      /\ UNCHANGED <<tckpt, resume, trn, tstep, known, ostep, astray>>
      /\ \A s \in Steps : s # ostep - 1 => ockpt'[s] = ockpt[s]
      /\ \/ ockpt[ostep - 1] = "none" /\ ockpt'[ostep - 1] = "partial" /\ orch' = "save"
         \/ ockpt'[ostep - 1] = "full" /\ orch' = "collect"
  <2>1. orch = "save" /\ orch \in Up /\ UNCHANGED <<tckpt, resume, trn, tstep, known, ostep, astray>>
    BY DEF OrchSave, Up, launch, trnVars
  <2>2. ostep - 1 \in Steps /\ ockpt \in [Steps -> Marks]
    BY <2>1 DEF IInv, Shapes, OrchSide, Steps
  <2>3. CASE ockpt[ostep - 1] = "none"
    BY <2>1, <2>2, <2>3 DEF OrchSave
  <2>4. CASE ockpt[ostep - 1] # "none"
    BY <2>1, <2>2, <2>4 DEF OrchSave
  <2> QED
    BY <2>1, <2>2, <2>3, <2>4
<1>2. Common \subseteq Common' /\ Common' \subseteq Common \cup {ostep - 1}
  BY <1>1 DEF Common
<1>3. ASSUME trn \notin {"start", "down", "end"}, resume > 0 \/ Common' # {}
      PROVE  \E s \in Steps : Anchor(s)'
  <2>1. \A t \in known : t < tstep /\ t <= ostep - 1
    BY <1>1, <1>3, TrainerBehind, SMTT(30) DEF Anchored, IInv, Shapes, Steps
  <2>2. CASE resume > 0 \/ Common # {}
    <3>1. PICK s \in Steps : Anchor(s)
      BY <1>3, <2>2 DEF Anchored
    <3>2. CASE \A t \in known : ~(t > s)
      BY <1>1, <1>2, <3>1, <3>2 DEF Anchor
    <3>3. CASE \E t \in known : t > s
      <4>1. ostep - 1 \in known /\ tckpt[ostep - 1] = "full" /\ ostep - 1 > s
        BY <3>1, <3>3 DEF Anchor
      <4>2. CASE orch' = "collect"
        <5>1. Anchor(ostep - 1)'
          BY <1>1, <2>1, <4>1, <4>2 DEF Anchor, Common, IInv, Shapes, Steps
        <5> QED
          BY <1>1, <5>1
      <4>3. CASE orch' = "save"
        <5>1. Anchor(s)'
          BY <1>1, <1>2, <3>1, <4>3 DEF Anchor
        <5> QED
          BY <5>1
      <4> QED
        BY <1>1, <4>2, <4>3
    <3> QED
      BY <3>2, <3>3
  <2>3. CASE resume = 0 /\ Common = {}
    <3>1. ostep - 1 \in Common'
      BY <1>2, <1>3, <2>3 DEF IInv, Shapes
    <3>2. tckpt[ostep - 1] = "full"
      BY <1>1, <3>1 DEF Common
    <3>3. ostep - 1 < tstep
      BY <1>1, <1>3, <2>3, <3>2 DEF Anchored
    <3>4. Anchor(ostep - 1)'
      BY <1>1, <2>1, <3>1, <3>3 DEF Anchor, IInv, Shapes, Steps
    <3> QED
      BY <1>1, <3>4
  <2> QED
    BY <2>2, <2>3 DEF IInv, Shapes
<1>4. Dirs(tckpt)' = Dirs(tckpt)
  BY <1>1 DEF Dirs
<1> QED
  BY <1>1, <1>2, <1>3, <1>4 DEF Anchored

\* The trainer's cleaning leaves the anchor, or what it has just saved is the
\* next one.
LEMMA TrainerSaveAnchored ==
    ASSUME KeepLast >= 2, IInv, OrchSaved, Anchored, TrainerSave, ~astray
    PROVE  Anchored' /\ (Common # {} => Common' # {})
<1> USE PolicyLoopAssumption
<1>1. /\ trn \in {"save", "saving"} /\ tstep \in Steps /\ rstep = tstep + 1 /\ rstep <= ostep /\ orch \in Up
      /\ tstep > resume /\ resume \in Nat /\ ostep \in Nat
      /\ trn = "saving" => SaveDue
      /\ UNCHANGED <<ockpt, resume, orch, ostep, astray>>
  BY DEF IInv, Shapes, TrainerSide, Busy, Steps, TrainerSave, launch, orchVars
<1>2. \A t \in known : t < tstep /\ t \in Steps
  BY <1>1 DEF Anchored, IInv, Shapes
<1>3. CASE trn = "save" /\ SaveDue
  <2>1. /\ trn' = "saving" /\ tstep' = tstep /\ known' = known
        /\ \A s \in Steps : s # tstep => tckpt'[s] = tckpt[s]
        /\ tckpt'[tstep] = "partial"
    BY <1>1, <1>3 DEF TrainerSave, IInv, Shapes
  <2>2. Common' \subseteq Common
    BY <1>1, <2>1 DEF Common
  <2>3. ASSUME NEW s \in Steps, Anchor(s) PROVE Anchor(s)'
    BY <1>1, <1>2, <2>1, <2>3 DEF Anchor, Common, Steps
  <2>4. resume > 0 \/ Common # {} => \E s \in Steps : Anchor(s)
    BY <1>1 DEF Anchored
  <2>5. Common # {} => Common' # {}
    BY <2>3, <2>4 DEF Anchor
  <2>6. resume = 0 => \A s \in Steps : tckpt'[s] = "full" => s < tstep
    BY <1>1, <2>1 DEF Anchored
  <2> QED
    BY <1>1, <1>2, <2>1, <2>2, <2>3, <2>4, <2>5, <2>6 DEF Anchored
<1>4. CASE trn = "save" /\ ~SaveDue
  <2>1. /\ known' = known /\ tckpt' = tckpt
        /\ tstep # MaxSteps /\ trn' = "wait" /\ tstep' = tstep + 1
    BY <1>1, <1>4 DEF TrainerSave, SaveDue
  <2>2. Common' = Common
    BY <1>1, <2>1 DEF Common
  <2>3. ASSUME NEW s \in Steps, Anchor(s) PROVE Anchor(s)'
    BY <1>1, <2>1, <2>2, <2>3 DEF Anchor, Steps
  <2>4. resume > 0 \/ Common # {} => \E s \in Steps : Anchor(s)
    BY <1>1 DEF Anchored
  <2>5. resume = 0 => \A s \in Steps : tckpt[s] = "full" => s < tstep + 1
    BY <1>1 DEF Anchored, Steps
  <2>6. \A t \in known : t < tstep + 1
    BY <1>1, <1>2 DEF Steps
  <2> QED
    BY <1>1, <2>1, <2>2, <2>3, <2>4, <2>5, <2>6 DEF Anchored
<1>5. CASE trn = "saving"
  <2> DEFINE saved == known \cup {tstep}
  <2>1. /\ known' = Kept(saved) /\ known' \subseteq saved
        /\ \A s \in Steps : tckpt'[s] = IF s \in saved \ Kept(saved) THEN "none"
                                        ELSE IF s = tstep THEN "full" ELSE tckpt[s]
        /\ \/ tstep = MaxSteps /\ trn' = "end" /\ tstep' = tstep
           \/ tstep # MaxSteps /\ trn' = "wait" /\ tstep' = tstep + 1
    BY <1>1, <1>5 DEF TrainerSave, Kept
  <2>2. saved \in SUBSET Steps /\ tstep \in saved /\ \A t \in saved : t <= tstep
    BY <1>1, <1>2 DEF Steps
  <2> HIDE DEF saved
  <2>3. tstep \in Kept(saved)
    <3>1. {t \in saved : t >= tstep} = {tstep}
      <4>1. ASSUME NEW t \in saved PROVE t >= tstep <=> t = tstep
        <5>1. t \in Int /\ tstep \in Int /\ t <= tstep
          BY <2>2 DEF Steps
        <5> QED
          BY <5>1
      <4> QED
        BY <2>2, <4>1
    <3>2. Cardinality({tstep}) = 1
      BY FS_Singleton
    <3> QED
      BY <2>2, <3>1, <3>2 DEF Kept
  <2>4. tckpt'[tstep] = "full"
    BY <1>1, <2>1, <2>3
  <2>5. resume > 0 \/ Common # {} =>
           \E s \in Steps : Anchor(s) /\ s \in Common' /\ \A t \in saved : t <= s \/ t = tstep
    <3> SUFFICES ASSUME resume > 0 \/ Common # {}
                 PROVE  \E s \in Steps : Anchor(s) /\ s \in Common' /\ \A t \in saved : t <= s \/ t = tstep
      OBVIOUS
    <3>1. PICK s \in Steps : Anchor(s)
      BY <1>5 DEF Anchored
    <3>2. ASSUME NEW t \in known PROVE ~(t > s)
      <4>1. t \in Int /\ t < tstep /\ tstep \in Int
        BY <1>1, <1>2 DEF Steps
      <4>2. t # ostep - 1
        BY <1>1, <4>1
      <4> QED
        BY <3>1, <4>2 DEF Anchor
    <3>3. \A t \in saved : t <= s \/ t = tstep
      BY <1>2, <3>2 DEF saved, Steps
    <3>4. s < tstep /\ tckpt[s] = "full" /\ ockpt[s] = "full"
      BY <3>1 DEF Anchor, Common
    <3>5. s \in saved => s \in Kept(saved)
      BY <2>2, <3>3, <3>4, KeepsTwo
    <3>6. tckpt'[s] = "full"
      BY <1>1, <2>1, <3>4, <3>5 DEF Steps
    <3> QED
      BY <1>1, <3>1, <3>3, <3>4, <3>6 DEF Common
  <2>6. Common # {} => Common' # {}
    BY <2>5
  <2>7. CASE tstep = MaxSteps
    BY <2>1, <2>6, <2>7 DEF Anchored
  <2>8. CASE tstep # MaxSteps
    <3>1. trn' = "wait" /\ tstep' = tstep + 1
      BY <2>1, <2>8
    <3>2. \A t \in known' : t < tstep' /\ t <= tstep
      BY <1>1, <2>1, <2>2, <3>1 DEF Steps
    <3>3. resume = 0 => \A s \in Steps : tckpt'[s] = "full" => s < tstep'
      <4> SUFFICES ASSUME resume = 0, NEW s \in Steps, tckpt'[s] = "full" PROVE s < tstep'
        OBVIOUS
      <4>1. s = tstep \/ tckpt[s] = "full"
        BY <2>1
      <4>2. s <= tstep
        BY <1>1, <1>5, <4>1 DEF Anchored, Steps
      <4> QED
        BY <1>1, <3>1, <4>2 DEF Steps
    <3>4. CASE ockpt[tstep] = "full"
      <4>1. tstep \in Common'
        BY <1>1, <2>4, <3>4 DEF Common
      <4>2. tstep < tstep' /\ \A t \in known' : ~(t > tstep)
        <5>1. tstep \in Int /\ \A t \in known' : t \in Int
          BY <1>1, <2>1, <2>2 DEF Steps
        <5> QED
          BY <3>1, <3>2, <5>1
      <4>3. \E s \in Steps : Anchor(s)'
        BY <1>1, <4>1, <4>2 DEF Anchor
      <4> QED
        BY <1>1, <2>6, <3>1, <3>2, <3>3, <4>3 DEF Anchored
    <3>5. CASE ockpt[tstep] # "full"
      <4>1. orch = "save" /\ tstep = ostep - 1
        <5>1. tstep % Interval = 0 /\ tstep < MaxSteps /\ tstep < ostep
          BY <1>1, <1>5, <2>8 DEF SaveDue, Steps
        <5> QED
          BY <1>1, <3>5, <5>1 DEF OrchSaved
      <4>2. Common' \subseteq Common
        BY <1>1, <2>1, <3>5 DEF Common
      <4>3. ASSUME NEW s \in Steps, Anchor(s), s \in Common', \A t \in saved : t <= s \/ t = tstep
            PROVE  Anchor(s)'
        <5>1. s < tstep' /\ s \in Int /\ tstep \in Int
          BY <1>1, <3>1, <4>3 DEF Anchor, Steps
        <5>2. ASSUME NEW t \in known', t > s PROVE t = tstep
          <6>1. t \in Int /\ (t <= s \/ t = tstep)
            BY <2>1, <2>2, <4>3 DEF Steps
          <6> QED
            BY <5>1, <5>2, <6>1
        <5> QED
          BY <1>1, <2>4, <4>1, <4>3, <5>1, <5>2 DEF Anchor
      <4> QED
        BY <1>1, <2>5, <2>6, <3>1, <3>2, <3>3, <4>2, <4>3 DEF Anchored
    <3> QED
      BY <3>4, <3>5
  <2> QED
    BY <2>7, <2>8
<1> QED
  BY <1>1, <1>3, <1>4, <1>5

\* Setting up, the trainer counts only checkpoints up to the one it resumes from.
LEMMA TrainerStartAnchored ==
    ASSUME IInv, Anchored, TrainerStart
    PROVE  Anchored'
<1> USE PolicyLoopAssumption
<1>1. /\ trn = "start" /\ TrainerFrom = resume /\ resume \in Nat /\ resume < MaxSteps
      /\ UNCHANGED <<tckpt, ockpt, orch, ostep, astray>> /\ ~astray
      /\ known' = {s \in Dirs(tckpt) : resume > 0 => s <= resume}
  BY DEF IInv, Shapes, Setup, Fresh, TrainerStart, TrainerFrom, KnownAtStart, disk, orchVars
<1>2. resume > 0 => resume \in Common
  BY <1>1 DEF Anchored
<1>3. resume = 0 => Dirs(tckpt) = {}
  BY <1>1 DEF Anchored
<1>4. tstep' = resume + 1 /\ resume' = resume /\ trn' \in {"resend", "discover"}
  BY <1>1, <1>2 DEF TrainerStart, NextStep, Common, launch
<1>5. Common' = Common /\ Dirs(tckpt') = Dirs(tckpt)
  BY <1>1 DEF Common
<1>6. \A t \in known' : t < tstep' /\ t <= resume
  BY <1>1, <1>3, <1>4 DEF Dirs, Steps
<1>7. CASE resume > 0
  <2>1. Anchor(resume)' /\ resume \in Steps
    BY <1>1, <1>2, <1>4, <1>5, <1>6, <1>7 DEF Anchor, Dirs, Steps
  <2> QED
    BY <1>4, <1>6, <1>7, <2>1 DEF Anchored
<1>8. CASE resume = 0
  <2>1. \A s \in Steps : tckpt[s] = "none"
    BY <1>3, <1>8 DEF Dirs
  <2>2. Common' = {}
    BY <1>5, <2>1 DEF Common
  <2> QED
    BY <1>1, <1>4, <1>6, <1>8, <2>1, <2>2 DEF Anchored
<1> QED
  BY <1>1, <1>7, <1>8

\* Every step keeps an anchor, and with it a step both can resume from; only
\* starting over takes it.
LEMMA NextAnchored ==
    ASSUME Resumes \subseteq {"step"}, KeepLast >= 2, IInv, OrchSaved, Anchored, [Next]_vars
    PROVE  /\ Anchored'
           /\ Common # {} /\ ~astray => Common' # {} \/ (life' # life /\ resume' = 0)
<1> USE PolicyLoopAssumption
<1>1. CASE Crash
  <2>1. Common \subseteq Common'
    BY <1>1 DEF Crash, Common, IInv, Shapes
  <2> QED
    BY <1>1, <2>1 DEF Crash, Anchored
<1>2. CASE Launcher
  <2>1. trn' = "start" /\ known' = known /\ known = {} /\ life' # life
    BY <1>2 DEF Launcher, ResumeStep, ResumeLatest, StartOver, Relaunch, IInv, Shapes, Setup, Anchored
  <2>2. CASE ResumeStep
    <3>1. Common' = Common /\ resume' \in Common /\ resume' > 0
      BY <2>2 DEF ResumeStep, Relaunch, Common, Steps
    <3> QED
      BY <2>1, <3>1 DEF Anchored
  <2>3. CASE StartOver
    <3>1. resume' = 0 /\ Dirs(tckpt') = {}
      BY <2>3 DEF StartOver, Relaunch, Dirs, None
    <3> QED
      BY <2>1, <3>1 DEF Anchored
  <2> QED
    BY <1>2, <2>2, <2>3 DEF Launcher, ResumeLatest
<1>3. CASE astray /\ ~Crash
  <2>1. trn \in {"wait"} \cup Busy /\ job # "crashed"
    BY <1>3 DEF IInv, Shapes, Setup, Fresh
  <2>2. astray' /\ trn' \notin {"start", "down"}
    BY <1>3, <2>1 DEF Next, Launcher, ResumeStep, ResumeLatest, StartOver, Relaunch, MainTask, Watcher, Trainer, Rest,
           OrchWrite, OrchStart, Ship, OrchSave, OrchEnd, Watch, Adopt, TrainerStart, Resend, DiscoverRun,
           PackBatch, TrainStep, WaitForReady, Send, TrainerSave, vars, trnVars, Busy
  <2> QED
    BY <1>3, <2>2 DEF Anchored
<1>4. CASE OrchSave /\ ~astray
  BY <1>4, OrchSaveAnchored
<1>5. CASE TrainerSave /\ ~astray
  BY <1>5, TrainerSaveAnchored
<1>6. CASE TrainerStart
  <2>1. Common' = Common
    BY <1>6 DEF TrainerStart, Common, disk
  <2> QED
    BY <1>6, <2>1, TrainerStartAnchored
<1>7. CASE OrchEnd /\ ~astray
  <2>1. /\ orch = "drain" /\ orch' = "end" /\ ostep - 1 = MaxSteps /\ MaxSteps \in Steps
        /\ UNCHANGED <<tckpt, resume, trn, tstep, known, ostep, astray>>
        /\ ockpt' = [ockpt EXCEPT ![MaxSteps] = "full"]
    BY <1>7 DEF OrchEnd, IInv, Shapes, OrchSide, Up, Steps, launch, trnVars
  <2>2. Common \subseteq Common' /\ Common' \subseteq Common \cup {MaxSteps}
    BY <2>1 DEF Common, IInv, Shapes
  <2>3. ASSUME NEW s \in Steps, Anchor(s) PROVE Anchor(s)'
    BY <2>1, <2>2, <2>3 DEF Anchor
  <2>4. trn \notin {"start", "down", "end"} /\ resume = 0 /\ ~astray => MaxSteps \notin Common'
    BY <2>1 DEF Anchored, Common, IInv, Shapes, Steps
  <2>5. Dirs(tckpt') = Dirs(tckpt)
    BY <2>1
  <2>6. resume > 0 \/ resume = 0
    BY DEF IInv, Shapes
  <2>7. trn \notin {"start", "down", "end"} /\ ~astray /\ (resume > 0 \/ Common' # {}) => \E s \in Steps : Anchor(s)
    BY <2>2, <2>4, <2>6 DEF Anchored
  <2> QED
    BY <2>1, <2>2, <2>3, <2>5, <2>7 DEF Anchored
<1>8. CASE (OrchWrite \/ OrchStart \/ Ship \/ Resend) /\ ~astray
  <2>1. /\ orch # "save" /\ UNCHANGED <<tckpt, ockpt, resume, tstep, known, astray>>
        /\ trn' = trn \/ (trn = "resend" /\ trn' = "discover")
    BY <1>8 DEF OrchWrite, OrchStart, Ship, Resend, disk, trnVars, launch, Fail
  <2>2. Common' = Common /\ Dirs(tckpt') = Dirs(tckpt)
    BY <2>1 DEF Common
  <2>3. ASSUME NEW s \in Steps, Anchor(s) PROVE Anchor(s)'
    BY <2>1, <2>2, <2>3 DEF Anchor
  <2> QED
    BY <2>1, <2>2, <2>3 DEF Anchored
<1>9. CASE (Watch \/ Adopt \/ DiscoverRun \/ PackBatch \/ TrainStep \/ WaitForReady \/ Send \/ UNCHANGED vars) /\ ~astray
  <2>1. /\ UNCHANGED <<tckpt, ockpt, resume, tstep, known, orch, ostep>>
        /\ trn' = trn \/ {trn, trn'} \cap {"start", "down", "end"} = {}
    BY <1>9 DEF Watch, Adopt, DiscoverRun, PackBatch, TrainStep, WaitForReady, Send, vars,
                disk, trnVars, orchVars, launch, Fail
  <2>2. Common' = Common /\ Dirs(tckpt') = Dirs(tckpt)
    BY <2>1 DEF Common
  <2>3. ASSUME NEW s \in Steps, Anchor(s) PROVE Anchor(s)'
    BY <2>1, <2>2, <2>3 DEF Anchor
  <2> QED
    BY <1>9, <2>1, <2>2, <2>3 DEF Anchored
<1> QED
  BY <1>1, <1>2, <1>3, <1>4, <1>5, <1>6, <1>7, <1>8, <1>9 DEF Next, MainTask, Watcher, Trainer, Rest

\* Once both have a checkpoint of one step, they always do: the trainer's cleaning,
\* which knows nothing of the orchestrator's checkpoints, and a killed save never
\* take the last of them, if the trainer keeps two (with one, TLC finds a crash
\* that leaves none).
THEOREM LoopResumePoint ==
    ASSUME Resumes \subseteq {"step"}, KeepLast >= 2
    PROVE  Spec => ResumePointKept
<1> DEFINE Keeps == Common # {} /\ ~astray => Common' # {} \/ (life' # life /\ resume' = 0)
<1>1. Init => OrchSaved /\ Anchored
  BY DEF Init, OrchSaved, Anchored, Up, Dirs, None
<1>2. IInv /\ OrchSaved /\ [Next]_vars => OrchSaved'
  BY NextOrchSaved
<1>3. IInv /\ OrchSaved /\ Anchored /\ [Next]_vars => Anchored' /\ [Keeps]_vars
  BY NextAnchored
<1>4. Spec => [][Keeps]_vars
  BY <1>1, <1>2, <1>3, LoopInductive, PTL DEF Spec
<1> QED
  BY <1>4 DEF ResumePointKept
-----------------------------------------------------------------------------
(***************************************************************************)
(* The pool that the watcher has adopt an update (sync_weights), for any   *)
(* set of addresses, any number of policy updates and any number of        *)
(* servers that die, of look-ups that fail and of living servers that fail *)
(* a health check.                                                         *)
(*                                                                         *)
(* ExposedAreCurrent is not inductive: that a server whose adapter matches *)
(* may be exposed needs AdapterNotAhead (with no update made yet, the base *)
(* model is what every server has), and that an update finds every exposed *)
(* server at the adapter before needs the lock's part of the types (nobody *)
(* is being synchronised when the lock is taken).                          *)
(***************************************************************************)

PoolStatuses == {"none", "discovering", "syncing", "ready", "unhealthy"}
PoolPlaces   == {"idle", "query", "load", "verify"}

PoolShapes ==
    /\ alive \subseteq Ips /\ dns \subseteq Ips /\ faults \in 0 .. MaxFaults
    /\ adapter \in [Ips -> 0 .. MaxStep] /\ desired \in 0 .. MaxStep
    /\ status \in [Ips -> PoolStatuses]
    /\ lock \in {"free", "sync", "update"} /\ stage \in {"add", "remove", "check"}
    /\ seen \subseteq Ips /\ todo \subseteq Ips
    /\ pc \in [Ips -> PoolPlaces]

\* Who may be in the middle of a synchronisation: nobody without the lock, and
\* one server at a time in the loops of sync().
PoolLockWorks ==
    /\ lock = "free" => Quiet
    /\ lock = "sync" => \A a, b \in Ips : pc[a] # "idle" /\ pc[b] # "idle" => a = b

\* No server has an adapter of a step that has not been asked for.
AdapterNotAhead == \A ip \in Ips : adapter[ip] <= desired

PoolIInv == PoolShapes /\ PoolLockWorks /\ AdapterNotAhead

\* At most one server in the middle of a synchronisation, counted.
LEMMA OneBusy ==
    ASSUME \A a, b \in Ips : pc[a] # "idle" /\ pc[b] # "idle" => a = b
    PROVE  Cardinality({ip \in Ips : pc[ip] # "idle"}) <= 1
<1> DEFINE Syncing == {ip \in Ips : pc[ip] # "idle"}
<1>1. CASE Syncing = {}
  BY <1>1, FS_EmptySet
<1>2. CASE Syncing # {}
  <2>1. PICK a \in Syncing : TRUE
    BY <1>2
  <2>2. Syncing = {a}
    BY <2>1
  <2> QED
    BY <2>2, FS_Singleton
<1> QED
  BY <1>1, <1>2

LEMMA PoolTypesOfIInv == PoolIInv => PoolTypeOK
  BY OneBusy DEF PoolIInv, PoolShapes, PoolLockWorks, PoolTypeOK, PoolStatuses, PoolPlaces

LEMMA PoolStart == PoolInit => PoolIInv
  BY ElasticPoolAssumption
     DEF PoolInit, PoolIInv, PoolShapes, PoolLockWorks, AdapterNotAhead, PoolStatuses, PoolPlaces, Quiet

\* A step of one server's synchronisation preserves the invariant.
LEMMA PoolSyncServer ==
    ASSUME PoolIInv, NEW ip \in Ips, SyncServerAdapter(ip)
    PROVE  PoolIInv'
<1> USE ElasticPoolAssumption DEF PoolIInv, PoolShapes, PoolLockWorks, AdapterNotAhead, PoolStatuses, PoolPlaces, Quiet
<1>1. ASSUME NEW loaded \in Loaded(ip), Query(ip, loaded) PROVE PoolIInv'
  BY <1>1 DEF Query, servers, round
<1>2. ASSUME NEW loaded \in Loaded(ip), Verify(ip, loaded) PROVE PoolIInv'
  BY <1>2 DEF Verify, servers, round
<1>3. CASE LoadAdapter(ip)
  BY <1>3 DEF LoadAdapter, servers, round
<1>4. CASE LoadFails(ip)
  BY <1>4 DEF LoadFails, servers, round
<1> QED
  BY <1>1, <1>2, <1>3, <1>4 DEF SyncServerAdapter

\* A step of the sync loop preserves the invariant.
LEMMA PoolSyncStep ==
    ASSUME PoolIInv, Sync
    PROVE  PoolIInv'
<1> USE ElasticPoolAssumption DEF PoolIInv, PoolShapes, PoolLockWorks, AdapterNotAhead, PoolStatuses, PoolPlaces, Quiet
<1>1. CASE SyncBegin
  BY <1>1 DEF SyncBegin, Fault, Known
<1>2. CASE NextStage
  BY <1>2 DEF NextStage, servers, Known
<1>3. ASSUME NEW ip \in Ips, AddServer(ip) PROVE PoolIInv'
  BY <1>3 DEF AddServer, Healthy, Unhealthy, Fault, InTurn
<1>4. ASSUME NEW ip \in Ips, RemoveServer(ip) PROVE PoolIInv'
  BY <1>4 DEF RemoveServer, servers
<1>5. ASSUME NEW ip \in Ips, CheckServer(ip) PROVE PoolIInv'
  BY <1>5 DEF CheckServer, Healthy, Unhealthy, Fault, InTurn
<1> QED
  BY <1>1, <1>2, <1>3, <1>4, <1>5 DEF Sync

\* Every step preserves the invariant.
LEMMA PoolStep == PoolIInv /\ [PoolNext]_poolVars => PoolIInv'
<1> SUFFICES ASSUME PoolIInv, [PoolNext]_poolVars PROVE PoolIInv'
  OBVIOUS
<1> USE ElasticPoolAssumption DEF PoolIInv, PoolShapes, PoolLockWorks, AdapterNotAhead, PoolStatuses, PoolPlaces, Quiet
<1>1. CASE Environment
  <2>1. UNCHANGED <<status, desired, lock, stage, seen, todo, pc>>
    BY <1>1 DEF Environment, round
  <2>2. PICK ip \in Ips : Start(ip) \/ Die(ip) \/ Publish(ip) \/ Withdraw(ip)
    BY <1>1 DEF Environment
  <2> QED
    BY <2>1, <2>2 DEF Start, Die, Fault, Publish, Withdraw
<1>2. CASE Sync
  BY <1>2, PoolSyncStep
<1>3. CASE UpdateBegin
  BY <1>3 DEF UpdateBegin, servers, Known
<1>4. CASE UpdateEnd
  BY <1>4 DEF UpdateEnd, servers
<1>5. CASE \E ip \in Ips : SyncServerAdapter(ip)
  BY <1>5, PoolSyncServer
<1>6. CASE UNCHANGED poolVars
  BY <1>6 DEF poolVars, servers, round
<1> QED
  BY <1>1, <1>2, <1>3, <1>4, <1>5, <1>6 DEF PoolNext

\* The inductive invariant: the shapes of the pool's state, the lock, and that no
\* server is ahead of the adapter that was asked for.
THEOREM PoolInductive == PoolSpec => []PoolIInv
  BY PoolStart, PoolStep, PTL DEF PoolSpec

\* Types, and what the lock is for: whoever does not hold it has no server in
\* the middle of a synchronisation (elastic.py:417-445, 487-495).
THEOREM PoolTypes == PoolSpec => []PoolTypeOK
  BY PoolInductive, PoolTypesOfIInv, PTL

-----------------------------------------------------------------------------
(* A server that is exposed has the current adapter. *)

\* One step keeps the servers that rollouts are sent to current, as long as a
\* server does not come back before the pool has seen it gone.
LEMMA PoolStepExposed ==
    ASSUME QuickRestarts = FALSE
    PROVE  PoolIInv /\ ExposedAreCurrent /\ [PoolNext]_poolVars => ExposedAreCurrent'
<1> SUFFICES ASSUME PoolIInv, ExposedAreCurrent, [PoolNext]_poolVars PROVE ExposedAreCurrent'
  OBVIOUS
<1> USE QuickRestarts = FALSE, ElasticPoolAssumption
    DEF PoolIInv, PoolShapes, PoolLockWorks, AdapterNotAhead, PoolStatuses, PoolPlaces, Quiet, ExposedAreCurrent, Exposed
<1>1. CASE Environment
  <2>1. UNCHANGED <<status, desired, lock, stage, seen, todo, pc>>
    BY <1>1 DEF Environment, round
  <2>2. PICK ip \in Ips : Start(ip) \/ Die(ip) \/ Publish(ip) \/ Withdraw(ip)
    BY <1>1 DEF Environment
  <2> QED
    BY <2>1, <2>2 DEF Start, Die, Fault, Publish, Withdraw
<1>2. CASE Sync
  <2>1. UNCHANGED <<alive, adapter, desired>>
    BY <1>2 DEF Sync, SyncBegin, NextStage, AddServer, RemoveServer, CheckServer, servers
  <2>2. CASE SyncBegin \/ NextStage
    BY <2>1, <2>2 DEF SyncBegin, NextStage
  <2>3. ASSUME NEW ip \in Ips, AddServer(ip) PROVE ExposedAreCurrent'
    BY <2>1, <2>3 DEF AddServer, InTurn
  <2>4. ASSUME NEW ip \in Ips, RemoveServer(ip) PROVE ExposedAreCurrent'
    BY <2>1, <2>4 DEF RemoveServer
  <2>5. ASSUME NEW ip \in Ips, CheckServer(ip) PROVE ExposedAreCurrent'
    BY <2>1, <2>5 DEF CheckServer, InTurn
  <2> QED
    BY <1>2, <2>2, <2>3, <2>4, <2>5 DEF Sync
<1>3. CASE UpdateBegin
  BY <1>3 DEF UpdateBegin, servers, Known
<1>4. CASE UpdateEnd
  BY <1>4 DEF UpdateEnd, servers
<1>5. ASSUME NEW ip \in Ips, SyncServerAdapter(ip) PROVE ExposedAreCurrent'
  <2>1. ASSUME NEW loaded \in Loaded(ip), Query(ip, loaded) \/ Verify(ip, loaded)
        PROVE  ExposedAreCurrent'
    <3>1. UNCHANGED <<alive, adapter, desired>>
      BY <2>1 DEF Query, Verify, servers
    <3>2. Matches(loaded) /\ ip \in alive => adapter[ip] = desired
      BY <2>1 DEF Matches, Loaded, Answers
    <3> QED
      BY <2>1, <3>1, <3>2 DEF Query, Verify
  <2>2. CASE LoadAdapter(ip)
    BY <2>2 DEF LoadAdapter
  <2>3. CASE LoadFails(ip)
    BY <2>3 DEF LoadFails
  <2> QED
    BY <1>5, <2>1, <2>2, <2>3 DEF SyncServerAdapter
<1>6. CASE UNCHANGED poolVars
  BY <1>6 DEF poolVars, servers, round
<1> QED
  BY <1>1, <1>2, <1>3, <1>4, <1>5, <1>6 DEF PoolNext

\* Rollouts go only to servers that run the current policy, or the one before
\* while its update is on the way, whatever loads, queries, look-ups, health checks
\* and servers fail and whatever update a server misses that was dropped: for
\* any pool in which a server that died is seen gone before it is back (ready_urls,
\* _sync_server_adapter, sync_weights in elastic.py).
THEOREM PoolExposesCurrent ==
    ASSUME QuickRestarts = FALSE
    PROVE  PoolSpec => []ExposedAreCurrent
<1>1. PoolInit => ExposedAreCurrent
  BY DEF PoolInit, ExposedAreCurrent, Exposed
<1>2. PoolIInv /\ ExposedAreCurrent /\ [PoolNext]_poolVars => ExposedAreCurrent'
  BY PoolStepExposed
<1> QED
  BY <1>1, <1>2, PoolInductive, PTL DEF PoolSpec
=============================================================================
