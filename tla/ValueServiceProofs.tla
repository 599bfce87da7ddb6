-------------------------- MODULE ValueServiceProofs --------------------------
(***************************************************************************)
(* Proofs about the request plane, for any clients, token counts and       *)
(* limits, and any number of weight updates.                               *)
(*                                                                         *)
(* The admission counters count what is queued or with the worker because  *)
(* a ticket is in one of the two, once, and its future tells in which      *)
(* (Tickets): whoever releases a ticket finds it there and takes it out.   *)
(***************************************************************************)
EXTENDS ValueService, Sums

Held == Range(queue) \cup Range(batch)

Shapes ==
    /\ client \in [Clients -> Answers \cup {"new", "stamped", "waiting", "cancelling", "rewaiting"}]
    /\ future \in [Clients -> {"none", "pending", "running", "cancelled", "result", "timeout", "error"}]
    /\ stamps \in Seq(Clients) /\ late \in 0 .. Len(stamps)
    /\ queue \in Seq(Clients) /\ batch \in Seq(Clients)
    /\ closing \subseteq Clients /\ released \subseteq Clients /\ abandoned \subseteq Clients
    /\ failed \in BOOLEAN /\ closed \in BOOLEAN
    /\ worker \in {"take", "gather", "run", "evaluate", "complete", "fail", "ended"}

\* Where a ticket is, and what its future says of it.
Tickets ==
    /\ IsInjective(queue) /\ IsInjective(batch) /\ Range(queue) \cap Range(batch) = {}
    /\ \A c \in Range(queue) \cup closing : future[c] = "pending"
    /\ \A c \in Range(batch) : future[c] = "running"
    /\ \A c \in Clients : future[c] = "pending" => c \in Range(queue) \cup closing
    /\ \A c \in Clients : client[c] \in {"new", "stamped"} => future[c] = "none"
    /\ closing \subseteq released
    /\ closed => queue = << >>
    /\ ~closed => closing = {}

Counters ==
    /\ pendingRequests = Cardinality(Held) /\ pendingTokens = TokensOf(Held)
    /\ pendingRequests <= MaxPendingRequests /\ pendingTokens <= MaxPendingTokens

Versions ==
    /\ receiver \in {"idle", "loading", "loaded", "raised"}
    /\ modelVersion \in 0 .. MaxVersion /\ serviceVersion \in 0 .. MaxVersion
    /\ batchVersion \in 0 .. MaxVersion
    /\ weights \in Mixed .. MaxVersion /\ batchWeights \in Mixed .. MaxVersion
    /\ receiver = "loading" => modelVersion < MaxVersion
    /\ versionAtSubmit \in [Clients -> 0 .. MaxVersion]
    /\ answerVersion \in [Clients -> 0 .. MaxVersion]
    /\ answerWeights \in [Clients -> Mixed .. MaxVersion]

IInv == Shapes /\ Tickets /\ Counters /\ Versions


-----------------------------------------------------------------------------
(* Tokens and slots *)

LEMMA TokensIsTotal ==
    ASSUME NEW T \in SUBSET Clients, IsFiniteSet(T)
    PROVE  TokensOf(T) = Total(Tokens, T) /\ TokensOf(T) \in Nat
<1> DEFINE Solves(f) == f = [s \in SUBSET T |-> IF s = {} THEN 0
                                ELSE Tokens[CHOOSE x \in s : TRUE] + f[s \ {CHOOSE x \in s : TRUE}]]
<1>1. \A c \in T : Tokens[c] \in Nat
  BY ServiceAssumption
<1>2. \A f : Solves(f) <=> Sums(f, Tokens, T)
  BY DEF Sums
<1>3. TokensOf(T) = (CHOOSE f : Solves(f))[T]
  BY Zenon DEF TokensOf, MapThenSumSet, MapThenFoldSet
<1>4. Sums([s \in SUBSET T |-> Total(Tokens, s)], Tokens, T)
  BY <1>1, SumExists
<1> HIDE DEF Solves
<1>5. \E f : Solves(f)
  BY <1>2, <1>4
<1>6. Sums(CHOOSE f : Solves(f), Tokens, T)
  BY <1>2, <1>5
<1>7. TokensOf(T) = Total(Tokens, T)
  BY <1>1, <1>3, <1>6, SumIsTotal
<1> QED
  BY <1>1, <1>7, PointsAreFinite

LEMMA TokensOfHeld ==
    ASSUME NEW T, Held' = T
    PROVE  TokensOf(Held)' = TokensOf(T)
  BY Zenon DEF TokensOf, MapThenSumSet, MapThenFoldSet

LEMMA HeldFinite ==
    ASSUME Shapes
    PROVE  Held \in SUBSET Clients /\ IsFiniteSet(Held)
<1>1. /\ Range(queue) \in SUBSET Clients /\ IsFiniteSet(Range(queue))
      /\ Range(batch) \in SUBSET Clients /\ IsFiniteSet(Range(batch))
  BY RangeCounts DEF Shapes
<1> QED
  BY <1>1, FS_Union DEF Held

\* Who releases tickets that are held, and lets go of them, keeps the count.
LEMMA ReleaseKeeps ==
    ASSUME Shapes, Counters, NEW T \in SUBSET Held, Release(T), Held' = Held \ T
    PROVE  Counters'
<1>1. Held \in SUBSET Clients /\ IsFiniteSet(Held) /\ IsFiniteSet(T) /\ IsFiniteSet(Held \ T)
  BY HeldFinite, FS_Subset, FS_Difference
<1>2. Cardinality(Held \ T) = Cardinality(Held) - Cardinality(T)
  <2>1. Held \cap T = T
    OBVIOUS
  <2> QED
    BY <1>1, <2>1, FS_Difference
<1>3. TokensOf(Held \ T) = TokensOf(Held) - TokensOf(T)
  <2>1. Total(Tokens, Held) = Total(Tokens, Held \ T) + Total(Tokens, T)
    <3>1. \A c \in Held : Tokens[c] \in Nat
      BY <1>1, ServiceAssumption
    <3> QED
      BY <1>1, <3>1, TotalWithout
  <2>2. /\ TokensOf(Held) = Total(Tokens, Held) /\ TokensOf(Held) \in Nat
        /\ TokensOf(T) = Total(Tokens, T) /\ TokensOf(T) \in Nat
        /\ TokensOf(Held \ T) = Total(Tokens, Held \ T) /\ TokensOf(Held \ T) \in Nat
    BY <1>1, TokensIsTotal
  <2> QED
    BY <2>1, <2>2
<1>4. PICK a \in Nat, b \in Nat, d \in Nat, e \in Nat :
        a = Cardinality(Held) /\ b = Cardinality(T) /\ d = TokensOf(Held) /\ e = TokensOf(T)
  BY <1>1, TokensIsTotal, FS_CardinalityType
<1>5. pendingRequests' = a - b /\ pendingTokens' = d - e /\ a <= MaxPendingRequests /\ d <= MaxPendingTokens
  BY <1>4 DEF Counters, Release
<1>6. TokensOf(Held)' = TokensOf(Held \ T) /\ Cardinality(Held)' = Cardinality(Held \ T)
  BY TokensOfHeld
<1>7. MaxPendingRequests \in Nat /\ MaxPendingTokens \in Nat
  BY ServiceAssumption
<1>8. a - b <= MaxPendingRequests /\ d - e <= MaxPendingTokens
  BY <1>5, <1>7
<1> QED
  BY <1>2, <1>3, <1>4, <1>5, <1>6, <1>8 DEF Counters

LEMMA CountersStay ==
    ASSUME Counters, Held' = Held, pendingRequests' = pendingRequests, pendingTokens' = pendingTokens
    PROVE  Counters'
  BY TokensOfHeld DEF Counters
-----------------------------------------------------------------------------
(* Steps that take no ticket and give none back *)

Quiet == UNCHANGED <<queue, batch, pendingRequests, pendingTokens>>

LEMMA QuietKeeps ==
    ASSUME Counters, Quiet
    PROVE  Counters' /\ Held' = Held
  BY CountersStay DEF Quiet, Held

LEMMA HandlerQuiet ==
    ASSUME IInv, NEW c \in Clients,
           Stamp(c) \/ ResultReady(c) \/ WaitTimesOut(c)
    PROVE  IInv'
<1>1. CASE Stamp(c)
  <2>1. Shapes'
    <3>1. stamps' \in Seq(Clients) /\ late' \in 0 .. Len(stamps')
      <4>1. CASE stamps' = stamps
        BY <1>1, <4>1 DEF IInv, Shapes, Stamp
      <4>2. CASE stamps' = Append(stamps, c)
        <5>1. Append(stamps, c) \in Seq(Clients) /\ Len(Append(stamps, c)) = Len(stamps) + 1 /\ Len(stamps) \in Nat
          BY DEF IInv, Shapes
        <5>2. late \in 0 .. Len(stamps) + 1
          BY <5>1 DEF IInv, Shapes
        <5> QED
          BY <1>1, <4>2, <5>1, <5>2 DEF Stamp
      <4> QED
        BY <1>1, <4>1, <4>2 DEF Stamp
    <3>2. client' \in [Clients -> Answers \cup {"new", "stamped", "waiting", "cancelling", "rewaiting"}]
      BY <1>1 DEF IInv, Shapes, Stamp, Answer, Answers
    <3> QED
      BY <1>1, <3>1, <3>2 DEF IInv, Shapes, Stamp,
                              clientVars, ticketVars, serviceVars, workerVars, versionVars, answerVars
  <2>2. Tickets'
    BY <1>1 DEF IInv, Shapes, Tickets, Stamp, Answer, Answers,
                clientVars, ticketVars, serviceVars, workerVars, versionVars, answerVars
  <2>3. Versions'
    BY <1>1 DEF IInv, Versions, Stamp, Answer, Answers,
                clientVars, ticketVars, serviceVars, workerVars, versionVars, answerVars
  <2> QED
    BY <1>1, <2>1, <2>2, <2>3, QuietKeeps DEF IInv, Quiet, Stamp,
                                              clientVars, ticketVars, serviceVars, workerVars, versionVars, answerVars
<1>2. CASE ResultReady(c)
  <2>1. Shapes'
    BY <1>2 DEF IInv, Shapes, ResultReady, Answer, Answers, Done,
                clientVars, ticketVars, serviceVars, workerVars, versionVars, answerVars
  <2>2. Tickets'
    BY <1>2 DEF IInv, Shapes, Tickets, ResultReady, Answer, Answers, Done,
                clientVars, ticketVars, serviceVars, workerVars, versionVars, answerVars
  <2>3. Versions'
    BY <1>2 DEF IInv, Versions, ResultReady, Answer, Answers, Done,
                clientVars, ticketVars, serviceVars, workerVars, versionVars, answerVars
  <2> QED
    BY <1>2, <2>1, <2>2, <2>3, QuietKeeps DEF IInv, Quiet, ResultReady,
                                              clientVars, ticketVars, serviceVars, workerVars, versionVars, answerVars
<1>3. CASE WaitTimesOut(c)
  <2>1. Shapes'
    BY <1>3 DEF IInv, Shapes, WaitTimesOut,
                clientVars, ticketVars, serviceVars, workerVars, versionVars, answerVars
  <2>2. Tickets'
    BY <1>3 DEF IInv, Shapes, Tickets, WaitTimesOut,
                clientVars, ticketVars, serviceVars, workerVars, versionVars, answerVars
  <2>3. Versions'
    BY <1>3 DEF IInv, Versions, WaitTimesOut,
                clientVars, ticketVars, serviceVars, workerVars, versionVars, answerVars
  <2> QED
    BY <1>3, <2>1, <2>2, <2>3, QuietKeeps DEF IInv, Quiet, WaitTimesOut,
                                              clientVars, ticketVars, serviceVars, workerVars, versionVars, answerVars
<1> QED
  BY <1>1, <1>2, <1>3

LEMMA WorkerQuiet ==
    ASSUME IInv, DeadlinePasses \/ StopGathering \/ WorkerEnds \/ CheckReceiver \/ Evaluate
    PROVE  IInv'
<1>1. CASE DeadlinePasses
  <2>1. Shapes'
    BY <1>1 DEF IInv, Shapes, DeadlinePasses,
                clientVars, ticketVars, serviceVars, workerVars, versionVars, answerVars
  <2>2. Tickets'
    BY <1>1 DEF IInv, Shapes, Tickets, DeadlinePasses,
                clientVars, ticketVars, serviceVars, workerVars, versionVars, answerVars
  <2>3. Versions'
    BY <1>1 DEF IInv, Versions, DeadlinePasses,
                clientVars, ticketVars, serviceVars, workerVars, versionVars, answerVars
  <2> QED
    BY <1>1, <2>1, <2>2, <2>3, QuietKeeps DEF IInv, Quiet, DeadlinePasses,
                                              clientVars, ticketVars, serviceVars, workerVars, versionVars, answerVars
<1>2. CASE StopGathering
  <2>1. Shapes'
    BY <1>2 DEF IInv, Shapes, StopGathering,
                clientVars, ticketVars, serviceVars, workerVars, versionVars, answerVars
  <2>2. Tickets'
    BY <1>2 DEF IInv, Shapes, Tickets, StopGathering,
                clientVars, ticketVars, serviceVars, workerVars, versionVars, answerVars
  <2>3. Versions'
    BY <1>2 DEF IInv, Versions, StopGathering,
                clientVars, ticketVars, serviceVars, workerVars, versionVars, answerVars
  <2> QED
    BY <1>2, <2>1, <2>2, <2>3, QuietKeeps DEF IInv, Quiet, StopGathering,
                                              clientVars, ticketVars, serviceVars, workerVars, versionVars, answerVars
<1>3. CASE WorkerEnds
  <2>1. Shapes'
    BY <1>3 DEF IInv, Shapes, WorkerEnds,
                clientVars, ticketVars, serviceVars, workerVars, versionVars, answerVars
  <2>2. Tickets'
    BY <1>3 DEF IInv, Shapes, Tickets, WorkerEnds,
                clientVars, ticketVars, serviceVars, workerVars, versionVars, answerVars
  <2>3. Versions'
    BY <1>3 DEF IInv, Versions, WorkerEnds,
                clientVars, ticketVars, serviceVars, workerVars, versionVars, answerVars
  <2> QED
    BY <1>3, <2>1, <2>2, <2>3, QuietKeeps DEF IInv, Quiet, WorkerEnds,
                                              clientVars, ticketVars, serviceVars, workerVars, versionVars, answerVars
<1>4. CASE CheckReceiver
  <2>1. Shapes'
    BY <1>4 DEF IInv, Shapes, CheckReceiver,
                clientVars, ticketVars, serviceVars, workerVars, versionVars, answerVars
  <2>2. Tickets'
    BY <1>4 DEF IInv, Shapes, Tickets, CheckReceiver,
                clientVars, ticketVars, serviceVars, workerVars, versionVars, answerVars
  <2>3. Versions'
    BY <1>4 DEF IInv, Versions, CheckReceiver,
                clientVars, ticketVars, serviceVars, workerVars, versionVars, answerVars
  <2> QED
    BY <1>4, <2>1, <2>2, <2>3, QuietKeeps DEF IInv, Quiet, CheckReceiver,
                                              clientVars, ticketVars, serviceVars, workerVars, versionVars, answerVars
<1>5. CASE Evaluate
  <2>1. Shapes'
    BY <1>5 DEF IInv, Shapes, Evaluate, EvaluatedVersion,
                clientVars, ticketVars, serviceVars, workerVars, versionVars, answerVars
  <2>2. Tickets'
    BY <1>5 DEF IInv, Shapes, Tickets, Evaluate, EvaluatedVersion,
                clientVars, ticketVars, serviceVars, workerVars, versionVars, answerVars
  <2>3. Versions'
    BY <1>5 DEF IInv, Versions, Evaluate, EvaluatedVersion,
                clientVars, ticketVars, serviceVars, workerVars, versionVars, answerVars
  <2> QED
    BY <1>5, <2>1, <2>2, <2>3, QuietKeeps DEF IInv, Quiet, Evaluate,
                                              clientVars, ticketVars, serviceVars, workerVars, versionVars, answerVars
<1> QED
  BY <1>1, <1>2, <1>3, <1>4, <1>5

LEMMA ReceiverQuiet ==
    ASSUME IInv, StartUpdate \/ UpdateLoaded \/ SetVersion \/ UpdateRaises \/ FailService
    PROVE  IInv'
<1>1. CASE StartUpdate
  <2>1. Shapes'
    BY <1>1 DEF IInv, Shapes, StartUpdate,
                clientVars, ticketVars, serviceVars, workerVars, versionVars, answerVars
  <2>2. Tickets'
    BY <1>1 DEF IInv, Shapes, Tickets, StartUpdate,
                clientVars, ticketVars, serviceVars, workerVars, versionVars, answerVars
  <2>3. Versions'
    BY <1>1 DEF IInv, Versions, StartUpdate,
                clientVars, ticketVars, serviceVars, workerVars, versionVars, answerVars
  <2> QED
    BY <1>1, <2>1, <2>2, <2>3, QuietKeeps DEF IInv, Quiet, StartUpdate,
                                              clientVars, ticketVars, serviceVars, workerVars, versionVars, answerVars
<1>2. CASE UpdateLoaded
  <2>1. Shapes'
    BY <1>2 DEF IInv, Shapes, UpdateLoaded,
                clientVars, ticketVars, serviceVars, workerVars, versionVars, answerVars
  <2>2. Tickets'
    BY <1>2 DEF IInv, Shapes, Tickets, UpdateLoaded,
                clientVars, ticketVars, serviceVars, workerVars, versionVars, answerVars
  <2>3. Versions'
    BY <1>2, ServiceAssumption DEF IInv, Versions, Mixed, UpdateLoaded,
                                   clientVars, ticketVars, serviceVars, workerVars, versionVars, answerVars
  <2> QED
    BY <1>2, <2>1, <2>2, <2>3, QuietKeeps DEF IInv, Quiet, UpdateLoaded,
                                              clientVars, ticketVars, serviceVars, workerVars, versionVars, answerVars
<1>3. CASE SetVersion
  <2>1. Shapes'
    BY <1>3 DEF IInv, Shapes, SetVersion,
                clientVars, ticketVars, serviceVars, workerVars, versionVars, answerVars
  <2>2. Tickets'
    BY <1>3 DEF IInv, Shapes, Tickets, SetVersion,
                clientVars, ticketVars, serviceVars, workerVars, versionVars, answerVars
  <2>3. Versions'
    BY <1>3 DEF IInv, Versions, SetVersion,
                clientVars, ticketVars, serviceVars, workerVars, versionVars, answerVars
  <2> QED
    BY <1>3, <2>1, <2>2, <2>3, QuietKeeps DEF IInv, Quiet, SetVersion,
                                              clientVars, ticketVars, serviceVars, workerVars, versionVars, answerVars
<1>4. CASE UpdateRaises
  <2>1. Shapes'
    BY <1>4 DEF IInv, Shapes, UpdateRaises, LoadsInPlace, Mixed,
                clientVars, ticketVars, serviceVars, workerVars, versionVars, answerVars
  <2>2. Tickets'
    BY <1>4 DEF IInv, Shapes, Tickets, UpdateRaises, LoadsInPlace, Mixed,
                clientVars, ticketVars, serviceVars, workerVars, versionVars, answerVars
  <2>3. Versions'
    BY <1>4, ServiceAssumption DEF IInv, Versions, UpdateRaises, LoadsInPlace, Mixed,
                                   clientVars, ticketVars, serviceVars, workerVars, versionVars, answerVars
  <2> QED
    BY <1>4, <2>1, <2>2, <2>3, QuietKeeps DEF IInv, Quiet, UpdateRaises,
                                              clientVars, ticketVars, serviceVars, workerVars, versionVars, answerVars
<1>5. CASE FailService
  <2>1. Shapes'
    BY <1>5 DEF IInv, Shapes, FailService,
                clientVars, ticketVars, serviceVars, workerVars, versionVars, answerVars
  <2>2. Tickets'
    BY <1>5 DEF IInv, Shapes, Tickets, FailService,
                clientVars, ticketVars, serviceVars, workerVars, versionVars, answerVars
  <2>3. Versions'
    BY <1>5 DEF IInv, Versions, FailService,
                clientVars, ticketVars, serviceVars, workerVars, versionVars, answerVars
  <2> QED
    BY <1>5, <2>1, <2>2, <2>3, QuietKeeps DEF IInv, Quiet, FailService,
                                              clientVars, ticketVars, serviceVars, workerVars, versionVars, answerVars
<1> QED
  BY <1>1, <1>2, <1>3, <1>4, <1>5

LEMMA CloserQuiet ==
    ASSUME IInv, NEW c \in Clients, AnswerClosed(c)
    PROVE  IInv'
<1>1. Shapes'
  BY DEF IInv, Shapes, AnswerClosed, clientVars, workerVars
<1>2. Tickets'
  <2>1. future[c] = "pending" /\ c \notin Range(queue) /\ c \notin Range(batch)
    <3>1. closed
      BY DEF IInv, Tickets, AnswerClosed
    <3>2. Range(queue) = {}
      BY <3>1 DEF IInv, Tickets, Range
    <3> QED
      BY <3>2 DEF IInv, Tickets, AnswerClosed
  <2>2. future' = [future EXCEPT ![c] = "error"] /\ closing' = closing \ {c} /\ closed
    BY <2>1 DEF IInv, Tickets, AnswerClosed, Done
  <2> QED
    BY <2>1, <2>2 DEF IInv, Shapes, Tickets, AnswerClosed, clientVars, workerVars
<1>3. Versions'
  BY DEF IInv, Versions, AnswerClosed, clientVars, workerVars, versionVars, answerVars
<1> QED
  BY <1>1, <1>2, <1>3, QuietKeeps DEF IInv, Quiet, AnswerClosed, workerVars
-----------------------------------------------------------------------------
(* Steps that take a ticket or give one back *)

LEMMA SubmitKeeps ==
    ASSUME IInv, NEW c \in Clients, Submit(c)
    PROVE  IInv'
<1>1. CASE closed \/ failed \/ Full(c)
  <2>1. /\ client' = [client EXCEPT ![c] = "unavailable"]
        /\ UNCHANGED <<future, queue, pendingRequests, pendingTokens, versionAtSubmit, stamps, late, released,
                       abandoned, failed, closed, closing, workerVars, versionVars, answerVars>>
    BY <1>1 DEF Submit, Answer
  <2>2. Shapes'
    BY <2>1 DEF IInv, Shapes, Answers, workerVars
  <2>3. Tickets'
    BY <2>1 DEF IInv, Shapes, Tickets, workerVars
  <2>4. Versions'
    BY <2>1 DEF IInv, Versions, workerVars, versionVars, answerVars
  <2> QED
    BY <2>1, <2>2, <2>3, <2>4, QuietKeeps DEF IInv, Quiet, workerVars
<1>2. CASE ~(closed \/ failed \/ Full(c))
  <2>1. /\ client[c] = "stamped" /\ client' = [client EXCEPT ![c] = "waiting"]
        /\ future' = [future EXCEPT ![c] = "pending"]
        /\ queue' = Append(queue, c)
        /\ pendingRequests' = pendingRequests + 1 /\ pendingTokens' = pendingTokens + Tokens[c]
        /\ versionAtSubmit' = [versionAtSubmit EXCEPT ![c] = serviceVersion]
        /\ UNCHANGED <<stamps, late, released, abandoned, failed, closed, closing, workerVars,
                       versionVars, answerVars>>
    BY <1>2 DEF Submit, Answer
  <2>2. ~closed /\ pendingRequests < MaxPendingRequests /\ pendingTokens + Tokens[c] <= MaxPendingTokens
    <3>1. /\ ~closed /\ ~(pendingRequests >= MaxPendingRequests)
          /\ ~(pendingTokens + Tokens[c] > MaxPendingTokens)
      BY <1>2 DEF Full
    <3>2. MaxPendingRequests \in Nat /\ MaxPendingTokens \in Nat /\ Tokens[c] \in Nat
      BY ServiceAssumption
    <3>3. pendingRequests \in Nat /\ pendingTokens \in Nat
      BY HeldFinite, TokensIsTotal, FS_CardinalityType DEF IInv, Counters
    <3> QED
      BY <3>1, <3>2, <3>3
  <2>3. c \notin Held /\ future[c] = "none" /\ c \notin closing
    BY <2>1 DEF IInv, Shapes, Tickets, Held
  <2>4. /\ queue' \in Seq(Clients) /\ Range(queue') = Range(queue) \cup {c} /\ IsInjective(queue')
        /\ batch' = batch /\ Held' = Held \cup {c}
    <3>1. c \notin Range(queue) /\ queue \in Seq(Clients) /\ IsInjective(queue)
      BY <2>3 DEF Held, IInv, Shapes, Tickets
    <3>2. /\ Append(queue, c) \in Seq(Clients) /\ Range(Append(queue, c)) = Range(queue) \cup {c}
          /\ IsInjective(Append(queue, c))
      BY <3>1, AppendedOnce
    <3> QED
      BY <2>1, <3>2 DEF Held, workerVars
  <2>5. Shapes'
    BY <2>1, <2>4 DEF IInv, Shapes, Answers, workerVars
  <2>6. Tickets'
    <3>1. IsInjective(queue)' /\ IsInjective(batch)' /\ Range(queue)' \cap Range(batch)' = {}
      BY <2>3, <2>4 DEF IInv, Tickets, Held
    <3>2. \A x \in Range(queue)' \cup closing' : future'[x] = "pending"
      BY <2>1, <2>3, <2>4 DEF IInv, Shapes, Tickets
    <3>3. \A x \in Range(batch)' : future'[x] = "running"
      BY <2>1, <2>3, <2>4 DEF IInv, Shapes, Tickets, Held
    <3>4. \A x \in Clients : future'[x] = "pending" => x \in Range(queue)' \cup closing'
      BY <2>1, <2>4 DEF IInv, Shapes, Tickets
    <3>5. \A x \in Clients : client'[x] \in {"new", "stamped"} => future'[x] = "none"
      BY <2>1 DEF IInv, Shapes, Tickets
    <3>6. closing' \subseteq released' /\ (closed' => queue' = << >>) /\ (~closed' => closing' = {})
      BY <2>1, <2>2 DEF IInv, Tickets
    <3> QED
      BY <3>1, <3>2, <3>3, <3>4, <3>5, <3>6 DEF Tickets
  <2>7. Counters'
    <3>1. Held \in SUBSET Clients /\ IsFiniteSet(Held)
      BY HeldFinite DEF IInv
    <3>2. IsFiniteSet(Held \cup {c}) /\ Cardinality(Held \cup {c}) = Cardinality(Held) + 1
      BY <2>3, <3>1, FS_AddElement
    <3>3. TokensOf(Held \cup {c}) = TokensOf(Held) + Tokens[c]
      <4>1. \A x \in Held \cup {c} : Tokens[x] \in Nat
        BY <3>1, ServiceAssumption
      <4>2. Total(Tokens, Held \cup {c}) = Total(Tokens, Held) + Tokens[c]
        BY <2>3, <3>1, <4>1, TotalWith
      <4>3. Held \cup {c} \in SUBSET Clients
        BY <3>1
      <4>4. TokensOf(Held) = Total(Tokens, Held) /\ TokensOf(Held \cup {c}) = Total(Tokens, Held \cup {c})
        BY <3>1, <3>2, <4>3, TokensIsTotal
      <4> QED
        BY <4>2, <4>4
    <3>4. TokensOf(Held)' = TokensOf(Held \cup {c}) /\ Cardinality(Held)' = Cardinality(Held \cup {c})
      BY <2>4, TokensOfHeld
    <3>5. pendingRequests \in Nat /\ MaxPendingRequests \in Nat
      BY <3>1, FS_CardinalityType, ServiceAssumption DEF IInv, Counters
    <3>6. pendingRequests + 1 <= MaxPendingRequests
      BY <2>2, <3>5
    <3> QED
      BY <2>1, <2>2, <3>2, <3>3, <3>4, <3>6 DEF IInv, Counters
  <2>8. Versions'
    BY <2>1 DEF IInv, Versions, workerVars, versionVars, answerVars
  <2> QED
    BY <2>5, <2>6, <2>7, <2>8 DEF IInv
<1> QED
  BY <1>1, <1>2

LEMMA CancelKeeps ==
    ASSUME IInv, NEW c \in Clients, Cancel(c)
    PROVE  IInv'
<1>0. /\ client[c] = "cancelling"
      /\ UNCHANGED <<stamps, late, versionAtSubmit, failed, closed, closing, workerVars, versionVars, answerVars>>
  BY DEF Cancel
<1>1. CASE /\ client' = [client EXCEPT ![c] = "rewaiting"]
           /\ UNCHANGED <<future, queue, released, abandoned, pendingRequests, pendingTokens>>
  <2>1. Shapes'
    BY <1>0, <1>1 DEF IInv, Shapes, Answers, workerVars
  <2>2. Tickets'
    BY <1>0, <1>1 DEF IInv, Shapes, Tickets, workerVars
  <2>3. Versions'
    BY <1>0, <1>1 DEF IInv, Versions, workerVars, versionVars, answerVars
  <2> QED
    BY <1>0, <1>1, <2>1, <2>2, <2>3, QuietKeeps DEF IInv, Quiet, workerVars
<1>2. CASE /\ c \notin released /\ future[c] = "pending"
           /\ future' = [future EXCEPT ![c] = "cancelled"]
           /\ queue' = RemoveFirst(queue, c)
           /\ Release({c})
           /\ client' = [client EXCEPT ![c] = "timeout"]
           /\ UNCHANGED abandoned
  <2>1. c \in Range(queue) /\ queue \in Seq(Clients) /\ IsInjective(queue) /\ c \notin Range(batch) /\ c \notin closing
    BY <1>2 DEF IInv, Shapes, Tickets
  <2>2. /\ RemoveFirst(queue, c) \in Seq(Clients) /\ IsInjective(RemoveFirst(queue, c))
        /\ Range(RemoveFirst(queue, c)) = Range(queue) \ {c}
    BY <2>1, RemovedOnce
  <2>3. /\ queue' \in Seq(Clients) /\ IsInjective(queue') /\ Range(queue') = Range(queue) \ {c}
        /\ batch' = batch /\ Held' = Held \ {c} /\ {c} \in SUBSET Held
    BY <1>0, <1>2, <2>1, <2>2 DEF Held, workerVars
  <2>4. Shapes'
    BY <1>0, <1>2, <2>3 DEF IInv, Shapes, Answers, Release, workerVars
  <2>5. Tickets'
    <3>1. IsInjective(queue)' /\ IsInjective(batch)' /\ Range(queue)' \cap Range(batch)' = {}
      BY <2>3 DEF IInv, Tickets
    <3>2. /\ \A x \in Range(queue)' \cup closing' : future'[x] = "pending"
          /\ \A x \in Range(batch)' : future'[x] = "running"
      BY <1>0, <1>2, <2>1, <2>3 DEF IInv, Shapes, Tickets
    <3>3. \A x \in Clients : future'[x] = "pending" => x \in Range(queue)' \cup closing'
      BY <1>0, <1>2, <2>3 DEF IInv, Shapes, Tickets
    <3>4. \A x \in Clients : client'[x] \in {"new", "stamped"} => future'[x] = "none"
      BY <1>0, <1>2 DEF IInv, Shapes, Tickets
    <3>5. closing' \subseteq released' /\ (closed' => queue' = << >>) /\ (~closed' => closing' = {})
      <4>1. ~closed
        BY <2>1 DEF IInv, Tickets, Range
      <4> QED
        BY <1>0, <1>2, <4>1 DEF IInv, Tickets, Release
    <3> QED
      BY <3>1, <3>2, <3>3, <3>4, <3>5 DEF Tickets
  <2>6. Counters'
    BY <1>2, <2>3, ReleaseKeeps DEF IInv
  <2>7. Versions'
    BY <1>0, <1>2 DEF IInv, Versions, workerVars, versionVars, answerVars
  <2> QED
    BY <2>4, <2>5, <2>6, <2>7 DEF IInv
<1>3. CASE /\ abandoned' = abandoned \cup {c}
           /\ client' = [client EXCEPT ![c] = "timeout"]
           /\ UNCHANGED <<future, queue, released, pendingRequests, pendingTokens>>
  <2>1. Shapes'
    BY <1>0, <1>3 DEF IInv, Shapes, Answers, workerVars
  <2>2. Tickets'
    BY <1>0, <1>3 DEF IInv, Shapes, Tickets, workerVars
  <2>3. Versions'
    BY <1>0, <1>3 DEF IInv, Versions, workerVars, versionVars, answerVars
  <2> QED
    BY <1>0, <1>3, <2>1, <2>2, <2>3, QuietKeeps DEF IInv, Quiet, workerVars
<1> QED
  BY <1>1, <1>2, <1>3 DEF Cancel, AlreadyReleased, Answer
\* The first ticket of a batch is taken off.
LEMMA TailOnce ==
    ASSUME NEW S, NEW s \in Seq(S), IsInjective(s), s # << >>
    PROVE  /\ Head(s) \in Range(s) /\ Head(s) \in S /\ Tail(s) \in Seq(S) /\ IsInjective(Tail(s))
           /\ Range(Tail(s)) = Range(s) \ {Head(s)}
<1>0. /\ Len(s) \in Nat /\ Len(s) # 0 /\ Head(s) = s[1] /\ Head(s) \in S
      /\ Tail(s) \in Seq(S) /\ Len(Tail(s)) = Len(s) - 1
      /\ \A i \in 1 .. Len(Tail(s)) : Tail(s)[i] = s[i + 1]
  BY HeadTailProperties, EmptySeq
<1>1. PICK n \in Nat, m \in Nat : n = Len(s) /\ n = m + 1
  <2>1. Len(s) - 1 \in Nat /\ Len(s) = (Len(s) - 1) + 1
    BY <1>0
  <2> QED
    BY <1>0, <2>1, Zenon
<1>2. PICK t : t = Tail(s)
  OBVIOUS
<1>3. t \in Seq(S) /\ DOMAIN t = 1 .. m /\ \A i \in 1 .. m : t[i] = s[i + 1]
  <2>1. Len(t) = m
    BY <1>0, <1>1, <1>2
  <2>2. t \in Seq(S) /\ \A i \in 1 .. Len(t) : t[i] = s[i + 1]
    BY <1>0, <1>2
  <2>3. DOMAIN t = 1 .. Len(t)
    BY <2>2, LenProperties
  <2> QED
    BY <2>1, <2>2, <2>3
<1>4. Head(s) = s[1] /\ 1 \in 1 .. n /\ DOMAIN s = 1 .. n /\ \A i \in 1 .. n : s[i] \in S
  <2>1. 1 \in 1 .. n
    BY <1>1
  <2>2. DOMAIN s = 1 .. n /\ \A i \in 1 .. n : s[i] \in S
    BY <1>1, LenProperties, ElementOfSeq
  <2> QED
    BY <1>0, <2>1, <2>2
<1>5. \A i \in 1 .. m : i + 1 \in 1 .. n /\ i + 1 # 1
  BY <1>1
<1>6. \A j \in 1 .. n : j = 1 \/ \E i \in 1 .. m : j = i + 1
  <2> SUFFICES ASSUME NEW j \in 1 .. n, j # 1 PROVE \E i \in 1 .. m : j = i + 1
    OBVIOUS
  <2>1. j - 1 \in 1 .. m /\ j = (j - 1) + 1
    BY <1>1
  <2> QED
    BY <2>1
<1>7. IsInjective(t)
  <2> SUFFICES ASSUME NEW a \in 1 .. m, NEW b \in 1 .. m, t[a] = t[b] PROVE a = b
    BY <1>3 DEF IsInjective
  <2>1. a + 1 = b + 1
    <3>1. s[a + 1] = s[b + 1] /\ a + 1 \in DOMAIN s /\ b + 1 \in DOMAIN s
      BY <1>3, <1>4, <1>5, Zenon
    <3> QED
      BY <3>1, Zenon DEF IsInjective
  <2> QED
    BY <2>1
<1>8. Range(t) = Range(s) \ {Head(s)}
  <2>1. Range(t) = {t[i] : i \in 1 .. m} /\ Range(s) = {s[j] : j \in 1 .. n}
    BY <1>3, <1>4 DEF Range
  <2>2. ASSUME NEW i \in 1 .. m PROVE t[i] \in Range(s) /\ t[i] # Head(s)
    <3>1. t[i] = s[i + 1] /\ i + 1 \in 1 .. n /\ i + 1 # 1
      BY <1>3, <1>5
    <3> QED
      BY <1>4, <2>1, <3>1 DEF IsInjective
  <2>3. \A j \in 1 .. n : s[j] # Head(s) => s[j] \in Range(t)
    BY <1>3, <1>4, <1>6, <2>1
  <2> QED
    BY <2>1, <2>2, <2>3
<1> QED
  <2>1. Head(s) \in Range(s)
    BY <1>4 DEF Range
  <2> QED
    BY <1>0, <1>2, <1>7, <1>8, <2>1

LEMMA ResolveKeeps ==
    ASSUME IInv, Resolve
    PROVE  IInv'
<1>1. PICK c : c = Head(batch)
  OBVIOUS
<1>2. /\ batch \in Seq(Clients) /\ IsInjective(batch) /\ batch # << >>
      /\ batch' = Tail(batch) /\ Release({c})
      /\ worker \in {"complete", "fail"} /\ worker' \in {"take", worker}
      /\ batchVersion' \in {0, batchVersion} /\ batchWeights' \in {0, batchWeights}
      /\ UNCHANGED <<clientVars, queue, abandoned, failed, closed, closing, versionVars>>
  BY <1>1 DEF IInv, Shapes, Tickets, Resolve, ReleaseAnswered
<1>3. /\ c \in Range(batch) /\ c \in Clients /\ batch' \in Seq(Clients) /\ IsInjective(batch')
      /\ Range(batch') = Range(batch) \ {c}
  BY <1>1, <1>2, TailOnce
<1>4. \/ UNCHANGED <<future, answerVars>>
      \/ /\ future' = [future EXCEPT ![c] = "result"] \/ future' = [future EXCEPT ![c] = "error"]
         /\ answerVersion' = [answerVersion EXCEPT ![c] = batchVersion]
         /\ answerWeights' = [answerWeights EXCEPT ![c] = batchWeights]
  BY <1>1 DEF Resolve
<1>5. c \notin Range(queue) /\ c \notin closing /\ future[c] = "running"
  BY <1>3 DEF IInv, Shapes, Tickets
<1>6. Shapes'
  BY <1>2, <1>3, <1>4 DEF IInv, Shapes, Release, clientVars, answerVars
<1>7. Tickets'
  <2>1. /\ IsInjective(queue)' /\ IsInjective(batch)' /\ Range(queue)' \cap Range(batch)' = {}
        /\ Range(queue)' = Range(queue) /\ Range(batch)' = Range(batch) \ {c}
    BY <1>2, <1>3 DEF IInv, Tickets
  <2>2. \A x \in Clients : x # c => future'[x] = future[x]
    BY <1>4 DEF IInv, Shapes, answerVars
  <2>3. future'[c] # "pending"
    BY <1>3, <1>4, <1>5 DEF IInv, Shapes, answerVars
  <2>4. /\ \A x \in Range(queue)' \cup closing' : future'[x] = "pending"
        /\ \A x \in Range(batch)' : future'[x] = "running"
    <3>1. Range(queue) \subseteq Clients /\ Range(batch) \subseteq Clients /\ closing \subseteq Clients
      BY RangeCounts DEF IInv, Shapes
    <3> QED
      BY <1>2, <1>5, <2>1, <2>2, <3>1 DEF IInv, Tickets
  <2>5. \A x \in Clients : future'[x] = "pending" => x \in Range(queue)' \cup closing'
    BY <1>2, <2>1, <2>2, <2>3 DEF IInv, Tickets
  <2>6. \A x \in Clients : client'[x] \in {"new", "stamped"} => future'[x] = "none"
    BY <1>2, <1>5, <2>2 DEF IInv, Tickets, clientVars
  <2>7. closing' \subseteq released' /\ (closed' => queue' = << >>) /\ (~closed' => closing' = {})
    BY <1>2 DEF IInv, Tickets, Release
  <2> QED
    BY <2>1, <2>4, <2>5, <2>6, <2>7 DEF Tickets
<1>8. Counters'
  <2>1. Held' = Held \ {c} /\ {c} \in SUBSET Held
    BY <1>2, <1>3, <1>5 DEF Held
  <2> QED
    BY <1>2, <2>1, ReleaseKeeps DEF IInv
<1>9. Versions'
  <2>1. /\ batchVersion \in 0 .. MaxVersion /\ batchVersion' \in 0 .. MaxVersion
        /\ batchWeights \in Mixed .. MaxVersion /\ batchWeights' \in Mixed .. MaxVersion
    BY <1>2, ServiceAssumption, SMTT(30) DEF IInv, Versions, Mixed
  <2>2. answerVersion' \in [Clients -> 0 .. MaxVersion] /\ answerWeights' \in [Clients -> Mixed .. MaxVersion]
    BY <1>3, <1>4, <2>1 DEF IInv, Versions, answerVars
  <2> QED
    BY <1>2, <2>1, <2>2 DEF IInv, Versions, clientVars, versionVars
<1> QED
  BY <1>6, <1>7, <1>8, <1>9 DEF IInv

LEMMA CloseKeeps ==
    ASSUME IInv, Close
    PROVE  IInv'
<1>1. /\ ~closed /\ closed' = TRUE /\ closing' = Range(queue) /\ queue' = << >>
      /\ Release(Range(queue)) /\ closing = {}
      /\ UNCHANGED <<clientVars, future, abandoned, failed, workerVars, versionVars, answerVars>>
  BY DEF IInv, Tickets, Close
<1>2. Range(queue) \in SUBSET Clients /\ Range(batch) \in SUBSET Clients
  BY RangeCounts DEF IInv, Shapes
<1>3. Range(<< >>) = {} /\ IsInjective(<< >>)
  BY DEF Range, IsInjective
<1>4. Shapes'
  BY <1>1, <1>2 DEF IInv, Shapes, Release, clientVars, workerVars
<1>5. Tickets'
  BY <1>1, <1>2, <1>3 DEF IInv, Shapes, Tickets, Release, clientVars, workerVars
<1>6. Counters'
  <2>1. Held' = Held \ Range(queue) /\ Range(queue) \in SUBSET Held
    BY <1>1, <1>3 DEF IInv, Tickets, Held, workerVars
  <2> QED
    BY <1>1, <2>1, ReleaseKeeps DEF IInv
<1>7. Versions'
  BY <1>1 DEF IInv, Versions, clientVars, workerVars, versionVars, answerVars
<1> QED
  BY <1>4, <1>5, <1>6, <1>7 DEF IInv
LEMMA UsedUpIsThere ==
    ASSUME Shapes
    PROVE  UsedUp(batch) \in 0 .. Len(queue)
<1> DEFINE held(i) == Range(batch) \cup {c \in Range(SubSeq(queue, 1, i)) : ~Late(c)}
           goesOn(i) ==
               \/ held(i - 1) = {}
               \/ /\ TokensOf(held(i - 1)) < MaxBatchTokens
                  /\ Late(queue[i]) \/ TokensOf(held(i - 1)) + Tokens[queue[i]] <= MaxBatchTokens
           K == {k \in 0 .. Len(queue) : \A i \in 1 .. k : goesOn(i)}
<1>1. UsedUp(batch) = Max(K)
  BY DEF UsedUp
<1> HIDE DEF goesOn
<1>2. PICK n \in Nat : n = Len(queue)
  BY LenProperties DEF Shapes
<1>3. K \in SUBSET (0 .. n) /\ 0 \in K
  BY <1>2
<1> HIDE DEF K
<1>4. Max(K) \in K
  BY <1>3, MaxIsThere
<1> QED
  BY <1>1, <1>2, <1>3, <1>4

\* What growing the batch does to queue and batch.
LEMMA GrowMoves ==
    ASSUME Shapes, Tickets, GrowBatch
    PROVE  \E expired, moved \in SUBSET Clients :
              /\ expired \cap moved = {} /\ expired \subseteq Range(queue) /\ moved \subseteq Range(queue)
              /\ queue' \in Seq(Clients) /\ IsInjective(queue')
              /\ Range(queue') = Range(queue) \ (expired \cup moved)
              /\ batch' \in Seq(Clients) /\ IsInjective(batch') /\ Range(batch') = Range(batch) \cup moved
              /\ Release(expired)
              /\ future' = [c \in Clients |-> IF c \in expired THEN "timeout"
                                              ELSE IF c \in Range(batch') THEN "running" ELSE future[c]]
<1>1. PICK n \in Nat : n = Len(queue)
  BY LenProperties DEF Shapes
<1>2. PICK k \in 0 .. n : k = UsedUp(batch)
  BY <1>1, UsedUpIsThere
<1>3. PICK head, rest : head = SubSeq(queue, 1, k) /\ rest = SubSeq(queue, k + 1, n)
  OBVIOUS
<1>4. PICK expired : expired = {c \in Range(head) : Late(c)}
  OBVIOUS
<1>5. /\ queue' = rest /\ Release(expired)
      /\ \E taken \in InOrderOf(head, Range(head) \ expired) : batch' = batch \o taken
      /\ future' = [c \in Clients |-> IF c \in expired THEN "timeout"
                                      ELSE IF c \in Range(batch') THEN "running" ELSE future[c]]
  BY <1>1, <1>2, <1>3, <1>4, Zenon DEF GrowBatch
<1>6. queue \in Seq(Clients) /\ IsInjective(queue) /\ batch \in Seq(Clients) /\ IsInjective(batch)
  BY DEF Shapes, Tickets
<1>7. /\ head \in Seq(Clients) /\ rest \in Seq(Clients) /\ IsInjective(head) /\ IsInjective(rest)
      /\ Range(head) = Slice(queue, 1, k) /\ Range(rest) = Slice(queue, k + 1, n)
      /\ Range(head) \cap Range(rest) = {}
  <2>1. k \in k .. n
    BY <1>2
  <2>2. /\ SubSeq(queue, 1, k) \in Seq(Clients) /\ SubSeq(queue, k + 1, n) \in Seq(Clients)
        /\ IsInjective(SubSeq(queue, 1, k)) /\ IsInjective(SubSeq(queue, k + 1, n))
        /\ Range(SubSeq(queue, 1, k)) = Slice(queue, 1, k)
        /\ Range(SubSeq(queue, k + 1, n)) = Slice(queue, k + 1, n)
        /\ Range(SubSeq(queue, 1, k)) \cap Range(SubSeq(queue, k + 1, n)) = {}
    BY <1>1, <1>6, <2>1, CutOnce
  <2> QED
    BY <1>3, <2>2
<1>8. Range(queue) = Range(head) \cup Range(rest)
  <2>1. Range(queue) = {queue[i] : i \in 1 .. n}
    BY <1>1, <1>6, LenProperties DEF Range
  <2>2. \A i \in 1 .. n : i \in 1 .. k \/ i \in k + 1 .. n
    BY <1>2
  <2>3. (\A i \in 1 .. k : i \in 1 .. n) /\ (\A i \in k + 1 .. n : i \in 1 .. n)
    BY <1>2
  <2> QED
    BY <1>7, <2>1, <2>2, <2>3 DEF Slice
<1>9. PICK moved : moved = Range(head) \ expired
  OBVIOUS
<1>10. /\ Range(head) \in SUBSET Clients /\ IsFiniteSet(Range(head))
       /\ moved \in SUBSET Clients /\ expired \in SUBSET Clients /\ IsFiniteSet(moved)
  <2>1. Range(head) \in SUBSET Clients /\ IsFiniteSet(Range(head))
    BY <1>7, RangeCounts
  <2>2. moved \in SUBSET Range(head)
    BY <1>9
  <2> QED
    BY <1>4, <2>1, <2>2, FS_Subset
<1>11. PICK taken \in SetToSeqs(moved) : batch' = batch \o taken
  BY <1>5, <1>9 DEF InOrderOf
<1>12. taken \in Seq(Clients) /\ IsInjective(taken) /\ Range(taken) = moved
  BY <1>10, ListsAll
<1>13. Range(batch) \cap Range(taken) = {}
  BY <1>8, <1>9, <1>12 DEF Tickets
<1>14. /\ batch' \in Seq(Clients) /\ IsInjective(batch') /\ Range(batch') = Range(batch) \cup moved
  BY <1>6, <1>11, <1>12, <1>13, JoinedOnce
<1>15. Range(queue') = Range(queue) \ (expired \cup moved)
  BY <1>4, <1>5, <1>7, <1>8, <1>9
<1>16. expired \cap moved = {} /\ expired \subseteq Range(queue) /\ moved \subseteq Range(queue)
  BY <1>4, <1>8, <1>9
<1> QED
  BY <1>5, <1>7, <1>10, <1>14, <1>15, <1>16

LEMMA TakeKeeps ==
    ASSUME IInv, TakeBatch
    PROVE  IInv'
<1>1. PICK expired \in SUBSET Clients, moved \in SUBSET Clients :
         /\ expired \cap moved = {} /\ expired \subseteq Range(queue) /\ moved \subseteq Range(queue)
         /\ queue' \in Seq(Clients) /\ IsInjective(queue')
         /\ Range(queue') = Range(queue) \ (expired \cup moved)
         /\ batch' \in Seq(Clients) /\ IsInjective(batch') /\ Range(batch') = Range(batch) \cup moved
         /\ Release(expired)
         /\ future' = [c \in Clients |-> IF c \in expired THEN "timeout"
                                         ELSE IF c \in Range(batch') THEN "running" ELSE future[c]]
  BY GrowMoves DEF IInv, TakeBatch
<1>2. /\ worker' \in {"take", "run", "gather"} /\ queue # << >>
      /\ UNCHANGED <<clientVars, abandoned, failed, closed, closing, batchVersion, batchWeights, versionVars, answerVars>>
  BY DEF TakeBatch
<1>3. ~closed /\ closing = {}
  BY <1>2 DEF IInv, Tickets
<1>4. Range(queue) \in SUBSET Clients /\ Range(batch) \in SUBSET Clients /\ Range(queue) \cap Range(batch) = {}
  BY RangeCounts DEF IInv, Shapes, Tickets
<1>5. future' \in [Clients -> {"none", "pending", "running", "cancelled", "result", "timeout", "error"}]
  BY <1>1 DEF IInv, Shapes
<1>6. Shapes'
  BY <1>1, <1>2, <1>5 DEF IInv, Shapes, Release, clientVars
<1>7. Tickets'
  <2>1. IsInjective(queue)' /\ IsInjective(batch)' /\ Range(queue)' \cap Range(batch)' = {}
    BY <1>1, <1>4
  <2>2. \A x \in Range(queue)' \cup closing' : future'[x] = "pending"
    BY <1>1, <1>2, <1>3, <1>4 DEF IInv, Tickets
  <2>3. \A x \in Range(batch)' : future'[x] = "running"
    BY <1>1, <1>4
  <2>4. \A x \in Clients : future'[x] = "pending" => x \in Range(queue)' \cup closing'
    BY <1>1, <1>2, <1>3, <1>4 DEF IInv, Tickets
  <2>5. \A x \in Clients : client'[x] \in {"new", "stamped"} => future'[x] = "none"
    <3> SUFFICES ASSUME NEW x \in Clients, client[x] \in {"new", "stamped"} PROVE future'[x] = "none"
      BY <1>2 DEF clientVars
    <3>1. future[x] = "none" /\ x \notin Range(queue) /\ x \notin Range(batch)
      BY DEF IInv, Tickets
    <3> QED
      BY <1>1, <3>1
  <2>6. closing' \subseteq released' /\ (closed' => queue' = << >>) /\ (~closed' => closing' = {})
    BY <1>2, <1>3
  <2> QED
    BY <2>1, <2>2, <2>3, <2>4, <2>5, <2>6 DEF Tickets
<1>8. Counters'
  <2>1. Held' = Held \ expired /\ expired \in SUBSET Held
    BY <1>1, <1>4 DEF Held
  <2> QED
    BY <1>1, <2>1, ReleaseKeeps DEF IInv
<1>9. Versions'
  BY <1>2 DEF IInv, Versions, clientVars, versionVars, answerVars
<1> QED
  BY <1>6, <1>7, <1>8, <1>9 DEF IInv

-----------------------------------------------------------------------------
(* The theorems *)

\* Every reachable state satisfies the inductive invariant: each ticket is queued or
\* in a batch at most once, its future says where it is, and the counters that
\* _submit reads (service.py) are the number and the tokens of those tickets.
THEOREM ServiceInductive == Spec => []IInv
<1>1. Init => IInv
  <2> SUFFICES ASSUME Init PROVE IInv
    OBVIOUS
  <2>1. Range(<< >>) = {} /\ IsInjective(<< >>)
    BY DEF Range, IsInjective
  <2>2. Shapes
    <3>1. << >> \in Seq(Clients) /\ Len(<< >>) = 0
      BY EmptySeq
    <3>2. late \in 0 .. Len(stamps)
      BY <3>1 DEF Init
    <3> QED
      BY <3>1, <3>2 DEF Init, Shapes, Answers
  <2>3. Tickets
    BY <2>1 DEF Init, Tickets
  <2>4. Counters
    <3>1. Held = {}
      BY <2>1 DEF Init, Held
    <3>2. TokensOf({}) = 0 /\ Cardinality({}) = 0
      BY FS_EmptySet, TokensIsTotal, TotalOfNone
    <3> QED
      BY <3>1, <3>2, ServiceAssumption DEF Init, Counters
  <2>5. Versions
    BY ServiceAssumption DEF Init, Versions, Mixed
  <2> QED
    BY <2>2, <2>3, <2>4, <2>5 DEF IInv
<1>2. IInv /\ [Next]_vars => IInv'
  <2> SUFFICES ASSUME IInv, [Next]_vars PROVE IInv'
    OBVIOUS
  <2>1. ASSUME NEW c \in Clients, Handler(c) PROVE IInv'
    BY <2>1, HandlerQuiet, SubmitKeeps, CancelKeeps DEF Handler
  <2>2. CASE DeadlinePasses
    BY <2>2, WorkerQuiet
  <2>3. CASE Worker
    BY <2>3, WorkerQuiet, TakeKeeps, ResolveKeeps DEF Worker
  <2>4. CASE Receiver
    BY <2>4, ReceiverQuiet DEF Receiver
  <2>5. CASE Close
    BY <2>5, CloseKeeps
  <2>6. CASE Closer
    BY <2>6, CloserQuiet DEF Closer
  <2>7. CASE UNCHANGED vars
    <3>1. Shapes'
      BY <2>7 DEF IInv, Shapes, vars, clientVars, ticketVars, serviceVars, workerVars
    <3>2. Tickets'
      BY <2>7 DEF IInv, Tickets, vars, clientVars, ticketVars, serviceVars, workerVars
    <3>3. Versions'
      BY <2>7 DEF IInv, Versions, vars, clientVars, workerVars, versionVars, answerVars
    <3> QED
      BY <2>7, <3>1, <3>2, <3>3, QuietKeeps DEF IInv, Quiet, vars, serviceVars, workerVars
  <2> QED
    BY <2>1, <2>2, <2>3, <2>4, <2>5, <2>6, <2>7 DEF Next
<1> QED
  BY <1>1, <1>2, PTL DEF Spec
\* Every variable keeps its type, and the admission counters stay within the limits
\* of the request plane, whatever the threads do (_submit and _release, service.py).
THEOREM ServiceTypes == Spec => []TypeOK
<1>1. IInv => TypeOK
  <2> SUFFICES ASSUME IInv PROVE TypeOK
    OBVIOUS
  <2>1. Range(stamps) \in SUBSET Clients /\ Range(queue) \in SUBSET Clients /\ Range(batch) \in SUBSET Clients
    BY RangeCounts DEF IInv, Shapes
  <2>2. pendingRequests \in 0 .. MaxPendingRequests /\ pendingTokens \in 0 .. MaxPendingTokens
    <3>1. pendingRequests \in Nat /\ pendingTokens \in Nat
      BY HeldFinite, TokensIsTotal, FS_CardinalityType DEF IInv, Counters
    <3>2. MaxPendingRequests \in Nat /\ MaxPendingTokens \in Nat
      BY ServiceAssumption
    <3> QED
      BY <3>1, <3>2 DEF IInv, Counters
  <2> QED
    BY <2>1, <2>2 DEF IInv, Shapes, Versions, TypeOK
<1> QED
  BY <1>1, ServiceInductive, PTL

\* For any clients, requests and limits: no order of timeout, expiry, cancel, answer
\* and close frees a slot twice or never, and no thread finds a future already set
\* (submit, cancel, take_batch, complete, fail and close of service.py).
THEOREM ServicePending == Spec => []PendingMatchesTickets
<1>1. IInv => PendingMatchesTickets
  <2> SUFFICES ASSUME IInv PROVE PendingMatchesTickets
    OBVIOUS
  <2>1. /\ Range(queue) \in SUBSET Clients /\ IsFiniteSet(Range(queue)) /\ Cardinality(Range(queue)) = Len(queue)
        /\ Range(batch) \in SUBSET Clients /\ IsFiniteSet(Range(batch)) /\ Cardinality(Range(batch)) = Len(batch)
        /\ Len(queue) \in Nat /\ Len(batch) \in Nat
    BY RangeCounts, LenProperties DEF IInv, Shapes, Tickets
  <2>2. Range(queue) \cap Range(batch) = {}
    BY DEF IInv, Tickets
  <2>3. Cardinality(Held) = Len(queue) + Len(batch)
    <3>1. Cardinality(Held) = Cardinality(Range(queue)) + Cardinality(Range(batch)) - Cardinality({})
      BY <2>1, <2>2, FS_Union DEF Held
    <3> QED
      BY <2>1, <3>1, FS_EmptySet
  <2>4. TokensOf(Held) = TokensOf(Range(queue)) + TokensOf(Range(batch))
    <3>1. \A c \in Range(queue) \cup Range(batch) : Tokens[c] \in Nat
      BY <2>1, ServiceAssumption
    <3>2. Total(Tokens, Held) = Total(Tokens, Range(queue)) + Total(Tokens, Range(batch))
      BY <2>1, <2>2, <3>1, TotalOfUnion DEF Held
    <3>3. /\ TokensOf(Range(queue)) = Total(Tokens, Range(queue))
          /\ TokensOf(Range(batch)) = Total(Tokens, Range(batch))
      BY <2>1, TokensIsTotal
    <3>4. TokensOf(Held) = Total(Tokens, Held)
      BY HeldFinite, TokensIsTotal DEF IInv
    <3> QED
      BY <3>2, <3>3, <3>4
  <2> QED
    BY <2>3, <2>4 DEF IInv, Counters, Tickets, PendingMatchesTickets
<1> QED
  BY <1>1, ServiceInductive, PTL

-----------------------------------------------------------------------------
(***************************************************************************)
(* With two copies of the weights an update never touches the copy that    *)
(* serves, so what evaluate uses is what it reports.  The versions follow  *)
(* one another: submitted under <= announced <= loaded <= evaluated with.  *)
(***************************************************************************)
Fresh ==
    /\ weights = modelVersion /\ serviceVersion <= modelVersion
    /\ \A c \in Clients : versionAtSubmit[c] <= serviceVersion
    /\ worker = "complete" => /\ batchWeights = batchVersion
                              /\ \A c \in Range(batch) : versionAtSubmit[c] <= batchVersion
    /\ \A c \in Clients : future[c] = "result" => /\ answerWeights[c] = answerVersion[c]
                                                  /\ versionAtSubmit[c] <= answerVersion[c]
    /\ \A c \in Clients : client[c] = "result" => future[c] = "result"

LEMMA HandlerFresh ==
    ASSUME IInv, Fresh, NEW c \in Clients, Handler(c)
    PROVE  Fresh'
<1>1. CASE Stamp(c)
  BY <1>1 DEF IInv, Shapes, Fresh, Stamp, Answer,
              clientVars, ticketVars, serviceVars, workerVars, versionVars, answerVars
<1>2. CASE ResultReady(c)
  BY <1>2 DEF IInv, Shapes, Fresh, ResultReady, Answer,
              clientVars, ticketVars, serviceVars, workerVars, versionVars, answerVars
<1>3. CASE WaitTimesOut(c)
  BY <1>3 DEF IInv, Shapes, Fresh, WaitTimesOut,
              clientVars, ticketVars, serviceVars, workerVars, versionVars, answerVars
<1>4. CASE Submit(c)
  <2>1. UNCHANGED <<workerVars, versionVars, answerVars>> /\ future[c] = "none" /\ c \notin Range(batch)
    BY <1>4 DEF IInv, Shapes, Tickets, Submit
  <2>2. CASE UNCHANGED <<future, versionAtSubmit>> /\ client' = [client EXCEPT ![c] = "unavailable"]
    BY <2>1, <2>2 DEF IInv, Shapes, Fresh, workerVars, versionVars, answerVars
  <2>3. CASE /\ client' = [client EXCEPT ![c] = "waiting"] /\ future' = [future EXCEPT ![c] = "pending"]
             /\ versionAtSubmit' = [versionAtSubmit EXCEPT ![c] = serviceVersion]
    <3>1. \A x \in Clients : versionAtSubmit'[x] <= serviceVersion'
      BY <2>1, <2>3 DEF IInv, Versions, Fresh, versionVars
    <3>2. worker' = "complete" => \A x \in Range(batch)' : versionAtSubmit'[x] <= batchVersion'
      <4>1. Range(batch) \in SUBSET Clients
        BY RangeCounts DEF IInv, Shapes
      <4> QED
        BY <2>1, <2>3, <4>1 DEF IInv, Versions, Fresh, workerVars
    <3>3. \A x \in Clients : future'[x] = "result" => /\ answerWeights'[x] = answerVersion'[x]
                                                      /\ versionAtSubmit'[x] <= answerVersion'[x]
      BY <2>1, <2>3 DEF IInv, Shapes, Versions, Fresh, answerVars
    <3>4. \A x \in Clients : client'[x] = "result" => future'[x] = "result"
      BY <2>1, <2>3 DEF IInv, Shapes, Fresh
    <3> QED
      BY <2>1, <3>1, <3>2, <3>3, <3>4 DEF Fresh, workerVars, versionVars
  <2> QED
    BY <1>4, <2>2, <2>3 DEF Submit, Answer
<1>5. CASE Cancel(c)
  <2>1. /\ UNCHANGED <<workerVars, versionVars, answerVars, versionAtSubmit>>
        /\ client' = [client EXCEPT ![c] = "rewaiting"] \/ client' = [client EXCEPT ![c] = "timeout"]
        /\ \/ future' = future
           \/ future[c] = "pending" /\ future' = [future EXCEPT ![c] = "cancelled"]
        /\ client[c] # "result"
    BY <1>5 DEF Cancel, Answer
  <2> QED
    BY <2>1 DEF IInv, Shapes, Fresh, workerVars, versionVars, answerVars
<1> QED
  BY <1>1, <1>2, <1>3, <1>4, <1>5 DEF Handler

LEMMA WorkerFresh ==
    ASSUME IInv, Fresh, Worker
    PROVE  Fresh'
<1>1. CASE StopGathering \/ WorkerEnds \/ CheckReceiver
  BY <1>1 DEF Fresh, StopGathering, WorkerEnds, CheckReceiver, clientVars, ticketVars, serviceVars, versionVars, answerVars
<1>2. CASE Evaluate
  <2>1. Range(batch) \in SUBSET Clients
    BY RangeCounts DEF IInv, Shapes
  <2>2. \A c \in Range(batch) : versionAtSubmit[c] <= modelVersion
    BY <2>1 DEF IInv, Versions, Fresh
  <2> QED
    BY <1>2, <2>2 DEF Fresh, Evaluate, EvaluatedVersion, clientVars, ticketVars, versionVars, answerVars
<1>3. CASE TakeBatch
  <2>1. PICK expired \in SUBSET Clients, moved \in SUBSET Clients :
           /\ expired \subseteq Range(queue) /\ moved \subseteq Range(queue)
           /\ Range(batch') = Range(batch) \cup moved
           /\ future' = [c \in Clients |-> IF c \in expired THEN "timeout"
                                           ELSE IF c \in Range(batch') THEN "running" ELSE future[c]]
    BY <1>3, GrowMoves DEF IInv, TakeBatch
  <2>2. worker' # "complete" /\ UNCHANGED <<clientVars, versionVars, answerVars>>
    BY <1>3 DEF TakeBatch
  <2>3. \A c \in Clients : future[c] = "result" => c \notin expired /\ c \notin Range(batch')
    BY <2>1 DEF IInv, Tickets
  <2>4. \A c \in Clients : future'[c] = "result" <=> future[c] = "result"
    BY <2>1, <2>3
  <2> QED
    BY <2>2, <2>4 DEF Fresh, clientVars, versionVars, answerVars
<1>4. CASE Resolve
  <2>1. PICK c : c = Head(batch)
    OBVIOUS
  <2>2. /\ c \in Range(batch) /\ c \in Clients /\ Range(batch') \subseteq Range(batch)
    <3>1. batch \in Seq(Clients) /\ IsInjective(batch) /\ batch # << >> /\ batch' = Tail(batch)
      BY <1>4 DEF IInv, Shapes, Tickets, Resolve
    <3> QED
      BY <2>1, <3>1, TailOnce
  <2>3. UNCHANGED <<clientVars, versionVars>>
    BY <1>4 DEF Resolve
  <2>4. worker' = "complete" => worker = "complete" /\ batchVersion' = batchVersion /\ batchWeights' = batchWeights
    BY <1>4 DEF Resolve
  <2>5. future[c] = "running"
    BY <2>2 DEF IInv, Tickets
  <2>6. CASE UNCHANGED <<future, answerVars>>
    BY <2>2, <2>3, <2>4, <2>6 DEF Fresh, clientVars, versionVars, answerVars
  <2>7. CASE /\ future' = [future EXCEPT ![c] = IF worker = "complete" THEN "result" ELSE "error"]
             /\ answerVersion' = [answerVersion EXCEPT ![c] = batchVersion]
             /\ answerWeights' = [answerWeights EXCEPT ![c] = batchWeights]
    <3>1. \A x \in Clients : future'[x] = "result" => /\ answerWeights'[x] = answerVersion'[x]
                                                      /\ versionAtSubmit'[x] <= answerVersion'[x]
      BY <2>2, <2>3, <2>7 DEF IInv, Shapes, Versions, Fresh, clientVars
    <3>2. \A x \in Clients : client'[x] = "result" => future'[x] = "result"
      BY <2>2, <2>3, <2>5, <2>7 DEF IInv, Shapes, Fresh, clientVars
    <3> QED
      BY <2>2, <2>3, <2>4, <3>1, <3>2 DEF Fresh, clientVars, versionVars
  <2> QED
    BY <1>4, <2>1, <2>6, <2>7 DEF Resolve
<1> QED
  BY <1>1, <1>2, <1>3, <1>4 DEF Worker

LEMMA OthersFresh ==
    ASSUME DoubleBuffer = TRUE, IInv, Fresh, Receiver \/ DeadlinePasses \/ Close \/ Closer \/ UNCHANGED vars
    PROVE  Fresh'
<1>1. CASE DeadlinePasses \/ StartUpdate \/ FailService \/ Close \/ UNCHANGED vars
  BY <1>1 DEF Fresh, DeadlinePasses, StartUpdate, FailService, Close, vars, clientVars, ticketVars, serviceVars,
              workerVars, versionVars, answerVars
<1>2. CASE UpdateLoaded
  BY <1>2 DEF IInv, Versions, Fresh, UpdateLoaded, clientVars, ticketVars, workerVars, answerVars
<1>3. CASE SetVersion
  BY <1>3 DEF IInv, Versions, Fresh, SetVersion, clientVars, ticketVars, workerVars, answerVars
<1>4. CASE UpdateRaises
  BY <1>4 DEF Fresh, UpdateRaises, LoadsInPlace, clientVars, ticketVars, workerVars, answerVars
<1>5. CASE Closer
  <2>1. PICK c \in Clients : AnswerClosed(c)
    BY <1>5 DEF Closer
  <2>2. future[c] = "pending"
    BY <2>1 DEF IInv, Tickets, AnswerClosed
  <2> QED
    BY <2>1, <2>2 DEF IInv, Shapes, Fresh, AnswerClosed, Done, clientVars, workerVars, versionVars, answerVars
<1> QED
  BY <1>1, <1>2, <1>3, <1>4, <1>5 DEF Receiver

\* With double_buffer_weights every answer comes from the weights of one update, the one
\* it reports, and from no older version than GET /version gave when the request
\* was admitted, for any number of updates, also failing ones (evaluator.py).
THEOREM ServiceCoherent ==
    ASSUME DoubleBuffer = TRUE
    PROVE  Spec => []AnswerIsCoherent
<1>1. Init => Fresh
  BY DEF Init, Fresh
<1>2. IInv /\ Fresh /\ [Next]_vars => Fresh'
  BY HandlerFresh, WorkerFresh, OthersFresh DEF Next
<1>3. IInv /\ Fresh => AnswerIsCoherent
  BY DEF IInv, Versions, Fresh, AnswerIsCoherent
<1> QED
  BY <1>1, <1>2, <1>3, ServiceInductive, PTL DEF Spec
===============================================================================
