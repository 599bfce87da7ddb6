---------------------------- MODULE ValueService ----------------------------
(***************************************************************************)
(* The value request plane (src/prime_rl/value/service.py) as the          *)
(* dedicated evaluator runs it (src/prime_rl/value/evaluator.py): HTTP     *)
(* threads that submit a request and wait for its future, the worker that  *)
(* takes batches and answers them, the thread that receives new weights,   *)
(* and the shutdown.                                                       *)
(*                                                                         *)
(* A step is what a thread does under one hold of the service's condition  *)
(* (or of the model lock), or between two of them.  A thread makes one     *)
(* request, so its name is also the name of its ticket.                    *)
(*                                                                         *)
(* Time is the order in which deadlines pass.  admitted_at is read before  *)
(* the lock is taken and every request has the same timeout, so deadlines  *)
(* pass in the order of the stamps, which need not be the queue's order.   *)
(***************************************************************************)
EXTENDS Integers, FiniteSets, Sequences, FiniteSetsExt, SequencesExt

CONSTANTS
    Clients,              \* HTTP handler threads
    Tokens,               \* tokens of each client's request
    MaxPendingRequests, MaxPendingTokens, MaxBatchTokens,
    DoubleBuffer,         \* evaluator.double_buffer_weights
    MaxVersion            \* bound: weight updates received

ASSUME ServiceAssumption ==
    /\ Tokens \in [Clients -> Nat \ {0}]
    /\ {MaxPendingRequests, MaxPendingTokens, MaxBatchTokens} \subseteq Nat \ {0}
    /\ DoubleBuffer \in BOOLEAN
    /\ MaxVersion \in Nat

VARIABLES
    client,           \* where each HTTP thread is
    future,           \* the future of each ticket
    stamps, late,     \* tickets by admitted_at; how many of them are past their deadline
    queue,            \* _queue
    released, abandoned,
    pendingRequests, pendingTokens,
    failed, closed,   \* _error is set; _closed
    closing,          \* tickets that close() has released and not yet answered
    worker, batch,    \* the worker thread and the tickets it holds
    receiver,         \* the thread that receives weights
    weights,          \* the update that the serving model's parameters come from
    modelVersion, serviceVersion,    \* the versions the runtime and the service report
    batchVersion, batchWeights,      \* what evaluate reported for the batch, and used
    versionAtSubmit,                 \* history: serviceVersion when a ticket was admitted
    answerVersion, answerWeights     \* the same for a successful answer

clientVars == <<client, stamps, late, versionAtSubmit>>
ticketVars == <<future, released, abandoned>>
serviceVars == <<queue, pendingRequests, pendingTokens, failed, closed, closing>>
workerVars == <<worker, batch, batchVersion, batchWeights>>
versionVars == <<receiver, weights, modelVersion, serviceVersion>>
answerVars == <<answerVersion, answerWeights>>
vars == <<clientVars, ticketVars, serviceVars, workerVars, versionVars, answerVars>>

TokensOf(T) == MapThenSumSet(LAMBDA c : Tokens[c], T)
Late(c) == \E i \in 1 .. late : stamps[i] = c
Done(c) == future[c] \in {"result", "timeout", "error"}

Mixed == -1           \* parameters of two updates: one was loaded in part

\* model_lock is held by the receiver: while it loads in place, and while it
\* swaps copies and announces the version.
ModelLocked == receiver = "loaded" \/ (receiver = "loading" /\ ~DoubleBuffer)
-----------------------------------------------------------------------------
\* The first weights have been received, and the threads started.
Init ==
    /\ client = [c \in Clients |-> "new"] /\ future = [c \in Clients |-> "none"]
    /\ stamps = << >> /\ late = 0
    /\ queue = << >> /\ released = {} /\ abandoned = {}
    /\ pendingRequests = 0 /\ pendingTokens = 0
    /\ failed = FALSE /\ closed = FALSE /\ closing = {}
    /\ worker = "take" /\ batch = << >>
    /\ receiver = "idle" /\ weights = 0 /\ modelVersion = 0 /\ serviceVersion = 0
    /\ batchVersion = 0 /\ batchWeights = 0
    /\ versionAtSubmit = [c \in Clients |-> 0]
    /\ answerVersion = [c \in Clients |-> 0] /\ answerWeights = [c \in Clients |-> 0]
-----------------------------------------------------------------------------
\* _release, for tickets that have not been released.
Release(T) ==
    /\ released' = released \cup T
    /\ pendingRequests' = pendingRequests - Cardinality(T)
    /\ pendingTokens' = pendingTokens - TokensOf(T)

Answer(c, outcome) == client' = [client EXCEPT ![c] = outcome]
-----------------------------------------------------------------------------
(***************************************************************************)
(* The HTTP threads: submit_and_wait, _submit, cancel.                     *)
(***************************************************************************)
\* _submit, before the lock: a request that is too large is refused.
Stamp(c) ==
    /\ client[c] = "new"
    /\ IF Tokens[c] > MaxPendingTokens
       THEN Answer(c, "too large") /\ UNCHANGED stamps
       ELSE Answer(c, "stamped") /\ stamps' = Append(stamps, c)
    /\ UNCHANGED <<late, versionAtSubmit, ticketVars, serviceVars, workerVars, versionVars, answerVars>>

\* Mutant: the tokens of the new request are not counted.
IgnoresRequest(c) ==
    pendingRequests >= MaxPendingRequests \/ pendingTokens > MaxPendingTokens

Full(c) ==
    \/ pendingRequests >= MaxPendingRequests
    \/ pendingTokens + Tokens[c] > MaxPendingTokens

\* _submit, under the lock.
Submit(c) ==
    /\ client[c] = "stamped"
    /\ IF closed \/ failed \/ Full(c)
       THEN /\ Answer(c, "unavailable")
            /\ UNCHANGED <<future, queue, pendingRequests, pendingTokens, versionAtSubmit>>
       ELSE /\ Answer(c, "waiting")
            /\ future' = [future EXCEPT ![c] = "pending"]
            /\ queue' = Append(queue, c)
            /\ pendingRequests' = pendingRequests + 1
            /\ pendingTokens' = pendingTokens + Tokens[c]
            /\ versionAtSubmit' = [versionAtSubmit EXCEPT ![c] = serviceVersion]
    /\ UNCHANGED <<stamps, late, released, abandoned, failed, closed, closing, workerVars,
                   versionVars, answerVars>>

\* future.result returns or raises what the future was given.
ResultReady(c) ==
    /\ client[c] \in {"waiting", "rewaiting"} /\ Done(c)
    /\ Answer(c, future[c])
    /\ UNCHANGED <<stamps, late, versionAtSubmit, ticketVars, serviceVars, workerVars, versionVars, answerVars>>

\* future.result gives up at the deadline.
WaitTimesOut(c) ==
    /\ client[c] = "waiting" /\ Late(c) /\ ~Done(c)
    /\ client' = [client EXCEPT ![c] = "cancelling"]
    /\ UNCHANGED <<stamps, late, versionAtSubmit, ticketVars, serviceVars, workerVars, versionVars, answerVars>>

\* Mutant: a ticket that is with the worker counts as answered.
ReleasedOrRunning(c) == c \in released \/ future[c] = "running"

AlreadyReleased(c) == c \in released

\* cancel: too late for a ticket that was released, whose answer is on its way;
\* a queued ticket is withdrawn; one in a batch is abandoned and keeps its slot.
Cancel(c) ==
    /\ client[c] = "cancelling"
    /\ \/ /\ AlreadyReleased(c)
          /\ Answer(c, "rewaiting")
          /\ UNCHANGED <<future, queue, released, abandoned, pendingRequests, pendingTokens>>
       \/ /\ ~AlreadyReleased(c) /\ future[c] = "pending"
          /\ future' = [future EXCEPT ![c] = "cancelled"]
          /\ queue' = RemoveFirst(queue, c)
          /\ Release({c})
          /\ Answer(c, "timeout")
          /\ UNCHANGED abandoned
       \/ /\ ~AlreadyReleased(c) /\ future[c] # "pending"
          /\ abandoned' = abandoned \cup {c}
          /\ Answer(c, "timeout")
          /\ UNCHANGED <<future, queue, released, pendingRequests, pendingTokens>>
    /\ UNCHANGED <<stamps, late, versionAtSubmit, failed, closed, closing, workerVars, versionVars, answerVars>>

\* The next deadline passes.
DeadlinePasses ==
    /\ late < Len(stamps)
    /\ late' = late + 1
    /\ UNCHANGED <<client, stamps, versionAtSubmit, ticketVars, serviceVars, workerVars, versionVars, answerVars>>
-----------------------------------------------------------------------------
(***************************************************************************)
(* The worker: take_batch, evaluate, complete, fail.                       *)
(***************************************************************************)
\* How many tickets at the head of the queue are used up when a batch that
\* holds s grows: late ones are expired, others are taken while they fit.  An
\* empty batch takes its first ticket whatever its size.
UsedUp(s) ==
    LET held(i) == Range(s) \cup {c \in Range(SubSeq(queue, 1, i)) : ~Late(c)}
        goesOn(i) ==
            \/ held(i - 1) = {}
            \/ /\ TokensOf(held(i - 1)) < MaxBatchTokens
               /\ Late(queue[i]) \/ TokensOf(held(i - 1)) + Tokens[queue[i]] <= MaxBatchTokens
    IN  Max({k \in 0 .. Len(queue) : \A i \in 1 .. k : goesOn(i)})

\* The sequences of the elements of T, in the order they have in s.
InOrderOf(s, T) ==
    {t \in SetToSeqs(T) :
        \A i, j \in DOMAIN t : i < j => \E a, b \in DOMAIN s : a < b /\ s[a] = t[i] /\ s[b] = t[j]}

\* _expire_head and _take_head on the tickets that are used up.
GrowBatch ==
    LET head == SubSeq(queue, 1, UsedUp(batch))
        expired == {c \in Range(head) : Late(c)}
    IN  /\ queue' = SubSeq(queue, UsedUp(batch) + 1, Len(queue))
        /\ \E taken \in InOrderOf(head, Range(head) \ expired) : batch' = batch \o taken
        /\ future' = [c \in Clients |->
               IF c \in expired THEN "timeout" ELSE IF c \in Range(batch') THEN "running" ELSE future[c]]
        /\ Release(expired)

\* take_batch.  It waits for a first ticket; a batch with room left may wait
\* for more while nothing is queued and the service is open.
TakeBatch ==
    /\ worker \in {"take", "gather"} /\ queue # << >>
    /\ GrowBatch
    /\ worker' \in (IF batch' = << >> THEN {"take"}
                    ELSE {"run"} \cup (IF queue' = << >> /\ ~closed /\ TokensOf(Range(batch')) < MaxBatchTokens
                                       THEN {"gather"} ELSE {}))
    /\ UNCHANGED <<clientVars, abandoned, failed, closed, closing, batchVersion, batchWeights, versionVars, answerVars>>

\* take_batch: the batch deadline passes, or what is queued came after it.
StopGathering ==
    /\ worker = "gather"
    /\ worker' = "run"
    /\ UNCHANGED <<clientVars, ticketVars, serviceVars, batch, batchVersion, batchWeights, versionVars, answerVars>>

\* take_batch returns None, and the worker ends.
WorkerEnds ==
    /\ worker = "take" /\ queue = << >> /\ closed
    /\ worker' = "ended"
    /\ UNCHANGED <<clientVars, ticketVars, serviceVars, batch, batchVersion, batchWeights, versionVars, answerVars>>

\* The version that evaluate reads under the model lock.
EvaluatedVersion == modelVersion

\* _worker_loop: nothing is evaluated once the weight receiver has failed.
CheckReceiver ==
    /\ worker = "run"
    /\ worker' = IF failed THEN "fail" ELSE "evaluate"
    /\ UNCHANGED <<clientVars, ticketVars, serviceVars, batch, batchVersion, batchWeights, versionVars, answerVars>>

\* evaluate, under the model lock; it may raise.
Evaluate ==
    /\ worker = "evaluate" /\ ~ModelLocked
    /\ \/ worker' = "complete" /\ batchVersion' = EvaluatedVersion /\ batchWeights' = weights
       \/ worker' = "fail" /\ UNCHANGED <<batchVersion, batchWeights>>
    /\ UNCHANGED <<clientVars, ticketVars, serviceVars, batch, versionVars, answerVars>>

\* Mutant: an abandoned ticket is skipped.
ReleaseIfWanted(c) == Release({c} \ abandoned)

ReleaseAnswered(c) == Release({c})

\* One round of the loop of complete and of fail.
Resolve ==
    /\ worker \in {"complete", "fail"} /\ batch # << >>
    /\ LET c == Head(batch)
       IN  /\ ReleaseAnswered(c)
           /\ IF c \in abandoned
              THEN UNCHANGED <<future, answerVars>>
              ELSE /\ future' = [future EXCEPT ![c] = IF worker = "complete" THEN "result" ELSE "error"]
                   /\ answerVersion' = [answerVersion EXCEPT ![c] = batchVersion]
                   /\ answerWeights' = [answerWeights EXCEPT ![c] = batchWeights]
    /\ batch' = Tail(batch)
    /\ worker' = IF batch' = << >> THEN "take" ELSE worker
    /\ batchVersion' = IF batch' = << >> THEN 0 ELSE batchVersion
    /\ batchWeights' = IF batch' = << >> THEN 0 ELSE batchWeights
    /\ UNCHANGED <<clientVars, queue, abandoned, failed, closed, closing, versionVars>>
-----------------------------------------------------------------------------
(***************************************************************************)
(* The weight receiver (_receive_and_apply, _update_loop) and the end.     *)
(***************************************************************************)
\* Mutant: the layers are loaded into the model that is serving.
InPlace == TRUE

\* The layers are loaded into the serving model, for want of a second copy.
LoadsInPlace == ~DoubleBuffer

\* _receive_and_apply: an update is announced and its layers begin to arrive.
\* A single copy is loaded under the model lock.
StartUpdate ==
    /\ receiver = "idle" /\ ~failed /\ modelVersion < MaxVersion
    /\ receiver' = "loading"
    /\ UNCHANGED <<clientVars, ticketVars, serviceVars, workerVars, weights, modelVersion, serviceVersion, answerVars>>

\* load_update is through; the serving copy is swapped, or was loaded in place.
UpdateLoaded ==
    /\ receiver = "loading"
    /\ receiver' = "loaded"
    /\ modelVersion' = modelVersion + 1
    /\ weights' = modelVersion'
    /\ UNCHANGED <<clientVars, ticketVars, serviceVars, workerVars, serviceVersion, answerVars>>

SetVersion ==
    /\ receiver = "loaded"
    /\ serviceVersion' = modelVersion
    /\ receiver' = "idle"
    /\ UNCHANGED <<clientVars, ticketVars, serviceVars, workerVars, weights, modelVersion, answerVars>>

\* load_update raises: a layer does not arrive, or the update is incomplete.
\* Some layers may have been loaded; the lock is given up on the way to _update_loop.
UpdateRaises ==
    /\ receiver = "loading"
    /\ receiver' = "raised"
    /\ weights' \in {weights} \cup (IF LoadsInPlace THEN {Mixed} ELSE {})
    /\ UNCHANGED <<clientVars, ticketVars, serviceVars, workerVars, modelVersion, serviceVersion, answerVars>>

\* fail_service, first part; receive() itself may have raised.
FailService ==
    /\ receiver \in {"idle", "raised"} /\ ~failed
    /\ failed' = TRUE
    /\ UNCHANGED <<clientVars, ticketVars, queue, pendingRequests, pendingTokens, closed, closing,
                   workerVars, versionVars, answerVars>>

\* close: from fail_service, or from server_close at any time.
Close ==
    /\ ~closed
    /\ closed' = TRUE
    /\ closing' = Range(queue)
    /\ queue' = << >>
    /\ Release(Range(queue))
    /\ UNCHANGED <<clientVars, future, abandoned, failed, workerVars, versionVars, answerVars>>

\* close, after the lock: the queued requests are answered one by one.
AnswerClosed(c) ==
    /\ c \in closing
    /\ closing' = closing \ {c}
    /\ future' = IF Done(c) THEN future ELSE [future EXCEPT ![c] = "error"]
    /\ UNCHANGED <<clientVars, released, abandoned, queue, pendingRequests, pendingTokens, failed, closed,
                   workerVars, versionVars, answerVars>>
-----------------------------------------------------------------------------
Handler(c) == Stamp(c) \/ Submit(c) \/ ResultReady(c) \/ WaitTimesOut(c) \/ Cancel(c)
Worker == TakeBatch \/ StopGathering \/ WorkerEnds \/ CheckReceiver \/ Evaluate \/ Resolve
Receiver == StartUpdate \/ UpdateLoaded \/ SetVersion \/ UpdateRaises \/ FailService
Closer == \E c \in Clients : AnswerClosed(c)

Next == (\E c \in Clients : Handler(c)) \/ DeadlinePasses \/ Worker \/ Receiver \/ Close \/ Closer

Spec == Init /\ [][Next]_vars

\* Threads run, deadlines pass, and close() goes through its list.  Nothing is
\* assumed of the worker, which may hang in the model, nor of the receiver.
HandlerFairness ==
    /\ \A c \in Clients : WF_vars(Handler(c))
    /\ WF_vars(DeadlinePasses) /\ WF_vars(Closer)

FairSpec == Spec /\ HandlerFairness
-----------------------------------------------------------------------------
(***************************************************************************)
(* Properties.                                                             *)
(***************************************************************************)
Answers == {"result", "timeout", "error", "unavailable", "too large"}

\* Every variable keeps its type; the request plane stays within its limits.
TypeOK ==
    /\ client \in [Clients -> Answers \cup {"new", "stamped", "waiting", "cancelling", "rewaiting"}]
    /\ future \in [Clients -> {"none", "pending", "running", "cancelled", "result", "timeout", "error"}]
    /\ Range(stamps) \subseteq Clients /\ late \in 0 .. Len(stamps)
    /\ Range(queue) \cup Range(batch) \cup closing \cup released \cup abandoned \subseteq Clients
    /\ pendingRequests \in 0 .. MaxPendingRequests /\ pendingTokens \in 0 .. MaxPendingTokens
    /\ {failed, closed} \subseteq BOOLEAN
    /\ receiver \in {"idle", "loading", "loaded", "raised"}
    /\ worker \in {"take", "gather", "run", "evaluate", "complete", "fail", "ended"}
    /\ {modelVersion, serviceVersion, batchVersion} \subseteq 0 .. MaxVersion
    /\ {weights, batchWeights} \subseteq Mixed .. MaxVersion

\* The counters that admit requests count exactly the tickets that are queued
\* or with the worker: no order of timeout, expiry, cancel, answer and close
\* releases a slot twice or never.  And whoever is about to set a future finds it
\* unset, queued and closed tickets pending and those of the batch running:
\* set_result, set_exception and set_running_or_notify_cancel raise otherwise and
\* end their thread.
PendingMatchesTickets ==
    /\ pendingRequests = Len(queue) + Len(batch)
    /\ pendingTokens = TokensOf(Range(queue)) + TokensOf(Range(batch))
    /\ \A c \in Range(queue) \cup closing : future[c] = "pending"
    /\ \A c \in Range(batch) : future[c] = "running"

\* Values come from the parameters of one update, the one whose version the
\* answer reports, also if an update is being loaded or fails in the middle
\* while the worker is about to evaluate.  And that model is at least as new as
\* the version the service had when it admitted the request: what GET /version
\* said before holds for what POST /evaluate returns.
AnswerIsCoherent ==
    \A c \in Clients : client[c] = "result" =>
        /\ answerWeights[c] = answerVersion[c]
        /\ answerVersion[c] >= versionAtSubmit[c]

\* Every HTTP thread comes back, also if the worker hangs or has ended, and if
\* its deadline races the answer, the expiry or the shutdown.
EveryRequestAnswered == \A c \in Clients : <>(client[c] \in Answers)
=============================================================================
