--------------------------- MODULE ValueTransport ---------------------------
(***************************************************************************)
(* The rollout stream from the orchestrator to the value trainer           *)
(* (src/prime_rl/value/transport.py).                                      *)
(*                                                                         *)
(* On the orchestrator's event loop, publish() puts a rollout in a bounded *)
(* queue that drops its oldest item when full, and a responder task        *)
(* answers the trainer's pull requests over a ZMQ REP socket.  The         *)
(* responder gives up control at its awaits, so publish() and close() may  *)
(* run between any two of its steps; send() may fail with zmq.Again after  *)
(* the reply's items have left the queue, and then they are put back.  On  *)
(* the trainer, receive_available() sends one request at a time over a REQ *)
(* socket; a request outlives the call that sent it when the wait times    *)
(* out, so a reply is taken by a later call, whose limit may be smaller.   *)
(*                                                                         *)
(* The n-th rollout published is the number n.  A call that times out or   *)
(* finds the socket not writable changes nothing and is a stuttering step. *)
(***************************************************************************)
EXTENDS Integers, Sequences

CONSTANTS
    QueueCapacity,   \* max_pending_rollouts
    Limits,          \* the limits a trainer may ask with
    MaxPublished,    \* bound: rollouts published in one behaviour
    None             \* no request

ASSUME TransportAssumption ==
    /\ QueueCapacity \in Nat \ {0}
    /\ Limits \subseteq Nat \ {0}
    /\ MaxPublished \in Nat

ASSUME NoneAssumption ==
    None \notin [id : Nat, limit : Limits] \cup [id : Nat, items : Seq(1 .. MaxPublished)]

VARIABLES
    \* ValueRolloutPublisher
    queue,           \* _DropOldestRolloutQueue._items
    wake,            \* the asyncio.Event
    responder,       \* where _respond_loop is
    request,         \* the request it is answering
    inHand,          \* items popped for a reply that is not sent yet
    enqueued, sent, droppedOldest,
    closed,
    \* ValueRolloutReceiver
    pending,         \* _pending_request
    nextRequestId,
    buffered,        \* _buffered_rollouts
    receiverClosed,
    \* the sockets, each holding at most one message, and the trainer's input
    requestOnWire, replyOnWire,
    delivered

publisherVars == <<queue, wake, responder, request, inHand, enqueued, sent, droppedOldest, closed>>
receiverVars  == <<pending, nextRequestId, buffered, receiverClosed>>
wireVars      == <<requestOnWire, replyOnWire>>
vars == <<publisherVars, receiverVars, wireVars, delivered>>

\* The awaits of _respond_loop, and its three ways to end up: looping, failed, cancelled.
ResponderStates == {"recv", "check", "asleep", "poll", "send", "failed", "cancelled"}

Request == [id : Nat, limit : Limits]

\* The oldest n items of a sequence, and the rest.
Oldest(s, n) == SubSeq(s, 1, IF n < Len(s) THEN n ELSE Len(s))
Rest(s, n)   == SubSeq(s, n + 1, Len(s))
-----------------------------------------------------------------------------
Init ==
    /\ queue = << >> /\ wake = FALSE
    /\ responder = "recv" /\ request = None /\ inHand = << >>
    /\ enqueued = 0 /\ sent = 0 /\ droppedOldest = 0
    /\ closed = FALSE
    /\ pending = None /\ nextRequestId = 0 /\ buffered = << >> /\ receiverClosed = FALSE
    /\ requestOnWire = None /\ replyOnWire = None
    /\ delivered = << >>
-----------------------------------------------------------------------------
(***************************************************************************)
(* The publisher.                                                          *)
(***************************************************************************)
\* _DropOldestRolloutQueue.append
DropOldestAppend(n) == Append(IF Len(queue) = QueueCapacity THEN Tail(queue) ELSE queue, n)

\* Mutant: publish() does not wake the responder.
SilentPublish ==
    /\ ~closed /\ enqueued < MaxPublished
    /\ enqueued' = enqueued + 1
    /\ queue' = DropOldestAppend(enqueued')
    /\ droppedOldest' = droppedOldest + (IF Len(queue) = QueueCapacity THEN 1 ELSE 0)
    /\ UNCHANGED <<wake, responder, request, inHand, sent, closed, receiverVars, wireVars, delivered>>

\* publish: raises once closed.
Publish ==
    /\ ~closed /\ enqueued < MaxPublished
    /\ enqueued' = enqueued + 1
    /\ queue' = DropOldestAppend(enqueued')
    /\ droppedOldest' = droppedOldest + (IF Len(queue) = QueueCapacity THEN 1 ELSE 0)
    /\ wake' = TRUE
    /\ UNCHANGED <<responder, request, inHand, sent, closed, receiverVars, wireVars, delivered>>

\* _respond_loop: recv and decode; a limit below one ends the task.
RespondReceive ==
    /\ responder = "recv" /\ requestOnWire # None
    /\ request' = requestOnWire
    /\ requestOnWire' = None
    /\ responder' = IF requestOnWire.limit < 1 THEN "failed" ELSE "check"
    /\ UNCHANGED <<queue, wake, inHand, enqueued, sent, droppedOldest, closed, receiverVars, replyOnWire, delivered>>

\* while not queue: clear the event, look again, and only then sleep on it.
RespondCheck ==
    /\ responder = "check"
    /\ responder' = IF queue = << >> THEN "asleep" ELSE "poll"
    /\ wake' = (wake /\ queue # << >>)
    /\ UNCHANGED <<queue, request, inHand, enqueued, sent, droppedOldest, closed, receiverVars, wireVars, delivered>>

RespondWake ==
    /\ responder = "asleep" /\ wake
    /\ responder' = "check"
    /\ UNCHANGED <<queue, wake, request, inHand, enqueued, sent, droppedOldest, closed, receiverVars, wireVars, delivered>>

\* The items of a reply: what is waiting when the socket becomes writable, up to the limit.
ReplyItems == Oldest(queue, request.limit)

\* After poll(POLLOUT): pop the reply's items and start to send them.
RespondPop ==
    /\ responder = "poll"
    /\ inHand' = ReplyItems
    /\ queue' = Rest(queue, Len(ReplyItems))
    /\ responder' = "send"
    /\ UNCHANGED <<wake, request, enqueued, sent, droppedOldest, closed, receiverVars, wireVars, delivered>>

\* send() succeeds; a reply to a peer that has gone is silently discarded by the socket.
RespondSent ==
    /\ responder = "send"
    /\ replyOnWire' = IF receiverClosed THEN None ELSE [id |-> request.id, items |-> inHand]
    /\ sent' = sent + Len(inHand)
    /\ inHand' = << >> /\ request' = None
    /\ responder' = "recv"
    /\ UNCHANGED <<queue, wake, enqueued, droppedOldest, closed, receiverVars, requestOnWire, delivered>>

\* Mutants: the items of the failed reply rejoin at the back; they are all put
\* back, room or not.
RestoreAtBack(room) == queue \o Rest(inHand, IF room < Len(inHand) THEN Len(inHand) - room ELSE 0)
RestoreAll(room) == inHand \o queue

\* restore_oldest with room for so many: the newest of them return to the front.
Restored(room) ==
    Rest(inHand, IF room < Len(inHand) THEN Len(inHand) - room ELSE 0) \o queue

\* send() fails with zmq.Again: put the items back, dropping what no longer fits, and retry.
RespondAgain ==
    /\ responder = "send"
    /\ queue' = Restored(QueueCapacity - Len(queue))
    /\ droppedOldest' = droppedOldest + Len(queue) + Len(inHand) - Len(queue')
    /\ inHand' = << >>
    /\ responder' = "poll"
    /\ UNCHANGED <<wake, request, enqueued, sent, closed, receiverVars, wireVars, delivered>>

\* send() fails otherwise: the task ends and its items are lost; publishing goes on.
RespondFails ==
    /\ responder = "send"
    /\ responder' = "failed"
    /\ UNCHANGED <<queue, wake, request, inHand, enqueued, sent, droppedOldest, closed, receiverVars, wireVars, delivered>>

\* close: cancel the responder wherever it is, close the socket without linger, clear the queue.
PublisherClose ==
    /\ ~closed
    /\ closed' = TRUE
    /\ responder' = IF responder = "failed" THEN "failed" ELSE "cancelled"
    /\ queue' = << >>
    /\ replyOnWire' \in {replyOnWire, None}
    /\ UNCHANGED <<wake, request, inHand, enqueued, sent, droppedOldest, receiverVars, requestOnWire, delivered>>
-----------------------------------------------------------------------------
(***************************************************************************)
(* The receiver.  receive_available(limit) is one of three steps: it hands *)
(* out what an earlier reply left over; or it sends a request; or it takes *)
(* the reply to the outstanding one.                                       *)
(***************************************************************************)
\* Mutant: what exceeds this call's limit is not kept.
HandOutOnly(have, limit) ==
    /\ delivered' = delivered \o Oldest(have, limit)
    /\ buffered' = << >>

\* _take_buffered
HandOut(have, limit) ==
    /\ delivered' = delivered \o Oldest(have, limit)
    /\ buffered' = Rest(have, limit)

ReceiveBuffered(limit) ==
    /\ ~receiverClosed /\ buffered # << >>
    /\ HandOut(buffered, limit)
    /\ UNCHANGED <<publisherVars, pending, nextRequestId, receiverClosed, wireVars>>

ReceiveRequest(limit) ==
    /\ ~receiverClosed /\ buffered = << >> /\ pending = None
    /\ requestOnWire' = [id |-> nextRequestId, limit |-> limit]
    /\ pending' = [id |-> nextRequestId, limit |-> limit]
    /\ nextRequestId' = nextRequestId + 1
    /\ UNCHANGED <<publisherVars, buffered, receiverClosed, replyOnWire, delivered>>

\* _accept_response: the id and count checks must pass, or the trainer dies (ReplyIsExpected).
ReceiveReply(limit) ==
    /\ ~receiverClosed /\ buffered = << >> /\ pending # None /\ replyOnWire # None
    /\ replyOnWire.id = pending.id /\ Len(replyOnWire.items) <= pending.limit
    /\ HandOut(replyOnWire.items, limit)
    /\ pending' = None
    /\ replyOnWire' = None
    /\ UNCHANGED <<publisherVars, nextRequestId, receiverClosed, requestOnWire>>

ReceiverClose ==
    /\ ~receiverClosed
    /\ receiverClosed' = TRUE
    /\ pending' = None /\ buffered' = << >>
    /\ requestOnWire' \in {requestOnWire, None}
    /\ replyOnWire' = None
    /\ UNCHANGED <<publisherVars, nextRequestId, delivered>>
-----------------------------------------------------------------------------
Responder ==
    \/ RespondReceive \/ RespondCheck \/ RespondWake
    \/ RespondPop \/ RespondSent \/ RespondAgain \/ RespondFails

Receive ==
    \E limit \in Limits :
        ReceiveBuffered(limit) \/ ReceiveRequest(limit) \/ ReceiveReply(limit)

Next == Publish \/ Responder \/ PublisherClose \/ Receive \/ ReceiverClose

Spec == Init /\ [][Next]_vars

(***************************************************************************)
(* The event loop runs a task that can run, and the trainer's loop keeps   *)
(* calling receive_available.  zmq.Again may repeat but not for ever: the  *)
(* socket has just polled writable, so a send that is tried again and      *)
(* again succeeds once.                                                    *)
(***************************************************************************)
FairSpec ==
    /\ Spec
    /\ WF_vars(RespondReceive) /\ WF_vars(RespondCheck) /\ WF_vars(RespondWake)
    /\ WF_vars(RespondPop) /\ SF_vars(RespondSent)
    /\ WF_vars(Receive)
-----------------------------------------------------------------------------
(***************************************************************************)
(* Properties.                                                             *)
(***************************************************************************)
\* Every variable keeps its type and the queue its capacity, and a reply on the
\* wire answers the outstanding request: the same id, at least one rollout, no
\* more than that request's limit.  _accept_response raises on every other reply,
\* which ends the trainer.
TypeOK ==
    /\ queue \in Seq(1 .. MaxPublished) /\ Len(queue) <= QueueCapacity
    /\ inHand \in Seq(1 .. MaxPublished) /\ buffered \in Seq(1 .. MaxPublished)
    /\ delivered \in Seq(1 .. MaxPublished)
    /\ wake \in BOOLEAN /\ closed \in BOOLEAN /\ receiverClosed \in BOOLEAN
    /\ responder \in ResponderStates
    /\ \A r \in {request, pending, requestOnWire} : r = None \/ r \in Request
    /\ replyOnWire = None \/ replyOnWire \in [id : Nat, items : Seq(1 .. MaxPublished)]
    /\ enqueued \in 0 .. MaxPublished /\ sent \in Nat /\ droppedOldest \in Nat /\ nextRequestId \in Nat
    /\ replyOnWire # None =>
          /\ pending # None /\ replyOnWire.id = pending.id
          /\ Len(replyOnWire.items) \in 1 .. pending.limit

OnWire == IF replyOnWire = None THEN << >> ELSE replyOnWire.items

\* Until close() every rollout published is waiting, in a reply being sent, sent
\* or counted as dropped, also when the queue fills up behind a send that fails;
\* and until the receiver closes every one sent is delivered or on its way.  What
\* waits is the newest of what was published, without a gap: a failed send puts
\* back nothing that is older than a rollout already dropped.
CountersConserveRollouts ==
    /\ ~closed => enqueued = Len(queue) + Len(inHand) + sent + droppedOldest
    /\ ~closed /\ ~receiverClosed => sent = Len(OnWire) + Len(buffered) + Len(delivered)
    /\ \A i \in DOMAIN queue : queue[i] = enqueued - Len(queue) + i

\* The stream implements the feed: what is delivered comes in publication
\* order, nothing twice, whatever is dropped, restored, timed out or closed.
Sending == IF responder = "send" THEN inHand ELSE << >>
Feed == INSTANCE RolloutFeed WITH
            published <- enqueued,
            underway  <- buffered \o OnWire \o Sending \o queue
ImplementsFeed == Feed!Spec

\* While both ends are up and the trainer keeps pulling, a waiting rollout leads
\* to a delivery: no request, reply or wakeup is lost on the way.
Stopped == closed \/ receiverClosed \/ responder = "failed"
WaitingIsServed ==
    \A n \in 0 .. MaxPublished :
        (queue # << >> /\ Len(delivered) = n) ~> (Len(delivered) > n \/ Stopped)
=============================================================================
