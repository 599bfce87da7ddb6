------------------------ MODULE ValueTransportProofs ------------------------
(***************************************************************************)
(* Proofs about the rollout stream, for every capacity, every set of       *)
(* limits and any number of rollouts.                                      *)
(*                                                                         *)
(* The invariants the runs check do not hold themselves up.  A reply is    *)
(* the expected one because there is only one request, which is on the     *)
(* wire, with the responder, or answered (OneRequest).  It is never empty  *)
(* because the responder only polls with something queued (Reply).  And    *)
(* what a failed send puts back leaves no gap because rollouts are dropped *)
(* behind it only while the queue is full, and then nothing is put back    *)
(* (InHandJoinsQueue).                                                     *)
(***************************************************************************)
EXTENDS ValueTransport, SequenceTheorems, TLAPS

Ids == 1 .. MaxPublished

Reply == [id : Nat, items : Seq(Ids)]

Answering == {"check", "asleep", "poll", "send"}

Shapes ==
    /\ queue \in Seq(Ids) /\ Len(queue) <= QueueCapacity
    /\ inHand \in Seq(Ids) /\ buffered \in Seq(Ids) /\ delivered \in Seq(Ids)
    /\ wake \in BOOLEAN /\ closed \in BOOLEAN /\ receiverClosed \in BOOLEAN
    /\ responder \in ResponderStates
    /\ request = None \/ request \in Request
    /\ pending = None \/ pending \in Request
    /\ requestOnWire = None \/ requestOnWire \in Request
    /\ replyOnWire = None \/ replyOnWire \in Reply
    /\ enqueued \in 0 .. MaxPublished /\ sent \in Nat /\ droppedOldest \in Nat /\ nextRequestId \in Nat

\* The outstanding request is in one place, and nothing outlives the receiver.
OneRequest ==
    /\ responder \in Answering =>
          /\ request # None /\ requestOnWire = None /\ replyOnWire = None
          /\ receiverClosed \/ pending = request
    /\ requestOnWire # None => replyOnWire = None /\ (receiverClosed \/ pending = requestOnWire)
    /\ replyOnWire # None =>
          /\ pending # None /\ replyOnWire.id = pending.id
          /\ Len(replyOnWire.items) \in 1 .. pending.limit
    /\ receiverClosed => pending = None /\ buffered = << >> /\ replyOnWire = None
    /\ closed => responder \in {"failed", "cancelled"}

\* What the responder holds while it answers.
InHand ==
    /\ responder = "poll" => queue # << >>
    /\ responder = "send" => Len(inHand) \in 1 .. request.limit
    /\ responder \in {"recv", "check", "asleep", "poll"} => inHand = << >>

\* What is being sent comes right before what is waiting, unless the queue has
\* filled up and begun to drop behind it.
InHandJoinsQueue ==
    responder = "send" =>
        \/ Len(queue) = QueueCapacity
        \/ \A i \in 1 .. Len(inHand) : inHand[i] = enqueued - Len(queue) - Len(inHand) + i

IInv ==
    /\ Shapes /\ OneRequest /\ InHand
    /\ InHandJoinsQueue /\ CountersConserveRollouts

-----------------------------------------------------------------------------
(* Sequences *)

\* popleft() takes what Oldest says and leaves what Rest says, and nothing else.
LEMMA OldestAndRest ==
    ASSUME NEW S, NEW s \in Seq(S), NEW n \in Nat
    PROVE  /\ Oldest(s, n) \in Seq(S) /\ Rest(s, n) \in Seq(S)
           /\ Len(Oldest(s, n)) = IF n < Len(s) THEN n ELSE Len(s)
           /\ Len(Rest(s, n)) = IF n < Len(s) THEN Len(s) - n ELSE 0
           /\ \A i \in 1 .. Len(Oldest(s, n)) : Oldest(s, n)[i] = s[i]
           /\ \A i \in 1 .. Len(Rest(s, n)) : Rest(s, n)[i] = s[n + i]
           /\ Oldest(s, n) \o Rest(s, n) = s
<1> DEFINE m == IF n < Len(s) THEN n ELSE Len(s)
<1>1. Len(s) \in Nat /\ m \in 0 .. Len(s) /\ \A i \in 1 .. Len(s) : s[i] \in S
  BY LenProperties, ElementOfSeq
<1>2. /\ Oldest(s, n) \in Seq(S) /\ Len(Oldest(s, n)) = m
      /\ \A i \in 1 .. m : Oldest(s, n)[i] = s[i]
  BY <1>1, SubSeqProperties DEF Oldest
<1>3. /\ Rest(s, n) \in Seq(S) /\ Len(Rest(s, n)) = IF n < Len(s) THEN Len(s) - n ELSE 0
      /\ \A i \in 1 .. Len(Rest(s, n)) : Rest(s, n)[i] = s[n + i]
  <2>1. n + 1 \in Int /\ Len(s) \in Int /\ \A i \in n + 1 .. Len(s) : s[i] \in S
    BY <1>1
  <2>2. /\ SubSeq(s, n + 1, Len(s)) \in Seq(S)
        /\ Len(SubSeq(s, n + 1, Len(s))) = IF n + 1 <= Len(s) THEN Len(s) - (n + 1) + 1 ELSE 0
        /\ \A i \in 1 .. Len(s) - (n + 1) + 1 : SubSeq(s, n + 1, Len(s))[i] = s[(n + 1) + i - 1]
    BY <2>1, SubSeqProperties
  <2> QED
    BY <1>1, <2>2 DEF Rest
<1>4. /\ Oldest(s, n) \o Rest(s, n) \in Seq(S)
      /\ Len(Oldest(s, n) \o Rest(s, n)) = Len(s)
      /\ \A i \in 1 .. Len(s) : (Oldest(s, n) \o Rest(s, n))[i] = s[i]
  <2> DEFINE o == Oldest(s, n)
             r == Rest(s, n)
  <2>0. o \in Seq(S) /\ r \in Seq(S) /\ Len(o) \in Nat /\ Len(r) \in Nat
    BY <1>2, <1>3, LenProperties
  <2>1. /\ o \o r \in Seq(S) /\ Len(o \o r) = Len(o) + Len(r)
        /\ \A i \in 1 .. Len(o) + Len(r) : (o \o r)[i] = IF i <= Len(o) THEN o[i] ELSE r[i - Len(o)]
    BY <2>0, ConcatProperties
  <2>2. Len(o) + Len(r) = Len(s)
    BY <1>1, <1>2, <1>3
  <2>3. ASSUME NEW i \in 1 .. Len(s) PROVE (o \o r)[i] = s[i]
    <3>1. CASE i <= Len(o)
      BY <1>1, <1>2, <2>1, <2>2, <3>1
    <3>2. CASE ~(i <= Len(o))
      <4>1. Len(o) = n /\ i - n \in 1 .. Len(r) /\ (o \o r)[i] = r[i - n]
        BY <1>1, <1>2, <1>3, <2>1, <2>2, <3>2
      <4>2. r[i - n] = s[n + (i - n)] /\ n + (i - n) = i
        BY <1>3, <4>1
      <4> QED
        BY <4>1, <4>2
    <3> QED
      BY <3>1, <3>2
  <2> QED
    BY <2>1, <2>2, <2>3
<1>5. Oldest(s, n) \o Rest(s, n) = s
  BY <1>4, SeqEqual
<1> QED
  BY <1>1, <1>2, <1>3, <1>5

\* What is on the wire, and how much of it.
LEMMA OnWireSeq ==
    ASSUME Shapes
    PROVE  OnWire \in Seq(Ids) /\ Len(OnWire) \in Nat
  BY EmptySeq, LenProperties DEF Shapes, OnWire, Reply

\* A request is a record that is not None; its limit is at least one.
LEMMA Requests ==
    ASSUME NEW r \in Request
    PROVE  r # None /\ r.id \in Nat /\ r.limit \in Limits /\ r.limit \in Nat \ {0}
  BY TransportAssumption, NoneAssumption DEF Request

-----------------------------------------------------------------------------
(* Every action preserves the inductive invariant. *)

LEMMA InitIInv == Init => IInv
<1> SUFFICES ASSUME Init PROVE IInv
  OBVIOUS
<1>1. << >> \in Seq(Ids) /\ Len(<< >>) = 0 /\ OnWire = << >>
  BY EmptySeq DEF Init, OnWire
<1>2. Shapes
  <2>1. 0 \in 0 .. MaxPublished /\ 0 \in Nat /\ 0 <= QueueCapacity
    BY TransportAssumption
  <2> QED
    BY <1>1, <2>1 DEF Init, Shapes, ResponderStates
<1>3. OneRequest /\ InHand /\ InHandJoinsQueue
  BY DEF Init, OneRequest, InHand, InHandJoinsQueue, Answering
<1>4. CountersConserveRollouts
  BY <1>1 DEF Init, CountersConserveRollouts
<1> QED
  BY <1>2, <1>3, <1>4 DEF IInv

\* publish() preserves it: a full queue drops its oldest and stays the newest.
LEMMA PublishIInv ==
    ASSUME IInv, Publish
    PROVE  IInv'
<1> DEFINE q == IF Len(queue) = QueueCapacity THEN Tail(queue) ELSE queue
           k == IF Len(queue) = QueueCapacity THEN 1 ELSE 0
<1> USE TransportAssumption
<1>1. /\ ~closed /\ closed' = closed /\ enqueued' = enqueued + 1 /\ enqueued' \in Ids
      /\ queue' = Append(q, enqueued') /\ droppedOldest' = droppedOldest + k /\ wake' = TRUE
      /\ UNCHANGED <<responder, request, inHand, sent, closed, pending, nextRequestId, buffered,
                     receiverClosed, requestOnWire, replyOnWire, delivered>>
  BY DEF Publish, DropOldestAppend, receiverVars, wireVars, IInv, Shapes, Ids
<1>2. /\ Len(queue) \in Nat /\ Len(queue) <= QueueCapacity /\ queue \in Seq(Ids)
      /\ Len(inHand) \in Nat /\ enqueued \in Nat
  BY LenProperties DEF IInv, Shapes
<1>3. /\ q \in Seq(Ids) /\ Len(q) = Len(queue) - k /\ k \in {0, 1}
      /\ \A i \in 1 .. Len(q) : q[i] = queue[i + k]
  <2>1. CASE Len(queue) = QueueCapacity
    <3>1. queue # << >>
      BY <1>2, <2>1, EmptySeq
    <3> QED
      BY <1>2, <2>1, <3>1, HeadTailProperties
  <2>2. CASE Len(queue) # QueueCapacity
    BY <1>2, <2>2
  <2> QED
    BY <2>1, <2>2
<1>4. /\ queue' \in Seq(Ids) /\ queue' # << >> /\ Len(queue') = Len(q) + 1
      /\ \A i \in 1 .. Len(q) : queue'[i] = q[i]
      /\ queue'[Len(q) + 1] = enqueued'
  BY <1>1, <1>3, AppendProperties
<1>5. Len(queue') = Len(queue) + 1 - k /\ Len(queue') <= QueueCapacity
  BY <1>2, <1>3, <1>4
<1>6. Shapes'
  BY <1>1, <1>4, <1>5 DEF IInv, Shapes, Ids
<1>7. OneRequest' /\ InHand'
  BY <1>1, <1>4 DEF IInv, OneRequest, InHand, Answering
<1>8. InHandJoinsQueue'
  <2>1. CASE Len(queue) = QueueCapacity
    BY <1>2, <1>5, <2>1 DEF InHandJoinsQueue
  <2>2. CASE Len(queue) # QueueCapacity
    <3>1. enqueued' - Len(queue') = enqueued - Len(queue)
      BY <1>1, <1>2, <1>5, <2>2
    <3> QED
      BY <1>1, <1>2, <2>2, <3>1 DEF IInv, InHandJoinsQueue
  <2> QED
    BY <2>1, <2>2
<1>9. CountersConserveRollouts'
  <2>1. OnWire' = OnWire
    BY <1>1 DEF OnWire
  <2>2. enqueued' = Len(queue') + Len(inHand') + sent' + droppedOldest'
    <3>1. /\ enqueued = Len(queue) + Len(inHand) + sent + droppedOldest
          /\ sent \in Nat /\ droppedOldest \in Nat /\ k \in {0, 1}
      BY <1>1, <1>3 DEF IInv, Shapes, CountersConserveRollouts
    <3>2. enqueued' = enqueued + 1 /\ inHand' = inHand /\ sent' = sent /\ droppedOldest' = droppedOldest + k
      BY <1>1
    <3> HIDE DEF k
    <3> QED
      BY <1>2, <1>5, <3>1, <3>2
  <2>3. ASSUME NEW i \in DOMAIN queue' PROVE queue'[i] = enqueued' - Len(queue') + i
    <3>1. i \in 1 .. Len(q) + 1
      BY <1>4, <2>3, LenProperties
    <3>2. CASE i = Len(q) + 1
      BY <1>1, <1>2, <1>3, <1>4, <3>2
    <3>3. CASE i \in 1 .. Len(q)
      <4>1. i + k \in DOMAIN queue
        BY <1>2, <1>3, <3>3, LenProperties
      <4>2. queue[i + k] = enqueued - Len(queue) + (i + k)
        BY <4>1 DEF IInv, CountersConserveRollouts
      <4>3. queue'[i] = queue[i + k] /\ enqueued' = enqueued + 1 /\ i \in Nat /\ k \in Nat
        BY <1>1, <1>3, <1>4, <3>3
      <4> HIDE DEF k
      <4> QED
        BY <1>2, <1>5, <4>2, <4>3
    <3> QED
      BY <1>2, <1>3, <3>1, <3>2, <3>3
  <2> QED
    BY <1>1, <2>1, <2>2, <2>3 DEF IInv, CountersConserveRollouts
<1> QED
  BY <1>6, <1>7, <1>8, <1>9 DEF IInv

\* The steps of the responder up to the pop: a request moves, nothing else.
LEMMA RespondIInv ==
    ASSUME IInv, RespondReceive \/ RespondCheck \/ RespondWake \/ RespondFails
    PROVE  IInv'
<1>0. UNCHANGED <<queue, inHand, enqueued, sent, droppedOldest, closed, pending, nextRequestId,
                  buffered, receiverClosed, replyOnWire, delivered>>
  BY DEF RespondReceive, RespondCheck, RespondWake, RespondFails, receiverVars, wireVars
<1>1. CountersConserveRollouts'
  BY <1>0 DEF IInv, CountersConserveRollouts, OnWire
<1>2. responder' # "send"
  BY DEF RespondReceive, RespondCheck, RespondWake, RespondFails
<1>3. InHandJoinsQueue'
  BY <1>2 DEF InHandJoinsQueue
<1>4. CASE RespondReceive
  <2>1. requestOnWire \in Request /\ requestOnWire # None /\ responder' = "check"
    BY <1>4, Requests DEF RespondReceive, IInv, Shapes
  <2> QED
    BY <1>0, <1>1, <1>3, <1>4, <2>1
       DEF RespondReceive, IInv, Shapes, OneRequest, InHand, Answering, ResponderStates
<1>5. CASE RespondCheck
  BY <1>0, <1>1, <1>3, <1>5
     DEF RespondCheck, IInv, Shapes, OneRequest, InHand, Answering, ResponderStates, wireVars
<1>6. CASE RespondWake
  BY <1>0, <1>1, <1>3, <1>6
     DEF RespondWake, IInv, Shapes, OneRequest, InHand, Answering, ResponderStates, wireVars
<1>7. CASE RespondFails
  BY <1>0, <1>1, <1>3, <1>7
     DEF RespondFails, IInv, Shapes, OneRequest, InHand, Answering, ResponderStates, wireVars
<1> QED
  BY <1>4, <1>5, <1>6, <1>7

\* The pop takes the front of the queue; what is left is still the newest.
LEMMA RespondPopIInv ==
    ASSUME IInv, RespondPop
    PROVE  IInv'
<1> USE TransportAssumption
<1>0. /\ responder = "poll" /\ responder' = "send" /\ inHand = << >> /\ queue # << >>
      /\ inHand' = ReplyItems /\ queue' = Rest(queue, Len(ReplyItems))
      /\ UNCHANGED <<wake, request, enqueued, sent, droppedOldest, closed, pending, nextRequestId,
                     buffered, receiverClosed, requestOnWire, replyOnWire, delivered>>
  BY DEF RespondPop, receiverVars, wireVars, IInv, InHand
<1>1. /\ queue \in Seq(Ids) /\ Len(queue) \in Nat \ {0} /\ Len(queue) <= QueueCapacity
      /\ request \in Request /\ request.limit \in Nat \ {0} /\ Len(inHand) = 0 /\ enqueued \in Nat
  BY <1>0, EmptySeq, Requests DEF IInv, Shapes, OneRequest, Answering
<1> DEFINE n == Len(ReplyItems)
<1>2. /\ ReplyItems \in Seq(Ids) /\ n \in Nat /\ n \in 1 .. request.limit /\ n <= Len(queue)
      /\ \A i \in 1 .. n : ReplyItems[i] = queue[i]
  <2>1. /\ ReplyItems \in Seq(Ids)
        /\ n = IF request.limit < Len(queue) THEN request.limit ELSE Len(queue)
        /\ \A i \in 1 .. n : ReplyItems[i] = queue[i]
    <3>1. queue \in Seq(Ids) /\ request.limit \in Nat
      BY <1>1
    <3> QED
      BY <3>1, OldestAndRest, ZenonT(40) DEF ReplyItems
  <2> HIDE DEF n
  <2> QED
    BY <1>1, <2>1
<1>3. /\ queue' \in Seq(Ids) /\ Len(queue') = Len(queue) - n
      /\ \A i \in 1 .. Len(queue') : queue'[i] = queue[n + i]
  BY <1>0, <1>1, <1>2, OldestAndRest, SMTT(30)
<1>4. \A i \in 1 .. Len(queue) : queue[i] = enqueued - Len(queue) + i
  BY <1>1, LenProperties DEF IInv, CountersConserveRollouts
<1>5. Shapes'
  BY <1>0, <1>1, <1>2, <1>3 DEF IInv, Shapes, ResponderStates
<1>6. OneRequest' /\ InHand'
  BY <1>0, <1>2 DEF IInv, OneRequest, InHand, Answering
<1>7. InHandJoinsQueue'
  <2>1. ASSUME NEW i \in 1 .. Len(inHand')
        PROVE  inHand'[i] = enqueued' - Len(queue') - Len(inHand') + i
    BY <1>0, <1>1, <1>2, <1>3, <1>4
  <2> QED
    BY <2>1 DEF InHandJoinsQueue
<1>8. CountersConserveRollouts'
  <2>1. OnWire' = OnWire
    BY <1>0 DEF OnWire
  <2>2. Len(queue') + Len(inHand') = Len(queue) + Len(inHand)
    BY <1>0, <1>1, <1>2, <1>3
  <2>3. ~closed' => enqueued' = Len(queue') + Len(inHand') + sent' + droppedOldest'
    BY <1>0, <1>1, <1>2, <1>3, <2>2 DEF IInv, Shapes, CountersConserveRollouts
  <2>4. ASSUME NEW i \in DOMAIN queue' PROVE queue'[i] = enqueued' - Len(queue') + i
    <3>1. i \in 1 .. Len(queue') /\ n + i \in 1 .. Len(queue)
      BY <1>1, <1>2, <1>3, LenProperties, SMTT(30)
    <3> QED
      BY <1>0, <1>1, <1>2, <1>3, <1>4, <3>1, SMTT(30)
  <2> QED
    BY <1>0, <2>1, <2>3, <2>4 DEF IInv, CountersConserveRollouts
<1> QED
  BY <1>5, <1>6, <1>7, <1>8 DEF IInv

\* The reply goes out; or nobody is there to read it.
LEMMA RespondSentIInv ==
    ASSUME IInv, RespondSent
    PROVE  IInv'
<1> USE TransportAssumption
<1>0. /\ responder = "send" /\ responder' = "recv" /\ inHand' = << >> /\ request' = None
      /\ replyOnWire' = IF receiverClosed THEN None ELSE [id |-> request.id, items |-> inHand]
      /\ sent' = sent + Len(inHand)
      /\ UNCHANGED <<queue, wake, enqueued, droppedOldest, closed, pending, nextRequestId,
                     buffered, receiverClosed, requestOnWire, delivered>>
  BY DEF RespondSent, receiverVars
<1>1. /\ request \in Request /\ request.id \in Nat /\ request # None
      /\ requestOnWire = None /\ replyOnWire = None /\ (receiverClosed \/ pending = request)
      /\ inHand \in Seq(Ids) /\ Len(inHand) \in 1 .. request.limit /\ Len(inHand) \in Nat /\ sent \in Nat
      /\ Len(queue) \in Nat
  BY <1>0, Requests, LenProperties DEF IInv, Shapes, OneRequest, InHand, Answering
<1>2. << >> \in Seq(Ids) /\ Len(<< >>) = 0
  BY EmptySeq
<1>3. /\ ~receiverClosed => replyOnWire' \in Reply /\ replyOnWire'.id = request.id
                            /\ replyOnWire'.items = inHand /\ replyOnWire' # None
  BY <1>0, <1>1, NoneAssumption DEF Reply, Ids
<1>4. Shapes'
  BY <1>0, <1>1, <1>2, <1>3 DEF IInv, Shapes, ResponderStates
<1>5. OneRequest' /\ InHand' /\ InHandJoinsQueue'
  BY <1>0, <1>1, <1>3 DEF IInv, OneRequest, InHand, InHandJoinsQueue, Answering
<1>6. CountersConserveRollouts'
  <2>1. OnWire = << >> /\ OnWire' = IF receiverClosed THEN << >> ELSE inHand
    BY <1>0, <1>1, <1>3 DEF OnWire
  <2>2. Len(buffered) \in Nat /\ Len(delivered) \in Nat /\ droppedOldest \in Nat
    BY LenProperties DEF IInv, Shapes
  <2> QED
    BY <1>0, <1>1, <1>2, <2>1, <2>2, SMTT(30) DEF IInv, CountersConserveRollouts
<1> QED
  BY <1>4, <1>5, <1>6 DEF IInv

\* restore_oldest puts back the newest of the reply, without a gap to the queue.
LEMMA RespondAgainIInv ==
    ASSUME IInv, RespondAgain
    PROVE  IInv'
<1> USE TransportAssumption
<1>0. /\ responder = "send" /\ responder' = "poll" /\ inHand' = << >>
      /\ queue' = Restored(QueueCapacity - Len(queue))
      /\ droppedOldest' = droppedOldest + Len(queue) + Len(inHand) - Len(queue')
      /\ UNCHANGED <<wake, request, enqueued, sent, closed, pending, nextRequestId, buffered,
                     receiverClosed, requestOnWire, replyOnWire, delivered>>
  BY DEF RespondAgain, receiverVars, wireVars
<1>1. /\ inHand \in Seq(Ids) /\ Len(inHand) \in Nat /\ Len(inHand) >= 1
      /\ queue \in Seq(Ids) /\ Len(queue) \in Nat /\ Len(queue) <= QueueCapacity
      /\ enqueued \in Nat /\ droppedOldest \in Nat /\ sent \in Nat
  BY <1>0, Requests, LenProperties DEF IInv, Shapes, InHand, OneRequest, Answering
<1>2. PICK cut \in 0 .. Len(inHand) :
        /\ queue' = Rest(inHand, cut) \o queue
        /\ Len(inHand) - cut <= QueueCapacity - Len(queue)
        /\ Len(queue) # QueueCapacity => Len(inHand) - cut >= 1
  <2> DEFINE room == QueueCapacity - Len(queue)
             c == IF room < Len(inHand) THEN Len(inHand) - room ELSE 0
  <2>1. /\ c \in 0 .. Len(inHand) /\ Len(inHand) - c <= QueueCapacity - Len(queue)
        /\ Len(queue) # QueueCapacity => Len(inHand) - c >= 1
    BY <1>1
  <2>2. queue' = Rest(inHand, c) \o queue
    BY <1>0 DEF Restored
  <2> QED
    BY <2>1, <2>2
<1>3. PICK back \in Seq(Ids) :
        /\ queue' = back \o queue /\ Len(back) = Len(inHand) - cut
        /\ \A i \in 1 .. Len(back) : back[i] = inHand[cut + i]
  <2>1. /\ Rest(inHand, cut) \in Seq(Ids)
        /\ Len(Rest(inHand, cut)) = IF cut < Len(inHand) THEN Len(inHand) - cut ELSE 0
        /\ \A i \in 1 .. Len(Rest(inHand, cut)) : Rest(inHand, cut)[i] = inHand[cut + i]
    BY <1>1, OldestAndRest
  <2>2. Len(Rest(inHand, cut)) = Len(inHand) - cut
    BY <1>1, <2>1
  <2> QED
    BY <1>2, <2>1, <2>2
<1>4. /\ queue' \in Seq(Ids) /\ Len(back) \in Nat /\ Len(queue') = Len(back) + Len(queue)
      /\ \A i \in 1 .. Len(back) + Len(queue) :
            queue'[i] = IF i <= Len(back) THEN back[i] ELSE queue[i - Len(back)]
  <2>1. Len(back) \in Nat
    BY LenProperties
  <2>2. /\ back \o queue \in Seq(Ids) /\ Len(back \o queue) = Len(back) + Len(queue)
        /\ \A i \in 1 .. Len(back) + Len(queue) :
              (back \o queue)[i] = IF i <= Len(back) THEN back[i] ELSE queue[i - Len(back)]
    BY <1>1, ConcatProperties
  <2> QED
    BY <1>3, <2>1, <2>2
<1>5. Len(queue') \in Nat /\ Len(queue') <= QueueCapacity /\ Len(queue') >= 1
  BY <1>1, <1>2, <1>3, <1>4, SMTT(30)
<1>6. queue' # << >>
  BY <1>5, EmptySeq
<1>7. Shapes'
  <2>1. droppedOldest' \in Nat
    BY <1>0, <1>1, <1>3, <1>4, SMTT(30)
  <2> QED
    BY <1>0, <1>4, <1>5, <2>1, EmptySeq DEF IInv, Shapes, ResponderStates
<1>8. OneRequest' /\ InHand' /\ InHandJoinsQueue'
  BY <1>0, <1>6 DEF IInv, OneRequest, InHand, InHandJoinsQueue, Answering
<1>9. CountersConserveRollouts'
  <2>1. OnWire' = OnWire
    BY <1>0 DEF OnWire
  <2>2. ~closed' => enqueued' = Len(queue') + Len(inHand') + sent' + droppedOldest'
    <3>1. Len(inHand') = 0
      BY <1>0, EmptySeq
    <3> QED
      BY <1>0, <1>1, <1>5, <3>1 DEF IInv, CountersConserveRollouts
  <2>3. \A i \in 1 .. Len(queue) : queue[i] = enqueued - Len(queue) + i
    BY <1>1, LenProperties DEF IInv, CountersConserveRollouts
  <2>4. ASSUME NEW i \in 1 .. Len(back) PROVE back[i] = enqueued - Len(queue') + i
    <3>1. Len(queue) # QueueCapacity
      BY <1>1, <1>2, <1>3, <1>4
    <3>2. cut + i \in 1 .. Len(inHand)
      BY <1>1, <1>3, <1>4
    <3>3. inHand[cut + i] = enqueued - Len(queue) - Len(inHand) + (cut + i)
      BY <1>0, <3>1, <3>2 DEF IInv, InHandJoinsQueue
    <3> QED
      BY <1>1, <1>3, <1>4, <3>3
  <2>5. ASSUME NEW i \in DOMAIN queue' PROVE queue'[i] = enqueued' - Len(queue') + i
    <3>1. i \in 1 .. Len(back) + Len(queue) /\ enqueued' = enqueued
      BY <1>0, <1>4, LenProperties
    <3>2. CASE i <= Len(back)
      <4>1. i \in 1 .. Len(back) /\ queue'[i] = back[i]
        BY <1>1, <1>4, <3>1, <3>2
      <4> QED
        BY <2>4, <3>1, <4>1
    <3>3. CASE ~(i <= Len(back))
      <4>1. i - Len(back) \in 1 .. Len(queue) /\ queue'[i] = queue[i - Len(back)]
        BY <1>1, <1>4, <3>1, <3>3
      <4>2. queue[i - Len(back)] = enqueued - Len(queue) + (i - Len(back))
        BY <2>3, <4>1
      <4> QED
        BY <1>1, <1>4, <3>1, <4>1, <4>2
    <3> QED
      BY <3>2, <3>3
  <2> QED
    BY <1>0, <2>1, <2>2, <2>5 DEF IInv, CountersConserveRollouts
<1> QED
  BY <1>7, <1>8, <1>9 DEF IInv

\* close() on the orchestrator: the queue is emptied, the responder ends, and the
\* reply on the wire may be lost.
LEMMA PublisherCloseIInv ==
    ASSUME IInv, PublisherClose
    PROVE  IInv'
<1>0. /\ closed' = TRUE /\ responder' \in {"failed", "cancelled"} /\ queue' = << >>
      /\ replyOnWire' = replyOnWire \/ replyOnWire' = None
      /\ UNCHANGED <<wake, request, inHand, enqueued, sent, droppedOldest, pending, nextRequestId,
                     buffered, receiverClosed, requestOnWire, delivered>>
  BY DEF PublisherClose, receiverVars
<1>1. << >> \in Seq(Ids) /\ Len(<< >>) = 0 /\ DOMAIN << >> = {}
  BY EmptySeq
<1>2. Shapes'
  BY <1>0, <1>1, TransportAssumption DEF IInv, Shapes, ResponderStates
<1>3. OneRequest' /\ InHand' /\ InHandJoinsQueue'
  BY <1>0 DEF IInv, OneRequest, InHand, InHandJoinsQueue, Answering
<1>4. CountersConserveRollouts'
  BY <1>0, <1>1 DEF CountersConserveRollouts
<1> QED
  BY <1>2, <1>3, <1>4 DEF IInv

\* What HandOut delivers and what it keeps.
LEMMA HandOutSeqs ==
    ASSUME IInv, NEW have \in Seq(Ids), NEW limit \in Limits, HandOut(have, limit)
    PROVE  /\ delivered' \in Seq(Ids) /\ buffered' \in Seq(Ids)
           /\ Len(delivered') + Len(buffered') = Len(delivered) + Len(have)
<1>1. limit \in Nat /\ delivered \in Seq(Ids) /\ Len(delivered) \in Nat /\ Len(have) \in Nat
  BY TransportAssumption, LenProperties DEF IInv, Shapes
<1>2. /\ Oldest(have, limit) \in Seq(Ids) /\ Rest(have, limit) \in Seq(Ids)
      /\ Len(Oldest(have, limit)) + Len(Rest(have, limit)) = Len(have)
      /\ Len(Oldest(have, limit)) \in Nat /\ Len(Rest(have, limit)) \in Nat
  <2>1. /\ Oldest(have, limit) \in Seq(Ids) /\ Rest(have, limit) \in Seq(Ids)
        /\ Len(Oldest(have, limit)) = IF limit < Len(have) THEN limit ELSE Len(have)
        /\ Len(Rest(have, limit)) = IF limit < Len(have) THEN Len(have) - limit ELSE 0
    BY <1>1, OldestAndRest
  <2> QED
    BY <1>1, <2>1
<1>3. /\ delivered' \in Seq(Ids) /\ Len(delivered') = Len(delivered) + Len(Oldest(have, limit))
  BY <1>1, <1>2, ConcatProperties DEF HandOut
<1>4. buffered' = Rest(have, limit)
  BY DEF HandOut
<1>5. Len(delivered') + Len(buffered') = (Len(delivered) + Len(Oldest(have, limit))) + Len(Rest(have, limit))
  BY <1>3, <1>4, Zenon
<1>6. PICK d \in Nat, h \in Nat, o \in Nat, r \in Nat :
        /\ d = Len(delivered) /\ h = Len(have)
        /\ o = Len(Oldest(have, limit)) /\ r = Len(Rest(have, limit))
  BY <1>1, <1>2, Zenon
<1>7. (d + o) + r = d + h
  <2>1. o + r = h
    BY <1>2, <1>6, Zenon
  <2> QED
    BY <2>1
<1> QED
  BY <1>2, <1>3, <1>4, <1>5, <1>6, <1>7, Zenon

\* The three ways of receive_available() to go on.
LEMMA ReceiveIInv ==
    ASSUME IInv, Receive
    PROVE  IInv'
<1> USE TransportAssumption
<1>0. PICK limit \in Limits :
        ReceiveBuffered(limit) \/ ReceiveRequest(limit) \/ ReceiveReply(limit)
  BY DEF Receive
<1>1. /\ UNCHANGED <<queue, wake, responder, request, inHand, enqueued, sent, droppedOldest, closed,
                     receiverClosed>>
      /\ ~receiverClosed
  BY <1>0 DEF ReceiveBuffered, ReceiveRequest, ReceiveReply, publisherVars
<1>2. InHand' /\ InHandJoinsQueue'
  BY <1>1 DEF IInv, InHand, InHandJoinsQueue
<1>3. /\ Len(buffered) \in Nat /\ Len(delivered) \in Nat /\ << >> \in Seq(Ids) /\ Len(<< >>) = 0
      /\ buffered \in Seq(Ids) /\ sent \in Nat
  BY LenProperties, EmptySeq DEF IInv, Shapes
<1>4. CASE ReceiveBuffered(limit)
  <2>1. UNCHANGED <<pending, nextRequestId, requestOnWire, replyOnWire>> /\ HandOut(buffered, limit)
    BY <1>4 DEF ReceiveBuffered, wireVars
  <2>2. /\ delivered' \in Seq(Ids) /\ buffered' \in Seq(Ids)
        /\ Len(delivered') + Len(buffered') = Len(delivered) + Len(buffered)
    BY <1>3, <2>1, HandOutSeqs
  <2>3. Shapes' /\ OneRequest'
    BY <1>1, <2>1, <2>2 DEF IInv, Shapes, OneRequest, Answering
  <2>4. CountersConserveRollouts'
    <3>1. OnWire' = OnWire /\ Len(OnWire) \in Nat
      BY <2>1, OnWireSeq DEF OnWire, IInv
    <3>2. Len(delivered') \in Nat /\ Len(buffered') \in Nat
      BY <2>2, LenProperties
    <3>3. Len(OnWire) + Len(buffered) + Len(delivered) = Len(OnWire) + Len(buffered') + Len(delivered')
      <4>1. PICK w \in Nat, b \in Nat, d \in Nat, b2 \in Nat, d2 \in Nat :
              /\ w = Len(OnWire) /\ b = Len(buffered) /\ d = Len(delivered)
              /\ b2 = Len(buffered') /\ d2 = Len(delivered')
        BY <1>3, <3>1, <3>2, Zenon
      <4>2. d2 + b2 = d + b
        BY <2>2, <4>1, Zenon
      <4>3. w + b + d = w + b2 + d2
        BY <4>2
      <4> QED
        BY <4>1, <4>3, Zenon
    <3> QED
      BY <1>1, <3>1, <3>3 DEF IInv, CountersConserveRollouts
  <2> QED
    BY <1>2, <2>3, <2>4 DEF IInv
<1>5. CASE ReceiveRequest(limit)
  <2> DEFINE r == [id |-> nextRequestId, limit |-> limit]
  <2>1. /\ pending = None /\ buffered = << >> /\ requestOnWire' = r /\ pending' = r
        /\ nextRequestId' = nextRequestId + 1 /\ UNCHANGED <<buffered, replyOnWire, delivered>>
    BY <1>5 DEF ReceiveRequest
  <2>2. r \in Request /\ r # None
    BY Requests DEF IInv, Shapes, Request
  <2>3. Shapes'
    BY <1>1, <2>1, <2>2 DEF IInv, Shapes
  <2>4. OneRequest'
    BY <1>1, <2>1, <2>2 DEF IInv, OneRequest
  <2>5. CountersConserveRollouts'
    BY <1>1, <2>1 DEF IInv, CountersConserveRollouts, OnWire
  <2> QED
    BY <1>2, <2>3, <2>4, <2>5 DEF IInv
<1>6. CASE ReceiveReply(limit)
  <2>1. /\ buffered = << >> /\ replyOnWire # None /\ pending' = None /\ replyOnWire' = None
        /\ HandOut(replyOnWire.items, limit) /\ UNCHANGED <<nextRequestId, requestOnWire>>
    BY <1>6 DEF ReceiveReply
  <2>2. replyOnWire.items \in Seq(Ids) /\ OnWire = replyOnWire.items /\ OnWire' = << >>
    BY <2>1 DEF IInv, Shapes, Reply, OnWire
  <2>3. /\ delivered' \in Seq(Ids) /\ buffered' \in Seq(Ids)
        /\ Len(delivered') + Len(buffered') = Len(delivered) + Len(replyOnWire.items)
    BY <2>1, <2>2, HandOutSeqs
  <2>4. Shapes'
    BY <1>1, <2>1, <2>3 DEF IInv, Shapes
  <2>5. OneRequest'
    BY <1>1, <2>1 DEF IInv, OneRequest, Answering
  <2>6. CountersConserveRollouts'
    <3>1. Len(delivered') \in Nat /\ Len(buffered') \in Nat /\ Len(replyOnWire.items) \in Nat
      BY <2>2, <2>3, LenProperties
    <3>2. Len(OnWire) + Len(buffered) + Len(delivered) = Len(OnWire') + Len(buffered') + Len(delivered')
      BY <1>3, <2>1, <2>2, <2>3, <3>1
    <3> QED
      BY <1>1, <3>2 DEF IInv, CountersConserveRollouts
  <2> QED
    BY <1>2, <2>4, <2>5, <2>6 DEF IInv
<1> QED
  BY <1>0, <1>4, <1>5, <1>6

LEMMA ReceiverCloseIInv ==
    ASSUME IInv, ReceiverClose
    PROVE  IInv'
<1>0. /\ receiverClosed' = TRUE /\ pending' = None /\ buffered' = << >> /\ replyOnWire' = None
      /\ requestOnWire' = requestOnWire \/ requestOnWire' = None
      /\ UNCHANGED <<queue, wake, responder, request, inHand, enqueued, sent, droppedOldest, closed,
                     nextRequestId, delivered>>
  BY DEF ReceiverClose, publisherVars
<1>1. << >> \in Seq(Ids)
  BY EmptySeq
<1>2. Shapes'
  BY <1>0, <1>1 DEF IInv, Shapes
<1>3. OneRequest' /\ InHand' /\ InHandJoinsQueue'
  BY <1>0 DEF IInv, OneRequest, InHand, InHandJoinsQueue, Answering
<1>4. CountersConserveRollouts'
  BY <1>0 DEF IInv, CountersConserveRollouts
<1> QED
  BY <1>2, <1>3, <1>4 DEF IInv

\* Every step of either side preserves the invariant.
LEMMA NextIInv == IInv /\ [Next]_vars => IInv'
<1> SUFFICES ASSUME IInv, [Next]_vars PROVE IInv'
  OBVIOUS
<1>1. CASE UNCHANGED vars
  BY <1>1 DEF vars, publisherVars, receiverVars, wireVars, IInv, Shapes, OneRequest, InHand,
              InHandJoinsQueue, CountersConserveRollouts, OnWire, Answering
<1>2. CASE Responder
  BY <1>2, RespondIInv, RespondPopIInv, RespondSentIInv, RespondAgainIInv DEF Responder
<1> QED
  BY <1>1, <1>2, PublishIInv, PublisherCloseIInv, ReceiveIInv, ReceiverCloseIInv DEF Next

\* The inductive invariant: one outstanding request, what the responder holds, and
\* how that joins what is queued.
THEOREM TransportInductive == Spec => []IInv
  BY InitIInv, NextIInv, PTL DEF Spec

\* Types; and the trainer never meets a reply that _accept_response would raise on,
\* however late it comes and whatever limit the call that takes it has.
THEOREM TransportTypes == Spec => []TypeOK
<1>1. IInv => TypeOK
  BY DEF IInv, Shapes, OneRequest, TypeOK, Ids, Reply
<1> QED
  BY <1>1, TransportInductive, PTL

\* No rollout is lost without being counted, none is counted twice, and what waits
\* is always the newest, through overflow, failed sends and late replies.
THEOREM TransportConserves == Spec => []CountersConserveRollouts
<1>1. IInv => CountersConserveRollouts
  BY DEF IInv
<1> QED
  BY <1>1, TransportInductive, PTL

-----------------------------------------------------------------------------
(***************************************************************************)
(* The stream implements the feed.  Its rollouts sit in four places, and   *)
(* read from the trainer back to the orchestrator they are in order.       *)
(***************************************************************************)
Underway == buffered \o OnWire \o Sending \o queue

InOrder(s) == \A i, j \in DOMAIN s : i < j => s[i] < s[j]

Before(s, t) == \A x \in Range(s), y \in Range(t) : x < y

InOrderOneByOne(b, w, s, q) ==
    /\ InOrder(b) /\ InOrder(w) /\ InOrder(s) /\ InOrder(q)
    /\ Before(b, w) /\ Before(b, s) /\ Before(b, q)
    /\ Before(w, s) /\ Before(w, q) /\ Before(s, q)

UnderwayInOrder == InOrder(Underway) /\ Range(Underway) \subseteq 1 .. enqueued

\* Two sequences are in order together when each is and the first comes before the second.
LEMMA InOrderConcat ==
    ASSUME NEW s \in Seq(Nat), NEW t \in Seq(Nat)
    PROVE  InOrder(s \o t) <=> InOrder(s) /\ InOrder(t) /\ Before(s, t)
<1>1. /\ Len(s) \in Nat /\ Len(t) \in Nat /\ DOMAIN s = 1 .. Len(s) /\ DOMAIN t = 1 .. Len(t)
      /\ s \o t \in Seq(Nat) /\ Len(s \o t) = Len(s) + Len(t)
      /\ \A i \in 1 .. Len(s) : s[i] \in Nat
      /\ \A i \in 1 .. Len(t) : t[i] \in Nat
  BY LenProperties, ConcatProperties, ElementOfSeq
<1>2. DOMAIN (s \o t) = 1 .. Len(s) + Len(t)
  BY <1>1, LenProperties
<1>3. \A i \in 1 .. Len(s) + Len(t) : (s \o t)[i] = IF i <= Len(s) THEN s[i] ELSE t[i - Len(s)]
  BY ConcatProperties
<1> DEFINE u == s \o t
<1>4. /\ \A i \in 1 .. Len(s) : i \in 1 .. Len(s) + Len(t) /\ u[i] = s[i]
      /\ \A j \in 1 .. Len(t) : Len(s) + j \in 1 .. Len(s) + Len(t) /\ u[Len(s) + j] = t[j]
  BY <1>1, <1>3, SMTT(30)
<1>5. ASSUME InOrder(u) PROVE InOrder(s) /\ InOrder(t) /\ Before(s, t)
  <2>1. ASSUME NEW i \in DOMAIN s, NEW j \in DOMAIN s, i < j PROVE s[i] < s[j]
    BY <1>1, <1>2, <1>4, <1>5, <2>1 DEF InOrder
  <2>2. ASSUME NEW i \in DOMAIN t, NEW j \in DOMAIN t, i < j PROVE t[i] < t[j]
    <3>1. Len(s) + i < Len(s) + j /\ Len(s) + i \in DOMAIN u /\ Len(s) + j \in DOMAIN u
      BY <1>1, <1>2, <1>4, <2>2, SMTT(30)
    <3> QED
      BY <1>1, <1>4, <1>5, <3>1 DEF InOrder
  <2>3. ASSUME NEW x \in Range(s), NEW y \in Range(t) PROVE x < y
    <3>1. PICK i \in 1 .. Len(s), j \in 1 .. Len(t) : x = s[i] /\ y = t[j]
      BY <1>1 DEF Range
    <3>2. i < Len(s) + j /\ i \in DOMAIN u /\ Len(s) + j \in DOMAIN u
      BY <1>1, <1>2, <1>4
    <3> QED
      BY <1>4, <1>5, <3>1, <3>2 DEF InOrder
  <2> QED
    BY <2>1, <2>2, <2>3 DEF InOrder, Before
<1>6. ASSUME InOrder(s), InOrder(t), Before(s, t), NEW i \in DOMAIN u, NEW j \in DOMAIN u, i < j
      PROVE  u[i] < u[j]
  <2>0. i \in 1 .. Len(s) + Len(t) /\ j \in 1 .. Len(s) + Len(t) /\ i < j
    BY <1>2, <1>6
  <2>1. CASE j <= Len(s)
    <3>1. i \in DOMAIN s /\ j \in DOMAIN s /\ u[i] = s[i] /\ u[j] = s[j]
      BY <1>1, <1>3, <2>0, <2>1
    <3> QED
      BY <1>6, <3>1 DEF InOrder
  <2>2. CASE i > Len(s)
    <3>1. /\ i - Len(s) \in DOMAIN t /\ j - Len(s) \in DOMAIN t /\ i - Len(s) < j - Len(s)
          /\ u[i] = t[i - Len(s)] /\ u[j] = t[j - Len(s)]
      BY <1>1, <1>3, <2>0, <2>2, SMTT(30)
    <3> QED
      BY <1>6, <3>1 DEF InOrder
  <2>3. CASE i <= Len(s) /\ j > Len(s)
    <3>1. i \in DOMAIN s /\ j - Len(s) \in DOMAIN t /\ u[i] = s[i] /\ u[j] = t[j - Len(s)]
      BY <1>1, <1>3, <2>0, <2>3
    <3> QED
      BY <1>6, <3>1 DEF Before, Range
  <2> QED
    BY <1>1, <2>0, <2>1, <2>2, <2>3, SMTT(30)
<1>7. ASSUME InOrder(s), InOrder(t), Before(s, t) PROVE InOrder(u)
  BY <1>6, <1>7 DEF InOrder
<1> QED
  BY <1>5, <1>7

(***************************************************************************)
(* Two facts of the library about concatenation, named so that the provers *)
(* need not look into them to use them.                                    *)
(***************************************************************************)
Associates(s, t, u) == (s \o t) \o u = s \o (t \o u)

RangesJoin(s, t) == Range(s \o t) = Range(s) \cup Range(t)

LEMMA Concatenation ==
    ASSUME NEW s \in Seq(Nat), NEW t \in Seq(Nat)
    PROVE  /\ s \o t \in Seq(Nat) /\ RangesJoin(s, t)
           /\ \A u \in Seq(Nat) : Associates(s, t, u)
<1>1. \A S : \A a, b \in Seq(S) : RangesJoin(a, b)
  BY RangeConcatenation, Zenon DEF RangesJoin
<1>2. \A S : \A a, b, c \in Seq(S) : Associates(a, b, c)
  BY ConcatAssociative, Zenon DEF Associates
<1>3. s \o t \in Seq(Nat)
  BY ConcatProperties
<1> QED
  BY <1>1, <1>2, <1>3, Zenon

\* The four places together: in order when each is and they follow each other.
LEMMA InOrderFour ==
    ASSUME NEW b \in Seq(Nat), NEW w \in Seq(Nat), NEW s \in Seq(Nat), NEW q \in Seq(Nat)
    PROVE  /\ b \o w \o s \o q \in Seq(Nat)
           /\ Range(b \o w \o s \o q) = Range(b) \cup Range(w) \cup Range(s) \cup Range(q)
           /\ InOrder(b \o w \o s \o q) <=> InOrderOneByOne(b, w, s, q)
<1>1. /\ b \o w \in Seq(Nat) /\ b \o w \o s \in Seq(Nat) /\ b \o w \o s \o q \in Seq(Nat)
  BY ConcatProperties
<1>2. /\ Range(b \o w) = Range(b) \cup Range(w)
      /\ Range(b \o w \o s) = Range(b \o w) \cup Range(s)
      /\ Range(b \o w \o s \o q) = Range(b \o w \o s) \cup Range(q)
  BY <1>1, Concatenation, Zenon DEF RangesJoin
<1>3. /\ Before(b \o w, s) <=> Before(b, s) /\ Before(w, s)
      /\ Before(b \o w \o s, q) <=> Before(b, q) /\ Before(w, q) /\ Before(s, q)
  BY <1>2, Zenon DEF Before
<1>4. /\ InOrder(b \o w) <=> InOrder(b) /\ InOrder(w) /\ Before(b, w)
      /\ InOrder(b \o w \o s) <=> InOrder(b \o w) /\ InOrder(s) /\ Before(b \o w, s)
      /\ InOrder(b \o w \o s \o q) <=> InOrder(b \o w \o s) /\ InOrder(q) /\ Before(b \o w \o s, q)
  BY <1>1, InOrderConcat
<1> QED
  BY <1>1, <1>2, <1>3, <1>4, Zenon DEF InOrderOneByOne

\* The front and the rest of what is in order are in order, the front first.
LEMMA InOrderSplit ==
    ASSUME NEW s \in Seq(Nat), NEW n \in Nat
    PROVE  /\ Oldest(s, n) \in Seq(Nat) /\ Rest(s, n) \in Seq(Nat)
           /\ Range(Oldest(s, n)) \subseteq Range(s) /\ Range(Rest(s, n)) \subseteq Range(s)
           /\ InOrder(s) => InOrder(Oldest(s, n)) /\ InOrder(Rest(s, n)) /\ Before(Oldest(s, n), Rest(s, n))
<1>1. /\ Oldest(s, n) \in Seq(Nat) /\ Rest(s, n) \in Seq(Nat)
      /\ Oldest(s, n) \o Rest(s, n) = s
  BY OldestAndRest, Zenon
<1>2. Range(s) = Range(Oldest(s, n)) \cup Range(Rest(s, n))
  <2>1. RangesJoin(Oldest(s, n), Rest(s, n))
    BY <1>1, Concatenation, Zenon
  <2> QED
    BY <1>1, <2>1, Zenon DEF RangesJoin
<1>3. InOrder(s) => InOrder(Oldest(s, n)) /\ InOrder(Rest(s, n)) /\ Before(Oldest(s, n), Rest(s, n))
  BY <1>1, InOrderConcat, Zenon
<1> QED
  BY <1>1, <1>2, <1>3

\* A concatenation falls apart where it was put together.
LEMMA ConcatSplit ==
    ASSUME NEW S, NEW s \in Seq(S), NEW t \in Seq(S)
    PROVE  /\ SubSeq(s \o t, 1, Len(s)) = s
           /\ SubSeq(s \o t, Len(s) + 1, Len(s \o t)) = t
<1> DEFINE u == s \o t
           a == SubSeq(u, 1, Len(s))
           z == SubSeq(u, Len(s) + 1, Len(u))
<1>1. /\ Len(s) \in Nat /\ Len(t) \in Nat /\ u \in Seq(S) /\ Len(u) = Len(s) + Len(t)
      /\ \A i \in 1 .. Len(u) : u[i] \in S
  BY LenProperties, ConcatProperties, ElementOfSeq
<1>2. \A i \in 1 .. Len(s) + Len(t) : u[i] = IF i <= Len(s) THEN s[i] ELSE t[i - Len(s)]
  BY ConcatProperties
<1> HIDE DEF u
<1>3. a = s
  <2>1. \A i \in 1 .. Len(s) : u[i] \in S /\ u[i] = s[i]
    BY <1>1, <1>2
  <2>2. /\ a \in Seq(S) /\ Len(a) = IF 1 <= Len(s) THEN Len(s) - 1 + 1 ELSE 0
        /\ \A i \in 1 .. Len(s) - 1 + 1 : a[i] = u[1 + i - 1]
    BY <1>1, <2>1, SubSeqProperties
  <2> HIDE DEF a
  <2>3. Len(a) = Len(s) /\ \A i \in 1 .. Len(a) : a[i] = s[i]
    BY <1>1, <2>1, <2>2
  <2> QED
    BY <2>2, <2>3, SeqEqual
<1>4. z = t
  <2>1. Len(s) + 1 \in Int /\ Len(u) \in Int /\ \A i \in Len(s) + 1 .. Len(u) : u[i] \in S
    BY <1>1
  <2>2. /\ z \in Seq(S) /\ Len(z) = IF Len(s) + 1 <= Len(u) THEN Len(u) - (Len(s) + 1) + 1 ELSE 0
        /\ \A i \in 1 .. Len(u) - (Len(s) + 1) + 1 : z[i] = u[(Len(s) + 1) + i - 1]
    BY <2>1, SubSeqProperties
  <2> HIDE DEF z
  <2>3. Len(z) = Len(t)
    BY <1>1, <2>2
  <2>4. ASSUME NEW i \in 1 .. Len(z) PROVE z[i] = t[i]
    <3>1. z[i] = u[Len(s) + i] /\ Len(s) + i \in 1 .. Len(s) + Len(t) /\ ~(Len(s) + i <= Len(s))
      <4>1. /\ i \in 1 .. Len(u) - (Len(s) + 1) + 1 /\ (Len(s) + 1) + i - 1 = Len(s) + i
            /\ Len(s) + i \in 1 .. Len(s) + Len(t) /\ ~(Len(s) + i <= Len(s))
        BY <1>1, <2>3
      <4> QED
        BY <2>2, <4>1, Zenon
    <3>2. u[Len(s) + i] = t[(Len(s) + i) - Len(s)] /\ (Len(s) + i) - Len(s) = i
      BY <1>1, <1>2, <3>1
    <3> QED
      BY <3>1, <3>2
  <2> QED
    BY <2>2, <2>3, <2>4, SeqEqual
<1> QED
  BY <1>3, <1>4 DEF u

\* An empty place is in order and before and after everything.
LEMMA EmptyInOrder ==
    /\ InOrder(<< >>) /\ Range(<< >>) = {}
    /\ \A s : Before(<< >>, s) /\ Before(s, << >>)
  BY DEF InOrder, Before, Range

LEMMA Places ==
    ASSUME IInv
    PROVE  /\ buffered \in Seq(Nat) /\ OnWire \in Seq(Nat) /\ Sending \in Seq(Nat) /\ queue \in Seq(Nat)
           /\ buffered \in Seq(Ids) /\ OnWire \in Seq(Ids) /\ Sending \in Seq(Ids) /\ queue \in Seq(Ids)
<1>1. /\ buffered \in Seq(Ids) /\ OnWire \in Seq(Ids) /\ Sending \in Seq(Ids) /\ queue \in Seq(Ids)
  BY OnWireSeq, EmptySeq DEF IInv, Shapes, Sending
<1>2. Ids \subseteq Nat
  BY DEF Ids
<1> QED
  BY <1>1, <1>2, SeqMonotonic, Zenon

\* The same after a step.
LEMMA PlacesNext ==
    ASSUME IInv'
    PROVE  buffered' \in Seq(Nat) /\ OnWire' \in Seq(Nat) /\ Sending' \in Seq(Nat) /\ queue' \in Seq(Nat)
<1>1. /\ buffered' \in Seq(Ids) /\ OnWire' \in Seq(Ids) /\ Sending' \in Seq(Ids) /\ queue' \in Seq(Ids)
  BY EmptySeq DEF IInv, Shapes, Sending, OnWire, Reply
<1>2. Ids \subseteq Nat
  BY DEF Ids
<1> QED
  BY <1>1, <1>2, SeqMonotonic, Zenon

\* What is underway, place by place, before and after a step.
LEMMA UnderwayParts ==
    ASSUME IInv
    PROVE  /\ Underway \in Seq(Nat)
           /\ InOrder(Underway) <=> InOrderOneByOne(buffered, OnWire, Sending, queue)
           /\ Range(Underway) = Range(buffered) \cup Range(OnWire) \cup Range(Sending) \cup Range(queue)
<1>1. buffered \in Seq(Nat) /\ OnWire \in Seq(Nat) /\ Sending \in Seq(Nat) /\ queue \in Seq(Nat)
  BY Places
<1> QED
  BY <1>1, InOrderFour DEF Underway

LEMMA UnderwayPartsNext ==
    ASSUME IInv'
    PROVE  /\ Underway' \in Seq(Nat)
           /\ InOrder(Underway') <=> InOrderOneByOne(buffered', OnWire', Sending', queue')
           /\ Range(Underway') = Range(buffered') \cup Range(OnWire') \cup Range(Sending') \cup Range(queue')
<1>1. buffered' \in Seq(Nat) /\ OnWire' \in Seq(Nat) /\ Sending' \in Seq(Nat) /\ queue' \in Seq(Nat)
  BY PlacesNext
<1> QED
  BY <1>1, InOrderFour DEF Underway

\* A step that delivers nothing, publishes nothing and keeps some of the
\* rollouts, still in order, is a Lose step of the feed.
LEMMA KeepingIsLose ==
    ASSUME IInv, IInv', UnderwayInOrder, UNCHANGED <<enqueued, delivered>>,
           InOrder(Underway'), Range(Underway') \subseteq Range(Underway)
    PROVE  Feed!Lose /\ UnderwayInOrder'
<1>1. Underway' \in Seq(Nat)
  BY UnderwayPartsNext
<1>2. Underway' \in Seq(Range(Underway))
  BY <1>1, SeqOfRange, SeqMonotonic
<1>3. Feed!Lose
  BY <1>2 DEF Feed!Lose, Feed!Keeps, Feed!Ordered, Feed!Range, InOrder, Range, Underway
<1>4. UnderwayInOrder'
  BY DEF UnderwayInOrder
<1> QED
  BY <1>3, <1>4

\* A place may be emptied, none filled: rollouts lost with a failed send or a close.
LEMMA EmptyingIsLose ==
    ASSUME IInv, IInv', UnderwayInOrder, UNCHANGED <<enqueued, delivered>>,
           buffered' = buffered \/ buffered' = << >>, OnWire' = OnWire \/ OnWire' = << >>,
           Sending' = Sending \/ Sending' = << >>, queue' = queue \/ queue' = << >>
    PROVE  Feed!Lose /\ UnderwayInOrder'
<1>1. /\ InOrderOneByOne(buffered, OnWire, Sending, queue)
      /\ Range(Underway) = Range(buffered) \cup Range(OnWire) \cup Range(Sending) \cup Range(queue)
  BY UnderwayParts DEF UnderwayInOrder
<1>2. InOrderOneByOne(buffered', OnWire', Sending', queue')
  BY <1>1, EmptyInOrder DEF InOrderOneByOne
<1>3. /\ Range(buffered') \subseteq Range(buffered) /\ Range(OnWire') \subseteq Range(OnWire)
      /\ Range(Sending') \subseteq Range(Sending) /\ Range(queue') \subseteq Range(queue)
  BY EmptyInOrder
<1>4. /\ InOrder(Underway')
      /\ Range(Underway') = Range(buffered') \cup Range(OnWire') \cup Range(Sending') \cup Range(queue')
  BY <1>2, UnderwayPartsNext
<1>5. Range(Underway') \subseteq Range(Underway)
  BY <1>1, <1>3, <1>4
<1> QED
  BY <1>4, <1>5, KeepingIsLose

\* The front of what is underway goes to the trainer: a Deliver step of the feed.
LEMMA HandingOutIsDeliver ==
    ASSUME UnderwayInOrder, NEW o \in Seq(Nat), o # << >>, Underway' \in Seq(Nat),
           Underway = o \o Underway', delivered' = delivered \o o, enqueued' = enqueued
    PROVE  Feed!Deliver /\ UnderwayInOrder'
<1>1. /\ SubSeq(Underway, 1, Len(o)) = o
      /\ SubSeq(Underway, Len(o) + 1, Len(Underway)) = Underway'
  BY ConcatSplit
<1>2. Len(o) \in 1 .. Len(Underway)
  <2>1. Len(o) \in Nat \ {0} /\ Len(Underway') \in Nat /\ Len(Underway) = Len(o) + Len(Underway')
    BY EmptySeq, LenProperties, ConcatProperties
  <2> QED
    BY <2>1
<1>3. Feed!Deliver
  BY <1>1, <1>2 DEF Feed!Deliver, Underway
<1>4. InOrder(Underway') /\ Range(Underway') \subseteq Range(Underway)
  BY InOrderConcat, Concatenation DEF UnderwayInOrder, RangesJoin
<1>5. UnderwayInOrder'
  BY <1>4 DEF UnderwayInOrder
<1> QED
  BY <1>3, <1>5

\* publish() joins the end of what is underway; the oldest waiting one may be lost.
LEMMA PublishFeeds ==
    ASSUME IInv, IInv', UnderwayInOrder, Publish
    PROVE  Feed!Publish /\ UnderwayInOrder'
<1>1. PICK q0 : /\ (q0 = Tail(queue) /\ queue # << >>) \/ q0 = queue
                /\ queue' = Append(q0, enqueued + 1)
  <2>1. Len(queue) = QueueCapacity => queue # << >>
    BY EmptySeq, TransportAssumption
  <2> QED
    BY <2>1 DEF Publish, DropOldestAppend
<1>2. /\ enqueued < MaxPublished /\ enqueued' = enqueued + 1 /\ delivered' = delivered
      /\ buffered' = buffered /\ OnWire' = OnWire /\ Sending' = Sending
      /\ enqueued \in Nat /\ enqueued + 1 \in Nat
  BY DEF Publish, receiverVars, wireVars, OnWire, Sending, IInv, Shapes
<1>3. /\ buffered \in Seq(Nat) /\ OnWire \in Seq(Nat) /\ Sending \in Seq(Nat) /\ queue \in Seq(Nat)
  BY Places
<1>4. /\ InOrderOneByOne(buffered, OnWire, Sending, queue) /\ Range(Underway) \subseteq 1 .. enqueued
      /\ Range(Underway) = Range(buffered) \cup Range(OnWire) \cup Range(Sending) \cup Range(queue)
  BY UnderwayParts DEF UnderwayInOrder
<1>5. q0 \in Seq(Nat) /\ Range(q0) \subseteq Range(queue) /\ InOrder(q0)
  <2>1. CASE q0 = queue
    BY <1>3, <1>4, <2>1 DEF InOrderOneByOne
  <2>2. CASE q0 = Tail(queue) /\ queue # << >>
    <3>1. q0 = Rest(queue, 1)
      BY <1>3, <2>2, TailIsSubSeq DEF Rest
    <3>2. InOrder(queue)
      BY <1>4 DEF InOrderOneByOne
    <3> QED
      BY <1>3, <3>1, <3>2, InOrderSplit
  <2> QED
    BY <1>1, <2>1, <2>2
<1>6. InOrderOneByOne(buffered, OnWire, Sending, q0)
  BY <1>4, <1>5 DEF InOrderOneByOne, Before
<1>7. PICK x \in Seq(Nat) : x = buffered \o OnWire \o Sending
  BY <1>3, ConcatProperties
<1>8. PICK v \in Seq(Nat) : v = x \o q0 /\ v = buffered \o OnWire \o Sending \o q0
  BY <1>5, <1>7, ConcatProperties
<1>9. /\ InOrder(v)
      /\ Range(v) = Range(buffered) \cup Range(OnWire) \cup Range(Sending) \cup Range(q0)
  BY <1>3, <1>5, <1>6, <1>8, InOrderFour
<1>10. Range(v) \subseteq Range(Underway)
  BY <1>4, <1>5, <1>9
<1>11. PICK e \in Nat : e = enqueued + 1
  BY <1>2
<1>12. << e >> \in Seq(Nat) /\ Len(<< e >>) = 1 /\ << e >>[1] = e /\ Range(<< e >>) = {e} /\ InOrder(<< e >>)
  BY DEF Range, InOrder
<1>13. Underway' = v \o << e >>
  <2>1. queue' = q0 \o << e >>
    BY <1>1, <1>5, <1>11, AppendIsConcat
  <2>2. x \o (q0 \o << e >>) = (x \o q0) \o << e >>
    <3>1. Associates(x, q0, << e >>)
      BY <1>5, <1>12, Concatenation, Zenon
    <3> QED
      BY <3>1 DEF Associates
  <2> QED
    BY <1>2, <1>7, <1>8, <2>1, <2>2 DEF Underway
<1>14. /\ Len(v) \in Nat /\ Len(Underway') = Len(v) + 1
       /\ Underway'[Len(v) + 1] = e
       /\ SubSeq(Underway', 1, Len(v)) = v
  <2>1. Len(v) \in Nat
    BY LenProperties
  <2>2. /\ Len(v \o << e >>) = Len(v) + 1
        /\ \A i \in 1 .. Len(v) + 1 : (v \o << e >>)[i] = IF i <= Len(v) THEN v[i] ELSE << e >>[i - Len(v)]
    BY <1>12, ConcatProperties
  <2>3. (v \o << e >>)[Len(v) + 1] = e
    BY <1>12, <2>1, <2>2
  <2>4. SubSeq(v \o << e >>, 1, Len(v)) = v
    BY <1>12, ConcatSplit
  <2> QED
    BY <1>13, <2>1, <2>2, <2>3, <2>4
<1>15. Len(Underway') - 1 = Len(v) /\ Underway' # << >>
  BY <1>14, EmptySeq
<1>16. v \in Seq(Range(Underway))
  BY <1>8, <1>10, SeqOfRange, SeqMonotonic
<1>17. Feed!Publish
  <2>1. Feed!Keeps(v)
    BY <1>9, <1>16 DEF Feed!Keeps, Feed!Ordered, Feed!Range, InOrder, Range, Underway
  <2>2. Feed!Keeps(SubSeq(Underway', 1, Len(Underway') - 1))
    BY <1>14, <1>15, <2>1
  <2>3. Underway'[Len(Underway')] = enqueued'
    BY <1>2, <1>11, <1>14
  <2> QED
    BY <1>2, <1>15, <2>2, <2>3 DEF Feed!Publish, Underway
<1>18. InOrder(Underway') /\ Range(Underway') = Range(v) \cup {e}
  <2>1. Before(v, << e >>)
    BY <1>2, <1>4, <1>10, <1>11, <1>12 DEF Before
  <2> QED
    <3>1. \A l \in Seq(Nat) : /\ InOrder(v) /\ InOrder(l) /\ Before(v, l) => InOrder(v \o l)
                             /\ Range(v \o l) = Range(v) \cup Range(l)
      BY InOrderConcat, Concatenation DEF RangesJoin
    <3> QED
      BY <1>9, <1>12, <1>13, <2>1, <3>1
<1>19. UnderwayInOrder'
  BY <1>2, <1>4, <1>10, <1>11, <1>18 DEF UnderwayInOrder
<1> QED
  BY <1>17, <1>19

\* The responder moves rollouts from place to place, and loses what does not fit
\* back; none overtakes another.
LEMMA RespondFeeds ==
    ASSUME IInv, IInv', UnderwayInOrder, Responder
    PROVE  Feed!Lose /\ UnderwayInOrder'
<1>0. /\ UNCHANGED <<enqueued, delivered>> /\ buffered' = buffered
  BY DEF Responder, RespondReceive, RespondCheck, RespondWake, RespondPop, RespondSent, RespondAgain,
         RespondFails, receiverVars
<1>1. CASE RespondReceive \/ RespondCheck \/ RespondWake \/ RespondFails
  <2>1. UNCHANGED <<queue, inHand, replyOnWire>> /\ responder' # "send"
    BY <1>1 DEF RespondReceive, RespondCheck, RespondWake, RespondFails, wireVars
  <2>2. queue' = queue /\ OnWire' = OnWire /\ Sending' = << >>
    BY <2>1 DEF OnWire, Sending
  <2> QED
    BY <1>0, <2>2, EmptyingIsLose
<1> USE <1>0
<1>2. /\ buffered \in Seq(Nat) /\ OnWire \in Seq(Nat) /\ Sending \in Seq(Nat) /\ queue \in Seq(Nat)
  BY Places
<1>3. /\ InOrderOneByOne(buffered, OnWire, Sending, queue)
      /\ Range(Underway) = Range(buffered) \cup Range(OnWire) \cup Range(Sending) \cup Range(queue)
  BY UnderwayParts DEF UnderwayInOrder
<1>4. SUFFICES ASSUME RespondPop \/ RespondSent \/ RespondAgain
               PROVE  /\ InOrderOneByOne(buffered, OnWire', Sending', queue')
                      /\ Range(OnWire') \cup Range(Sending') \cup Range(queue') \subseteq Range(Underway)
  <2>1. CASE RespondPop \/ RespondSent \/ RespondAgain
    <3>1. InOrder(Underway') /\ Range(Underway') \subseteq Range(Underway)
      BY <1>3, <1>4, <2>1, UnderwayPartsNext
    <3> QED
      BY <3>1, KeepingIsLose
  <2> QED
    BY <1>1, <2>1 DEF Responder
<1>5. CASE RespondPop
  <2>1. PICK n \in Nat : Sending' = Oldest(queue, n) /\ queue' = Rest(queue, n)
    <3>1. request.limit \in Nat /\ responder = "poll" /\ responder' = "send"
      BY <1>5, Requests DEF RespondPop, IInv, Shapes, OneRequest, Answering
    <3>2. /\ Len(queue) \in Nat
          /\ Len(Oldest(queue, request.limit)) = IF request.limit < Len(queue) THEN request.limit ELSE Len(queue)
      BY <1>2, <3>1, LenProperties, OldestAndRest
    <3>3. PICK m \in Nat : m = Len(Oldest(queue, request.limit)) /\ Oldest(queue, m) = Oldest(queue, request.limit)
      BY <3>1, <3>2 DEF Oldest
    <3>4. Sending' = Oldest(queue, m) /\ queue' = Rest(queue, m)
      BY <1>5, <3>1, <3>3 DEF RespondPop, ReplyItems, Sending
    <3> QED
      BY <3>4
  <2>2. OnWire' = OnWire
    BY <1>5 DEF RespondPop, OnWire, wireVars
  <2>3. /\ Range(Sending') \subseteq Range(queue) /\ Range(queue') \subseteq Range(queue)
        /\ InOrder(Sending') /\ InOrder(queue') /\ Before(Sending', queue')
    BY <1>2, <1>3, <2>1, InOrderSplit DEF InOrderOneByOne
  <2> QED
    BY <1>3, <2>2, <2>3 DEF InOrderOneByOne, Before
<1>6. CASE RespondSent
  <2>1. /\ OnWire' = Sending \/ OnWire' = << >>
        /\ Sending' = << >> /\ queue' = queue
    BY <1>6, NoneAssumption DEF RespondSent, OnWire, Sending, IInv, Shapes, Reply
  <2> QED
    BY <1>3, <2>1, EmptyInOrder DEF InOrderOneByOne
<1>7. CASE RespondAgain
  <2>1. PICK n \in Nat : queue' = Rest(Sending, n) \o queue
    <3>1. Len(queue) \in Nat /\ Len(inHand) \in Nat /\ Sending = inHand /\ QueueCapacity \in Nat
      BY <1>2, <1>7, LenProperties, TransportAssumption DEF RespondAgain, Sending, IInv, Shapes
    <3> DEFINE room == QueueCapacity - Len(queue)
               c == IF room < Len(inHand) THEN Len(inHand) - room ELSE 0
    <3>2. c \in Nat
      BY <3>1
    <3>3. queue' = Rest(Sending, c) \o queue
      BY <1>7, <3>1 DEF RespondAgain, Restored
    <3> QED
      BY <3>2, <3>3
  <2>2. /\ OnWire' = OnWire /\ Sending' = << >>
    BY <1>7 DEF RespondAgain, OnWire, Sending, wireVars
  <2>3. /\ Rest(Sending, n) \in Seq(Nat) /\ Range(Rest(Sending, n)) \subseteq Range(Sending)
        /\ InOrder(Rest(Sending, n)) /\ Before(Rest(Sending, n), queue)
    BY <1>2, <1>3, InOrderSplit DEF InOrderOneByOne, Before
  <2>4. InOrder(queue') /\ Range(queue') = Range(Rest(Sending, n)) \cup Range(queue)
    BY <1>2, <1>3, <2>1, <2>3, InOrderConcat, Concatenation DEF InOrderOneByOne, RangesJoin
  <2> QED
    BY <1>3, <2>2, <2>3, <2>4, EmptyInOrder DEF InOrderOneByOne, Before
<1> QED
  BY <1>4, <1>5, <1>6, <1>7

\* What is taken from the front of the first is taken from the front of all.
LEMMA ConcatFront ==
    \A o, y, s, q \in Seq(Nat) : (o \o y) \o s \o q = o \o (y \o s \o q)
<1> TAKE o \in Seq(Nat), y \in Seq(Nat), s \in Seq(Nat), q \in Seq(Nat)
<1>1. Associates(o, y, s)
  BY Concatenation, Zenon
<1>2. Associates(o, y \o s, q)
  BY Concatenation, Zenon
<1> QED
  BY <1>1, <1>2, Zenon DEF Associates

\* Taking the front of what is at the trainer's end takes the front of all that is underway.
LEMMA FrontOfUnderway ==
    ASSUME NEW o \in Seq(Nat), NEW y \in Seq(Nat), Sending \in Seq(Nat), queue \in Seq(Nat),
           buffered \o OnWire = o \o y, buffered' \o OnWire' = y,
           Sending' = Sending, queue' = queue
    PROVE  Underway = o \o Underway'
<1>1. \A s, q \in Seq(Nat) : (o \o y) \o s \o q = o \o (y \o s \o q)
  BY ConcatFront, Zenon
<1>2. (o \o y) \o Sending \o queue = o \o (y \o Sending \o queue)
  BY <1>1, Zenon
<1> QED
  BY <1>2, Zenon DEF Underway

\* What HandOut gives away is the front of what it has, and it is not empty.
LEMMA HandOutSplits ==
    ASSUME NEW have \in Seq(Nat), have # << >>, NEW limit \in Limits
    PROVE  /\ Oldest(have, limit) \in Seq(Nat) /\ Rest(have, limit) \in Seq(Nat)
           /\ Oldest(have, limit) # << >>
           /\ have = Oldest(have, limit) \o Rest(have, limit)
<1>1. limit \in Nat \ {0} /\ Len(have) \in Nat \ {0}
  BY TransportAssumption, EmptySeq
<1>2. /\ Oldest(have, limit) \in Seq(Nat) /\ Rest(have, limit) \in Seq(Nat)
      /\ Len(Oldest(have, limit)) = IF limit < Len(have) THEN limit ELSE Len(have)
      /\ Oldest(have, limit) \o Rest(have, limit) = have
  BY <1>1, OldestAndRest
<1>3. Len(Oldest(have, limit)) # 0
  BY <1>1, <1>2
<1> QED
  BY <1>2, <1>3, EmptySeq

\* A call of receive_available() takes the front, or takes nothing.
LEMMA ReceiveFeeds ==
    ASSUME IInv, IInv', UnderwayInOrder, Receive
    PROVE  (Feed!Deliver \/ Feed!Lose) /\ UnderwayInOrder'
<1>0. PICK limit \in Limits :
        ReceiveBuffered(limit) \/ ReceiveRequest(limit) \/ ReceiveReply(limit)
  BY DEF Receive
<1>1. /\ enqueued' = enqueued /\ queue' = queue /\ Sending' = Sending
      /\ OnWire \in Seq(Nat) /\ Sending \in Seq(Nat) /\ queue \in Seq(Nat) /\ buffered \in Seq(Nat)
      /\ buffered' \in Seq(Nat) /\ Underway' \in Seq(Nat)
  BY <1>0, Places, PlacesNext, UnderwayPartsNext
     DEF ReceiveBuffered, ReceiveRequest, ReceiveReply, publisherVars, Sending
<1>2. CASE ReceiveRequest(limit)
  <2>1. buffered' = buffered /\ delivered' = delivered /\ OnWire' = OnWire
    BY <1>2 DEF ReceiveRequest, OnWire
  <2> QED
    BY <1>1, <2>1, EmptyingIsLose
<1>3. CASE ReceiveBuffered(limit) \/ ReceiveReply(limit)
  <2>1. PICK have \in Seq(Nat) :
          /\ have # << >> /\ HandOut(have, limit)
          /\ \/ buffered = have /\ OnWire' = OnWire
             \/ buffered = << >> /\ OnWire = have /\ OnWire' = << >>
    <3>1. CASE ReceiveBuffered(limit)
      BY <1>1, <3>1 DEF ReceiveBuffered, wireVars, OnWire
    <3>2. CASE ReceiveReply(limit)
      <4>1. Len(replyOnWire.items) # 0 /\ OnWire = replyOnWire.items
        BY <3>2 DEF ReceiveReply, IInv, OneRequest, OnWire
      <4>2. OnWire # << >>
        BY <4>1, EmptySeq
      <4> QED
        BY <1>1, <3>2, <4>1, <4>2 DEF ReceiveReply, OnWire
    <3> QED
      BY <1>3, <3>1, <3>2
  <2>2. PICK o \in Seq(Nat), r \in Seq(Nat) :
          /\ o # << >> /\ have = o \o r
          /\ delivered' = delivered \o o /\ buffered' = r
    BY <2>1, HandOutSplits DEF HandOut
  <2>3. buffered \o OnWire = o \o (buffered' \o OnWire') /\ buffered' \o OnWire' \in Seq(Nat)
    <3>1. CASE buffered = have /\ OnWire' = OnWire
      <4>1. (o \o r) \o OnWire = o \o (r \o OnWire)
        <5>1. Associates(o, r, OnWire)
          BY <1>1, Concatenation, Zenon
        <5> QED
          BY <5>1 DEF Associates
      <4>2. r \o OnWire \in Seq(Nat)
        BY <1>1, Concatenation, Zenon
      <4> QED
        BY <2>2, <3>1, <4>1, <4>2, Zenon
    <3>2. CASE buffered = << >> /\ OnWire = have /\ OnWire' = << >>
      BY <1>1, <2>2, <3>2, ConcatEmptySeq
    <3> QED
      BY <2>1, <3>1, <3>2
  <2>4. PICK y \in Seq(Nat) : y = buffered' \o OnWire'
    BY <2>3
  <2>5. Underway = o \o Underway'
    BY <1>1, <2>3, <2>4, FrontOfUnderway
  <2> QED
    BY <1>1, <2>2, <2>5, HandingOutIsDeliver
<1> QED
  BY <1>0, <1>2, <1>3

\* Either close() loses rollouts and nothing else.
LEMMA CloseFeeds ==
    ASSUME IInv, IInv', UnderwayInOrder, PublisherClose \/ ReceiverClose
    PROVE  Feed!Lose /\ UnderwayInOrder'
<1>1. UNCHANGED <<enqueued, delivered>>
  BY DEF PublisherClose, ReceiverClose, publisherVars
<1>2. CASE PublisherClose
  <2>1. /\ buffered' = buffered /\ queue' = << >> /\ Sending' = << >>
        /\ OnWire' = OnWire \/ OnWire' = << >>
    BY <1>2 DEF PublisherClose, receiverVars, Sending, OnWire
  <2> QED
    BY <1>1, <2>1, EmptyingIsLose
<1>3. CASE ReceiverClose
  <2>1. buffered' = << >> /\ queue' = queue /\ Sending' = Sending /\ OnWire' = << >>
    BY <1>3 DEF ReceiverClose, publisherVars, Sending, OnWire
  <2> QED
    BY <1>1, <2>1, EmptyingIsLose
<1> QED
  BY <1>2, <1>3

\* The stream implements the feed: the trainer gets the rollouts in publication
\* order and none twice, whatever overflows, fails, is late or closes.
THEOREM TransportFeed == Spec => ImplementsFeed
<1>1. Init => Feed!Init /\ UnderwayInOrder
  <2> SUFFICES ASSUME Init PROVE Feed!Init /\ UnderwayInOrder
    OBVIOUS
  <2>1. buffered = << >> /\ OnWire = << >> /\ Sending = << >> /\ queue = << >>
    BY DEF Init, OnWire, Sending
  <2>2. Underway = << >>
    BY <2>1, ConcatEmptySeq, EmptySeq DEF Underway
  <2>3. UnderwayInOrder
    BY <2>2, EmptyInOrder DEF UnderwayInOrder
  <2>4. Feed!Init
    BY <2>2 DEF Init, Feed!Init, Underway
  <2> QED
    BY <2>3, <2>4
<1>2. IInv /\ IInv' /\ UnderwayInOrder /\ [Next]_vars => [Feed!Next]_Feed!vars /\ UnderwayInOrder'
  <2> SUFFICES ASSUME IInv, IInv', UnderwayInOrder, [Next]_vars
               PROVE  [Feed!Next]_Feed!vars /\ UnderwayInOrder'
    OBVIOUS
  <2>1. CASE UNCHANGED vars
    <3>1. UNCHANGED <<enqueued, Underway, delivered>>
      BY <2>1 DEF vars, publisherVars, receiverVars, wireVars, Underway, OnWire, Sending
    <3>2. UnderwayInOrder'
      BY <3>1 DEF UnderwayInOrder
    <3> QED
      BY <3>1, <3>2 DEF Feed!vars, Underway
  <2>2. CASE Publish
    BY <2>2, PublishFeeds DEF Feed!Next
  <2>3. CASE Responder
    BY <2>3, RespondFeeds DEF Feed!Next
  <2>4. CASE Receive
    BY <2>4, ReceiveFeeds DEF Feed!Next
  <2>5. CASE PublisherClose \/ ReceiverClose
    BY <2>5, CloseFeeds DEF Feed!Next
  <2> QED
    BY <2>1, <2>2, <2>3, <2>4, <2>5 DEF Next
<1> QED
  BY <1>1, <1>2, TransportInductive, PTL DEF Spec, Feed!Spec, ImplementsFeed
=============================================================================
