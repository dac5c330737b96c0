-------------------------- MODULE PublisherProofs --------------------------
(***************************************************************************)
(* The data plane for any capacity, number of messages and of consumers.   *)
(* The queue is always a window of consecutive publications that ends with *)
(* the newest one; the message in the sender's hands is older than the     *)
(* window, and what was received is older still.  The promise              *)
(* (DetectionStream) follows from the window, action by action.            *)
(***************************************************************************)
EXTENDS UnixDataPublisher, SequenceTheorems, TLAPS

\* The queue holds the newest publications without a gap, closed or not.
QueueWindow ==
  \A k \in DOMAIN queue : queue[k] = published - Len(queue) + k

\* A message is in the sender's hands exactly inside sendFrame, a consumer is
\* attached exactly in the inner loop, and the queue is closed only by stop().
SenderInv ==
  /\ Len(queue) <= published
  /\ msg # 0 <=> snd_pc = "send"
  /\ peer = "none" <=> snd_pc \in {"loop", "accept", "accepting", "exited"}
  /\ closed => stop_pc \notin {"no", "close_queue"}

PInv == TypeOK /\ QueueWindow /\ SenderInv

\* The flags among the variables.
Flags == closed \in BOOLEAN /\ running \in BOOLEAN /\ listen_open \in BOOLEAN

----------------------------------------------------------------------------
(* Sequences.                                                              *)

\* A position is the last one or before it.
LEMMA LastOrBefore ==
  ASSUME NEW n \in Nat, NEW k \in 1 .. n
  PROVE  k = n \/ k \in 1 .. n - 1
OBVIOUS

\* What a queue with its front removed holds, and how long it is.
LEMMA TailFacts ==
  ASSUME NEW S, NEW s \in Seq(S), s # <<>>
  PROVE  /\ Head(s) \in S /\ Head(s) = s[1]
         /\ Tail(s) \in Seq(S)
         /\ Len(Tail(s)) = Len(s) - 1 /\ Len(s) \in Nat \ {0}
         /\ \A k \in 1 .. Len(s) - 1 : Tail(s)[k] = s[k + 1]
BY HeadTailProperties, EmptySeq, LenProperties

\* The front of a queue followed by the rest is the queue.
LEMMA HeadThenTail ==
  ASSUME NEW S, NEW s \in Seq(S), s # <<>>
  PROVE  <<Head(s)>> \o Tail(s) = s
<1>1. <<Head(s)>> \in Seq(S) /\ Len(<<Head(s)>>) = 1 /\ <<Head(s)>>[1] = Head(s)
  BY TailFacts
<1>2. /\ <<Head(s)>> \o Tail(s) \in Seq(S)
      /\ Len(<<Head(s)>> \o Tail(s)) = Len(s)
      /\ \A k \in 1 .. Len(s) : (<<Head(s)>> \o Tail(s))[k] =
             IF k <= 1 THEN <<Head(s)>>[k] ELSE Tail(s)[k - 1]
  BY <1>1, TailFacts, ConcatProperties
<1>3. \A k \in 1 .. Len(s) : (<<Head(s)>> \o Tail(s))[k] = s[k]
  BY <1>1, <1>2, TailFacts
<1> QED
  BY <1>2, <1>3, SeqEqual

\* The message in hand is the head of what waits, the queue its tail.
LEMMA ConsFacts ==
  ASSUME NEW S, NEW m \in S, NEW s \in Seq(S)
  PROVE  /\ <<m>> \o s \in Seq(S) /\ <<m>> \o s # <<>>
         /\ Len(<<m>> \o s) = Len(s) + 1
         /\ Head(<<m>> \o s) = m
         /\ Tail(<<m>> \o s) = s
<1>1. <<m>> \in Seq(S) /\ Len(<<m>>) = 1 /\ <<m>>[1] = m
  OBVIOUS
<1>2. /\ <<m>> \o s \in Seq(S)
      /\ Len(<<m>> \o s) = Len(s) + 1
      /\ \A k \in 1 .. Len(s) + 1 : (<<m>> \o s)[k] =
             IF k <= 1 THEN <<m>>[k] ELSE s[k - 1]
  BY <1>1, ConcatProperties, LenProperties
<1>3. <<m>> \o s # <<>>
  BY <1>2, LenProperties, EmptySeq
<1>4. Head(<<m>> \o s) = m
  BY <1>1, <1>2, <1>3, TailFacts, LenProperties
<1>5. /\ Tail(<<m>> \o s) \in Seq(S)
      /\ Len(Tail(<<m>> \o s)) = Len(s)
      /\ \A k \in 1 .. Len(s) : Tail(<<m>> \o s)[k] = s[k]
  BY <1>2, <1>3, TailFacts, LenProperties
<1> QED
  BY <1>2, <1>3, <1>4, <1>5, SeqEqual

\* Appending to the queue appends to what waits.
LEMMA ConcatAppend ==
  ASSUME NEW S, NEW t \in Seq(S), NEW s \in Seq(S), NEW m \in S
  PROVE  t \o Append(s, m) = Append(t \o s, m)
<1>1. <<m>> \in Seq(S)
  OBVIOUS
<1>2. t \o s \in Seq(S)
  BY ConcatProperties
<1> QED
  BY <1>1, <1>2, AppendIsConcat, ConcatAssociative

\* Removing the first of the waiting messages.
LEMMA RemoveFirst ==
  ASSUME NEW S, NEW s \in Seq(S), s # <<>>
  PROVE  Promise!RemoveAt(s, 1) = Tail(s)
<1>1. Len(s) \in Nat \ {0}
  BY TailFacts
<1>2. SubSeq(s, 1, 0) = <<>>
  BY SubSeqEmpty
<1>3. Tail(s) = SubSeq(s, 2, Len(s)) /\ Tail(s) \in Seq(S)
  BY TailIsSubSeq, TailFacts
<1> QED
  BY <1>1, <1>2, <1>3, ConcatEmptySeq DEF Promise!RemoveAt

\* Removing the second of the waiting messages is removing the oldest of the queue
\* behind the message in hand.
LEMMA RemoveSecond ==
  ASSUME NEW S, NEW m \in S, NEW s \in Seq(S), s # <<>>
  PROVE  Promise!RemoveAt(<<m>> \o s, 2) = <<m>> \o Tail(s)
<1> DEFINE w == <<m>> \o s
<1>1. <<m>> \in Seq(S) /\ Len(<<m>>) = 1 /\ <<m>>[1] = m
  OBVIOUS
<1>2. /\ w \in Seq(S) /\ Len(w) = Len(s) + 1 /\ Len(s) \in Nat \ {0}
      /\ \A k \in 1 .. Len(s) + 1 : w[k] = IF k <= 1 THEN <<m>>[k] ELSE s[k - 1]
  BY <1>1, ConcatProperties, TailFacts
<1> HIDE DEF w
<1>3. SubSeq(w, 1, 1) = <<m>>
  <2>1. /\ SubSeq(w, 1, 1) \in Seq(S) /\ Len(SubSeq(w, 1, 1)) = 1
        /\ SubSeq(w, 1, 1)[1] = w[1]
    BY <1>2, SubSeqProperties
  <2>2. \A k \in 1 .. 1 : SubSeq(w, 1, 1)[k] = <<m>>[k]
    BY <1>1, <1>2, <2>1
  <2> QED
    BY <1>1, <2>1, <2>2, SeqEqual
<1>4. SubSeq(w, 3, Len(w)) = Tail(s)
  <2>1. /\ SubSeq(w, 3, Len(w)) \in Seq(S)
        /\ Len(SubSeq(w, 3, Len(w))) = Len(s) - 1
        /\ \A k \in 1 .. Len(s) - 1 : SubSeq(w, 3, Len(w))[k] = w[k + 2]
    BY <1>2, SubSeqProperties
  <2>2. \A k \in 1 .. Len(s) - 1 : SubSeq(w, 3, Len(w))[k] = Tail(s)[k]
    BY <1>2, <2>1, TailFacts
  <2> QED
    BY <1>2, <2>1, <2>2, TailFacts, SeqEqual
<1> QED
  BY <1>3, <1>4 DEF Promise!RemoveAt, w

----------------------------------------------------------------------------
(* The window.                                                             *)

\* Every publication, pop and eviction keeps the queue a window that ends with the
\* newest message; every step of the sender and of stop() keeps its own part.
THEOREM WindowInvariant == Spec => []PInv
<1> USE CapacityAssumption, PublisherAssumption DEF Messages
<1>1. Init => PInv
  <2> SUFFICES ASSUME Init PROVE PInv
    OBVIOUS
  <2> USE DEF Init, QueueInit
  <2>1. Flags
    BY Zenon DEF Flags
  <2>2. Len(queue) = 0 /\ queue \in Seq(Messages) /\ DOMAIN queue = {}
    OBVIOUS
  <2> QED
    BY <2>1, <2>2 DEF PInv, TypeOK, QueueWindow, SenderInv, Flags
<1>2. PInv /\ [Next]_vars => PInv'
  <2> SUFFICES ASSUME PInv, [Next]_vars PROVE PInv'
    OBVIOUS
  <2> USE DEF PInv, SndOnly, SndGoto, thread, control, bqueue
  <2>1. /\ queue \in Seq(Messages) /\ Len(queue) \in Nat
        /\ DOMAIN queue = 1 .. Len(queue) /\ published \in Nat /\ Len(queue) <= published
        /\ \A k \in 1 .. Len(queue) : queue[k] = published - Len(queue) + k
    BY LenProperties DEF TypeOK, QueueWindow, SenderInv
  <2>2. CASE Publish
    <3>1. ~closed
      BY <2>2, Zenon DEF Publish, SenderInv
    <3>2. published + 1 \in Messages /\ published' = published + 1
      BY <2>2 DEF Publish, TypeOK
    <3>3. /\ queue' \in Seq(Messages) /\ Len(queue') <= Capacity /\ Len(queue') <= published'
          /\ QueueWindow'
      <4>1. CASE ~Full /\ queue' = Append(queue, published + 1)
        <5>1. /\ queue' \in Seq(Messages) /\ Len(queue') = Len(queue) + 1
              /\ DOMAIN queue' = 1 .. Len(queue) + 1
              /\ \A k \in 1 .. Len(queue) : queue'[k] = queue[k]
              /\ queue'[Len(queue) + 1] = published + 1
          BY <2>1, <3>2, <4>1, AppendProperties, LenProperties
        <5>2. Len(queue) < Capacity
          BY <2>1, <4>1 DEF Full
        <5>3. QueueWindow'
          <6> SUFFICES ASSUME NEW k \in 1 .. Len(queue) + 1
                       PROVE  queue'[k] = published' - Len(queue') + k
            BY <5>1 DEF QueueWindow
          <6> QED
            BY <2>1, <3>2, <5>1
        <5> QED
          BY <2>1, <3>2, <5>1, <5>2, <5>3
      <4>2. CASE Full /\ queue' = Append(Tail(queue), published + 1)
        <5>1. queue # <<>>
          BY <4>2 DEF Full
        <5>2. /\ Tail(queue) \in Seq(Messages) /\ Len(Tail(queue)) = Len(queue) - 1
              /\ Len(queue) \in Nat \ {0}
              /\ \A k \in 1 .. Len(queue) - 1 : Tail(queue)[k] = queue[k + 1]
          BY <2>1, <5>1, TailFacts
        <5>3. /\ queue' \in Seq(Messages) /\ Len(queue') = Len(queue)
              /\ DOMAIN queue' = 1 .. Len(queue)
              /\ \A k \in 1 .. Len(queue) - 1 : queue'[k] = queue[k + 1]
              /\ queue'[Len(queue)] = published + 1
          <6>1. DOMAIN queue' = 1 .. Len(queue') /\ Len(queue') = Len(queue)
            BY <3>2, <4>2, <5>2, AppendProperties, LenProperties
          <6> QED
            BY <3>2, <4>2, <5>2, <6>1, AppendProperties
        <5>4. QueueWindow'
          <6> SUFFICES ASSUME NEW k \in 1 .. Len(queue)
                       PROVE  queue'[k] = published' - Len(queue') + k
            BY <5>3 DEF QueueWindow
          <6>1. CASE k = Len(queue)
            BY <2>1, <3>2, <5>3, <6>1
          <6>2. CASE k \in 1 .. Len(queue) - 1
            <7>1. k + 1 \in 1 .. Len(queue) /\ queue'[k] = queue[k + 1]
              BY <2>1, <5>3, <6>2
            <7> QED
              BY <2>1, <3>2, <5>3, <7>1
          <6>3. k = Len(queue) \/ k \in 1 .. Len(queue) - 1
            BY <2>1, LastOrBefore
          <6> QED
            BY <6>1, <6>2, <6>3
        <5> QED
          BY <2>1, <3>2, <5>3, <5>4 DEF TypeOK
      <4> QED
        BY <2>2, <3>1, <4>1, <4>2 DEF Publish, Push
    <3>4. UNCHANGED <<received, closed, running, listen_open, stop_pc, snd_pc, msg, peer, consumers>>
      BY <2>2, Zenon DEF Publish, Push
    <3>5. Flags'
      BY <3>4, Zenon DEF Flags, TypeOK
    <3> QED
      BY <3>2, <3>3, <3>4, <3>5 DEF TypeOK, SenderInv, Flags
  <2>3. CASE SndPop
    <3>1. queue # <<>> /\ queue' = Tail(queue) /\ msg' = Head(queue)
      BY <2>3, Zenon DEF SndPop, Pop
    <3>2. UNCHANGED <<published, received, closed, running, listen_open, stop_pc, peer, consumers>>
      BY <2>3, Zenon DEF SndPop, Pop
    <3>3. /\ queue' \in Seq(Messages) /\ Len(queue') = Len(queue) - 1 /\ msg' \in Messages
          /\ Len(queue) \in Nat \ {0}
          /\ \A k \in 1 .. Len(queue) - 1 : queue'[k] = queue[k + 1]
      BY <2>1, <3>1, TailFacts
    <3>4. DOMAIN queue' = 1 .. Len(queue) - 1
      BY <3>3, LenProperties
    <3>5. QueueWindow'
      <4> SUFFICES ASSUME NEW k \in 1 .. Len(queue) - 1
                   PROVE  queue'[k] = published' - Len(queue') + k
        BY <3>4 DEF QueueWindow
      <4> QED
        BY <2>1, <3>2, <3>3
    <3>6. Flags'
      BY <3>2, Zenon DEF Flags, TypeOK
    <3> QED
      BY <2>3, <3>2, <3>3, <3>5, <3>6 DEF TypeOK, SenderInv, Flags, SndPop
  <2>4. CASE SndSendFrame
    <3>1. UNCHANGED <<queue, published, closed, running, listen_open, stop_pc, peer, consumers>>
      BY <2>4, Zenon DEF SndSendFrame
    <3>2. received' \in Seq(Messages)
      BY <2>4, AppendProperties DEF SndSendFrame, TypeOK, SenderInv
    <3>3. Flags'
      BY <3>1, Zenon DEF Flags, TypeOK
    <3>4. QueueWindow'
      BY <3>1 DEF QueueWindow
    <3> QED
      BY <2>4, <3>1, <3>2, <3>3, <3>4 DEF TypeOK, SenderInv, Flags, SndSendFrame
  <2>5. ASSUME UNCHANGED <<queue, published, received>>, Flags',
               TypeOK => /\ stop_pc' \in {"no", "close_queue", "close_socket", "join", "stopped"}
                         /\ snd_pc' \in {"loop", "accept", "accepting", "inner",
                                         "pop", "send", "exited"}
                         /\ msg' \in {0} \cup Messages
                         /\ peer' \in {"none", "connected", "stalled", "gone"}
                         /\ consumers' \in 0 .. MaxConsumers,
               SenderInv'
        PROVE  PInv'
    BY <2>5 DEF TypeOK, QueueWindow, Flags
  <2>6. CASE StopClearRunning \/ StopCloseQueue \/ StopCloseSocket \/ StopJoin
    <3>1. Flags' /\ UNCHANGED <<queue, published, received, snd_pc, msg, peer, consumers>>
      BY <2>6, Zenon DEF StopClearRunning, StopCloseQueue, StopCloseSocket, StopJoin, Close,
                         Flags, TypeOK
    <3>2. SenderInv'
      BY <2>6, <3>1 DEF StopClearRunning, StopCloseQueue, StopCloseSocket, StopJoin, Close,
                         SenderInv
    <3> QED
      BY <2>5, <2>6, <3>1, <3>2
        DEF StopClearRunning, StopCloseQueue, StopCloseSocket, StopJoin, TypeOK
  <2>7. CASE SndLoop \/ SndCallAccept \/ SndInner \/ SndPopFails \/ SndSendFails
             \/ SndAccept \/ SndAcceptFails \/ ConsumerLeaves \/ ConsumerStalls
    <3> USE DEF SndLoop, SndCallAccept, SndInner, SndPopFails, PopFails, SndSendFails,
                SndAccept, SndAcceptFails, ConsumerLeaves, ConsumerStalls
    <3>1. UNCHANGED <<queue, published, received, closed, running, listen_open, stop_pc>>
      BY <2>7, Zenon
    <3>2. Flags'
      BY <3>1, Zenon DEF Flags, TypeOK
    <3>3. SenderInv'
      BY <2>7, <3>1 DEF SenderInv, TypeOK
    <3> QED
      BY <2>5, <2>7, <3>1, <3>2, <3>3 DEF TypeOK
  <2>8. CASE UNCHANGED vars
    <3>1. UNCHANGED <<queue, closed, published, received, running, listen_open, stop_pc,
                      snd_pc, msg, peer, consumers>>
      BY <2>8, Zenon DEF vars
    <3>2. Flags'
      BY <3>1, Zenon DEF Flags, TypeOK
    <3> QED
      BY <2>5, <3>1, <3>2 DEF TypeOK, SenderInv
  <2> QED
    BY <2>2, <2>3, <2>4, <2>6, <2>7, <2>8, Zenon DEF Next, Caller, Sender, Consumer
<1> QED
  BY <1>1, <1>2, PTL DEF Spec

\* The queue is bounded and holds the newest messages, whatever the consumer does.
THEOREM QueueIsNewestWindow == Spec => []NewestWindow
<1>1. PInv => NewestWindow
  BY DEF PInv, TypeOK, QueueWindow, NewestWindow
<1> QED
  BY <1>1, WindowInvariant, PTL

----------------------------------------------------------------------------
(* The order of delivery.                                                  *)

\* What the consumers received is strictly increasing; a message in hand is newer
\* than all of it and older than the queue.
InOrder ==
  \A i, j \in DOMAIN received : i < j => received[i] < received[j]

Behind ==
  /\ \A i \in DOMAIN received : received[i] <= published - Len(queue)
  /\ msg # 0 => /\ msg <= published - Len(queue)
                /\ \A i \in DOMAIN received : received[i] < msg

\* No message reaches a consumer twice or after a newer one, whatever was evicted
\* and however often consumers come and go.
THEOREM DeliveredInOrder == Spec => []InOrder
<1> USE DEF Messages
<1>1. Init => InOrder /\ Behind
  BY DEF Init, InOrder, Behind
<1>2. PInv /\ PInv' /\ InOrder /\ Behind /\ [Next]_vars => InOrder' /\ Behind'
  <2> SUFFICES ASSUME PInv, PInv', InOrder, Behind, [Next]_vars PROVE InOrder' /\ Behind'
    OBVIOUS
  <2> USE DEF SndOnly, SndGoto, thread, control, bqueue
  <2>1. /\ Len(queue) \in Nat /\ Len(queue') \in Nat /\ published \in Nat /\ published' \in Nat
        /\ DOMAIN received = 1 .. Len(received) /\ Len(received) \in Nat
        /\ \A i \in DOMAIN received : received[i] \in Nat
        /\ msg \in Nat /\ msg' \in Nat
        /\ queue \in Seq(Messages) /\ received \in Seq(Messages)
    BY PublisherAssumption, LenProperties, ElementOfSeq DEF PInv, TypeOK
  <2>2. CASE Publish
    <3>1. published' = published + 1 /\ UNCHANGED <<received, msg>>
      BY <2>2 DEF Publish
    <3>2. Len(queue') <= Len(queue) + 1
      <4>1. published + 1 \in Messages
        BY <2>2, <2>1, PublisherAssumption DEF Publish
      <4>2. CASE UNCHANGED queue
        BY <2>1, <4>2
      <4>3. CASE queue' = Append(queue, published + 1)
        BY <2>1, <4>1, <4>3, AppendProperties
      <4>4. CASE Full /\ queue' = Append(Tail(queue), published + 1)
        <5>1. queue # <<>>
          BY <4>4, CapacityAssumption DEF Full
        <5>2. Tail(queue) \in Seq(Messages) /\ Len(Tail(queue)) = Len(queue) - 1
          BY <2>1, <5>1, TailFacts
        <5> QED
          BY <2>1, <4>1, <4>4, <5>2, AppendProperties
      <4> QED
        BY <2>2, <4>2, <4>3, <4>4 DEF Publish, Push
    <3>3. published - Len(queue) <= published' - Len(queue')
      BY <2>1, <3>1, <3>2
    <3> QED
      BY <2>1, <3>1, <3>3 DEF InOrder, Behind
  <2>3. CASE SndPop
    <3>1. /\ queue # <<>> /\ msg' = Head(queue) /\ queue' = Tail(queue)
          /\ UNCHANGED <<published, received>>
      BY <2>3, Zenon DEF SndPop, Pop
    <3>2. /\ Len(queue') = Len(queue) - 1 /\ msg' = queue[1] /\ Len(queue) \in Nat \ {0}
      BY <2>1, <3>1, TailFacts
    <3>3. 1 \in DOMAIN queue
      BY <2>1, <3>2, LenProperties
    <3>4. queue[1] = published - Len(queue) + 1
      BY <3>3 DEF PInv, QueueWindow
    <3> QED
      BY <2>1, <3>1, <3>2, <3>4 DEF InOrder, Behind
  <2>4. CASE SndSendFrame
    <3>1. /\ received' = Append(received, msg) /\ msg' = 0
          /\ UNCHANGED <<queue, published>> /\ msg \in Messages
      BY <2>4 DEF SndSendFrame, PInv, TypeOK, SenderInv
    <3>2. /\ Len(received') = Len(received) + 1 /\ DOMAIN received' = 1 .. Len(received) + 1
          /\ \A i \in 1 .. Len(received) : received'[i] = received[i]
          /\ received'[Len(received) + 1] = msg
      BY <2>1, <3>1, AppendProperties, LenProperties
    <3>3. InOrder'
      <4> SUFFICES ASSUME NEW i \in 1 .. Len(received) + 1, NEW j \in 1 .. Len(received) + 1,
                          i < j
                   PROVE  received'[i] < received'[j]
        BY <3>2 DEF InOrder
      <4>1. i \in 1 .. Len(received)
        BY <2>1
      <4>2. CASE j = Len(received) + 1
        BY <2>1, <3>1, <3>2, <4>1, <4>2 DEF Behind
      <4>3. CASE j \in 1 .. Len(received)
        BY <2>1, <3>2, <4>1, <4>3 DEF InOrder
      <4> QED
        BY <2>1, <4>2, <4>3
    <3>4. Behind'
      BY <2>1, <3>1, <3>2 DEF Behind
    <3> QED
      BY <3>3, <3>4
  <2>5. CASE UNCHANGED <<queue, published, received>> /\ msg' \in {0, msg}
    BY <2>1, <2>5 DEF InOrder, Behind
  <2>6. CASE StopClearRunning \/ StopCloseQueue \/ StopCloseSocket \/ StopJoin \/ UNCHANGED vars
    BY <2>5, <2>6 DEF StopClearRunning, StopCloseQueue, StopCloseSocket, StopJoin, Close, vars
  <2>7. CASE SndLoop \/ SndCallAccept \/ SndInner \/ SndPopFails \/ SndSendFails
             \/ SndAccept \/ SndAcceptFails \/ ConsumerLeaves \/ ConsumerStalls
    BY <2>5, <2>7 DEF SndLoop, SndCallAccept, SndInner, SndPopFails, PopFails, SndSendFails,
                      SndAccept, SndAcceptFails, ConsumerLeaves, ConsumerStalls
  <2> QED
    BY <2>2, <2>3, <2>4, <2>6, <2>7, Zenon DEF Next, Caller, Sender, Consumer
<1> QED
  BY <1>1, <1>2, WindowInvariant, PTL DEF Spec

----------------------------------------------------------------------------
(* The promise.                                                            *)

\* What waits: the message in hand and the queue behind it.
Waits(m, q) == (IF m = 0 THEN <<>> ELSE <<m>>) \o q

Attached(p) == p \in {"connected", "stalled"}

\* What waits is a sequence of messages, empty-handed it is the queue.
LEMMA WaitsFacts ==
  ASSUME NEW m \in {0} \cup Messages, NEW q \in Seq(Messages)
  PROVE  /\ m = 0 => Waits(m, q) = q
         /\ m # 0 => Waits(m, q) = <<m>> \o q
         /\ Waits(m, q) \in Seq(Messages)
BY ConcatEmptySeq, ConsFacts DEF Waits

\* Accepting, popping, sending and the ways a consumer goes away are the steps of
\* DetectionStream or invisible to it: the sender thread keeps the promise.
THEOREM PublisherKeepsPromise == Spec => StreamPromise
<1> USE PublisherAssumption, CapacityAssumption
<1>1. Init => Promise!Init
  BY EmptySeq, ConcatEmptySeq DEF Init, QueueInit, Promise!Init
<1>2. PInv /\ PInv' /\ [Next]_vars => [Promise!Next]_(Promise!vars)
  <2> SUFFICES ASSUME PInv, PInv', [Next]_vars PROVE [Promise!Next]_(Promise!vars)
    OBVIOUS
  <2> DEFINE w == Waits(msg, queue)
  <2> USE DEF SndOnly, SndGoto, thread, control, bqueue
  <2>1. /\ queue \in Seq(Messages) /\ msg \in {0} \cup Messages
        /\ Len(queue) \in Nat /\ queue' \in Seq(Messages)
        /\ w \in Seq(Messages)
    BY LenProperties, WaitsFacts DEF PInv, TypeOK
  <2>2. ASSUME UNCHANGED <<published, received>>, w' = w
        PROVE  [Promise!Next]_(Promise!vars)
    <3>1. CASE UNCHANGED Attached(peer)
      BY <2>2, <3>1 DEF Promise!vars, Waits, Attached
    <3>2. CASE Attached(peer)' = ~Attached(peer)
      BY <2>2, <3>2 DEF Promise!Next, Promise!ConsumerComesOrGoes, Waits, Attached
    <3> QED
      BY <3>1, <3>2 DEF Attached
  <2>3. CASE Publish
    <3>1. /\ published' = published + 1 /\ published < MaxMsgs
          /\ UNCHANGED <<received, msg, peer>> /\ ~closed
          /\ Push(published + 1)
      BY <2>3 DEF Publish, PInv, SenderInv
    <3>2. published' \in Messages
      BY <3>1 DEF PInv, TypeOK, Messages
    <3>3. w' = Waits(msg, queue')
      BY <3>1 DEF Waits
    <3>4. \/ w' = Append(w, published')
          \/ /\ Len(w) >= Capacity
             /\ \E k \in {1, 2} \cap DOMAIN w : w' = Append(Promise!RemoveAt(w, k), published')
      <4>1. CASE queue' = Append(queue, published + 1)
        <5>0. msg = 0 => w = queue /\ w' = queue'
          BY <2>1, <3>3, WaitsFacts
        <5>1. CASE msg = 0
          BY <3>1, <4>1, <5>1, <5>0
        <5>2. CASE msg # 0
          <6>1. <<msg>> \in Seq(Messages)
            BY <2>1, <5>2
          <6>2. w = <<msg>> \o queue /\ w' = <<msg>> \o queue'
            BY <2>1, <3>3, <5>2, WaitsFacts
          <6>3. <<msg>> \o Append(queue, published') = Append(<<msg>> \o queue, published')
            BY <2>1, <3>2, <6>1, ConcatAppend
          <6> QED
            BY <3>1, <4>1, <6>2, <6>3
        <5> QED
          BY <5>1, <5>2
      <4>2. CASE Full /\ queue' = Append(Tail(queue), published + 1)
        <5>1. queue # <<>> /\ Len(queue) >= Capacity
          BY <4>2 DEF Full
        <5>2. /\ Tail(queue) \in Seq(Messages) /\ Len(queue) \in Nat \ {0}
          BY <2>1, <5>1, TailFacts
        <5>3. CASE msg = 0
          <6>1. w = queue /\ w' = queue'
            BY <2>1, <3>3, <5>3, WaitsFacts
          <6>2. 1 \in DOMAIN w
            BY <2>1, <5>2, <6>1, LenProperties
          <6>3. Promise!RemoveAt(w, 1) = Tail(queue)
            BY <2>1, <5>1, <6>1, RemoveFirst
          <6> QED
            BY <3>1, <4>2, <5>1, <6>1, <6>2, <6>3
        <5>4. CASE msg # 0
          <6>1. w = <<msg>> \o queue /\ msg \in Messages /\ <<msg>> \in Seq(Messages)
            BY <2>1, <5>4, WaitsFacts
          <6>2. w' = <<msg>> \o queue'
            BY <3>3, <5>4 DEF Waits
          <6>3. Len(w) = Len(queue) + 1 /\ 2 \in DOMAIN w
            BY <2>1, <5>2, <6>1, ConsFacts, LenProperties
          <6>4. Promise!RemoveAt(w, 2) = <<msg>> \o Tail(queue)
            BY <2>1, <5>1, <6>1, RemoveSecond
          <6>5. w' = Append(<<msg>> \o Tail(queue), published')
            BY <3>1, <3>2, <4>2, <5>2, <6>1, <6>2, ConcatAppend
          <6>6. w' = Append(Promise!RemoveAt(w, 2), published') /\ 2 \in {1, 2} \cap DOMAIN w
            BY <6>3, <6>4, <6>5
          <6>7. Len(w) >= Capacity
            BY <2>1, <5>1, <6>3
          <6> HIDE DEF w
          <6> QED
            BY <6>6, <6>7
        <5> QED
          BY <5>3, <5>4
      <4> QED
        BY <3>1, <4>1, <4>2 DEF Push
    <3> QED
      BY <3>1, <3>4 DEF Promise!Next, Promise!Publish, Waits
  <2>4. CASE SndPop
    <3>1. /\ queue # <<>> /\ msg' = Head(queue) /\ queue' = Tail(queue) /\ msg = 0
          /\ UNCHANGED <<published, received, peer>>
      BY <2>4 DEF SndPop, Pop, PInv, SenderInv
    <3>2. msg' \in Messages /\ msg' # 0
      BY <2>1, <3>1, TailFacts DEF Messages
    <3>3. w = queue
      BY <2>1, <3>1, WaitsFacts
    <3>4. w' = <<Head(queue)>> \o Tail(queue)
      BY <3>1, <3>2 DEF Waits
    <3>5. w' = w
      BY <2>1, <3>1, <3>3, <3>4, HeadThenTail
    <3> QED
      BY <2>2, <3>1, <3>5
  <2>5. CASE SndSendFrame \/ SndSendFails
    <3>1. /\ msg # 0 /\ msg \in Messages /\ msg' = 0
          /\ UNCHANGED <<published, queue>>
      BY <2>1, <2>5 DEF SndSendFrame, SndSendFails, PInv, SenderInv
    <3>2. w = <<msg>> \o queue
      BY <2>1, <3>1, WaitsFacts
    <3>3. w # <<>> /\ Head(w) = msg /\ Tail(w) = queue
      BY <2>1, <3>1, <3>2, ConsFacts
    <3>4. w' = queue
      BY <2>1, <3>1, WaitsFacts DEF Waits
    <3>5. CASE SndSendFrame
      BY <3>1, <3>3, <3>4, <3>5
        DEF SndSendFrame, Promise!Next, Promise!Deliver, Waits
    <3>6. CASE SndSendFails
      BY <3>1, <3>3, <3>4, <3>6
        DEF SndSendFails, Promise!Next, Promise!LoseOldest, Waits
    <3> QED
      BY <2>5, <3>5, <3>6
  <2>6. CASE UNCHANGED <<queue, msg, published, received>>
    BY <2>2, <2>6 DEF Waits
  <2>7. CASE StopClearRunning \/ StopCloseQueue \/ StopCloseSocket \/ StopJoin \/ UNCHANGED vars
    BY <2>6, <2>7 DEF StopClearRunning, StopCloseQueue, StopCloseSocket, StopJoin, Close, vars
  <2>8. CASE SndLoop \/ SndCallAccept \/ SndInner \/ SndPopFails
             \/ SndAccept \/ SndAcceptFails \/ ConsumerLeaves \/ ConsumerStalls
    BY <2>6, <2>8 DEF SndLoop, SndCallAccept, SndInner, SndPopFails, PopFails,
                      SndAccept, SndAcceptFails, ConsumerLeaves, ConsumerStalls
  <2> QED
    BY <2>3, <2>4, <2>5, <2>7, <2>8, Zenon DEF Next, Caller, Sender, Consumer
<1> QED
  BY <1>1, <1>2, WindowInvariant, PTL DEF Spec, StreamPromise, Promise!Spec
=============================================================================
