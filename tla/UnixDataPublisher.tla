------------------------- MODULE UnixDataPublisher -------------------------
(***************************************************************************)
(* The data plane: src/ipc/unix_data_publisher.cc.  The main thread        *)
(* publishes one message per frame and calls stop() at the end; the sender *)
(* thread accepts one consumer at a time and sends it what it pops.        *)
(*                                                                         *)
(* snd_pc is where senderLoop is: "loop" and "inner" are the tests of its  *)
(* two while (running_), "accept" is before and "accepting" inside         *)
(* accept(), "pop" inside queue_.pop, "send" inside sendFrame.  stop_pc    *)
(* follows stop(): running_ cleared, queue closed, socket closed, joined.  *)
(* A message is the number of its publication; a frame that is sent only   *)
(* in part does not count as received.                                     *)
(***************************************************************************)
EXTENDS BoundedQueue

CONSTANTS
  MaxMsgs,             \* messages published in this instance
  MaxConsumers,        \* consumers that connect in this instance
  ConsumerMayStall     \* may a connected consumer stop reading for ever?

ASSUME PublisherAssumption ==
  /\ MaxMsgs \in Nat
  /\ MaxConsumers \in Nat
  /\ ConsumerMayStall \in BOOLEAN

VARIABLES
  published,      \* messages published
  received,       \* messages the consumers have received
  running, listen_open, stop_pc,
  snd_pc,
  msg,            \* the message popped and not sent yet, 0 when there is none
  peer,           \* the consumer: "none", "connected", "stalled" or "gone"
  consumers       \* consumers that have connected

thread == <<snd_pc, msg, peer>>
control == <<running, listen_open, stop_pc>>
vars == <<bqueue, published, received, control, thread, consumers>>

Messages == 1 .. MaxMsgs

\* Types.
TypeOK ==
  /\ queue \in Seq(Messages)
  /\ Len(queue) <= Capacity
  /\ closed \in BOOLEAN
  /\ published \in 0 .. MaxMsgs
  /\ received \in Seq(Messages)
  /\ running \in BOOLEAN
  /\ listen_open \in BOOLEAN
  /\ stop_pc \in {"no", "close_queue", "close_socket", "join", "stopped"}
  /\ snd_pc \in {"loop", "accept", "accepting", "inner", "pop", "send", "exited"}
  /\ msg \in {0} \cup Messages
  /\ peer \in {"none", "connected", "stalled", "gone"}
  /\ consumers \in 0 .. MaxConsumers

\* After start(): a socket error leaves the publisher without a thread.
Init ==
  /\ QueueInit
  /\ published = 0
  /\ received = <<>>
  /\ \/ running = TRUE /\ listen_open = TRUE /\ snd_pc = "loop"
     \/ running = FALSE /\ listen_open = FALSE /\ snd_pc = "exited"
  /\ stop_pc = "no"
  /\ msg = 0
  /\ peer = "none"
  /\ consumers = 0

----------------------------------------------------------------------------
(* Called by the main thread.                                              *)

Publish ==
  /\ stop_pc = "no"
  /\ published < MaxMsgs
  /\ published' = published + 1
  /\ Push(published + 1)
  /\ UNCHANGED <<received, control, thread, consumers>>

StopClearRunning ==
  /\ stop_pc = "no"
  /\ stop_pc' = "close_queue"
  /\ running' = FALSE
  /\ UNCHANGED <<bqueue, published, received, listen_open, thread, consumers>>

StopCloseQueue ==
  /\ stop_pc = "close_queue"
  /\ stop_pc' = "close_socket"
  /\ Close
  /\ UNCHANGED <<published, received, running, listen_open, thread, consumers>>

StopCloseSocket ==
  /\ stop_pc = "close_socket"
  /\ stop_pc' = "join"
  /\ listen_open' = FALSE
  /\ UNCHANGED <<bqueue, published, received, running, thread, consumers>>

StopJoin ==
  /\ stop_pc = "join"
  /\ snd_pc = "exited"
  /\ stop_pc' = "stopped"
  /\ UNCHANGED <<bqueue, published, received, running, listen_open, thread, consumers>>

----------------------------------------------------------------------------
(* senderLoop.                                                             *)

SndGoto(from, to) ==
  /\ snd_pc = from
  /\ snd_pc' = to

\* The steps that leave the queue, the counters and the caller alone.
SndOnly == UNCHANGED <<bqueue, published, received, control>>

SndLoop ==
  /\ SndGoto("loop", IF running THEN "accept" ELSE "exited")
  /\ SndOnly
  /\ UNCHANGED <<msg, peer, consumers>>

SndCallAccept ==
  /\ SndGoto("accept", IF listen_open THEN "accepting" ELSE "exited")
  /\ SndOnly
  /\ UNCHANGED <<msg, peer, consumers>>

\* A consumer connects.  Closing the listening socket does not end an accept() that
\* is already waiting.
SndAccept ==
  /\ consumers < MaxConsumers
  /\ SndGoto("accepting", "inner")
  /\ peer' = "connected"
  /\ consumers' = consumers + 1
  /\ SndOnly
  /\ UNCHANGED msg

\* accept() fails while it is waiting: the thread ends, and nothing is sent any more.
SndAcceptFails ==
  /\ SndGoto("accepting", "exited")
  /\ SndOnly
  /\ UNCHANGED <<msg, peer, consumers>>

\* Mutant of SndInner: the inner loop does not test running_.
SndInnerIgnoresRunning ==
  /\ SndGoto("inner", "pop")
  /\ SndOnly
  /\ UNCHANGED <<msg, peer, consumers>>

\* while (running_) of the inner loop; leaving it closes the connection.
SndInner ==
  /\ \/ running /\ SndGoto("inner", "pop") /\ UNCHANGED peer
     \/ ~running /\ SndGoto("inner", "loop") /\ peer' = "none"
  /\ SndOnly
  /\ UNCHANGED <<msg, consumers>>

\* Mutant of SndPop: the front item is read but left in the queue.
SndPopPeeks ==
  /\ SndGoto("pop", "send")
  /\ queue # <<>>
  /\ msg' = Head(queue)
  /\ UNCHANGED <<bqueue, published, received, control, peer, consumers>>

SndPop ==
  /\ SndGoto("pop", "send")
  /\ Pop
  /\ msg' = Head(queue)
  /\ UNCHANGED <<published, received, control, peer, consumers>>

\* Mutant of SndPopFails: a timeout is taken for the end of the consumer and the
\* thread goes back to accept().
SndPopFailsAccepts ==
  /\ SndGoto("pop", "accepting")
  /\ PopFails
  /\ UNCHANGED <<published, received, control, msg, peer, consumers>>

SndPopFails ==
  /\ SndGoto("pop", "inner")
  /\ PopFails
  /\ UNCHANGED <<published, received, control, msg, peer, consumers>>

\* sendFrame returns true: the whole frame is in the consumer's socket.
SndSendFrame ==
  /\ peer = "connected"
  /\ SndGoto("send", "inner")
  /\ received' = Append(received, msg)
  /\ msg' = 0
  /\ UNCHANGED <<bqueue, published, control, peer, consumers>>

\* sendFrame returns false: the consumer has gone, the message is lost with it.
SndSendFails ==
  /\ peer = "gone"
  /\ SndGoto("send", "loop")
  /\ msg' = 0
  /\ peer' = "none"
  /\ SndOnly
  /\ UNCHANGED consumers

----------------------------------------------------------------------------
(* The consumer (external): it may disconnect, or stop reading.            *)

ConsumerLeaves ==
  /\ peer \in {"connected", "stalled"}
  /\ peer' = "gone"
  /\ SndOnly
  /\ UNCHANGED <<snd_pc, msg, consumers>>

ConsumerStalls ==
  /\ ConsumerMayStall
  /\ peer = "connected"
  /\ peer' = "stalled"
  /\ SndOnly
  /\ UNCHANGED <<snd_pc, msg, consumers>>

----------------------------------------------------------------------------
Caller   == Publish \/ StopClearRunning \/ StopCloseQueue \/ StopCloseSocket \/ StopJoin
Sender   == \/ SndLoop \/ SndCallAccept \/ SndInner
            \/ SndPop \/ SndPopFails \/ SndSendFrame \/ SndSendFails
Consumer == SndAccept \/ SndAcceptFails \/ ConsumerLeaves \/ ConsumerStalls

\* stop() has returned, or its join waits for a sender that is inside accept().
Stopped  == stop_pc = "stopped" \/ (stop_pc = "join" /\ snd_pc = "accepting")

Next == Caller \/ Sender \/ Consumer \/ (Stopped /\ UNCHANGED vars)

Spec == Init /\ [][Next]_vars

\* The sender thread is scheduled and the caller carries out the stop it began.
FairSpec ==
  /\ Spec
  /\ WF_vars(Sender)
  /\ WF_vars(StopCloseQueue \/ StopCloseSocket \/ StopJoin)

----------------------------------------------------------------------------
\* The promise of the data plane (DetectionStream), the waiting messages being
\* the one in the sender's hands and the queue behind it.
Promise == INSTANCE DetectionStream WITH
  Window   <- Capacity,
  pending  <- (IF msg = 0 THEN <<>> ELSE <<msg>>) \o queue,
  consumer <- peer \in {"connected", "stalled"}

\* A consumer receives the messages in publication order and at most once, and
\* misses one only by overflow or by disconnecting while it was being sent.
StreamPromise == Promise!Spec

\* stop() returns: the sender thread is woken from pop() and ends, unless it is
\* blocked in send() to a consumer that has stopped reading or in an accept() that
\* no further consumer ends.
StopReturns ==
  stop_pc = "close_queue" ~> (Stopped \/ peer = "stalled")

\* The queue is bounded whatever the consumer does, and while it is open it holds the
\* newest messages without a gap: a consumer that comes late or catches up has the
\* most recent detections.
NewestWindow ==
  /\ Len(queue) <= Capacity
  /\ ~closed => \A k \in DOMAIN queue : queue[k] = published - Len(queue) + k

\* A consumer that reads is served: as long as messages are waiting it receives one
\* more, and then another, however fast main publishes and however many of them the
\* overflow drops, unless it leaves or stops reading or the publisher is stopped.
ConsumerServed ==
  \A n \in 0 .. MaxMsgs :
    (queue # <<>> /\ peer = "connected" /\ Len(received) = n) ~>
      (Len(received) > n \/ peer # "connected" \/ stop_pc # "no")
=============================================================================
