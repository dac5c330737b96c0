-------------------------- MODULE DetectionStream --------------------------
(***************************************************************************)
(* What the data plane promises its consumer, without threads, sockets or  *)
(* queues: the messages arrive in the order they were published, each at   *)
(* most once; one is skipped only because Window newer ones were waiting,  *)
(* or because it was being sent when a consumer went away.                 *)
(***************************************************************************)
EXTENDS Naturals, Sequences, SequencesExt

CONSTANTS Window,     \* messages that may wait before one is skipped
          MaxMsgs

VARIABLES
  published,    \* number of messages published
  pending,      \* published, neither received nor given up, oldest first
  received,     \* what consumers have received
  consumer      \* a consumer is there

vars == <<published, pending, received, consumer>>

Init ==
  /\ published = 0
  /\ pending = <<>>
  /\ received = <<>>
  /\ consumer = FALSE

Publish ==
  /\ published < MaxMsgs
  /\ published' = published + 1
  /\ \/ pending' = Append(pending, published')
     \/ /\ Len(pending) >= Window
        /\ \E k \in {1, 2} \cap DOMAIN pending :
             pending' = Append(RemoveAt(pending, k), published')
  /\ UNCHANGED <<received, consumer>>

Deliver ==
  /\ consumer
  /\ pending # <<>>
  /\ received' = Append(received, Head(pending))
  /\ pending' = Tail(pending)
  /\ UNCHANGED <<published, consumer>>

LoseOldest ==
  /\ ~consumer
  /\ pending # <<>>
  /\ pending' = Tail(pending)
  /\ UNCHANGED <<published, received, consumer>>

ConsumerComesOrGoes ==
  /\ consumer' = ~consumer
  /\ UNCHANGED <<published, pending, received>>

Next == Publish \/ Deliver \/ LoseOldest \/ ConsumerComesOrGoes

Spec == Init /\ [][Next]_vars
=============================================================================
