---------------------------- MODULE BlockingFifo ----------------------------
(* A FIFO shared by producers and consumers whose pop is a single step that *)
(* is possible when the queue is not empty: how InferencePipeline uses its  *)
(* queues.                                                                  *)
EXTENDS Naturals, Sequences

CONSTANTS Consumers, Values, NoValue

VARIABLES q, got

Init ==
  /\ q = <<>>
  /\ got = [c \in Consumers |-> NoValue]

Push(v) ==
  /\ q' = Append(q, v)
  /\ UNCHANGED got

Pop(c) ==
  /\ q # <<>>
  /\ got' = [got EXCEPT ![c] = Head(q)]
  /\ q' = Tail(q)

Next == (\E v \in Values : Push(v)) \/ (\E c \in Consumers : Pop(c))

Spec == Init /\ [][Next]_<<q, got>>
=============================================================================
