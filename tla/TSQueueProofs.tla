--------------------------- MODULE TSQueueProofs ---------------------------
(***************************************************************************)
(* Proofs about TSQueue for any number of producers and consumers: the     *)
(* condition variable loses no wake-up, and the queue implements the       *)
(* blocking FIFO that the pipeline model takes it for.                     *)
(***************************************************************************)
EXTENDS TSQueue, FiniteSetTheorems, SequenceTheorems, TLAPS

\* The three sets of threads the invariant counts are finite.
LEMMA CountedSetsFinite ==
  /\ IsFiniteSet(Waiting) /\ IsFiniteSet(Awake) /\ IsFiniteSet(Pending)
  /\ Cardinality(Awake) \in Nat /\ Cardinality(Pending) \in Nat
<1>1. /\ Waiting \in SUBSET Consumers
      /\ Awake \in SUBSET Consumers
      /\ Pending \in SUBSET Producers
  BY DEF Waiting, Awake, Pending
<1> QED
  BY <1>1, FS_Subset, FS_CardinalityType, TSQueueAssumption

\* Every step of TSQueue keeps its variables in their types.
THEOREM TypeCorrect == Spec => []TypeOK
<1>1. Init => TypeOK
  BY TSQueueAssumption DEF Init, TypeOK
<1>2. TypeOK /\ [Next]_vars => TypeOK'
  <2> SUFFICES ASSUME TypeOK, [Next]_vars PROVE TypeOK'
    OBVIOUS
  <2> USE DEF TypeOK
  <2>1. ASSUME NEW p \in Producers, NotifyOne(p) PROVE TypeOK'
    BY <2>1 DEF NotifyOne, Waiting
  <2>2. ASSUME NEW p \in Producers, NEW v \in Values, PushItem(p, v) PROVE TypeOK'
    BY <2>2, AppendProperties DEF PushItem
  <2>3. ASSUME NEW c \in Consumers, TakeItem(c) PROVE TypeOK'
    BY <2>3, HeadTailProperties DEF TakeItem
  <2>4. ASSUME NEW c \in Consumers, WaitForItem(c) PROVE TypeOK'
    BY <2>4 DEF WaitForItem
  <2>5. ASSUME NEW c \in Consumers, SpuriousWakeup(c) PROVE TypeOK'
    BY <2>5 DEF SpuriousWakeup
  <2>6. CASE UNCHANGED vars
    BY <2>6 DEF vars
  <2> QED
    BY <2>1, <2>2, <2>3, <2>4, <2>5, <2>6 DEF Next
<1> QED
  BY <1>1, <1>2, PTL DEF Spec

\* No inference thread sleeps beside work: while a consumer waits, the items in
\* the queue are matched by producers about to notify and consumers awake.
THEOREM NoWakeupLost == Spec => []NoLostWakeup
<1>1. Init => NoLostWakeup
  BY DEF Init, NoLostWakeup, Waiting
<1>2. TypeOK /\ NoLostWakeup /\ [Next]_vars => NoLostWakeup'
  <2> SUFFICES ASSUME TypeOK, NoLostWakeup, [Next]_vars, Waiting' # {}
               PROVE  Len(q_') <= Cardinality(Awake') + Cardinality(Pending')
    BY DEF NoLostWakeup
  <2> USE CountedSetsFinite
  <2>1. ASSUME NEW p \in Producers, NotifyOne(p)
        PROVE  Len(q_') <= Cardinality(Awake') + Cardinality(Pending')
    <3>1. p \in Pending /\ Pending' = Pending \ {p} /\ q_' = q_
      BY <2>1 DEF NotifyOne, Pending, TypeOK
    <3>2. Cardinality(Pending') = Cardinality(Pending) - 1
      BY <3>1, FS_RemoveElement
    <3>3. CASE Waiting = {}
      BY <2>1, <3>3 DEF NotifyOne, Waiting
    <3>4. ASSUME NEW c \in Waiting, c_pc' = [c_pc EXCEPT ![c] = "awake"]
          PROVE  Len(q_') <= Cardinality(Awake') + Cardinality(Pending')
      <4>1. c \notin Awake /\ Awake' = Awake \cup {c}
        BY <3>4 DEF Awake, Waiting, TypeOK
      <4>2. Cardinality(Awake') = Cardinality(Awake) + 1
        BY <4>1, FS_AddElement
      <4>3. Len(q_) \in Nat /\ Len(q_) <= Cardinality(Awake) + Cardinality(Pending)
        BY <3>4, LenProperties DEF NoLostWakeup, TypeOK
      <4> QED
        BY <3>1, <3>2, <4>2, <4>3
    <3> QED
      BY <2>1, <3>3, <3>4 DEF NotifyOne
  <2>2. ASSUME NEW p \in Producers, NEW v \in Values, PushItem(p, v)
        PROVE  Len(q_') <= Cardinality(Awake') + Cardinality(Pending')
    <3>1. p \notin Pending /\ Pending' = Pending \cup {p} /\ Awake' = Awake /\ Waiting' = Waiting
      BY <2>2 DEF PushItem, Pending, Awake, Waiting, TypeOK
    <3>2. Cardinality(Pending') = Cardinality(Pending) + 1
      BY <3>1, FS_AddElement
    <3>3. Len(q_') = Len(q_) + 1 /\ Len(q_) \in Nat
      BY <2>2, AppendProperties, LenProperties DEF PushItem, TypeOK
    <3>4. Len(q_) <= Cardinality(Awake) + Cardinality(Pending)
      BY <3>1 DEF NoLostWakeup
    <3> QED
      BY <3>1, <3>2, <3>3, <3>4
  <2>3. ASSUME NEW c \in Consumers, TakeItem(c)
        PROVE  Len(q_') <= Cardinality(Awake') + Cardinality(Pending')
    <3>1. /\ Waiting' = Waiting /\ Pending' = Pending
          /\ Awake' = Awake \ {c}
      BY <2>3 DEF TakeItem, Waiting, Pending, Awake, TypeOK
    <3>2. Cardinality(Awake') = IF c \in Awake THEN Cardinality(Awake) - 1
                                               ELSE Cardinality(Awake)
      BY <3>1, FS_RemoveElement
    <3>3. Len(q_') = Len(q_) - 1 /\ Len(q_) \in Nat
      BY <2>3, HeadTailProperties, LenProperties DEF TakeItem, TypeOK
    <3>4. Len(q_) <= Cardinality(Awake) + Cardinality(Pending)
      BY <3>1 DEF NoLostWakeup
    <3>5. Cardinality(Awake') >= Cardinality(Awake) - 1
      BY <3>2
    <3> QED
      BY <3>1, <3>2, <3>3, <3>4, <3>5
  <2>4. ASSUME NEW c \in Consumers, WaitForItem(c)
        PROVE  Len(q_') <= Cardinality(Awake') + Cardinality(Pending')
    <3>1. q_' = <<>> /\ Pending' = Pending /\ Awake' = Awake \ {c}
      BY <2>4 DEF WaitForItem, Pending, Awake, TypeOK
    <3>2. Len(q_') = 0
      BY <3>1
    <3>3. Cardinality(Awake') \in Nat
      BY <3>1, FS_RemoveElement, FS_CardinalityType
    <3> QED
      BY <3>1, <3>2, <3>3
  <2>5. ASSUME NEW c \in Consumers, SpuriousWakeup(c)
        PROVE  Len(q_') <= Cardinality(Awake') + Cardinality(Pending')
    <3>1. /\ c \in Waiting /\ c \notin Awake
          /\ q_' = q_ /\ Pending' = Pending /\ Awake' = Awake \cup {c}
      BY <2>5 DEF SpuriousWakeup, Waiting, Pending, Awake, TypeOK
    <3>2. Cardinality(Awake') = Cardinality(Awake) + 1
      BY <3>1, FS_AddElement
    <3>3. Len(q_) \in Nat /\ Len(q_) <= Cardinality(Awake) + Cardinality(Pending)
      BY <3>1, LenProperties DEF NoLostWakeup, TypeOK
    <3> QED
      BY <3>1, <3>2, <3>3
  <2>6. CASE UNCHANGED vars
    BY <2>6 DEF vars, NoLostWakeup, Waiting, Awake, Pending
  <2> QED
    BY <2>1, <2>2, <2>3, <2>4, <2>5, <2>6 DEF Next
<1> QED
  BY <1>1, <1>2, TypeCorrect, PTL DEF Spec

\* The mutex, the condition variable and its spurious wake-ups are invisible to
\* the callers: TSQueue behaves as a FIFO whose pop is one step.
THEOREM QueueImplementsFifo == Spec => ImplementsFifo
<1>1. Init => Fifo!Init
  BY DEF Init, Fifo!Init
<1>2. [Next]_vars => [Fifo!Next]_<<q_, got>>
  <2> SUFFICES ASSUME [Next]_vars PROVE [Fifo!Next]_<<q_, got>>
    OBVIOUS
  <2>1. ASSUME NEW p \in Producers, NotifyOne(p) PROVE UNCHANGED <<q_, got>>
    BY <2>1 DEF NotifyOne
  <2>2. ASSUME NEW p \in Producers, NEW v \in Values, PushItem(p, v) PROVE Fifo!Next
    BY <2>2 DEF PushItem, Fifo!Next, Fifo!Push
  <2>3. ASSUME NEW c \in Consumers, TakeItem(c) PROVE Fifo!Next
    BY <2>3 DEF TakeItem, Fifo!Next, Fifo!Pop
  <2>4. ASSUME NEW c \in Consumers, WaitForItem(c) \/ SpuriousWakeup(c)
        PROVE  UNCHANGED <<q_, got>>
    BY <2>4 DEF WaitForItem, SpuriousWakeup
  <2>5. CASE UNCHANGED vars
    BY <2>5 DEF vars
  <2> QED
    BY <2>1, <2>2, <2>3, <2>4, <2>5 DEF Next
<1> QED
  BY <1>1, <1>2, PTL DEF Spec, ImplementsFifo, Fifo!Spec
=============================================================================
