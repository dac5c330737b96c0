------------------------------ MODULE TSQueue ------------------------------
(***************************************************************************)
(* TSQueue of src/main.cc at the level of its mutex and condition variable *)
(* (BufPool::acquire and release follow the same pattern).  push appends   *)
(* under the mutex and calls notify_one after it has let the mutex go; pop *)
(* waits, under the mutex, until the queue is not empty.  InferencePipeline*)
(* uses pop as one blocking step: this module is why it may.               *)
(*                                                                         *)
(* A consumer is "out" of pop, "waiting" on the condition variable, or     *)
(* "awake": notified (or woken spuriously) and about to take the mutex     *)
(* again.  A producer is "out" or about to "notify".                       *)
(***************************************************************************)
EXTENDS Naturals, Sequences, FiniteSets

CONSTANTS Producers, Consumers,
          Values,         \* the items
          NoValue,        \* what a consumer holds before its first pop
          MaxLen          \* bound on the length of the queue in this instance

ASSUME TSQueueAssumption ==
  /\ IsFiniteSet(Producers)
  /\ IsFiniteSet(Consumers)
  /\ NoValue \notin Values
  /\ MaxLen \in Nat

VARIABLES q_, p_pc, c_pc, got

vars == <<q_, p_pc, c_pc, got>>

TypeOK ==
  /\ q_ \in Seq(Values)
  /\ p_pc \in [Producers -> {"out", "notify"}]
  /\ c_pc \in [Consumers -> {"out", "waiting", "awake"}]
  /\ got \in [Consumers -> Values \cup {NoValue}]

Init ==
  /\ q_ = <<>>
  /\ p_pc = [p \in Producers |-> "out"]
  /\ c_pc = [c \in Consumers |-> "out"]
  /\ got = [c \in Consumers |-> NoValue]

Waiting == {c \in Consumers : c_pc[c] = "waiting"}
Awake   == {c \in Consumers : c_pc[c] = "awake"}
Pending == {p \in Producers : p_pc[p] = "notify"}

\* Mutant of PushItem: a push to a queue that is not empty does not notify.
PushItemNotifiesIfEmpty(p, v) ==
  /\ p_pc[p] = "out"
  /\ Len(q_) < MaxLen
  /\ q_' = Append(q_, v)
  /\ p_pc' = [p_pc EXCEPT ![p] = IF q_ = <<>> THEN "notify" ELSE "out"]
  /\ UNCHANGED <<c_pc, got>>

\* push: the critical section.
PushItem(p, v) ==
  /\ p_pc[p] = "out"
  /\ Len(q_) < MaxLen
  /\ q_' = Append(q_, v)
  /\ p_pc' = [p_pc EXCEPT ![p] = "notify"]
  /\ UNCHANGED <<c_pc, got>>

\* push: notify_one wakes one waiting consumer, if there is one.
NotifyOne(p) ==
  /\ p_pc[p] = "notify"
  /\ p_pc' = [p_pc EXCEPT ![p] = "out"]
  /\ \/ Waiting = {} /\ UNCHANGED c_pc
     \/ \E c \in Waiting : c_pc' = [c_pc EXCEPT ![c] = "awake"]
  /\ UNCHANGED <<q_, got>>

\* Mutant of TakeItem: a woken consumer does not test the queue again and may
\* read the front of an empty queue.
TakeItemUntested(c) ==
  /\ c_pc[c] \in {"out", "awake"}
  /\ q_ # <<>> \/ c_pc[c] = "awake"
  /\ got' = [got EXCEPT ![c] = IF q_ = <<>> THEN "garbage" ELSE Head(q_)]
  /\ q_' = IF q_ = <<>> THEN q_ ELSE Tail(q_)
  /\ c_pc' = [c_pc EXCEPT ![c] = "out"]
  /\ UNCHANGED p_pc

\* pop, entered or resumed with an item in the queue: take it.
TakeItem(c) ==
  /\ c_pc[c] \in {"out", "awake"}
  /\ q_ # <<>>
  /\ got' = [got EXCEPT ![c] = Head(q_)]
  /\ q_' = Tail(q_)
  /\ c_pc' = [c_pc EXCEPT ![c] = "out"]
  /\ UNCHANGED p_pc

\* pop, entered or resumed with an empty queue: wait.
WaitForItem(c) ==
  /\ c_pc[c] \in {"out", "awake"}
  /\ q_ = <<>>
  /\ c_pc' = [c_pc EXCEPT ![c] = "waiting"]
  /\ UNCHANGED <<q_, p_pc, got>>

\* A condition variable may wake up a waiter without a notification.
SpuriousWakeup(c) ==
  /\ c_pc[c] = "waiting"
  /\ c_pc' = [c_pc EXCEPT ![c] = "awake"]
  /\ UNCHANGED <<q_, p_pc, got>>

Resume(c) == c_pc[c] = "awake" /\ (TakeItem(c) \/ WaitForItem(c))

Next ==
  \/ \E p \in Producers : NotifyOne(p) \/ \E v \in Values : PushItem(p, v)
  \/ \E c \in Consumers : TakeItem(c) \/ WaitForItem(c) \/ SpuriousWakeup(c)

Spec == Init /\ [][Next]_vars

\* A push runs to its notification, a woken consumer runs; nobody is obliged to
\* push or to call pop.
FairSpec ==
  /\ Spec
  /\ \A p \in Producers : WF_vars(NotifyOne(p))
  /\ \A c \in Consumers : WF_vars(Resume(c))

----------------------------------------------------------------------------
\* While a consumer sleeps, every item in the queue has somebody on its way to
\* it: a producer about to notify or a consumer already awake.  No wake-up is
\* lost although notify_one is called without the mutex.
NoLostWakeup ==
  Waiting # {} => Len(q_) <= Cardinality(Awake) + Cardinality(Pending)

\* An inference thread does not sleep for ever beside work: a queued item is
\* taken, or no consumer is asleep.
WorkIsTaken ==
  \A n \in 1 .. MaxLen :
    (Len(q_) >= n /\ Waiting # {}) ~> (Len(q_) < n \/ Waiting = {})

\* The abstract queue: pop is one step, taken only when there is an item.
Fifo == INSTANCE BlockingFifo WITH q <- q_

\* TSQueue implements the blocking FIFO the pipeline model uses.
ImplementsFifo == Fifo!Spec
=============================================================================
