---------------------------- MODULE BoundedQueue ----------------------------
(***************************************************************************)
(* The bounded FIFO between the pipeline and the IPC sender thread:        *)
(* include/ipc/bounded_queue.h, with the policy of its only instance,      *)
(* kDropOldest.  push, pop and close hold the queue's mutex for their      *)
(* whole effect, so each of them is one step.                              *)
(***************************************************************************)
EXTENDS Naturals, Sequences

CONSTANT Capacity          \* capacity_ (32 for the detection stream)

\* With a capacity of 0 the code would pop the front of an empty deque.
ASSUME CapacityAssumption == Capacity \in Nat \ {0}

VARIABLES queue, closed

bqueue == <<queue, closed>>

QueueInit ==
  /\ queue = <<>>
  /\ closed = FALSE

Full == Len(queue) >= Capacity

\* Mutant of Push: the eviction takes the newest item instead of the oldest.
PushEvictsNewest(m) ==
  /\ \/ closed /\ UNCHANGED queue
     \/ ~closed /\ ~Full /\ queue' = Append(queue, m)
     \/ ~closed /\ Full /\ queue' = [queue EXCEPT ![Len(queue)] = m]
  /\ UNCHANGED closed

\* push: refused when closed; when full, the oldest item goes.
Push(m) ==
  /\ \/ closed /\ UNCHANGED queue
     \/ ~closed /\ ~Full /\ queue' = Append(queue, m)
     \/ ~closed /\ Full /\ queue' = Append(Tail(queue), m)
  /\ UNCHANGED closed

\* pop that finds an item.
Pop ==
  /\ queue # <<>>
  /\ queue' = Tail(queue)
  /\ UNCHANGED closed

\* pop that returns false: the timeout passed, or the queue is closed and empty.
PopFails ==
  /\ queue = <<>>
  /\ UNCHANGED bqueue

Close ==
  /\ closed' = TRUE
  /\ UNCHANGED queue
=============================================================================
