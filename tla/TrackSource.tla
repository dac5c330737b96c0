---------------------------- MODULE TrackSource ----------------------------
(***************************************************************************)
(* What bytetrack_service promises to the consumers of its track stream    *)
(* about identifiers, without boxes and matching: an update continues some *)
(* of the tracks that are followed, gives the next identifiers to new      *)
(* ones, and forgets a track when it has been unseen for more than kMaxAge *)
(* frames.  Within the life of the process an identifier is given once.    *)
(***************************************************************************)
EXTENDS Integers, FiniteSets

CONSTANTS
  kMaxAge,     \* frames a track can be missed before it is deleted (30)
  MaxDets,     \* detections per frame
  MaxId        \* identifiers given in this instance

VARIABLES
  followed,    \* for every identifier that is followed, the frames it was unseen
  next_id      \* the identifier of the next new track

source == <<followed, next_id>>

\* The identifiers the last update returned.
Output == {id \in DOMAIN followed : followed[id] = 0}

Init ==
  /\ followed = <<>>
  /\ next_id = 1

\* A frame in which the tracks of seen are found again and n objects are new.
Update(seen, n) ==
  /\ seen \subseteq DOMAIN followed
  /\ next_id + n <= MaxId
  /\ next_id' = next_id + n
  /\ LET found == seen \cup next_id .. (next_id + n - 1)
         kept  == {id \in DOMAIN followed : followed[id] < kMaxAge}
     IN  followed' = [id \in found \cup kept |-> IF id \in found THEN 0 ELSE followed[id] + 1]

\* A new process starts from nothing and counts from 1 again.
Restart ==
  /\ followed' = <<>>
  /\ next_id' = 1

Next ==
  \/ Restart
  \/ \E seen \in SUBSET DOMAIN followed : \E n \in 0 .. (MaxDets - Cardinality(seen)) :
       Update(seen, n)

Spec == Init /\ [][Next]_source
=============================================================================
