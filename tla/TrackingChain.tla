--------------------------- MODULE TrackingChain ---------------------------
(***************************************************************************)
(* bytetrack_service and temporal_service connected by the tracks socket.  *)
(* The tracker appears by what it promises (TrackSource, which             *)
(* ByteTrackService implements); it crashes and is started again, and so   *)
(* does temporal_service.                                                  *)
(*                                                                         *)
(* wire holds the frames that are in the socket, at most MaxWire: a tracker*)
(* that finds it full waits in send().  A frame is a record of its         *)
(* recs (identifier to position) and whether it was cut short by the end   *)
(* of the tracker inside send_tracks.                                      *)
(***************************************************************************)
EXTENDS TrackManager

CONSTANTS
  kMaxAge,     \* the tracker's limit for unseen tracks (30, as kMaxFramesLost)
  MaxDets,     \* detections per frame in this instance
  MaxId,       \* identifiers given in this instance
  MaxWire,     \* frames the tracks socket holds in this instance
  MaxFrames    \* frames in the life of a temporal_service in this instance

ASSUME ChainAssumption ==
  /\ {kMaxAge, MaxDets, MaxId, MaxFrames} \subseteq Nat
  /\ MaxWire \in Nat \ {0}
  /\ 1 .. (MaxId - 1) \subseteq TrackIds

VARIABLES
  followed, next_id,    \* the tracker: see TrackSource
  dead_peer,   \* the tracker's connection leads to a temporal_service that has ended
  link,        \* temporal_service's connection: "none", "pending" (not accepted yet),
               \* "up" or "cut" (the tracker has ended; what was sent can be read)
  wire,
  since,       \* frames processed since temporal_service connected, saturated
  fresh        \* identifiers in these frames

Tracker == INSTANCE TrackSource

tracker == <<followed, next_id>>
tracks_socket == <<dead_peer, link, wire>>
history == <<since, fresh>>
vars == <<temporal, tracker, tracks_socket, history>>

Init ==
  /\ TemporalInit
  /\ Tracker!Init
  /\ dead_peer = FALSE
  /\ link = "none"
  /\ wire = <<>>
  /\ since = 0
  /\ fresh = {}

----------------------------------------------------------------------------
(* The tracker.                                                            *)

\* A frame of the YOLO process is tracked and the result sent, if there is a
\* consumer: send_tracks fails once for a consumer that has gone, and the next one
\* is accepted with the frame after it.
TrackerSends ==
  /\ frame_no + Len(wire) < MaxFrames
  /\ \E seen \in SUBSET DOMAIN followed : \E n \in 0 .. (MaxDets - Cardinality(seen)) :
       Tracker!Update(seen, n)
  /\ dead_peer' = FALSE
  /\ IF dead_peer \/ link \notin {"pending", "up"}
     THEN UNCHANGED <<link, wire>>
     ELSE /\ Len(wire) < MaxWire
          /\ link' = "up"
          /\ \E recs \in [Tracker!Output' -> Positions] :
               wire' = Append(wire, [recs |-> recs, cut |-> FALSE])
  /\ UNCHANGED <<temporal, history>>

\* The tracker ends, between two frames or inside send_tracks (some records of a
\* frame are in the socket then), and is started again.
TrackerRestarts ==
  /\ Tracker!Restart
  /\ dead_peer' = FALSE
  /\ link' = IF link = "none" THEN "none" ELSE "cut"
  /\ \/ UNCHANGED wire
     \/ /\ ~dead_peer
        /\ link \in {"pending", "up"}
        /\ frame_no + Len(wire) < MaxFrames
        /\ Len(wire) < MaxWire
        /\ \E ids \in SUBSET (DOMAIN followed \cup next_id .. (MaxId - 1)) :
             /\ Cardinality(ids) < MaxDets
             /\ \E recs \in [ids -> Positions] :
                  wire' = Append(wire, [recs |-> recs, cut |-> TRUE])
  /\ UNCHANGED <<temporal, history>>

----------------------------------------------------------------------------
(* temporal_service.                                                       *)

TemporalConnects ==
  /\ Connect
  /\ link' = "pending"
  /\ since' = 0
  /\ fresh' = {}
  /\ UNCHANGED <<tracker, dead_peer, wire>>

TemporalFrame ==
  /\ wire # <<>>
  /\ Frame(Head(wire).recs, Head(wire).cut)
  /\ wire' = Tail(wire)
  /\ since' = IF since > kMaxFramesLost THEN since ELSE since + 1
  /\ fresh' = fresh \cup DOMAIN Head(wire).recs
  /\ UNCHANGED <<tracker, dead_peer, link>>

\* What temporal_service's end of the connection becomes when it is closed: the
\* tracker notices at its next send.
Hangup ==
  /\ link' = "none"
  /\ wire' = <<>>
  /\ dead_peer' = (dead_peer \/ link = "up")

\* The end of the stream is read.
TemporalEof ==
  /\ wire = <<>>
  /\ link = "cut"
  /\ InputEnds
  /\ link' = "none"
  /\ UNCHANGED <<tracker, dead_peer, wire, history>>

TemporalPublishes ==
  /\ PublishFrame
  /\ IF pc' \in {"connect", "ended"} THEN Hangup ELSE UNCHANGED tracks_socket
  /\ UNCHANGED <<tracker, history>>

TemporalGivesUp ==
  /\ GiveUp
  /\ UNCHANGED <<tracker, tracks_socket, history>>

TemporalRestarts ==
  /\ Restart
  /\ Hangup
  /\ since' = 0
  /\ fresh' = {}
  /\ UNCHANGED tracker

\* A signal, or the consumer of the events socket.
TemporalElse ==
  /\ Signal \/ ConsumerChanges
  /\ UNCHANGED <<tracker, tracks_socket, history>>

Next ==
  \/ TrackerSends \/ TrackerRestarts
  \/ TemporalConnects \/ TemporalFrame \/ TemporalEof \/ TemporalPublishes
  \/ TemporalGivesUp \/ TemporalRestarts \/ TemporalElse

Spec == Init /\ [][Next]_vars

----------------------------------------------------------------------------
TypeOK ==
  /\ TemporalTypeOK
  /\ \A id \in DOMAIN followed : followed[id] \in 0 .. kMaxAge
  /\ next_id \in 1 .. MaxId
  /\ dead_peer \in BOOLEAN
  /\ link \in {"none", "pending", "up", "cut"}
  /\ Len(wire) <= MaxWire
  /\ frame_no + Len(wire) <= MaxFrames

\* Two constants in two programs have to fit: temporal_service never drops a track
\* the tracker still follows, and when it has read all that was sent it has missed
\* every track exactly as long as the tracker has.
ServicesAgree ==
  link = "up" =>
    \A id \in fresh :
      /\ id \in DOMAIN followed => id \in DOMAIN tracks_
      /\ (id \in DOMAIN tracks_ /\ wire = <<>>) =>
           id \in DOMAIN followed /\ followed[id] = tracks_[id].frames_missed

\* A restarted tracker counts from 1 again, so a track of temporal_service may be
\* continued by another object; but only for kMaxFramesLost frames: whatever is
\* left of the time before the reconnection is gone after that.
RestartForgotten ==
  since > kMaxFramesLost => DOMAIN tracks_ \subseteq fresh
=============================================================================
