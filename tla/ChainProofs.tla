---------------------------- MODULE ChainProofs ----------------------------
(***************************************************************************)
(* bytetrack_service and temporal_service over the tracks socket, for any  *)
(* number of identifiers, detections and frames in the socket.             *)
(*                                                                         *)
(* ManagerInv is about temporal_service alone, whatever it is sent: what   *)
(* its counters, its listener and the age of a track say.  ChainInv, for   *)
(* the agreement of the two services, adds the socket between them: what   *)
(* temporal_service counts together with the frames still in the socket is *)
(* what the tracker counts.                                                *)
(***************************************************************************)
EXTENDS TrackingChain, FiniteSetTheorems, SequenceTheorems, TLAPS

Fields == {"first_seen", "last_seen", "frames_seen", "frames_since_first", "frames_missed",
           "history", "in_roi", "roi_entered", "roi_exited"}

\* The shape of a TrackState.
IsTrack(s) ==
  /\ DOMAIN s = Fields
  /\ s.first_seen \in Nat /\ s.last_seen \in Int
  /\ s.frames_seen \in Nat /\ s.frames_since_first \in Nat /\ s.frames_missed \in Nat

\* What the counters of a track say about the frame number n.
Counted(s, n) ==
  /\ s.frames_since_first = n - s.first_seen
  /\ s.last_seen = n - 1 - s.frames_missed
  /\ s.frames_seen \in 1 .. (s.frames_since_first - s.frames_missed)

TracksInv ==
  /\ frame_no \in Nat
  /\ \A id \in DOMAIN tracks_ :
       /\ IsTrack(tracks_[id])
       /\ tracks_[id].frames_missed <= kMaxFramesLost
       /\ Counted(tracks_[id], frame_no)

ListenerInv ==
  /\ believes \subseteq DOMAIN tracks_
  /\ EventsComplete

\* A track that no frame since the connection has shown was missed in all of them.
ForgetInv ==
  /\ since \in Nat
  /\ \A id \in DOMAIN tracks_ \ fresh : tracks_[id].frames_missed >= since

ManagerInv == TracksInv /\ ListenerInv /\ ForgetInv

\* The constructor of TrackState.
LEMMA NewTrackIsTrack ==
  ASSUME frame_no \in Nat
  PROVE  IsTrack(NewTrack)
BY DEF NewTrack, IsTrack, Fields

\* What an observation does to the fields of a track.
LEMMA ObserveFacts ==
  ASSUME NEW s, IsTrack(s), NEW x, frame_no \in Nat
  PROVE  /\ IsTrack(ObserveTrack(s, x))
         /\ ObserveTrack(s, x).frames_seen = s.frames_seen + 1
         /\ ObserveTrack(s, x).frames_since_first = s.frames_since_first + 1
         /\ ObserveTrack(s, x).frames_missed = 0
         /\ ObserveTrack(s, x).first_seen = s.first_seen
         /\ ObserveTrack(s, x).last_seen = frame_no
         /\ ObserveTrack(s, x).in_roi = (x \in Roi)
         /\ ObserveTrack(s, x).roi_entered = (x \in Roi /\ ~s.in_roi)
         /\ ObserveTrack(s, x).roi_exited = (x \notin Roi /\ s.in_roi)
BY DEF ObserveTrack, IsTrack, Fields

\* What a missed frame does to the fields of a track.
LEMMA MissedFacts ==
  ASSUME NEW s, IsTrack(s)
  PROVE  /\ IsTrack(MarkMissed(s))
         /\ MarkMissed(s).frames_seen = s.frames_seen
         /\ MarkMissed(s).frames_since_first = s.frames_since_first + 1
         /\ MarkMissed(s).frames_missed = s.frames_missed + 1
         /\ MarkMissed(s).first_seen = s.first_seen
         /\ MarkMissed(s).last_seen = s.last_seen
         /\ MarkMissed(s).in_roi = s.in_roi
         /\ MarkMissed(s).roi_entered = FALSE
         /\ MarkMissed(s).roi_exited = FALSE
BY DEF MarkMissed, IsTrack, Fields

\* The state of a track before an observation.
Before(id) == IF id \in DOMAIN tracks_ THEN tracks_[id] ELSE NewTrack

\* What a frame makes of the tracks: those in it are observed, the others are
\* missed, and dropped when they had been missed kMaxFramesLost times.
LEMMA FrameEffect ==
  ASSUME TracksInv, NEW frame, EndFrame(Observed(frame))
  PROVE  /\ DOMAIN tracks_' = DOMAIN frame \cup
              {id \in DOMAIN tracks_ : tracks_[id].frames_missed < kMaxFramesLost}
         /\ \A id \in DOMAIN tracks_' \cap DOMAIN frame :
              tracks_'[id] = ObserveTrack(Before(id), frame[id])
         /\ \A id \in DOMAIN tracks_' \ DOMAIN frame :
              id \in DOMAIN tracks_ /\ tracks_'[id] = MarkMissed(tracks_[id])
         /\ believes' = {id \in DOMAIN tracks_' :
                            \/ tracks_'[id].roi_entered
                            \/ id \in believes /\ ~tracks_'[id].roi_exited}
<1> DEFINE all == Observed(frame)
           kept == {id \in DOMAIN all : ~TooLongLost(all[id])}
<1>1. /\ tracks_' = [id \in kept |-> all[id]]
      /\ believes' = {id \in kept : \/ all[id].roi_entered
                                    \/ id \in believes /\ ~all[id].roi_exited}
  BY DEF EndFrame
<1>2. DOMAIN all = DOMAIN tracks_ \cup DOMAIN frame
  BY DEF Observed
<1>3. \A id \in DOMAIN frame : all[id] = ObserveTrack(Before(id), frame[id])
  BY DEF Observed, Before
<1>4. \A id \in DOMAIN tracks_ \ DOMAIN frame : all[id] = MarkMissed(tracks_[id])
  BY DEF Observed
<1> HIDE DEF all
<1>5. \A id \in DOMAIN frame : id \in kept
  <2> SUFFICES ASSUME NEW id \in DOMAIN frame PROVE ~TooLongLost(all[id])
    BY <1>2
  <2>1. IsTrack(Before(id)) /\ frame_no \in Nat
    BY NewTrackIsTrack DEF Before, TracksInv
  <2>2. ObserveTrack(Before(id), frame[id]).frames_missed = 0
    BY <2>1, ObserveFacts
  <2> QED
    BY <1>3, <2>2, ManagerAssumption DEF TooLongLost
<1>6. \A id \in DOMAIN tracks_ \ DOMAIN frame :
        id \in kept <=> tracks_[id].frames_missed < kMaxFramesLost
  <2> SUFFICES ASSUME NEW id \in DOMAIN tracks_ \ DOMAIN frame
               PROVE  id \in kept <=> tracks_[id].frames_missed < kMaxFramesLost
    OBVIOUS
  <2>1. IsTrack(tracks_[id]) /\ tracks_[id].frames_missed \in Nat
    BY DEF TracksInv, IsTrack
  <2>2. all[id].frames_missed = tracks_[id].frames_missed + 1
    BY <1>4, <2>1, MissedFacts
  <2> QED
    BY <1>2, <2>1, <2>2, ManagerAssumption DEF TooLongLost
<1>7. kept = DOMAIN frame \cup {id \in DOMAIN tracks_ : tracks_[id].frames_missed < kMaxFramesLost}
  BY <1>2, <1>5, <1>6
<1> HIDE DEF kept
<1> QED
  BY <1>1, <1>2, <1>3, <1>4, <1>7

\* A frame keeps the counters and the listener in step with the tracks.
LEMMA FrameKeepsTracks ==
  ASSUME TracksInv, NEW frame, EndFrame(Observed(frame)), frame_no' = frame_no + 1
  PROVE  TracksInv'
<1>1. frame_no \in Nat /\ frame_no' \in Nat
  BY DEF TracksInv
<1>2. ASSUME NEW id \in DOMAIN tracks_' \cap DOMAIN frame
      PROVE  /\ IsTrack(tracks_'[id]) /\ tracks_'[id].frames_missed <= kMaxFramesLost
             /\ Counted(tracks_'[id], frame_no')
  <2>1. IsTrack(Before(id))
    BY <1>1, NewTrackIsTrack DEF Before, TracksInv
  <2>2. /\ Before(id).frames_since_first = frame_no - Before(id).first_seen
        /\ Before(id).frames_seen \in 0 .. Before(id).frames_since_first
    <3>1. CASE id \in DOMAIN tracks_
      BY <1>1, <3>1 DEF TracksInv, Counted, Before, IsTrack
    <3>2. CASE id \notin DOMAIN tracks_
      BY <1>1, <3>2 DEF Before, NewTrack
    <3> QED
      BY <3>1, <3>2
  <2>3. tracks_'[id] = ObserveTrack(Before(id), frame[id])
    BY <1>2, FrameEffect
  <2>4. LET s == tracks_'[id] IN
          /\ IsTrack(s) /\ s.frames_missed = 0 /\ s.last_seen = frame_no
          /\ s.frames_seen = Before(id).frames_seen + 1
          /\ s.frames_since_first = Before(id).frames_since_first + 1
          /\ s.first_seen = Before(id).first_seen
    BY <1>1, <2>1, <2>3, ObserveFacts
  <2> QED
    BY <1>1, <2>1, <2>2, <2>4, ManagerAssumption DEF IsTrack, Counted
<1>3. ASSUME NEW id \in DOMAIN tracks_' \ DOMAIN frame
      PROVE  /\ IsTrack(tracks_'[id]) /\ tracks_'[id].frames_missed <= kMaxFramesLost
             /\ Counted(tracks_'[id], frame_no')
  <2>1. /\ id \in DOMAIN tracks_ /\ tracks_'[id] = MarkMissed(tracks_[id])
        /\ tracks_[id].frames_missed < kMaxFramesLost
    BY <1>3, FrameEffect
  <2>2. IsTrack(tracks_[id]) /\ Counted(tracks_[id], frame_no)
    BY <2>1 DEF TracksInv
  <2>3. LET s == tracks_'[id] IN
          /\ IsTrack(s) /\ s.frames_missed = tracks_[id].frames_missed + 1
          /\ s.last_seen = tracks_[id].last_seen
          /\ s.frames_seen = tracks_[id].frames_seen
          /\ s.frames_since_first = tracks_[id].frames_since_first + 1
          /\ s.first_seen = tracks_[id].first_seen
    BY <2>1, <2>2, MissedFacts
  <2> QED
    BY <1>1, <2>1, <2>2, <2>3, ManagerAssumption DEF IsTrack, Counted
<1> QED
  BY <1>1, <1>2, <1>3 DEF TracksInv

\* The listener has been told of every crossing.
LEMMA FrameKeepsListener ==
  ASSUME TracksInv, ListenerInv, NEW frame, EndFrame(Observed(frame))
  PROVE  /\ ListenerInv'
         /\ \A id \in DOMAIN tracks_' :
              /\ tracks_'[id].roi_entered => id \notin believes
              /\ tracks_'[id].roi_exited => id \in believes
<1>1. ASSUME NEW id \in DOMAIN tracks_'
      PROVE  /\ tracks_'[id].in_roi <=> id \in believes'
             /\ tracks_'[id].roi_entered => id \notin believes
             /\ tracks_'[id].roi_exited => id \in believes
  <2>1. CASE id \in DOMAIN frame
    <3>1. IsTrack(Before(id)) /\ frame_no \in Nat
      BY NewTrackIsTrack DEF Before, TracksInv
    <3>2. Before(id).in_roi <=> id \in believes
      BY DEF Before, NewTrack, ListenerInv, EventsComplete
    <3>3. /\ tracks_'[id].in_roi = (frame[id] \in Roi)
          /\ tracks_'[id].roi_entered = (frame[id] \in Roi /\ ~Before(id).in_roi)
          /\ tracks_'[id].roi_exited = (frame[id] \notin Roi /\ Before(id).in_roi)
      <4>1. tracks_'[id] = ObserveTrack(Before(id), frame[id])
        BY <1>1, <2>1, FrameEffect
      <4> QED
        BY <3>1, <4>1, ObserveFacts
    <3> QED
      BY <1>1, <3>2, <3>3, FrameEffect
  <2>2. CASE id \notin DOMAIN frame
    <3>1. id \in DOMAIN tracks_ /\ tracks_'[id] = MarkMissed(tracks_[id]) /\ IsTrack(tracks_[id])
      BY <1>1, <2>2, FrameEffect DEF TracksInv
    <3>2. /\ tracks_'[id].in_roi = tracks_[id].in_roi
          /\ ~tracks_'[id].roi_entered /\ ~tracks_'[id].roi_exited
      BY <3>1, MissedFacts
    <3> QED
      BY <1>1, <3>1, <3>2, FrameEffect DEF ListenerInv, EventsComplete
  <2> QED
    BY <2>1, <2>2
<1>2. believes' \subseteq DOMAIN tracks_'
  BY FrameEffect
<1> QED
  BY <1>1, <1>2 DEF ListenerInv, EventsComplete

----------------------------------------------------------------------------
(* temporal_service, whatever it is sent.                                  *)

\* What the counters, the listener and the age of a track say holds over every
\* frame, reconnection and restart.
THEOREM ManagerInvariant == Spec => []ManagerInv
<1>1. Init => ManagerInv
  <2> SUFFICES ASSUME Init PROVE ManagerInv
    OBVIOUS
  <2>1. tracks_ = <<>> /\ frame_no = 0 /\ believes = {} /\ since = 0
    BY DEF Init, TemporalInit
  <2>2. DOMAIN tracks_ = {}
    BY <2>1
  <2> QED
    BY <2>1, <2>2 DEF ManagerInv, TracksInv, ListenerInv, ForgetInv, EventsComplete
<1>2. ManagerInv /\ [Next]_vars => ManagerInv'
  <2> SUFFICES ASSUME ManagerInv, [Next]_vars PROVE ManagerInv'
    OBVIOUS
  <2>0. TracksInv /\ ListenerInv /\ ForgetInv
    BY DEF ManagerInv
  <2>1. CASE UNCHANGED <<tracks_, frame_no, believes>> /\ (UNCHANGED <<since, fresh>> \/ since' = 0)
    <3>1. TracksInv' /\ ListenerInv'
      BY <2>0, <2>1 DEF TracksInv, ListenerInv, EventsComplete
    <3>2. ForgetInv'
      BY <2>0, <2>1 DEF TracksInv, ForgetInv, IsTrack
    <3> QED
      BY <3>1, <3>2 DEF ManagerInv
  <2>2. CASE TemporalFrame
    <3> DEFINE frame == Head(wire).recs
    <3>1. /\ EndFrame(Observed(frame)) /\ frame_no' = frame_no + 1
          /\ since' = IF since > kMaxFramesLost THEN since ELSE since + 1
          /\ fresh' = fresh \cup DOMAIN frame
      BY <2>2 DEF TemporalFrame, Frame
    <3> HIDE DEF frame
    <3>2. TracksInv' /\ ListenerInv'
      BY <2>0, <3>1, FrameKeepsTracks, FrameKeepsListener
    <3>3. since \in Nat /\ since' \in Nat
      BY <2>0, <3>1, ManagerAssumption DEF ForgetInv
    <3>4. ASSUME NEW id \in DOMAIN tracks_' \ fresh' PROVE tracks_'[id].frames_missed >= since'
      <4>1. id \notin DOMAIN frame /\ id \notin fresh
        BY <3>1, <3>4
      <4>2. /\ id \in DOMAIN tracks_ /\ IsTrack(tracks_[id])
            /\ tracks_'[id] = MarkMissed(tracks_[id])
        BY <2>0, <3>1, <3>4, <4>1, FrameEffect DEF TracksInv
      <4>3. /\ tracks_'[id].frames_missed = tracks_[id].frames_missed + 1
            /\ tracks_[id].frames_missed \in Nat
        BY <4>2, MissedFacts DEF IsTrack
      <4>4. tracks_[id].frames_missed >= since
        BY <2>0, <4>1, <4>2 DEF ForgetInv
      <4> QED
        BY <3>1, <3>3, <4>3, <4>4, ManagerAssumption
    <3> QED
      BY <3>2, <3>3, <3>4 DEF ManagerInv, ForgetInv
  <2>3. CASE TemporalRestarts
    <3>1. tracks_' = <<>> /\ frame_no' = 0 /\ believes' = {} /\ since' = 0
      BY <2>3 DEF TemporalRestarts, Restart
    <3>2. DOMAIN tracks_' = {}
      BY <3>1
    <3> QED
      BY <3>1, <3>2 DEF ManagerInv, TracksInv, ListenerInv, ForgetInv, EventsComplete
  <2>4. CASE \/ TrackerSends \/ TrackerRestarts \/ TemporalConnects \/ TemporalEof
             \/ TemporalPublishes \/ TemporalGivesUp \/ TemporalElse \/ UNCHANGED vars
    <3>1. UNCHANGED <<tracks_, frame_no, believes>> /\ (UNCHANGED <<since, fresh>> \/ since' = 0)
      BY <2>4, Zenon
        DEF TrackerSends, TrackerRestarts, TemporalConnects, TemporalEof, TemporalPublishes,
            TemporalGivesUp, TemporalElse, Connect, InputEnds, PublishFrame, GiveUp, Signal,
            ConsumerChanges, vars, temporal, manager, history
    <3> QED
      BY <2>1, <3>1
  <2> QED
    BY <2>2, <2>3, <2>4, Zenon DEF Next
<1> QED
  BY <1>1, <1>2, PTL DEF Spec

\* The counters of every track agree with each other and with the frame number.
THEOREM TrackCountersAgree == Spec => []CountersAgree
<1>1. ManagerInv => CountersAgree
  <2> SUFFICES ASSUME ManagerInv, NEW id \in DOMAIN tracks_
               PROVE  LET s == tracks_[id]
                      IN  /\ Counted(s, frame_no)
                          /\ Status(s) = "lost" <=> s.last_seen < frame_no - 1
    BY DEF CountersAgree, Counted
  <2>1. /\ Counted(tracks_[id], frame_no) /\ frame_no \in Nat
        /\ tracks_[id].frames_missed \in Nat
    BY DEF ManagerInv, TracksInv, IsTrack
  <2>2. Status(tracks_[id]) = "lost" <=> tracks_[id].frames_missed > 0
    BY DEF Status
  <2> QED
    BY <2>1, <2>2 DEF Counted
<1> QED
  BY <1>1, ManagerInvariant, PTL

\* The events tell a listener which tracks are inside the region.
THEOREM RoiEventsComplete == Spec => []EventsComplete
<1>1. ManagerInv => EventsComplete
  BY DEF ManagerInv, ListenerInv
<1> QED
  BY <1>1, ManagerInvariant, PTL

\* No frame reports an entry or an exit twice in a row.
THEOREM RoiEventsAlternate == Spec => EventsAlternate
<1>1. ManagerInv /\ [Next]_vars =>
        [pc = "read" /\ pc' = "send" =>
           \A id \in DOMAIN tracks_' :
             /\ tracks_'[id].roi_entered => id \notin believes
             /\ tracks_'[id].roi_exited => id \in believes]_temporal
  <2> SUFFICES ASSUME ManagerInv, [Next]_vars, pc = "read", pc' = "send"
               PROVE  \A id \in DOMAIN tracks_' :
                        /\ tracks_'[id].roi_entered => id \notin believes
                        /\ tracks_'[id].roi_exited => id \in believes
    OBVIOUS
  <2>1. CASE TemporalFrame
    <3> DEFINE frame == Head(wire).recs
    <3>1. EndFrame(Observed(frame))
      BY <2>1 DEF TemporalFrame, Frame
    <3>2. TracksInv /\ ListenerInv
      BY DEF ManagerInv
    <3> HIDE DEF frame
    <3> QED
      BY <3>1, <3>2, FrameKeepsListener
  <2>2. CASE ~TemporalFrame
    BY <2>2 DEF Next, TrackerSends, TrackerRestarts, TemporalConnects, TemporalEof,
            TemporalPublishes, TemporalGivesUp, TemporalElse, TemporalRestarts, Restart, Goto,
            Connect, InputEnds, PublishFrame, GiveUp, Signal, ConsumerChanges, vars, temporal
  <2> QED
    BY <2>1, <2>2
<1> QED
  BY <1>1, ManagerInvariant, PTL DEF Spec, EventsAlternate

\* What is left of the time before a reconnection is gone kMaxFramesLost frames
\* after it.
THEOREM RestartIsForgotten == Spec => []RestartForgotten
<1>1. ManagerInv => RestartForgotten
  <2> SUFFICES ASSUME ManagerInv, since > kMaxFramesLost, NEW id \in DOMAIN tracks_, id \notin fresh
               PROVE  FALSE
    BY DEF RestartForgotten
  <2>1. /\ tracks_[id].frames_missed >= since /\ tracks_[id].frames_missed <= kMaxFramesLost
        /\ tracks_[id].frames_missed \in Nat /\ since \in Nat
    BY DEF ManagerInv, ForgetInv, TracksInv, IsTrack
  <2> QED
    BY <2>1, ManagerAssumption
<1> QED
  BY <1>1, ManagerInvariant, PTL

----------------------------------------------------------------------------
(* The two services together.                                              *)

\* The frames of the tracks socket.
Frames == [recs : UNION {[ids -> Positions] : ids \in SUBSET Nat}, cut : BOOLEAN]

ChainTypes ==
  /\ next_id \in Nat
  /\ \A id \in DOMAIN followed : id \in Nat /\ id < next_id /\ followed[id] \in 0 .. kMaxAge
  /\ wire \in Seq(Frames)
  /\ fresh \in SUBSET Nat

\* Nothing is in the socket before the connection is accepted or after it is closed.
SocketInv ==
  /\ link \in {"none", "pending"} => wire = <<>>
  /\ link = "pending" => fresh = {}
  /\ pc \in {"connect", "ended"} => link = "none"
  /\ link = "up" => ~dead_peer

\* Frame k of the socket shows the track id.
Shown(k, id) == k \in 1 .. Len(wire) /\ id \in DOMAIN wire[k].recs

\* The tracker has not seen the track for n frames.
Unseen(id, n) ==
  IF n <= kMaxAge THEN id \in DOMAIN followed /\ followed[id] = n ELSE id \notin DOMAIN followed

\* What the frames that are still in the socket say about a track: between two
\* frames that show it the tracker has not forgotten it; nor has it between what
\* temporal_service has processed and the next frame that shows it; and the
\* tracker's count is what temporal_service will have counted at the end.
Ahead(id) ==
  /\ \A a, b \in Nat : Shown(a, id) /\ Shown(b, id) /\ a < b =>
       \E j \in Nat : Shown(j, id) /\ a < j /\ j - a - 1 <= kMaxAge
  /\ \A b \in Nat : Shown(b, id) /\ id \in fresh =>
       /\ id \in DOMAIN tracks_
       /\ \E j \in Nat : Shown(j, id) /\ tracks_[id].frames_missed + j - 1 <= kMaxAge
  /\ \A a \in Nat : Shown(a, id) /\ (\A k \in Nat : Shown(k, id) => k <= a) =>
       Unseen(id, Len(wire) - a)
  /\ id \in fresh /\ (\A k \in Nat : ~Shown(k, id)) =>
       IF id \in DOMAIN tracks_ THEN Unseen(id, tracks_[id].frames_missed + Len(wire))
                               ELSE id \notin DOMAIN followed
  /\ id \in fresh \/ (\E k \in Nat : Shown(k, id)) => id < next_id

AheadInv == link \in {"pending", "up"} => \A id \in Nat : Ahead(id)

ChainInv == ChainTypes /\ SocketInv /\ AheadInv

\* The tracker's counters after an update that found the identifiers of found.
LEMMA UpdateEffect ==
  ASSUME ChainTypes, NEW seen, NEW n \in Nat, Tracker!Update(seen, n)
  PROVE  \E found \in SUBSET Nat :
           /\ found \cap DOMAIN followed \subseteq DOMAIN followed'
           /\ Tracker!Output' = found
           /\ next_id' \in Nat /\ next_id <= next_id'
           /\ \A id \in found : /\ id \in DOMAIN followed \/ id >= next_id
                                /\ id < next_id'
                                /\ id \in DOMAIN followed' /\ followed'[id] = 0
           /\ \A id \in DOMAIN followed' \ found :
                id \in DOMAIN followed /\ followed[id] < kMaxAge /\ followed'[id] = followed[id] + 1
           /\ \A id \in DOMAIN followed \ found :
                followed[id] < kMaxAge => id \in DOMAIN followed'
<1> DEFINE found == seen \cup next_id .. (next_id + n - 1)
           kept  == {id \in DOMAIN followed : followed[id] < kMaxAge}
<1>1. /\ seen \subseteq DOMAIN followed
      /\ next_id' = next_id + n
      /\ followed' = [id \in found \cup kept |-> IF id \in found THEN 0 ELSE followed[id] + 1]
  BY DEF Tracker!Update
<1>2. found \in SUBSET Nat
  BY <1>1 DEF ChainTypes
<1>3. next_id' \in Nat /\ next_id <= next_id'
  BY <1>1 DEF ChainTypes
<1>4. \A id \in found : id < next_id' /\ (id \in DOMAIN followed \/ id >= next_id)
  BY <1>1 DEF ChainTypes
<1> HIDE DEF found
<1>5. DOMAIN followed' = found \cup kept
  BY <1>1
<1>6. \A id \in found : id \in DOMAIN followed' /\ followed'[id] = 0
  BY <1>1
<1>7. \A id \in DOMAIN followed' \ found :
        id \in DOMAIN followed /\ followed[id] < kMaxAge /\ followed'[id] = followed[id] + 1
  BY <1>1
<1>8. Tracker!Output' = found
  <2>1. \A id \in DOMAIN followed' \ found : followed'[id] # 0
    BY <1>7 DEF ChainTypes
  <2> QED
    BY <1>6, <2>1 DEF Tracker!Output
<1> QED
  BY <1>2, <1>3, <1>4, <1>5, <1>6, <1>7, <1>8

\* A frame that is sent is one more frame ahead of temporal_service.
LEMMA SendKeepsAhead ==
  ASSUME ChainTypes, TracksInv, NEW id \in Nat, Ahead(id),
         NEW seen, NEW n \in Nat, Tracker!Update(seen, n),
         NEW f \in Frames, DOMAIN f.recs = Tracker!Output', wire' = Append(wire, f),
         UNCHANGED <<fresh, tracks_>>
  PROVE  Ahead(id)'
<1>l. PICK len \in Nat : len = Len(wire)
  BY LenProperties DEF ChainTypes
<1>m. PICK missed : missed = tracks_[id].frames_missed
  OBVIOUS
<1>1. PICK found \in SUBSET Nat :
        /\ Tracker!Output' = found
        /\ next_id' \in Nat /\ next_id <= next_id'
        /\ \A i \in found : /\ i \in DOMAIN followed \/ i >= next_id
                            /\ i < next_id'
                            /\ i \in DOMAIN followed' /\ followed'[i] = 0
        /\ \A i \in DOMAIN followed' \ found :
             i \in DOMAIN followed /\ followed[i] < kMaxAge /\ followed'[i] = followed[i] + 1
        /\ \A i \in DOMAIN followed \ found :
             followed[i] < kMaxAge => i \in DOMAIN followed'
  BY UpdateEffect
<1>2. kMaxAge \in Nat /\ next_id \in Nat /\ (id \in DOMAIN tracks_ => missed \in Nat)
  BY <1>m, ChainAssumption DEF ChainTypes, TracksInv, IsTrack
<1>3. /\ len \in Nat /\ Len(wire') = len + 1
      /\ \A k \in 1 .. len : wire'[k] = wire[k]
      /\ wire'[len + 1] = f
  BY <1>l, AppendProperties, LenProperties DEF ChainTypes
<1>4. \A k \in Nat : Shown(k, id)' <=> Shown(k, id) \/ (k = len + 1 /\ id \in found)
  BY <1>l, <1>1, <1>3 DEF Shown
<1>5. \A k \in Nat : Shown(k, id) => k <= len /\ k >= 1
  BY <1>l DEF Shown
<1>6. id \in found => Unseen(id, 0)'
  BY <1>1, <1>2 DEF Unseen
<1>7. id \notin found /\ id \notin DOMAIN followed => id \notin DOMAIN followed'
  BY <1>1
<1>8. \A m \in Nat : id \notin found /\ Unseen(id, m) => Unseen(id, m + 1)'
  <2> SUFFICES ASSUME NEW m \in Nat, id \notin found, Unseen(id, m) PROVE Unseen(id, m + 1)'
    OBVIOUS
  <2>1. CASE m < kMaxAge
    BY <1>1, <1>2, <2>1 DEF Unseen
  <2>2. CASE m = kMaxAge
    BY <1>1, <1>2, <2>2 DEF Unseen
  <2>3. CASE m > kMaxAge
    BY <1>1, <1>2, <2>3 DEF Unseen
  <2> QED
    BY <1>2, <2>1, <2>2, <2>3
<1>9. \A m \in Nat : id \in found /\ id < next_id /\ Unseen(id, m) => m <= kMaxAge
  BY <1>1, <1>2 DEF Unseen
<1> USE DEF Ahead
<1>10. ASSUME NEW a \in Nat, NEW b \in Nat, Shown(a, id)', Shown(b, id)', a < b
       PROVE  \E j \in Nat : Shown(j, id)' /\ a < j /\ j - a - 1 <= kMaxAge
  <2>1. Shown(a, id)
    BY <1>3, <1>4, <1>5, <1>10
  <2>2. CASE \E c \in Nat : Shown(c, id) /\ a < c
    <3>1. PICK j \in Nat : Shown(j, id) /\ a < j /\ j - a - 1 <= kMaxAge
      BY <2>1, <2>2
    <3> QED
      BY <1>4, <3>1
  <2>3. CASE ~\E c \in Nat : Shown(c, id) /\ a < c
    <3>1. b = len + 1 /\ id \in found
      BY <1>4, <1>10, <2>3
    <3>2. \A k \in Nat : Shown(k, id) => k <= a
      BY <2>3
    <3>3. Unseen(id, len - a) /\ id < next_id
      BY <1>l, <2>1, <3>2
    <3>4. len - a \in Nat /\ len - a <= kMaxAge
      BY <1>3, <1>5, <1>9, <2>1, <3>1, <3>3
    <3>5. b - a - 1 <= kMaxAge
      BY <1>3, <3>1, <3>4
    <3> QED
      BY <1>10, <3>5
  <2> QED
    BY <2>2, <2>3
<1>11. ASSUME NEW b \in Nat, Shown(b, id)', id \in fresh
       PROVE  /\ id \in DOMAIN tracks_
              /\ \E j \in Nat : Shown(j, id)' /\ missed + j - 1 <= kMaxAge
  <2>1. CASE \E c \in Nat : Shown(c, id)
    <3>1. id \in DOMAIN tracks_ /\ \E j \in Nat : Shown(j, id) /\ missed + j - 1 <= kMaxAge
      BY <1>m, <1>11, <2>1
    <3> QED
      BY <1>4, <3>1
  <2>2. CASE ~\E c \in Nat : Shown(c, id)
    <3>1. b = len + 1 /\ id \in found
      BY <1>4, <1>11, <2>2
    <3>2. id < next_id /\ id \in DOMAIN followed
      BY <1>1, <1>2, <1>11, <3>1
    <3>3. id \in DOMAIN tracks_ /\ Unseen(id, missed + len)
      BY <1>l, <1>m, <1>11, <2>2, <3>2
    <3>4. missed + len <= kMaxAge
      BY <1>2, <1>3, <1>9, <3>1, <3>2, <3>3
    <3>5. missed + b - 1 <= kMaxAge
      BY <1>2, <1>3, <3>1, <3>3, <3>4
    <3> QED
      BY <1>11, <3>3, <3>5
  <2> QED
    BY <2>1, <2>2
<1>12. ASSUME NEW a \in Nat, Shown(a, id)', \A k \in Nat : Shown(k, id)' => k <= a
       PROVE  Unseen(id, len + 1 - a)'
  <2>1. CASE id \in found
    <3>1. a = len + 1
      BY <1>3, <1>4, <1>5, <1>12, <2>1
    <3>2. len + 1 - a = 0
      BY <1>3, <3>1
    <3> QED
      BY <1>6, <2>1, <3>2
  <2>2. CASE id \notin found
    <3>1. Shown(a, id) /\ \A k \in Nat : Shown(k, id) => k <= a
      BY <1>4, <1>12, <2>2
    <3>2. Unseen(id, len - a) /\ len - a \in Nat
      BY <1>l, <1>5, <3>1
    <3>3. Unseen(id, (len - a) + 1)'
      BY <1>8, <2>2, <3>2
    <3>4. (len - a) + 1 = len + 1 - a
      BY <1>3
    <3> QED
      BY <3>3, <3>4
  <2> QED
    BY <2>1, <2>2
<1>13. ASSUME id \in fresh, \A k \in Nat : ~Shown(k, id)'
       PROVE  IF id \in DOMAIN tracks_ THEN Unseen(id, missed + (len + 1))'
                                      ELSE id \notin DOMAIN followed'
  <2>1. id \notin found /\ \A k \in Nat : ~Shown(k, id)
    BY <1>3, <1>4, <1>13
  <2>2. CASE id \in DOMAIN tracks_
    <3>1. Unseen(id, missed + len) /\ missed + len \in Nat
      BY <1>l, <1>m, <1>2, <1>3, <1>13, <2>1, <2>2
    <3>2. Unseen(id, (missed + len) + 1)'
      BY <1>8, <2>1, <3>1
    <3> QED
      BY <1>2, <1>3, <2>2, <3>2
  <2>3. CASE id \notin DOMAIN tracks_
    BY <1>7, <1>13, <2>1, <2>3
  <2> QED
    BY <2>2, <2>3
<1>14. (id \in fresh \/ \E k \in Nat : Shown(k, id)') => id < next_id'
  BY <1>1, <1>2, <1>4
<1>15. tracks_'[id].frames_missed = missed /\ DOMAIN tracks_' = DOMAIN tracks_ /\ fresh' = fresh
  BY <1>m
<1>16. \A a, b \in Nat : Shown(a, id)' /\ Shown(b, id)' /\ a < b =>
         \E j \in Nat : Shown(j, id)' /\ a < j /\ j - a - 1 <= kMaxAge
  BY <1>10
<1>17. \A b \in Nat : Shown(b, id)' /\ id \in fresh' =>
         /\ id \in DOMAIN tracks_'
         /\ \E j \in Nat : Shown(j, id)' /\ tracks_'[id].frames_missed + j - 1 <= kMaxAge
  BY <1>11, <1>15
<1>18. \A a \in Nat : Shown(a, id)' /\ (\A k \in Nat : Shown(k, id)' => k <= a) =>
         Unseen(id, Len(wire) - a)'
  <2> SUFFICES ASSUME NEW a \in Nat, Shown(a, id)', \A k \in Nat : Shown(k, id)' => k <= a
               PROVE  Unseen(id, Len(wire) - a)'
    OBVIOUS
  <2>1. Unseen(id, len + 1 - a)'
    BY <1>12
  <2> QED
    BY <1>3, <2>1 DEF Unseen
<1>19. id \in fresh' /\ (\A k \in Nat : ~Shown(k, id)') =>
         IF id \in DOMAIN tracks_' THEN Unseen(id, tracks_[id].frames_missed + Len(wire))'
                                  ELSE id \notin DOMAIN followed'
  BY <1>3, <1>13, <1>15 DEF Unseen
<1> QED
  BY <1>14, <1>15, <1>16, <1>17, <1>18, <1>19, Zenon

\* A frame that is processed moves from the socket into the tracks.
LEMMA FrameKeepsAhead ==
  ASSUME kMaxAge = kMaxFramesLost,
         ChainTypes, TracksInv, NEW id \in Nat, Ahead(id),
         wire # <<>>, EndFrame(Observed(Head(wire).recs)), wire' = Tail(wire),
         fresh' = fresh \cup DOMAIN Head(wire).recs, UNCHANGED <<followed, next_id>>
  PROVE  Ahead(id)'
<1>1. PICK frame : frame = Head(wire).recs
  OBVIOUS
<1>2. PICK len \in Nat : len = Len(wire) - 1
  BY HeadTailProperties, EmptySeq DEF ChainTypes
<1>3. PICK missed : missed = tracks_[id].frames_missed
  OBVIOUS
<1>4. kMaxAge \in Nat /\ next_id \in Nat /\ (id \in DOMAIN tracks_ => missed \in Nat /\ IsTrack(tracks_[id]))
  BY <1>3, ChainAssumption DEF ChainTypes, TracksInv, IsTrack
<1>5. /\ Len(wire') = len /\ Len(wire) = len + 1
      /\ \A k \in 1 .. len : wire'[k] = wire[k + 1]
      /\ wire[1].recs = frame
  BY <1>1, <1>2, HeadTailProperties, EmptySeq DEF ChainTypes
<1>6. \A k \in Nat : Shown(k, id)' <=> k # 0 /\ Shown(k + 1, id)
  BY <1>5 DEF Shown
<1>7. /\ Shown(1, id) <=> id \in DOMAIN frame
      /\ \A k \in Nat : Shown(k, id) => k >= 1 /\ k <= len + 1
  BY <1>5 DEF Shown
<1>8. \A k \in Nat : Shown(k, id) /\ k # 1 => k - 1 \in Nat /\ Shown(k - 1, id)'
  <2> SUFFICES ASSUME NEW k \in Nat, Shown(k, id), k # 1 PROVE k - 1 \in Nat /\ Shown(k - 1, id)'
    OBVIOUS
  <2>1. k - 1 \in Nat /\ k - 1 # 0 /\ (k - 1) + 1 = k
    BY <1>7
  <2> QED
    BY <1>6, <2>1
<1>9. id \in DOMAIN frame => id \in DOMAIN tracks_' /\ tracks_'[id].frames_missed = 0
  <2> SUFFICES ASSUME id \in DOMAIN frame
               PROVE  id \in DOMAIN tracks_' /\ tracks_'[id].frames_missed = 0
    OBVIOUS
  <2>1. id \in DOMAIN tracks_' /\ tracks_'[id] = ObserveTrack(Before(id), frame[id])
    BY <1>1, FrameEffect
  <2>2. IsTrack(Before(id)) /\ frame_no \in Nat
    BY NewTrackIsTrack DEF Before, TracksInv
  <2> QED
    BY <2>1, <2>2, ObserveFacts
<1>10. id \notin DOMAIN frame =>
         /\ id \in DOMAIN tracks_' <=> id \in DOMAIN tracks_ /\ missed < kMaxAge
         /\ id \in DOMAIN tracks_' => tracks_'[id].frames_missed = missed + 1
  <2> SUFFICES ASSUME id \notin DOMAIN frame
               PROVE  /\ id \in DOMAIN tracks_' <=> id \in DOMAIN tracks_ /\ missed < kMaxAge
                      /\ id \in DOMAIN tracks_' => tracks_'[id].frames_missed = missed + 1
    OBVIOUS
  <2>1. id \in DOMAIN tracks_' <=> id \in DOMAIN tracks_ /\ missed < kMaxAge
    BY <1>1, <1>3, FrameEffect
  <2>2. id \in DOMAIN tracks_' => tracks_'[id] = MarkMissed(tracks_[id])
    BY <1>1, FrameEffect
  <2> QED
    BY <1>3, <1>4, <2>1, <2>2, MissedFacts
<1>11. \A m : Unseen(id, m)' <=> Unseen(id, m)
  BY DEF Unseen
<1>12. id \in fresh' <=> id \in fresh \/ id \in DOMAIN frame
  BY <1>1
<1> USE DEF Ahead
<1>13. ASSUME NEW a \in Nat, NEW b \in Nat, Shown(a, id)', Shown(b, id)', a < b
       PROVE  \E j \in Nat : Shown(j, id)' /\ a < j /\ j - a - 1 <= kMaxAge
  <2>1. Shown(a + 1, id) /\ Shown(b + 1, id) /\ a + 1 < b + 1
    BY <1>6, <1>13
  <2>2. PICK j \in Nat : Shown(j, id) /\ a + 1 < j /\ j - (a + 1) - 1 <= kMaxAge
    BY <2>1
  <2>3. j - 1 \in Nat /\ Shown(j - 1, id)' /\ a < j - 1 /\ (j - 1) - a - 1 <= kMaxAge
    BY <1>4, <1>8, <2>2
  <2> QED
    BY <2>3
<1>14. ASSUME NEW b \in Nat, Shown(b, id)', id \in fresh'
       PROVE  /\ id \in DOMAIN tracks_'
              /\ \E j \in Nat : Shown(j, id)' /\ tracks_'[id].frames_missed + j - 1 <= kMaxAge
  <2>1. Shown(b + 1, id) /\ b + 1 \in Nat /\ b # 0
    BY <1>6, <1>14
  <2>2. CASE id \in DOMAIN frame
    <3>1. Shown(1, id) /\ 1 < b + 1
      BY <1>7, <2>1, <2>2
    <3>2. PICK j \in Nat : Shown(j, id) /\ 1 < j /\ j - 1 - 1 <= kMaxAge
      BY <2>1, <3>1
    <3>3. j - 1 \in Nat /\ Shown(j - 1, id)' /\ 0 + (j - 1) - 1 <= kMaxAge
      BY <1>4, <1>8, <3>2
    <3> QED
      BY <1>9, <2>2, <3>3
  <2>3. CASE id \notin DOMAIN frame
    <3>1. id \in fresh
      BY <1>12, <1>14, <2>3
    <3>2. PICK j \in Nat : id \in DOMAIN tracks_ /\ Shown(j, id) /\ missed + j - 1 <= kMaxAge
      BY <1>3, <2>1, <3>1
    <3>3. j # 1 /\ j >= 1
      BY <1>7, <2>3, <3>2
    <3>4. j - 1 \in Nat /\ Shown(j - 1, id)' /\ missed < kMaxAge /\ (missed + 1) + (j - 1) - 1 <= kMaxAge
      BY <1>4, <1>8, <3>2, <3>3
    <3> QED
      BY <1>10, <2>3, <3>2, <3>4
  <2> QED
    BY <2>2, <2>3
<1>15. ASSUME NEW a \in Nat, Shown(a, id)', \A k \in Nat : Shown(k, id)' => k <= a
       PROVE  Unseen(id, len - a)'
  <2>1. Shown(a + 1, id) /\ a + 1 \in Nat
    BY <1>6, <1>15
  <2>2. ASSUME NEW k \in Nat, Shown(k, id) PROVE k <= a + 1
    <3>1. CASE k = 1
      BY <3>1
    <3>2. CASE k # 1
      BY <1>8, <1>15, <2>2, <3>2
    <3> QED
      BY <3>1, <3>2
  <2>3. Unseen(id, Len(wire) - (a + 1))
    BY <2>1, <2>2
  <2>4. Len(wire) - (a + 1) = len - a
    BY <1>5
  <2> QED
    BY <1>11, <2>3, <2>4
<1>16. ASSUME id \in fresh', \A k \in Nat : ~Shown(k, id)'
       PROVE  IF id \in DOMAIN tracks_' THEN Unseen(id, tracks_'[id].frames_missed + len)
                                       ELSE id \notin DOMAIN followed
  <2>1. \A k \in Nat : Shown(k, id) => k = 1
    BY <1>8, <1>16
  <2>2. CASE id \in DOMAIN frame
    <3>1. Unseen(id, Len(wire) - 1)
      BY <1>7, <2>1, <2>2
    <3>2. Len(wire) - 1 = 0 + len
      BY <1>5
    <3> QED
      BY <1>9, <2>2, <3>1, <3>2
  <2>3. CASE id \notin DOMAIN frame
    <3>1. id \in fresh /\ \A k \in Nat : ~Shown(k, id)
      BY <1>7, <1>12, <1>16, <2>1, <2>3
    <3>2. CASE id \in DOMAIN tracks_
      <4>1. Unseen(id, missed + (len + 1))
        BY <1>3, <1>5, <3>1, <3>2
      <4>2. missed + (len + 1) = (missed + 1) + len /\ missed \in Nat
        BY <1>4, <3>2
      <4>3. CASE missed < kMaxAge
        BY <1>10, <2>3, <3>2, <4>1, <4>2, <4>3
      <4>4. CASE ~(missed < kMaxAge)
        <5>1. id \notin DOMAIN tracks_' /\ ~(missed + (len + 1) <= kMaxAge)
          BY <1>4, <1>10, <2>3, <4>2, <4>4
        <5> QED
          BY <4>1, <5>1 DEF Unseen
      <4> QED
        BY <4>3, <4>4
    <3>3. CASE id \notin DOMAIN tracks_
      BY <1>10, <2>3, <3>1, <3>3
    <3> QED
      BY <3>2, <3>3
  <2> QED
    BY <2>2, <2>3
<1>17. id \in fresh' \/ (\E k \in Nat : Shown(k, id)') => id < next_id'
  BY <1>6, <1>7, <1>12
<1>18. (\A m : Unseen(id, m)' <=> Unseen(id, m)) /\ DOMAIN followed' = DOMAIN followed
  BY <1>11
<1> QED
  BY <1>5, <1>13, <1>14, <1>15, <1>16, <1>17, <1>18

\* The tracker and temporal_service count the same misses, with the frames that are
\* in the socket between them, if their two limits are equal.
THEOREM ChainInvariant ==
  ASSUME kMaxAge = kMaxFramesLost
  PROVE  Spec => []ChainInv
<1> USE DEF tracker, tracks_socket, history, temporal, manager
<1>1. Init => ChainInv
  <2> SUFFICES ASSUME Init PROVE ChainInv
    OBVIOUS
  <2>1. /\ followed = <<>> /\ next_id = 1 /\ wire = <<>> /\ fresh = {}
        /\ link = "none" /\ dead_peer = FALSE
    BY DEF Init, Tracker!Init
  <2>2. DOMAIN followed = {}
    BY <2>1
  <2> QED
    BY <2>1, <2>2, EmptySeq DEF ChainInv, ChainTypes, SocketInv, AheadInv
<1>2. ManagerInv /\ ChainInv /\ [Next]_vars => ChainInv'
  <2> SUFFICES ASSUME ManagerInv, ChainInv, [Next]_vars PROVE ChainInv'
    OBVIOUS
  <2>0. TracksInv /\ ChainTypes /\ SocketInv /\ AheadInv
    BY DEF ManagerInv, ChainInv
  <2>a. ASSUME link' = "pending", wire' = <<>>, fresh' = {} PROVE AheadInv'
    <3>1. \A k \in Nat, id \in Nat : ~Shown(k, id)'
      BY <2>a DEF Shown
    <3> QED
      BY <2>a, <3>1 DEF AheadInv, Ahead
  <2>1. CASE TrackerSends
    <3>1. PICK seen \in SUBSET DOMAIN followed : \E n \in 0 .. (MaxDets - Cardinality(seen)) :
            Tracker!Update(seen, n)
      BY <2>1, Zenon DEF TrackerSends
    <3>2. Cardinality(seen) \in Nat
      <4>1. DOMAIN followed \subseteq 0 .. next_id /\ next_id \in Int /\ 0 \in Int
        BY <2>0 DEF ChainTypes
      <4>2. IsFiniteSet(0 .. next_id)
        BY <4>1, FS_Interval
      <4>3. seen \subseteq 0 .. next_id
        BY <3>1, <4>1
      <4>4. IsFiniteSet(seen)
        BY <4>2, <4>3, FS_Subset
      <4> QED
        BY <4>4, FS_CardinalityType
    <3>3. PICK n \in Nat : Tracker!Update(seen, n)
      <4>1. PICK n \in 0 .. (MaxDets - Cardinality(seen)) : Tracker!Update(seen, n)
        BY <3>1
      <4>2. n \in Nat
        BY <3>2, <4>1, ChainAssumption
      <4> QED
        BY <4>1, <4>2
    <3>4. /\ next_id' \in Nat
          /\ \A id \in DOMAIN followed' :
               id \in Nat /\ id < next_id' /\ followed'[id] \in 0 .. kMaxAge
      <4>1. PICK found \in SUBSET Nat :
              /\ next_id' \in Nat /\ next_id <= next_id'
              /\ \A id \in found : id < next_id' /\ followed'[id] = 0
              /\ \A id \in DOMAIN followed' \ found :
                   id \in DOMAIN followed /\ followed[id] < kMaxAge /\ followed'[id] = followed[id] + 1
        BY <2>0, <3>3, UpdateEffect
      <4>2. ASSUME NEW id \in DOMAIN followed'
            PROVE  id \in Nat /\ id < next_id' /\ followed'[id] \in 0 .. kMaxAge
        <5>1. CASE id \in found
          <6>1. id \in Nat /\ id < next_id' /\ followed'[id] = 0
            BY <4>1, <5>1
          <6>2. kMaxAge \in Nat
            BY ChainAssumption
          <6> QED
            BY <6>1, <6>2
        <5>2. CASE id \notin found
          <6>1. /\ id \in DOMAIN followed /\ followed[id] < kMaxAge
                /\ followed'[id] = followed[id] + 1
            BY <4>1, <4>2, <5>2
          <6>2. id \in Nat /\ id < next_id /\ followed[id] \in 0 .. kMaxAge /\ next_id \in Nat
            BY <2>0, <6>1 DEF ChainTypes
          <6> QED
            BY <4>1, <6>1, <6>2, ChainAssumption
        <5> QED
          BY <5>1, <5>2
      <4> QED
        BY <4>1, <4>2
    <3>5. dead_peer' = FALSE /\ UNCHANGED <<pc, tracks_, fresh>>
      BY <2>1 DEF TrackerSends
    <3>6. CASE dead_peer \/ link \notin {"pending", "up"}
      <4>1. UNCHANGED <<link, wire>>
        BY <2>1, <3>6 DEF TrackerSends
      <4>2. ChainTypes' /\ SocketInv'
        BY <2>0, <3>4, <3>5, <4>1 DEF ChainTypes, SocketInv
      <4>3. AheadInv'
        BY <2>0, <2>a, <3>5, <3>6, <4>1 DEF SocketInv, AheadInv
      <4> QED
        BY <4>2, <4>3 DEF ChainInv
    <3>7. CASE ~(dead_peer \/ link \notin {"pending", "up"})
      <4>1. PICK recs \in [Tracker!Output' -> Positions] :
              link' = "up" /\ wire' = Append(wire, [recs |-> recs, cut |-> FALSE])
        BY <2>1, <3>7 DEF TrackerSends
      <4> DEFINE f == [recs |-> recs, cut |-> FALSE]
      <4>2. DOMAIN f.recs = Tracker!Output' /\ Tracker!Output' \in SUBSET Nat
        BY <3>4, <4>1 DEF Tracker!Output
      <4>3. f \in Frames
        BY <4>1, <4>2 DEF Frames
      <4> HIDE DEF f
      <4>4. wire' = Append(wire, f)
        BY <4>1 DEF f
      <4>5. ChainTypes'
        BY <2>0, <3>4, <3>5, <4>3, <4>4, AppendProperties DEF ChainTypes
      <4>6. SocketInv'
        BY <2>0, <3>5, <3>7, <4>1 DEF SocketInv
      <4>7. AheadInv'
        <5> SUFFICES ASSUME NEW id \in Nat PROVE Ahead(id)'
          BY DEF AheadInv
        <5>1. Ahead(id)
          BY <2>0, <3>7 DEF AheadInv
        <5> QED
          BY <2>0, <3>3, <3>5, <4>2, <4>3, <4>4, <5>1, SendKeepsAhead
      <4> QED
        BY <4>5, <4>6, <4>7 DEF ChainInv
    <3> QED
      BY <3>6, <3>7
  <2>2. CASE TrackerRestarts
    <3>1. /\ followed' = <<>> /\ next_id' = 1 /\ dead_peer' = FALSE
          /\ link' = (IF link = "none" THEN "none" ELSE "cut")
          /\ UNCHANGED <<pc, fresh>>
      BY <2>2 DEF TrackerRestarts, Tracker!Restart
    <3>2. wire' \in Seq(Frames) /\ (link = "none" => wire' = wire)
      <4>1. CASE UNCHANGED wire
        BY <2>0, <4>1 DEF ChainTypes
      <4>2. CASE ~UNCHANGED wire
        <5>0. PICK ids \in SUBSET (DOMAIN followed \cup next_id .. (MaxId - 1)) :
                link \in {"pending", "up"} /\ \E recs \in [ids -> Positions] :
                  wire' = Append(wire, [recs |-> recs, cut |-> TRUE])
          BY <2>2, <4>2, Zenon DEF TrackerRestarts
        <5>1. PICK recs \in [ids -> Positions] :
                wire' = Append(wire, [recs |-> recs, cut |-> TRUE]) /\ link \in {"pending", "up"}
          BY <5>0
        <5>2. ids \in SUBSET Nat
          BY <2>0, <5>0, ChainAssumption DEF ChainTypes
        <5>3. [recs |-> recs, cut |-> TRUE] \in Frames
          BY <5>1, <5>2 DEF Frames
        <5> QED
          BY <2>0, <5>1, <5>3, AppendProperties DEF ChainTypes
      <4> QED
        BY <4>1, <4>2
    <3>3. ChainTypes'
      <4>1. DOMAIN followed' = {}
        BY <3>1
      <4> QED
        BY <2>0, <3>1, <3>2, <4>1 DEF ChainTypes
    <3> QED
      BY <2>0, <3>1, <3>2, <3>3 DEF ChainInv, SocketInv, AheadInv
  <2>3. CASE TemporalConnects
    <3>1. /\ pc = "connect" /\ pc' = "read" /\ link' = "pending" /\ fresh' = {}
          /\ UNCHANGED <<followed, next_id, dead_peer, wire>>
      BY <2>3 DEF TemporalConnects, Connect, Goto
    <3>2. wire = <<>>
      BY <2>0, <3>1 DEF SocketInv
    <3> QED
      BY <2>0, <2>a, <3>1, <3>2 DEF ChainInv, ChainTypes, SocketInv
  <2>4. CASE TemporalFrame
    <3>1. /\ wire # <<>> /\ wire' = Tail(wire) /\ pc' = "send"
          /\ EndFrame(Observed(Head(wire).recs))
          /\ fresh' = fresh \cup DOMAIN Head(wire).recs
          /\ UNCHANGED <<followed, next_id, dead_peer, link>>
      BY <2>4 DEF TemporalFrame, Frame, Goto
    <3>2. /\ wire' \in Seq(Frames) /\ Head(wire) \in Frames
      BY <2>0, <3>1, HeadTailProperties DEF ChainTypes
    <3>3. DOMAIN Head(wire).recs \in SUBSET Nat
      BY <3>2 DEF Frames
    <3>4. ChainTypes'
      BY <2>0, <3>1, <3>2, <3>3 DEF ChainTypes
    <3>5. SocketInv'
      BY <2>0, <3>1 DEF SocketInv
    <3>6. AheadInv'
      <4> SUFFICES ASSUME link' \in {"pending", "up"}, NEW id \in Nat PROVE Ahead(id)'
        BY DEF AheadInv
      <4>1. Ahead(id)
        BY <2>0, <3>1 DEF AheadInv
      <4> QED
        BY <2>0, <3>1, <4>1, FrameKeepsAhead
    <3> QED
      BY <3>4, <3>5, <3>6 DEF ChainInv
  <2>5. CASE UNCHANGED <<followed, next_id, fresh, wire, link, dead_peer, tracks_>>
             /\ (pc' \in {"connect", "ended"} => pc \in {"connect", "ended"})
    <3>1. ChainTypes' /\ SocketInv'
      BY <2>0, <2>5 DEF ChainTypes, SocketInv
    <3>2. \A id \in Nat : Ahead(id) => Ahead(id)'
      BY <2>5 DEF Ahead, Shown, Unseen
    <3> QED
      BY <2>0, <2>5, <3>1, <3>2 DEF ChainInv, AheadInv
  <2>6. CASE link' = "none" /\ wire' = <<>> /\ UNCHANGED <<followed, next_id>>
             /\ fresh' \in {{}, fresh}
    BY <2>0, <2>6, EmptySeq DEF ChainInv, ChainTypes, SocketInv, AheadInv
  <2>7. CASE TemporalEof
    BY <2>6, <2>7 DEF TemporalEof
  <2>8. CASE TemporalPublishes
    <3>1. CASE pc' \in {"connect", "ended"}
      BY <2>6, <2>8, <3>1 DEF TemporalPublishes, Hangup
    <3>2. CASE pc' \notin {"connect", "ended"}
      BY <2>5, <2>8, <3>2 DEF TemporalPublishes, PublishFrame
    <3> QED
      BY <3>1, <3>2
  <2>9. CASE TemporalRestarts
    BY <2>6, <2>9 DEF TemporalRestarts, Hangup
  <2>10. CASE TemporalGivesUp \/ TemporalElse \/ UNCHANGED vars
    BY <2>5, <2>10 DEF TemporalGivesUp, TemporalElse, GiveUp, Goto, Signal, ConsumerChanges, vars
  <2> QED
    BY <2>1, <2>2, <2>3, <2>4, <2>7, <2>8, <2>9, <2>10, Zenon DEF Next
<1> QED
  BY <1>1, <1>2, ManagerInvariant, PTL DEF Spec

\* temporal_service never drops a track the tracker still follows, and once it has
\* read all that was sent the two agree on how long every track was missed.
THEOREM TheServicesAgree ==
  ASSUME kMaxAge = kMaxFramesLost
  PROVE  Spec => []ServicesAgree
<1>1. ManagerInv /\ ChainInv => ServicesAgree
  <2> SUFFICES ASSUME ManagerInv, ChainInv, link = "up", NEW id \in fresh
               PROVE  /\ id \in DOMAIN followed => id \in DOMAIN tracks_
                      /\ (id \in DOMAIN tracks_ /\ wire = <<>>) =>
                           id \in DOMAIN followed /\ followed[id] = tracks_[id].frames_missed
    BY DEF ServicesAgree
  <2>1. id \in Nat /\ Ahead(id)
    BY DEF ChainInv, ChainTypes, AheadInv
  <2>2. id \in DOMAIN followed => id \in DOMAIN tracks_
    <3>1. CASE \E k \in Nat : Shown(k, id)
      BY <2>1, <3>1 DEF Ahead
    <3>2. CASE \A k \in Nat : ~Shown(k, id)
      BY <2>1, <3>2 DEF Ahead
    <3> QED
      BY <3>1, <3>2
  <2>3. ASSUME id \in DOMAIN tracks_, wire = <<>>
        PROVE  id \in DOMAIN followed /\ followed[id] = tracks_[id].frames_missed
    <3>1. tracks_[id].frames_missed \in Nat /\ tracks_[id].frames_missed <= kMaxAge
      BY <2>3 DEF ManagerInv, TracksInv, IsTrack
    <3>2. Len(wire) = 0 /\ \A k \in Nat : ~Shown(k, id)
      BY <2>3 DEF Shown
    <3>3. Unseen(id, tracks_[id].frames_missed + Len(wire))
      BY <2>1, <2>3, <3>2 DEF Ahead
    <3>4. tracks_[id].frames_missed + Len(wire) = tracks_[id].frames_missed
      BY <3>1, <3>2
    <3> QED
      BY <3>1, <3>3, <3>4 DEF Unseen
  <2> QED
    BY <2>2, <2>3
<1> QED
  BY <1>1, ManagerInvariant, ChainInvariant, PTL
=============================================================================
