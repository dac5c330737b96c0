---------------------------- MODULE TrackManager ----------------------------
(***************************************************************************)
(* temporal_service: class TrackManager with the TrackState of each track  *)
(* (temporal/src/track_manager.cc, track_state.cc) and the service loop    *)
(* around it (temporal_service.cc).                                        *)
(*                                                                         *)
(* A frame is a function from the track identifiers it contains to the     *)
(* position of their centroid on a line; the tracker never puts an         *)
(* identifier into a frame twice and never uses 0.  A connection that      *)
(* breaks in the middle of a frame leaves a frame with fewer records, and  *)
(* is closed afterwards.  The frames are numbered and stamped by their     *)
(* number.  Velocity, heading and acceleration are not represented.        *)
(*                                                                         *)
(* This module has the steps of the service; where its frames come from is *)
(* the matter of TrackingChain.                                            *)
(***************************************************************************)
EXTENDS Integers, Sequences, FiniteSets, Functions

CONSTANTS
  TrackIds,
  Positions,            \* centroids
  Roi,                  \* the positions inside the region of interest
  kMaxFramesLost,       \* 30 in the code
  kHistoryMax,          \* 16 in the code
  kTentativeFrames,     \* 3 in the code
  kLoiterRadius         \* 25 pixels in the code

ASSUME ManagerAssumption ==
  /\ Positions \subseteq Int
  /\ Roi \subseteq Positions
  /\ {kMaxFramesLost, kTentativeFrames, kLoiterRadius} \subseteq Nat
  /\ kHistoryMax \in Nat \ {0}

VARIABLES
  tracks_,      \* the TrackState of every identifier that is followed
  frame_no,     \* frames processed
  pc,           \* "connect" to the input, "read" a frame, "send" its summary, "ended"
  g_running,    \* cleared by SIGINT and SIGTERM
  broken,       \* the input has ended: the next read fails
  out_conn,     \* the consumer of the events socket: "none", "connected", "stalled"
                \* (it does not read and its socket is full) or "gone"
  believes      \* the tracks a listener of all events takes to be inside the ROI

manager == <<tracks_, frame_no, believes>>
temporal == <<manager, pc, g_running, broken, out_conn>>

TemporalInit ==
  /\ tracks_ = <<>>
  /\ frame_no = 0
  /\ pc = "connect"
  /\ g_running = TRUE
  /\ broken = FALSE
  /\ out_conn = "none"
  /\ believes = {}

----------------------------------------------------------------------------
(* TrackState.                                                             *)

NewTrack == [first_seen |-> frame_no, last_seen |-> 0,
             frames_seen |-> 0, frames_since_first |-> 0, frames_missed |-> 0,
             history |-> <<>>,
             in_roi |-> FALSE, roi_entered |-> FALSE, roi_exited |-> FALSE]

\* push_back, then pop_front above kHistoryMax.
Remember(h, x) ==
  IF Len(h) >= kHistoryMax THEN Append(Tail(h), x) ELSE Append(h, x)

\* Mutant of ObserveTrack: prev_in_roi_ is saved after in_roi_ has changed.
ObserveTrackSwapped(s, x) ==
  [s EXCEPT !.frames_seen = @ + 1,
            !.frames_since_first = @ + 1,
            !.frames_missed = 0,
            !.last_seen = frame_no,
            !.history = Remember(@, x),
            !.in_roi = x \in Roi,
            !.roi_entered = FALSE,
            !.roi_exited = FALSE]

\* update: counters, history, and the crossings of the region's border.
ObserveTrack(s, x) ==
  [s EXCEPT !.frames_seen = @ + 1,
            !.frames_since_first = @ + 1,
            !.frames_missed = 0,
            !.last_seen = frame_no,
            !.history = Remember(@, x),
            !.in_roi = x \in Roi,
            !.roi_entered = x \in Roi /\ ~s.in_roi,
            !.roi_exited = x \notin Roi /\ s.in_roi]

\* Mutants of MarkMissed: the event flags of the last sighting stay set; the
\* frames the track was missed in are not counted.
MarkMissedKeepsEvents(s) ==
  [s EXCEPT !.frames_missed = @ + 1, !.frames_since_first = @ + 1]
MarkMissedUncounted(s) ==
  [s EXCEPT !.frames_missed = @ + 1, !.roi_entered = FALSE, !.roi_exited = FALSE]

MarkMissed(s) ==
  [s EXCEPT !.frames_missed = @ + 1,
            !.frames_since_first = @ + 1,
            !.roi_entered = FALSE,
            !.roi_exited = FALSE]

Status(s) ==
  IF s.frames_missed > 0 THEN "lost"
  ELSE IF s.frames_seen < kTentativeFrames THEN "tentative" ELSE "active"

\* loiter_score in units of 1 / kLoiterRadius: how much less than the radius the
\* centroids of the history are spread, when there are at least four.
LoiterScore(s) ==
  LET spread == CHOOSE n \in 0 .. 1000 :
                  /\ \E x, y \in Range(s.history) : x - y = n
                  /\ \A x, y \in Range(s.history) : x - y <= n
  IN  IF Len(s.history) < 4 \/ spread > kLoiterRadius THEN 0 ELSE kLoiterRadius - spread

----------------------------------------------------------------------------
(* begin_frame, observe for every record and end_frame.                    *)

Observed(frame) ==
  [id \in DOMAIN tracks_ \cup DOMAIN frame |->
     IF id \notin DOMAIN frame THEN MarkMissed(tracks_[id])
     ELSE ObserveTrack(IF id \in DOMAIN tracks_ THEN tracks_[id] ELSE NewTrack, frame[id])]

\* Mutants of TooLongLost: the limit is off by one, either way.
TooLongLostOffByOne(s) == s.frames_missed > kMaxFramesLost + 1
TooLongLostEarly(s) == s.frames_missed >= kMaxFramesLost

TooLongLost(s) == s.frames_missed > kMaxFramesLost

\* end_frame: what is published is every track that is kept.
EndFrame(all) ==
  LET kept == {id \in DOMAIN all : ~TooLongLost(all[id])}
  IN  /\ tracks_' = [id \in kept |-> all[id]]
      /\ believes' = {id \in kept : \/ all[id].roi_entered
                                    \/ id \in believes /\ ~all[id].roi_exited}

----------------------------------------------------------------------------
(* The service loop.                                                       *)

Goto(from, to) ==
  /\ pc = from
  /\ pc' = to

\* connect_input: the connection is made; the tracks survive a reconnection.
Connect ==
  /\ g_running
  /\ Goto("connect", "read")
  /\ broken' = FALSE
  /\ UNCHANGED <<manager, g_running, out_conn>>

\* connect_input returns -1, because of a signal or because socket() fails: that ends
\* the service.
GiveUp ==
  /\ Goto("connect", "ended")
  /\ UNCHANGED <<manager, g_running, broken, out_conn>>

\* The read of the length or of the header fails: nothing of a frame is used.
InputEnds ==
  /\ Goto("read", IF g_running THEN "connect" ELSE "ended")
  /\ UNCHANGED <<manager, g_running, broken, out_conn>>

\* A frame, whole or cut short, then try_accept if there is no consumer.
Frame(frame, cut) ==
  /\ Goto("read", "send")
  /\ frame_no' = frame_no + 1
  /\ EndFrame(Observed(frame))
  /\ broken' = cut
  /\ IF out_conn = "none" THEN out_conn' \in {"none", "connected"} ELSE UNCHANGED out_conn
  /\ UNCHANGED g_running

\* publish_frame notices that the consumer has gone, and does not return while the
\* consumer does not read.  Then the head of the loop.
PublishFrame ==
  /\ out_conn # "stalled"
  /\ Goto("send", IF ~g_running THEN "ended" ELSE IF broken THEN "connect" ELSE "read")
  /\ out_conn' = IF out_conn = "gone" THEN "none" ELSE out_conn
  /\ UNCHANGED <<manager, g_running, broken>>

\* on_signal.  read() and send() are restarted, sleep() is not.
Signal ==
  /\ g_running
  /\ pc # "ended"
  /\ g_running' = FALSE
  /\ UNCHANGED <<manager, pc, broken, out_conn>>

\* The consumer leaves, stops reading or reads again; the service meets it in send().
ConsumerChanges ==
  /\ pc = "send"
  /\ \/ out_conn \in {"connected", "stalled"} /\ out_conn' = "gone"
     \/ out_conn = "connected" /\ out_conn' = "stalled"
     \/ out_conn = "stalled" /\ out_conn' = "connected"
  /\ UNCHANGED <<manager, pc, g_running, broken>>

\* The process crashes, or has ended, and is started again: it has no tracks, and
\* the listener starts from nothing with it.
Restart ==
  /\ tracks_' = <<>>
  /\ frame_no' = 0
  /\ pc' = "connect"
  /\ g_running' = TRUE
  /\ broken' = FALSE
  /\ out_conn' = "none"
  /\ believes' = {}

----------------------------------------------------------------------------
TemporalTypeOK ==
  /\ DOMAIN tracks_ \subseteq TrackIds
  /\ \A id \in DOMAIN tracks_ :
       /\ tracks_[id].frames_missed \in 0 .. kMaxFramesLost
       /\ Len(tracks_[id].history) <= kHistoryMax
       /\ LoiterScore(tracks_[id]) \in 0 .. kLoiterRadius
  /\ frame_no \in Nat
  /\ pc \in {"connect", "read", "send", "ended"}
  /\ {g_running, broken} \subseteq BOOLEAN
  /\ out_conn \in {"none", "connected", "stalled", "gone"}
  /\ believes \subseteq TrackIds

\* The counters of a track tell the same story over any pattern of sightings and
\* gaps: it has existed for as many frames as went by since its first sighting,
\* was last seen frames_missed frames ago, and its visibility is in (0, 1].  Its
\* status is "lost" exactly when it was not in the latest frame, so the summarizer
\* does not take a vanished UAV for a present one.
CountersAgree ==
  \A id \in DOMAIN tracks_ :
    LET s == tracks_[id]
    IN  /\ s.frames_since_first = frame_no - s.first_seen
        /\ s.last_seen = frame_no - 1 - s.frames_missed
        /\ s.frames_seen \in 1 .. (s.frames_since_first - s.frames_missed)
        /\ Status(s) = "lost" <=> s.last_seen < frame_no - 1

\* The enter and exit events are complete: a listener that applies every event of
\* every frame knows which tracks are inside the region, lost tracks included.
EventsComplete ==
  \A id \in DOMAIN tracks_ : tracks_[id].in_roi <=> id \in believes

\* The listener is never told that a track enters or leaves twice in a row, even
\* when the track is lost in between and its last state is published again.
EventsAlternate ==
  [][pc = "read" /\ pc' = "send" =>
       \A id \in DOMAIN tracks_' :
         /\ tracks_'[id].roi_entered => id \notin believes
         /\ tracks_'[id].roi_exited => id \in believes]_temporal

=============================================================================
