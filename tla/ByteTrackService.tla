-------------------------- MODULE ByteTrackService --------------------------
(***************************************************************************)
(* bytetrack_service: the loop of tracker/src/bytetrack_service.cc around  *)
(* the tracker.  It reads frames from the YOLO data socket, updates the    *)
(* tracker with each and sends the result to at most one consumer.         *)
(*                                                                         *)
(* A frame arrives whole, or the connection breaks after some of its       *)
(* records (the YOLO process ends while its sender thread is writing).     *)
(* The service ends by a signal or a crash and may be started again.       *)
(***************************************************************************)
EXTENDS IouTracker

CONSTANTS
  Detections,     \* the detections of this instance
  MaxDets,        \* detections per frame in this instance (64 in the code)
  NoClass,        \* the empty class name of a zero-initialised detection
  InputMayBreak   \* may the data connection break in the middle of a frame?

ASSUME ServiceAssumption ==
  /\ MaxDets \in Nat
  /\ \A d \in Detections : /\ d.class_name # NoClass
                           /\ {d.left, d.top, d.right, d.bottom} \subseteq Int
  /\ InputMayBreak \in BOOLEAN

VARIABLES
  pc,           \* "connect" to the input, "read" a frame, "update" the tracker with
                \* it, "send" the result, or "ended"
  g_running,    \* cleared by SIGINT and SIGTERM
  broken,       \* the input has ended: the next read fails
  out_conn      \* the consumer: "none", "connected", "stalled" (it does not read and
                \* its socket is full) or "gone" (not noticed yet)

service == <<g_running, broken, out_conn>>
vars == <<pc, tracker, service>>

\* std::vector<TrackerDetection> dets(hdr.count) is zero-initialised.
Blank == [class_name |-> NoClass, left |-> 0, top |-> 0, right |-> 0, bottom |-> 0]

Frames == UNION {[1 .. n -> Detections] : n \in 0 .. MaxDets}

Init ==
  /\ TrackerInit
  /\ pc = "connect"
  /\ g_running = TRUE
  /\ broken = FALSE
  /\ out_conn = "none"

Goto(from, to) ==
  /\ pc = from
  /\ pc' = to

----------------------------------------------------------------------------
(* The input.                                                              *)

\* Mutant of ConnectInput: the retry loop does not test g_running.
ConnectInputAlways ==
  /\ Goto("connect", "read")
  /\ broken' = FALSE
  /\ UNCHANGED <<tracker, g_running, out_conn>>

\* connect_input: the connection is made, or the retry loop is left because of a
\* signal (or because socket() fails), which ends the service.
ConnectInput ==
  /\ \/ g_running /\ Goto("connect", "read")
     \/ Goto("connect", "ended")
  /\ broken' = FALSE
  /\ UNCHANGED <<tracker, g_running, out_conn>>

\* Where the loop goes when a frame is done or a read has failed.
LoopHead == IF ~g_running THEN "ended" ELSE IF broken THEN "connect" ELSE "read"

\* The read of the length or of the header fails: nothing of a frame is used.
InputEnds ==
  /\ Goto("read", IF g_running THEN "connect" ELSE "ended")
  /\ UNCHANGED <<tracker, service>>

ReadFrame(frame) ==
  /\ Goto("read", "update")
  /\ BeginUpdate(frame)
  /\ UNCHANGED service

\* readExact fails at record n + 1: the loop over the records is left, the rest of
\* dets stays blank, and the frame is processed before the next read fails.
ReadBrokenFrame(frame, n) ==
  /\ InputMayBreak
  /\ Goto("read", "update")
  /\ BeginUpdate([d \in DOMAIN frame |-> IF d <= n THEN frame[d] ELSE Blank])
  /\ broken' = TRUE
  /\ UNCHANGED <<g_running, out_conn>>

----------------------------------------------------------------------------
(* tracker->update, then the consumer.                                     *)

UpdateRound ==
  /\ pc = "update"
  /\ MatchRound
  /\ UNCHANGED <<pc, service>>

\* if (out_conn < 0) out_conn = try_accept(out_listen): a consumer may be waiting.
TryAccept ==
  IF out_conn = "none" THEN out_conn' \in {"none", "connected"} ELSE UNCHANGED out_conn

Update ==
  /\ Goto("update", "send")
  /\ EndUpdate
  /\ TryAccept
  /\ UNCHANGED <<g_running, broken>>

\* send_tracks to the consumer, if there is one.  A consumer that has gone is
\* noticed; one that does not read keeps the service inside send().
SendTracks ==
  /\ out_conn # "stalled"
  /\ Goto("send", LoopHead)
  /\ out_conn' = IF out_conn = "gone" THEN "none" ELSE out_conn
  /\ UNCHANGED <<tracker, g_running, broken>>

----------------------------------------------------------------------------
(* Signals, crashes and the consumer.                                      *)

\* on_signal.  read() and send() are restarted, sleep() is not.
Signal ==
  /\ g_running
  /\ pc # "ended"
  /\ g_running' = FALSE
  /\ UNCHANGED <<pc, tracker, broken, out_conn>>

Crash ==
  /\ pc # "ended"
  /\ pc' = "ended"
  /\ UNCHANGED <<tracker, service>>

\* Somebody starts the service again; the consumers have seen the end of file.
Restart ==
  /\ pc = "ended"
  /\ pc' = "connect"
  /\ tracks_' = <<>>
  /\ next_id_' = 1
  /\ dets' = <<>>
  /\ det_to_track' = <<>>
  /\ outputs' = <<>>
  /\ g_running' = TRUE
  /\ broken' = FALSE
  /\ out_conn' = "none"

\* The consumer leaves, stops reading or reads again; the service meets it in send().
ConsumerChanges ==
  /\ pc = "send"
  /\ \/ out_conn \in {"connected", "stalled"} /\ out_conn' = "gone"
     \/ out_conn = "connected" /\ out_conn' = "stalled"
     \/ out_conn = "stalled" /\ out_conn' = "connected"
  /\ UNCHANGED <<pc, tracker, g_running, broken>>

Read ==
  \E frame \in Frames :
    \/ ReadFrame(frame)
    \/ \E n \in 0 .. (Len(frame) - 1) : ReadBrokenFrame(frame, n)

Next ==
  \/ ConnectInput \/ InputEnds \/ Read
  \/ UpdateRound \/ Update \/ SendTracks
  \/ Signal \/ Crash \/ Restart
  \/ ConsumerChanges

Spec == Init /\ [][Next]_vars

\* The service is scheduled, and its attempts to connect end.  Nobody is obliged to
\* send it a frame or to read what it sends.
FairSpec == Spec /\ WF_vars(ConnectInput \/ UpdateRound \/ Update \/ SendTracks)

----------------------------------------------------------------------------
TypeOK ==
  /\ \A k \in DOMAIN tracks_ : /\ tracks_[k].id \in 1 .. (next_id_ - 1)
                               /\ tracks_[k].frames_unseen \in 0 .. kMaxAge
  /\ next_id_ \in 1 .. MaxId
  /\ DOMAIN det_to_track = DOMAIN dets
  /\ \A d \in DOMAIN dets : det_to_track[d] \in 0 .. Len(tracks_)
  /\ pc \in {"connect", "read", "update", "send", "ended"}
  /\ {g_running, broken} \subseteq BOOLEAN
  /\ out_conn \in {"none", "connected", "stalled", "gone"}

\* The promise of the track stream (TrackSource): the tracks that are followed are
\* the ones of tracks_, and a new process starts again from nothing.
Promise == INSTANCE TrackSource WITH
  followed <- [id \in {tracks_[k].id : k \in DOMAIN tracks_} |->
                 tracks_[CHOOSE k \in DOMAIN tracks_ : tracks_[k].id = id].frames_unseen],
  next_id  <- next_id_

\* A track identifier names one track: no two tracks share one, no two detections
\* of a frame are given the same, and the frame has those that were just seen.
IdsUnique ==
  /\ \A s \in {tracks_, outputs} : \A j, k \in DOMAIN s : s[j].id = s[k].id => j = k
  /\ pc = "send" => {outputs[k].id : k \in DOMAIN outputs} = Promise!Output

\* Every update continues tracks that are followed or gives the next identifiers,
\* ages what it did not see and drops it after kMaxAge frames; within the life of
\* the process no identifier comes back once it was dropped.
KeepsTrackPromise == Promise!Spec

\* The loop of update ends with a stable matching: a detection and a track that fit
\* and are not put together have at least one of them a partner that fits no worse.
MatchingStable ==
  (pc = "update" /\ Open = {}) =>
    \A d \in DOMAIN dets, t \in DOMAIN tracks_ :
      Eligible(dets[d], tracks_[t].det) =>
        \E e \in DOMAIN dets :
          /\ det_to_track[e] # 0
          /\ e = d \/ det_to_track[e] = t
          /\ ~HigherPair(<<d, t>>, <<e, det_to_track[e]>>)

\* A signal ends the service, unless it waits in read() for a frame that does not
\* come or in send() for a consumer that does not read: both calls are restarted.
SignalEnds == (~g_running /\ pc # "read") ~> (pc = "ended" \/ out_conn = "stalled")

\* Every frame that is read is dealt with: the rounds of the matching end, and the
\* service reads on, unless its consumer does not; then the sender of the YOLO
\* process waits as well.
FrameDone ==
  pc \in {"update", "send"} ~> (pc \notin {"update", "send"} \/ out_conn = "stalled")

----------------------------------------------------------------------------
(* A statement of the documentation.                                       *)

\* A consumer is sent tracked detections: every record of a frame on its way to the
\* consumer was a detection of the frame YOLO sent.
SentWereDetected ==
  (pc = "send" /\ out_conn = "connected") =>
    \A k \in DOMAIN outputs : outputs[k].det.class_name # NoClass
=============================================================================
