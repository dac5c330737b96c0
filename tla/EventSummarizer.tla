-------------------------- MODULE EventSummarizer ---------------------------
(***************************************************************************)
(* tools/event_summarizer.cc: the episode state machine that watches the   *)
(* events stream and, when the drone has been gone for the cooldown, blacks *)
(* out the cameras, writes the snapshot, runs the LLM and resumes them.    *)
(*                                                                         *)
(* The tool is one thread; recv_frame and the state machine step after it  *)
(* are one action, every exchange on a control socket another.  The        *)
(* position of a record is the number of its frame in the episode, so that *)
(* all positions differ; the sums and maxima of an aggregate are left out. *)
(*                                                                         *)
(* Time is the saturated difference now - departed_ms.  It is a difference *)
(* of unsigned wall-clock times: a clock that steps back behind            *)
(* departed_ms makes it huge, one that steps forward makes it larger, and  *)
(* one that steps back a little makes it smaller.                          *)
(*                                                                         *)
(* The cameras are external, modelled by what UnixControlServer and        *)
(* InferencePipeline let a client see: a command is confirmed, refused,    *)
(* not delivered, or it times out and is carried out later.                *)
(***************************************************************************)
EXTENDS Naturals, Sequences, FiniteSetsExt

CONSTANTS
  TrackIds,
  Classes, DroneClass,
  N_DEVICES,        \* 1 is the device, the others are the --also-device ones
  Cooldown,         \* cooldown_ms, in ticks
  MaxFrames         \* frames of an episode in this instance

ASSUME SummarizerAssumption ==
  /\ DroneClass \in Classes
  /\ N_DEVICES \in Nat \ {0}
  /\ Cooldown \in Nat
  /\ MaxFrames \in Nat

VARIABLES
  use_control, qwen_cmd,    \* the options: control the cameras, run an LLM
  pc,               \* where the tool is
  next,             \* the device of the next control exchange
  state, present,   \* the episode state and the last observed presence
  agg,              \* the AggTrack of each track of the episode
  since,            \* now_ms() - departed_ms, at most Cooldown
  cam, owed,        \* of each camera: lit or dark, and a command it has still to serve
  log,              \* history: the drones in each frame of the episode
  quiet,            \* history: real time since a drone was reported, at most Cooldown
  stepped,          \* history: the wall clock was set since departed_ms was
  troubled          \* history: cameras that left a command unconfirmed

options == <<use_control, qwen_cmd>>
episode == <<state, present, agg, log>>
timers == <<since, quiet, stepped>>
cameras == <<cam, owed, troubled>>
vars == <<options, pc, next, episode, timers, cameras>>

Devices == 1 .. N_DEVICES

Init ==
  /\ use_control \in BOOLEAN
  /\ qwen_cmd \in BOOLEAN
  /\ pc = "connect"
  /\ next = 1
  /\ state = "NoDrone"
  /\ present = FALSE
  /\ agg = <<>>
  /\ since = Cooldown
  /\ cam = [d \in Devices |-> "lit"]
  /\ owed = [d \in Devices |-> "none"]
  /\ log = <<>>
  /\ quiet = Cooldown
  /\ stepped = FALSE
  /\ troubled = {}

----------------------------------------------------------------------------
(* The aggregate of an episode.                                            *)

IsDrone(s) == s.class = DroneClass /\ s.status # "lost"

UpdateAggregate(id, cx) ==
  [first |-> IF id \in DOMAIN agg THEN agg[id].first ELSE cx, last |-> cx]

\* The records are aggregated while an episode is active, judged by the state
\* before the frame.
Aggregated(live) ==
  LET cx == Len(log) + 1
  IN  IF state \notin {"DronePresent", "Cooldown"} THEN agg
      ELSE [id \in DOMAIN agg \cup live |->
              IF id \in live THEN UpdateAggregate(id, cx) ELSE agg[id]]

----------------------------------------------------------------------------
(* The switch over the state, after a frame or a timeout has left presence *)
(* p and aggregate a.                                                      *)

EnterWindow ==
  /\ state' = "LlmWindow"
  /\ pc' = IF use_control THEN "blackout" ELSE "snapshot"

Depart ==
  /\ state' = "Cooldown"
  /\ since' = 0
  /\ stepped' = FALSE
  /\ UNCHANGED pc

\* Mutants of InCooldown: a drone that returns is not noticed; departed_ms is
\* set again by every look at the empty scene; a return starts a new aggregate.
InCooldownForgetsReturn(p, a) ==
  /\ agg' = a
  /\ UNCHANGED <<since, stepped>>
  /\ IF since >= Cooldown THEN EnterWindow ELSE UNCHANGED <<state, pc>>
InCooldownRearms(p, a) ==
  /\ agg' = a
  /\ IF p THEN state' = "DronePresent" /\ UNCHANGED <<pc, since, stepped>>
     ELSE IF since >= Cooldown THEN EnterWindow /\ UNCHANGED <<since, stepped>>
     ELSE Depart
InCooldownClears(p, a) ==
  /\ agg' = IF p THEN <<>> ELSE a
  /\ UNCHANGED <<since, stepped>>
  /\ IF p THEN state' = "DronePresent" /\ UNCHANGED pc
     ELSE IF since >= Cooldown THEN EnterWindow ELSE UNCHANGED <<state, pc>>

InCooldown(p, a) ==
  /\ agg' = a
  /\ UNCHANGED <<since, stepped>>
  /\ \/ p /\ state' = "DronePresent" /\ UNCHANGED pc
     \/ ~p /\ since >= Cooldown /\ EnterWindow
     \/ ~p /\ since < Cooldown /\ UNCHANGED <<state, pc>>

Fsm(p, a) ==
  \/ /\ state = "NoDrone"
     /\ state' = IF p THEN "DronePresent" ELSE state
     /\ agg' = IF p THEN <<>> ELSE a
     /\ UNCHANGED <<pc, since, stepped>>
  \/ /\ state = "DronePresent"
     /\ agg' = a
     /\ IF p THEN UNCHANGED <<state, pc, since, stepped>> ELSE Depart
  \/ /\ state = "Cooldown"
     /\ InCooldown(p, a)

----------------------------------------------------------------------------
(* The outer loop: connect, receive until the stream ends, connect again.  *)

\* connect() is tried every second until the socket exists.
Connect ==
  /\ pc = "connect"
  /\ pc' = "recv"
  /\ UNCHANGED <<options, next, episode, timers, cameras>>

\* A frame, given by its records; two tracks have different identifiers.
RecvFrame(frame) ==
  LET live == {id \in DOMAIN frame : IsDrone(frame[id])}
  IN  /\ pc = "recv"
      /\ Len(log) < MaxFrames
      /\ present' = (live # {})
      /\ log' = IF state = "NoDrone" /\ live = {} THEN <<>> ELSE Append(log, live)
      /\ quiet' = IF live = {} THEN quiet ELSE 0
      /\ Fsm(live # {}, Aggregated(live))
      /\ UNCHANGED <<options, next, cameras>>

\* 200 ms without a frame: the state machine runs on the last observation.
RecvTimeout ==
  /\ pc = "recv"
  /\ Fsm(present, agg)
  /\ UNCHANGED <<options, next, present, log, quiet, cameras>>

\* End of file, an error, or a frame that breaks off: nothing of it is used and
\* the episode survives the reconnection.
Disconnect ==
  /\ pc = "recv"
  /\ pc' = "connect"
  /\ UNCHANGED <<options, next, episode, timers, cameras>>

----------------------------------------------------------------------------
(* The LLM window.  send_control reports failures to nobody.               *)

\* Mutant of Advance: only the first device.
AdvanceFirstOnly(to) == next' = 1 /\ pc' = to

\* The loop over device and also_devices.
Advance(to) ==
  IF next < N_DEVICES THEN next' = next + 1 /\ UNCHANGED pc
                      ELSE next' = 1 /\ pc' = to

\* What can become of a command: the camera confirms it; it is recorded, but not
\* served in time; it is refused or does not reach the camera.
Confirmed(becomes, trouble) ==
  /\ cam' = [cam EXCEPT ![next] = becomes]
  /\ owed' = IF cam[next] = becomes THEN owed ELSE [owed EXCEPT ![next] = "none"]
  /\ troubled' = trouble

Overdue(command) ==
  /\ owed' = [owed EXCEPT ![next] = command]
  /\ troubled' = troubled \cup {next}
  /\ UNCHANGED cam

Unserved ==
  /\ troubled' = troubled \cup {next}
  /\ UNCHANGED <<cam, owed>>

\* A camera that is dark already confirms at once.
Blackout ==
  /\ pc = "blackout"
  /\ \/ Confirmed("dark", troubled)
     \/ cam[next] = "lit" /\ Overdue("blackout")
     \/ Unserved
  /\ Advance("snapshot")
  /\ UNCHANGED <<options, episode, timers>>

\* The file holds agg, which nothing changes before the window is closed.
SnapshotWritten ==
  /\ pc = "snapshot"
  /\ pc' = IF qwen_cmd THEN "llm" ELSE "resume"
  /\ UNCHANGED <<options, next, episode, timers, cameras>>

\* Mutants of SnapshotFails: an early way out of the window; no resume.
SnapshotFailsLeaves ==
  /\ pc = "snapshot"
  /\ pc' = "recv"
  /\ UNCHANGED <<options, next, episode, timers, cameras>>

SnapshotFailsNoResume ==
  /\ pc = "snapshot"
  /\ pc' = "close"
  /\ UNCHANGED <<options, next, episode, timers, cameras>>

\* fopen or rename fails: no LLM, but the cameras get the NPU back.
SnapshotFails ==
  /\ pc = "snapshot"
  /\ pc' = "resume"
  /\ UNCHANGED <<options, next, episode, timers, cameras>>

\* system() returns, with an exit code nobody uses.
LlmEnds ==
  /\ pc = "llm"
  /\ pc' = "resume"
  /\ UNCHANGED <<options, next, episode, timers, cameras>>

\* A camera that is lit refuses.
Resume ==
  /\ pc = "resume"
  /\ use_control
  /\ \/ cam[next] = "dark" /\ Confirmed("lit", troubled \ {next})
     \/ cam[next] = "dark" /\ Overdue("resume")
     \/ Unserved
  /\ Advance("close")
  /\ UNCHANGED <<options, episode, timers>>

NoResume ==
  /\ pc = "resume"
  /\ ~use_control
  /\ pc' = "close"
  /\ UNCHANGED <<options, next, episode, timers, cameras>>

CloseWindow ==
  /\ pc = "close"
  /\ pc' = "recv"
  /\ state' = "NoDrone"
  /\ present' = FALSE
  /\ agg' = <<>>
  /\ log' = <<>>
  /\ UNCHANGED <<options, next, timers, cameras>>

----------------------------------------------------------------------------
(* The environment: time, somebody setting the clock, slow cameras.        *)

Tick ==
  /\ since' = Min({since + 1, Cooldown})
  /\ quiet' = Min({quiet + 1, Cooldown})
  /\ UNCHANGED <<options, pc, next, episode, stepped, cameras>>

\* At most once in a cooldown.
SetClock ==
  /\ state = "Cooldown"
  /\ ~stepped
  /\ stepped' = TRUE
  /\ since' \in 0 .. Cooldown
  /\ UNCHANGED <<options, pc, next, episode, quiet, cameras>>

ServeLate(d) ==
  /\ owed[d] # "none"
  /\ cam' = [cam EXCEPT ![d] = IF owed[d] = "blackout" THEN "dark" ELSE "lit"]
  /\ owed' = [owed EXCEPT ![d] = "none"]
  /\ UNCHANGED <<options, pc, next, episode, timers, troubled>>

----------------------------------------------------------------------------
\* The tool does not tell tentative tracks from active ones.
Records == [class : Classes, status : {"active", "lost"}]

Receive ==
  \/ \E ids \in SUBSET TrackIds : \E frame \in [ids -> Records] : RecvFrame(frame)
  \/ RecvTimeout

Window ==
  \/ Blackout \/ SnapshotWritten \/ SnapshotFails \/ LlmEnds \/ Resume
  \/ NoResume \/ CloseWindow

Environment == Tick \/ SetClock \/ \E d \in Devices : ServeLate(d)

Next == Connect \/ Receive \/ Disconnect \/ Window \/ Environment

Spec == Init /\ [][Next]_vars

\* A connection is found again and does not always break before a read times
\* out; control exchanges, the LLM and time go on.
FairSpec ==
  Spec /\ WF_vars(Connect) /\ SF_vars(Receive) /\ WF_vars(Window) /\ WF_vars(Tick)

----------------------------------------------------------------------------
AggTracks == [first : 1 .. MaxFrames, last : 1 .. MaxFrames]

TypeOK ==
  /\ use_control \in BOOLEAN
  /\ qwen_cmd \in BOOLEAN
  /\ pc \in {"connect", "recv", "blackout", "snapshot", "llm", "resume", "close"}
  /\ next \in Devices
  /\ state \in {"NoDrone", "DronePresent", "Cooldown", "LlmWindow"}
  /\ present \in BOOLEAN
  /\ DOMAIN agg \subseteq TrackIds
  /\ agg \in [DOMAIN agg -> AggTracks]
  /\ since \in 0 .. Cooldown
  /\ quiet \in 0 .. Cooldown
  /\ stepped \in BOOLEAN
  /\ cam \in [Devices -> {"lit", "dark"}]
  /\ owed \in [Devices -> {"none", "blackout", "resume"}]
  /\ troubled \subseteq Devices
  /\ log \in Seq(SUBSET TrackIds)
  /\ Len(log) <= MaxFrames

\* The LLM cycle starts only when no drone has been reported for the cooldown,
\* however often it left and came back before and however the stream broke, unless
\* the wall clock was set in between: "scene clear for the configured cooldown".
QuietBeforeLlm == state = "LlmWindow" => quiet = Cooldown \/ stepped

\* What the LLM reads are exactly the drones of this episode, from the frame after
\* the one that began it on, each with its first and last position: nothing is lost
\* by a dropout or a reconnection and nothing is left from the episode before.
SnapshotFaithful ==
  pc = "llm" =>
    LET frames(id) == {i \in 2 .. Len(log) : id \in log[i]}
    IN  agg = [id \in {x \in TrackIds : frames(x) # {}} |->
                 [first |-> Min(frames(id)), last |-> Max(frames(id))]]

\* While the LLM runs every camera is dark, except one that has left a command
\* unconfirmed, which the tool does not notice.
LlmOwnsNpu ==
  (pc = "llm" /\ use_control) => \A d \in Devices : cam[d] = "dark" \/ d \in troubled

\* Outside a window no camera is dark, except one that has left a command
\* unconfirmed; a snapshot that fails leaves none behind.
CamerasRelit ==
  state # "LlmWindow" => \A d \in Devices : cam[d] = "lit" \/ d \in troubled

\* A cooldown does not last for ever: the drone returns or is summarised.
CooldownEnds == state = "Cooldown" ~> state # "Cooldown"

\* A window is left again, whatever fails in it.
WindowCloses == state = "LlmWindow" ~> state = "NoDrone"
=============================================================================
