-------------------------- MODULE YoloControlState --------------------------
(***************************************************************************)
(* The state that the pipeline (main thread, inference threads) and the    *)
(* control server share: struct YoloControlState of                        *)
(* include/ipc/yolo_control_state.h.  Every field is a std::atomic used    *)
(* with relaxed ordering; one load or one store is one atomic step of the  *)
(* modules that extend this one.  lifecycle_mutex guards only the stores   *)
(* main makes for the blackout/resume handshake, each of which is a single *)
(* action of the pipeline, and the predicate a handler waits for.          *)
(*                                                                         *)
(* fps is not represented: it is a statistic nobody takes a decision on.   *)
(***************************************************************************)
EXTENDS Naturals

CONSTANT
  FRAME_MOD     \* frame counters are unsigned of this modulus (2^64 in the code)

ASSUME FrameModAssumption == FRAME_MOD \in Nat \ {0}

VARIABLES
  inference_enabled,    \* FALSE: inference threads skip the RKNN call
  dump_enabled,         \* set by a command, read by nobody
  shutdown_requested,   \* ends the main loop
  frame_id,             \* number of frames captured so far
  blackout_requested, blackout_active,   \* blackout asked for / NPU released
  resume_requested, resume_done          \* resume asked for / NPU back in use

lifecycle == <<blackout_requested, blackout_active, resume_requested, resume_done>>

switches == <<inference_enabled, dump_enabled, shutdown_requested, frame_id>>

ctrlState == <<switches, lifecycle>>

FrameIds == 0 .. (FRAME_MOD - 1)

StateTypeOK ==
  /\ inference_enabled \in BOOLEAN
  /\ dump_enabled \in BOOLEAN
  /\ shutdown_requested \in BOOLEAN
  /\ frame_id \in FrameIds
  /\ blackout_requested \in BOOLEAN
  /\ blackout_active \in BOOLEAN
  /\ resume_requested \in BOOLEAN
  /\ resume_done \in BOOLEAN

StateInit ==
  /\ inference_enabled = TRUE
  /\ dump_enabled = FALSE
  /\ shutdown_requested = FALSE
  /\ frame_id = 0
  /\ blackout_requested = FALSE
  /\ blackout_active = FALSE
  /\ resume_requested = FALSE
  /\ resume_done = FALSE
=============================================================================
