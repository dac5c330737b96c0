------------------------- MODULE UnixControlServer -------------------------
(***************************************************************************)
(* The control server: src/ipc/unix_control_server.cc.                     *)
(*                                                                         *)
(* One listener thread accepts one client at a time and answers its        *)
(* commands one after the other.  ctl_pc is the point the thread is at:    *)
(*   "loop"      the test of the outer while (running_)                    *)
(*   "accept"    about to call accept(), "accepting": blocked in it        *)
(*   "conn"      the test of the while (running_) of handleConnection      *)
(*   "recv"      blocked in recvMsg                                        *)
(*   "dispatch"  dispatchCommand(cmd)                                      *)
(*   "bo_flag", "bo_wait"    inside the "blackout" command                 *)
(*   "res_flag", "res_wait"  inside the "resume" command                   *)
(*   "send"      reply computed, sendMsg not called yet                    *)
(*   "exited"    the thread has returned (or was never started)            *)
(* JSON and framing are abstracted: a request is a member of Commands, a   *)
(* reply is "ok" or "err".                                                 *)
(***************************************************************************)
EXTENDS YoloControlState

CONSTANTS
  Commands,             \* the commands clients send in this instance
  ResumeMayOverrun      \* may main need more than the 15 s "resume" waits?

AllCommands == {"pause_yolo", "resume_yolo", "get_status", "set_dump_enabled",
                "shutdown", "blackout", "resume", "unknown"}

ASSUME ServerAssumption ==
  /\ Commands \subseteq AllCommands
  /\ ResumeMayOverrun \in BOOLEAN

VARIABLES
  ctl_pc, cmd, reply,
  running,        \* running_
  listen_open,    \* listen_fd_ is an open descriptor
  npu_granted     \* the last thing a client was told is that the NPU is free

server == <<ctl_pc, cmd, reply, running, listen_open, npu_granted>>

CtlPcs == {"loop", "accept", "accepting", "conn", "recv", "dispatch", "bo_flag",
           "bo_wait", "res_flag", "res_wait", "send", "exited"}

ServerTypeOK ==
  /\ ctl_pc \in CtlPcs
  /\ cmd \in AllCommands \cup {"none"}
  /\ reply \in {"none", "ok", "err"}
  /\ running \in BOOLEAN
  /\ listen_open \in BOOLEAN
  /\ npu_granted \in BOOLEAN

\* start(): a socket, bind or listen error leaves the server without a thread.
ServerStart ==
  /\ \/ /\ running = TRUE
        /\ listen_open = TRUE
        /\ ctl_pc = "loop"
     \/ /\ running = FALSE
        /\ listen_open = FALSE
        /\ ctl_pc = "exited"
  /\ cmd = "none"
  /\ reply = "none"
  /\ npu_granted = FALSE

CtlGoto(from, to) ==
  /\ ctl_pc = from
  /\ ctl_pc' = to

Connection == <<cmd, reply, running, listen_open, npu_granted>>

----------------------------------------------------------------------------
(* listenerLoop and handleConnection.                                      *)

CtlLoop ==
  /\ CtlGoto("loop", IF running THEN "accept" ELSE "exited")
  /\ UNCHANGED <<Connection, ctrlState>>

\* accept() on a closed descriptor fails at once and ends the thread.
CtlCallAccept ==
  /\ CtlGoto("accept", IF listen_open THEN "accepting" ELSE "exited")
  /\ UNCHANGED <<Connection, ctrlState>>

\* A client connects.  close() of the listening socket, which stop() counts on,
\* does not wake a thread that is already inside accept(): Linux keeps the socket
\* alive for it, and only one more client ends the wait.
CtlAccept ==
  /\ CtlGoto("accepting", "conn")
  /\ UNCHANGED <<Connection, ctrlState>>

\* accept() fails while it is waiting (the connection was aborted, no descriptor is
\* left): the listener ends for good, running_ or not.
CtlAcceptFails ==
  /\ CtlGoto("accepting", "exited")
  /\ UNCHANGED <<Connection, ctrlState>>

CtlConn ==
  /\ CtlGoto("conn", IF running THEN "recv" ELSE "loop")
  /\ UNCHANGED <<Connection, ctrlState>>

\* A request arrives.  A client that asks for "resume" gives the NPU back.
CtlRecv(c) ==
  /\ CtlGoto("recv", "dispatch")
  /\ cmd' = c
  /\ npu_granted' = (npu_granted /\ c # "resume")
  /\ UNCHANGED <<reply, running, listen_open, ctrlState>>

\* recvMsg returns the empty string: end of file, an error or a bad length.
CtlEof ==
  /\ CtlGoto("recv", "loop")
  /\ UNCHANGED <<Connection, ctrlState>>

\* sendMsg delivers the reply, or fails because the client has gone.
CtlSend ==
  /\ \/ /\ CtlGoto("send", "conn")
        /\ npu_granted' = (npu_granted \/ (cmd = "blackout" /\ reply = "ok"))
     \/ /\ CtlGoto("send", "loop")
        /\ UNCHANGED npu_granted
  /\ cmd' = "none"
  /\ reply' = "none"
  /\ UNCHANGED <<running, listen_open, ctrlState>>

----------------------------------------------------------------------------
(* dispatchCommand.                                                        *)

Answer(from, r) ==
  /\ CtlGoto(from, "send")
  /\ reply' = r
  /\ UNCHANGED <<cmd, running, listen_open, npu_granted>>

Handling(c) == ctl_pc = "dispatch" /\ cmd = c

DispatchPause ==
  /\ Handling("pause_yolo")
  /\ inference_enabled' = FALSE
  /\ Answer("dispatch", "ok")
  /\ UNCHANGED <<dump_enabled, shutdown_requested, frame_id, lifecycle>>

DispatchResumeYolo ==
  /\ Handling("resume_yolo")
  /\ inference_enabled' = TRUE
  /\ Answer("dispatch", "ok")
  /\ UNCHANGED <<dump_enabled, shutdown_requested, frame_id, lifecycle>>

DispatchGetStatus ==
  /\ Handling("get_status")
  /\ Answer("dispatch", "ok")
  /\ UNCHANGED ctrlState

\* The "enabled" parameter may be missing: nothing is stored then.
DispatchSetDump ==
  /\ Handling("set_dump_enabled")
  /\ \/ /\ dump_enabled' \in BOOLEAN
        /\ Answer("dispatch", "ok")
     \/ /\ UNCHANGED dump_enabled
        /\ Answer("dispatch", "err")
  /\ UNCHANGED <<inference_enabled, shutdown_requested, frame_id, lifecycle>>

DispatchShutdown ==
  /\ Handling("shutdown")
  /\ shutdown_requested' = TRUE
  /\ Answer("dispatch", "ok")
  /\ UNCHANGED <<inference_enabled, dump_enabled, frame_id, lifecycle>>

DispatchUnknown ==
  /\ Handling("unknown")
  /\ Answer("dispatch", "err")
  /\ UNCHANGED ctrlState

\* "blackout": two stores, then the wait for blackout_active.
DispatchBlackout ==
  /\ Handling("blackout")
  /\ CtlGoto("dispatch", "bo_flag")
  /\ inference_enabled' = FALSE
  /\ UNCHANGED <<Connection, dump_enabled, shutdown_requested, frame_id, lifecycle>>

BlackoutRequest ==
  /\ CtlGoto("bo_flag", "bo_wait")
  /\ blackout_requested' = TRUE
  /\ UNCHANGED <<Connection, switches, blackout_active, resume_requested,
                 resume_done>>

BlackoutConfirmed ==
  /\ blackout_active
  /\ Answer("bo_wait", "ok")
  /\ UNCHANGED ctrlState

\* The 10 s have passed: main is slow, has lost the request or is shutting down.
BlackoutTimeout ==
  /\ ~blackout_active
  /\ Answer("bo_wait", "err")
  /\ UNCHANGED ctrlState

\* "resume": the test of blackout_active, the store, the wait for resume_done.
DispatchResume ==
  /\ Handling("resume")
  /\ \/ /\ ~blackout_active
        /\ Answer("dispatch", "err")
     \/ /\ blackout_active
        /\ CtlGoto("dispatch", "res_flag")
        /\ UNCHANGED Connection
  /\ UNCHANGED ctrlState

ResumeRequest ==
  /\ CtlGoto("res_flag", "res_wait")
  /\ resume_requested' = TRUE
  /\ UNCHANGED <<Connection, switches, blackout_requested, blackout_active,
                 resume_done>>

ResumeConfirmed ==
  /\ resume_done
  /\ Answer("res_wait", "ok")
  /\ UNCHANGED ctrlState

\* The 15 s have passed: main is shutting down or, where that is assumed to be
\* possible, needs longer than that for rknn_init and the camera.
ResumeTimeout ==
  /\ ResumeMayOverrun \/ shutdown_requested
  /\ ~resume_done
  /\ Answer("res_wait", "err")
  /\ UNCHANGED ctrlState

----------------------------------------------------------------------------
(* Steps of the listener thread that wait for nobody outside the process,  *)
(* and the steps a client decides on.                                      *)

CtlStep ==
  \/ CtlLoop \/ CtlCallAccept \/ CtlConn \/ CtlSend
  \/ DispatchPause \/ DispatchResumeYolo \/ DispatchGetStatus \/ DispatchSetDump
  \/ DispatchShutdown \/ DispatchUnknown
  \/ DispatchBlackout \/ BlackoutRequest \/ BlackoutConfirmed \/ BlackoutTimeout
  \/ DispatchResume \/ ResumeRequest \/ ResumeConfirmed \/ ResumeTimeout

ClientStep ==
  \/ CtlAccept
  \/ CtlAcceptFails
  \/ \E c \in Commands : CtlRecv(c)
  \/ CtlEof

----------------------------------------------------------------------------
(* stop(), called by the main thread: clear running_, close the socket,    *)
(* then join the listener thread.                                          *)

ServerStop ==
  /\ running' = FALSE
  /\ listen_open' = FALSE
  /\ UNCHANGED <<ctl_pc, cmd, reply, npu_granted>>

ServerJoined == ctl_pc = "exited"
=============================================================================
