---------------------------- MODULE YoloProcess ----------------------------
(***************************************************************************)
(* The YOLO process: the pipeline of main.cc and its control server,       *)
(* interleaved.  They interact through YoloControlState and, at the end,   *)
(* through ctrl_server.stop(), which the main thread calls and which joins *)
(* the listener thread.                                                    *)
(***************************************************************************)
EXTENDS InferencePipeline, UnixControlServer

vars == <<ctrlState, server, pipeline>>

TypeOK == StateTypeOK /\ ServerTypeOK /\ PipelineTypeOK

Init == StateInit /\ ServerStart /\ PipelineInit

\* ctrl_server.stop() up to the join.
MainStopServer ==
  /\ MainGoto("stop_ctrl", "join_ctrl")
  /\ ServerStop
  /\ UNCHANGED <<allButPc, ctrlState>>

\* The join returns.
MainJoinServer ==
  /\ ServerJoined
  /\ MainGoto("join_ctrl", "stop_pub")
  /\ UNCHANGED <<allButPc, ctrlState, server>>

Alive == main_pc # "exit_failure"

Main      == Alive /\ ((MainStep /\ UNCHANGED server) \/ MainStopServer \/ MainJoinServer)
Worker(i) == Alive /\ WorkerStep(i) /\ UNCHANGED server
Listener  == Alive /\ CtlStep /\ UNCHANGED pipeline
Client    == Alive /\ ClientStep /\ UNCHANGED pipeline
Reader    == PublisherUnblocked /\ UNCHANGED server

\* main has returned or the process has called exit.
Terminated == main_pc \in {"done", "exit_failure"}

\* Nothing more happens: the process has ended, its last join never returns, or the
\* idle loop of a blackout polls flags that no listener is left to set.
Resting ==
  \/ Terminated
  \/ main_pc = "output_blocked"
  \/ main_pc = "idle" /\ ctl_pc = "exited"

Next ==
  \/ Main
  \/ \E i \in Threads : Worker(i)
  \/ Listener
  \/ Client
  \/ Reader
  \/ Resting /\ UNCHANGED vars

Spec == Init /\ [][Next]_vars

\* Every thread of the process keeps running (the scheduler does not starve a
\* runnable thread, the camera keeps delivering frames, waits with a timeout
\* expire), and a client does not stay connected for ever without a request.  Nothing
\* is assumed of new clients, nor of the consumer of the data socket (Reader).
FairSpec ==
  /\ Spec
  /\ WF_vars(Main)
  /\ \A i \in Threads : WF_vars(Worker(i))
  /\ WF_vars(Listener)
  /\ WF_vars(Alive /\ CtlEof /\ UNCHANGED pipeline)

----------------------------------------------------------------------------
(* Safety.                                                                 *)

Busy == {i \in Threads : w_pc[i] \in {"check", "rknn", "push"}}

\* Main is between the push of a job and the ++in_flight of its caller.
Uncounted == IF main_pc = "stamp" THEN 1 ELSE 0

\* Until the sentinels of the teardown enter the queue, in_flight counts the jobs that
\* are queued, in a thread's hands, or waiting as results.
JobsCounted ==
  main_pc \notin {"sentinels", "join_workers", "close_camera", "output_deinit",
                  "output_blocked", "pool_deinit", "final_destroy", "done",
                  "exit_failure"} =>
    in_flight + Uncounted = Len(infer_q) + Cardinality(Busy) + Len(result_q)

\* The sentinels queued, the threads that have taken theirs, and the sentinels main
\* is still to push.
Sentinels == {k \in DOMAIN infer_q : infer_q[k].buf = NoBuf}
Exited    == {i \in Threads : w_pc[i] = "exited"}
ToPush    == IF main_pc = "sentinels" THEN todo ELSE 0

\* While main ends and joins the threads there is one sentinel for each of them.
SentinelsCounted ==
  main_pc \in {"sentinels", "join_workers"} =>
    ToPush + Cardinality(Sentinels) + Cardinality(Exited) = N_THREADS

\* The two counts main relies on are exact: in_flight, for the drain loop of the
\* blackout and the refill; and, for the join at the end, one sentinel for each
\* thread, whichever thread pops it and whatever jobs are queued before it.
InFlightExact == JobsCounted /\ SentinelsCounted

\* No inference thread uses an RKNN context that rknn_destroy has released, or a
\* slot of a pool that deinit has freed: the drain before a blackout and the
\* join before the teardown keep them apart.
NoUseAfterDestroy ==
  \A i \in Threads : w_pc[i] = "rknn" =>
    /\ Handle(tctx, i) \in live
    /\ pool_live

\* The number of places that refer to slot b.
Owners(b) ==
  Cardinality({k \in DOMAIN infer_q : infer_q[k].buf = b})
  + Cardinality({k \in DOMAIN result_q : result_q[k].buf = b})
  + Cardinality({i \in Threads : w_job[i].buf = b})
  + (IF b \in free_list THEN 1 ELSE 0)
  + (IF cur.buf = b THEN 1 ELSE 0)

\* Every slot of the pool has exactly one owner: no frame is overwritten while a
\* thread reads it, and no slot is lost, over any number of blackouts; so that
\* N_THREADS + 2 slots are enough and BufPool::acquire never has to wait.
SlotOwnedOnce ==
  /\ \A b \in Bufs : Owners(b) = 1
  /\ main_pc = "acquire" => free_list # {}

\* While main writes tctxs[i].ctx, which the threads read without a lock, every
\* thread is parked in infer_q.pop() with nothing to pop.
ContextHandoverRaceFree ==
  main_pc \in {"destroy", "publish_blackout", "idle", "reinit", "dup"} =>
    /\ infer_q = <<>>
    /\ \A i \in Threads : w_pc[i] = "pop"

\* What a client may conclude from the answer to "blackout": from the moment it
\* is told "ok" until it asks for "resume" the process has no RKNN context, and
\* no /dev/rknpu descriptor either, so the NPU is the LLM's alone.  (The one way to
\* keep the descriptors is that opendir failed in the release_rknpu_fds of this very
\* blackout: main confirms the blackout all the same.)
NpuExclusive == npu_granted => live = {} /\ (fds_open => opendir_failed)

\* rknn_destroy at the end of main is called on contexts that exist, unless main
\* left its loop in a blackout (shutdown while idle, or a failed rknn_init): then
\* every handle is one the blackout has already destroyed.
FinalDestroyOfLiveContexts ==
  main_pc = "final_destroy" =>
    IF blackout_active THEN live = {} ELSE \A i \in Threads : Handle(ctxs, i) \in live

----------------------------------------------------------------------------
(* Statements of the documentation.                                        *)

\* The flags cleared after a resume are the consumed ones: the request of a
\* "blackout" command that is still waiting for its confirmation is kept.
BlackoutRequestKept ==
  [][blackout_requested /\ ~blackout_requested' => ctl_pc # "bo_wait"]_vars

----------------------------------------------------------------------------
(* Liveness.                                                               *)

\* A join of the teardown waits: for the listener inside accept(), for the sender of
\* the data socket, or for a GLib loop that was told to quit too early.
StopHangs ==
  \/ main_pc = "join_ctrl" /\ ctl_pc = "accepting"
  \/ main_pc \in {"pub_blocked", "output_blocked"}

\* A blackout that main has started completes: the drain ends, because every
\* job in flight comes back as a result even when inference is paused.
DrainCompletes == main_pc = "drain" ~> main_pc = "idle"

\* A resume that main can serve is confirmed without its timeout: the flag the
\* handler waits for stays set long enough for it to be seen, unless a failing camera
\* makes the process exit first.
ResumeConfirmedEventually == ctl_pc = "res_wait" ~> (ctl_pc = "send" \/ ~Alive)

\* Every captured frame returns to the pool, as long as the process runs and its
\* teardown does not hang.
FrameRecycled ==
  \A b \in Bufs : b \notin free_list ~> (b \in free_list \/ Terminated \/ StopHangs)

\* A shutdown ends the process: main leaves its loop from wherever it is, the server,
\* the publisher and the inference threads are joined, unless one of the joins that
\* wait for somebody outside the process (StopHangs) stops it there.
ShutdownCompletes ==
  shutdown_requested ~> (Terminated \/ StopHangs)
=============================================================================
