------------------------- MODULE InferencePipeline -------------------------
(***************************************************************************)
(* The inference pipeline of src/main.cc: the main thread, the N_THREADS   *)
(* inference threads, the frame-buffer pool and the two blocking queues.   *)
(*                                                                         *)
(* The main thread captures a frame into a slot of the pool and pushes an  *)
(* InferJob; an inference thread pops it, runs RKNN (unless inference is   *)
(* paused) and pushes an InferResult; main pops a result, draws, displays  *)
(* and publishes it, releases the slot and captures the next frame.  A     *)
(* blackout drains the jobs in flight, destroys the RKNN contexts and      *)
(* idles until a resume, which creates new contexts and refills.           *)
(*                                                                         *)
(* A slot index is a member of Bufs; the index -1 of a shutdown sentinel   *)
(* is NoBuf.  Pixels, detections and timing are abstracted.  An RKNN       *)
(* handle is a pair <<thread, generation>>; generations alternate between  *)
(* 0 and 1, so that the handle a thread used before a blackout differs     *)
(* from the one it gets after it.                                          *)
(***************************************************************************)
EXTENDS YoloControlState, Sequences, FiniteSets

CONSTANTS
  N_THREADS,       \* inference threads, one per NPU core (3 in the code)
  Bufs,            \* the slots of the pool, N_BUF = N_THREADS + 2 of them
  NoBuf,           \* the negative index of a sentinel
  InitMayFail,     \* may rknn_init fail when a blackout ends?
  DupMayFail,      \* may rknn_dup_context fail when a blackout ends?
  CameraMayFail    \* may a V4L2 ioctl fail (CHECK_IOCTL then calls exit)?

ASSUME PipelineAssumption ==
  /\ N_THREADS \in Nat \ {0}
  /\ IsFiniteSet(Bufs)
  /\ Cardinality(Bufs) = N_THREADS + 2
  /\ NoBuf \notin Bufs
  /\ InitMayFail \in BOOLEAN
  /\ DupMayFail \in BOOLEAN
  /\ CameraMayFail \in BOOLEAN

VARIABLES
  main_pc,         \* where the main thread is
  todo,            \* iterations left of the for loop main is in
  cur,             \* the slot and frame the main thread works on
  in_flight,       \* jobs submitted and not popped back
  frame_counter,   \* stamp of the next frame
  free_list,       \* slots acquire() may return
  pool_live,       \* the pool's memory is allocated
  infer_q, result_q,
  w_pc, w_job,     \* per inference thread: program counter, job in hand
  ctxs,            \* generation of ctxs[i] in main
  tctx,            \* generation of tctxs[i].ctx, which thread i reads
  live,            \* the RKNN handles that exist in the runtime
  fds_open,        \* the process holds /dev/rknpu descriptors
  opendir_failed   \* the last release_rknpu_fds could not list /proc/self/fd

mainVars == <<main_pc, todo, cur, in_flight, frame_counter>>
pool     == <<free_list, pool_live>>
queues   == <<infer_q, result_q>>
workers  == <<w_pc, w_job>>
npu      == <<ctxs, tctx, live, fds_open, opendir_failed>>
pipeline == <<mainVars, pool, queues, workers, npu>>

\* What a step that only moves the main thread leaves alone.
allButPc == <<todo, cur, in_flight, frame_counter, pool, queues, workers, npu>>

Threads  == 0 .. (N_THREADS - 1)
Jobs     == [buf : Bufs, fid : FrameIds]
Nothing  == [buf |-> NoBuf, fid |-> 0]
Sentinel == Nothing
Handle(gen, i) == <<i, gen[i]>>
Handles  == Threads \X {0, 1}

MainPcs ==
  {"acquire", "submit", "stamp", "check_shutdown", "check_blackout",
   "reset_handshake", "drain", "destroy", "publish_blackout", "idle", "reinit",
   "dup", "drain_camera", "publish_resume", "clear_blackout", "clear_resume",
   "pop", "publish", "release",
   "stop_ctrl", "join_ctrl", "stop_pub", "pub_blocked", "sentinels",
   "join_workers", "close_camera", "output_deinit", "output_blocked",
   "pool_deinit", "final_destroy", "done", "exit_failure"}

WorkerPcs == {"pop", "check", "rknn", "push", "exited"}

PipelineTypeOK ==
  /\ main_pc \in MainPcs
  /\ todo \in 0 .. N_THREADS
  /\ cur \in Jobs \cup {Nothing}
  /\ in_flight \in Nat
  /\ frame_counter \in FrameIds
  /\ free_list \subseteq Bufs
  /\ pool_live \in BOOLEAN
  /\ infer_q \in Seq(Jobs \cup {Sentinel})
  /\ result_q \in Seq(Jobs)
  /\ w_pc \in [Threads -> WorkerPcs]
  /\ w_job \in [Threads -> Jobs \cup {Nothing}]
  /\ ctxs \in [Threads -> {0, 1}]
  /\ tctx \in [Threads -> {0, 1}]
  /\ live \subseteq Handles
  /\ fds_open \in BOOLEAN
  /\ opendir_failed \in BOOLEAN

\* main() when the threads and the servers have been started: the contexts
\* exist, the pool is full of free slots, N_THREADS frames are to be captured.
PipelineInit ==
  /\ main_pc = "acquire"
  /\ todo = N_THREADS
  /\ cur = Nothing
  /\ in_flight = 0
  /\ frame_counter = 0
  /\ free_list = Bufs
  /\ pool_live = TRUE
  /\ infer_q = <<>>
  /\ result_q = <<>>
  /\ w_pc = [i \in Threads |-> "pop"]
  /\ w_job = [i \in Threads |-> Nothing]
  /\ ctxs = [i \in Threads |-> 0]
  /\ tctx = [i \in Threads |-> 0]
  /\ live = {Handle(ctxs, i) : i \in Threads}
  /\ fds_open = TRUE
  /\ opendir_failed = FALSE

MainGoto(from, to) ==
  /\ main_pc = from
  /\ main_pc' = to

\* A failed ioctl: CHECK_IOCTL reports it and calls exit(EXIT_FAILURE).
CameraExit(from) ==
  /\ CameraMayFail
  /\ MainGoto(from, "exit_failure")

----------------------------------------------------------------------------
(* capture_and_submit: acquire a slot and fill it from the camera, push    *)
(* the job, store the frame count; the caller then increments in_flight.   *)

MainAcquire ==
  /\ \/ /\ MainGoto("acquire", "submit")
        /\ \E b \in free_list :
             /\ free_list' = free_list \ {b}
             /\ cur' = [buf |-> b, fid |-> frame_counter]
     \/ /\ free_list # {}
        /\ CameraExit("acquire")
        /\ UNCHANGED <<free_list, cur>>
  /\ UNCHANGED <<todo, in_flight, frame_counter, pool_live, queues, workers, npu,
                 ctrlState>>

MainSubmit ==
  /\ MainGoto("submit", "stamp")
  /\ infer_q' = Append(infer_q, cur)
  /\ cur' = Nothing
  /\ frame_counter' = (frame_counter + 1) % FRAME_MOD
  /\ UNCHANGED <<todo, in_flight, pool, result_q, workers, npu, ctrlState>>

MainStamp ==
  /\ MainGoto("stamp", IF todo > 1 THEN "acquire" ELSE "check_shutdown")
  /\ frame_id' = frame_counter
  /\ in_flight' = in_flight + 1
  /\ todo' = todo - 1
  /\ UNCHANGED <<cur, frame_counter, pool, queues, workers, npu,
                 inference_enabled, dump_enabled, shutdown_requested, lifecycle>>

----------------------------------------------------------------------------
(* The tests at the head of the main loop and the normal iteration.        *)

MainCheckShutdown ==
  /\ MainGoto("check_shutdown", IF shutdown_requested THEN "stop_ctrl" ELSE "check_blackout")
  /\ UNCHANGED <<allButPc, ctrlState>>

MainCheckBlackout ==
  /\ MainGoto("check_blackout", IF blackout_requested THEN "reset_handshake" ELSE "pop")
  /\ UNCHANGED <<allButPc, ctrlState>>

\* Mutant of MainPop: the slot goes back to the pool before it has been drawn.
MainPopReleasesEarly ==
  /\ result_q # <<>>
  /\ MainGoto("pop", "publish")
  /\ cur' = Head(result_q)
  /\ free_list' = free_list \cup {Head(result_q).buf}
  /\ result_q' = Tail(result_q)
  /\ in_flight' = in_flight - 1
  /\ UNCHANGED <<todo, frame_counter, pool_live, infer_q, workers, npu, ctrlState>>

MainPop ==
  /\ result_q # <<>>
  /\ MainGoto("pop", "publish")
  /\ cur' = Head(result_q)
  /\ result_q' = Tail(result_q)
  /\ in_flight' = in_flight - 1
  /\ UNCHANGED <<todo, frame_counter, pool, infer_q, workers, npu, ctrlState>>

\* Draw the boxes, push the frame to the output, publish the detections.
MainPublish ==
  /\ MainGoto("publish", "release")
  /\ UNCHANGED <<allButPc, ctrlState>>

\* Mutant of MainRelease: the slot is not recycled.
MainReleaseForgotten ==
  /\ MainGoto("release", "acquire")
  /\ cur' = Nothing
  /\ todo' = 1
  /\ UNCHANGED <<in_flight, frame_counter, pool, queues, workers, npu, ctrlState>>

\* Recycle the slot; the next statement captures one more frame.
MainRelease ==
  /\ MainGoto("release", "acquire")
  /\ free_list' = free_list \cup {cur.buf}
  /\ cur' = Nothing
  /\ todo' = 1
  /\ UNCHANGED <<in_flight, frame_counter, pool_live, queues, workers, npu,
                 ctrlState>>

----------------------------------------------------------------------------
(* Blackout.                                                               *)

MainResetHandshake ==
  /\ MainGoto("reset_handshake", "drain")
  /\ blackout_active' = FALSE
  /\ resume_done' = FALSE
  /\ UNCHANGED <<allButPc, switches, blackout_requested, resume_requested>>

\* Mutant of MainDrain: the blackout does not wait for the jobs in flight.
MainDrainSkipped ==
  /\ MainGoto("drain", "destroy")
  /\ UNCHANGED <<allButPc, ctrlState>>

\* Mutants of MainDrain: the loop stops one job early; in_flight is not counted
\* down.
DrainVariant(last, step) ==
  /\ \/ /\ in_flight > last
        /\ result_q # <<>>
        /\ MainGoto("drain", "drain")
        /\ free_list' = free_list \cup {Head(result_q).buf}
        /\ result_q' = Tail(result_q)
        /\ in_flight' = in_flight - step
     \/ /\ in_flight = last
        /\ MainGoto("drain", "destroy")
        /\ UNCHANGED <<free_list, result_q, in_flight>>
  /\ UNCHANGED <<todo, cur, frame_counter, pool_live, infer_q, workers, npu,
                 ctrlState>>
MainDrainOneShort == DrainVariant(1, 1)
MainDrainUncounted == DrainVariant(0, 0)

\* One iteration of the drain loop, or its end.
MainDrain ==
  /\ \/ /\ in_flight > 0
        /\ result_q # <<>>
        /\ MainGoto("drain", "drain")
        /\ free_list' = free_list \cup {Head(result_q).buf}
        /\ result_q' = Tail(result_q)
        /\ in_flight' = in_flight - 1
     \/ /\ in_flight = 0
        /\ MainGoto("drain", "destroy")
        /\ UNCHANGED <<free_list, result_q, in_flight>>
  /\ UNCHANGED <<todo, cur, frame_counter, pool_live, infer_q, workers, npu,
                 ctrlState>>

\* Every descriptor of /dev/rknpu is closed; when opendir("/proc/self/fd") fails the
\* function returns with all of them open, and its caller does not learn of it.
release_rknpu_fds ==
  \/ fds_open' = FALSE /\ opendir_failed' = FALSE
  \/ UNCHANGED fds_open /\ opendir_failed' = TRUE

\* rknn_destroy of every context, then release_rknpu_fds.
MainDestroy ==
  /\ MainGoto("destroy", "publish_blackout")
  /\ live' = live \ {Handle(ctxs, i) : i \in Threads}
  /\ release_rknpu_fds
  /\ UNCHANGED <<todo, cur, in_flight, frame_counter, pool, queues, workers, ctxs,
                 tctx, ctrlState>>

MainPublishBlackout ==
  /\ MainGoto("publish_blackout", "idle")
  /\ blackout_active' = TRUE
  /\ UNCHANGED <<allButPc, switches, blackout_requested, resume_requested,
                 resume_done>>

\* Mutant of MainIdle: the idle loop tests resume_requested only.
MainIdleIgnoresShutdown ==
  /\ resume_requested
  /\ MainGoto("idle", "reinit")
  /\ UNCHANGED <<allButPc, ctrlState>>

\* The idle loop ends with a resume or a shutdown; a shutdown has priority.
MainIdle ==
  /\ resume_requested \/ shutdown_requested
  /\ MainGoto("idle", IF shutdown_requested THEN "stop_ctrl" ELSE "reinit")
  /\ UNCHANGED <<allButPc, ctrlState>>

\* Mutant of MainReinit: the new context is not stored in ctxs[0].
MainReinitNotStored ==
  /\ MainGoto("reinit", "dup")
  /\ live' = live \cup {<<0, 1 - ctxs[0]>>}
  /\ fds_open' = TRUE
  /\ UNCHANGED <<todo, cur, in_flight, frame_counter, pool, queues, workers, ctxs,
                 tctx, opendir_failed, ctrlState>>

\* rknn_init writes ctxs[0]; a failure asks for a shutdown and leaves the loop.
MainReinit ==
  /\ \/ /\ MainGoto("reinit", "dup")
        /\ ctxs' = [ctxs EXCEPT ![0] = 1 - @]
        /\ live' = live \cup {Handle(ctxs', 0)}
        /\ fds_open' = TRUE
        /\ UNCHANGED shutdown_requested
     \/ /\ InitMayFail
        /\ MainGoto("reinit", "stop_ctrl")
        /\ shutdown_requested' = TRUE
        /\ UNCHANGED <<ctxs, live, fds_open>>
  /\ UNCHANGED <<todo, cur, in_flight, frame_counter, pool, queues, workers, tctx,
                 opendir_failed, inference_enabled, dump_enabled, frame_id, lifecycle>>

\* rknn_dup_context for the other threads, its result unchecked: where it fails
\* ctxs[i] keeps the destroyed handle.  Then tctxs[i].ctx = ctxs[i].
MainDup ==
  /\ MainGoto("dup", "drain_camera")
  /\ \E failed \in IF DupMayFail THEN SUBSET (Threads \ {0}) ELSE {{}} :
       ctxs' = [i \in Threads |-> IF i = 0 \/ i \in failed THEN ctxs[i] ELSE 1 - ctxs[i]]
       /\ live' = live \cup {Handle(ctxs', i) : i \in Threads \ (failed \cup {0})}
  /\ tctx' = ctxs'
  /\ UNCHANGED <<todo, cur, in_flight, frame_counter, pool, queues, workers,
                 fds_open, opendir_failed, ctrlState>>

\* Read and requeue the frames the driver buffered during the blackout.
MainDrainCamera ==
  /\ MainGoto("drain_camera", "publish_resume") \/ CameraExit("drain_camera")
  /\ UNCHANGED <<allButPc, ctrlState>>

\* Mutant of MainPublishResume: blackout_active stays set after the resume.
MainPublishResumeStillActive ==
  /\ MainGoto("publish_resume", "clear_blackout")
  /\ inference_enabled' = TRUE
  /\ resume_done' = TRUE
  /\ UNCHANGED <<allButPc, dump_enabled, shutdown_requested, frame_id,
                 blackout_requested, blackout_active, resume_requested>>

MainPublishResume ==
  /\ MainGoto("publish_resume", "clear_blackout")
  /\ blackout_active' = FALSE
  /\ inference_enabled' = TRUE
  /\ resume_done' = TRUE
  /\ UNCHANGED <<allButPc, dump_enabled, shutdown_requested, frame_id,
                 blackout_requested, resume_requested>>

MainClearBlackout ==
  /\ MainGoto("clear_blackout", "clear_resume")
  /\ blackout_requested' = FALSE
  /\ UNCHANGED <<allButPc, switches, blackout_active, resume_requested, resume_done>>

\* Mutant of MainClearResume: resume_done is reset at once, as an earlier version
\* of the code did.
MainClearResumeAndDone ==
  /\ MainGoto("clear_resume", "acquire")
  /\ resume_requested' = FALSE
  /\ resume_done' = FALSE
  /\ todo' = N_THREADS
  /\ UNCHANGED <<cur, in_flight, frame_counter, pool, queues, workers, npu,
                 switches, blackout_requested, blackout_active>>

\* The refill that follows is capture_and_submit, N_THREADS times.
MainClearResume ==
  /\ MainGoto("clear_resume", "acquire")
  /\ resume_requested' = FALSE
  /\ todo' = N_THREADS
  /\ UNCHANGED <<cur, in_flight, frame_counter, pool, queues, workers, npu,
                 switches, blackout_requested, blackout_active, resume_done>>

----------------------------------------------------------------------------
(* Teardown, after the control server has been stopped (see YoloProcess).  *)

\* data_pub.stop() joins the sender thread, which may be inside accept() or in
\* send() to a consumer that does not read (UnixDataPublisher has the detail).  When
\* it returns, one sentinel per thread is to be pushed.
MainStopPublisher ==
  /\ \/ MainGoto("stop_pub", "sentinels") /\ todo' = N_THREADS
     \/ MainGoto("stop_pub", "pub_blocked") /\ UNCHANGED todo
  /\ UNCHANGED <<cur, in_flight, frame_counter, pool, queues, workers, npu, ctrlState>>

\* A consumer connects, reads again or goes: the sender thread ends, the join returns.
\* Nothing obliges a consumer to do so.
PublisherUnblocked ==
  /\ MainGoto("pub_blocked", "sentinels")
  /\ todo' = N_THREADS
  /\ UNCHANGED <<cur, in_flight, frame_counter, pool, queues, workers, npu, ctrlState>>

\* Mutant of MainSentinels: a single sentinel for all the threads.
MainOneSentinel ==
  /\ MainGoto("sentinels", "join_workers")
  /\ infer_q' = Append(infer_q, Sentinel)
  /\ todo' = 0
  /\ UNCHANGED <<cur, in_flight, frame_counter, pool, result_q, workers, npu,
                 ctrlState>>

MainSentinels ==
  /\ MainGoto("sentinels", IF todo > 1 THEN "sentinels" ELSE "join_workers")
  /\ infer_q' = Append(infer_q, Sentinel)
  /\ todo' = todo - 1
  /\ UNCHANGED <<cur, in_flight, frame_counter, pool, result_q, workers, npu,
                 ctrlState>>

MainJoinWorkers ==
  /\ \A i \in Threads : w_pc[i] = "exited"
  /\ MainGoto("join_workers", "close_camera")
  /\ UNCHANGED <<allButPc, ctrlState>>

MainCloseCamera ==
  /\ MainGoto("close_camera", "output_deinit") \/ CameraExit("close_camera")
  /\ UNCHANGED <<allButPc, ctrlState>>

\* The deinit of the display or of the RTSP stream.  rtsp_stream_deinit joins the
\* GLib thread: when its quit came before that thread had entered the loop, the join
\* never returns (RtspStream has the detail).
MainOutputDeinit ==
  /\ \/ MainGoto("output_deinit", "pool_deinit")
     \/ MainGoto("output_deinit", "output_blocked")
  /\ UNCHANGED <<allButPc, ctrlState>>

MainPoolDeinit ==
  /\ MainGoto("pool_deinit", "final_destroy")
  /\ pool_live' = FALSE
  /\ UNCHANGED <<todo, cur, in_flight, frame_counter, free_list, queues, workers,
                 npu, ctrlState>>

MainFinalDestroy ==
  /\ MainGoto("final_destroy", "done")
  /\ live' = live \ {Handle(ctxs, i) : i \in Threads}
  /\ UNCHANGED <<todo, cur, in_flight, frame_counter, pool, queues, workers, ctxs,
                 tctx, fds_open, opendir_failed, ctrlState>>

MainStep ==
  \/ MainAcquire \/ MainSubmit \/ MainStamp
  \/ MainCheckShutdown \/ MainCheckBlackout \/ MainPop \/ MainPublish \/ MainRelease
  \/ MainResetHandshake \/ MainDrain \/ MainDestroy \/ MainPublishBlackout \/ MainIdle
  \/ MainReinit \/ MainDup \/ MainDrainCamera \/ MainPublishResume
  \/ MainClearBlackout \/ MainClearResume
  \/ MainStopPublisher \/ MainSentinels \/ MainJoinWorkers \/ MainCloseCamera
  \/ MainOutputDeinit \/ MainPoolDeinit \/ MainFinalDestroy

----------------------------------------------------------------------------
(* inference_thread i.                                                     *)

WorkerGoto(i, from, to) ==
  /\ w_pc[i] = from
  /\ w_pc' = [w_pc EXCEPT ![i] = to]

\* Mutant of WorkerPop: the sentinel is taken for a job.
WorkerPopNoSentinel(i) ==
  /\ infer_q # <<>>
  /\ infer_q' = Tail(infer_q)
  /\ w_job' = [w_job EXCEPT ![i] = Head(infer_q)]
  /\ WorkerGoto(i, "pop", "check")
  /\ UNCHANGED <<mainVars, pool, result_q, npu, ctrlState>>

WorkerPop(i) ==
  /\ infer_q # <<>>
  /\ infer_q' = Tail(infer_q)
  /\ w_job' = [w_job EXCEPT ![i] = Head(infer_q)]
  /\ WorkerGoto(i, "pop", IF Head(infer_q).buf = NoBuf THEN "exited" ELSE "check")
  /\ UNCHANGED <<mainVars, pool, result_q, npu, ctrlState>>

\* Mutant of WorkerCheck: a paused thread drops the job without a result.
WorkerCheckDropsPaused(i) ==
  /\ WorkerGoto(i, "check", IF inference_enabled THEN "rknn" ELSE "pop")
  /\ UNCHANGED <<mainVars, pool, queues, w_job, npu, ctrlState>>

WorkerCheck(i) ==
  /\ WorkerGoto(i, "check", IF inference_enabled THEN "rknn" ELSE "push")
  /\ UNCHANGED <<mainVars, pool, queues, w_job, npu, ctrlState>>

\* From rknn_inputs_set to rknn_outputs_release: the thread uses its RKNN
\* context and the memory of its slot while it is at "rknn".
WorkerInfer(i) ==
  /\ WorkerGoto(i, "rknn", "push")
  /\ UNCHANGED <<mainVars, pool, queues, w_job, npu, ctrlState>>

WorkerPush(i) ==
  /\ WorkerGoto(i, "push", "pop")
  /\ result_q' = Append(result_q, w_job[i])
  /\ w_job' = [w_job EXCEPT ![i] = Nothing]
  /\ UNCHANGED <<mainVars, pool, infer_q, npu, ctrlState>>

WorkerStep(i) == WorkerPop(i) \/ WorkerCheck(i) \/ WorkerInfer(i) \/ WorkerPush(i)
=============================================================================
