------------------------- MODULE YoloProcessProofs -------------------------
(***************************************************************************)
(* Proofs about YoloProcess for any number of inference threads, any set   *)
(* of commands and any behaviour of the environment the constants allow.   *)
(*                                                                         *)
(* The inductive invariant is IInv.  Type correctness is not inductive by  *)
(* itself: in_flight stays a natural number because it counts what is in   *)
(* the queues and in the threads' hands (JobsCounted), and the slot main   *)
(* releases is a slot because main holds a result at that point (HandsInv).*)
(* Two more invariants rest on it: SlotInv, for the ownership of the slots *)
(* (every slot is in exactly one of its places, and the pool is never      *)
(* empty where main acquires), and HandlesInv, for the contexts that the   *)
(* teardown destroys.  The sentinels of the teardown are counted by        *)
(* SentinelsCounted, and the promise of the blackout command has an        *)
(* invariant of its own, HInv.                                             *)
(***************************************************************************)
EXTENDS YoloProcess, FiniteSetTheorems, SequenceTheorems, TLAPS

----------------------------------------------------------------------------
(* The inductive invariant, a conjunction of named parts.                  *)

TeardownPcs == {"sentinels", "join_workers", "close_camera", "output_deinit",
                "output_blocked", "pool_deinit", "final_destroy", "done",
                "exit_failure"}

\* Between the end of the drain and the refill nothing is in flight.
DrainedPcs == {"destroy", "publish_blackout", "idle", "reinit", "dup", "drain_camera",
               "publish_resume", "clear_blackout", "clear_resume"}

\* Where the RKNN contexts of the threads exist.
LitPcs == {"acquire", "submit", "stamp", "check_shutdown", "check_blackout",
           "reset_handshake", "drain", "destroy", "drain_camera", "publish_resume",
           "clear_blackout", "clear_resume", "pop", "publish", "release"}

TodoInv == main_pc \in {"acquire", "submit", "stamp", "sentinels"} => todo > 0

\* Who holds a slot really holds one.
HandsInv ==
  /\ main_pc \in {"submit", "publish", "release"} => cur \in Jobs
  /\ \A i \in Threads : w_pc[i] \in {"check", "rknn", "push"} => w_job[i] \in Jobs

\* No sentinel is queued and no thread has ended before the teardown.
RunningInv ==
  main_pc \notin TeardownPcs =>
    /\ infer_q \in Seq(Jobs)
    /\ \A i \in Threads : w_pc[i] # "exited"

DrainedInv == main_pc \in DrainedPcs => in_flight = 0

AllExited == \A i \in Threads : w_pc[i] = "exited"
CtxsLive  == \A i \in Threads : Handle(tctx, i) \in live
Quiet     == Busy = {} /\ \A k \in DOMAIN infer_q : infer_q[k] = Sentinel

\* The contexts exist, or no thread has or will get a job to use them for.
ContextInv ==
  /\ CtxsLive \/ Quiet \/ AllExited
  /\ main_pc \in LitPcs => CtxsLive
  /\ main_pc = "dup" => Handle(ctxs, 0) \in live

PoolInv ==
  /\ pool_live \/ AllExited
  /\ main_pc \in {"close_camera", "output_deinit", "pool_deinit", "final_destroy"} =>
       AllExited

\* The part of the invariant that is about the pipeline alone.
PInv ==
  /\ PipelineTypeOK
  /\ TodoInv
  /\ HandsInv
  /\ JobsCounted
  /\ RunningInv
  /\ DrainedInv
  /\ PoolInv

IInv == StateTypeOK /\ ServerTypeOK /\ PInv

----------------------------------------------------------------------------
(* Facts about the constants and the counted set of threads.               *)

\* A sentinel is not a job, thread 0 exists, the frame counter wraps.
LEMMA ConstantFacts ==
  /\ N_THREADS \in Nat /\ N_THREADS > 0
  /\ 0 \in Threads
  /\ Nothing \notin Jobs
  /\ 0 \in FrameIds
  /\ \A f \in FrameIds : (f + 1) % FRAME_MOD \in FrameIds
<1>1. N_THREADS \in Nat /\ N_THREADS > 0 /\ 0 \in Threads
  BY PipelineAssumption DEF Threads
<1>2. Nothing \notin Jobs
  BY PipelineAssumption DEF Nothing, Jobs
<1>3. 0 \in FrameIds /\ \A f \in FrameIds : (f + 1) % FRAME_MOD \in FrameIds
  BY FrameModAssumption DEF FrameIds
<1> QED
  BY <1>1, <1>2, <1>3

\* The set of busy threads is finite, and counting it sees one thread come or go.
LEMMA BusyCount ==
  /\ IsFiniteSet(Threads)
  /\ \A S \in SUBSET Threads :
       /\ IsFiniteSet(S)
       /\ Cardinality(S) \in Nat
       /\ Cardinality(S) = 0 <=> S = {}
       /\ \A i \in Threads : /\ i \notin S => Cardinality(S \cup {i}) = Cardinality(S) + 1
                             /\ i \in S => Cardinality(S \ {i}) = Cardinality(S) - 1
<1>1. IsFiniteSet(Threads)
  BY ConstantFacts, FS_Interval DEF Threads
<1>2. ASSUME NEW S \in SUBSET Threads
      PROVE  /\ IsFiniteSet(S)
             /\ Cardinality(S) \in Nat
             /\ Cardinality(S) = 0 <=> S = {}
  BY <1>1, FS_Subset, FS_CardinalityType, FS_EmptySet
<1>3. ASSUME NEW S \in SUBSET Threads, NEW i \in Threads
      PROVE  /\ i \notin S => Cardinality(S \cup {i}) = Cardinality(S) + 1
             /\ i \in S => Cardinality(S \ {i}) = Cardinality(S) - 1
  BY <1>2, FS_AddElement, FS_RemoveElement
<1> QED
  BY <1>1, <1>2, <1>3

\* Busy depends on the threads' program counters only.
LEMMA BusyUnchanged == w_pc' = w_pc => Busy' = Busy
BY DEF Busy

----------------------------------------------------------------------------
(* The shared flags and the control server.                                *)

\* Every step of the process keeps the shared state and the server typed.
LEMMA FlagsTyped ==
  ASSUME StateTypeOK, ServerTypeOK, frame_counter \in FrameIds, [Next]_vars
  PROVE  StateTypeOK' /\ ServerTypeOK'
<1> USE DEF StateTypeOK, ServerTypeOK, ctrlState, switches, lifecycle
<1>1. ASSUME MainStep, UNCHANGED server PROVE StateTypeOK' /\ ServerTypeOK'
  <2>1. ServerTypeOK'
    BY <1>1 DEF server
  <2>2. StateTypeOK'
    BY <1>1, ConstantFacts
    DEF MainStep, MainAcquire, MainSubmit, MainStamp, MainCheckShutdown,
        MainCheckBlackout, MainPop, MainPublish, MainRelease, MainResetHandshake,
        MainDrain, MainDestroy, MainPublishBlackout, MainIdle, MainReinit, MainDup,
        MainDrainCamera, MainPublishResume, MainClearBlackout, MainClearResume,
        MainStopPublisher, MainSentinels, MainJoinWorkers, MainCloseCamera,
        MainOutputDeinit, MainPoolDeinit, MainFinalDestroy
  <2> QED
    BY <2>1, <2>2
<1>2. ASSUME MainStopServer \/ MainJoinServer \/ Reader PROVE StateTypeOK' /\ ServerTypeOK'
  <2>1. CASE MainStopServer
    BY <2>1 DEF MainStopServer, ServerStop
  <2>2. CASE MainJoinServer
    BY <2>2 DEF MainJoinServer, server
  <2>3. CASE Reader
    BY <2>3 DEF Reader, PublisherUnblocked, server
  <2> QED
    BY <1>2, <2>1, <2>2, <2>3
<1>3. ASSUME NEW i \in Threads, WorkerStep(i), UNCHANGED server
      PROVE  StateTypeOK' /\ ServerTypeOK'
  BY <1>3 DEF WorkerStep, WorkerPop, WorkerCheck, WorkerInfer, WorkerPush, server
<1>4. ASSUME CtlStep PROVE StateTypeOK' /\ ServerTypeOK'
  <2> USE DEF Answer, Handling, CtlGoto, Connection, CtlPcs
  <2>1. CASE CtlLoop \/ CtlCallAccept \/ CtlConn
    BY <2>1 DEF CtlLoop, CtlCallAccept, CtlConn
  <2>2. CASE CtlSend
    <3>1. npu_granted' \in BOOLEAN
      BY <2>2, Zenon DEF CtlSend
    <3> QED
      BY <2>2, <3>1 DEF CtlSend
  <2>3. CASE DispatchPause
    BY <2>3 DEF DispatchPause
  <2>4. CASE DispatchResumeYolo
    BY <2>4 DEF DispatchResumeYolo
  <2>5. CASE DispatchGetStatus
    BY <2>5 DEF DispatchGetStatus
  <2>6. CASE DispatchSetDump
    BY <2>6 DEF DispatchSetDump
  <2>7. CASE DispatchShutdown
    BY <2>7 DEF DispatchShutdown
  <2>8. CASE DispatchUnknown
    BY <2>8 DEF DispatchUnknown
  <2>9. CASE DispatchBlackout
    BY <2>9 DEF DispatchBlackout
  <2>10. CASE BlackoutRequest
    BY <2>10 DEF BlackoutRequest
  <2>11. CASE BlackoutConfirmed \/ BlackoutTimeout \/ DispatchResume
    BY <2>11 DEF BlackoutConfirmed, BlackoutTimeout, DispatchResume
  <2>12. CASE ResumeRequest
    BY <2>12 DEF ResumeRequest
  <2>13. CASE ResumeConfirmed
    BY <2>13 DEF ResumeConfirmed
  <2>14. CASE ResumeTimeout
    BY <2>14 DEF ResumeTimeout
  <2> QED
    BY <1>4, <2>1, <2>2, <2>3, <2>4, <2>5, <2>6, <2>7, <2>8,
       <2>9, <2>10, <2>11, <2>12, <2>13, <2>14 DEF CtlStep
<1>5. ASSUME ClientStep PROVE StateTypeOK' /\ ServerTypeOK'
  <2> USE DEF CtlGoto, Connection, CtlPcs
  <2>1. CASE CtlAccept \/ CtlAcceptFails \/ CtlEof
    BY <2>1 DEF CtlAccept, CtlAcceptFails, CtlEof
  <2>2. ASSUME NEW c \in Commands, CtlRecv(c) PROVE StateTypeOK' /\ ServerTypeOK'
    <3>1. npu_granted' \in BOOLEAN
      BY <2>2, Zenon DEF CtlRecv
    <3>2. c \in AllCommands
      BY ServerAssumption
    <3> QED
      BY <2>2, <3>1, <3>2 DEF CtlRecv
  <2> QED
    BY <1>5, <2>1, <2>2 DEF ClientStep
<1>6. ASSUME UNCHANGED vars PROVE StateTypeOK' /\ ServerTypeOK'
  BY <1>6 DEF vars, server
<1> QED
  BY <1>1, <1>2, <1>3, <1>4, <1>5, <1>6 DEF Next, Main, Worker, Listener, Client, Reader

----------------------------------------------------------------------------
(* The pipeline.                                                           *)

\* Steps that move the main thread and leave the rest of the pipeline alone.
LEMMA PcMoveKeepsPInv ==
  ASSUME PInv, UNCHANGED allButPc,
         \/ MainCheckShutdown \/ MainCheckBlackout \/ MainPublish
         \/ MainResetHandshake \/ MainPublishBlackout \/ MainIdle
         \/ MainDrainCamera \/ MainPublishResume \/ MainClearBlackout
         \/ MainJoinWorkers \/ MainCloseCamera \/ MainOutputDeinit
         \/ MainStopServer \/ MainJoinServer
  PROVE  PInv'
<1>1. /\ Busy' = Busy /\ in_flight' = in_flight /\ infer_q' = infer_q
      /\ result_q' = result_q /\ todo' = todo /\ cur' = cur
      /\ w_pc' = w_pc /\ w_job' = w_job /\ pool_live' = pool_live
  BY BusyUnchanged DEF allButPc, queues, workers, pool
<1>2. <<main_pc, main_pc'>> \in
        {<<"check_shutdown", "stop_ctrl">>, <<"check_shutdown", "check_blackout">>,
         <<"check_blackout", "reset_handshake">>, <<"check_blackout", "pop">>,
         <<"publish", "release">>, <<"reset_handshake", "drain">>,
         <<"publish_blackout", "idle">>, <<"idle", "stop_ctrl">>, <<"idle", "reinit">>,
         <<"drain_camera", "publish_resume">>, <<"drain_camera", "exit_failure">>,
         <<"publish_resume", "clear_blackout">>, <<"clear_blackout", "clear_resume">>,
         <<"join_workers", "close_camera">>, <<"close_camera", "output_deinit">>,
         <<"close_camera", "exit_failure">>, <<"output_deinit", "pool_deinit">>,
         <<"output_deinit", "output_blocked">>,
         <<"stop_ctrl", "join_ctrl">>, <<"join_ctrl", "stop_pub">>}
  BY DEF MainCheckShutdown, MainCheckBlackout, MainPublish, MainResetHandshake,
         MainPublishBlackout, MainIdle, MainDrainCamera, MainPublishResume,
         MainClearBlackout, MainJoinWorkers, MainCloseCamera, MainOutputDeinit,
         MainStopServer, MainJoinServer, MainGoto, CameraExit
<1>3. main_pc = "join_workers" => AllExited
  BY DEF MainCheckShutdown, MainCheckBlackout, MainPublish, MainResetHandshake,
         MainPublishBlackout, MainIdle, MainDrainCamera, MainPublishResume,
         MainClearBlackout, MainJoinWorkers, MainCloseCamera, MainOutputDeinit,
         MainStopServer, MainJoinServer, MainGoto, CameraExit, AllExited
<1>4. PipelineTypeOK'
  BY <1>1, <1>2 DEF PInv, PipelineTypeOK, MainPcs, allButPc, pool, npu
<1>5. TodoInv' /\ HandsInv' /\ RunningInv' /\ DrainedInv' /\ PoolInv'
  BY <1>1, <1>2, <1>3 DEF PInv, TodoInv, HandsInv, RunningInv, DrainedInv, PoolInv,
     TeardownPcs, DrainedPcs, AllExited
<1>6. JobsCounted'
  BY <1>1, <1>2 DEF PInv, JobsCounted, Uncounted
<1> QED
  BY <1>4, <1>5, <1>6 DEF PInv

\* Steps of the main thread that change the pool, the queues or the counters.
LEMMA MainKeepsPInv ==
  ASSUME PInv,
         \/ MainAcquire \/ MainSubmit \/ MainStamp \/ MainPop \/ MainRelease \/ MainDrain
         \/ MainClearResume \/ MainSentinels \/ MainStopPublisher \/ PublisherUnblocked
  PROVE  PInv'
<1> USE DEF MainGoto, CameraExit, pool, queues, workers
<1>1. ASSUME MainAcquire PROVE PInv'
  <2>1. /\ Busy' = Busy
        /\ <<main_pc, main_pc'>> \in {<<"acquire", "submit">>, <<"acquire", "exit_failure">>}
        /\ free_list' \subseteq free_list
        /\ cur' \in Jobs \cup {Nothing} /\ (main_pc' = "submit" => cur' \in Jobs)
    BY <1>1, BusyUnchanged DEF MainAcquire, PInv, PipelineTypeOK, Jobs
  <2>2. PipelineTypeOK'
    BY <1>1, <2>1 DEF MainAcquire, PInv, PipelineTypeOK, MainPcs, npu
  <2>3. TodoInv' /\ HandsInv' /\ RunningInv' /\ DrainedInv' /\ PoolInv'
    BY <1>1, <2>1 DEF MainAcquire, PInv, TodoInv, HandsInv, RunningInv, DrainedInv,
       PoolInv, TeardownPcs, DrainedPcs, AllExited
  <2>4. JobsCounted'
    BY <1>1, <2>1 DEF MainAcquire, PInv, JobsCounted, Uncounted
  <2> QED
    BY <2>2, <2>3, <2>4 DEF PInv
<1>2. ASSUME MainSubmit PROVE PInv'
  <2>1. /\ Busy' = Busy /\ cur \in Jobs /\ infer_q \in Seq(Jobs)
        /\ main_pc = "submit" /\ main_pc' = "stamp"
        /\ infer_q' = Append(infer_q, cur) /\ cur' = Nothing
    BY <1>2, BusyUnchanged DEF MainSubmit, PInv, HandsInv, RunningInv, TeardownPcs
  <2>2. infer_q' \in Seq(Jobs) /\ Len(infer_q') = Len(infer_q) + 1
    BY <2>1, AppendProperties
  <2>3. infer_q' \in Seq(Jobs \cup {Sentinel})
    BY <2>2, SeqMonotonic
  <2>4. PipelineTypeOK'
    BY <1>2, <2>1, <2>3, ConstantFacts DEF MainSubmit, PInv, PipelineTypeOK, MainPcs, npu
  <2>5. TodoInv' /\ HandsInv' /\ RunningInv' /\ DrainedInv' /\ PoolInv'
    BY <1>2, <2>1, <2>2 DEF MainSubmit, PInv, TodoInv, HandsInv, RunningInv, DrainedInv,
       PoolInv, TeardownPcs, DrainedPcs, AllExited
  <2>6. JobsCounted'
    <3>1. Len(infer_q) \in Nat /\ Len(result_q) \in Nat /\ Cardinality(Busy) \in Nat
      BY LenProperties, BusyCount DEF PInv, PipelineTypeOK, Busy
    <3> QED
      BY <1>2, <2>1, <2>2, <3>1 DEF MainSubmit, PInv, PipelineTypeOK, JobsCounted, Uncounted
  <2> QED
    BY <2>4, <2>5, <2>6 DEF PInv
<1>3. ASSUME MainStamp PROVE PInv'
  <2>1. /\ Busy' = Busy /\ todo > 0 /\ todo' = todo - 1 /\ in_flight' = in_flight + 1
        /\ main_pc = "stamp"
        /\ main_pc' = IF todo > 1 THEN "acquire" ELSE "check_shutdown"
    BY <1>3, BusyUnchanged DEF MainStamp, PInv, TodoInv
  <2>2. PipelineTypeOK'
    BY <1>3, <2>1, ConstantFacts DEF MainStamp, PInv, PipelineTypeOK, MainPcs, npu
  <2>3. TodoInv' /\ HandsInv' /\ RunningInv' /\ DrainedInv' /\ PoolInv'
    BY <1>3, <2>1 DEF MainStamp, PInv, TodoInv, HandsInv, RunningInv, DrainedInv,
       PoolInv, TeardownPcs, DrainedPcs, AllExited, PipelineTypeOK
  <2>4. JobsCounted'
    BY <1>3, <2>1 DEF MainStamp, PInv, PipelineTypeOK, JobsCounted, Uncounted
  <2> QED
    BY <2>2, <2>3, <2>4 DEF PInv
<1>4. ASSUME MainPop PROVE PInv'
  <2>1. /\ Busy' = Busy /\ result_q # <<>> /\ result_q \in Seq(Jobs)
        /\ main_pc = "pop" /\ main_pc' = "publish"
        /\ cur' = Head(result_q) /\ result_q' = Tail(result_q) /\ in_flight' = in_flight - 1
    BY <1>4, BusyUnchanged DEF MainPop, PInv, PipelineTypeOK
  <2>2. cur' \in Jobs /\ result_q' \in Seq(Jobs) /\ Len(result_q') = Len(result_q) - 1
    BY <2>1, HeadTailProperties
  <2>3. /\ Len(infer_q) \in Nat /\ Len(result_q) \in Nat /\ Len(result_q) > 0
        /\ Cardinality(Busy) \in Nat
    BY <2>1, LenProperties, EmptySeq, BusyCount DEF PInv, PipelineTypeOK, Busy
  <2>4. in_flight > 0 /\ in_flight' \in Nat
    BY <2>1, <2>3 DEF PInv, PipelineTypeOK, JobsCounted, Uncounted
  <2>5. PipelineTypeOK'
    BY <1>4, <2>1, <2>2, <2>4 DEF MainPop, PInv, PipelineTypeOK, MainPcs, npu
  <2>6. TodoInv' /\ HandsInv' /\ RunningInv' /\ DrainedInv' /\ PoolInv'
    BY <1>4, <2>1, <2>2 DEF MainPop, PInv, TodoInv, HandsInv, RunningInv, DrainedInv,
       PoolInv, TeardownPcs, DrainedPcs, AllExited
  <2>7. JobsCounted'
    BY <1>4, <2>1, <2>2, <2>3 DEF MainPop, PInv, PipelineTypeOK, JobsCounted, Uncounted
  <2> QED
    BY <2>5, <2>6, <2>7 DEF PInv
<1>5. ASSUME MainRelease PROVE PInv'
  <2>1. /\ Busy' = Busy /\ cur.buf \in Bufs
        /\ main_pc = "release" /\ main_pc' = "acquire"
    BY <1>5, BusyUnchanged DEF MainRelease, PInv, HandsInv, Jobs
  <2>2. PipelineTypeOK'
    BY <1>5, <2>1, ConstantFacts DEF MainRelease, PInv, PipelineTypeOK, MainPcs, npu
  <2>3. TodoInv' /\ HandsInv' /\ RunningInv' /\ DrainedInv' /\ PoolInv'
    BY <1>5, <2>1 DEF MainRelease, PInv, TodoInv, HandsInv, RunningInv, DrainedInv,
       PoolInv, TeardownPcs, DrainedPcs, AllExited
  <2>4. JobsCounted'
    BY <1>5, <2>1 DEF MainRelease, PInv, JobsCounted, Uncounted
  <2> QED
    BY <2>2, <2>3, <2>4 DEF PInv
<1>6. ASSUME MainDrain PROVE PInv'
  <2>1. Busy' = Busy /\ main_pc = "drain"
    BY <1>6, BusyUnchanged DEF MainDrain
  <2>2. CASE /\ in_flight > 0 /\ result_q # <<>> /\ main_pc' = "drain"
             /\ free_list' = free_list \cup {Head(result_q).buf}
             /\ result_q' = Tail(result_q) /\ in_flight' = in_flight - 1
    <3>1. /\ Head(result_q) \in Jobs /\ result_q' \in Seq(Jobs)
          /\ Len(result_q') = Len(result_q) - 1
      BY <2>2, HeadTailProperties DEF PInv, PipelineTypeOK
    <3>2. Len(infer_q) \in Nat /\ Len(result_q) \in Nat /\ Cardinality(Busy) \in Nat
      BY LenProperties, BusyCount DEF PInv, PipelineTypeOK, Busy
    <3>3. PipelineTypeOK'
      BY <1>6, <2>1, <2>2, <3>1 DEF MainDrain, PInv, PipelineTypeOK, MainPcs, npu, Jobs
    <3>4. TodoInv' /\ HandsInv' /\ RunningInv' /\ DrainedInv' /\ PoolInv'
      BY <1>6, <2>1, <2>2 DEF MainDrain, PInv, TodoInv, HandsInv, RunningInv, DrainedInv,
         PoolInv, TeardownPcs, DrainedPcs, AllExited
    <3>5. JobsCounted'
      BY <1>6, <2>1, <2>2, <3>1, <3>2
      DEF MainDrain, PInv, PipelineTypeOK, JobsCounted, Uncounted
    <3> QED
      BY <3>3, <3>4, <3>5 DEF PInv
  <2>3. CASE /\ in_flight = 0 /\ main_pc' = "destroy"
             /\ UNCHANGED <<free_list, result_q, in_flight>>
    <3>1. PipelineTypeOK'
      BY <1>6, <2>1, <2>3 DEF MainDrain, PInv, PipelineTypeOK, MainPcs, npu
    <3>2. TodoInv' /\ HandsInv' /\ RunningInv' /\ DrainedInv' /\ PoolInv'
      BY <1>6, <2>1, <2>3 DEF MainDrain, PInv, TodoInv, HandsInv, RunningInv, DrainedInv,
         PoolInv, TeardownPcs, DrainedPcs, AllExited
    <3>3. JobsCounted'
      BY <1>6, <2>1, <2>3 DEF MainDrain, PInv, JobsCounted, Uncounted
    <3> QED
      BY <3>1, <3>2, <3>3 DEF PInv
  <2> QED
    BY <1>6, <2>2, <2>3 DEF MainDrain
<1>7. ASSUME MainClearResume PROVE PInv'
  <2>1. Busy' = Busy /\ main_pc = "clear_resume" /\ main_pc' = "acquire"
    BY <1>7, BusyUnchanged DEF MainClearResume
  <2>2. PipelineTypeOK'
    BY <1>7, <2>1, ConstantFacts DEF MainClearResume, PInv, PipelineTypeOK, MainPcs, npu
  <2>3. TodoInv' /\ HandsInv' /\ RunningInv' /\ DrainedInv' /\ PoolInv'
    BY <1>7, <2>1, ConstantFacts DEF MainClearResume, PInv, TodoInv, HandsInv, RunningInv,
       DrainedInv, PoolInv, TeardownPcs, DrainedPcs, AllExited
  <2>4. JobsCounted'
    BY <1>7, <2>1 DEF MainClearResume, PInv, JobsCounted, Uncounted
  <2> QED
    BY <2>2, <2>3, <2>4 DEF PInv
<1>8. ASSUME MainSentinels PROVE PInv'
  <2>1. /\ Busy' = Busy /\ todo > 0 /\ todo' = todo - 1
        /\ main_pc = "sentinels"
        /\ main_pc' = IF todo > 1 THEN "sentinels" ELSE "join_workers"
    BY <1>8, BusyUnchanged DEF MainSentinels, PInv, TodoInv
  <2>2. infer_q' \in Seq(Jobs \cup {Sentinel})
    BY <1>8, AppendProperties DEF MainSentinels, PInv, PipelineTypeOK
  <2>3. PipelineTypeOK'
    BY <1>8, <2>1, <2>2, ConstantFacts DEF MainSentinels, PInv, PipelineTypeOK, MainPcs, npu
  <2>4. TodoInv' /\ HandsInv' /\ RunningInv' /\ DrainedInv' /\ PoolInv'
    BY <1>8, <2>1 DEF MainSentinels, PInv, PipelineTypeOK, TodoInv, HandsInv, RunningInv,
       DrainedInv, PoolInv, TeardownPcs, DrainedPcs, AllExited
  <2>5. JobsCounted'
    BY <2>1 DEF JobsCounted
  <2> QED
    BY <2>3, <2>4, <2>5 DEF PInv
<1>9. ASSUME MainStopPublisher \/ PublisherUnblocked PROVE PInv'
  <2>1. /\ Busy' = Busy /\ main_pc \in {"stop_pub", "pub_blocked"}
        /\ \/ main_pc' = "sentinels" /\ todo' = N_THREADS
           \/ main_pc' = "pub_blocked" /\ todo' = todo
        /\ UNCHANGED <<cur, in_flight, frame_counter, pool, queues, workers, npu>>
    BY <1>9, BusyUnchanged DEF MainStopPublisher, PublisherUnblocked
  <2>2. PipelineTypeOK'
    BY <2>1, ConstantFacts DEF PInv, PipelineTypeOK, MainPcs, npu
  <2>3. TodoInv' /\ HandsInv' /\ RunningInv' /\ DrainedInv' /\ PoolInv'
    BY <2>1, ConstantFacts DEF PInv, TodoInv, HandsInv, RunningInv,
       DrainedInv, PoolInv, TeardownPcs, DrainedPcs, AllExited
  <2>4. JobsCounted'
    BY <2>1 DEF PInv, JobsCounted, Uncounted
  <2> QED
    BY <2>2, <2>3, <2>4 DEF PInv
<1> QED
  BY <1>1, <1>2, <1>3, <1>4, <1>5, <1>6, <1>7, <1>8, <1>9

\* Steps of the main thread that create or destroy contexts or free the pool.
LEMMA ResourceStepKeepsPInv ==
  ASSUME PInv,
         MainDestroy \/ MainReinit \/ MainDup \/ MainPoolDeinit \/ MainFinalDestroy
  PROVE  PInv'
<1> USE DEF MainGoto, pool, queues, workers
<1>1. /\ Busy' = Busy /\ in_flight' = in_flight /\ infer_q' = infer_q
      /\ result_q' = result_q /\ todo' = todo /\ cur' = cur
      /\ w_pc' = w_pc /\ w_job' = w_job /\ frame_counter' = frame_counter
      /\ free_list' = free_list
      /\ pool_live' = IF main_pc = "pool_deinit" THEN FALSE ELSE pool_live
  BY BusyUnchanged DEF MainDestroy, MainReinit, MainDup, MainPoolDeinit, MainFinalDestroy
<1>2. <<main_pc, main_pc'>> \in
        {<<"destroy", "publish_blackout">>, <<"reinit", "dup">>, <<"reinit", "stop_ctrl">>,
         <<"dup", "drain_camera">>, <<"pool_deinit", "final_destroy">>,
         <<"final_destroy", "done">>}
  BY DEF MainDestroy, MainReinit, MainDup, MainPoolDeinit, MainFinalDestroy
<1>3. /\ ctxs' \in [Threads -> {0, 1}] /\ tctx' \in [Threads -> {0, 1}]
      /\ live' \subseteq Handles /\ fds_open' \in BOOLEAN /\ opendir_failed' \in BOOLEAN
  <2> USE DEF PInv, PipelineTypeOK, npu, Handle, Handles
  <2>1. CASE MainDestroy
    <3>1. fds_open' \in BOOLEAN /\ opendir_failed' \in BOOLEAN
      <4>1. CASE fds_open' = FALSE /\ opendir_failed' = FALSE
        BY <4>1
      <4>2. CASE fds_open' = fds_open /\ opendir_failed' = TRUE
        BY <4>2
      <4> QED
        BY <2>1, <4>1, <4>2 DEF MainDestroy, release_rknpu_fds
    <3>2. UNCHANGED <<ctxs, tctx>> /\ live' \subseteq live
      BY <2>1 DEF MainDestroy
    <3> QED
      BY <3>1, <3>2
  <2>2. CASE MainReinit
    <3>1. opendir_failed' = opendir_failed /\ tctx' = tctx
      BY <2>2 DEF MainReinit
    <3>2. CASE main_pc' = "dup"
      <4>1. ctxs' \in [Threads -> {0, 1}] /\ fds_open' = TRUE
        BY <2>2, <3>2 DEF MainReinit
      <4>2. live' \subseteq Handles
        BY <2>2, <3>2, <4>1, ConstantFacts DEF MainReinit
      <4> QED
        BY <3>1, <4>1, <4>2
    <3>3. CASE main_pc' = "stop_ctrl"
      BY <2>2, <3>1, <3>3 DEF MainReinit
    <3> QED
      BY <2>2, <3>2, <3>3 DEF MainReinit
  <2>3. CASE MainDup
    <3>1. /\ ctxs' \in [Threads -> {0, 1}] /\ tctx' = ctxs'
          /\ fds_open' = fds_open /\ opendir_failed' = opendir_failed
      BY <2>3 DEF MainDup
    <3>2. live' \subseteq Handles
      BY <2>3, <3>1 DEF MainDup
    <3> QED
      BY <3>1, <3>2
  <2>4. CASE MainPoolDeinit
    BY <2>4 DEF MainPoolDeinit
  <2>5. CASE MainFinalDestroy
    BY <2>5 DEF MainFinalDestroy
  <2> QED
    BY <2>1, <2>2, <2>3, <2>4, <2>5
<1>4. PipelineTypeOK'
  BY <1>1, <1>2, <1>3 DEF PInv, PipelineTypeOK, MainPcs
<1>5. TodoInv' /\ HandsInv' /\ RunningInv' /\ DrainedInv' /\ PoolInv'
  BY <1>1, <1>2 DEF PInv, TodoInv, HandsInv, RunningInv, DrainedInv, PoolInv,
     TeardownPcs, DrainedPcs, AllExited
<1>6. JobsCounted'
  BY <1>1, <1>2 DEF PInv, JobsCounted, Uncounted
<1> QED
  BY <1>4, <1>5, <1>6 DEF PInv

\* Steps of an inference thread.
LEMMA WorkerKeepsPInv ==
  ASSUME PInv, NEW i \in Threads, WorkerStep(i)
  PROVE  PInv'
<1> USE DEF WorkerGoto, mainVars, pool, queues, npu
<1>1. /\ w_pc[i] \in WorkerPcs /\ Busy \in SUBSET Threads
      /\ Cardinality(Busy) \in Nat /\ Len(infer_q) \in Nat /\ Len(result_q) \in Nat
  BY BusyCount, LenProperties DEF PInv, PipelineTypeOK, Busy
<1>2. CASE WorkerPop(i)
  <2>1. /\ w_pc[i] = "pop" /\ i \notin Busy
        /\ infer_q # <<>> /\ infer_q' = Tail(infer_q)
        /\ w_job' = [w_job EXCEPT ![i] = Head(infer_q)]
        /\ w_pc' = [w_pc EXCEPT ![i] = IF Head(infer_q).buf = NoBuf THEN "exited" ELSE "check"]
        /\ UNCHANGED <<mainVars, pool, result_q, npu>>
    BY <1>2 DEF WorkerPop, Busy
  <2>2. /\ Head(infer_q) \in Jobs \cup {Sentinel}
        /\ infer_q' \in Seq(Jobs \cup {Sentinel}) /\ Len(infer_q') = Len(infer_q) - 1
    BY <2>1, HeadTailProperties DEF PInv, PipelineTypeOK
  <2>3. infer_q \in Seq(Jobs) =>
          Head(infer_q) \in Jobs /\ infer_q' \in Seq(Jobs)
    BY <2>1, HeadTailProperties
  <2>4. Head(infer_q) \in Jobs <=> Head(infer_q).buf # NoBuf
    BY <2>2, PipelineAssumption DEF Jobs, Sentinel, Nothing
  <2>5. PipelineTypeOK'
    BY <2>1, <2>2 DEF PInv, PipelineTypeOK, WorkerPcs, Sentinel
  <2>6. TodoInv' /\ HandsInv' /\ RunningInv' /\ DrainedInv'
    BY <2>1, <2>3, <2>4 DEF PInv, PipelineTypeOK, TodoInv, HandsInv, RunningInv, DrainedInv,
       TeardownPcs, DrainedPcs
  <2>7. PoolInv'
    BY <2>1 DEF PInv, PoolInv, AllExited, PipelineTypeOK
  <2>8. JobsCounted'
    <3>1. SUFFICES ASSUME main_pc \notin TeardownPcs
                   PROVE  in_flight + Uncounted = Len(infer_q') + Cardinality(Busy') + Len(result_q)
      BY <2>1 DEF JobsCounted, Uncounted, TeardownPcs
    <3>2. Busy' = Busy \cup {i}
      BY <2>1, <2>3, <2>4, <3>1 DEF PInv, PipelineTypeOK, RunningInv, Busy
    <3>3. Cardinality(Busy') = Cardinality(Busy) + 1
      BY <1>1, <2>1, <3>2, BusyCount
    <3> QED
      BY <1>1, <2>2, <3>1, <3>3 DEF PInv, PipelineTypeOK, JobsCounted, TeardownPcs
  <2> QED
    BY <2>5, <2>6, <2>7, <2>8 DEF PInv
<1>3. CASE WorkerCheck(i) \/ WorkerInfer(i)
  <2>1. /\ w_pc[i] \in {"check", "rknn"}
        /\ \E pc \in {"rknn", "push"} : w_pc' = [w_pc EXCEPT ![i] = pc]
        /\ UNCHANGED <<mainVars, pool, queues, w_job, npu>>
    BY <1>3 DEF WorkerCheck, WorkerInfer
  <2>2. Busy' = Busy
    BY <2>1 DEF Busy, PInv, PipelineTypeOK
  <2>3. PipelineTypeOK'
    BY <2>1 DEF PInv, PipelineTypeOK, WorkerPcs
  <2>4. TodoInv' /\ HandsInv' /\ RunningInv' /\ DrainedInv' /\ PoolInv'
    BY <2>1 DEF PInv, PipelineTypeOK, TodoInv, HandsInv, RunningInv, DrainedInv, PoolInv,
       AllExited
  <2>5. JobsCounted'
    BY <2>1, <2>2 DEF PInv, JobsCounted, Uncounted
  <2> QED
    BY <2>3, <2>4, <2>5 DEF PInv
<1>4. CASE WorkerPush(i)
  <2>1. /\ w_pc[i] = "push" /\ i \in Busy /\ w_job[i] \in Jobs
        /\ w_pc' = [w_pc EXCEPT ![i] = "pop"]
        /\ result_q' = Append(result_q, w_job[i])
        /\ w_job' = [w_job EXCEPT ![i] = Nothing]
        /\ UNCHANGED <<mainVars, pool, infer_q, npu>>
    BY <1>4 DEF WorkerPush, Busy, PInv, HandsInv
  <2>2. result_q' \in Seq(Jobs) /\ Len(result_q') = Len(result_q) + 1
    BY <2>1, AppendProperties DEF PInv, PipelineTypeOK
  <2>3. Cardinality(Busy') = Cardinality(Busy) - 1
    <3>1. Busy' = Busy \ {i}
      BY <2>1 DEF Busy, PInv, PipelineTypeOK
    <3> QED
      BY <1>1, <2>1, <3>1, BusyCount
  <2>4. PipelineTypeOK'
    BY <2>1, <2>2 DEF PInv, PipelineTypeOK, WorkerPcs
  <2>5. TodoInv' /\ HandsInv' /\ RunningInv' /\ DrainedInv' /\ PoolInv'
    BY <2>1 DEF PInv, PipelineTypeOK, TodoInv, HandsInv, RunningInv, DrainedInv, PoolInv,
       AllExited
  <2>6. JobsCounted'
    BY <1>1, <2>1, <2>2, <2>3 DEF PInv, PipelineTypeOK, JobsCounted, Uncounted
  <2> QED
    BY <2>4, <2>5, <2>6 DEF PInv
<1> QED
  BY <1>2, <1>3, <1>4 DEF WorkerStep

----------------------------------------------------------------------------
(* Type correctness and exact accounting.                                  *)

\* IInv holds in every state of the process.
THEOREM InductiveInvariant == Spec => []IInv
<1>1. Init => IInv
  <2> SUFFICES ASSUME Init PROVE IInv
    OBVIOUS
  <2> USE DEF Init, StateInit, ServerStart, PipelineInit
  <2>1. StateTypeOK
    BY ConstantFacts DEF StateTypeOK
  <2>2. ServerTypeOK
    BY DEF ServerTypeOK, CtlPcs
  <2>3. PipelineTypeOK
    BY ConstantFacts, EmptySeq DEF PipelineTypeOK, MainPcs, WorkerPcs, Handle, Handles
  <2>4. JobsCounted
    <3>1. Busy = {}
      BY DEF Busy
    <3> QED
      BY <3>1, BusyCount DEF JobsCounted, Uncounted
  <2>5. TodoInv /\ HandsInv /\ RunningInv /\ DrainedInv /\ PoolInv
    BY ConstantFacts, EmptySeq DEF TodoInv, HandsInv, RunningInv, DrainedInv, PoolInv,
       TeardownPcs, DrainedPcs
  <2> QED
    BY <2>1, <2>2, <2>3, <2>4, <2>5 DEF IInv, PInv
<1>2. IInv /\ [Next]_vars => IInv'
  <2> SUFFICES ASSUME IInv, [Next]_vars PROVE IInv'
    OBVIOUS
  <2>1. StateTypeOK' /\ ServerTypeOK'
    BY FlagsTyped DEF IInv, PInv, PipelineTypeOK
  <2>2. PInv'
    <3> USE DEF IInv
    <3>1. ASSUME MainStep PROVE PInv'
      BY <3>1, PcMoveKeepsPInv, MainKeepsPInv, ResourceStepKeepsPInv
      DEF MainStep, MainCheckShutdown, MainCheckBlackout, MainPublish,
          MainResetHandshake, MainPublishBlackout, MainIdle, MainDrainCamera,
          MainPublishResume, MainClearBlackout, MainJoinWorkers, MainCloseCamera,
          MainOutputDeinit
    <3>2. ASSUME MainStopServer \/ MainJoinServer \/ Reader PROVE PInv'
      BY <3>2, PcMoveKeepsPInv, MainKeepsPInv DEF MainStopServer, MainJoinServer, Reader
    <3>3. ASSUME NEW i \in Threads, WorkerStep(i) PROVE PInv'
      BY <3>3, WorkerKeepsPInv
    <3>4. ASSUME UNCHANGED pipeline PROVE PInv'
      BY <3>4, BusyUnchanged
      DEF pipeline, mainVars, pool, queues, workers, npu, PInv, PipelineTypeOK, TodoInv,
          HandsInv, JobsCounted, RunningInv, DrainedInv, PoolInv, Uncounted, AllExited
    <3> QED
      BY <3>1, <3>2, <3>3, <3>4 DEF Next, Main, Worker, Listener, Client, Reader, vars
  <2> QED
    BY <2>1, <2>2 DEF IInv
<1> QED
  BY <1>1, <1>2, PTL DEF Spec

\* Every variable keeps its type: in particular in_flight never goes below zero
\* and no slot number that is not one reaches the pool's free list.
THEOREM TypeCorrect == Spec => []TypeOK
<1>1. IInv => TypeOK
  BY DEF IInv, PInv, TypeOK
<1> QED
  BY <1>1, InductiveInvariant, PTL

----------------------------------------------------------------------------
(* The contexts during a blackout.                                         *)

\* At the end of the drain the queues are empty and the threads are idle.
LEMMA DrainedIsEmpty ==
  ASSUME PInv, main_pc \in DrainedPcs
  PROVE  /\ infer_q = <<>> /\ result_q = <<>> /\ Busy = {}
         /\ \A i \in Threads : w_pc[i] = "pop"
<1>1. /\ Len(infer_q) \in Nat /\ Len(result_q) \in Nat
      /\ Busy \in SUBSET Threads /\ Cardinality(Busy) \in Nat
  BY LenProperties, BusyCount DEF PInv, PipelineTypeOK, Busy
<1>2. Len(infer_q) + Cardinality(Busy) + Len(result_q) = 0
  BY DEF PInv, DrainedInv, DrainedPcs, JobsCounted, Uncounted
<1>3. Len(infer_q) = 0 /\ Len(result_q) = 0 /\ Cardinality(Busy) = 0
  BY <1>1, <1>2
<1>4. infer_q = <<>> /\ result_q = <<>>
  BY <1>3, EmptySeq DEF PInv, PipelineTypeOK
<1>5. Busy = {}
  BY <1>1, <1>3, BusyCount
<1>6. \A i \in Threads : w_pc[i] = "pop"
  BY <1>5 DEF PInv, PipelineTypeOK, RunningInv, DrainedPcs, TeardownPcs, Busy, WorkerPcs
<1> QED
  BY <1>4, <1>5, <1>6

\* The unlocked write of tctxs[i].ctx races with no inference thread.
THEOREM HandoverIsRaceFree == Spec => []ContextHandoverRaceFree
<1>1. IInv => ContextHandoverRaceFree
  BY DrainedIsEmpty DEF IInv, ContextHandoverRaceFree, DrainedPcs
<1> QED
  BY <1>1, InductiveInvariant, PTL

\* The initial contexts are those of the threads.
LEMMA ContextInvInit == Init => ContextInv
BY DEF Init, PipelineInit, ContextInv, CtxsLive, LitPcs

\* Every step keeps the contexts alive that a thread may still use, provided
\* rknn_dup_context does not fail where its result is not checked.
LEMMA ContextInvStep ==
  ASSUME ~DupMayFail, PInv, ContextInv, [Next]_vars
  PROVE  ContextInv'
<1> USE DEF MainGoto, CameraExit, ContextInv
<1>1. ASSUME UNCHANGED <<main_pc, infer_q, w_pc, ctxs, tctx, live>> PROVE ContextInv'
  BY <1>1, BusyUnchanged DEF CtxsLive, Quiet, AllExited, Handle
<1>2. ASSUME UNCHANGED <<infer_q, w_pc, ctxs, tctx, live>>,
             main_pc' \in LitPcs => main_pc \in LitPcs,
             main_pc' # "dup"
      PROVE  ContextInv'
  BY <1>2, BusyUnchanged DEF CtxsLive, Quiet, AllExited, Handle
<1>3. ASSUME MainStep PROVE ContextInv'
  <2> USE DEF pool, queues, workers, npu, allButPc, LitPcs
  <2>1. CASE MainAcquire \/ MainStamp \/ MainPop \/ MainRelease \/ MainDrain
    BY <1>2, <2>1 DEF MainAcquire, MainStamp, MainPop, MainRelease, MainDrain
  <2>2. CASE MainCheckShutdown \/ MainCheckBlackout \/ MainPublish
             \/ MainResetHandshake \/ MainPublishBlackout \/ MainIdle
    BY <1>2, <2>2 DEF MainCheckShutdown, MainCheckBlackout, MainPublish,
       MainResetHandshake, MainPublishBlackout, MainIdle
  <2>3. CASE MainDrainCamera \/ MainPublishResume \/ MainClearBlackout
             \/ MainClearResume \/ MainStopPublisher \/ MainJoinWorkers \/ MainCloseCamera
             \/ MainOutputDeinit \/ MainPoolDeinit
    BY <1>2, <2>3 DEF MainDrainCamera, MainPublishResume, MainClearBlackout,
       MainClearResume, MainStopPublisher, MainJoinWorkers, MainCloseCamera,
       MainOutputDeinit, MainPoolDeinit
  <2>4. CASE MainSubmit
    BY <2>4 DEF MainSubmit, CtxsLive, Handle
  <2>5. CASE MainDestroy
    <3>1. Quiet
      BY <2>5, DrainedIsEmpty DEF MainDestroy, DrainedPcs, Quiet
    <3>2. Quiet' /\ main_pc' = "publish_blackout"
      BY <2>5, <3>1, BusyUnchanged DEF MainDestroy, Quiet
    <3> QED
      BY <3>2
  <2>6. CASE MainReinit
    <3>1. Quiet
      BY <2>6, DrainedIsEmpty DEF MainReinit, DrainedPcs, Quiet
    <3>2. Quiet' /\ main_pc' \in {"dup", "stop_ctrl"}
      BY <2>6, <3>1, BusyUnchanged DEF MainReinit, Quiet
    <3>3. main_pc' = "dup" => Handle(ctxs, 0)' \in live'
      BY <2>6 DEF MainReinit, Handle
    <3> QED
      BY <3>2, <3>3
  <2>7. CASE MainDup
    <3>1. /\ main_pc = "dup" /\ main_pc' = "drain_camera"
          /\ ctxs' = [i \in Threads |-> IF i = 0 THEN ctxs[i] ELSE 1 - ctxs[i]]
          /\ live' = live \cup {Handle(ctxs', i) : i \in Threads \ {0}}
          /\ tctx' = ctxs'
      BY <2>7 DEF MainDup
    <3>2. Handle(ctxs', 0) \in live'
      BY <3>1, ConstantFacts DEF Handle
    <3>3. \A i \in Threads : Handle(ctxs', i) \in live'
      BY <3>1, <3>2
    <3>4. CtxsLive'
      BY <3>1, <3>3 DEF CtxsLive, Handle
    <3> QED
      BY <3>1, <3>4
  <2>8. CASE MainSentinels
    <3>1. Quiet => Quiet'
      BY <2>8, BusyUnchanged, AppendProperties DEF MainSentinels, Quiet, PInv, PipelineTypeOK
    <3>2. (CtxsLive => CtxsLive') /\ (AllExited => AllExited')
      BY <2>8 DEF MainSentinels, CtxsLive, AllExited, Handle
    <3> QED
      BY <2>8, <3>1, <3>2 DEF MainSentinels
  <2>9. CASE MainFinalDestroy
    BY <2>9 DEF MainFinalDestroy, PInv, PoolInv, AllExited
  <2> QED
    BY <1>3, <2>1, <2>2, <2>3, <2>4, <2>5, <2>6, <2>7, <2>8, <2>9 DEF MainStep
<1>4. ASSUME MainStopServer \/ MainJoinServer \/ Reader PROVE ContextInv'
  BY <1>2, <1>4 DEF MainStopServer, MainJoinServer, Reader, PublisherUnblocked, allButPc,
     queues, workers, npu, LitPcs
<1>5. ASSUME NEW i \in Threads, WorkerStep(i) PROVE ContextInv'
  <2>1. /\ UNCHANGED <<main_pc, ctxs, tctx, live>>
        /\ CtxsLive => CtxsLive'
    BY <1>5 DEF WorkerStep, WorkerPop, WorkerCheck, WorkerInfer, WorkerPush, mainVars, npu,
       CtxsLive, Handle
  <2>2. ~AllExited
    BY <1>5 DEF WorkerStep, WorkerPop, WorkerCheck, WorkerInfer, WorkerPush, WorkerGoto,
       AllExited
  <2>3. ASSUME Quiet PROVE Quiet'
    <3>1. WorkerPop(i)
      BY <1>5, <2>3 DEF WorkerStep, WorkerCheck, WorkerInfer, WorkerPush, WorkerGoto, Quiet, Busy
    <3>2. infer_q # <<>> /\ infer_q' = Tail(infer_q) /\ infer_q \in Seq(Jobs \cup {Sentinel})
      BY <3>1 DEF WorkerPop, PInv, PipelineTypeOK
    <3>3. Head(infer_q) = Sentinel /\ Len(infer_q) \in Nat \ {0}
      BY <2>3, <3>2, EmptySeq, LenProperties DEF Quiet
    <3>4. Busy' = {}
      BY <2>3, <3>1, <3>3 DEF WorkerPop, WorkerGoto, Quiet, Busy, Sentinel, Nothing, PInv,
         PipelineTypeOK
    <3>5. \A k \in DOMAIN infer_q' : infer_q'[k] = Sentinel
      BY <2>3, <3>2, <3>3, HeadTailProperties, LenProperties DEF Quiet
    <3> QED
      BY <3>4, <3>5 DEF Quiet
  <2> QED
    BY <2>1, <2>2, <2>3 DEF Handle
<1> QED
  BY <1>1, <1>3, <1>4, <1>5
  DEF Next, Main, Worker, Listener, Client, Reader, vars, pipeline, mainVars, queues, workers, npu

\* No inference thread calls RKNN with a context that has been destroyed, nor
\* reads a slot of a pool that has been freed: for any number of threads and any
\* sequence of commands, as long as rknn_dup_context succeeds after a blackout.
THEOREM NoThreadUsesDestroyedContext ==
  ASSUME ~DupMayFail
  PROVE  Spec => []NoUseAfterDestroy
<1>1. IInv /\ ContextInv => NoUseAfterDestroy
  BY DEF IInv, PInv, PoolInv, ContextInv, NoUseAfterDestroy, CtxsLive, Quiet, AllExited, Busy
<1>2. IInv /\ ContextInv /\ [Next]_vars => ContextInv'
  BY ContextInvStep DEF IInv
<1> QED
  BY <1>1, <1>2, ContextInvInit, InductiveInvariant, PTL DEF Spec

----------------------------------------------------------------------------
(* The slots of the pool.                                                  *)
(*                                                                         *)
(* A slot is in the free list, in a queue, or in the hands of one thread.  *)
(* The count Owners adds up five places, so a step that moves a slot takes *)
(* one from a term of the sum and adds it to another.                      *)

\* How often slot b occurs in a queue, in main's hand, in the free list.
Count(q, b) == Cardinality({k \in DOMAIN q : q[k].buf = b})
One(job, b) == IF job.buf = b THEN 1 ELSE 0
InHands(jobs, b) == Cardinality({i \in Threads : jobs[i].buf = b})
InPool(slots, b) == IF b \in slots THEN 1 ELSE 0

\* A thread that has no job to do, and main outside an iteration, hold nothing.
EmptyHandsInv ==
  /\ \A i \in Threads : w_pc[i] \in {"pop", "exited"} => w_job[i] = Nothing
  /\ main_pc \notin {"submit", "publish", "release"} => cur = Nothing

OwnersInv == \A b \in Bufs : Owners(b) = 1

\* The loops that capture frames never have more than N_THREADS jobs in flight.
RoomInv ==
  /\ in_flight <= N_THREADS
  /\ main_pc \in {"acquire", "submit", "stamp"} => in_flight + todo <= N_THREADS
  /\ main_pc \in {"publish", "release"} => in_flight < N_THREADS

SlotInv == EmptyHandsInv /\ OwnersInv /\ RoomInv

\* Owners is the sum of its five places.
LEMMA OwnersSum ==
  ASSUME NEW b \in Bufs
  PROVE  Owners(b) = Count(infer_q, b) + Count(result_q, b) + InHands(w_job, b)
                     + InPool(free_list, b) + One(cur, b)
BY DEF Owners, Count, InHands, InPool, One

\* A job at the end of a queue is one more occurrence of its slot.
LEMMA CountAppend ==
  ASSUME NEW S, NEW q \in Seq(S), NEW job \in S, NEW b
  PROVE  /\ Count(q, b) \in Nat
         /\ Count(Append(q, job), b) = Count(q, b) + One(job, b)
<1> DEFINE H == {k \in DOMAIN q : q[k].buf = b}
           n == Len(q) + 1
<1>1. n \in Nat /\ Len(q) \in Nat /\ DOMAIN q = 1 .. Len(q)
  BY LenProperties
<1>2. /\ DOMAIN Append(q, job) = 1 .. n /\ Append(q, job)[n] = job
      /\ \A k \in 1 .. Len(q) : Append(q, job)[k] = q[k]
  BY <1>1, AppendProperties, LenProperties
<1>3. IsFiniteSet(H) /\ Cardinality(H) \in Nat
  <2>1. IsFiniteSet(1 .. Len(q))
    BY <1>1, FS_Interval
  <2>2. H \subseteq 1 .. Len(q)
    BY <1>1
  <2> QED
    BY <2>1, <2>2, FS_Subset, FS_CardinalityType
<1>4. {k \in DOMAIN Append(q, job) : Append(q, job)[k].buf = b}
        = IF job.buf = b THEN H \cup {n} ELSE H
  <2>1. 1 .. n = (1 .. Len(q)) \cup {n}
    BY <1>1
  <2> QED
    BY <1>1, <1>2, <2>1
<1>5. n \notin H
  BY <1>1
<1>6. Cardinality(H \cup {n}) = Cardinality(H) + 1
  BY <1>3, <1>5, FS_AddElement
<1>7. Count(q, b) = Cardinality(H)
  BY DEF Count
<1>8. Count(Append(q, job), b) = IF job.buf = b THEN Cardinality(H \cup {n}) ELSE Cardinality(H)
  BY <1>4, Zenon DEF Count
<1> HIDE DEF n, H
<1> QED
  BY <1>3, <1>6, <1>7, <1>8 DEF One

\* The job taken from the front of a queue is one occurrence less.
LEMMA CountTail ==
  ASSUME NEW S, NEW q \in Seq(S), q # <<>>, NEW b
  PROVE  /\ Count(q, b) \in Nat /\ Count(Tail(q), b) \in Nat
         /\ Count(q, b) = Count(Tail(q), b) + One(Head(q), b)
<1> DEFINE H == {k \in DOMAIN q : q[k].buf = b}
           T == {k \in DOMAIN Tail(q) : Tail(q)[k].buf = b}
           f == [k \in T |-> k + 1]
<1>1. /\ Len(q) \in Nat \ {0} /\ DOMAIN q = 1 .. Len(q) /\ q[1] = Head(q)
      /\ DOMAIN Tail(q) = 1 .. (Len(q) - 1)
      /\ \A k \in 1 .. (Len(q) - 1) : Tail(q)[k] = q[k + 1]
  <2>1. /\ Len(q) \in Nat \ {0} /\ DOMAIN q = 1 .. Len(q)
    BY LenProperties, EmptySeq
  <2>2. Tail(q) \in Seq(S) /\ Len(Tail(q)) = Len(q) - 1
    BY HeadTailProperties
  <2>3. /\ DOMAIN Tail(q) = 1 .. (Len(q) - 1)
        /\ \A k \in 1 .. (Len(q) - 1) : Tail(q)[k] = q[k + 1]
    BY <2>2, HeadTailProperties, LenProperties
  <2> QED
    BY <2>1, <2>3
<1>2. /\ IsFiniteSet(H) /\ Cardinality(H) \in Nat
      /\ IsFiniteSet(T) /\ Cardinality(T) \in Nat
  <2>1. IsFiniteSet(1 .. Len(q))
    BY <1>1, FS_Interval
  <2>2. H \subseteq 1 .. Len(q) /\ T \subseteq 1 .. Len(q)
    BY <1>1
  <2> QED
    BY <2>1, <2>2, FS_Subset, FS_CardinalityType
<1>3. Cardinality(H \ {1}) = Cardinality(T)
  <2>1. f \in [T -> H \ {1}]
    BY <1>1
  <2>2. \A j, k \in T : f[j] = f[k] => j = k
    BY <1>1
  <2>3. \A h \in H \ {1} : \E k \in T : f[k] = h
    <3> SUFFICES ASSUME NEW h \in H \ {1} PROVE h - 1 \in T /\ f[h - 1] = h
      OBVIOUS
    <3>1. h \in 2 .. Len(q) /\ q[h].buf = b
      BY <1>1
    <3>2. h - 1 \in 1 .. (Len(q) - 1) /\ (h - 1) + 1 = h
      BY <1>1, <3>1
    <3>3. Tail(q)[h - 1] = q[h]
      BY <1>1, <3>2
    <3>4. h - 1 \in T
      BY <1>1, <3>1, <3>2, <3>3
    <3> QED
      BY <3>2, <3>4
  <2> HIDE DEF f, H, T
  <2>4. ExistsBijection(T, H \ {1})
    BY <2>1, <2>2, <2>3 DEF ExistsBijection, Bijection, Injection, Surjection, IsInjective
  <2> QED
    BY <1>2, <2>4, FS_Bijection
<1>4. 1 \in H <=> Head(q).buf = b
  BY <1>1
<1>5. Cardinality(H \ {1}) = IF 1 \in H THEN Cardinality(H) - 1 ELSE Cardinality(H)
  BY <1>2, FS_RemoveElement
<1> HIDE DEF H, T
<1>6. Count(q, b) = Cardinality(H) /\ Count(Tail(q), b) = Cardinality(T)
  BY DEF Count, H, T
<1> QED
  BY <1>2, <1>3, <1>4, <1>5, <1>6 DEF One

\* A thread that takes or gives away a job changes the count of that job's slot.
LEMMA HandsChange ==
  ASSUME NEW jobs \in [Threads -> Jobs \cup {Nothing}], NEW i \in Threads,
         NEW job \in Jobs \cup {Nothing}, NEW b
  PROVE  /\ InHands(jobs, b) \in Nat
         /\ InHands([jobs EXCEPT ![i] = job], b) + One(jobs[i], b)
              = InHands(jobs, b) + One(job, b)
<1> DEFINE H == {j \in Threads : jobs[j].buf = b}
           K == {j \in Threads : [jobs EXCEPT ![i] = job][j].buf = b}
<1>1. H \in SUBSET Threads /\ H \ {i} \in SUBSET Threads /\ i \notin H \ {i}
  OBVIOUS
<1>2. i \in H <=> jobs[i].buf = b
  OBVIOUS
<1>3. K = IF job.buf = b THEN (H \ {i}) \cup {i} ELSE H \ {i}
  OBVIOUS
<1>4. InHands(jobs, b) = Cardinality(H) /\ InHands([jobs EXCEPT ![i] = job], b) = Cardinality(K)
  BY DEF InHands
<1> HIDE DEF H, K
<1>5. Cardinality(H) \in Nat /\ Cardinality(H \ {i}) \in Nat
  BY <1>1, BusyCount
<1>6. Cardinality((H \ {i}) \cup {i}) = Cardinality(H \ {i}) + 1
  BY <1>1, BusyCount
<1>7. i \in H => Cardinality(H \ {i}) = Cardinality(H) - 1
  BY <1>1, BusyCount
<1>8. i \notin H => H \ {i} = H
  OBVIOUS
<1>9. Cardinality(K) = IF job.buf = b THEN Cardinality(H \ {i}) + 1 ELSE Cardinality(H \ {i})
  BY <1>3, <1>6
<1>10. Cardinality(H \ {i}) + One(jobs[i], b) = Cardinality(H)
  BY <1>2, <1>5, <1>7, <1>8 DEF One
<1> QED
  BY <1>4, <1>5, <1>9, <1>10 DEF One

\* The counts and the slots in a state of the pipeline.
LEMMA CountsTyped ==
  ASSUME PInv, NEW b \in Bufs
  PROVE  /\ Count(infer_q, b) \in Nat /\ Count(result_q, b) \in Nat
         /\ InHands(w_job, b) \in Nat
         /\ InPool(free_list, b) \in {0, 1} /\ One(cur, b) \in {0, 1}
         /\ One(Nothing, b) = 0
<1>1. Count(infer_q, b) \in Nat
  BY CountAppend DEF PInv, PipelineTypeOK
<1>2. Count(result_q, b) \in Nat
  <2>1. [buf |-> b, fid |-> 0] \in Jobs
    BY ConstantFacts DEF Jobs
  <2> QED
    BY <2>1, CountAppend DEF PInv, PipelineTypeOK
<1>3. InHands(w_job, b) \in Nat
  BY HandsChange, ConstantFacts DEF PInv, PipelineTypeOK
<1>4. InPool(free_list, b) \in {0, 1} /\ One(cur, b) \in {0, 1} /\ One(Nothing, b) = 0
  BY PipelineAssumption DEF InPool, One, Nothing
<1> QED
  BY <1>1, <1>2, <1>3, <1>4

\* Every step moves slots from one owner to another.
LEMMA OwnersStep ==
  ASSUME PInv, EmptyHandsInv, OwnersInv, [Next]_vars
  PROVE  OwnersInv'
<1> USE DEF MainGoto, CameraExit, pool, queues, workers
<1> SUFFICES ASSUME NEW b \in Bufs PROVE Owners(b)' = 1
  BY DEF OwnersInv
<1>1. /\ Count(infer_q, b) + Count(result_q, b) + InHands(w_job, b)
           + InPool(free_list, b) + One(cur, b) = 1
      /\ Owners(b)' = Count(infer_q', b) + Count(result_q', b) + InHands(w_job', b)
           + InPool(free_list', b) + One(cur', b)
  <2>1. Owners(b) = 1
    BY DEF OwnersInv
  <2>2. Owners(b)' = Count(infer_q', b) + Count(result_q', b) + InHands(w_job', b)
           + InPool(free_list', b) + One(cur', b)
    BY DEF Owners, Count, InHands, InPool, One
  <2> QED
    BY <2>1, <2>2, OwnersSum
<1>2. /\ Count(infer_q, b) \in Nat /\ Count(result_q, b) \in Nat
      /\ InHands(w_job, b) \in Nat
      /\ InPool(free_list, b) \in {0, 1} /\ One(cur, b) \in {0, 1}
      /\ One(Nothing, b) = 0
  BY CountsTyped
<1>3. ASSUME UNCHANGED <<infer_q, result_q, w_job, free_list, cur>> PROVE Owners(b)' = 1
  BY <1>1, <1>3
<1>4. ASSUME MainAcquire PROVE Owners(b)' = 1
  <2>1. CASE main_pc' = "exit_failure"
    BY <1>3, <1>4, <2>1 DEF MainAcquire
  <2>2. CASE main_pc' = "submit"
    <3>1. PICK s \in free_list : /\ free_list' = free_list \ {s}
                                 /\ cur' = [buf |-> s, fid |-> frame_counter]
      BY <1>4, <2>2 DEF MainAcquire
    <3>2. cur = Nothing /\ UNCHANGED <<infer_q, result_q, w_job>>
      BY <1>4 DEF MainAcquire, EmptyHandsInv
    <3>3. /\ InPool(free_list', b) + One(cur', b) = InPool(free_list, b)
          /\ InPool(free_list', b) \in {0, 1} /\ One(cur', b) \in {0, 1}
      BY <3>1 DEF InPool, One
    <3>4. One(cur, b) = 0
      BY <1>2, <3>2
    <3> QED
      BY <1>1, <1>2, <3>2, <3>3, <3>4
  <2> QED
    BY <1>4, <2>1, <2>2 DEF MainAcquire
<1>5. ASSUME MainSubmit PROVE Owners(b)' = 1
  <2>1. /\ infer_q' = Append(infer_q, cur) /\ cur' = Nothing
        /\ UNCHANGED <<result_q, w_job, free_list>>
    BY <1>5 DEF MainSubmit
  <2>2. Count(infer_q', b) = Count(infer_q, b) + One(cur, b)
    BY <2>1, CountAppend DEF PInv, PipelineTypeOK, Sentinel
  <2> QED
    BY <1>1, <1>2, <2>1, <2>2
<1>6. ASSUME MainPop PROVE Owners(b)' = 1
  <2>1. /\ result_q # <<>> /\ result_q' = Tail(result_q) /\ cur' = Head(result_q)
        /\ cur = Nothing /\ UNCHANGED <<infer_q, w_job, free_list>>
    BY <1>6 DEF MainPop, EmptyHandsInv
  <2>2. /\ Count(result_q', b) \in Nat
        /\ Count(result_q, b) = Count(result_q', b) + One(cur', b)
    BY <2>1, CountTail DEF PInv, PipelineTypeOK
  <2>3. One(cur', b) \in {0, 1}
    BY DEF One
  <2> QED
    BY <1>1, <1>2, <2>1, <2>2, <2>3
<1>7. ASSUME MainRelease PROVE Owners(b)' = 1
  <2>1. /\ free_list' = free_list \cup {cur.buf} /\ cur' = Nothing
        /\ UNCHANGED <<infer_q, result_q, w_job>>
    BY <1>7 DEF MainRelease
  <2>2. InPool(free_list, b) + One(cur, b) <= 1
    BY <1>1, <1>2
  <2>3. InPool(free_list', b) = InPool(free_list, b) + One(cur, b)
    BY <2>1, <2>2 DEF InPool, One
  <2> QED
    BY <1>1, <1>2, <2>1, <2>3
<1>8. ASSUME MainDrain PROVE Owners(b)' = 1
  <2>1. CASE main_pc' = "destroy"
    BY <1>3, <1>8, <2>1 DEF MainDrain
  <2>2. CASE main_pc' = "drain"
    <3>1. /\ result_q # <<>> /\ result_q' = Tail(result_q)
          /\ free_list' = free_list \cup {Head(result_q).buf}
          /\ UNCHANGED <<infer_q, w_job, cur>>
      BY <1>8, <2>2 DEF MainDrain
    <3>2. /\ Count(result_q', b) \in Nat
          /\ Count(result_q, b) = Count(result_q', b) + One(Head(result_q), b)
      BY <3>1, CountTail DEF PInv, PipelineTypeOK
    <3>3. One(Head(result_q), b) \in {0, 1}
      BY DEF One
    <3>4. InPool(free_list, b) + One(Head(result_q), b) <= 1
      BY <1>1, <1>2, <3>2, <3>3
    <3>5. InPool(free_list', b) = InPool(free_list, b) + One(Head(result_q), b)
      BY <3>1, <3>4 DEF InPool, One
    <3> QED
      BY <1>1, <1>2, <3>1, <3>2, <3>3, <3>5
  <2> QED
    BY <1>8, <2>1, <2>2 DEF MainDrain
<1>9. ASSUME MainSentinels PROVE Owners(b)' = 1
  <2>1. infer_q' = Append(infer_q, Nothing) /\ UNCHANGED <<result_q, w_job, free_list, cur>>
    BY <1>9 DEF MainSentinels, Sentinel
  <2>2. Count(infer_q', b) = Count(infer_q, b) + One(Nothing, b)
    BY <2>1, CountAppend DEF PInv, PipelineTypeOK, Sentinel
  <2> QED
    BY <1>1, <1>2, <2>1, <2>2
<1>10. ASSUME NEW i \in Threads, WorkerPop(i) PROVE Owners(b)' = 1
  <2>1. /\ infer_q # <<>> /\ infer_q' = Tail(infer_q)
        /\ w_job' = [w_job EXCEPT ![i] = Head(infer_q)] /\ w_job[i] = Nothing
        /\ UNCHANGED <<result_q, free_list, cur>>
    BY <1>10 DEF WorkerPop, WorkerGoto, EmptyHandsInv, mainVars
  <2>2. /\ Count(infer_q', b) \in Nat
        /\ Count(infer_q, b) = Count(infer_q', b) + One(Head(infer_q), b)
    BY <2>1, CountTail DEF PInv, PipelineTypeOK
  <2>3. Head(infer_q) \in Jobs \cup {Nothing}
    BY <2>1, HeadTailProperties DEF PInv, PipelineTypeOK, Sentinel
  <2>4. InHands(w_job', b) + One(Nothing, b) = InHands(w_job, b) + One(Head(infer_q), b)
    BY <2>1, <2>3, HandsChange DEF PInv, PipelineTypeOK
  <2>5. InHands(w_job', b) \in Nat
    <3>1. w_job' \in [Threads -> Jobs \cup {Nothing}]
      BY <2>1, <2>3 DEF PInv, PipelineTypeOK
    <3> QED
      BY <3>1, HandsChange, ConstantFacts
  <2>6. One(Head(infer_q), b) \in {0, 1}
    BY DEF One
  <2> QED
    BY <1>1, <1>2, <2>1, <2>2, <2>4, <2>5, <2>6
<1>11. ASSUME NEW i \in Threads, WorkerPush(i) PROVE Owners(b)' = 1
  <2>1. /\ result_q' = Append(result_q, w_job[i]) /\ w_job[i] \in Jobs
        /\ w_job' = [w_job EXCEPT ![i] = Nothing]
        /\ UNCHANGED <<infer_q, free_list, cur>>
    BY <1>11 DEF WorkerPush, WorkerGoto, PInv, HandsInv, mainVars
  <2>2. Count(result_q', b) = Count(result_q, b) + One(w_job[i], b)
    BY <2>1, CountAppend DEF PInv, PipelineTypeOK
  <2>3. InHands(w_job', b) + One(w_job[i], b) = InHands(w_job, b) + One(Nothing, b)
    <3>1. w_job \in [Threads -> Jobs \cup {Nothing}] /\ Nothing \in Jobs \cup {Nothing}
      BY DEF PInv, PipelineTypeOK
    <3>2. InHands([w_job EXCEPT ![i] = Nothing], b) + One(w_job[i], b)
            = InHands(w_job, b) + One(Nothing, b)
      BY <3>1, HandsChange
    <3> QED
      BY <2>1, <3>2
  <2>4. InHands(w_job', b) \in Nat
    <3>1. w_job' \in [Threads -> Jobs \cup {Nothing}]
      BY <2>1 DEF PInv, PipelineTypeOK
    <3> QED
      BY <3>1, HandsChange, ConstantFacts
  <2>5. One(w_job[i], b) \in {0, 1}
    BY DEF One
  <2> QED
    BY <1>1, <1>2, <2>1, <2>2, <2>3, <2>4, <2>5
<1>12. ASSUME MainStep PROVE Owners(b)' = 1
  <2>1. CASE \/ MainStamp \/ MainCheckShutdown \/ MainCheckBlackout \/ MainPublish
             \/ MainResetHandshake \/ MainDestroy \/ MainPublishBlackout \/ MainIdle
    BY <1>3, <2>1 DEF MainStamp, MainCheckShutdown, MainCheckBlackout, MainPublish,
       MainResetHandshake, MainDestroy, MainPublishBlackout, MainIdle, allButPc
  <2>2. CASE \/ MainReinit \/ MainDup \/ MainDrainCamera \/ MainPublishResume
             \/ MainClearBlackout \/ MainClearResume
             \/ MainStopPublisher \/ MainJoinWorkers \/ MainCloseCamera
             \/ MainOutputDeinit \/ MainPoolDeinit \/ MainFinalDestroy
    BY <1>3, <2>2 DEF MainReinit, MainDup, MainDrainCamera, MainPublishResume,
       MainClearBlackout, MainClearResume, MainStopPublisher, MainJoinWorkers,
       MainCloseCamera, MainOutputDeinit, MainPoolDeinit, MainFinalDestroy, allButPc
  <2> QED
    BY <1>4, <1>5, <1>6, <1>7, <1>8, <1>9, <1>12, <2>1, <2>2 DEF MainStep
<1>13. ASSUME MainStopServer \/ MainJoinServer \/ Reader PROVE Owners(b)' = 1
  BY <1>3, <1>13 DEF MainStopServer, MainJoinServer, Reader, PublisherUnblocked, allButPc
<1>14. ASSUME NEW i \in Threads, WorkerStep(i) PROVE Owners(b)' = 1
  <2>1. CASE WorkerCheck(i) \/ WorkerInfer(i)
    BY <1>3, <2>1 DEF WorkerCheck, WorkerInfer, mainVars
  <2> QED
    BY <1>10, <1>11, <1>14, <2>1 DEF WorkerStep
<1>15. ASSUME UNCHANGED pipeline PROVE Owners(b)' = 1
  BY <1>3, <1>15 DEF pipeline, mainVars
<1> QED
  BY <1>12, <1>13, <1>14, <1>15 DEF Next, Main, Worker, Listener, Client, Reader, vars

\* A step takes a job into the hand of who had none, or leaves the hand empty.
LEMMA EmptyHandsStep ==
  ASSUME PInv, EmptyHandsInv, [Next]_vars
  PROVE  EmptyHandsInv'
<1> USE DEF MainGoto, CameraExit, pool, queues, workers, EmptyHandsInv
<1>1. ASSUME MainStep PROVE EmptyHandsInv'
  <2>1. CASE \/ MainAcquire \/ MainSubmit \/ MainStamp \/ MainPop \/ MainRelease
             \/ MainDrain \/ MainClearResume \/ MainSentinels
    BY <2>1 DEF MainAcquire, MainSubmit, MainStamp, MainPop, MainRelease, MainDrain,
       MainClearResume, MainSentinels
  <2>2. CASE \/ MainCheckShutdown \/ MainCheckBlackout \/ MainPublish
             \/ MainResetHandshake \/ MainDestroy \/ MainPublishBlackout \/ MainIdle
    BY <2>2 DEF MainCheckShutdown, MainCheckBlackout, MainPublish,
       MainResetHandshake, MainDestroy, MainPublishBlackout, MainIdle, allButPc
  <2>3. CASE \/ MainReinit \/ MainDup \/ MainDrainCamera \/ MainPublishResume
             \/ MainClearBlackout
             \/ MainStopPublisher \/ MainJoinWorkers \/ MainCloseCamera
             \/ MainOutputDeinit \/ MainPoolDeinit \/ MainFinalDestroy
    BY <2>3 DEF MainReinit, MainDup, MainDrainCamera, MainPublishResume,
       MainClearBlackout, MainStopPublisher, MainJoinWorkers, MainCloseCamera,
       MainOutputDeinit, MainPoolDeinit, MainFinalDestroy, allButPc
  <2> QED
    BY <1>1, <2>1, <2>2, <2>3 DEF MainStep
<1>2. ASSUME MainStopServer \/ MainJoinServer \/ Reader PROVE EmptyHandsInv'
  BY <1>2 DEF MainStopServer, MainJoinServer, Reader, PublisherUnblocked, allButPc
<1>3. ASSUME NEW i \in Threads, WorkerStep(i) PROVE EmptyHandsInv'
  <2> USE DEF WorkerGoto, mainVars
  <2>1. CASE WorkerPop(i)
    <3>1. /\ infer_q # <<>> /\ UNCHANGED <<main_pc, cur>>
          /\ w_job' = [w_job EXCEPT ![i] = Head(infer_q)]
          /\ w_pc' = [w_pc EXCEPT ![i] = IF Head(infer_q).buf = NoBuf THEN "exited" ELSE "check"]
      BY <2>1 DEF WorkerPop
    <3>2. Head(infer_q) \in Jobs \cup {Nothing}
      BY <3>1, HeadTailProperties DEF PInv, PipelineTypeOK, Sentinel
    <3>3. Head(infer_q).buf = NoBuf => Head(infer_q) = Nothing
      BY <3>2, PipelineAssumption DEF Jobs
    <3> QED
      BY <3>1, <3>3 DEF PInv, PipelineTypeOK
  <2>2. CASE WorkerCheck(i) \/ WorkerInfer(i)
    BY <2>2 DEF WorkerCheck, WorkerInfer, PInv, PipelineTypeOK
  <2>3. CASE WorkerPush(i)
    BY <2>3 DEF WorkerPush, PInv, PipelineTypeOK
  <2> QED
    BY <1>3, <2>1, <2>2, <2>3 DEF WorkerStep
<1>4. ASSUME UNCHANGED pipeline PROVE EmptyHandsInv'
  BY <1>4 DEF pipeline, mainVars
<1> QED
  BY <1>1, <1>2, <1>3, <1>4 DEF Next, Main, Worker, Listener, Client, Reader, vars

\* A capture is counted down in todo when it is counted up in in_flight.
LEMMA RoomStep ==
  ASSUME PInv, RoomInv, [Next]_vars
  PROVE  RoomInv'
<1> USE DEF MainGoto, CameraExit
<1>1. in_flight \in Nat /\ todo \in Nat /\ N_THREADS \in Nat \ {0}
  BY PipelineAssumption DEF PInv, PipelineTypeOK
<1>2. ASSUME UNCHANGED <<todo, in_flight>>,
             main_pc' \in {"acquire", "submit", "stamp"} =>
               main_pc \in {"acquire", "submit", "stamp"},
             main_pc' \in {"publish", "release"} => main_pc \in {"publish", "release"}
      PROVE  RoomInv'
  BY <1>2 DEF RoomInv
<1>3. ASSUME MainStep PROVE RoomInv'
  <2>1. CASE MainAcquire \/ MainSubmit
    BY <1>2, <2>1 DEF MainAcquire, MainSubmit
  <2>2. CASE MainStamp
    <3>1. todo > 0
      BY <2>2 DEF MainStamp, PInv, TodoInv
    <3> QED
      BY <1>1, <2>2, <3>1 DEF MainStamp, RoomInv
  <2>3. CASE MainPop
    <3>1. in_flight' \in Nat
      BY <2>3, MainKeepsPInv DEF PInv, PipelineTypeOK
    <3> QED
      BY <1>1, <2>3, <3>1 DEF MainPop, RoomInv
  <2>4. CASE MainRelease
    BY <1>1, <2>4 DEF MainRelease, RoomInv
  <2>5. CASE MainDrain
    BY <1>1, <2>5 DEF MainDrain, RoomInv
  <2>6. CASE MainClearResume
    BY <1>1, <2>6 DEF MainClearResume, RoomInv, PInv, DrainedInv, DrainedPcs
  <2>7. CASE MainSentinels \/ MainStopPublisher
    BY <1>1, <2>7 DEF MainSentinels, MainStopPublisher, RoomInv
  <2>8. CASE \/ MainCheckShutdown \/ MainCheckBlackout \/ MainPublish
             \/ MainResetHandshake \/ MainDestroy \/ MainPublishBlackout \/ MainIdle
    BY <1>2, <2>8 DEF MainCheckShutdown, MainCheckBlackout, MainPublish,
       MainResetHandshake, MainDestroy, MainPublishBlackout, MainIdle, allButPc
  <2>9. CASE \/ MainReinit \/ MainDup \/ MainDrainCamera \/ MainPublishResume
             \/ MainClearBlackout
             \/ MainJoinWorkers \/ MainCloseCamera
             \/ MainOutputDeinit \/ MainPoolDeinit \/ MainFinalDestroy
    BY <1>2, <2>9 DEF MainReinit, MainDup, MainDrainCamera, MainPublishResume,
       MainClearBlackout, MainJoinWorkers, MainCloseCamera,
       MainOutputDeinit, MainPoolDeinit, MainFinalDestroy, allButPc
  <2> QED
    BY <1>3, <2>1, <2>2, <2>3, <2>4, <2>5, <2>6, <2>7, <2>8, <2>9 DEF MainStep
<1>4. ASSUME MainStopServer \/ MainJoinServer \/ Reader PROVE RoomInv'
  BY <1>1, <1>4 DEF MainStopServer, MainJoinServer, Reader, PublisherUnblocked, allButPc,
     RoomInv
<1>5. ASSUME UNCHANGED mainVars PROVE RoomInv'
  BY <1>2, <1>5 DEF mainVars
<1> QED
  BY <1>3, <1>4, <1>5 DEF Next, Main, Worker, Listener, Client, Reader, vars, pipeline,
     WorkerStep, WorkerPop, WorkerCheck, WorkerInfer, WorkerPush

\* The slots are exchanged without loss, and captures never exceed the room.
LEMMA SlotInvariant == Spec => []SlotInv
<1>1. Init => SlotInv
  <2> SUFFICES ASSUME Init PROVE SlotInv
    OBVIOUS
  <2> USE DEF Init, PipelineInit
  <2>1. EmptyHandsInv /\ RoomInv
    BY ConstantFacts DEF EmptyHandsInv, RoomInv
  <2>2. ASSUME NEW b \in Bufs PROVE Owners(b) = 1
    <3>1. DOMAIN infer_q = {} /\ DOMAIN result_q = {}
      OBVIOUS
    <3>2. {i \in Threads : w_job[i].buf = b} = {} /\ cur.buf # b /\ b \in free_list
      <4>1. Nothing.buf # b
        BY PipelineAssumption DEF Nothing
      <4> QED
        BY <4>1
    <3>3. /\ {k \in DOMAIN infer_q : infer_q[k].buf = b} = {}
          /\ {k \in DOMAIN result_q : result_q[k].buf = b} = {}
      BY <3>1
    <3> HIDE DEF Init, PipelineInit
    <3>4. Owners(b) = 0 + 0 + 0 + 1 + 0
      BY <3>2, <3>3, FS_EmptySet DEF Owners
    <3> QED
      BY <3>4
  <2> QED
    BY <2>1, <2>2 DEF SlotInv, OwnersInv
<1>2. IInv /\ SlotInv /\ [Next]_vars => SlotInv'
  BY EmptyHandsStep, OwnersStep, RoomStep DEF IInv, SlotInv
<1> QED
  BY <1>1, <1>2, InductiveInvariant, PTL DEF Spec

\* A list of n things names at most n slots.
LEMMA NamesBounded ==
  ASSUME NEW S, IsFiniteSet(S), NEW f, DOMAIN f = S
  PROVE  IsFiniteSet({f[x] : x \in S}) /\ Cardinality({f[x] : x \in S}) <= Cardinality(S)
<1> DEFINE T == {f[x] : x \in S}
           g == [x \in S |-> f[x]]
<1>1. g \in Surjection(S, T)
  BY DEF Surjection
<1> QED
  BY <1>1, FS_Surjection

\* When main is about to capture, fewer slots are used than there are.
LEMMA FreeAtAcquire ==
  ASSUME PInv, SlotInv, main_pc = "acquire"
  PROVE  free_list # {}
<1> SUFFICES ASSUME free_list = {} PROVE FALSE
  OBVIOUS
<1> DEFINE f == [k \in DOMAIN infer_q |-> infer_q[k].buf]
           g == [k \in DOMAIN result_q |-> result_q[k].buf]
           h == [i \in Busy |-> w_job[i].buf]
           A == {f[k] : k \in DOMAIN infer_q}
           B == {g[k] : k \in DOMAIN result_q}
           C == {h[i] : i \in Busy}
<1>1. /\ Len(infer_q) \in Nat /\ DOMAIN infer_q = 1 .. Len(infer_q)
      /\ Len(result_q) \in Nat /\ DOMAIN result_q = 1 .. Len(result_q)
      /\ Busy \in SUBSET Threads
  BY LenProperties DEF PInv, PipelineTypeOK, Busy
<1>2. /\ IsFiniteSet(DOMAIN infer_q) /\ Cardinality(DOMAIN infer_q) = Len(infer_q)
      /\ IsFiniteSet(DOMAIN result_q) /\ Cardinality(DOMAIN result_q) = Len(result_q)
      /\ IsFiniteSet(Busy) /\ Cardinality(Busy) \in Nat
  <2>1. ASSUME NEW n \in Nat PROVE IsFiniteSet(1 .. n) /\ Cardinality(1 .. n) = n
    BY FS_Interval
  <2> QED
    BY <1>1, <2>1, BusyCount
<1>3. Bufs \subseteq (A \cup B) \cup C
  <2> SUFFICES ASSUME NEW b \in Bufs, b \notin A, b \notin B, b \notin C PROVE FALSE
    OBVIOUS
  <2>1. /\ {k \in DOMAIN infer_q : infer_q[k].buf = b} = {}
        /\ {k \in DOMAIN result_q : result_q[k].buf = b} = {}
    OBVIOUS
  <2>2. {i \in Threads : w_job[i].buf = b} = {}
    <3> SUFFICES ASSUME NEW i \in Threads, w_job[i].buf = b PROVE FALSE
      OBVIOUS
    <3>1. i \notin Busy
      OBVIOUS
    <3>2. w_job[i] = Nothing
      BY <3>1 DEF Busy, PInv, PipelineTypeOK, WorkerPcs, SlotInv, EmptyHandsInv
    <3> QED
      BY <3>2, PipelineAssumption DEF Nothing
  <2>3. cur.buf # b
    BY PipelineAssumption DEF SlotInv, EmptyHandsInv, Nothing
  <2>4. Owners(b) = 0 + 0 + 0 + 0 + 0
    BY <2>1, <2>2, <2>3, FS_EmptySet DEF Owners
  <2> QED
    BY <2>4 DEF SlotInv, OwnersInv
<1>4. /\ IsFiniteSet(A) /\ Cardinality(A) <= Len(infer_q)
      /\ IsFiniteSet(B) /\ Cardinality(B) <= Len(result_q)
      /\ IsFiniteSet(C) /\ Cardinality(C) <= Cardinality(Busy)
  <2>1. DOMAIN f = DOMAIN infer_q /\ DOMAIN g = DOMAIN result_q /\ DOMAIN h = Busy
    OBVIOUS
  <2> HIDE DEF f, g, h
  <2> QED
    BY <1>2, <2>1, NamesBounded
<1> HIDE DEF A, B, C
<1>5. /\ Cardinality(A) \in Nat /\ Cardinality(B) \in Nat /\ Cardinality(C) \in Nat
      /\ IsFiniteSet(A \cup B) /\ Cardinality(A \cup B) <= Cardinality(A) + Cardinality(B)
      /\ Cardinality(A \cup B) \in Nat
  <2>1. IsFiniteSet(A \cap B)
    BY <1>4, FS_Subset
  <2>2. /\ Cardinality(A) \in Nat /\ Cardinality(B) \in Nat /\ Cardinality(C) \in Nat
        /\ Cardinality(A \cap B) \in Nat
    BY <1>4, <2>1, FS_CardinalityType
  <2>3. /\ IsFiniteSet(A \cup B)
        /\ Cardinality(A \cup B) = Cardinality(A) + Cardinality(B) - Cardinality(A \cap B)
    BY <1>4, FS_Union
  <2>4. Cardinality(A \cup B) \in Nat
    BY <2>3, FS_CardinalityType
  <2> QED
    BY <2>2, <2>3, <2>4
<1>6. /\ IsFiniteSet((A \cup B) \cup C) /\ Cardinality((A \cup B) \cup C) \in Nat
      /\ Cardinality((A \cup B) \cup C) <= Cardinality(A \cup B) + Cardinality(C)
  <2>1. IsFiniteSet((A \cup B) \cap C)
    BY <1>4, FS_Subset
  <2>2. Cardinality((A \cup B) \cap C) \in Nat
    BY <2>1, FS_CardinalityType
  <2>3. /\ IsFiniteSet((A \cup B) \cup C)
        /\ Cardinality((A \cup B) \cup C)
             = Cardinality(A \cup B) + Cardinality(C) - Cardinality((A \cup B) \cap C)
    BY <1>4, <1>5, FS_Union
  <2>4. Cardinality((A \cup B) \cup C) \in Nat
    BY <2>3, FS_CardinalityType
  <2> QED
    BY <1>5, <2>2, <2>3, <2>4
<1>7. N_THREADS + 2 <= Cardinality((A \cup B) \cup C)
  <2>1. Cardinality(Bufs) <= Cardinality((A \cup B) \cup C)
    BY <1>3, <1>6, FS_Subset
  <2> QED
    BY <2>1, PipelineAssumption
<1>8. Len(infer_q) + Cardinality(Busy) + Len(result_q) <= N_THREADS
  <2>1. in_flight + 0 = Len(infer_q) + Cardinality(Busy) + Len(result_q)
    BY DEF PInv, JobsCounted, Uncounted
  <2> QED
    BY <2>1 DEF PInv, PipelineTypeOK, SlotInv, RoomInv
<1> QED
  BY <1>1, <1>2, <1>4, <1>5, <1>6, <1>7, <1>8, ConstantFacts

\* No slot is ever shared or lost, and acquire never waits: for any number of
\* threads, N_THREADS + 2 slots are enough over any number of blackouts.
THEOREM EverySlotHasOneOwner == Spec => []SlotOwnedOnce
<1>1. IInv /\ SlotInv => SlotOwnedOnce
  BY FreeAtAcquire DEF IInv, SlotInv, OwnersInv, SlotOwnedOnce
<1> QED
  BY <1>1, InductiveInvariant, SlotInvariant, PTL

----------------------------------------------------------------------------
(* The sentinels of the teardown.                                          *)

\* The counts of the sentinels and of the ended threads.
LEMMA SentinelsTyped ==
  ASSUME PInv
  PROVE  /\ Cardinality(Sentinels) = Count(infer_q, NoBuf)
         /\ Count(infer_q, NoBuf) \in Nat
         /\ Exited \in SUBSET Threads /\ Cardinality(Exited) \in Nat
         /\ One(Sentinel, NoBuf) = 1
         /\ N_THREADS \in Nat /\ todo \in Nat
<1>1. Cardinality(Sentinels) = Count(infer_q, NoBuf)
  BY DEF Sentinels, Count
<1>2. Count(infer_q, NoBuf) \in Nat
  BY CountAppend DEF PInv, PipelineTypeOK
<1>3. Exited \in SUBSET Threads /\ Cardinality(Exited) \in Nat
  BY BusyCount DEF Exited
<1>4. One(Sentinel, NoBuf) = 1
  BY DEF One, Sentinel, Nothing
<1>5. N_THREADS \in Nat /\ todo \in Nat
  BY ConstantFacts DEF PInv, PipelineTypeOK
<1> QED
  BY <1>1, <1>2, <1>3, <1>4, <1>5

\* A sentinel is pushed for each thread and popped by a thread that then ends.
LEMMA SentinelsStep ==
  ASSUME PInv, SentinelsCounted, [Next]_vars
  PROVE  SentinelsCounted'
<1> USE DEF MainGoto, CameraExit, pool, queues, workers
<1>1. Cardinality(Sentinels') = Count(infer_q', NoBuf)
  BY DEF Sentinels, Count
<1>2. ASSUME UNCHANGED <<infer_q, w_pc>>,
             \/ UNCHANGED <<main_pc, todo>>
             \/ main_pc' \notin {"sentinels", "join_workers"}
      PROVE  SentinelsCounted'
  BY <1>2 DEF SentinelsCounted, Sentinels, Exited, ToPush
<1>3. ASSUME MainStopPublisher \/ PublisherUnblocked PROVE SentinelsCounted'
  <2>1. CASE main_pc' = "pub_blocked"
    BY <1>2, <1>3, <2>1 DEF MainStopPublisher, PublisherUnblocked
  <2>2. CASE main_pc' = "sentinels"
    <3>1. /\ todo' = N_THREADS /\ UNCHANGED <<infer_q, w_pc>>
          /\ main_pc \in {"stop_pub", "pub_blocked"}
      BY <1>3, <2>2 DEF MainStopPublisher, PublisherUnblocked
    <3>2. infer_q \in Seq(Jobs) /\ \A i \in Threads : w_pc[i] # "exited"
      BY <3>1 DEF PInv, RunningInv, TeardownPcs
    <3>3. \A k \in DOMAIN infer_q : infer_q[k].buf # NoBuf
      <4>1. \A k \in DOMAIN infer_q : infer_q[k] \in Jobs
        BY <3>2, LenProperties, ElementOfSeq
      <4> QED
        BY <4>1, PipelineAssumption DEF Jobs
    <3>4. Sentinels' = {} /\ Exited' = {}
      BY <3>1, <3>2, <3>3 DEF Sentinels, Exited
    <3>5. Cardinality(Sentinels') = 0 /\ Cardinality(Exited') = 0
      BY <3>4, FS_EmptySet
    <3> QED
      BY <2>2, <3>1, <3>5, ConstantFacts DEF SentinelsCounted, ToPush
  <2> QED
    BY <1>3, <2>1, <2>2 DEF MainStopPublisher, PublisherUnblocked
<1>4. ASSUME MainSentinels PROVE SentinelsCounted'
  <2>1. /\ main_pc = "sentinels" /\ todo > 0 /\ todo' = todo - 1
        /\ main_pc' = IF todo > 1 THEN "sentinels" ELSE "join_workers"
        /\ infer_q' = Append(infer_q, Sentinel) /\ Exited' = Exited
    BY <1>4 DEF MainSentinels, PInv, TodoInv, Exited
  <2>2. Count(infer_q', NoBuf) = Count(infer_q, NoBuf) + 1
    BY <2>1, CountAppend, SentinelsTyped DEF PInv, PipelineTypeOK
  <2>3. todo + Count(infer_q, NoBuf) + Cardinality(Exited) = N_THREADS
    BY <2>1, SentinelsTyped DEF SentinelsCounted, ToPush
  <2>4. ToPush' = todo - 1
    BY <2>1, SentinelsTyped DEF ToPush
  <2> QED
    BY <1>1, <2>1, <2>2, <2>3, <2>4, SentinelsTyped DEF SentinelsCounted
<1>5. ASSUME NEW i \in Threads, WorkerStep(i) PROVE SentinelsCounted'
  <2> USE DEF WorkerGoto, mainVars
  <2>1. CASE WorkerPop(i)
    <3>1. /\ infer_q # <<>> /\ infer_q' = Tail(infer_q) /\ i \notin Exited
          /\ w_pc' = [w_pc EXCEPT ![i] = IF Head(infer_q).buf = NoBuf THEN "exited" ELSE "check"]
          /\ ToPush' = ToPush /\ main_pc' = main_pc
      BY <2>1 DEF WorkerPop, Exited, ToPush
    <3>2. /\ Count(infer_q', NoBuf) \in Nat
          /\ Count(infer_q, NoBuf) = Count(infer_q', NoBuf) + One(Head(infer_q), NoBuf)
      BY <3>1, CountTail DEF PInv, PipelineTypeOK
    <3>3. Exited' = IF Head(infer_q).buf = NoBuf THEN Exited \cup {i} ELSE Exited
      BY <3>1 DEF Exited, PInv, PipelineTypeOK
    <3>4. Cardinality(Exited') = Cardinality(Exited) + One(Head(infer_q), NoBuf)
      <4>1. Cardinality(Exited \cup {i}) = Cardinality(Exited) + 1
        BY <3>1, SentinelsTyped, BusyCount
      <4> QED
        BY <3>3, <4>1, SentinelsTyped DEF One
    <3>5. One(Head(infer_q), NoBuf) \in {0, 1} /\ ToPush \in Nat
      BY SentinelsTyped DEF One, ToPush
    <3> QED
      BY <1>1, <3>1, <3>2, <3>4, <3>5, SentinelsTyped DEF SentinelsCounted
  <2>2. CASE WorkerCheck(i) \/ WorkerInfer(i) \/ WorkerPush(i)
    <3>1. UNCHANGED <<infer_q, main_pc, todo>> /\ Exited' = Exited
      BY <2>2 DEF WorkerCheck, WorkerInfer, WorkerPush, Exited, PInv, PipelineTypeOK
    <3> QED
      BY <3>1 DEF SentinelsCounted, Sentinels, ToPush
  <2> QED
    BY <1>5, <2>1, <2>2 DEF WorkerStep
<1>6. ASSUME MainStep PROVE SentinelsCounted'
  <2> USE DEF allButPc
  <2>1. CASE MainSubmit
    BY <2>1 DEF MainSubmit, SentinelsCounted
  <2>2. CASE \/ MainAcquire \/ MainStamp \/ MainPop \/ MainRelease \/ MainDrain
             \/ MainCheckShutdown \/ MainCheckBlackout \/ MainPublish
    BY <1>2, <2>2 DEF MainAcquire, MainStamp, MainPop, MainRelease, MainDrain,
       MainCheckShutdown, MainCheckBlackout, MainPublish
  <2>3. CASE \/ MainResetHandshake \/ MainDestroy \/ MainPublishBlackout \/ MainIdle
             \/ MainReinit \/ MainDup \/ MainDrainCamera \/ MainPublishResume
    BY <1>2, <2>3 DEF MainResetHandshake, MainDestroy, MainPublishBlackout, MainIdle,
       MainReinit, MainDup, MainDrainCamera, MainPublishResume
  <2>4. CASE \/ MainClearBlackout \/ MainClearResume \/ MainJoinWorkers \/ MainCloseCamera
             \/ MainOutputDeinit \/ MainPoolDeinit \/ MainFinalDestroy
    BY <1>2, <2>4 DEF MainClearBlackout, MainClearResume, MainJoinWorkers,
       MainCloseCamera, MainOutputDeinit, MainPoolDeinit, MainFinalDestroy
  <2> QED
    BY <1>3, <1>4, <1>6, <2>1, <2>2, <2>3, <2>4 DEF MainStep
<1>7. ASSUME MainStopServer \/ MainJoinServer PROVE SentinelsCounted'
  BY <1>2, <1>7 DEF MainStopServer, MainJoinServer, allButPc
<1>8. ASSUME UNCHANGED pipeline PROVE SentinelsCounted'
  BY <1>2, <1>8 DEF pipeline, mainVars
<1> QED
  BY <1>3, <1>5, <1>6, <1>7, <1>8 DEF Next, Main, Worker, Listener, Client, Reader, vars

\* Both counts are exact, for any number of threads: the drain of a blackout waits for
\* every job, and the join at the end finds a sentinel for every thread, so that none
\* is left waiting in pop().
THEOREM InFlightIsExact == Spec => []InFlightExact
<1>1. Init => SentinelsCounted
  BY DEF Init, PipelineInit, SentinelsCounted
<1>2. IInv /\ SentinelsCounted /\ [Next]_vars => SentinelsCounted'
  BY SentinelsStep DEF IInv
<1>3. IInv /\ SentinelsCounted => InFlightExact
  BY DEF IInv, PInv, InFlightExact
<1> QED
  BY <1>1, <1>2, <1>3, InductiveInvariant, PTL DEF Spec

----------------------------------------------------------------------------
(* The contexts at the end of main.                                        *)
(*                                                                         *)
(* Main may leave its loop with its contexts or in a blackout.  Only the   *)
(* flag blackout_active tells the two apart at the end, so the invariant   *)
(* relates it to the runtime's handles at every point of main.             *)

AllLive == \A i \in Threads : Handle(ctxs, i) \in live

LeavingPcs == {"stop_ctrl", "join_ctrl", "stop_pub", "pub_blocked", "sentinels",
               "join_workers", "close_camera", "output_deinit", "output_blocked",
               "pool_deinit", "final_destroy"}

\* The handles of the runtime are among main's, and main knows whether they exist.
HandlesInv ==
  /\ live \subseteq {Handle(ctxs, i) : i \in Threads}
  /\ main_pc \in LitPcs => AllLive
  /\ main_pc \in LitPcs \ {"drain_camera", "publish_resume"} => ~blackout_active
  /\ main_pc \in {"publish_blackout", "idle", "reinit"} => live = {}
  /\ main_pc \in {"idle", "reinit"} => blackout_active
  /\ main_pc = "dup" => live = {Handle(ctxs, 0)}
  /\ main_pc \in LeavingPcs => IF blackout_active THEN live = {} ELSE AllLive

\* Only main writes blackout_active.
LEMMA ServerLeavesActive == CtlStep \/ ClientStep => UNCHANGED blackout_active
<1> USE DEF ctrlState, lifecycle, switches
<1>1. CtlStep => UNCHANGED blackout_active
  BY DEF CtlStep, CtlLoop, CtlCallAccept, CtlConn, CtlSend, DispatchPause,
     DispatchResumeYolo, DispatchGetStatus, DispatchSetDump, DispatchShutdown,
     DispatchUnknown, DispatchBlackout, BlackoutRequest, BlackoutConfirmed,
     BlackoutTimeout, DispatchResume, ResumeRequest, ResumeConfirmed, ResumeTimeout
<1>2. ClientStep => UNCHANGED blackout_active
  BY DEF ClientStep, CtlAccept, CtlAcceptFails, CtlEof, CtlRecv
<1> QED
  BY <1>1, <1>2

\* Every step of main keeps flag and handles together.
LEMMA HandlesStep ==
  ASSUME ~DupMayFail, PInv, HandlesInv, [Next]_vars
  PROVE  HandlesInv'
<1> USE DEF MainGoto, CameraExit, LeavingPcs, LitPcs
<1>1. ASSUME UNCHANGED <<ctxs, live, blackout_active>>,
             \/ main_pc' = main_pc
             \/ /\ main_pc' \in LitPcs \ {"drain_camera", "publish_resume"}
                /\ main_pc \in LitPcs \ {"drain_camera", "publish_resume"}
             \/ /\ main_pc = "drain_camera"
                /\ main_pc' = "publish_resume"
             \/ /\ main_pc = "idle"
                /\ main_pc' = "reinit"
             \/ /\ main_pc \in {"check_shutdown", "idle", "reinit"}
                /\ main_pc' = "stop_ctrl"
             \/ /\ main_pc \in LeavingPcs
                /\ main_pc' \in LeavingPcs
             \/ main_pc' = "exit_failure"
      PROVE  HandlesInv'
  <2>1. (AllLive' <=> AllLive) /\ \A i : Handle(ctxs, i)' = Handle(ctxs, i)
    BY <1>1 DEF AllLive, Handle
  <2> QED
    BY <1>1, <2>1 DEF HandlesInv
<1>2. ASSUME MainStep PROVE HandlesInv'
  <2> USE DEF pool, queues, workers, npu, allButPc, ctrlState, switches, lifecycle
  <2>1. CASE \/ MainAcquire \/ MainSubmit \/ MainStamp \/ MainPop \/ MainRelease
             \/ MainDrain \/ MainClearResume \/ MainClearBlackout \/ MainPublish
    BY <1>1, <2>1 DEF MainAcquire, MainSubmit, MainStamp, MainPop, MainRelease, MainDrain,
       MainClearResume, MainClearBlackout, MainPublish
  <2>2. CASE MainCheckShutdown \/ MainCheckBlackout \/ MainIdle \/ MainDrainCamera
    BY <1>1, <2>2 DEF MainCheckShutdown, MainCheckBlackout, MainIdle, MainDrainCamera
  <2>3. CASE \/ MainStopPublisher \/ MainSentinels \/ MainJoinWorkers \/ MainCloseCamera
             \/ MainOutputDeinit \/ MainPoolDeinit
    BY <1>1, <2>3 DEF MainStopPublisher, MainSentinels, MainJoinWorkers, MainCloseCamera,
       MainOutputDeinit, MainPoolDeinit
  <2>4. CASE MainResetHandshake
    <3>1. UNCHANGED <<ctxs, live>> /\ ~blackout_active' /\ main_pc' = "drain"
      BY <2>4 DEF MainResetHandshake
    <3>2. AllLive'
      BY <2>4, <3>1 DEF MainResetHandshake, HandlesInv, AllLive, Handle
    <3> QED
      BY <3>1, <3>2 DEF HandlesInv, Handle
  <2>5. CASE MainDestroy
    <3>1. /\ main_pc' = "publish_blackout" /\ UNCHANGED ctxs
          /\ live' = live \ {Handle(ctxs, i) : i \in Threads}
      BY <2>5 DEF MainDestroy
    <3>2. live' = {}
      BY <3>1 DEF HandlesInv
    <3> QED
      BY <3>1, <3>2 DEF HandlesInv
  <2>6. CASE MainPublishBlackout
    <3>1. /\ main_pc = "publish_blackout" /\ main_pc' = "idle"
          /\ blackout_active' = TRUE /\ UNCHANGED live
      BY <2>6 DEF MainPublishBlackout
    <3>2. live' = {}
      BY <3>1 DEF HandlesInv
    <3> QED
      BY <3>1, <3>2 DEF HandlesInv
  <2>7. CASE MainReinit
    <3>1. CASE main_pc' = "stop_ctrl"
      <4>1. main_pc = "reinit" /\ UNCHANGED <<ctxs, live, blackout_active>>
        BY <2>7, <3>1 DEF MainReinit
      <4> QED
        BY <1>1, <3>1, <4>1
    <3>2. CASE main_pc' = "dup"
      <4>1. main_pc = "reinit" /\ live' = live \cup {Handle(ctxs', 0)}
        BY <2>7, <3>2 DEF MainReinit
      <4>2. live' = {Handle(ctxs', 0)}
        BY <4>1 DEF HandlesInv
      <4>3. live' \subseteq {Handle(ctxs', i) : i \in Threads}
        BY <4>2, ConstantFacts
      <4> QED
        BY <3>2, <4>2, <4>3 DEF HandlesInv, Handle
    <3> QED
      BY <2>7, <3>1, <3>2 DEF MainReinit
  <2>8. CASE MainDup
    <3>1. /\ main_pc = "dup" /\ main_pc' = "drain_camera"
          /\ ctxs' = [i \in Threads |-> IF i = 0 THEN ctxs[i] ELSE 1 - ctxs[i]]
          /\ live' = live \cup {Handle(ctxs', i) : i \in Threads \ {0}}
      BY <2>8 DEF MainDup
    <3>2. live = {Handle(ctxs', 0)}
      BY <3>1, ConstantFacts DEF HandlesInv, Handle
    <3>3. live' = {Handle(ctxs', i) : i \in Threads}
      BY <3>1, <3>2, ConstantFacts
    <3>4. AllLive'
      BY <3>3 DEF AllLive, Handle
    <3> QED
      BY <3>1, <3>3, <3>4 DEF HandlesInv, Handle
  <2>9. CASE MainPublishResume
    <3>1. UNCHANGED <<ctxs, live>> /\ AllLive' /\ ~blackout_active'
      BY <2>9 DEF MainPublishResume, HandlesInv, AllLive, Handle
    <3> QED
      BY <2>9, <3>1 DEF MainPublishResume, HandlesInv, Handle
  <2>10. CASE MainFinalDestroy
    BY <2>10 DEF MainFinalDestroy, HandlesInv, Handle
  <2> QED
    BY <1>2, <2>1, <2>2, <2>3, <2>4, <2>5, <2>6, <2>7, <2>8, <2>9, <2>10 DEF MainStep
<1>3. ASSUME MainStopServer \/ MainJoinServer \/ Reader PROVE HandlesInv'
  BY <1>1, <1>3 DEF MainStopServer, MainJoinServer, Reader, PublisherUnblocked, allButPc,
     npu, ctrlState, lifecycle
<1>4. ASSUME NEW i \in Threads, WorkerStep(i) PROVE HandlesInv'
  <2>1. UNCHANGED <<main_pc, ctxs, live, blackout_active>>
    BY <1>4 DEF WorkerStep, WorkerPop, WorkerCheck, WorkerInfer, WorkerPush, mainVars,
       npu, ctrlState, lifecycle
  <2> QED
    BY <1>1, <2>1
<1>5. ASSUME CtlStep \/ ClientStep, UNCHANGED pipeline PROVE HandlesInv'
  <2>1. UNCHANGED <<main_pc, ctxs, live, blackout_active>>
    BY <1>5, ServerLeavesActive DEF pipeline, mainVars, npu
  <2> QED
    BY <1>1, <2>1
<1>6. ASSUME UNCHANGED vars PROVE HandlesInv'
  <2>1. UNCHANGED <<main_pc, ctxs, live, blackout_active>>
    BY <1>6 DEF vars, pipeline, mainVars, npu, ctrlState, lifecycle
  <2> QED
    BY <1>1, <2>1
<1> QED
  BY <1>2, <1>3, <1>4, <1>5, <1>6 DEF Next, Main, Worker, Listener, Client, Reader

\* rknn_destroy at the end of main is given contexts that exist, or only handles a
\* blackout has already destroyed: for any number of threads, as long as
\* rknn_dup_context succeeds after a blackout.
THEOREM EndDestroysLiveContexts ==
  ASSUME ~DupMayFail
  PROVE  Spec => []FinalDestroyOfLiveContexts
<1>1. Init => HandlesInv
  BY DEF Init, StateInit, PipelineInit, HandlesInv, AllLive, LitPcs, LeavingPcs
<1>2. IInv /\ HandlesInv /\ [Next]_vars => HandlesInv'
  BY HandlesStep DEF IInv
<1>3. HandlesInv => FinalDestroyOfLiveContexts
  BY DEF HandlesInv, FinalDestroyOfLiveContexts, LeavingPcs, AllLive
<1> QED
  BY <1>1, <1>2, <1>3, InductiveInvariant, PTL DEF Spec

----------------------------------------------------------------------------
(* The promise of the "blackout" command, on the assumption that main ends *)
(* a blackout within the 15 s the "resume" handler waits                   *)
(* (~ResumeMayOverrun).  Without the assumption the promise is broken: run *)
(* proc_resume_timeout.                                                    *)
(*                                                                         *)
(* NpuExclusive is about what a client was told; the invariant has to say  *)
(* what the flags mean while main and the handlers are between two of      *)
(* their steps: blackout_active is true only while the NPU is released or  *)
(* while a "resume" handler is still waiting, so no "blackout" handler can *)
(* be fooled by it.                                                        *)

ReinitPcs == {"reinit", "dup", "drain_camera", "publish_resume"}

AfterPcs == {"stop_ctrl", "join_ctrl", "stop_pub", "pub_blocked", "sentinels",
             "join_workers", "close_camera", "output_deinit", "output_blocked",
             "pool_deinit", "final_destroy", "done", "exit_failure"}

Released == live = {} /\ (fds_open => opendir_failed)

\* Every handle of the runtime is one main would destroy.
LiveInv ==
  /\ live \subseteq {Handle(ctxs, i) : i \in Threads}
  /\ main_pc \in {"publish_blackout", "idle", "reinit"} => Released
  /\ main_pc = "dup" => live \subseteq {Handle(ctxs, 0)}

\* What the flags say about main.
ActiveInv ==
  /\ blackout_active => main_pc \in {"idle"} \cup ReinitPcs \cup AfterPcs
  /\ (blackout_active /\ main_pc \in AfterPcs \ {"exit_failure"}) => Released
  /\ main_pc \in {"drain", "destroy", "publish_blackout", "idle"} \cup ReinitPcs =>
       ~resume_done

\* Main ends a blackout only with the "resume" handler waiting for it.
ResumeInv ==
  /\ ctl_pc = "res_flag" => main_pc \in {"idle"} \cup AfterPcs
  /\ main_pc \in ReinitPcs => ctl_pc = "res_wait" /\ ~shutdown_requested
  /\ (resume_requested /\ main_pc \notin {"clear_blackout", "clear_resume"} \cup AfterPcs) =>
       /\ main_pc \in {"idle"} \cup ReinitPcs
       /\ ctl_pc = "res_wait" \/ (shutdown_requested /\ main_pc = "idle")

Granting == npu_granted \/ (ctl_pc = "send" /\ cmd = "blackout" /\ reply = "ok")

GrantInv ==
  /\ Granting => /\ Released
                 /\ main_pc \in {"idle"} \cup AfterPcs
                 /\ main_pc = "idle" => ~resume_requested \/ shutdown_requested
  /\ ctl_pc \in {"res_flag", "res_wait"} => cmd = "resume"
  /\ ctl_pc \in {"bo_flag", "bo_wait"} => cmd = "blackout"
  /\ cmd = "resume" => ~npu_granted

HInv == LiveInv /\ ActiveInv /\ ResumeInv /\ GrantInv
----------------------------------------------------------------------------
\* The invariant holds when the threads have been started.
LEMMA HInvInit == Init => HInv
BY DEF Init, StateInit, ServerStart, PipelineInit, HInv, LiveInv, ActiveInv,
   ResumeInv, GrantInv, Granting, Released, ReinitPcs, AfterPcs

----------------------------------------------------------------------------
(* Steps of the control server.                                            *)

\* The live contexts are the pipeline's business.
LEMMA ServerKeepsLiveInv ==
  ASSUME LiveInv, UNCHANGED pipeline
  PROVE  LiveInv' /\ (Released' <=> Released)
BY DEF LiveInv, Released, pipeline, mainVars, npu, Handle

\* A step of the listener thread or of a client keeps the handshake's invariant.
LEMMA ServerKeepsHInv ==
  ASSUME HInv, ~ResumeMayOverrun, Alive, CtlStep \/ ClientStep, UNCHANGED pipeline
  PROVE  HInv'
<1> USE DEF HInv
<1>1. LiveInv' /\ (Released' <=> Released)
  BY ServerKeepsLiveInv
<1>2. main_pc' = main_pc
  BY DEF pipeline, mainVars
<1>3. ActiveInv' /\ ResumeInv' /\ GrantInv'
  <2> USE <1>1, <1>2 DEF ActiveInv, ResumeInv, GrantInv, Granting, ReinitPcs, AfterPcs,
          ctrlState, switches, lifecycle, CtlGoto, Connection, Answer, Handling
  <2>1. CASE CtlLoop \/ CtlCallAccept \/ CtlConn
    BY <2>1 DEF CtlLoop, CtlCallAccept, CtlConn
  <2>2. CASE CtlSend
    <3>1. npu_granted' => Granting
      BY <2>2 DEF CtlSend
    <3>2. ctl_pc' \in {"conn", "loop"} /\ cmd' = "none" /\ UNCHANGED ctrlState
      BY <2>2 DEF CtlSend
    <3> QED
      BY <2>2, <3>1, <3>2 DEF CtlSend
  <2>3. CASE DispatchPause \/ DispatchResumeYolo \/ DispatchGetStatus \/ DispatchUnknown
    BY <2>3 DEF DispatchPause, DispatchResumeYolo, DispatchGetStatus, DispatchUnknown
  <2>4. CASE DispatchSetDump
    BY <2>4 DEF DispatchSetDump
  <2>5. CASE DispatchShutdown
    BY <2>5 DEF DispatchShutdown
  <2>6. CASE DispatchBlackout
    BY <2>6 DEF DispatchBlackout
  <2>7. CASE BlackoutRequest
    BY <2>7 DEF BlackoutRequest
  <2>8. CASE BlackoutConfirmed
    BY <2>8 DEF BlackoutConfirmed, LiveInv, Alive
  <2>9. CASE BlackoutTimeout
    BY <2>9 DEF BlackoutTimeout
  <2>10. CASE DispatchResume
    BY <2>10 DEF DispatchResume
  <2>11. CASE ResumeRequest
    BY <2>11 DEF ResumeRequest
  <2>12. CASE ResumeConfirmed
    BY <2>12 DEF ResumeConfirmed
  <2>13. CASE ResumeTimeout
    BY <2>13 DEF ResumeTimeout
  <2>14. CASE ClientStep
    <3>1. CASE CtlAccept \/ CtlAcceptFails \/ CtlEof
      BY <3>1 DEF CtlAccept, CtlAcceptFails, CtlEof
    <3>2. ASSUME NEW c \in Commands, CtlRecv(c) PROVE ActiveInv' /\ ResumeInv' /\ GrantInv'
      BY <3>2 DEF CtlRecv
    <3> QED
      BY <2>14, <3>1, <3>2 DEF ClientStep
  <2> QED
    BY <2>1, <2>2, <2>3, <2>4, <2>5, <2>6, <2>7, <2>8, <2>9, <2>10, <2>11, <2>12, <2>13,
       <2>14 DEF CtlStep
<1> QED
  BY <1>1, <1>3

----------------------------------------------------------------------------
(* Steps of the main thread and of the inference threads.                  *)

\* A step that leaves the contexts, the flags and the server alone, and moves
\* main between two points that have nothing to do with a blackout.
LEMMA PlainMoveKeepsHInv ==
  ASSUME HInv, UNCHANGED <<npu, lifecycle, shutdown_requested, server>>,
         \/ main_pc' = main_pc
         \/ /\ main_pc \notin {"idle"} \cup ReinitPcs \cup AfterPcs
            /\ main_pc \notin {"publish_blackout", "clear_blackout", "clear_resume"}
            /\ main_pc' \notin {"idle", "publish_blackout"} \cup ReinitPcs
            /\ main_pc' \in {"drain", "destroy"} => main_pc \in {"drain", "destroy"}
         \/ /\ main_pc \in {"idle"} \cup (AfterPcs \ {"exit_failure"})
            /\ main_pc' \in AfterPcs \ {"exit_failure"}
         \/ /\ main_pc \in AfterPcs
            /\ main_pc' = "exit_failure"
  PROVE  HInv'
<1> USE DEF HInv, npu, lifecycle, server, ReinitPcs, AfterPcs, Released
<1>1. LiveInv'
  BY DEF LiveInv, Handle
<1>2. ActiveInv'
  BY DEF ActiveInv, LiveInv
<1>3. ResumeInv'
  BY DEF ResumeInv
<1>4. GrantInv'
  BY DEF GrantInv, Granting
<1> QED
  BY <1>1, <1>2, <1>3, <1>4

\* A step of an inference thread is such a step.
LEMMA WorkerKeepsHInv ==
  ASSUME HInv, NEW i \in Threads, Worker(i)
  PROVE  HInv'
BY PlainMoveKeepsHInv
DEF Worker, WorkerStep, WorkerPop, WorkerCheck, WorkerInfer, WorkerPush, mainVars,
    ctrlState, switches

\* The steps of the main thread outside a blackout, and those of the teardown.
LEMMA MainPlainKeepsHInv ==
  ASSUME HInv,
         \/ /\ \/ MainAcquire \/ MainSubmit \/ MainStamp \/ MainCheckShutdown
               \/ MainCheckBlackout \/ MainPop \/ MainPublish \/ MainRelease \/ MainDrain
               \/ MainStopPublisher \/ MainSentinels \/ MainJoinWorkers
               \/ MainCloseCamera \/ MainOutputDeinit \/ MainPoolDeinit
            /\ UNCHANGED server
         \/ MainJoinServer
         \/ Reader
  PROVE  HInv'
<1> USE PlainMoveKeepsHInv
    DEF MainGoto, CameraExit, ReinitPcs, AfterPcs, allButPc, ctrlState, switches
<1>1. CASE MainAcquire /\ UNCHANGED server
  BY <1>1 DEF MainAcquire
<1>2. CASE (MainSubmit \/ MainStamp) /\ UNCHANGED server
  BY <1>2 DEF MainSubmit, MainStamp
<1>3. CASE (MainCheckBlackout \/ MainPop \/ MainPublish \/ MainRelease) /\ UNCHANGED server
  BY <1>3 DEF MainCheckBlackout, MainPop, MainPublish, MainRelease
<1>4. CASE MainDrain /\ UNCHANGED server
  BY <1>4 DEF MainDrain
<1>5. CASE /\ \/ MainStopPublisher \/ MainSentinels \/ MainJoinWorkers
              \/ MainCloseCamera \/ MainOutputDeinit \/ MainPoolDeinit
           /\ UNCHANGED server
  BY <1>5 DEF MainStopPublisher, MainSentinels, MainJoinWorkers, MainCloseCamera,
     MainOutputDeinit, MainPoolDeinit
<1>6. CASE MainCheckShutdown /\ UNCHANGED server
  BY <1>6 DEF MainCheckShutdown
<1>7. CASE MainJoinServer \/ Reader
  BY <1>7 DEF MainJoinServer, Reader, PublisherUnblocked
<1> QED
  BY <1>1, <1>2, <1>3, <1>4, <1>5, <1>6, <1>7

\* The steps of a blackout, of the resume that ends it, and the final destroy.
LEMMA MainBlackoutKeepsHInv ==
  ASSUME HInv, UNCHANGED server,
         \/ MainResetHandshake \/ MainDestroy \/ MainPublishBlackout \/ MainIdle
         \/ MainReinit \/ MainDup \/ MainDrainCamera \/ MainPublishResume
         \/ MainClearBlackout \/ MainClearResume \/ MainFinalDestroy
  PROVE  HInv'
<1> USE DEF HInv, LiveInv, ActiveInv, ResumeInv, GrantInv, Granting, Released, ReinitPcs,
        AfterPcs, MainGoto, CameraExit, allButPc, ctrlState, switches, lifecycle, server,
        npu, Handle
<1>1. CASE MainResetHandshake
  BY <1>1 DEF MainResetHandshake
<1>2. CASE MainDestroy
  BY <1>2 DEF MainDestroy, release_rknpu_fds
<1>3. CASE MainPublishBlackout
  BY <1>3 DEF MainPublishBlackout
<1>4. CASE MainIdle
  BY <1>4 DEF MainIdle
<1>5. CASE MainReinit
  <2>1. 0 \in Threads
    BY PipelineAssumption DEF Threads
  <2>2. CASE main_pc' = "dup"
    <3>1. live' = {Handle(ctxs', 0)}
      BY <1>5, <2>2 DEF MainReinit
    <3>2. live' \subseteq {Handle(ctxs', i) : i \in Threads}
      BY <2>1, <3>1
    <3>3. main_pc = "reinit" /\ UNCHANGED <<shutdown_requested, lifecycle>>
      BY <1>5, <2>2 DEF MainReinit
    <3> QED
      BY <2>2, <3>1, <3>2, <3>3
  <2>3. CASE main_pc' = "stop_ctrl"
    BY <1>5, <2>3 DEF MainReinit
  <2> QED
    BY <1>5, <2>2, <2>3 DEF MainReinit
<1>6. CASE MainDup
  <2>1. PICK failed \in SUBSET (Threads \ {0}) :
          /\ ctxs' = [i \in Threads |-> IF i = 0 \/ i \in failed THEN ctxs[i] ELSE 1 - ctxs[i]]
          /\ live' = live \cup {Handle(ctxs', i) : i \in Threads \ (failed \cup {0})}
    BY <1>6 DEF MainDup
  <2>2. 0 \in Threads /\ Handle(ctxs', 0) = Handle(ctxs, 0)
    BY <2>1, PipelineAssumption DEF Threads
  <2>3. live' \subseteq {Handle(ctxs', i) : i \in Threads}
    <3> HIDE DEF Handle
    <3> QED
      BY <1>6, <2>1, <2>2 DEF MainDup
  <2>4. main_pc = "dup" /\ main_pc' = "drain_camera" /\ UNCHANGED ctrlState
    BY <1>6 DEF MainDup
  <2> QED
    BY <2>3, <2>4
<1>7. CASE MainDrainCamera
  BY <1>7 DEF MainDrainCamera
<1>8. CASE MainPublishResume
  BY <1>8 DEF MainPublishResume
<1>9. CASE MainClearBlackout
  BY <1>9 DEF MainClearBlackout
<1>10. CASE MainClearResume
  BY <1>10 DEF MainClearResume
<1>11. CASE MainFinalDestroy
  BY <1>11 DEF MainFinalDestroy
<1> QED
  BY <1>1, <1>2, <1>3, <1>4, <1>5, <1>6, <1>7, <1>8, <1>9, <1>10, <1>11

\* ctrl_server.stop() clears running_ and closes the socket.
LEMMA StopServerKeepsHInv ==
  ASSUME HInv, MainStopServer
  PROVE  HInv'
BY DEF HInv, LiveInv, ActiveInv, ResumeInv, GrantInv, Granting, Released, ReinitPcs,
   AfterPcs, MainStopServer, ServerStop, MainGoto, allButPc, ctrlState, switches,
   lifecycle, npu, Handle

----------------------------------------------------------------------------
\* As long as main ends a blackout within the resume handler's 15 s, a client that
\* was told "ok" to "blackout" has the NPU to itself until it asks for "resume": no
\* RKNN context exists, and no /dev/rknpu descriptor is open unless opendir failed in
\* the release_rknpu_fds of that blackout.
THEOREM NpuIsExclusive ==
  ASSUME ~ResumeMayOverrun
  PROVE  Spec => []NpuExclusive
<1>1. Init => HInv
  BY HInvInit
<1>2. HInv /\ [Next]_vars => HInv'
  <2> SUFFICES ASSUME HInv, [Next]_vars PROVE HInv'
    OBVIOUS
  <2>1. CASE Main
    BY <2>1, MainPlainKeepsHInv, MainBlackoutKeepsHInv, StopServerKeepsHInv
    DEF Main, MainStep
  <2>2. ASSUME NEW i \in Threads, Worker(i) PROVE HInv'
    BY <2>2, WorkerKeepsHInv
  <2>3. CASE Listener \/ Client
    BY <2>3, ServerKeepsHInv DEF Listener, Client
  <2>4. CASE Reader
    BY <2>4, MainPlainKeepsHInv
  <2>5. CASE UNCHANGED vars
    BY <2>5, PlainMoveKeepsHInv
    DEF vars, pipeline, mainVars, npu, ctrlState, switches, lifecycle, server
  <2> QED
    BY <2>1, <2>2, <2>3, <2>4, <2>5 DEF Next
<1>3. HInv => NpuExclusive
  BY DEF HInv, GrantInv, Granting, Released, NpuExclusive
<1> QED
  BY <1>1, <1>2, <1>3, PTL DEF Spec
=============================================================================
