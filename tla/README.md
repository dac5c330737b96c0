# Verification of khadas_yolov8n_multithread

TLA+ models of the YOLOv8n camera pipeline, of its IPC planes and of the
services behind it, TLC runs on small instances and TLAPS proofs for all
instances. Paths are relative to `yolov8n_cap_multithread/` unless they start
with `docs/`.

## 1. The system

```
camera -> main thread -> infer_q -> inference threads (one per NPU core)
              ^  |                        |
              |  +-- display / RTSP       v
              +------------------------ result_q
              |  +-- data_pub.publish -> BoundedQueue -> sender thread
              |                                             | data socket
   control socket -> listener thread                  bytetrack_service
   (pause, blackout, resume, shutdown...)                   | tracks socket
              ^                                        temporal_service
              |                                             | events socket
              +------------ control commands -------- event_summarizer -> LLM
```

### Inventory

| Component | State | Operations | Interaction | What makes it correct |
|---|---|---|---|---|
| Main loop, inference threads (`src/main.cc`) | program counters, `in_flight`, RKNN contexts, `/dev/rknpu` descriptors | capture and submit, pop/draw/publish/recycle, blackout (drain, destroy), resume (re-init, refill), teardown | two blocking queues, shared flags, unlocked `tctxs[i].ctx` | the job count is exact; no thread uses a destroyed context; contexts are replaced only while threads are parked; shutdown and drain end |
| `BufPool` | free list | acquire, release, deinit | main thread only, memory read by the threads | one owner per slot, none lost, acquire never waits |
| `TSQueue` | queue, mutex, condition variable | push, pop | main and inference threads | no lost wake-up, behaves as an atomic FIFO |
| `YoloControlState` | nine atomics, one mutex and condition variable | loads and stores | main, threads, control server | the blackout/resume handshake means what the replies say |
| `UnixControlServer` | listener thread, `running_`, socket | accept, eight commands, stop | sets flags, waits (10 s, 15 s) for main | a confirmed blackout means a free NPU; a resume is confirmed; stop returns |
| `BoundedQueue` | deque, `closed_` | push (two drop policies), pop with a timeout, close | main to sender thread | bounded, in order, keeps the newest |
| `UnixDataPublisher` | sender thread, socket, consumer | publish, accept, send, stop | consumers come, go and stall | in order, at most once, gaps only by overflow or departure; stop returns |
| `IouTracker`, `bytetrack_service` | tracks, next identifier, connections, `g_running` | update (match, spawn, age), reconnect, publish, signal, restart | data socket in, tracks socket out | identifiers unique and not reused, stable matching, nothing invented; frames are dealt with, a signal ends it |
| `TrackManager`, `TrackState`, `temporal_service` | per-track counters, history, region flags, connections | begin/observe/end frame, reconnect, publish, signal, restart | tracks socket in, events socket out | counters agree, region events complete and alternating, lost means unseen; it follows what the tracker follows, also over restarts |
| `event_summarizer` | episode state, aggregate, timers | aggregate, snapshot, run the LLM between blackout and resume | events socket in, control socket out | LLM runs only with the NPU, every blackout is ended |
| Post-processing (`src/postprocess.cc`) | label table and its flag (static) | load labels, threshold, sort, NMS, scale, free | called by the inference threads, freed by main | labels are there when copied; the best of each overlapping group is kept; the quantised threshold means the float one |
| RTSP output (`src/rtsp_stream.cc`) | `g_appsrc` and reference counts, GLib loop, server | init, push, configure media, deinit | main thread, GLib thread, server thread | no freed element is used, none leaks, clients are fed, deinit returns |
| RGA, display, model loading, receivers, scripts | none or library state | I/O | | |

What is hard to test: the handshake flags are relaxed atomics that two threads
set and clear in an order only timing decides; timeouts race late answers;
teardown joins threads that may be blocked in `accept()` or `send()`;
connections break in the middle of a frame; services restart while their
neighbours keep their state; inference threads finish in any order. The hazards are listed line by line in `PROJECT.json`.

## 2. Modules

| Module | Models | State and actions |
|---|---|---|
| `YoloControlState` | `include/ipc/yolo_control_state.h` | the shared flags; one load or store is one step of the modules that use them |
| `UnixControlServer` | `src/ipc/unix_control_server.cc` | `ctl_pc` is the point of the listener thread; one action per command, two or more where a command stores and then waits; `npu_granted` is a history variable: what a client was last told |
| `InferencePipeline` | `src/main.cc` | `main_pc`, `w_pc[i]`: one action per statement another thread can observe; RKNN handles are `<<thread, generation>>`, `live` the handles that exist; `opendir_failed` is a history variable: what kept the descriptors open; the joins of `data_pub.stop()` and of `rtsp_stream_deinit` return or block here, why they do is in `UnixDataPublisher` and `RtspStream` |
| `YoloProcess` | both, interleaved | `Main`, `Worker(i)`, `Listener`, `Client`; `ctrl_server.stop()` joins the listener; `Reader` is the consumer of the data socket that frees a blocked `data_pub.stop()`; `Resting` are the states in which nothing more happens |
| `TSQueue`, `BlockingFifo` | `TSQueue` of `main.cc`; the atomic queue `InferencePipeline` uses | push in two steps (critical section, notify), waiting and woken consumers, spurious wake-ups |
| `BoundedQueue` | `include/ipc/bounded_queue.h` | push, pop and close as operators on a queue, used by the publisher; `kDropOldest`, the policy of the only instance (`kDropNewest` is used nowhere) |
| `UnixDataPublisher`, `DetectionStream` | `src/ipc/unix_data_publisher.cc`; its promise | sender thread, `stop()` step by step, consumers that leave or stall |
| `IouTracker`, `ByteTrackService` | `tracker/src/` | `pc` is the place in the service loop; one step per matching round; frames that arrive whole or break off; signals, crashes, restarts; a consumer that leaves or does not read |
| `TrackSource` | the promise of `bytetrack_service` about identifiers | which are followed, how long each was unseen, which is next |
| `TrackManager` | `temporal/src/` | the steps of `temporal_service`; a frame is one step (the service is single-threaded); `believes` is what a listener of all events concludes |
| `TrackingChain` | both services and the tracks socket | `TrackManager` fed by a `TrackSource` through `wire`; either side may crash and start again at any point, also inside a frame; `since` and `fresh` are history variables |
| `PostProcess` | `src/postprocess.cc` | `pc[t]` and `call[t]` are the place and the locals of each inference thread: the test and load of the labels, one step for the decoding of a frame, for each partition of the sort, for each iteration of `nms`, for the collection; the label table is shared by the threads and main |
| `RtspStream` | `src/rtsp_stream.cc` | `main_pc`, `glib_pc`, `conf_pc` are the three threads, a section under `g_mutex` is one step, `refs` the reference count of each media's appsrc; in a blackout the main thread is `"dark"` and pushes nothing |
| `EventSummarizer` | `tools/event_summarizer.cc` | `state`, `present`, `agg` are the tool's; a frame or a read timeout with the state machine step after it is one action, each control exchange another; the cameras are external: they confirm, refuse, miss or overrun a command. `log`, `quiet`, `stepped`, `troubled` are history variables |
| `MCYoloProcess`, `MCByteTrackService`, `MCPostProcess` | | the symmetry of the slots; the boxes of the instance; the frames of the instance |
| `TSQueueProofs`, `YoloProcessProofs`, `PublisherProofs`, `ByteTrackProofs`, `ChainProofs`, `SummarizerProofs`, `RtspStreamProofs`, `PostProcessProofs` | | theorems about the modules they extend (section 4) |

Abstractions. Pixels, detections, JSON, framing and timing are left out.
`fps` and the performance counters are left out: no decision reads them.
Relaxed atomics are treated as sequentially consistent: every flag is one
variable, and none of the properties needs two flags to become visible out of
order beyond what the interleaving already gives. The free list of the pool is
a set, which allows every order of reuse and includes the code's. `ServerStop`
clears `running_` and closes the socket in one step: the listener may be at any
point in either state, and the state between the two differs from the one
before only in the loop test. A command line or wrong-argument exit and the
start-up failures before the threads exist are not states of the model. The
camera is represented by the failure of its ioctls (`CHECK_IOCTL` calls
`exit`). The IOU is a quotient of integers, so comparisons are exact where the
code uses floats. In `TrackManager` positions lie on a line and frames are
stamped with their number. In `EventSummarizer` the position of a record is the
number of its frame, the sums and maxima of an aggregate are left out, and time
is the saturated difference `now_ms() - departed_ms`: what an unsigned
difference shows after the clock was set is any value of it. In `TrackingChain`
the end and the start of a service are one step, since nothing the other side
does in between depends on which of the two has happened; consumers of the
services change while the service is in `send()`, where it meets them. In
`PostProcess` a probability is the distance of a score from the zero point
(sigmoid is increasing, and the outputs share a scale), the distances that
`decode_box4` computes are given, and the two plain static variables of the
label table are read and written in program order: `fclose` lies between the
store of a label and that of the flag, and a whole decode between the load of
the flag and that of a label. In `RtspStream` the server builds one media at a
time in a thread of its own (the factory is shared and configured under its
lock), connections are accepted by the main loop, and `g_main_loop_run` sets
the flag that `g_main_loop_quit` clears.

## 3. Runs

| Run | Result | Shows |
|---|---|---|
| `proc_safety` | pass | two inference threads, every command, failing `rknn_init` and camera, resumes that overrun: the counts of jobs and sentinels, contexts, slots, the hand-over of contexts and their final destruction are safe |
| `proc_handshake` | pass | "ok" to `blackout` means the NPU is free until `resume` is asked for, if a resume takes less than 15 s; with a camera that may fail at any time, drains end, resumes are answered, slots come back, shutdown completes |
| `pub_stream` | pass | the publisher implements `DetectionStream`, keeps the newest messages and goes on serving a consumer that reads; stop returns |
| `tsq_infer` | pass | no lost wake-up, work is taken, `BlockingFifo` is implemented |
| `bt_track` | pass | the service implements `TrackSource`; the greedy matching is stable; frames are dealt with and signals end the service |
| `chain_tracks` | pass | tracker and temporal service agree on what is followed, over crashes and restarts of either; counters agree, region events are complete and alternate, lost means unseen |
| `ev_episode` | pass | the LLM starts after a full quiet cooldown, reads exactly its episode, has the NPU and gives it back; cooldowns and windows end |
| `pp_detect` | pass | labels are there when copied; detections are ranked and carry their own scores, suppression and limits are justified, the int8 threshold is right to one step |
| `rtsp_stream` | pass | no freed appsrc is used, none leaks; clients are fed outside of blackouts; deinit returns |
| `proc_resume_timeout` | violation | a resume that overran lets the next blackout be confirmed by a stale flag |
| `proc_lost_blackout` | violation | a blackout right after a resume is erased |
| `bt_ghost` | violation | a broken frame yields detections that were never made |

Some passing properties carry the exact exception under which the code does not
keep its promise, so that everything outside it is covered:

* `FinalDestroyOfLiveContexts`: a teardown while `blackout_active` is set (a
  shutdown during a blackout, or a failed `rknn_init` at its end) passes to
  `rknn_destroy` the handles the blackout has destroyed; the property says that
  none of them is live then, and that all are otherwise.
* `NpuExclusive`: descriptors that stay open because `opendir` failed in the
  `release_rknpu_fds` of this very blackout, which main confirms all the same
  (`main.cc:162`). That no RKNN context is left has no exception.
* `ShutdownCompletes`, `FrameRecycled`, `StopReturns`: a thread that is already
  inside `accept()` when `stop()` closes the socket. The comments say that
  `close()` ends the call; on Linux it does not, and the join waits for another
  client or consumer. The teardown joins three threads that can hang, and
  `StopHangs` names the three places: the listener in `ctrl_server.stop()`, the
  sender in `data_pub.stop()` (in `accept()`, or in `send()` to a consumer that
  does not read) and the GLib thread in `rtsp_stream_deinit`.
* `ResumeConfirmedEventually`: a camera whose ioctl fails ends the process before
  the answer.
* `ClientFed`: the time of a blackout, in which nothing is pushed. A client is fed
  if the blackouts come to an end; one that meets only dark phases is not. Nothing
  says that a blackout ends: that depends on the client that asked for it, and
  when `accept()` has failed the listener is gone and nobody can ask for the end
  (a state of `Resting`).
* `StopReturns`, `SignalEnds`, `FrameDone`: a consumer that stays connected and
  does not read; `SignalEnds` also a service that waits in `read()`, which a
  handler installed by `signal()` restarts.
* `RestartForgotten` bounds the time in which an object may inherit the history
  of another after a restart of the tracker; it does not exclude it.
* `LabelsNamed`: a label file that is missing or too short, which `post_process`
  does not notice. `ThresholdHonoured`: a raw score of 0 or less, which the
  search for the best class drops whatever the threshold is.
* `DeinitReturns`: a `g_main_loop_quit` that comes before the thread has entered
  the loop.
* `QuietBeforeLlm`: a wall clock set during the cooldown. `LlmOwnsNpu` and
  `CamerasRelit`: a camera that left a command unconfirmed (`send_control` reads
  the reply and drops it). `SnapshotFaithful` counts from the second frame of an
  episode: the first is judged by the state before it and is not aggregated.

The types of the process are checked and proved; those of the blocking queue,
the publisher, the summarizer, the RTSP output and the post-processing are proved, as a part of their
invariants; `TypeOK` of the other modules documents their state and has no run of
its own.

Each violation run checks a statement of a comment or document; `PROJECT.json`
quotes it under `findings`.

### Bounds

* `N_THREADS = 2` (3 in the code) with `N_BUF = N_THREADS + 2` slots in
  `proc_safety`: two threads are what it takes for results to overtake each other
  and for one thread to be busy while another is parked. The slots are
  symmetric. `proc_handshake` uses one thread, because the graph with fairness is
  checked without symmetry, and with two threads it does not end in five minutes.
  What several threads add to a shutdown is that each of them needs a sentinel of
  its own: `InFlightExact` counts them, in `proc_safety` with two threads (which is
  also checked for deadlocks) and in `InFlightIsExact` for every number.
* `FRAME_MOD = 1`: no guard reads a frame number, so states that differ only in
  the numbers behave alike.
* RKNN generations alternate between 0 and 1: a thread's handle has to differ
  only from the one it had before the last blackout.
* `Commands` is the full set in `proc_safety` and the ones that matter to the
  properties elsewhere. The number of commands, clients and blackouts is not
  bounded.
* Publisher: capacity 2, up to 6 messages, up to 3 consumers: the queue
  overflows, drains and overflows again, and a consumer is replaced in between.
* Tracker: three boxes overlapping like beads on a string, the middle
  one of either class, up to three detections per frame, `kMaxAge = 1`, five
  identifiers in the life of a process: tracks are lost, found again, dropped and
  replaced. The number of frames, signals and restarts is not bounded.
* Chain: two tracks, two positions, one frame in the socket, four frames in the
  life of a `temporal_service`, both limits 1, `kTentativeFrames = 2`, a history
  of four: every pattern of sightings, a track that is dropped and comes back,
  and restarts of either side in every state. Restarts are not bounded.
* Post-processing: five grid cells in two outputs, scores 5, 6 and 127 with zero
  points 8 and 9 (at one the cut to int8 lets a score pass that the float
  threshold would not, at the other it is refused), and 0 and 127 with zero point
  1 (0 reaches the threshold and is dropped), `TOP_K = 4` and two results, so
  that both limits cut. One class, as in the code. The second thread has a frame
  without detections only: the threads share nothing but the labels, and the
  proofs are for any frames.
* RTSP: four media one after the other, any number of blackouts.
* Summarizer: two tracks, two cameras, a cooldown of two ticks, episodes of up to
  four frames (begin, sightings, dropout, return, departure in every order) and
  any number of episodes; the clock is set at most once in a cooldown.
* `TSQueue`: two producers (the teardown's sentinels and jobs come from one
  thread in the code, two is more general), three consumers, three items.

### Environment constants

`InitMayFail`, `DupMayFail`, `CameraMayFail`: which library calls may fail when
a blackout ends. No run sets `DupMayFail`: the result of `rknn_dup_context` is
not tested, so a failure leaves a thread with a destroyed handle and
`NoUseAfterDestroy` does not hold. `ResumeMayOverrun`: may main need more than the 15 s the
`resume` handler waits for it. The 10 s of `blackout` may always pass.
`ConsumerMayStall`: may a consumer stay connected and not read; TRUE in
`pub_stream`. `InputMayBreak`: may the data connection break inside a frame;
TRUE in `bt_ghost` and `bt_track`. `LabelsMayFail`: may the label file be incomplete; TRUE.

### Fairness

`FairSpec` of `YoloProcess` has weak fairness for the main thread, for each
inference thread and for the listener thread: the operating system does not
starve a runnable thread, the camera delivers frames at its rate, RKNN calls
return and waits with a timeout expire. It also assumes that a client does not
keep its connection open for ever without a request: the code has no receive
timeout, and every client in the repository closes after its reply. Nothing is
assumed about commands being sent, about new clients, or about a consumer that
would free a blocked `data_pub.stop()`. The publisher's sender thread is fair and a
stop that was begun is carried out; consumers are free to leave, and are not
obliged to come. In `TSQueue` a push reaches its notification and a woken
consumer runs; nobody is obliged to push or to pop. The summarizer finds a
connection again (weak fairness of `Connect`), the stream does not break before
every single read completes or times out (strong fairness of `Receive`, which
`Disconnect` disables each time), control exchanges end because the server
answers within its timeouts, the LLM command returns, and time passes. Slow
cameras are not obliged to serve what they owe. In `ByteTrackService` the
service is scheduled and its attempts to connect end; nobody is obliged to send
it a frame or to read what it sends. In `RtspStream` the main loop goes on
displaying frames outside of a blackout, nothing is assumed about the end of a
blackout, the GLib thread and a media configuration that was begun are
scheduled; clients are not obliged to come or to stay.

## 4. Proofs

All theorems hold for every value of the constants that satisfies the named
assumptions of the modules (at least one thread, `N_THREADS + 2` slots, a
sentinel index that is no slot, a capacity of at least one, detections with
integer corners, at least one camera). What a theorem assumes beyond them is in
its statement:

| Assumption | Theorems | Why |
|---|---|---|
| `~DupMayFail` | `NoThreadUsesDestroyedContext`, `EndDestroysLiveContexts` | the result of `rknn_dup_context` is not tested; after a failure a thread keeps a handle the blackout destroyed |
| `~ResumeMayOverrun` | `NpuIsExclusive` | `proc_resume_timeout` is the counterexample without it |
| `OBJ_CLASS_NUM = 1` | `SuppressionAlwaysJustified` | the code's value; `nms` looks the class up by the position in the sorted order, so with several classes it may suppress across classes and spare within one |
| `ThresMilli < 1000` | `ThresholdAlwaysHonoured` | the logit of a threshold of at most one half is not positive (the code's is 0.45); far above, the cut to 127 lets scores pass that are more than a step below |
| `kMaxAge = kMaxFramesLost` | `ChainInvariant`, `TheServicesAgree` | both are 30 in the code, in two files that do not know of each other; with a longer `kMaxAge` the tracker may show again a track that temporal_service has dropped |

* `TSQueueProofs`: `TypeCorrect`; `NoWakeupLost`, for any finite sets of
  threads. The invariant is inductive together with the types: a push adds an
  item and a pending notification, a notification turns a pending one into an
  awake consumer or finds nobody waiting, a consumer goes to sleep only on an
  empty queue, and taking an item removes one from both sides. `QueueImplementsFifo`:
  every step is a push, a pop or a stutter of `BlockingFifo`, which justifies
  the atomic queues of `InferencePipeline`.
* `YoloProcessProofs`: the inductive invariant `IInv` is the types with
  `TodoInv` (a loop that is entered has an iteration left), `HandsInv` (who is
  to hand on a slot holds one), `JobsCounted` (`in_flight` is the number of jobs
  queued, in work and returned), `RunningInv` (no sentinel and no
  ended thread before the teardown), `DrainedInv` (nothing in flight from the end
  of the drain to the refill) and `PoolInv` (the pool outlives the threads).
  Types alone are not inductive: that `in_flight` stays a natural number follows
  from its being a count. From it: `TypeCorrect`, `InFlightIsExact`
  (with `SentinelsCounted`: the sentinels still to be pushed, those queued and
  the threads that have ended add up to `N_THREADS`),
  `HandoverIsRaceFree` (a count of 0 means both queues are empty and no thread
  is busy). `NoThreadUsesDestroyedContext` adds `ContextInv` (the contexts exist,
  or no thread has or can get a job).
  `EverySlotHasOneOwner` adds `SlotInv`: every slot has exactly one owner
  (`OwnersInv`, a sum over the two queues, the threads' hands, the pool and
  main's hand, with `EmptyHandsInv` for hands that must be empty before they
  take), and the loops that capture never have more than `N_THREADS` jobs in
  flight (`RoomInv`). That the pool is not empty where main acquires (the code
  does not test the result) is then a pigeonhole argument: fewer slots are used
  than there are. `EndDestroysLiveContexts` adds `HandlesInv`: at every point of
  main either all handles are live or none is, and `blackout_active`, which is
  all the end of main can go by, says which.
  `NpuIsExclusive` is about the handshake: `NpuExclusive` speaks of what a client was
  told; `HInv` says what the flags mean between two steps: which points of main
  have no context, and no descriptor unless `opendir` failed (`LiveInv`), that `blackout_active` is up only at those points
  or while the `resume` handler waits (`ActiveInv`, `ResumeInv`), and that a
  confirmation is sent only then (`GrantInv`).
* `PublisherProofs`: `WindowInvariant` shows that the queue is always a window of
  consecutive publications that ends with the newest (`QueueWindow`), with where
  the sender holds a message and has a consumer (`SenderInv`). `NewestWindow`
  follows. `DeliveredInOrder`: what was received is increasing; inductive
  with `Behind` (the message in hand is newer than what was received and older
  than the queue). `PublisherKeepsPromise`: every step is one of
  `DetectionStream` or a stutter, its pending messages being the one in the
  sender's hands followed by the queue.
* `ByteTrackProofs`: `TrackerInvariant` says what the vectors of
  `IouTracker::update` hold between two rounds of its loop: identifiers below
  `next_id_`, one per track (`IdsInv`), a track for one detection at most
  (`MatchInv`), room for the identifiers of the frame (`FrameInv`), and
  for every pair the loop has passed over a pair it preferred (`StableInv`),
  which is why the end is stable although a single round looks only at the best
  pair. From it `IdentifiersAreUnique`, `GreedyMatchingIsStable` and
  `ServiceKeepsTrackPromise`, the refinement of `TrackSource`, with `UpdateEffect` for what an
  update does to the set of identifiers and their ages.
* `ChainProofs`: `ManagerInvariant` is about temporal_service, whatever it is
  sent: the counters of each track determine each other and the frame number
  (`TracksInv`), what the listener believes is what the tracks say
  (`ListenerInv`), and a track not seen since the connection was missed in every
  frame since (`ForgetInv`). From it `TrackCountersAgree`, `RoiEventsComplete`,
  `RoiEventsAlternate` and `RestartIsForgotten`. `TheServicesAgree` needs
  `ChainInv`, because the two services are never in the same frame: `Ahead` says
  what the frames still in the socket will make of a track, so that what
  temporal_service has counted plus what waits for it is the tracker's count.
  The chain uses `TrackSource` in the place of the service, which
  `ServiceKeepsTrackPromise` justifies.
* `SummarizerProofs`: three invariants for the promises of the LLM window.
  `ControlInvariant`: the place in the loop fits the state, and in a cooldown the
  time since the departure is no more than the quiet time (`LlmAfterQuiet`).
  `CameraInvariant`: the loops over the devices have dealt with exactly the
  devices before `next`; a camera outside of that has left a command unconfirmed
  (`LlmHasTheNpu`, `CamerasAreRelit`). `AggregateInvariant`: the aggregate
  summarises the frames since the second of the episode (`LlmReadsTheEpisode`).
* `RtspStreamProofs`: `LifetimeInvariant` makes the reference count of an element
  the number of its holders (pipeline, callback, `g_appsrc`, main thread); that a
  count is positive when someone holds the element is not inductive without
  it. `AppsrcLivesAsLongAsUsed` follows.
* `PostProcessProofs`: `CallInvAlways` says what a thread's locals hold at each
  place (`ThreadInv`). In the sort the array is a permutation of the candidates,
  each with its own score (`Perm`), the segments to come are disjoint (`Segs`),
  and two elements in the wrong order lie in a common one (`SortedBut`); while a
  segment is partitioned this is true of the array with the pivot in the hole
  (`Filled`), where each round of the loop is two exchanges inside the segment,
  and the elements outside `low .. high` are on the right side of the pivot
  (`Partitioned`). In `nms` the positions whose turn has come have suppressed what
  they overlap, and what is suppressed has such a position before it that
  survives (`SuppressedBy`); overlap is symmetric. The n-th cell and the r-th
  survivor are chosen by rank, so `RankEnumerates` shows that ranks enumerate a
  finite ordered set. From it `SuppressionAlwaysJustified` (a candidate cut off
  by a limit has that many no worse before it, by counting),
  `ThresholdAlwaysHonoured` (`ThresholdInInt8`) and `PartitionAlwaysShrinks` (a
  round that stops at `high` moves an element greater than the pivot to `low`, so
  the second inner loop passes it). `LabelsAlwaysNamed` adds
  `LabelInv`: as long as some thread is past the load, or finds the flag cleared,
  and the threads are not joined, all labels are there. That the flag is cleared
  does not say so by itself: after `deinitPostProcess` it stays cleared.

Only model-checked:

* the liveness properties (`DrainCompletes`, `ResumeConfirmedEventually`,
  `FrameRecycled`, `ShutdownCompletes`, `StopReturns`, `ConsumerServed`, `WorkIsTaken`,
  `SignalEnds`, `FrameDone`, `CooldownEnds`, `WindowCloses`, `ClientFed`,
  `DeinitReturns`): fairness is beyond the prover.

Every safety invariant, action property and refinement that a passing run checks
is stated by a theorem. That the sort ends is not a property of a run; what could
keep it from ending, a round of the partition loop that changes nothing, is
excluded by `PartitionAlwaysShrinks`.

## 5. Not modelled

* `decode_box4` and `fast_expf`: floating-point softmax; its result is an input.
* Velocity, heading and acceleration of `TrackState`: floating-point filters no
  decision of the program reads.
* The V4L2 buffers of `camera_util.cc`: one thread dequeues, converts and
  requeues one buffer; only the failures change what the pipeline does.
* RGA conversion, local display, model loading: calls into libraries from one
  thread, without state of their own.
* The receivers and the control client: sequential programs that print what
  they read. They are clients and consumers the models leave free to do more.
* Packed layouts of the wire protocol (sizes are asserted at compile time), the
  build and board scripts.

## 6. Plan

1. Done: shared state, control server, pipeline and their composition; queues;
   publisher with its abstract stream; tracker with its abstract source, temporal
   service and the chain of both with restarts; summarizer; post-processing; RTSP
   output; proofs of every safety invariant and action property that the passing
   runs check, and of the three refinements.
2. `NpuHandover`: the abstract blackout/resume protocol (dark, lit, owed), with
   `YoloProcess` shown to implement it and the cameras of `EventSummarizer`
   replaced by instances of it.
