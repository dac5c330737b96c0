---------------------------- MODULE RtspStream ----------------------------
(***************************************************************************)
(* src/rtsp_stream.cc: the RTSP output.  The main thread pushes frames into *)
(* the appsrc of the current media and tears the server down, the GLib     *)
(* thread runs the main loop, and a thread of the RTSP server builds the   *)
(* media when a client asks for the stream and calls on_media_configure.   *)
(* The appsrc elements are reference counted; every media has one.         *)
(*                                                                         *)
(* The GStreamer server and GLib are external: one media at a time, since  *)
(* the factory is shared, released when its clients have left.             *)
(***************************************************************************)
EXTENDS Integers, FiniteSets

CONSTANT MaxMedia    \* how many media are ever built

ASSUME MaxMediaAssumption == MaxMedia \in Nat

VARIABLES
  g_appsrc,     \* the element frames are pushed to, 0 for nullptr
  g_loop,       \* does the main loop exist?
  g_server,     \* does the server exist?
  refs,         \* the reference count of the appsrc of each media
  main_pc, appsrc,      \* the main thread, and its local variable
  glib_pc, is_running,  \* the GLib thread, and the flag of the main loop
  client,               \* there is a client
  media,                \* the last media that was built
  alive,                \* its pipeline exists
  conf_pc               \* the server's thread

streamVars == <<g_appsrc, refs>>
mainVars == <<main_pc, appsrc, g_loop, g_server>>
glibVars == <<glib_pc, is_running>>
serverVars == <<client, media, alive, conf_pc>>
vars == <<streamVars, mainVars, glibVars, serverVars>>

Media == 1 .. MaxMedia

Init ==
  /\ g_appsrc = 0 /\ appsrc = 0 /\ media = 0
  /\ refs = [m \in Media |-> 0]
  /\ g_loop = FALSE /\ g_server = FALSE /\ is_running = FALSE
  /\ client = FALSE /\ alive = FALSE
  /\ main_pc = "start" /\ glib_pc = "none" /\ conf_pc = "idle"

----------------------------------------------------------------------------
(* The main thread.                                                        *)

rtsp_stream_init ==
  /\ main_pc = "start"
  /\ main_pc' = "loop"
  /\ g_loop' = TRUE
  /\ g_server' = TRUE
  /\ glib_pc' = "created"
  /\ UNCHANGED <<streamVars, appsrc, is_running, serverVars>>

\* Mutant of TakeAppsrc: the element is used without a reference of its own.
TakeAppsrcBare ==
  /\ main_pc = "loop"
  /\ g_appsrc # 0
  /\ appsrc' = g_appsrc
  /\ main_pc' = "push"
  /\ UNCHANGED <<g_appsrc, refs, g_loop, g_server, glibVars, serverVars>>

\* rtsp_stream_push_frame under the mutex; without an element the frame is dropped.
TakeAppsrc ==
  /\ main_pc = "loop"
  /\ g_appsrc # 0
  /\ appsrc' = g_appsrc
  /\ refs' = [refs EXCEPT ![g_appsrc] = @ + 1]
  /\ main_pc' = "push"
  /\ UNCHANGED <<g_appsrc, g_loop, g_server, glibVars, serverVars>>

PushBuffer ==
  /\ main_pc = "push"
  /\ main_pc' = "unref"
  /\ UNCHANGED <<streamVars, appsrc, g_loop, g_server, glibVars, serverVars>>

UnrefAppsrc ==
  /\ main_pc = "unref"
  /\ refs' = [refs EXCEPT ![appsrc] = @ - 1]
  /\ appsrc' = 0
  /\ main_pc' = "loop"
  /\ UNCHANGED <<g_appsrc, g_loop, g_server, glibVars, serverVars>>

\* The main loop enters a blackout and idles without pushing, until it is resumed or
\* shut down.  A new blackout may come before the first frame after the last one.
BlackoutBegins ==
  /\ main_pc = "loop"
  /\ main_pc' = "dark"
  /\ UNCHANGED <<streamVars, appsrc, g_loop, g_server, glibVars, serverVars>>

BlackoutEnds ==
  /\ main_pc = "dark"
  /\ main_pc' = "loop"
  /\ UNCHANGED <<streamVars, appsrc, g_loop, g_server, glibVars, serverVars>>

\* rtsp_stream_deinit, called after the last push: end of stream, under the mutex.
ClearAppsrc ==
  /\ main_pc \in {"loop", "dark"}
  /\ refs' = [m \in Media |-> IF m = g_appsrc THEN refs[m] - 1 ELSE refs[m]]
  /\ g_appsrc' = 0
  /\ main_pc' = "quit"
  /\ UNCHANGED <<appsrc, g_loop, g_server, glibVars, serverVars>>

\* Mutant of QuitLoop: the thread is joined without telling the loop to end.
QuitLoopSkipped ==
  /\ main_pc = "quit"
  /\ main_pc' = "join"
  /\ UNCHANGED <<streamVars, appsrc, g_loop, g_server, glibVars, serverVars>>

\* g_main_loop_quit.
QuitLoop ==
  /\ main_pc = "quit"
  /\ is_running' = FALSE
  /\ main_pc' = "join"
  /\ UNCHANGED <<streamVars, appsrc, g_loop, g_server, glib_pc, serverVars>>

JoinLoop ==
  /\ main_pc = "join"
  /\ glib_pc = "ended"
  /\ g_loop' = FALSE
  /\ g_server' = FALSE
  /\ main_pc' = "done"
  /\ UNCHANGED <<streamVars, appsrc, glibVars, serverVars>>

----------------------------------------------------------------------------
(* The GLib thread: g_main_loop_run sets the flag itself.                  *)

RunLoop ==
  /\ glib_pc = "created"
  /\ glib_pc' = "running"
  /\ is_running' = TRUE
  /\ UNCHANGED <<streamVars, mainVars, serverVars>>

LoopEnds ==
  /\ glib_pc = "running"
  /\ ~is_running
  /\ glib_pc' = "ended"
  /\ UNCHANGED <<streamVars, is_running, mainVars, serverVars>>

----------------------------------------------------------------------------
(* The server's thread.                                                    *)

\* Connections are accepted by the main loop.
ClientConnects ==
  /\ glib_pc = "running"
  /\ ~client
  /\ client' = TRUE
  /\ UNCHANGED <<streamVars, mainVars, glibVars, media, alive, conf_pc>>

\* The pipeline holds one reference, on_media_configure gets another.
BuildMedia ==
  /\ client /\ ~alive /\ conf_pc = "idle"
  /\ media < MaxMedia
  /\ media' = media + 1
  /\ refs' = [refs EXCEPT ![media'] = 2]
  /\ alive' = TRUE
  /\ conf_pc' = "store"
  /\ UNCHANGED <<g_appsrc, mainVars, glibVars, client>>

\* Mutant of on_media_configure: only the first element is stored.
on_media_configureOnce ==
  /\ conf_pc = "store"
  /\ g_appsrc' = IF g_appsrc = 0 THEN media ELSE g_appsrc
  /\ refs' = [refs EXCEPT ![media] = IF g_appsrc = 0 THEN @ ELSE @ - 1]
  /\ conf_pc' = "idle"
  /\ UNCHANGED <<mainVars, glibVars, client, media, alive>>

\* Under the mutex: the old element is released, the new one stored.
on_media_configure ==
  /\ conf_pc = "store"
  /\ refs' = [m \in Media |-> IF m = g_appsrc THEN refs[m] - 1 ELSE refs[m]]
  /\ g_appsrc' = media
  /\ conf_pc' = "idle"
  /\ UNCHANGED <<mainVars, glibVars, client, media, alive>>

\* The last client leaves: the pipeline is released.
ClientLeaves ==
  /\ client /\ conf_pc = "idle"
  /\ client' = FALSE
  /\ alive' = FALSE
  /\ refs' = [m \in Media |-> IF alive /\ m = media THEN refs[m] - 1 ELSE refs[m]]
  /\ UNCHANGED <<g_appsrc, mainVars, glibVars, media, conf_pc>>

rtsp_stream_push_frame == TakeAppsrc \/ PushBuffer \/ UnrefAppsrc

rtsp_stream_deinit == QuitLoop \/ JoinLoop

Next ==
  \/ rtsp_stream_init \/ rtsp_stream_push_frame \/ BlackoutBegins \/ BlackoutEnds
  \/ ClearAppsrc \/ rtsp_stream_deinit
  \/ RunLoop \/ LoopEnds
  \/ ClientConnects \/ BuildMedia \/ on_media_configure \/ ClientLeaves

Spec == Init /\ [][Next]_vars

\* Outside a blackout the main loop goes on displaying frames, and no thread is
\* starved.  Nothing says that a blackout ends.
FairSpec ==
  /\ Spec
  /\ WF_vars(rtsp_stream_push_frame \/ rtsp_stream_deinit)
  /\ WF_vars(RunLoop \/ LoopEnds)
  /\ WF_vars(on_media_configure)

----------------------------------------------------------------------------
TypeOK ==
  /\ g_appsrc \in 0 .. MaxMedia /\ appsrc \in 0 .. MaxMedia /\ media \in 0 .. MaxMedia
  /\ refs \in [Media -> 0 .. 3]
  /\ g_loop \in BOOLEAN /\ g_server \in BOOLEAN /\ is_running \in BOOLEAN
  /\ client \in BOOLEAN /\ alive \in BOOLEAN
  /\ main_pc \in {"start", "loop", "dark", "push", "unref", "quit", "join", "done"}
  /\ glib_pc \in {"none", "created", "running", "ended"}
  /\ conf_pc \in {"idle", "store"}

\* An element lives exactly as long as something refers to it: its pipeline, the
\* callback that is storing it, the pointer g_appsrc or the main thread that pushes
\* to it.  So no thread touches an element that was freed, although its media may be
\* released or replaced meanwhile, and none is left behind.  (The element that
\* on_media_configure stores after rtsp_stream_deinit has cleared the pointer stays
\* where it is: nothing clears the pointer again.)
AppsrcLifetime ==
  \A m \in Media : refs[m] > 0 <=>
    \/ m \in {appsrc, g_appsrc}
    \/ m = media /\ (alive \/ conf_pc = "store")

\* A client that stays gets frames, also when an earlier one had its own media, and
\* also when its media was built in a blackout that has been resumed since.  (In a
\* blackout the stream is dark: a client whose camera stays in one, or goes from one
\* to the next, may see no frame.)
ClientFed ==
  <>[](main_pc # "dark") =>
    \A m \in Media :
      (alive /\ media = m /\ conf_pc = "idle")
        ~> \/ main_pc = "push" /\ appsrc = m
           \/ ~(alive /\ media = m)
           \/ main_pc \in {"quit", "join", "done"}

\* rtsp_stream_deinit returns when it finds the loop running.  (A quit that comes
\* before the thread has entered g_main_loop_run is lost, since that sets the flag
\* again: then nothing ends the loop, and the join waits for ever.)
DeinitReturns == (main_pc = "quit" /\ glib_pc = "running") ~> main_pc = "done"
=============================================================================
