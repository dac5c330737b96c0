-------------------------- MODULE RtspStreamProofs --------------------------
(***************************************************************************)
(* The lifetime of the appsrc elements of the RTSP output, for any number  *)
(* of media: the reference count of an element is the number of its        *)
(* holders.  That a count is positive exactly when there is a holder is    *)
(* not inductive; a decrement needs to know that it takes back a reference *)
(* that was counted.                                                       *)
(***************************************************************************)
EXTENDS RtspStream, TLAPS

\* The holders of the element of media m: the pipeline, the callback that was
\* given the element, the pointer g_appsrc, and the main thread.
One(b) == IF b THEN 1 ELSE 0

Holders(m) ==
  One(m = media /\ alive) + One(m = media /\ conf_pc = "store")
  + One(m = g_appsrc) + One(m = appsrc)

RefsExact == \A m \in Media : refs[m] = Holders(m)

\* An element that is still being stored is not in the pointer yet, the main thread
\* has an element only inside rtsp_stream_push_frame, and no later media exists.
HeldInv ==
  /\ conf_pc = "store" => media \in Media /\ alive /\ g_appsrc < media /\ appsrc < media
  /\ appsrc # 0 <=> main_pc \in {"push", "unref"}
  /\ g_appsrc <= media /\ appsrc <= media

LInv == TypeOK /\ RefsExact /\ HeldInv

\* The flags among the variables.
Flags == /\ g_loop \in BOOLEAN /\ g_server \in BOOLEAN /\ is_running \in BOOLEAN
         /\ client \in BOOLEAN /\ alive \in BOOLEAN

\* LInv holds in every state: each action changes the count of an element exactly
\* when it changes one of its holders.
THEOREM LifetimeInvariant == Spec => []LInv
<1> USE MaxMediaAssumption DEF Media
<1>1. Init => LInv
  <2> SUFFICES ASSUME Init PROVE LInv
    OBVIOUS
  <2> USE DEF Init
  <2>1. TypeOK
    <3>1. Flags
      BY Zenon DEF Flags
    <3> QED
      BY <3>1 DEF Flags, TypeOK
  <2>2. RefsExact
    BY DEF RefsExact, Holders, One
  <2>3. HeldInv
    BY DEF HeldInv
  <2> QED
    BY <2>1, <2>2, <2>3 DEF LInv
<1>2. LInv /\ [Next]_vars => LInv'
  <2> SUFFICES ASSUME LInv, [Next]_vars PROVE LInv'
    OBVIOUS
  <2> USE DEF LInv, TypeOK, RefsExact, HeldInv, Holders, One,
              streamVars, mainVars, glibVars, serverVars
  <2>1. CASE rtsp_stream_init
    BY <2>1 DEF rtsp_stream_init
  <2>2. CASE TakeAppsrc
    BY <2>2 DEF TakeAppsrc
  <2>3. CASE PushBuffer
    BY <2>3 DEF PushBuffer
  <2>4. CASE UnrefAppsrc
    BY <2>4 DEF UnrefAppsrc
  <2>5. CASE ClearAppsrc
    BY <2>5 DEF ClearAppsrc
  <2>6. CASE QuitLoop \/ JoinLoop
    <3>1. TypeOK'
      <4>1. Flags'
        BY <2>6, Zenon DEF Flags, QuitLoop, JoinLoop
      <4> QED
        BY <2>6, <4>1 DEF Flags, QuitLoop, JoinLoop
    <3>2. RefsExact'
      <4>1. UNCHANGED <<refs, g_appsrc, appsrc, media, alive, conf_pc>>
        BY <2>6, Zenon DEF QuitLoop, JoinLoop
      <4> QED
        BY <4>1
    <3>3. HeldInv'
      BY <2>6 DEF QuitLoop, JoinLoop
    <3> QED
      BY <3>1, <3>2, <3>3
  <2>7. CASE RunLoop \/ LoopEnds
    <3>1. TypeOK'
      BY <2>7 DEF RunLoop, LoopEnds
    <3>2. RefsExact'
      BY <2>7 DEF RunLoop, LoopEnds
    <3>3. HeldInv'
      BY <2>7 DEF RunLoop, LoopEnds
    <3> QED
      BY <3>1, <3>2, <3>3
  <2>8. CASE ClientConnects
    BY <2>8 DEF ClientConnects
  <2>9. CASE BuildMedia
    BY <2>9 DEF BuildMedia
  <2>10. CASE on_media_configure
    BY <2>10 DEF on_media_configure
  <2>11. CASE ClientLeaves
    <3>1. TypeOK'
      <4>1. Flags'
        BY <2>11, Zenon DEF Flags, ClientLeaves
      <4> QED
        BY <2>11, <4>1 DEF Flags, ClientLeaves
    <3>2. RefsExact'
      BY <2>11 DEF ClientLeaves
    <3>3. HeldInv'
      BY <2>11 DEF ClientLeaves
    <3> QED
      BY <3>1, <3>2, <3>3
  <2>12. CASE BlackoutBegins \/ BlackoutEnds
    <3>1. /\ main_pc \in {"loop", "dark"} /\ main_pc' \in {"loop", "dark"}
          /\ UNCHANGED <<streamVars, appsrc, g_loop, g_server, glibVars, serverVars>>
      BY <2>12 DEF BlackoutBegins, BlackoutEnds
    <3> QED
      BY <3>1
  <2>13. CASE UNCHANGED vars
    BY <2>13 DEF vars
  <2> QED
    BY <2>1, <2>2, <2>3, <2>4, <2>5, <2>6, <2>7, <2>8, <2>9, <2>10, <2>11, <2>12,
       <2>13
    DEF Next, rtsp_stream_push_frame, rtsp_stream_deinit
<1> QED
  BY <1>1, <1>2, PTL DEF Spec

\* No thread pushes to, stores or releases an element that was freed, and none is
\* left behind without a holder, over any number of media and in any order of
\* pushing, configuring, leaving and stopping.
THEOREM AppsrcLivesAsLongAsUsed == Spec => []AppsrcLifetime
<1>1. LInv => AppsrcLifetime
  BY MaxMediaAssumption
  DEF LInv, TypeOK, RefsExact, Holders, One, AppsrcLifetime, Media
<1> QED
  BY <1>1, LifetimeInvariant, PTL
=============================================================================
