-------------------------- MODULE SummarizerProofs --------------------------
(***************************************************************************)
(* The event summarizer for any number of cameras and tracks, any cooldown *)
(* and episodes of any length.  Three invariants, each for one of the      *)
(* promises of the LLM window: what the timers say about the scene, what   *)
(* the loop over the devices has done so far, and what the aggregate has   *)
(* seen of the frames of the episode.                                      *)
(***************************************************************************)
EXTENDS EventSummarizer, SequenceTheorems, TLAPS

WindowPcs == {"blackout", "snapshot", "llm", "resume", "close"}

\* The tool is in the LLM window exactly while it is in state LlmWindow; the loops
\* over the devices start with the first one.
PcInv ==
  /\ state = "LlmWindow" <=> pc \in WindowPcs
  /\ next # 1 => pc \in {"blackout", "resume"} /\ use_control
  /\ pc = "blackout" => use_control

\* In a cooldown the time since the departure is no more than the time since a
\* drone was reported, unless the wall clock was set.
TimerInv ==
  /\ state = "Cooldown" => stepped \/ since <= quiet
  /\ state = "LlmWindow" => stepped \/ quiet = Cooldown

CtlInv == TypeOK /\ PcInv /\ TimerInv

\* The parts of the type invariant, by the kind of reasoning they take.
Flags ==
  use_control \in BOOLEAN /\ qwen_cmd \in BOOLEAN /\ present \in BOOLEAN /\ stepped \in BOOLEAN

Places ==
  /\ pc \in {"connect", "recv", "blackout", "snapshot", "llm", "resume", "close"}
  /\ next \in Devices
  /\ state \in {"NoDrone", "DronePresent", "Cooldown", "LlmWindow"}

Times == since \in 0 .. Cooldown /\ quiet \in 0 .. Cooldown

Cameras ==
  /\ cam \in [Devices -> {"lit", "dark"}]
  /\ owed \in [Devices -> {"none", "blackout", "resume"}]
  /\ troubled \subseteq Devices

Episode ==
  /\ DOMAIN agg \subseteq TrackIds
  /\ agg \in [DOMAIN agg -> AggTracks]
  /\ log \in Seq(SUBSET TrackIds)
  /\ Len(log) <= MaxFrames

\* The type invariant is the conjunction of its parts.
LEMMA TypeParts == TypeOK <=> Flags /\ Places /\ Times /\ Cameras /\ Episode
BY DEF TypeOK, Flags, Places, Times, Cameras, Episode

----------------------------------------------------------------------------
(* Operators.                                                              *)

\* Saturating addition.
LEMMA MinOfTwo ==
  ASSUME NEW a \in Int, NEW b \in Int
  PROVE  Min({a, b}) = IF a <= b THEN a ELSE b
<1> DEFINE m == IF a <= b THEN a ELSE b
<1>1. m \in {a, b} /\ \A y \in {a, b} : m <= y
  OBVIOUS
<1>2. \A x \in {a, b} : (\A y \in {a, b} : x <= y) => x = m
  OBVIOUS
<1>3. Min({a, b}) \in {a, b} /\ \A y \in {a, b} : Min({a, b}) <= y
  BY <1>1 DEF Min
<1> QED
  BY <1>2, <1>3

\* An element of a set of naturals that bounds it from below is its minimum.
LEMMA MinIs ==
  ASSUME NEW S \in SUBSET Nat, NEW m \in S, \A y \in S : m <= y
  PROVE  Min(S) = m
<1>1. Min(S) \in S /\ \A y \in S : Min(S) <= y
  BY DEF Min
<1>2. Min(S) \in Nat /\ m \in Nat
  BY <1>1
<1>3. Min(S) <= m /\ m <= Min(S)
  BY <1>1
<1> QED
  BY <1>2, <1>3

\* An element of a set of naturals that bounds it from above is its maximum.
LEMMA MaxIs ==
  ASSUME NEW S \in SUBSET Nat, NEW m \in S, \A y \in S : m >= y
  PROVE  Max(S) = m
<1>1. Max(S) \in S /\ \A y \in S : Max(S) >= y
  BY DEF Max
<1>2. Max(S) \in Nat /\ m \in Nat
  BY <1>1
<1>3. Max(S) >= m /\ m >= Max(S)
  BY <1>1
<1> QED
  BY <1>2, <1>3

\* An aggregate that starts anew is empty.
LEMMA EmptyAggregate ==
  DOMAIN <<>> = {} /\ <<>> \in [{} -> AggTracks]
OBVIOUS

----------------------------------------------------------------------------
(* The control of the tool and its timers.                                 *)

\* The aggregate of a longer episode has the type of an aggregate.
LEMMA AggregatedType ==
  ASSUME Episode, NEW live \in SUBSET TrackIds, Len(log) < MaxFrames
  PROVE  /\ DOMAIN Aggregated(live) \subseteq TrackIds
         /\ Aggregated(live) \in [DOMAIN Aggregated(live) -> AggTracks]
<1>1. Len(log) + 1 \in 1 .. MaxFrames
  BY SummarizerAssumption, LenProperties DEF Episode
<1>2. \A id : UpdateAggregate(id, Len(log) + 1) \in AggTracks
  BY <1>1 DEF UpdateAggregate, AggTracks, Episode
<1>3. CASE state \notin {"DronePresent", "Cooldown"}
  BY <1>3 DEF Aggregated, Episode
<1>4. CASE state \in {"DronePresent", "Cooldown"}
  BY <1>2, <1>4 DEF Aggregated, Episode
<1> QED
  BY <1>3, <1>4

\* A look at the scene keeps the invariant of the control and moves the state
\* machine by one of its edges.
LEMMA FsmKeepsCtl ==
  ASSUME CtlInv, NEW p \in BOOLEAN, NEW a, Fsm(p, a), pc = "recv",
         quiet' \in 0 .. Cooldown, p \/ quiet' = quiet, UNCHANGED <<use_control, next>>
  PROVE  PcInv' /\ TimerInv' /\ Places' /\ since' \in 0 .. Cooldown
<1> USE SummarizerAssumption
<1>1. Places /\ Times
  BY TypeParts DEF CtlInv
<1>2. CASE UNCHANGED <<state, pc, since, stepped>> /\ (state = "Cooldown" => ~p)
  BY <1>1, <1>2 DEF CtlInv, PcInv, TimerInv, Places, Times, WindowPcs
<1>3. CASE state' = "DronePresent" /\ UNCHANGED <<pc, since, stepped>>
  BY <1>1, <1>3 DEF CtlInv, PcInv, TimerInv, Places, Times, WindowPcs
<1>4. CASE Depart
  BY <1>1, <1>4 DEF Depart, CtlInv, PcInv, TimerInv, Places, Times, WindowPcs
<1>5. CASE EnterWindow /\ ~p /\ since >= Cooldown /\ state = "Cooldown" /\ UNCHANGED <<since, stepped>>
  BY <1>1, <1>5 DEF EnterWindow, CtlInv, PcInv, TimerInv, Places, Times, WindowPcs
<1> QED
  BY <1>2, <1>3, <1>4, <1>5 DEF Fsm, InCooldown

\* Every step of the tool, of the clock and of the cameras keeps the types, the
\* correspondence of state and place, and the order of the timers.
THEOREM ControlInvariant == Spec => []CtlInv
<1> USE SummarizerAssumption DEF Devices
<1>1. Init => CtlInv
  <2> SUFFICES ASSUME Init PROVE CtlInv
    OBVIOUS
  <2> USE DEF Init
  <2>1. Flags
    BY Zenon DEF Flags
  <2>2. Places /\ Times /\ Cameras
    BY DEF Places, Times, Cameras
  <2>3. Episode
    BY EmptyAggregate, EmptySeq DEF Episode
  <2>4. PcInv /\ TimerInv
    BY DEF PcInv, TimerInv, WindowPcs
  <2> QED
    BY <2>1, <2>2, <2>3, <2>4, TypeParts DEF CtlInv
<1>2. CtlInv /\ [Next]_vars => CtlInv'
  <2> SUFFICES ASSUME CtlInv, [Next]_vars PROVE CtlInv'
    OBVIOUS
  <2>0. Flags /\ Places /\ Times /\ Cameras /\ Episode /\ PcInv /\ TimerInv
    BY TypeParts DEF CtlInv
  <2> USE DEF options, episode, timers, cameras
  <2>1. Flags' /\ Places' /\ Times' /\ Cameras' /\ Episode' /\ PcInv' /\ TimerInv' => CtlInv'
    BY TypeParts, PTL DEF CtlInv
  <2>2. ASSUME NEW ids \in SUBSET TrackIds, NEW frame \in [ids -> Records], RecvFrame(frame)
        PROVE  CtlInv'
    <3> DEFINE live == {id \in DOMAIN frame : IsDrone(frame[id])}
    <3>1. /\ pc = "recv" /\ Len(log) < MaxFrames
          /\ present' = (live # {})
          /\ log' = IF state = "NoDrone" /\ live = {} THEN <<>> ELSE Append(log, live)
          /\ quiet' = IF live = {} THEN quiet ELSE 0
          /\ Fsm(live # {}, Aggregated(live))
          /\ UNCHANGED <<use_control, qwen_cmd, next, cam, owed, troubled>>
      BY <2>2 DEF RecvFrame
    <3>2. live \in SUBSET TrackIds
      BY <2>2
    <3> HIDE DEF live
    <3>3. (live # {}) \in BOOLEAN /\ quiet' \in 0 .. Cooldown /\ (live # {} \/ quiet' = quiet)
      BY <2>0, <3>1 DEF Times
    <3>4. PcInv' /\ TimerInv' /\ Places' /\ Times'
      BY <3>1, <3>3, FsmKeepsCtl DEF Times
    <3>5. Cameras'
      BY <2>0, <3>1 DEF Cameras
    <3>6. Episode'
      <4>1. log' \in Seq(SUBSET TrackIds) /\ Len(log') <= MaxFrames
        BY <2>0, <3>1, <3>2, EmptySeq, AppendProperties, LenProperties DEF Episode
      <4>2. agg' \in {<<>>, Aggregated(live)}
        BY <3>1 DEF Fsm, InCooldown
      <4> QED
        BY <2>0, <3>1, <3>2, <4>1, <4>2, AggregatedType, EmptyAggregate DEF Episode
    <3>7. Flags'
      <4>1. stepped' \in {FALSE, stepped}
        BY <3>1, Zenon DEF Fsm, InCooldown, Depart
      <4> QED
        BY <2>0, <3>1, <4>1, Zenon DEF Flags
    <3> QED
      BY <2>1, <3>4, <3>5, <3>6, <3>7
  <2>3. CASE RecvTimeout
    <3>1. /\ pc = "recv" /\ Fsm(present, agg)
          /\ UNCHANGED <<use_control, qwen_cmd, next, present, log, quiet, cam, owed, troubled>>
      BY <2>3, Zenon DEF RecvTimeout
    <3>2. present \in BOOLEAN /\ quiet' \in 0 .. Cooldown
      BY <2>0, <3>1 DEF Times, Flags
    <3>3. PcInv' /\ TimerInv' /\ Places' /\ Times'
      BY <3>1, <3>2, FsmKeepsCtl DEF Times
    <3>4. Cameras'
      BY <2>0, <3>1 DEF Cameras
    <3>5. agg' \in {<<>>, agg}
      BY <3>1 DEF Fsm, InCooldown
    <3>6. Episode'
      BY <2>0, <3>1, <3>5, EmptyAggregate DEF Episode
    <3>7. Flags'
      <4>1. stepped' \in {FALSE, stepped}
        BY <3>1, Zenon DEF Fsm, InCooldown, Depart
      <4> QED
        BY <2>0, <3>1, <4>1, Zenon DEF Flags
    <3> QED
      BY <2>1, <3>3, <3>4, <3>6, <3>7
  <2>4. CASE Connect \/ Disconnect \/ SnapshotWritten \/ SnapshotFails \/ LlmEnds \/ NoResume
    <3> USE DEF Connect, Disconnect, SnapshotWritten, SnapshotFails, LlmEnds, NoResume
    <3>1. UNCHANGED <<use_control, qwen_cmd, next, state, present, agg, log, since, quiet, stepped,
                      cam, owed, troubled>>
      BY <2>4, Zenon
    <3>2. Flags' /\ Times' /\ Cameras' /\ Episode' /\ TimerInv'
      BY <2>0, <3>1, Zenon DEF Flags, Times, Cameras, Episode, TimerInv
    <3>3. Places' /\ PcInv'
      BY <2>0, <2>4, <3>1 DEF Places, PcInv, WindowPcs
    <3> QED
      BY <2>1, <3>2, <3>3
  <2>5. CASE Blackout \/ Resume
    <3>1. UNCHANGED <<use_control, qwen_cmd, state, present, agg, log, since, quiet, stepped>>
      BY <2>5, Zenon DEF Blackout, Resume
    <3>2. Flags' /\ Times' /\ Episode' /\ TimerInv'
      BY <2>0, <3>1, Zenon DEF Flags, Times, Episode, TimerInv
    <3>3. Places' /\ PcInv'
      <4>1. \/ pc = "blackout" /\ Advance("snapshot")
            \/ pc = "resume" /\ use_control /\ Advance("close")
        BY <2>5, Zenon DEF Blackout, Resume
      <4>2. CASE next < N_DEVICES
        <5>1. next' = next + 1 /\ pc' = pc
          BY <4>1, <4>2 DEF Advance
        <5> QED
          BY <2>0, <3>1, <4>1, <4>2, <5>1 DEF Places, PcInv, WindowPcs
      <4>3. CASE ~(next < N_DEVICES)
        <5>1. next' = 1 /\ pc' = IF pc = "blackout" THEN "snapshot" ELSE "close"
          BY <4>1, <4>3 DEF Advance
        <5> QED
          BY <2>0, <3>1, <4>1, <5>1 DEF Places, PcInv, WindowPcs
      <4> QED
        BY <4>2, <4>3
    <3>4. Cameras'
      BY <2>0, <2>5 DEF Places, Cameras, Blackout, Resume, Confirmed, Overdue, Unserved
    <3> QED
      BY <2>1, <3>2, <3>3, <3>4
  <2>6. CASE CloseWindow
    <3>1. UNCHANGED <<use_control, qwen_cmd, next, since, quiet, stepped, cam, owed, troubled>>
      BY <2>6, Zenon DEF CloseWindow
    <3>2. Flags' /\ Times' /\ Cameras'
      BY <2>0, <2>6, <3>1, Zenon DEF Flags, Times, Cameras, CloseWindow
    <3>3. Places' /\ PcInv' /\ TimerInv'
      BY <2>0, <2>6, <3>1 DEF Places, PcInv, TimerInv, WindowPcs, CloseWindow
    <3>4. Episode'
      BY <2>6, EmptyAggregate, EmptySeq DEF CloseWindow, Episode
    <3> QED
      BY <2>1, <3>2, <3>3, <3>4
  <2>7. CASE Tick \/ SetClock
    <3> USE DEF Tick, SetClock
    <3>1. UNCHANGED <<use_control, qwen_cmd, pc, next, state, present, agg, log, cam, owed, troubled>>
      BY <2>7, Zenon
    <3>2. Flags' /\ Places' /\ Cameras' /\ Episode' /\ PcInv'
      BY <2>0, <2>7, <3>1, Zenon DEF Flags, Places, Cameras, Episode, PcInv
    <3>3. CASE Tick
      <4>1. /\ since' = IF since + 1 <= Cooldown THEN since + 1 ELSE Cooldown
            /\ quiet' = IF quiet + 1 <= Cooldown THEN quiet + 1 ELSE Cooldown
        BY <2>0, <3>3, MinOfTwo DEF Times
      <4>2. UNCHANGED <<state, stepped>>
        BY <3>3, Zenon
      <4> QED
        BY <2>0, <2>1, <3>2, <4>1, <4>2 DEF Times, TimerInv
    <3>4. CASE SetClock
      BY <2>0, <2>1, <3>2, <3>4 DEF Times, TimerInv
    <3> QED
      BY <2>7, <3>3, <3>4
  <2>8. ASSUME NEW d \in Devices, ServeLate(d) PROVE CtlInv'
    <3>1. UNCHANGED <<use_control, qwen_cmd, pc, next, state, present, agg, log,
                      since, quiet, stepped, troubled>>
      BY <2>8, Zenon DEF ServeLate
    <3>2. Flags' /\ Places' /\ Times' /\ Episode' /\ PcInv' /\ TimerInv'
      BY <2>0, <3>1, Zenon DEF Flags, Places, Times, Episode, PcInv, TimerInv
    <3>3. Cameras'
      BY <2>0, <2>8 DEF Cameras, ServeLate
    <3> QED
      BY <2>1, <3>2, <3>3
  <2>9. CASE UNCHANGED vars
    <3>1. UNCHANGED <<use_control, qwen_cmd, pc, next, state, present, agg, log,
                      since, quiet, stepped, cam, owed, troubled>>
      BY <2>9, Zenon DEF vars
    <3> QED
      BY <2>0, <2>1, <3>1, Zenon
        DEF Flags, Places, Times, Cameras, Episode, PcInv, TimerInv
  <2> QED
    BY <2>2, <2>3, <2>4, <2>5, <2>6, <2>7, <2>8, <2>9, Zenon
      DEF Next, Receive, Window, Environment
<1> QED
  BY <1>1, <1>2, PTL DEF Spec

\* The LLM cycle starts only after a quiet cooldown, unless the clock was set.
THEOREM LlmAfterQuiet == Spec => []QuietBeforeLlm
<1>1. CtlInv => QuietBeforeLlm
  BY DEF CtlInv, TimerInv, QuietBeforeLlm
<1> QED
  BY <1>1, ControlInvariant, PTL

----------------------------------------------------------------------------
(* The cameras.                                                            *)

Dark(d) == cam[d] = "dark" \/ d \in troubled
Lit(d) == cam[d] = "lit" \/ d \in troubled

\* How far the loops over the devices have come.  A camera that still owes a
\* command has left one unconfirmed.
CamInv ==
  /\ \A d \in Devices : owed[d] # "none" => d \in troubled
  /\ state # "LlmWindow" => \A d \in Devices : Lit(d)
  /\ pc = "blackout" => \A d \in Devices : IF d < next THEN Dark(d) ELSE Lit(d)
  /\ pc \in {"snapshot", "llm"} => \A d \in Devices : IF use_control THEN Dark(d) ELSE Lit(d)
  /\ pc = "resume" => \A d \in Devices : d < next \/ ~use_control => Lit(d)
  /\ pc = "close" => \A d \in Devices : Lit(d)

\* The loop over the devices leaves no camera out, whatever becomes of the single
\* commands and whenever an overdue one is served.
THEOREM CameraInvariant == Spec => []CamInv
<1> USE SummarizerAssumption
<1>1. Init => CamInv
  BY DEF Init, CamInv, Lit, Dark
<1>2. CtlInv /\ CtlInv' /\ CamInv /\ [Next]_vars => CamInv'
  <2> SUFFICES ASSUME CtlInv, CtlInv', CamInv, [Next]_vars PROVE CamInv'
    OBVIOUS
  <2>0. Places /\ Places' /\ Cameras /\ PcInv /\ PcInv' /\ use_control \in BOOLEAN
    BY TypeParts, PTL DEF CtlInv, TypeOK
  <2> USE DEF options, episode, timers, cameras
  <2>1. CASE UNCHANGED <<use_control, cam, owed, troubled, next, pc>> /\ pc \in {"connect", "recv"}
    BY <2>0, <2>1 DEF CamInv, Lit, Dark, PcInv, WindowPcs
  <2>2. CASE \/ \E ids \in SUBSET TrackIds : \E frame \in [ids -> Records] : RecvFrame(frame)
             \/ RecvTimeout
    <3>1. /\ pc = "recv" /\ pc' \in {"recv", "blackout", "snapshot"}
          /\ pc' = "snapshot" => ~use_control
          /\ UNCHANGED <<use_control, next, cam, owed, troubled>>
      BY <2>0, <2>2 DEF RecvFrame, RecvTimeout, Fsm, InCooldown, EnterWindow, Depart
    <3>2. next = 1 /\ state # "LlmWindow"
      BY <2>0, <3>1 DEF PcInv, WindowPcs
    <3>3. \A d \in Devices : Lit(d) /\ Lit(d)' /\ ~(d < 1)
      BY <3>1, <3>2 DEF CamInv, Lit, Devices
    <3> QED
      BY <3>1, <3>2, <3>3 DEF CamInv
  <2>3. CASE Connect \/ Disconnect \/ SnapshotWritten \/ SnapshotFails \/ LlmEnds \/ NoResume
             \/ CloseWindow
    <3> USE DEF Connect, Disconnect, SnapshotWritten, SnapshotFails, LlmEnds, NoResume, CloseWindow
    <3>1. UNCHANGED <<use_control, cam, owed, troubled, next>>
      BY <2>3, Zenon
    <3>2. \A d \in Devices : Lit(d)' = Lit(d) /\ Dark(d)' = Dark(d)
      BY <3>1 DEF Lit, Dark
    <3>3. pc' = "resume" => next = 1
      BY <2>0, <2>3 DEF PcInv
    <3>4. \A d \in Devices : ~(d < 1)
      BY DEF Devices
    <3>5. \A d \in Devices : owed'[d] # "none" => d \in troubled'
      BY <3>1 DEF CamInv
    <3> QED
      BY <2>0, <2>3, <3>1, <3>2, <3>3, <3>4, <3>5 DEF CamInv, PcInv, WindowPcs
  <2>4. CASE Blackout
    <3>1. /\ pc = "blackout" /\ Advance("snapshot") /\ next \in Devices
          /\ UNCHANGED <<use_control, state>> /\ use_control /\ state = "LlmWindow"
      BY <2>0, <2>4 DEF Blackout, PcInv, Places, WindowPcs
    <3>2. \/ Confirmed("dark", troubled) \/ Overdue("blackout") \/ Unserved
      BY <2>4 DEF Blackout
    <3>3. /\ \A d \in Devices : owed'[d] # "none" => d \in troubled'
          /\ \A d \in Devices : d = next => Dark(d)'
          /\ \A d \in Devices \ {next} : (Dark(d) => Dark(d)') /\ (Lit(d) => Lit(d)')
      BY <2>0, <3>1, <3>2 DEF Cameras, CamInv, Confirmed, Overdue, Unserved, Dark, Lit
    <3>4. \A d \in Devices : IF d < next THEN Dark(d) ELSE Lit(d)
      BY <3>1 DEF CamInv
    <3>5. CASE next < N_DEVICES /\ next' = next + 1 /\ pc' = pc
      <4>1. \A d \in Devices : IF d < next + 1 THEN Dark(d)' ELSE Lit(d)'
        BY <3>1, <3>3, <3>4 DEF Devices
      <4> QED
        BY <3>1, <3>3, <3>5, <4>1 DEF CamInv
    <3>6. CASE ~(next < N_DEVICES) /\ pc' = "snapshot"
      <4>1. \A d \in Devices : Dark(d)'
        BY <3>1, <3>3, <3>4, <3>6 DEF Devices
      <4> QED
        BY <3>1, <3>3, <3>6, <4>1 DEF CamInv
    <3> QED
      BY <3>1, <3>5, <3>6 DEF Advance
  <2>5. CASE Resume
    <3>1. /\ pc = "resume" /\ Advance("close") /\ next \in Devices
          /\ UNCHANGED <<use_control, state>> /\ use_control /\ state = "LlmWindow"
      BY <2>0, <2>5 DEF Resume, PcInv, Places, WindowPcs
    <3>2. \/ cam[next] = "dark" /\ Confirmed("lit", troubled \ {next})
          \/ Overdue("resume") \/ Unserved
      BY <2>5 DEF Resume
    <3>3. /\ \A d \in Devices : owed'[d] # "none" => d \in troubled'
          /\ \A d \in Devices : d = next => Lit(d)'
          /\ \A d \in Devices \ {next} : Lit(d) => Lit(d)'
      BY <2>0, <3>1, <3>2 DEF Cameras, CamInv, Confirmed, Overdue, Unserved, Lit
    <3>4. \A d \in Devices : d < next => Lit(d)
      BY <3>1 DEF CamInv
    <3>5. CASE next < N_DEVICES /\ next' = next + 1 /\ pc' = pc
      <4>1. \A d \in Devices : d < next + 1 => Lit(d)'
        BY <3>1, <3>3, <3>4 DEF Devices
      <4> QED
        BY <3>1, <3>3, <3>5, <4>1 DEF CamInv
    <3>6. CASE ~(next < N_DEVICES) /\ pc' = "close"
      <4>1. \A d \in Devices : Lit(d)'
        BY <3>1, <3>3, <3>4, <3>6 DEF Devices
      <4> QED
        BY <3>1, <3>3, <3>6, <4>1 DEF CamInv
    <3> QED
      BY <3>1, <3>5, <3>6 DEF Advance
  <2>6. CASE Tick \/ SetClock \/ UNCHANGED vars
    <3>1. UNCHANGED <<use_control, state, pc, next, cam, owed, troubled>>
      BY <2>6, Zenon DEF Tick, SetClock, vars
    <3> QED
      BY <3>1 DEF CamInv, Lit, Dark
  <2>7. ASSUME NEW d \in Devices, ServeLate(d) PROVE CamInv'
    <3>1. UNCHANGED <<use_control, state, pc, next, troubled>> /\ d \in troubled
      BY <2>7, Zenon DEF ServeLate, CamInv
    <3>2. \A e \in Devices : /\ owed'[e] # "none" => owed[e] # "none"
                             /\ Dark(e) => Dark(e)'
                             /\ Lit(e) => Lit(e)'
      BY <2>0, <2>7, <3>1 DEF ServeLate, Cameras, Dark, Lit
    <3> QED
      BY <3>1, <3>2 DEF CamInv
  <2> QED
    BY <2>2, <2>3, <2>4, <2>5, <2>6, <2>7, Zenon DEF Next, Receive, Window, Environment
<1> QED
  BY <1>1, <1>2, ControlInvariant, PTL DEF Spec

\* While the LLM runs under camera control, every camera is dark or has left a
\* command unconfirmed.
THEOREM LlmHasTheNpu == Spec => []LlmOwnsNpu
<1>1. CamInv => LlmOwnsNpu
  BY DEF CamInv, LlmOwnsNpu, Dark
<1> QED
  BY <1>1, CameraInvariant, PTL

\* Outside the LLM window every camera is lit or has left a command unconfirmed.
THEOREM CamerasAreRelit == Spec => []CamerasRelit
<1>1. CamInv => CamerasRelit
  BY DEF CamInv, CamerasRelit, Lit
<1> QED
  BY <1>1, CameraInvariant, PTL

----------------------------------------------------------------------------
(* The snapshot.                                                           *)

\* The frames of the episode after the first that show the track.
Frames(l, id) == {i \in 2 .. Len(l) : id \in l[i]}

\* The aggregate a has exactly the tracks of the frames of l, and their first and
\* last frames.
Summarises(a, l) ==
  /\ a \in [{x \in TrackIds : Frames(l, x) # {}} -> AggTracks]
  /\ \A id \in DOMAIN a :
       /\ a[id].first \in Frames(l, id) /\ a[id].last \in Frames(l, id)
       /\ \A i \in Frames(l, id) : a[id].first <= i /\ i <= a[id].last

\* Without an episode there are no frames and no observation; in one, the aggregate
\* is up to date.
AggInv ==
  /\ state = "NoDrone" => log = <<>> /\ ~present
  /\ state # "NoDrone" => log # <<>> /\ Summarises(agg, log)

\* An episode that begins has an empty aggregate and one frame.
LEMMA SummaryBegins ==
  ASSUME NEW l \in Seq(SUBSET TrackIds), Len(l) <= 1
  PROVE  Summarises(<<>>, l)
<1>1. \A id : Frames(l, id) = {}
  BY LenProperties DEF Frames
<1>2. {x \in TrackIds : Frames(l, x) # {}} = {}
  BY <1>1
<1> QED
  BY <1>2, EmptyAggregate DEF Summarises

\* One more frame: the tracks it shows get it as their last frame, the new ones as
\* their first too, and the others are not touched.
LEMMA SummaryGoesOn ==
  ASSUME Episode, Summarises(agg, log), log # <<>>, state \in {"DronePresent", "Cooldown"},
         NEW live \in SUBSET TrackIds, Len(log) < MaxFrames
  PROVE  Summarises(Aggregated(live), Append(log, live))
<1> DEFINE n == Len(log) + 1
           l == Append(log, live)
           a == Aggregated(live)
<1>1. /\ Len(log) \in Nat \ {0} /\ n \in 2 .. MaxFrames
      /\ Len(l) = n /\ l[n] = live /\ \A i \in 2 .. Len(log) : l[i] = log[i]
  BY SummarizerAssumption, LenProperties, AppendProperties, EmptySeq DEF Episode
<1>2. a = [id \in DOMAIN agg \cup live |->
             IF id \in live THEN UpdateAggregate(id, n) ELSE agg[id]]
  BY DEF Aggregated
<1> HIDE DEF l, a
<1>3. \A id : Frames(l, id) = IF id \in live THEN Frames(log, id) \cup {n} ELSE Frames(log, id)
  <2> SUFFICES ASSUME NEW id
               PROVE  \A i : i \in Frames(l, id) <=>
                               i \in Frames(log, id) \/ (i = n /\ id \in live)
    OBVIOUS
  <2> QED
    BY <1>1 DEF Frames
<1>4. DOMAIN agg = {x \in TrackIds : Frames(log, x) # {}}
  BY DEF Summarises
<1>5. DOMAIN a = {x \in TrackIds : Frames(l, x) # {}}
  BY <1>2, <1>3, <1>4
<1>6. a \in [DOMAIN a -> AggTracks]
  BY AggregatedType DEF a
<1>7. ASSUME NEW id \in DOMAIN a
      PROVE  /\ a[id].first \in Frames(l, id) /\ a[id].last \in Frames(l, id)
             /\ \A i \in Frames(l, id) : a[id].first <= i /\ i <= a[id].last
  <2>1. CASE id \notin live
    BY <1>2, <1>3, <1>7, <2>1 DEF Summarises
  <2>2. CASE id \in live /\ id \in DOMAIN agg
    <3>1. a[id] = [first |-> agg[id].first, last |-> n]
      BY <1>2, <2>2 DEF UpdateAggregate
    <3>2. \A i \in Frames(log, id) : i <= n
      BY <1>1 DEF Frames
    <3>3. /\ agg[id].first \in Frames(log, id)
          /\ \A i \in Frames(log, id) : agg[id].first <= i
      BY <2>2 DEF Summarises
    <3> QED
      BY <1>1, <1>3, <2>2, <3>1, <3>2, <3>3
  <2>3. CASE id \in live /\ id \notin DOMAIN agg
    <3>1. a[id] = [first |-> n, last |-> n]
      BY <1>2, <2>3 DEF UpdateAggregate
    <3>2. Frames(log, id) = {}
      BY <1>4, <2>3
    <3> QED
      BY <1>1, <1>3, <2>3, <3>1, <3>2
  <2> QED
    BY <2>1, <2>2, <2>3
<1> QED
  BY <1>5, <1>6, <1>7 DEF Summarises, l, a

\* The aggregate keeps step with the frames: across dropouts, timeouts and
\* reconnections, from the frame after the one that began the episode on.
THEOREM AggregateInvariant == Spec => []AggInv
<1> USE SummarizerAssumption
<1>1. Init => AggInv
  BY DEF Init, AggInv
<1>2. CtlInv /\ AggInv /\ [Next]_vars => AggInv'
  <2> SUFFICES ASSUME CtlInv, AggInv, [Next]_vars PROVE AggInv'
    OBVIOUS
  <2>0. Places /\ Episode /\ PcInv
    BY TypeParts DEF CtlInv
  <2> USE DEF options, episode, timers, cameras
  <2>1. ASSUME NEW ids \in SUBSET TrackIds, NEW frame \in [ids -> Records], RecvFrame(frame)
        PROVE  AggInv'
    <3> DEFINE live == {id \in DOMAIN frame : IsDrone(frame[id])}
    <3>1. /\ pc = "recv" /\ Len(log) < MaxFrames
          /\ present' = (live # {})
          /\ log' = IF state = "NoDrone" /\ live = {} THEN <<>> ELSE Append(log, live)
          /\ Fsm(live # {}, Aggregated(live))
      BY <2>1 DEF RecvFrame
    <3>2. live \in SUBSET TrackIds
      BY <2>1
    <3>3. state # "LlmWindow"
      BY <2>0, <3>1 DEF PcInv, WindowPcs
    <3> HIDE DEF live
    <3>4. CASE state = "NoDrone" /\ live = {}
      BY <3>1, <3>4 DEF Fsm, AggInv
    <3>5. CASE state = "NoDrone" /\ live # {}
      <4>1. state' = "DronePresent" /\ agg' = <<>> /\ log' = Append(log, live) /\ log = <<>>
        BY <3>1, <3>5 DEF Fsm, AggInv
      <4>2. log \in Seq(SUBSET TrackIds) /\ Len(log) = 0
        BY <4>1, EmptySeq
      <4>3. log' \in Seq(SUBSET TrackIds) /\ Len(log') = 1 /\ log' # <<>>
        BY <3>2, <4>1, <4>2, AppendProperties
      <4>4. Summarises(<<>>, log')
        <5>1. Len(log') <= 1 /\ log' \in Seq(SUBSET TrackIds)
          BY <4>3
        <5> QED
          BY <5>1, SummaryBegins, Zenon
      <4> QED
        BY <4>1, <4>3, <4>4 DEF AggInv
    <3>6. CASE state \in {"DronePresent", "Cooldown"}
      <4>1. /\ state' # "NoDrone" /\ agg' = Aggregated(live) /\ log' = Append(log, live)
        BY <3>1, <3>6 DEF Fsm, InCooldown, EnterWindow, Depart
      <4>2. Summarises(Aggregated(live), Append(log, live))
        BY <2>0, <3>1, <3>2, <3>6, SummaryGoesOn DEF AggInv
      <4>3. log' # <<>>
        BY <2>0, <3>2, <4>1, AppendProperties DEF Episode
      <4> QED
        BY <4>1, <4>2, <4>3 DEF AggInv
    <3> QED
      BY <2>0, <3>3, <3>4, <3>5, <3>6 DEF Places
  <2>2. CASE RecvTimeout
    <3>1. pc = "recv" /\ Fsm(present, agg) /\ UNCHANGED <<present, log>>
      BY <2>2, Zenon DEF RecvTimeout
    <3>2. CASE state = "NoDrone"
      BY <3>1, <3>2 DEF Fsm, AggInv
    <3>3. CASE state \in {"DronePresent", "Cooldown"}
      <4>1. state' # "NoDrone" /\ UNCHANGED <<agg, log>>
        BY <3>1, <3>3 DEF Fsm, InCooldown, EnterWindow, Depart
      <4> QED
        BY <3>3, <4>1 DEF AggInv
    <3> QED
      BY <3>1, <3>2, <3>3 DEF Fsm
  <2>3. CASE CloseWindow
    BY <2>3 DEF CloseWindow, AggInv
  <2>4. CASE UNCHANGED <<state, present, agg, log>>
    BY <2>4 DEF AggInv
  <2>5. CASE \/ Connect \/ Disconnect \/ SnapshotWritten \/ SnapshotFails \/ LlmEnds \/ NoResume
             \/ Blackout \/ Resume \/ Tick \/ SetClock \/ (\E d \in Devices : ServeLate(d))
             \/ UNCHANGED vars
    <3>1. UNCHANGED <<state, present, agg, log>>
      BY <2>5, Zenon DEF Connect, Disconnect, SnapshotWritten, SnapshotFails, LlmEnds, NoResume,
                         Blackout, Resume, Tick, SetClock, ServeLate, vars
    <3> QED
      BY <2>4, <3>1
  <2> QED
    BY <2>1, <2>2, <2>3, <2>5, Zenon DEF Next, Receive, Window, Environment
<1> QED
  BY <1>1, <1>2, ControlInvariant, PTL DEF Spec

\* What the LLM reads are exactly the drones of the episode with their first and
\* last positions.
THEOREM LlmReadsTheEpisode == Spec => []SnapshotFaithful
<1>1. CtlInv /\ AggInv => SnapshotFaithful
  <2> SUFFICES ASSUME CtlInv, AggInv, pc = "llm"
               PROVE  agg = [id \in {x \in TrackIds : Frames(log, x) # {}} |->
                               [first |-> Min(Frames(log, id)), last |-> Max(Frames(log, id))]]
    BY DEF SnapshotFaithful, Frames
  <2>1. state = "LlmWindow"
    BY DEF CtlInv, PcInv, WindowPcs
  <2>2. /\ agg \in [{x \in TrackIds : Frames(log, x) # {}} -> AggTracks]
        /\ \A id \in DOMAIN agg :
             /\ agg[id].first \in Frames(log, id) /\ agg[id].last \in Frames(log, id)
             /\ \A i \in Frames(log, id) : agg[id].first <= i /\ i <= agg[id].last
    BY <2>1 DEF AggInv, Summarises
  <2>3. ASSUME NEW id \in DOMAIN agg
        PROVE  agg[id] = [first |-> Min(Frames(log, id)), last |-> Max(Frames(log, id))]
    <3>1. Frames(log, id) \in SUBSET Nat
      BY DEF Frames
    <3>2. agg[id].first = Min(Frames(log, id))
      BY <2>2, <2>3, <3>1, MinIs
    <3>3. \A i \in Frames(log, id) : agg[id].last >= i
      BY <2>2, <2>3, <3>1
    <3>4. agg[id].last = Max(Frames(log, id))
      BY <2>2, <2>3, <3>1, <3>3, MaxIs
    <3>5. agg[id] \in AggTracks
      BY <2>2, <2>3
    <3> QED
      BY <3>2, <3>4, <3>5 DEF AggTracks
  <2> QED
    BY <2>2, <2>3
<1> QED
  BY <1>1, ControlInvariant, AggregateInvariant, PTL
=============================================================================
