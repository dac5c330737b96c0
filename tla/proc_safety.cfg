SPECIFICATION Spec
CONSTANTS
  FRAME_MOD = 1
  N_THREADS = 2
  b1 = b1
  b2 = b2
  b3 = b3
  b4 = b4
  Bufs <- MCBufs2
  NoBuf = NoBuf
  InitMayFail = TRUE
  DupMayFail = FALSE
  CameraMayFail = TRUE
  Commands = {"pause_yolo", "resume_yolo", "get_status", "set_dump_enabled", "shutdown", "blackout", "resume", "unknown"}
  ResumeMayOverrun = TRUE
SYMMETRY MCSymmetry
INVARIANTS TypeOK InFlightExact NoUseAfterDestroy SlotOwnedOnce ContextHandoverRaceFree FinalDestroyOfLiveContexts
