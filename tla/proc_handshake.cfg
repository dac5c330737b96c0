SPECIFICATION FairSpec
CONSTANTS
  FRAME_MOD = 1
  N_THREADS = 1
  b1 = b1
  b2 = b2
  b3 = b3
  b4 = b4
  Bufs <- MCBufs1
  NoBuf = NoBuf
  InitMayFail = TRUE
  DupMayFail = FALSE
  CameraMayFail = TRUE
  Commands = {"pause_yolo", "resume_yolo", "shutdown", "blackout", "resume"}
  ResumeMayOverrun = FALSE

INVARIANT NpuExclusive
PROPERTIES DrainCompletes ResumeConfirmedEventually FrameRecycled ShutdownCompletes
