SPECIFICATION Spec
CONSTANTS
  FRAME_MOD = 1
  N_THREADS = 2
  b1 = b1
  b2 = b2
  b3 = b3
  b4 = b4
  Bufs <- MCBufs2
  NoBuf = NoBuf
  InitMayFail = FALSE
  DupMayFail = FALSE
  CameraMayFail = FALSE
  Commands = {"shutdown", "blackout", "resume"}
  ResumeMayOverrun = FALSE
SYMMETRY MCSymmetry
PROPERTY BlackoutRequestKept
