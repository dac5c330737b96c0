SPECIFICATION Spec
CONSTANTS
  kMaxAge = 1
  MaxId = 5
  MaxDets = 2
  UAV = UAV
  Bird = Bird
  NoClass = NoClass
  Detections <- MCDetections
  InputMayBreak = TRUE
INVARIANT SentWereDetected
