SPECIFICATION FairSpec
CONSTANTS
  kMaxAge = 1
  MaxId = 5
  MaxDets = 3
  UAV = UAV
  Bird = Bird
  NoClass = NoClass
  Detections <- MCDetections
  InputMayBreak = TRUE
INVARIANTS IdsUnique MatchingStable
PROPERTIES KeepsTrackPromise SignalEnds FrameDone
