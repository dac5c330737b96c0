SPECIFICATION Spec
CONSTANTS
  TrackIds = {1, 2}
  Positions = {0, 20}
  Roi = {20}
  kMaxFramesLost = 1
  kHistoryMax = 4
  kTentativeFrames = 2
  kLoiterRadius = 25
  kMaxAge = 1
  MaxDets = 2
  MaxId = 3
  MaxWire = 1
  MaxFrames = 4
INVARIANTS CountersAgree EventsComplete ServicesAgree RestartForgotten
PROPERTY EventsAlternate
