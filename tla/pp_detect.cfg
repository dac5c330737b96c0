SPECIFICATION Spec
CONSTANTS
  t1 = t1
  t2 = t2
  Threads = {t1, t2}
  Frames <- MCFrames
  Strides <- MCStrides
  OBJ_CLASS_NUM = 1
  OBJ_NUMB_MAX_SIZE = 2
  TOP_K = 4
  model_in = 16
  Upscale = 3
  ThresMilli <- MCThresMilli
  LabelsMayFail = TRUE
  Scores = {5, 6, 127}
  Zps = {8, 9}
INVARIANTS LabelsNamed SuppressionJustified ThresholdHonoured
CHECK_DEADLOCK FALSE
