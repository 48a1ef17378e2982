SPECIFICATION MCSpec
CONSTANTS
  Subjects = {"tracks"}
  Wrap = 8
  MaxStep = 1
  MaxEpoch = 1
  MaxElapsed = 1
  DetectWindow = 3
  ReorderDelay = 2
  Delays <- Reordered
  MaxRecrossed = 2
  Estimates = TRUE
  Depth = 4
  Start = 0
  MaxTime = 9
  MaxPresent = 3
  PTSWrap = 40
  ResetJump = 5
  DurationCap = 3
  Steps <- NearAndFar
  Den <- TrackUnits
  SecondUnits = 6
  WrapAt = 64
  MediaSteps <- TrackSteps
  Gaps = {1, 3}
  MaxWall = 7
  MaxDrift = 2
  WindowSize = 3
  MinSamples = 2
  FactorInverse = 2
  MaxCorrectionStep = 3
  Interval = 0
  RTPModulus = 16
  RTPSteps = {0, 3, 7}
  MaxRTPTime = 50
INVARIANT CorrectionHelps
CHECK_DEADLOCK FALSE
