SPECIFICATION MCFairSpec
CONSTANTS
  Subjects = {"detection", "pipeline", "flow", "recovery", "health"}
  h264 = h264   hevc = hevc   av1 = av1
  Unknown = Unknown   Nobody = Nobody
  Feeders = {f1, f2}
  Describers = {d1}
  Observers = {o1}
  Codecs = {h264, hevc, av1}
  Unsupported = {av1}
  Limits = {"1s", "10s"}
  MaxCalls <- CallsOf
  MaxPackets = 3
  Kinds = {"video", "meta", "empty"}
  AssemblerCap = 1
  OutputCap = 1
  Depth = 2
  Pressures = {20, 50, 97}
  GOPSizes = {0, 15}
  MinRate = 10
  MaxRate = 40
  HistorySize = 2
  Target = 50
  MaxEvents = 2
  RecReporters = {frames, api}
  MaxErrors = 2
  Reporters = {r1, r2}
  MaxRetries = 2
  Threshold = 2
  MaxTries = 2
  MaxReports = 3
INVARIANTS DetectionSound FramesFlow
PROPERTIES CodecStable CallsReturn ShutdownEnds FlowSettles RecoveryRuns StreamRecovers
CHECK_DEADLOCK FALSE
