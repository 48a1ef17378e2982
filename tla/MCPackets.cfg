SPECIFICATION MCSpec
CONSTANTS
  Subjects = {"rtp", "ts", "align", "units", "pictures", "bits", "sets", "versions", "encoders"}
  SeqModulus = 16
  TsMod = 8
  FirstSeq = 14
  FirstTs = 6
  MaxGap = 3
  MaxSize = 3
  TargetDelay = 1
  MaxRecent = 10
  MaxTime = 4
  MaxDelay = 4
  Duplicates = 2
  PollEvery = 1
  Sections <- SomeSections
  PatPmt = "x10"
  GuessPids = {"x10", "x11"}
  Elementary = {"v"}
  ParamSets = {"sps"}
  CounterSpace = 3
  MaxPESSize = 3
  ExtractAbove = 1
  PESLengths = {0, 2, 4}
  MaxSent = 6
  MaxErrors = 2
  TSSize = 4
  MessageSizes = {1, 4, 6, 9}
  Lookalikes <- SomeLookalikes
  MaxStream = 32
  MaxDropped = 2
  Codecs = {"h264", "hevc", "av1", "jpegxs"}
  DepPackets <- SomePackets
  SeqSpace = 16
  DepFirstSeq = 12
  Delimiters <- SomeDelimiters
  MaxParts = 3
  MaxBundled = 2
  MaxCopies = 2
  UnitLists <- SomePictures
  Misread <- InsideSlices
  Sources = {"ts", "nal", "raw"}
  MaxNALUnits = 7
  AdapterCap = 1
  MaxPictures = 2
  PayloadBytes = {0, 1, 3, 4}
  MaxPayload = 5
  CodeWidth = 4
  SpsIds = {0, 1}
  PpsIds = {0}
  Configs = {1}
  SessionLimit = 4
  HardLimit = 8
  MaxGOPs = 1
  Searched = 2
  MaxKeyframes = 3
  MaxCounted = 5
  Contents = {"a", "b"}
  KeptVersions = 2
  MaxHistory = 2
  MaxVersion = 3
  MaxMigrations = 2
  SetsIn <- HashedSets
  CacheSize = 2
  TTL = 1
  MaxSessionHistory = 1
  MaxSeconds = 3
  MaxChanges = 4
INVARIANTS SeenExact ReceiveExact DemuxSound FramesArePictures ParametersSound VersionsExact CacheExact
PROPERTIES Depacketizes BitsRoundTrip
CHECK_DEADLOCK FALSE
