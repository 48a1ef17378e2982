SPECIFICATION MCFairSpec
CONSTANTS
  Subjects = {"streams"}
  c1 = c1   s1 = s1   t1 = t1   p1 = p1   r1 = r1
  Mgr = Mgr   None = None
  Conns = {c1}
  Streams = {s1}
  StreamOf <- OneStream
  Ops = {}
  KindOf <- OpKind
  OpStream <- OnS1
  MaxPerStream = 2
  MaxTotal = 2
  Faults = {"hangup"}
  Keys = {k1, k2}
  MaxSessions = 2
  SlotLimit = 2
  PerStreamSlots = 5
  BandwidthUnits = 1
  LockCallers = {p, q}
  Contexts = {1, 2}
  Methods = {"AddSPS", "AddPPS", "CopyParameterSetsFrom", "GetStatistics", "CreateVersion", "StartMigration"}
  MaxCalls = 2
  FrameLoop = FrameLoop   Unlocked = Unlocked
  Callers = {caller}
  Strategies = {"fast", "adaptive", "preemptive"}
  KeyframeFound = {FALSE}
  FastErrors = 2
  PatternErrors = 2
  CorruptErrors = 1
  MaxHistory = 2
  Retries = 0
  MaxStarts = 3
  RestartEarly = FALSE
PROPERTY LostFreesStream
CHECK_DEADLOCK FALSE
