SPECIFICATION MCFairSpec
CONSTANTS
  Subjects = {"streams", "sessions", "locks", "smart", "reconnect"}
  c1 = c1   s1 = s1   t1 = t1   p1 = p1   r1 = r1
  Mgr = Mgr   None = None
  Conns = {c1}
  Streams = {s1}
  StreamOf <- OneStream
  Ops = {t1, p1, r1}
  KindOf <- OpKind
  OpStream <- OnS1
  MaxPerStream = 2
  MaxTotal = 2
  Faults = {"disk", "hangup", "expiry", "shutdown"}
  Keys = {k1, k2}
  MaxSessions = 2
  SlotLimit = 2
  PerStreamSlots = 5
  BandwidthUnits = 1
  LockCallers = {p, q}
  Contexts = {1, 2}
  Methods = {"AddSPS", "AddPPS", "CopyParameterSetsFrom", "GetStatistics", "CreateVersion", "Rollback", "StartMigration"}
  MaxCalls = 2
  FrameLoop = FrameLoop   Unlocked = Unlocked
  Callers = {caller}
  Strategies = {"fast", "adaptive", "preemptive"}
  KeyframeFound = {FALSE}
  FastErrors = 2
  PatternErrors = 2
  CorruptErrors = 1
  MaxHistory = 2
  Retries = 0
  MaxStarts = 3
  RestartEarly = FALSE
INVARIANTS RegistryAgrees SlotsExact
PROPERTIES OpsReturn StopFreesAll EveryCallReturns SmartReturns StopEndsLoop
CHECK_DEADLOCK FALSE
