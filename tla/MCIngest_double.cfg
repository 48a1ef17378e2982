SPECIFICATION MCSpec
CONSTANTS
  Subjects = {"memory"}
  c1 = c1   c2 = c2   c3 = c3   s1 = s1   s2 = s2
  t1 = t1   m1 = m1   m2 = m2   x1 = x1   x2 = x2
  Mgr = Mgr   None = None   NoStream = NoStream
  Conns = {c1, c2, c3}
  Streams = {s1, s2}
  StreamOf <- StreamOfConn
  Ops = {t1}
  KindOf <- Terminates
  OpStream <- OnS1
  MaxPerStream = 2
  MaxTotal = 2
  Faults = {"disk", "accept", "shutdown", "crashed"}
  Size <- FrameSize
  MaxGOPs = 3
  MaxBytes = 3
  MaxDuration = 2
  Types = {"I", "P", "B", "M"}
  Pressures = {40, 60, 75, 90, 96}
  MaxFrames = 6
  MaxGap = 1
  Corruption = TRUE
  Monitored = TRUE
  MemProcs = {m1, m2}
  MemStreams = {x1, x2}
  Sizes = {1, 2}
  MaxMemory = 3
  StreamLimit = 2
  Kinds = {"request"}
  MaxCalls = 3
SYMMETRY Symmetry
INVARIANT NoDoubleDecrement
CHECK_DEADLOCK FALSE
