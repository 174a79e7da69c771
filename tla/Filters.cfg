\* The smaller filters, the shared parts and the programs around them, one at a time.
SPECIFICATION SpecFilters
CONSTANTS
  Ids = {1}
  MaxOthers = 1
  EvalTimeout = 1
  StationaryTime = 1
  MaxStep = 1
  LongStep = 2
  TouchIds = {1, 2}
  SuppressTimeout = 2
  ButtonDownTimeout = 4
  OneFingerTimeout = 3
  MaxAge = 1
  CountedFingers = 1
  MaxTouches = 3
  Axes = {1, 2}
  Unit = 3
  MaxScroll = 4
  PoolSize = 4
  MaxSamples = 2
  MaxPosition = 1
  SplitIds = {i1, i2, i3, i4, i5}
  MaxFingers = 4
  MaxMerged = 3
  EnergySamples = 3
  IdleTime = 1
  HalfBox = 2
  BoxPositions = 5
  IdSpace = 8
  MaxHistorySize = 3
  MovingTime = 2
  NoisyTime = 1
  Warmup = 1
  BigMoves = 2
  Props = {p1, p2}
  Strings = {p2}
  Providers = {g1, g2}
  Callbacks = {c1, c2}
  Null = null
  Values = {1, 2}
  BufferSize = 3
  LogFingers = {f1, f2}
  Keys = {1, 2, 3}
  Data = {1, 2}
  MapSize = 2
  PoolSlots = 3
  Pointer = pointer
  Touchpads = {t1, t2}
  MaxEvents = 2
SYMMETRY SplitSymmetry
INVARIANTS
  PartsTypeOK
  TrendsAreMeasured
PROPERTIES
  PointingIsKept
  EachFingerOneId
  OutputHasCause
  SuspicionEnds
  SharedPartsImplement
  OthersAreTold
