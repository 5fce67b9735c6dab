CONSTANTS
  Contents = {half, all}
  Capacity = 2
  Idle = 2
  Stable = 2
  SampleMax = 1
  Budget = 3
  Worlds <- MCWorlds
  EventRoom = 2
  Asks <- MCAsks
  Fetches = {"fetch"}
  Savers = {"fetch", "tab2", "user"}
  SizeMax = 2
  WritesMax = 2
  Plans <- MCPlans
  Orders <- MCOrders
  Pages <- MCPages
  Bodies <- MCBodies
  BodyMax = 2
  StreamIds = {"ws1", "ws2", "sse"}
  KindOf <- MCKinds
  StreamMax = 1
  EventMax = 2
  ByteMax = 2
  ConsoleMax = 1
  FrameSizes = {0, 1, 3}
  FramesMax <- MCFramesMax
  Modes = {"idle", "load", "selector", "ms"}
  Limits = {5, 8}
  Asked = 6
  Reserve = 1
  Every = 2
  Kept = 2
  MaxNoise = 2
SPECIFICATION PagesSpec
INVARIANTS
  ReclaimedOnlyWhenCaptured
CHECK_DEADLOCK FALSE
