SPECIFICATION MCSpec
CONSTANTS
  Tids = {1}
  Addrs = {1, 2, 3}
  Paths <- SharedPaths
  Slots = 1
  SlotCounts = {2}
  WaitOptions = {"hang", "nohang"}
  Kinds <- AllKinds
  Sizes = {0, 1, 3}
  Counts = {1, 2, 4}
  Offsets <- SeekOffsets
  MaxPos = 5
  Dirs <- SmallDirs
  DirSizes = {0, 32, 33, 41, 65, 100}
  SvcSize = 128
  SvcMax = 517
  StubSizes = {8, 52}
  TableSizes = {40}
  Numbers <- SvcNumbers
  Libraries = {"liba", "libb"}
  Results = {0, 1}
  MaxDepth = 2
  MaxCalls = 3
CHECK_DEADLOCK FALSE
INVARIANTS FileListing GateExact EntryReadBack WalkExact
PROPERTIES TrapsFaithful FileBytes LoopsEnd
