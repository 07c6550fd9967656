SPECIFICATION MutexSpec
CONSTANTS
  Mains = {m1}
  Threads = {t1, t2}
  Words = {w}
  GuestVals = {0, 1, 2}
  Pipes = {p}
  Timeouts = {}
  MaxSteps = 3
  MaxUnread = 1
  Ops = {"store", "futex", "clone", "exit", "return", "yield", "pipe"}
  NoTask = NoTask
  NoAddr = NoAddr
  Unmapped = Unmapped
  ParkInside = FALSE
SYMMETRY Symm
INVARIANT MutualExclusion
CHECK_DEADLOCK FALSE
