SPECIFICATION Spec
CONSTANTS
  Mains = {m1, m2}
  Threads = {t1, t2}
  Words = {w}
  GuestVals = {0, 1}
  Pipes = {p}
  Timeouts = {}
  MaxSteps = 2
  MaxUnread = 1
  Ops = {"store", "futex", "clone", "settid", "poll", "munmap", "exit", "return"}
  NoTask = NoTask
  NoAddr = NoAddr
  Unmapped = Unmapped
SYMMETRY Symm
INVARIANTS TypeOK TasksConserved MergedBeforeRelease NewThreadsBeforeMain JoinersRunnable NothingReadyAtReturn
CHECK_DEADLOCK FALSE
