SPECIFICATION FairSpec
CONSTANTS
  Mains = {m1}
  Threads = {t1, t2}
  Words = {w}
  GuestVals = {0, 1}
  Pipes = {}
  Timeouts = {1}
  MaxSteps = 2
  MaxUnread = 1
  Ops = {"store", "futex", "clone", "exit", "return"}
  NoTask = NoTask
  NoAddr = NoAddr
  Unmapped = Unmapped
PROPERTIES WokenRuns CreatedRuns DeadlockRecovered
CHECK_DEADLOCK FALSE
