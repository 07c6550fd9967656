SPECIFICATION Spec
CONSTANTS
  Mains = {m1, m2}
  Threads = {t1, t2, t3}
  Words = {w}
  GuestVals = {0, 1}
  Pipes = {p}
  Timeouts = {1}
  MaxSteps = 2
  MaxUnread = 1
  Ops = {"pipe", "fork", "wait4", "exit", "return", "yield"}
  NoTask = NoTask
  NoAddr = NoAddr
  Unmapped = Unmapped
SYMMETRY Symm
INVARIANT OwnAnswer
PROPERTY CoopSpec
CHECK_DEADLOCK FALSE
