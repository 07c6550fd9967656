SPECIFICATION MCSpec
CONSTANTS
  Tasks = {t1, t2}
  NumPages = 2
  Contents = {"c", "d"}
  Unmapped = Unmapped
  Absent = Absent
  MaxRuns = 3
  MaxTicks = 1
  MaxWord = 0
  MaxTasks = 3
  MaxCalls = 2
  MaxSlices = 3
  Blocks = {"b1", "b2"}
SYMMETRY MCSymmetry
INVARIANTS FreshCode StopEndsSlice NoLostUpdate OwnRegisters StacksDisjoint HostRestored
PROPERTY ResumeExact
CHECK_DEADLOCK FALSE
