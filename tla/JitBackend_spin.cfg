SPECIFICATION FairSpec
CONSTANTS
  Tasks = {t1, t2}
  NumPages = 1
  Contents = {"c"}
  Unmapped = Unmapped
  Absent = Absent
  MaxRuns = 3
  MaxTicks = 1
  MaxWord = 0
PROPERTY SliceEnds
CHECK_DEADLOCK FALSE
