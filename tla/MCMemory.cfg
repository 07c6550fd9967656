SPECIFICATION MCSpec
CONSTANTS
  Lens = {1, 2, 3}
  Prots = {"rw", "rx"}
  FileLens = {1, 2}
  Hints = {}
  Starts = {0, 1, 2, 3, 4}
  Images <- TwoImages
  Temps = {FALSE, TRUE}
  PageUnits = 2
  Breaks = {2, 4}
  Top = 5
  Bytes = 8
  PageSize = 2
  MappedPages <- PageSets
  Vectors <- IoVectors
  MaxIovs = 2
  MaxLen = 2
  MaxCopies = 1
CHECK_DEADLOCK FALSE
INVARIANTS MapExact FreshAddress VmCopyExact
