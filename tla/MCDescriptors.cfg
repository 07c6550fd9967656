SPECIFICATION Spec
CONSTANTS
  None = None
  parent = parent
  child = child
  Procs = {parent, child}
  Root = parent
  OpenKinds = {"file", "urandom"}
  Fds = {2, 3, 4, 5, 7}
  MaxFiles = 6
  MaxBytes = 2
CHECK_DEADLOCK FALSE
INVARIANTS DescriptorStable ReusedBeforeGrowth DeliveredOnce
PROPERTY TableSpec
