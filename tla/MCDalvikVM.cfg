SPECIFICATION MCSpec
CONSTANTS
  None = None
  InitClasses <- Resolver
  ErrorClass = 2
  BuiltinClass = 2
  ClassNames = {}
  MemberNames = {"f"}
  Lengths = {}
  Radix = 2
  PageSize = 2
  ResultKinds = {"simple"}
  MaxClasses = 2
  MaxMembers = 1
  MaxObjects = 3
  MaxDepth = 1
  MaxBuffers = 0
CHECK_DEADLOCK FALSE
INVARIANTS HandlesDenote HostGetsResult 
