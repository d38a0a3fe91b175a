CONSTANTS
  o1 = o1  o2 = o2  o3 = o3
  Object <- MCObject
  MaxFd = 3
SPECIFICATION Spec
INVARIANT TypeOK
INVARIANT OneOwner
PROPERTY ClosedByOwner
