CONSTANTS
  r = r  d = d  x = x  f = f  g = g  l = l  m = m  n = n  p = p
  a = a  b = b
  root = root  user = user  ghost = ghost
  NoInode = NoInode
  Root = r
  Slash = x
  RootPath <- BelowB
  RootIsAbsolute = TRUE
  Inode <- MCInode
  Name <- MCName
  Kind <- MCKind
  Text <- MCText
  TextLimit = 2
  LinkLimit = 2
  RootRoute <- BelowB
  Trees <- MCTrees
  DeniedSets <- NoneDenied
  MaxChanges = 1
  HiddenName <- NoNames
  PseudoName <- NoNames
  OptionSet <- MCOptions
  FdLimits <- Ample
  RootErrno <- Nothing
  Faults <- Nothing
  Account <- MCAccount
  KnownSets <- MCKnown
  Room <- MCRoom
  InitialBuffer = 1
  Remote <- Nothing
  MaxAccountChanges = 0
  AttrSets <- MCAttrSets
  RootAccount = root
  TIME_NOW = 200000
  KnownRoutes <- BelowA
  DevName <- NoNames
  TmpName <- NameB
  HomeName <- NoNames
  AuditRoot <- BelowB
  AuditRootIsAbsolute = TRUE
  FailingCalls <- Nothing
SPECIFICATION AnalysisSpec
INVARIANT StableMeansOneObject
