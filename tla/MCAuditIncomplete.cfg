CONSTANTS
  r = r  d = d  e = e
  a = a  b = b
  root = root  user = user
  NoInode = NoInode
  Root = r
  Slash = r
  RootPath <- SlashPath
  RootIsAbsolute = TRUE
  Inode <- MCInode
  Name <- MCName
  Kind <- MCKind
  Text <- MCText
  TextLimit = 1
  LinkLimit = 2
  RootRoute <- NoRoute
  Trees <- MCTrees
  DeniedSets <- NoneDenied
  MaxChanges = 0
  HiddenName <- NoNames
  PseudoName <- NoNames
  OptionSet <- MCOptions
  FdLimits <- Ample
  RootErrno <- NoErrno
  Faults <- NoMemory
  Account <- MCAccount
  KnownSets <- AllKnown
  Room <- MCRoom
  InitialBuffer = 1
  Remote <- NoErrno
  MaxAccountChanges = 0
  AttrSets <- MCAttrSets
  RootAccount = root
  TIME_NOW = 0
  KnownRoutes <- NoErrno
  DevName <- NoNames
  TmpName <- NoNames
  HomeName <- NoNames
  AuditRoot <- SlashPath
  AuditRootIsAbsolute = TRUE
  FailingCalls <- NoErrno
  Thresholds <- NoThreshold
SPECIFICATION AuditSpec
INVARIANT LossesReported
