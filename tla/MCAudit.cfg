CONSTANTS
  r = r  d = d  e = e
  a = a  b = b
  root = root  user = user
  NoInode = NoInode
  Root = r
  Slash = r
  RootPath <- SlashPath
  RootIsAbsolute = TRUE
  Inode <- MCInode
  Name <- MCName
  Kind <- MCKind
  Text <- MCText
  TextLimit = 1
  LinkLimit = 2
  RootRoute <- NoRoute
  Trees <- MCTrees
  DeniedSets <- MCDenied
  MaxChanges = 1
  HiddenName <- NoNames
  PseudoName <- ForPseudo
  OptionSet <- MCOptions
  FdLimits <- Scarce
  RootErrno <- RootErrnos
  Faults <- AnyFault
  Account <- MCAccount
  KnownSets <- AllKnown
  Room <- MCRoom
  InitialBuffer = 1
  Remote <- MCRemote
  MaxAccountChanges = 1
  AttrSets <- MCAttrSets
  RootAccount = root
  TIME_NOW = 0
  KnownRoutes <- NoErrno
  DevName <- NoNames
  TmpName <- NoNames
  HomeName <- NoNames
  AuditRoot <- SlashPath
  AuditRootIsAbsolute = TRUE
  FailingCalls <- NoErrno
  Thresholds <- MCThresholds
SPECIFICATION AuditSpec
INVARIANTS AuditTypeOK FailOnIgnoresFilters CoverageAddsUp LosslessMeansComplete RowsAgree OrphansShowNoName
