CONSTANTS
  r = r  d = d  e = e  x = x  f = f  l = l  u = u
  a = a  b = b  h = h
  NoInode = NoInode
  Root = r
  Slash = r
  RootPath <- SlashPath
  RootIsAbsolute = TRUE
  Inode <- MCInode
  Name <- MCName
  Kind <- MCKind
  Text <- MCText
  TextLimit = 1
  LinkLimit = 1
  RootRoute <- SlashPath
  Trees <- SmallTrees
  DeniedSets <- NoneDenied
  MaxChanges = 0
  HiddenName <- HiddenNames
  PseudoName <- PseudoNames
  OptionSet <- AllOptions
  FdLimits <- Ample
  RootErrno <- NoErrno
  Faults <- NoErrno
SPECIFICATION Spec
INVARIANT NothingStandingIsMissed
INVARIANT BreadthFirst
