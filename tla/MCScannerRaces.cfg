CONSTANTS
  r = r  d = d  e = e  x = x  f = f  l = l  u = u
  a = a  b = b  h = h
  NoInode = NoInode
  Root = r
  Slash = x
  RootPath <- RootBelow
  RootIsAbsolute = TRUE
  Inode <- RaceInode
  Name <- RaceName
  Kind <- RaceKind
  Text <- RaceText
  TextLimit = 1
  LinkLimit = 1
  RootRoute <- RootBelow
  Trees <- NestedOnly
  DeniedSets <- DDenied
  MaxChanges = 2
  HiddenName <- NoPseudo
  PseudoName <- NoPseudo
  OptionSet <- RecursiveOnly
  FdLimits <- Ample
  RootErrno <- NoErrno
  Faults <- NoErrno
SPECIFICATION FairSpec
INVARIANT NothingInvented
INVARIANT LinksNotFollowed
INVARIANT ReadTwiceOnlyIfMoved
INVARIANT NothingStandingIsMissed
PROPERTY KeepsLedger
PROPERTY Terminates
