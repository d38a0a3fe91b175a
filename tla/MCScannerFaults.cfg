CONSTANTS
  r = r  d = d  e = e  x = x  f = f  l = l  u = u
  a = a  b = b  h = h
  NoInode = NoInode
  Root = r
  Slash = r
  RootPath <- SlashPath
  RootIsAbsolute = TRUE
  Inode <- RaceInode
  Name <- RaceName
  Kind <- RaceKind
  Text <- RaceText
  TextLimit = 1
  LinkLimit = 1
  RootRoute <- SlashPath
  Trees <- SiblingsOnly
  DeniedSets <- NoneDenied
  MaxChanges = 0
  HiddenName <- NoPseudo
  PseudoName <- NoPseudo
  OptionSet <- RecursiveOnly
  FdLimits <- Scarce
  RootErrno <- AnyRootErrno
  Faults <- AnyFault
SPECIFICATION Spec
INVARIANT TypeOK
INVARIANT EntryAccounting
INVARIANT DirectoryAccounting
INVARIANT DescriptorsReturned
INVARIANT DupFailsOnlyForRoot
INVARIANT BreadthFirst
