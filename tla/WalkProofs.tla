----------------------------- MODULE WalkProofs -----------------------------
(***************************************************************************)
(* What TLAPS proves about the way the scanner walks: where its candidates *)
(* and descriptors come from, on a tree that changes, in which order, and  *)
(* that nothing which stands still escapes it.                             *)
(***************************************************************************)
EXTENDS ScannerProofs, Induction

USE FileSystemAssumption, ScannerAssumption

(* The history holds what is there now. *)
Remembered == \A d \in Inode, n \in Name : dirent[d][n] \in past[d][n]

(* The history only grows, and what an entry becomes is added to it. *)
LEMMA PastGrows ==
  ASSUME FsTypeOK, Remembered, FsChange
  PROVE  /\ \A d \in Inode, n \in Name : past[d][n] \subseteq past'[d][n]
         /\ Remembered'
<1> DEFINE Goal == /\ \A d \in Inode, n \in Name : past[d][n] \subseteq past'[d][n]
                   /\ Remembered'
<1>1. ASSUME NEW tree, Rewrite(tree)
      PROVE  Goal
  BY <1>1 DEF Rewrite, Remembered
<1>2. ASSUME NEW d \in DirInode, ChangeMode(d) PROVE Goal
  BY <1>2 DEF ChangeMode, Remembered
<1>3. ASSUME NEW d \in DirInode, NEW n \in Name, NEW i \in Inode, Create(d, n, i)
      PROVE  Goal
  BY <1>1, <1>3 DEF Create
<1>4. ASSUME NEW d \in DirInode, NEW n \in Name, Remove(d, n) PROVE Goal
  BY <1>1, <1>4 DEF Remove
<1>5. ASSUME NEW d \in DirInode, NEW n \in Name, NEW e \in DirInode,
             NEW m \in Name, Rename(d, n, e, m)
      PROVE  Goal
  BY <1>1, <1>5 DEF Rename
<1> HIDE DEF Goal
<1>6. Goal
  BY <1>2, <1>3, <1>4, <1>5 DEF FsChange
<1> QED
  BY <1>6 DEF Goal

LEMMA PastStep ==
  ASSUME TypeOK, Remembered, [Next]_vars
  PROVE  /\ \A d \in Inode, n \in Name : past[d][n] \subseteq past'[d][n]
         /\ Remembered'
<1>1. CASE UNCHANGED fsVars
  BY <1>1 DEF fsVars, Remembered
<1>2. CASE World
  BY <1>2, PastGrows DEF World, TypeOK
<1>3. CASE DirectoryStep
  BY <1>1, <1>3 DEF DirectoryStep, DupFails, DupDirectory, PopDirectory,
     FdopendirFails, Fdopendir, Readdir, ReaddirEnds, ReaddirFails
<1>4. CASE EntryStep
  BY <1>1, <1>4 DEF EntryStep, StatxFails, StatxIncomplete, StatxUnknownType,
     StatxExcluded, StatxGoesOn, StatxSuffices, OpenatFails,
     OpenatDirectory, ReadlinkFails, Readlink, RejectEntry
<1>5. CASE ScannerStep
  BY <1>1, <1>3, <1>4, <1>5 DEF ScannerStep, OpenRootFails, OpenRoot,
     FinishDiscovery, CollectMetadata
<1> QED
  BY <1>1, <1>2, <1>5 DEF Next, Done, vars

(* While a directory is read, the record in hand names it; what statx saw  *)
(* was there; and only directories are open.                               *)
Reading ==
  pc \in InStream =>
    /\ actual_entry.dir_fds_index \in DOMAIN directory_fds
    /\ actual_entry.display_path = directory_paths[actual_entry.dir_fds_index]
Seen ==
  pc \in {"openat", "readlinkat"} => entry.inode \in past[ParentInode][entry.name]
DirectoriesOpen == directory_fds \in Seq(DirInode)

SourceInv ==
  /\ DescriptorInv /\ Remembered /\ Reading /\ Seen /\ DirectoriesOpen
  /\ NothingInvented /\ LinksNotFollowed

LEMMA SourceInit == Init => SourceInv
<1> SUFFICES ASSUME Init PROVE SourceInv
  OBVIOUS
<1>1. Remembered
  BY DEF Init, FsInit, Remembered
<1> QED
  BY <1>1, DescriptorInit DEF Init, SourceInv, Reading, Seen, InStream, InEntry,
     DirectoriesOpen, NothingInvented, LinksNotFollowed

LEMMA SourceStep ==
  SourceInv /\ [Next]_vars => SourceInv'
<1> SUFFICES ASSUME SourceInv, [Next]_vars
             PROVE  /\ Reading' /\ Seen' /\ DirectoriesOpen'
                    /\ NothingInvented' /\ LinksNotFollowed'
  BY DescriptorStep, PastStep DEF SourceInv, DescriptorInv, Shape
<1> DEFINE Goal == /\ Reading' /\ Seen' /\ DirectoriesOpen'
                   /\ NothingInvented' /\ LinksNotFollowed'
<1>a. /\ TypeOK /\ TypeOK' /\ Handles
      /\ Remembered /\ Reading /\ Seen /\ DirectoriesOpen
      /\ NothingInvented /\ LinksNotFollowed
      /\ \A d \in Inode, n \in Name : past[d][n] \subseteq past'[d][n]
  BY TypeStep, PastStep DEF SourceInv, DescriptorInv, Shape
<1>b. /\ DOMAIN directory_fds = DOMAIN directory_paths
      /\ \A k \in DOMAIN directory_fds : directory_fds[k] \in DirInode
      /\ DirInode \subseteq Inode
      /\ candidates \in Seq(CandidateEntry)
      /\ entry.name \in Name
  <2>1. Len(directory_paths) = Len(directory_fds)
    BY <1>a DEF Handles
  <2>2. /\ directory_paths \in Seq(Seq(Name)) /\ directory_fds \in Seq(Inode)
        /\ candidates \in Seq(CandidateEntry) /\ entry.name \in Name
    BY <1>a DEF TypeOK
  <2>3. directory_fds \in Seq(DirInode) /\ DirInode \subseteq Inode
    BY <1>a DEF DirectoriesOpen, DirInode
  <2>4. \A k \in DOMAIN directory_fds : directory_fds[k] \in DirInode
    BY <2>3
  <2> QED  BY <2>1, <2>2, <2>3, <2>4
(* A parent stays where it was, and its entries' history only grows. *)
<1>c. ASSUME DOMAIN directory_fds \subseteq DOMAIN directory_fds',
             \A k \in DOMAIN directory_fds :
               /\ directory_fds'[k] = directory_fds[k]
               /\ directory_paths'[k] = directory_paths[k],
             NEW c \in CandidateEntry,
             c.parent \in DOMAIN directory_fds,
             c.inode \in past[directory_fds[c.parent]][c.name],
             c.full_path = Append(directory_paths[c.parent], c.name)
      PROVE  /\ c.parent \in DOMAIN directory_fds'
             /\ c.inode \in past'[directory_fds'[c.parent]][c.name]
             /\ c.full_path = Append(directory_paths'[c.parent], c.name)
  <2>1. c.name \in Name /\ directory_fds[c.parent] \in Inode
    BY <1>b, <1>c DEF CandidateEntry
  <2> QED  BY <1>a, <1>c, <2>1
<1>d. ASSUME UNCHANGED <<directory_fds, directory_paths, candidates>>
      PROVE  DirectoriesOpen' /\ NothingInvented' /\ LinksNotFollowed'
  <2>1. DirectoriesOpen'
    BY <1>a, <1>d DEF DirectoriesOpen
  <2>2. NothingInvented'
    <3> SUFFICES ASSUME NEW k \in DOMAIN candidates
                 PROVE  /\ candidates[k].parent \in DOMAIN directory_fds'
                        /\ candidates[k].inode \in
                             past'[directory_fds'[candidates[k].parent]][candidates[k].name]
                        /\ candidates[k].full_path =
                             Append(directory_paths'[candidates[k].parent], candidates[k].name)
      BY <1>d DEF NothingInvented
    <3>1. candidates[k] \in CandidateEntry
      BY <1>b
    <3>2. /\ candidates[k].parent \in DOMAIN directory_fds
          /\ candidates[k].inode \in
               past[directory_fds[candidates[k].parent]][candidates[k].name]
          /\ candidates[k].full_path =
               Append(directory_paths[candidates[k].parent], candidates[k].name)
      BY <1>a DEF NothingInvented
    <3> QED  BY <1>c, <1>d, <3>1, <3>2
  <2>3. LinksNotFollowed'
    BY <1>a, <1>b, <1>d DEF LinksNotFollowed
  <2> QED  BY <2>1, <2>2, <2>3
(* Nothing but the filesystem and the place in the loop changes. *)
<1>e. ASSUME UNCHANGED <<walk, actual_entry, candidates>>,
             pc' \in InStream => pc \in InStream,
             pc' \in {"openat", "readlinkat"} =>
               pc \in {"openat", "readlinkat"} /\ entry' = entry
      PROVE  Goal
  <2>1. Reading'
    BY <1>a, <1>e DEF Reading, walk
  <2>2. Seen'
    <3> SUFFICES ASSUME pc' \in {"openat", "readlinkat"} PROVE Seen'
      BY DEF Seen
    <3>1. ParentInode \in Inode /\ ParentInode' = ParentInode
      BY <1>a, <1>b, <1>e DEF Reading, ParentInode, walk, InStream, InEntry
    <3> QED  BY <1>a, <1>b, <1>e, <3>1 DEF Seen
  <2> QED  BY <1>d, <1>e, <2>1, <2>2 DEF walk
(* A candidate is added while a directory is read. *)
<1>f. ASSUME NEW target, AddCandidate(target), pc \in InEntry, pc' = "readdir",
             DOMAIN directory_fds \subseteq DOMAIN directory_fds',
             \A k \in DOMAIN directory_fds :
               /\ directory_fds'[k] = directory_fds[k]
               /\ directory_paths'[k] = directory_paths[k],
             UNCHANGED actual_entry,
             entry'.name = entry.name,
             entry'.inode \in past[ParentInode][entry.name]
      PROVE  Reading' /\ Seen' /\ NothingInvented'
  <2> DEFINE new == [name |-> entry'.name, parent |-> actual_entry.dir_fds_index,
                     full_path |-> FullPath(entry'.name), inode |-> entry'.inode,
                     symlink_target |-> target]
  <2>1. /\ Len(candidates) \in Nat
        /\ DOMAIN candidates = 1..Len(candidates)
        /\ DOMAIN candidates' = 1..(Len(candidates) + 1)
        /\ \A k \in 1..Len(candidates) : candidates'[k] = candidates[k]
        /\ candidates'[Len(candidates) + 1] = new
    BY <1>b, <1>f DEF AddCandidate
  <2>2. candidates' \in Seq(CandidateEntry)
    BY <1>a DEF TypeOK
  <2>3. /\ actual_entry.dir_fds_index \in DOMAIN directory_fds
        /\ actual_entry.display_path = directory_paths[actual_entry.dir_fds_index]
    BY <1>a, <1>f DEF Reading, InStream
  <2>4. Reading' /\ Seen'
    BY <1>f, <2>3 DEF Reading, Seen
  <2>5. /\ new.parent \in DOMAIN directory_fds
        /\ new.inode \in past[directory_fds[new.parent]][new.name]
        /\ new.full_path = Append(directory_paths[new.parent], new.name)
    BY <1>f, <2>3 DEF ParentInode, FullPath
  <2>6. ASSUME NEW k \in DOMAIN candidates'
        PROVE  LET c == candidates'[k]
               IN /\ c.parent \in DOMAIN directory_fds
                  /\ c.inode \in past[directory_fds[c.parent]][c.name]
                  /\ c.full_path = Append(directory_paths[c.parent], c.name)
    <3>1. CASE k \in 1..Len(candidates)
      BY <1>a, <2>1, <3>1 DEF NothingInvented
    <3>2. CASE k = Len(candidates) + 1
      BY <2>1, <2>5, <3>2
    <3> QED  BY <2>1, <2>6, <3>1, <3>2
  <2>7. \A k \in DOMAIN candidates' : candidates'[k] \in CandidateEntry
    BY <2>2
  <2>8. NothingInvented'
    <3> SUFFICES ASSUME NEW k \in DOMAIN candidates'
                 PROVE  LET c == candidates'[k]
                        IN /\ c.parent \in DOMAIN directory_fds'
                           /\ c.inode \in past'[directory_fds'[c.parent]][c.name]
                           /\ c.full_path = Append(directory_paths'[c.parent], c.name)
      BY DEF NothingInvented
    <3> QED  BY <1>c, <1>f, <2>6, <2>7
  <2> QED  BY <2>4, <2>8
<1> USE DEF output
<1>1. CASE UNCHANGED vars
  BY <1>1, <1>e DEF vars
<1>2. ASSUME NEW errno \in Errno, OpenRootFails(errno) PROVE Goal
  BY <1>2, <1>e DEF OpenRootFails, InStream, InEntry
<1>3. CASE OpenRoot
  BY <1>3, <1>a DEF OpenRoot, Handles, Reading, Seen, InStream, InEntry,
     DirectoriesOpen, NothingInvented, LinksNotFollowed
<1>4. CASE DupFails \/ DupDirectory
  <2>1. /\ PopDirectory /\ pc' \in {"dup", "fdopendir"}
        /\ UNCHANGED <<directory_fds, directory_paths, candidates>>
    BY <1>4 DEF DupFails, DupDirectory, PopDirectory
  <2>2. /\ pending_directories \in Seq(DirectoryRecord)
        /\ pending_directories # <<>>
        /\ actual_entry' = Head(pending_directories)
    BY <2>1, <1>a DEF PopDirectory, TypeOK
  <2>3. 1 \in DOMAIN pending_directories /\ actual_entry' = pending_directories[1]
    BY <2>2
  <2>4. /\ actual_entry'.dir_fds_index \in 1..Len(directory_paths)
        /\ actual_entry'.display_path = directory_paths[actual_entry'.dir_fds_index]
    BY <1>a, <2>3 DEF Handles
  <2>5. directory_paths \in Seq(Seq(Name))
    BY <1>a DEF TypeOK
  <2>6. Reading' /\ Seen'
    BY <1>b, <2>1, <2>4, <2>5 DEF Reading, Seen
  <2> QED  BY <1>d, <2>1, <2>6
<1>5. CASE FdopendirFails \/ Fdopendir \/ ReaddirEnds \/ ReaddirFails
  BY <1>5, <1>e DEF FdopendirFails, Fdopendir, ReaddirEnds, ReaddirFails,
     CloseStream, InStream, InEntry
<1>6. ASSUME NEW n \in Name, Readdir(n) PROVE Goal
  BY <1>6, <1>e DEF Readdir, InStream, InEntry
<1>7. ASSUME NEW code, NEW errno, RejectEntry(code, errno), pc \in InEntry
      PROVE  Goal
  BY <1>7, <1>e DEF RejectEntry, InStream, InEntry
<1>8. ASSUME NEW errno \in Errno, StatxFails(errno) \/ OpenatFails(errno)
      PROVE  Goal
  BY <1>7, <1>8 DEF StatxFails, OpenatFails, InEntry
<1>9. CASE StatxIncomplete \/ StatxUnknownType \/ StatxExcluded
  BY <1>7, <1>9 DEF StatxIncomplete, StatxUnknownType, StatxExcluded, StatxSees,
     InEntry
<1>10. ASSUME NEW i \in Inode, StatxSees(i)
       PROVE  /\ entry'.name = entry.name /\ entry'.inode = i
              /\ i \in past[ParentInode][entry.name] /\ ParentInode \in Inode
  <2>1. entry'.name = entry.name /\ entry'.inode = i
    BY <1>10, <1>a DEF StatxSees, TypeOK
  <2>2. pc \in InStream /\ i = dirent[ParentInode][entry.name]
    BY <1>10 DEF StatxSees, LookUp, InStream, InEntry
  <2>3. ParentInode \in Inode
    BY <1>a, <1>b, <2>2 DEF Reading, ParentInode
  <2> QED  BY <1>a, <1>b, <2>1, <2>2, <2>3 DEF Remembered
<1>11. CASE StatxGoesOn
  <2>1. PICK i \in Inode : StatxSees(i)
    BY <1>11 DEF StatxGoesOn
  <2>2. /\ UNCHANGED <<walk, actual_entry, candidates>>
        /\ pc \in InStream
    BY <1>11 DEF StatxGoesOn, StatxSees, InStream, InEntry
  <2>3. Reading'
    BY <1>a, <2>2 DEF Reading, walk
  <2>4. ParentInode' = ParentInode
    BY <2>2 DEF ParentInode, walk
  <2>5. Seen'
    BY <1>a, <1>b, <1>10, <2>1, <2>4 DEF Seen
  <2> QED  BY <1>d, <2>2, <2>3, <2>5 DEF walk
<1>12. ASSUME NEW target, AddCandidate(target), pc \in InEntry, pc' = "readdir",
              UNCHANGED <<walk, actual_entry>>,
              entry'.name = entry.name,
              entry'.inode \in past[ParentInode][entry.name]
       PROVE  Goal
  <2>1. DirectoriesOpen' /\ LinksNotFollowed'
    BY <1>a, <1>b, <1>12 DEF DirectoriesOpen, LinksNotFollowed, walk
  <2>2. Reading' /\ Seen' /\ NothingInvented'
    BY <1>f, <1>12 DEF walk
  <2> QED  BY <2>1, <2>2
<1>13. CASE StatxSuffices
  <2>1. PICK i \in Inode : StatxSees(i)
    BY <1>13 DEF StatxSuffices
  <2>2. /\ AddCandidate(NoInode) /\ pc \in InEntry /\ pc' = "readdir"
        /\ UNCHANGED <<walk, actual_entry>>
    BY <1>13 DEF StatxSuffices, StatxSees, InEntry
  <2> QED  BY <1>10, <1>12, <2>1, <2>2
<1>14. CASE ReadlinkFails \/ Readlink
  <2>1. /\ pc = "readlinkat" /\ pc' = "readdir" /\ entry' = entry
        /\ UNCHANGED <<walk, actual_entry>>
        /\ \E target : AddCandidate(target)
    BY <1>14 DEF ReadlinkFails, Readlink
  <2>2. entry.inode \in past[ParentInode][entry.name]
    BY <1>a, <2>1 DEF Seen
  <2> QED  BY <1>12, <2>1, <2>2 DEF InEntry
<1>15. CASE OpenatDirectory
  <2> DEFINE new == OpenedInode(entry.name)
  <2>1. /\ directory_fds' = Append(directory_fds, new)
        /\ directory_paths' = Append(directory_paths, FullPath(entry.name))
        /\ new \in DirInode
        /\ pc = "openat" /\ pc' = "readdir" /\ entry' = entry
        /\ UNCHANGED actual_entry
        /\ AddCandidate(NoInode)
    BY <1>15 DEF OpenatDirectory
  <2>2. /\ directory_fds \in Seq(DirInode) /\ directory_paths \in Seq(Seq(Name))
        /\ DOMAIN directory_fds = DOMAIN directory_paths
    BY <1>a, <1>b DEF TypeOK, DirectoriesOpen
  <2>3. /\ DOMAIN directory_fds \subseteq DOMAIN directory_fds'
        /\ \A k \in DOMAIN directory_fds :
             /\ directory_fds'[k] = directory_fds[k]
             /\ directory_paths'[k] = directory_paths[k]
        /\ DOMAIN directory_fds' = DOMAIN directory_fds \cup {Len(directory_fds) + 1}
        /\ directory_fds'[Len(directory_fds) + 1] = new
    BY <2>1, <2>2
  <2>4. entry.inode \in past[ParentInode][entry.name]
    BY <1>a, <2>1 DEF Seen
  <2>5. Reading' /\ Seen' /\ NothingInvented'
    BY <1>f, <2>1, <2>3, <2>4 DEF InEntry
  <2>6. DirectoriesOpen'
    BY <2>1, <2>2 DEF DirectoriesOpen
  <2>7. ParentInode \in DirInode /\ new \in past[ParentInode][entry.name]
    <3>1. ParentInode \in DirInode
      BY <1>a, <1>b, <2>1 DEF Reading, ParentInode, InStream, InEntry
    <3>2. new = dirent[ParentInode][entry.name]
      BY DEF OpenedInode, LookUp
    <3> QED  BY <1>a, <1>b, <3>1, <3>2 DEF Remembered
  <2>8. LinksNotFollowed'
    <3> SUFFICES ASSUME NEW k \in DOMAIN directory_fds', directory_fds'[k] # Root
                 PROVE  \E d \in DirInode, n \in Name : directory_fds'[k] \in past'[d][n]
      BY DEF LinksNotFollowed
    <3>1. CASE k \in DOMAIN directory_fds
      BY <1>a, <1>b, <2>3, <3>1 DEF LinksNotFollowed
    <3>2. CASE k = Len(directory_fds) + 1
      BY <1>a, <1>b, <2>3, <2>7, <3>2
    <3> QED  BY <2>3, <3>1, <3>2
  <2> QED  BY <2>5, <2>6, <2>8
<1>16. CASE FinishDiscovery
  BY <1>16, <1>e DEF FinishDiscovery, InStream, InEntry
<1>17. CASE CollectMetadata
  BY <1>17 DEF CollectMetadata, Reading, Seen, InStream, InEntry,
     DirectoriesOpen, NothingInvented, LinksNotFollowed
<1>18. CASE World
  BY <1>18, <1>e DEF World
<1>19. CASE DirectoryStep
  BY <1>4, <1>5, <1>6, <1>19 DEF DirectoryStep
<1>20. CASE EntryStep
  BY <1>8, <1>9, <1>11, <1>13, <1>14, <1>15, <1>20 DEF EntryStep
<1>21. CASE ScannerStep
  BY <1>2, <1>3, <1>16, <1>17, <1>19, <1>20, <1>21 DEF ScannerStep
<1> QED
  BY <1>1, <1>18, <1>21 DEF Next, Done

(* However entries move between the system calls about them, a candidate   *)
(* names a directory the scanner holds, and that directory held the inode  *)
(* reported under the name reported, at some time of the audit.            *)
THEOREM NothingIsInvented == Spec => []NothingInvented
<1>1. Spec => []SourceInv
  BY SourceInit, SourceStep, PTL DEF Spec
<1>2. SourceInv => NothingInvented
  BY DEF SourceInv
<1> QED
  BY <1>1, <1>2, PTL

(* Every directory opened was an entry of a directory: none is reached     *)
(* through a link, whatever takes the place of a name before openat.       *)
THEOREM LinksStayClosed == Spec => []LinksNotFollowed
<1>1. Spec => []SourceInv
  BY SourceInit, SourceStep, PTL DEF Spec
<1>2. SourceInv => LinksNotFollowed
  BY DEF SourceInv
<1> QED
  BY <1>1, <1>2, PTL

---------------------------------------------------------------------------

(* The queue holds at most two levels, the one being read and the next, in *)
(* this order; a display path is as long as its level is deep; and what is *)
(* about to be opened is still within the depth asked for.                 *)
Deepest == IF options.recursive THEN options.maximum_depth ELSE 0

AtItsLevel(record) ==
  /\ Len(record.display_path) = Len(RootPath) + record.depth
  /\ record.depth <= Deepest

Levels ==
  /\ pc = "open" => actual_entry.depth = 0
  /\ AtItsLevel(actual_entry)
  /\ \A k \in DOMAIN pending_directories :
       /\ AtItsLevel(pending_directories[k])
       /\ pending_directories[k].depth \in {actual_entry.depth, actual_entry.depth + 1}
       /\ \A j \in 1..k : pending_directories[j].depth <= pending_directories[k].depth
  /\ pc = "openat" => options.recursive /\ actual_entry.depth < options.maximum_depth
  /\ \A k \in DOMAIN candidates :
       Len(candidates[k].full_path) <= Len(RootPath) + actual_entry.depth + 1

LevelInv == Shape /\ Levels /\ BreadthFirst

LEMMA LevelInit == Init => LevelInv
<1> SUFFICES ASSUME Init PROVE Levels /\ BreadthFirst
  BY ShapeInit DEF LevelInv
<1>1. Deepest \in Nat /\ Len(RootPath) \in Nat
  BY DEF Init, Deepest, ScanOptions
<1> QED
  BY <1>1 DEF Init, Levels, AtItsLevel, BreadthFirst

LEMMA LevelStep ==
  LevelInv /\ [Next]_vars => LevelInv'
<1> SUFFICES ASSUME LevelInv, [Next]_vars PROVE Levels' /\ BreadthFirst'
  BY ShapeStep DEF LevelInv
<1>a. TypeOK /\ TypeOK' /\ Levels /\ BreadthFirst
  BY TypeStep DEF LevelInv, Shape
<1>b. /\ actual_entry \in DirectoryRecord /\ actual_entry.depth \in Nat
      /\ pending_directories \in Seq(DirectoryRecord)
      /\ candidates \in Seq(CandidateEntry)
      /\ options \in ScanOptions
      /\ Deepest \in Nat /\ Len(RootPath) \in Nat
      /\ Deepest = IF options.recursive THEN options.maximum_depth ELSE 0
      /\ \A k \in DOMAIN pending_directories : pending_directories[k].depth \in Nat
      /\ \A k \in DOMAIN candidates : Len(candidates[k].full_path) \in Nat
  <2>1. /\ actual_entry \in DirectoryRecord
        /\ pending_directories \in Seq(DirectoryRecord)
        /\ candidates \in Seq(CandidateEntry)
        /\ options \in ScanOptions
    BY <1>a DEF TypeOK
  <2>2. \A k \in DOMAIN pending_directories : pending_directories[k] \in DirectoryRecord
    BY <2>1
  <2>3. \A k \in DOMAIN candidates : candidates[k] \in CandidateEntry
    BY <2>1
  <2>4. \A c \in CandidateEntry : Len(c.full_path) \in Nat
    BY DEF CandidateEntry
  <2> QED  BY <2>1, <2>2, <2>3, <2>4 DEF DirectoryRecord, Deepest, ScanOptions
<1>d. ASSUME UNCHANGED options PROVE Deepest' = Deepest
  BY <1>d DEF Deepest
<1>c. ASSUME UNCHANGED <<options, actual_entry, pending_directories, candidates>>,
             pc' = "open" => pc = "open",
             pc' = "openat" => pc = "openat" \/ (\E i \in Inode : Descends(i))
      PROVE  Levels' /\ BreadthFirst'
  BY <1>a, <1>c DEF Levels, AtItsLevel, Deepest, BreadthFirst, Descends
<1> USE DEF output, given, walk
<1>1. CASE UNCHANGED vars
  BY <1>1, <1>c DEF vars
<1>2. ASSUME NEW errno \in Errno, OpenRootFails(errno) PROVE Levels' /\ BreadthFirst'
  BY <1>2, <1>c DEF OpenRootFails
<1>3. CASE OpenRoot
  <2> DEFINE record == [display_path |-> RootPath, dir_fds_index |-> 1, depth |-> 0]
  <2>1. /\ pending_directories' = <<record>> /\ pc' = "dup" /\ pc = "open"
        /\ UNCHANGED <<options, actual_entry, candidates>>
    BY <1>3 DEF OpenRoot
  <2>2. AtItsLevel(record)
    BY <1>b DEF AtItsLevel
  <2>3. AtItsLevel(actual_entry)' /\ AtItsLevel(record)'
    BY <1>a, <1>d, <2>1, <2>2 DEF Levels, AtItsLevel
  <2>4. actual_entry.depth = 0
    BY <1>a, <2>1 DEF Levels
  <2> QED  BY <1>a, <1>b, <1>d, <2>1, <2>3, <2>4 DEF Levels, BreadthFirst
<1>4. CASE DupFails \/ DupDirectory
  <2>1. /\ PopDirectory /\ pc' \in {"dup", "fdopendir"}
        /\ UNCHANGED <<options, candidates>>
    BY <1>4 DEF DupFails, DupDirectory, PopDirectory
  <2>2. /\ 1 \in DOMAIN pending_directories
        /\ actual_entry' = pending_directories[1]
        /\ \A k \in DOMAIN pending_directories' :
             /\ k \in Nat \ {0}
             /\ k + 1 \in DOMAIN pending_directories
             /\ pending_directories'[k] = pending_directories[k+1]
    BY <1>b, <2>1 DEF PopDirectory
  <2>3. /\ AtItsLevel(actual_entry)' /\ actual_entry'.depth \in Nat
        /\ actual_entry'.depth \in {actual_entry.depth, actual_entry.depth + 1}
    <3>1. /\ AtItsLevel(pending_directories[1])
          /\ pending_directories[1].depth \in {actual_entry.depth, actual_entry.depth + 1}
      BY <1>a, <2>2 DEF Levels
    <3> QED  BY <1>b, <1>d, <2>1, <2>2, <3>1 DEF AtItsLevel
  <2>4. ASSUME NEW k \in DOMAIN pending_directories'
        PROVE  /\ AtItsLevel(pending_directories[k])'
               /\ pending_directories'[k].depth \in
                    {actual_entry'.depth, actual_entry'.depth + 1}
               /\ \A j \in 1..k :
                    pending_directories'[j].depth <= pending_directories'[k].depth
    <3>1. /\ k + 1 \in DOMAIN pending_directories /\ k \in Nat \ {0}
          /\ pending_directories'[k] = pending_directories[k+1]
          /\ pending_directories[k+1].depth \in Nat
          /\ pending_directories[1].depth \in Nat
      BY <1>b, <2>2, <2>4
    <3>2. AtItsLevel(pending_directories[k])'
      BY <1>a, <1>d, <2>1, <3>1 DEF Levels, AtItsLevel
    <3>3. pending_directories'[k].depth \in {actual_entry'.depth, actual_entry'.depth + 1}
      <4>1. /\ pending_directories[k+1].depth \in {actual_entry.depth, actual_entry.depth + 1}
            /\ pending_directories[1].depth \in {actual_entry.depth, actual_entry.depth + 1}
            /\ pending_directories[1].depth <= pending_directories[k+1].depth
        BY <1>a, <2>2, <3>1 DEF Levels
      <4> QED  BY <1>b, <2>2, <3>1, <4>1
    <3>4. ASSUME NEW j \in 1..k
          PROVE  pending_directories'[j].depth <= pending_directories'[k].depth
      <4>1. j + 1 \in 1..(k + 1) /\ j \in DOMAIN pending_directories'
        BY <1>b, <2>1, <2>4, <3>1 DEF PopDirectory
      <4>2. pending_directories[j+1].depth <= pending_directories[k+1].depth
        BY <1>a, <3>1, <4>1 DEF Levels
      <4> QED  BY <2>2, <3>1, <4>1, <4>2
    <3> QED  BY <3>2, <3>3, <3>4
  <2>5. Levels'
    <3>1. \A k \in DOMAIN candidates' :
            Len(candidates'[k].full_path) <= Len(RootPath) + actual_entry'.depth + 1
      <4>1. \A k \in DOMAIN candidates :
              Len(candidates[k].full_path) <= Len(RootPath) + actual_entry.depth + 1
        BY <1>a DEF Levels
      <4> DEFINE old == actual_entry.depth
                 new == actual_entry'.depth
      <4>2. old <= new /\ old \in Nat /\ new \in Nat
        BY <1>b, <2>3
      <4> HIDE DEF old, new
      <4>3. \A k \in DOMAIN candidates :
              Len(candidates[k].full_path) <= Len(RootPath) + new + 1
        BY <1>b, <4>1, <4>2 DEF old
      <4> QED  BY <2>1, <4>3 DEF new
    <3> QED  BY <2>1, <2>3, <2>4, <3>1 DEF Levels
  <2> QED  BY <1>a, <2>1, <2>5 DEF BreadthFirst
<1>5. CASE FdopendirFails \/ Fdopendir \/ ReaddirEnds \/ ReaddirFails
  BY <1>5, <1>c DEF FdopendirFails, Fdopendir, ReaddirEnds, ReaddirFails, CloseStream
<1>6. ASSUME NEW n \in Name, Readdir(n) PROVE Levels' /\ BreadthFirst'
  BY <1>6, <1>c DEF Readdir
<1>7. ASSUME NEW code, NEW errno, RejectEntry(code, errno)
      PROVE  Levels' /\ BreadthFirst'
  BY <1>7, <1>c DEF RejectEntry
<1>8. ASSUME NEW errno \in Errno, StatxFails(errno) \/ OpenatFails(errno)
      PROVE  Levels' /\ BreadthFirst'
  BY <1>7, <1>8 DEF StatxFails, OpenatFails
<1>9. CASE StatxIncomplete \/ StatxUnknownType \/ StatxExcluded
  BY <1>7, <1>9 DEF StatxIncomplete, StatxUnknownType, StatxExcluded
<1>10. CASE StatxGoesOn
  <2>1. pc' = "openat" => \E i \in Inode : Descends(i)
    BY <1>10 DEF StatxGoesOn
  <2>2. /\ UNCHANGED <<options, actual_entry, pending_directories, candidates>>
        /\ pc' # "open"
    BY <1>10 DEF StatxGoesOn
  <2> QED  BY <1>c, <2>1, <2>2
(* A candidate has the depth of the directory being read, and one more. *)
<1>11. ASSUME NEW target, AddCandidate(target), pc' = "readdir",
              UNCHANGED <<options, actual_entry>>
       PROVE  /\ BreadthFirst'
              /\ \A k \in DOMAIN candidates' :
                   Len(candidates'[k].full_path) <= Len(RootPath) + actual_entry.depth + 1
  <2> DEFINE len == Len(candidates)
             deep == Len(RootPath) + actual_entry.depth + 1
  <2>1. /\ len \in Nat
        /\ DOMAIN candidates = 1..len
        /\ DOMAIN candidates' = 1..(len + 1)
        /\ \A k \in 1..len : candidates'[k] = candidates[k]
        /\ candidates'[len + 1].full_path = FullPath(entry'.name)
    BY <1>b, <1>11 DEF AddCandidate
  <2>2. Len(FullPath(entry'.name)) = deep
    <3>1. /\ actual_entry.display_path \in Seq(Name)
          /\ Len(actual_entry.display_path) = Len(RootPath) + actual_entry.depth
      BY <1>a, <1>b DEF Levels, AtItsLevel, DirectoryRecord
    <3>2. Len(FullPath(entry'.name)) = Len(actual_entry.display_path) + 1
      BY <3>1 DEF FullPath
    <3> QED  BY <1>b, <3>1, <3>2
  <2>3. deep <= Len(RootPath) + 1 + Deepest /\ deep \in Nat
    BY <1>a, <1>b DEF Levels, AtItsLevel
  <2>4. \A k \in 1..len : /\ Len(candidates[k].full_path) <= deep
                          /\ Len(candidates[k].full_path) <= Len(RootPath) + 1 + Deepest
                          /\ \A j \in 1..k : Len(candidates[j].full_path)
                                               <= Len(candidates[k].full_path)
    BY <1>a, <1>b, <2>1 DEF Levels, BreadthFirst
  <2>5. Len(candidates'[len + 1].full_path) = deep
    BY <2>1, <2>2
  <2> HIDE DEF len, deep
  <2>6. \A k \in 1..(len + 1) : Len(candidates'[k].full_path) <= deep
    BY <2>1, <2>3, <2>4, <2>5
  <2>7. ASSUME NEW k \in 1..(len + 1)
        PROVE  /\ Len(candidates'[k].full_path) <= Len(RootPath) + 1 + Deepest
               /\ \A j \in 1..k : Len(candidates'[j].full_path)
                                    <= Len(candidates'[k].full_path)
    <3>1. CASE k \in 1..len
      BY <2>1, <2>4, <3>1
    <3>2. CASE k = len + 1
      BY <2>1, <2>3, <2>5, <2>6, <3>2
    <3> QED  BY <2>1, <2>7, <3>1, <3>2
  <2>8. BreadthFirst'
    BY <1>b, <1>11, <2>1, <2>7 DEF BreadthFirst
  <2> QED  BY <2>1, <2>6, <2>8 DEF deep
<1>12. CASE StatxSuffices \/ ReadlinkFails \/ Readlink
  <2>1. /\ UNCHANGED <<options, actual_entry, pending_directories>>
        /\ pc' = "readdir"
        /\ \E target : AddCandidate(target)
    BY <1>12 DEF StatxSuffices, ReadlinkFails, Readlink
  <2>2. /\ BreadthFirst'
        /\ \A k \in DOMAIN candidates' :
             Len(candidates'[k].full_path) <= Len(RootPath) + actual_entry.depth + 1
    BY <1>11, <2>1
  <2>3. Levels'
    BY <1>a, <2>1, <2>2 DEF Levels, AtItsLevel, Deepest
  <2> QED  BY <2>2, <2>3
<1>13. CASE OpenatDirectory
  <2> DEFINE record == [display_path |-> FullPath(entry.name),
                        dir_fds_index |-> Len(directory_fds) + 1,
                        depth |-> actual_entry.depth + 1]
             len == Len(pending_directories)
  <2>1. /\ pending_directories' = Append(pending_directories, record)
        /\ pc = "openat" /\ pc' = "readdir"
        /\ UNCHANGED <<options, actual_entry>>
        /\ AddCandidate(NoInode)
    BY <1>13 DEF OpenatDirectory
  <2>2. /\ len \in Nat
        /\ DOMAIN pending_directories = 1..len
        /\ DOMAIN pending_directories' = 1..(len + 1)
        /\ \A k \in 1..len : pending_directories'[k] = pending_directories[k]
        /\ pending_directories'[len + 1] = record
    BY <1>b, <2>1
  <2>3. /\ Len(record.display_path) = Len(RootPath) + record.depth
        /\ record.depth <= Deepest /\ record.depth = actual_entry.depth + 1
    <3>1. /\ actual_entry.display_path \in Seq(Name)
          /\ Len(actual_entry.display_path) = Len(RootPath) + actual_entry.depth
          /\ options.recursive /\ actual_entry.depth < options.maximum_depth
      BY <1>a, <1>b, <2>1 DEF Levels, AtItsLevel, DirectoryRecord
    <3>2. Len(FullPath(entry.name)) = Len(actual_entry.display_path) + 1
      BY <3>1 DEF FullPath
    <3>3. options.maximum_depth \in Nat
      BY <1>b DEF ScanOptions
    <3> QED  BY <1>b, <3>1, <3>2, <3>3
  <2> HIDE DEF record, len
  <2>4. ASSUME NEW k \in 1..(len + 1)
        PROVE  /\ AtItsLevel(pending_directories[k])'
               /\ pending_directories'[k].depth \in
                    {actual_entry.depth, actual_entry.depth + 1}
               /\ \A j \in 1..k :
                    pending_directories'[j].depth <= pending_directories'[k].depth
    <3>1. CASE k \in 1..len
      BY <1>a, <1>d, <2>1, <2>2, <3>1 DEF Levels, AtItsLevel
    <3>2. CASE k = len + 1
      <4>1. AtItsLevel(pending_directories[k])'
        BY <1>d, <2>1, <2>2, <2>3, <3>2 DEF AtItsLevel
      <4>2. \A j \in 1..len : pending_directories[j].depth
                                \in {actual_entry.depth, actual_entry.depth + 1}
        BY <1>a, <2>2 DEF Levels
      <4>3. /\ pending_directories'[k].depth = actual_entry.depth + 1
            /\ actual_entry.depth \in Nat
        BY <1>b, <2>2, <2>3, <3>2
      <4>4. ASSUME NEW j \in 1..k
            PROVE  pending_directories'[j].depth <= actual_entry.depth + 1
        <5>1. CASE j = k
          BY <4>3, <5>1
        <5>2. CASE j # k
          BY <2>2, <3>2, <4>2, <4>3, <5>2
        <5> QED  BY <5>1, <5>2
      <4> QED  BY <4>1, <4>3, <4>4
    <3> QED  BY <2>2, <2>4, <3>1, <3>2
  <2>5. /\ BreadthFirst'
        /\ \A k \in DOMAIN candidates' :
             Len(candidates'[k].full_path) <= Len(RootPath) + actual_entry.depth + 1
    BY <1>11, <2>1
  <2>6. AtItsLevel(actual_entry)'
    BY <1>a, <2>1 DEF Levels, AtItsLevel, Deepest
  <2>7. Levels'
    BY <2>1, <2>2, <2>4, <2>5, <2>6 DEF Levels
  <2> QED  BY <2>5, <2>7
<1>14. CASE FinishDiscovery
  BY <1>14, <1>c DEF FinishDiscovery
<1>15. CASE CollectMetadata
  BY <1>15, <1>a DEF CollectMetadata, Levels, AtItsLevel, Deepest, BreadthFirst
<1>16. CASE World
  BY <1>16, <1>c DEF World
<1>17. CASE DirectoryStep
  BY <1>4, <1>5, <1>6, <1>17 DEF DirectoryStep
<1>18. CASE EntryStep
  BY <1>8, <1>9, <1>10, <1>12, <1>13, <1>18 DEF EntryStep
<1>19. CASE ScannerStep
  BY <1>2, <1>3, <1>14, <1>15, <1>17, <1>18, <1>19 DEF ScannerStep
<1> QED
  BY <1>1, <1>16, <1>19 DEF Next, Done

(* Whatever the tree does meanwhile, candidates come out level by level,   *)
(* and none from deeper than the options ask for.                          *)
THEOREM LevelByLevel == Spec => []BreadthFirst
<1>1. Spec => []LevelInv
  BY LevelInit, LevelStep, PTL DEF Spec
<1>2. LevelInv => BreadthFirst
  BY DEF LevelInv
<1> QED
  BY <1>1, <1>2, PTL

---------------------------------------------------------------------------

(* What is still to come: the directory waits in the queue, or its stream  *)
(* is about to be opened, has still to return the name, or has just        *)
(* returned it.                                                            *)
Waiting(j) ==
  \/ \E k \in DOMAIN pending_directories : pending_directories[k].dir_fds_index = j
  \/ pc = "fdopendir" /\ actual_entry.dir_fds_index = j

Unreturned(j, n) ==
  /\ pc \in {"readdir"} \cup InEntry
  /\ actual_entry.dir_fds_index = j
  /\ n \in stream.must \/ (pc \in InEntry /\ entry.name = n)

(* A directory within the depth asked for, which the scanner must open.    *)
ToBeOpened(path, i) ==
  /\ i \in DirInode
  /\ options.recursive
  /\ Len(path) <= Len(RootPath) + options.maximum_depth

Opened(fds, paths, path, i) ==
  \E k \in DOMAIN fds : paths[k] = path /\ fds[k] = i

(* The object i at path is dealt with.                                     *)
Accounted(fds, paths, list, path, i) ==
  \/ Excused(path)
  \/ /\ Listed(list, path, i)
     /\ ToBeOpened(path, i) => Opened(fds, paths, path, i)

DealtWith(j, n) ==
  Accounted(directory_fds, directory_paths, candidates,
            Append(directory_paths[j], n), dirent[directory_fds[j]][n])

(* While discovery runs: every entry that stood still, of every directory  *)
(* opened, is still to come or is dealt with.                              *)
Kept ==
  /\ pc = "readlinkat" => entry.inode \notin DirInode
  /\ pc \notin Terminal \cup {"open"} =>
       /\ directory_fds[1] = Root
       /\ \A j \in DOMAIN directory_fds, n \in Name :
            Stands(directory_fds[j], n) =>
              Waiting(j) \/ Unreturned(j, n) \/ DealtWith(j, n)

(* The descriptors and paths held when discovery ended say why: what stood *)
(* still in a directory opened is dealt with.                              *)
Closed(fds, paths, list) ==
  /\ 1 \in DOMAIN fds /\ fds[1] = Root /\ paths[1] = RootPath
  /\ \A j \in DOMAIN fds, n \in Name :
       Stands(fds[j], n) =>
         Accounted(fds, paths, list, Append(paths[j], n), dirent[fds[j]][n])

LEMMA OptionsKept == [Next]_vars => UNCHANGED options
<1> SUFFICES ASSUME [Next]_vars PROVE UNCHANGED options
  OBVIOUS
<1> USE DEF given
<1>1. CASE UNCHANGED vars
  BY <1>1 DEF vars
<1>2. CASE DirectoryStep
  BY <1>2 DEF DirectoryStep, DupFails, DupDirectory, PopDirectory,
     FdopendirFails, Fdopendir, Readdir, ReaddirEnds, ReaddirFails
<1>3. CASE EntryStep
  BY <1>3 DEF EntryStep, StatxFails, StatxIncomplete, StatxUnknownType,
     StatxExcluded, StatxGoesOn, StatxSuffices, OpenatFails,
     OpenatDirectory, ReadlinkFails, Readlink, RejectEntry
<1>4. CASE ScannerStep
  BY <1>2, <1>3, <1>4 DEF ScannerStep, OpenRootFails, OpenRoot,
     FinishDiscovery, CollectMetadata
<1>5. CASE World
  BY <1>5 DEF World
<1> QED
  BY <1>1, <1>4, <1>5 DEF Next, Done

(* What stands after a step stood before it, and led to the same inode.    *)
LEMMA StoodBefore ==
  ASSUME TypeOK, Remembered, [Next]_vars, NEW d \in Inode, NEW n \in Name,
         Stands(d, n)'
  PROVE  Stands(d, n) /\ dirent'[d][n] = dirent[d][n]
<1>1. past'[d][n] = {dirent'[d][n]} /\ dirent'[d][n] # NoInode
  BY DEF Stands, Undisturbed
<1>2. past[d][n] \subseteq past'[d][n] /\ dirent[d][n] \in past[d][n]
  BY PastStep DEF Remembered
<1>3. dirent[d][n] = dirent'[d][n] /\ past[d][n] = {dirent[d][n]}
  BY <1>1, <1>2
<1>4. options' = options
  BY OptionsKept
<1> QED
  BY <1>1, <1>3, <1>4 DEF Stands, Undisturbed

LEMMA PrefixOfEntry ==
  ASSUME NEW p \in Seq(Name), NEW q \in Seq(Name), NEW n \in Name, Prefix(p, q)
  PROVE  Prefix(p, Append(q, n))
<1>1. /\ Append(q, n) \in Seq(Name) /\ Len(Append(q, n)) = Len(q) + 1
      /\ Len(p) \in Nat /\ Len(q) \in Nat /\ Len(p) <= Len(q)
      /\ \A k \in 1..Len(q) : Append(q, n)[k] = q[k]
  BY DEF Prefix
<1>2. SubSeq(Append(q, n), 1, Len(p)) = SubSeq(q, 1, Len(p))
  BY <1>1
<1> QED
  BY <1>1, <1>2 DEF Prefix

LEMMA PrefixOfItself ==
  ASSUME NEW p \in Seq(Name)
  PROVE  Prefix(p, p)
<1>1. SubSeq(p, 1, Len(p)) = p /\ Len(p) \in Nat
  OBVIOUS
<1> QED
  BY <1>1 DEF Prefix

(* Lists of the scan that only grow keep what was dealt with dealt with.   *)
Extends(new, old) ==
  \A k \in DOMAIN old : k \in DOMAIN new /\ new[k] = old[k]

LEMMA AccountedStays ==
  ASSUME NEW fds, NEW paths, NEW list, NEW newFds, NEW newPaths, NEW newList,
         NEW path, NEW i,
         Extends(newFds, fds), Extends(newList, list), Extends(issues', issues),
         \A k \in DOMAIN fds : newPaths[k] = paths[k],
         UNCHANGED options,
         Accounted(fds, paths, list, path, i)
  PROVE  /\ Excused(path) => Excused(path)'
         /\ \/ Excused(path)'
            \/ /\ Listed(newList, path, i)
               /\ ToBeOpened(path, i)' => Opened(newFds, newPaths, path, i)
<1>1. Excused(path) => Excused(path)'
  BY DEF Excused, Extends
<1>2. Listed(list, path, i) => Listed(newList, path, i)
  BY DEF Listed, Extends
<1>3. Opened(fds, paths, path, i) => Opened(newFds, newPaths, path, i)
  BY DEF Opened, Extends
<1>4. ToBeOpened(path, i)' = ToBeOpened(path, i)
  BY DEF ToBeOpened
<1> QED
  BY <1>1, <1>2, <1>3, <1>4 DEF Accounted

WalkInv == SourceInv /\ LevelInv /\ Kept

LEMMA KeptStep ==
  WalkInv /\ [Next]_vars => Kept'
<1> SUFFICES ASSUME WalkInv, [Next]_vars PROVE Kept'
  OBVIOUS
<1> USE DEF Terminal, walk, output, given
<1>a. /\ TypeOK /\ TypeOK' /\ Handles /\ Remembered /\ Reading /\ Seen
      /\ DirectoriesOpen /\ Levels /\ Kept /\ UNCHANGED options
  BY TypeStep, OptionsKept DEF WalkInv, SourceInv, LevelInv, DescriptorInv, Shape
<1>b. /\ directory_fds \in Seq(Inode) /\ directory_paths \in Seq(Seq(Name))
      /\ pending_directories \in Seq(DirectoryRecord)
      /\ actual_entry \in DirectoryRecord /\ entry.name \in Name
      /\ issues \in Seq(ScanIssue) /\ candidates \in Seq(CandidateEntry)
      /\ options \in ScanOptions
      /\ DOMAIN directory_paths = DOMAIN directory_fds
  <2>1. Len(directory_paths) = Len(directory_fds)
    BY <1>a DEF Handles
  <2>2. /\ directory_fds \in Seq(Inode) /\ directory_paths \in Seq(Seq(Name))
        /\ pending_directories \in Seq(DirectoryRecord)
        /\ actual_entry \in DirectoryRecord /\ entry.name \in Name
        /\ issues \in Seq(ScanIssue) /\ candidates \in Seq(CandidateEntry)
        /\ options \in ScanOptions
    BY <1>a DEF TypeOK
  <2> QED  BY <2>1, <2>2
<1>c. \A j \in DOMAIN directory_fds, n \in Name :
        /\ directory_fds[j] \in Inode /\ directory_paths[j] \in Seq(Name)
        /\ Append(directory_paths[j], n) \in Seq(Name)
  <2>1. \A j \in DOMAIN directory_fds :
          directory_fds[j] \in Inode /\ directory_paths[j] \in Seq(Name)
    BY <1>b
  <2> QED  BY <2>1
<1>d. \A d \in Inode, n \in Name :
        Stands(d, n)' => Stands(d, n) /\ dirent'[d][n] = dirent[d][n]
  BY <1>a, StoodBefore
(* What Kept' asks of each entry.                                          *)
<1>e. ASSUME pc' \notin Terminal \cup {"open"} => directory_fds'[1] = Root,
             pc' = "readlinkat" => entry'.inode \notin DirInode,
             ASSUME NEW j \in DOMAIN directory_fds', NEW n \in Name,
                    NEW d, d = directory_fds'[j], Stands(d, n)'
             PROVE  Waiting(j)' \/ Unreturned(j, n)' \/ DealtWith(j, n)'
      PROVE  Kept'
  <2>1. ASSUME NEW j \in DOMAIN directory_fds', NEW n \in Name,
               Stands(directory_fds[j], n)'
        PROVE  Waiting(j)' \/ Unreturned(j, n)' \/ DealtWith(j, n)'
    <3>1. PICK d : d = directory_fds'[j]
      OBVIOUS
    <3>2. Stands(d, n)'
      BY <2>1, <3>1 DEF Stands, Undisturbed
    <3> QED  BY <1>e, <3>1, <3>2
  <2> QED  BY <1>e, <2>1 DEF Kept
(* An entry dealt with stays so while the lists grow.                      *)
<1>f. ASSUME Extends(directory_fds', directory_fds),
             \A k \in DOMAIN directory_fds : directory_paths'[k] = directory_paths[k],
             Extends(candidates', candidates), Extends(issues', issues),
             NEW j \in DOMAIN directory_fds, NEW n \in Name,
             NEW d, d = directory_fds[j], Stands(d, n)', DealtWith(j, n)
      PROVE  DealtWith(j, n)'
  <2>1. PICK path, i : path = Append(directory_paths[j], n) /\ i = dirent[d][n]
    OBVIOUS
  <2>2. /\ path = Append(directory_paths'[j], n) /\ d = directory_fds'[j]
        /\ i = dirent'[d][n]
    BY <1>c, <1>d, <1>f, <2>1 DEF Extends
  <2>3. Accounted(directory_fds, directory_paths, candidates, path, i)
    BY <1>f, <2>1 DEF DealtWith
  <2>4. \/ Excused(path)'
        \/ /\ Listed(candidates', path, i)
           /\ ToBeOpened(path, i)' => Opened(directory_fds', directory_paths', path, i)
    BY <1>a, <1>f, <2>3, AccountedStays
  <2> QED  BY <2>2, <2>4 DEF DealtWith, Accounted, Listed, Opened, Excused, ToBeOpened
(* An issue settles every entry below its path.                            *)
<1>g. ASSUME NEW code, NEW p \in Seq(Name), NEW errno, NEW site,
             AddIssue(code, p, errno, site)
      PROVE  /\ Extends(issues', issues)
             /\ \A j \in DOMAIN directory_fds, n \in Name :
                  /\ UNCHANGED directory_paths /\ site # "link"
                  /\ Prefix(p, Append(directory_paths[j], n))
                  => DealtWith(j, n)'
  <2>1. /\ Len(issues) + 1 \in DOMAIN issues'
        /\ issues'[Len(issues) + 1].path = p
        /\ issues'[Len(issues) + 1].site = site
        /\ \A k \in DOMAIN issues : k \in DOMAIN issues' /\ issues'[k] = issues[k]
    BY <1>b, <1>g DEF AddIssue
  <2>2. Extends(issues', issues)
    BY <2>1 DEF Extends
  <2>3. ASSUME NEW q, Prefix(p, q), site # "link" PROVE Excused(q)'
    BY <2>1, <2>3 DEF Excused
  <2>4. ASSUME NEW j \in DOMAIN directory_fds, NEW n \in Name,
               UNCHANGED directory_paths, site # "link",
               Prefix(p, Append(directory_paths[j], n))
        PROVE  DealtWith(j, n)'
    <3>1. PICK q : q = Append(directory_paths[j], n)
      OBVIOUS
    <3>2. Excused(q)' /\ q = Append(directory_paths'[j], n)
      BY <2>3, <2>4, <3>1
    <3> QED  BY <3>2 DEF DealtWith, Accounted, Excused
  <2> QED  BY <2>2, <2>4
<1>j. /\ Extends(issues, issues) /\ Extends(candidates, candidates)
      /\ Extends(directory_fds, directory_fds)
  BY DEF Extends
(* No directory is added: only what was still to come has to be looked at. *)
<1>h. ASSUME pc \notin Terminal \cup {"open"},
             UNCHANGED <<directory_fds, directory_paths>>,
             Extends(candidates', candidates), Extends(issues', issues),
             pc' = "readlinkat" => entry'.inode \notin DirInode,
             ASSUME NEW j \in DOMAIN directory_fds, NEW n \in Name,
                    NEW d, d = directory_fds[j], Stands(d, n), Stands(d, n)',
                    Waiting(j) \/ Unreturned(j, n)
             PROVE  Waiting(j)' \/ Unreturned(j, n)' \/ DealtWith(j, n)'
      PROVE  Kept'
  <2>1. directory_fds'[1] = Root
    BY <1>a, <1>h DEF Kept
  <2>2. ASSUME NEW j \in DOMAIN directory_fds', NEW n \in Name,
               NEW d, d = directory_fds'[j], Stands(d, n)'
        PROVE  Waiting(j)' \/ Unreturned(j, n)' \/ DealtWith(j, n)'
    <3>1. j \in DOMAIN directory_fds /\ d = directory_fds[j] /\ d \in Inode
      BY <1>c, <1>h, <2>2
    <3>2. Stands(d, n)
      BY <1>d, <2>2, <3>1
    <3>3. Waiting(j) \/ Unreturned(j, n) \/ DealtWith(j, n)
      BY <1>a, <1>h, <3>1, <3>2 DEF Kept
    <3>4. CASE Waiting(j) \/ Unreturned(j, n)
      BY <1>h, <2>2, <3>1, <3>2, <3>4
    <3>5. CASE DealtWith(j, n)
      BY <1>f, <1>h, <1>j, <2>2, <3>1, <3>5
    <3> QED  BY <3>3, <3>4, <3>5
  <2> QED  BY <1>e, <1>h, <2>1, <2>2
(* The directory in hand is the one whose index and path the record holds. *)
<1>i. ASSUME pc \in InStream, NEW n \in Name
      PROVE  /\ actual_entry.dir_fds_index \in DOMAIN directory_fds
             /\ FullPath(n) = Append(directory_paths[actual_entry.dir_fds_index], n)
             /\ FullPath(n) \in Seq(Name) /\ actual_entry.display_path \in Seq(Name)
             /\ Prefix(actual_entry.display_path, FullPath(n))
             /\ Prefix(FullPath(n), FullPath(n))
             /\ ParentInode = directory_fds[actual_entry.dir_fds_index]
             /\ ParentInode \in Inode
  <2>1. /\ actual_entry.dir_fds_index \in DOMAIN directory_fds
        /\ actual_entry.display_path = directory_paths[actual_entry.dir_fds_index]
    BY <1>a, <1>i DEF Reading
  <2>2. /\ actual_entry.display_path \in Seq(Name)
        /\ Append(actual_entry.display_path, n) \in Seq(Name)
    BY <1>b DEF DirectoryRecord
  <2>3. Prefix(actual_entry.display_path, Append(actual_entry.display_path, n))
    BY <2>2, PrefixOfEntry, PrefixOfItself
  <2> QED  BY <1>c, <2>1, <2>2, <2>3, PrefixOfItself DEF FullPath, ParentInode
(* An issue about the directory in hand settles every entry of it.         *)
<1>k. ASSUME pc \in InStream, pc' = "dup",
             UNCHANGED <<walk, actual_entry, candidates>>,
             NEW code, NEW errno,
             AddIssue(code, actual_entry.display_path, errno, "directory"),
             ASSUME NEW j, NEW n, Waiting(j) \/ Unreturned(j, n)
             PROVE  Waiting(j)' \/ actual_entry.dir_fds_index = j
      PROVE  Kept'
  <2>1. actual_entry.display_path \in Seq(Name)
    BY <1>b DEF DirectoryRecord
  <2>2. ASSUME NEW j \in DOMAIN directory_fds, NEW n \in Name,
               actual_entry.dir_fds_index = j
        PROVE  DealtWith(j, n)'
    <3>1. Prefix(actual_entry.display_path, FullPath(n))
      BY <1>i, <1>k
    <3>2. FullPath(n) = Append(directory_paths[j], n)
      BY <1>i, <1>k, <2>2
    <3> QED  BY <1>g, <1>k, <2>1, <3>1, <3>2
  <2>3. Extends(issues', issues)
    BY <1>g, <1>k, <2>1
  <2>4. pc \notin Terminal \cup {"open"}
    BY <1>k DEF InStream, InEntry
  <2> QED  BY <1>h, <1>j, <1>k, <2>2, <2>3, <2>4
<1>1. CASE UNCHANGED vars
  <2>1. CASE pc \in Terminal \cup {"open"}
    BY <1>1, <2>1 DEF vars, Kept
  <2>2. CASE pc \notin Terminal \cup {"open"}
    <3>1. ASSUME NEW j \in DOMAIN directory_fds, NEW n \in Name
          PROVE  Waiting(j)' = Waiting(j) /\ Unreturned(j, n)' = Unreturned(j, n)
      BY <1>1 DEF vars, Waiting, Unreturned
    <3> QED  BY <1>1, <1>a, <1>h, <1>j, <2>2, <3>1 DEF vars, Kept
  <2> QED  BY <2>1, <2>2
<1>2. ASSUME NEW errno \in Errno, OpenRootFails(errno) PROVE Kept'
  BY <1>2 DEF OpenRootFails, Kept
<1>3. CASE OpenRoot
  <2>1. /\ pc' = "dup"
        /\ directory_fds' = <<Root>> /\ DOMAIN pending_directories' = {1}
        /\ pending_directories'[1].dir_fds_index = 1
    BY <1>3 DEF OpenRoot
  <2>2. ASSUME NEW j \in DOMAIN directory_fds' PROVE Waiting(j)'
    BY <2>1, <2>2 DEF Waiting
  <2> QED  BY <1>e, <2>1, <2>2
<1>4. CASE DupFails \/ DupDirectory
  <2>1. /\ UNCHANGED <<directory_fds, directory_paths, candidates>> /\ pc = "dup"
        /\ pending_directories # <<>>
        /\ actual_entry' = Head(pending_directories)
        /\ pending_directories' = Tail(pending_directories)
    BY <1>4 DEF DupFails, DupDirectory, PopDirectory
  <2>2. /\ 1 \in DOMAIN pending_directories
        /\ actual_entry' = pending_directories[1]
        /\ \A k \in DOMAIN pending_directories : k # 1 =>
             /\ k - 1 \in DOMAIN pending_directories'
             /\ pending_directories'[k-1] = pending_directories[k]
    BY <1>b, <2>1
  <2>3. ASSUME NEW j, NEW n, Waiting(j) \/ Unreturned(j, n)
        PROVE  Waiting(j)' \/ actual_entry'.dir_fds_index = j
    BY <2>1, <2>2, <2>3 DEF Waiting, Unreturned, InEntry
  <2>4. CASE DupDirectory
    <3>1. pc' = "fdopendir" /\ UNCHANGED issues
      BY <2>4 DEF DupDirectory
    <3>2. ASSUME NEW j, actual_entry'.dir_fds_index = j PROVE Waiting(j)'
      BY <3>1, <3>2 DEF Waiting
    <3> QED  BY <1>h, <1>j, <2>1, <2>3, <3>1, <3>2
  <2>5. CASE DupFails
    <3>1. /\ pc' = "dup"
          /\ AddIssue("directory_open_failed", actual_entry'.display_path, "EMFILE",
                      "directory")
      BY <2>1, <2>5 DEF DupFails
    <3>2. /\ actual_entry'.display_path \in Seq(Name)
          /\ actual_entry'.display_path = directory_paths[actual_entry'.dir_fds_index]
      BY <1>a, <1>b, <2>2 DEF Handles, DirectoryRecord
    <3>3. ASSUME NEW j \in DOMAIN directory_fds, NEW n \in Name,
                 actual_entry'.dir_fds_index = j
          PROVE  DealtWith(j, n)'
      <4>1. Prefix(actual_entry'.display_path, Append(directory_paths[j], n))
        BY <3>2, <3>3, PrefixOfEntry, PrefixOfItself
      <4> QED  BY <1>g, <2>1, <3>1, <3>2, <4>1
    <3>4. Extends(issues', issues)
      BY <1>g, <3>1, <3>2
    <3> QED  BY <1>h, <1>j, <2>1, <2>3, <3>1, <3>3, <3>4
  <2> QED  BY <1>4, <2>4, <2>5
<1>5. CASE FdopendirFails
  <2>1. /\ UNCHANGED <<walk, actual_entry, candidates>> /\ pc = "fdopendir"
        /\ pc' = "dup"
        /\ AddIssue("directory_open_failed", actual_entry.display_path, "ENOMEM",
                    "directory")
    BY <1>5 DEF FdopendirFails, CloseStream
  <2>2. ASSUME NEW j, NEW n, Waiting(j) \/ Unreturned(j, n)
        PROVE  Waiting(j)' \/ actual_entry.dir_fds_index = j
    BY <2>1, <2>2 DEF Waiting, Unreturned, InEntry
  <2> QED  BY <1>k, <2>1, <2>2 DEF InStream
<1>6. CASE Fdopendir
  <2>1. /\ UNCHANGED <<walk, actual_entry, candidates, issues>> /\ pc = "fdopendir"
        /\ pc' = "readdir"
        /\ stream'.must = {n \in Name : LookUp(n) # NoInode}
    BY <1>6 DEF Fdopendir
  <2>2. ASSUME NEW j \in DOMAIN directory_fds, NEW n \in Name,
               NEW d, d = directory_fds[j], Stands(d, n),
               Waiting(j) \/ Unreturned(j, n)
        PROVE  Waiting(j)' \/ Unreturned(j, n)'
    <3>1. CASE \E k \in DOMAIN pending_directories :
                 pending_directories[k].dir_fds_index = j
      BY <2>1, <3>1 DEF Waiting
    <3>2. CASE actual_entry.dir_fds_index = j
      <4>1. n \in stream'.must
        BY <2>1, <2>2, <3>2 DEF Stands, LookUp, ParentInode
      <4> QED  BY <2>1, <3>2, <4>1 DEF Unreturned
    <3> QED  BY <2>1, <2>2, <3>1, <3>2 DEF Waiting, Unreturned, InEntry
  <2> QED  BY <1>h, <1>j, <2>1, <2>2
<1>7. ASSUME NEW m \in Name, Readdir(m) PROVE Kept'
  <2>1. /\ UNCHANGED <<walk, actual_entry, candidates, issues>> /\ pc = "readdir"
        /\ stream'.must = stream.must \ {m}
        /\ \/ m \in HiddenName /\ ~options.include_hidden /\ pc' = "readdir"
           \/ entry'.name = m /\ pc' = "statx"
    BY <1>7 DEF Readdir
  <2>2. ASSUME NEW j \in DOMAIN directory_fds, NEW n \in Name,
               NEW d, Stands(d, n), Waiting(j) \/ Unreturned(j, n)
        PROVE  Waiting(j)' \/ Unreturned(j, n)'
    <3>1. CASE Waiting(j)
      BY <2>1, <3>1 DEF Waiting
    <3>2. CASE Unreturned(j, n) /\ n # m
      BY <2>1, <3>2 DEF Unreturned, InEntry
    <3>3. CASE Unreturned(j, n) /\ n = m
      BY <2>1, <2>2, <3>3 DEF Unreturned, InEntry, Stands
    <3> QED  BY <2>2, <3>1, <3>2, <3>3
  <2> QED  BY <1>h, <1>j, <2>1, <2>2
<1>8. CASE ReaddirEnds
  <2>1. /\ UNCHANGED <<walk, actual_entry, candidates, issues>> /\ pc = "readdir"
        /\ stream.must = {} /\ pc' = "dup"
    BY <1>8 DEF ReaddirEnds, CloseStream
  <2>2. ASSUME NEW j, NEW n, Waiting(j) \/ Unreturned(j, n)
        PROVE  Waiting(j)'
    BY <2>1, <2>2 DEF Waiting, Unreturned, InEntry
  <2> QED  BY <1>h, <1>j, <2>1, <2>2
<1>9. CASE ReaddirFails
  <2>1. /\ UNCHANGED <<walk, actual_entry, candidates>> /\ pc = "readdir"
        /\ pc' = "dup"
        /\ AddIssue("directory_read_failed", actual_entry.display_path, "EIO",
                    "directory")
    BY <1>9 DEF ReaddirFails, CloseStream
  <2>2. ASSUME NEW j, NEW n, Waiting(j) \/ Unreturned(j, n)
        PROVE  Waiting(j)' \/ actual_entry.dir_fds_index = j
    BY <2>1, <2>2 DEF Waiting, Unreturned, InEntry
  <2> QED  BY <1>k, <2>1, <2>2 DEF InStream
(* Once the entry in hand is settled the others are still to come.         *)
<1>10. ASSUME pc \in InEntry, pc' = "readdir",
              UNCHANGED <<pending_directories, actual_entry, stream>>,
              NEW j, NEW n, Waiting(j) \/ Unreturned(j, n)
       PROVE  \/ Waiting(j)' \/ Unreturned(j, n)'
              \/ actual_entry.dir_fds_index = j /\ n = entry.name
  BY <1>10 DEF Waiting, Unreturned, InEntry
<1>11. ASSUME NEW code, NEW errno, RejectEntry(code, errno), pc \in InEntry
       PROVE  Kept'
  <2>1. /\ UNCHANGED <<walk, actual_entry, candidates, stream>> /\ pc' = "readdir"
        /\ AddIssue(code, FullPath(entry.name), errno, "entry")
        /\ pc \in InStream /\ pc \notin Terminal \cup {"open"}
    BY <1>11 DEF RejectEntry, InStream, InEntry
  <2>2. FullPath(entry.name) \in Seq(Name)
    BY <1>b, <1>i, <2>1
  <2>3. ASSUME NEW j \in DOMAIN directory_fds, j = actual_entry.dir_fds_index,
               NEW n \in Name, n = entry.name
        PROVE  DealtWith(j, n)'
    <3>1. /\ Prefix(FullPath(entry.name), FullPath(n))
          /\ FullPath(n) = Append(directory_paths[j], n)
      BY <1>b, <1>i, <2>1, <2>3
    <3> QED  BY <1>b, <1>g, <2>1, <2>2, <3>1
  <2>4. Extends(issues', issues)
    BY <1>g, <2>1, <2>2
  <2>5. ASSUME NEW j, NEW n, Waiting(j) \/ Unreturned(j, n)
        PROVE  \/ Waiting(j)' \/ Unreturned(j, n)'
               \/ actual_entry.dir_fds_index = j /\ n = entry.name
    BY <1>10, <1>11, <2>1, <2>5
  <2> QED  BY <1>h, <1>j, <2>1, <2>3, <2>4, <2>5
<1>12. ASSUME NEW errno \in Errno, StatxFails(errno) \/ OpenatFails(errno) PROVE Kept'
  BY <1>11, <1>12 DEF StatxFails, OpenatFails, InEntry
<1>13. CASE StatxIncomplete \/ StatxUnknownType \/ StatxExcluded
  BY <1>11, <1>13 DEF StatxIncomplete, StatxUnknownType, StatxExcluded, StatxSees,
     InEntry
<1>14. ASSUME NEW i \in Inode, StatxSees(i)
       PROVE  /\ entry'.name = entry.name /\ entry'.inode = i /\ pc = "statx"
              /\ i \in past[ParentInode][entry.name]
  <2>1. entry'.name = entry.name /\ entry'.inode = i /\ pc = "statx"
    BY <1>14, <1>a DEF StatxSees, TypeOK
  <2>2. i = dirent[ParentInode][entry.name]
    BY <1>14 DEF StatxSees, LookUp
  <2>3. ParentInode \in Inode
    BY <1>b, <1>i, <2>1 DEF InStream, InEntry
  <2> QED  BY <1>a, <1>b, <2>1, <2>2, <2>3 DEF Remembered
<1>15. CASE StatxGoesOn
  <2>1. PICK i \in Inode :
          /\ StatxSees(i)
          /\ pc' = "openat" \/ (ReadsLink(i) /\ pc' = "readlinkat")
    BY <1>15 DEF StatxGoesOn
  <2>2. /\ UNCHANGED <<walk, actual_entry, candidates, issues, stream>>
        /\ pc = "statx" /\ pc' \in {"openat", "readlinkat"}
        /\ entry'.name = entry.name
    BY <1>14, <1>15, <2>1 DEF StatxGoesOn
  <2>3. pc' = "readlinkat" => entry'.inode \notin DirInode
    BY <1>14, <2>1 DEF ReadsLink, DirInode
  <2>4. ASSUME NEW j, NEW n, Waiting(j) \/ Unreturned(j, n)
        PROVE  Waiting(j)' \/ Unreturned(j, n)'
    BY <2>2, <2>4 DEF Waiting, Unreturned, InEntry
  <2> QED  BY <1>h, <1>j, <2>2, <2>3, <2>4
(* A candidate is the object in the report, and lists what stands.         *)
<1>16. ASSUME NEW target, AddCandidate(target), pc \in InEntry,
              NEW n \in Name, n = entry.name, entry'.name = n,
              entry'.inode \in past[ParentInode][n],
              NEW d, d = ParentInode, Stands(d, n)'
       PROVE  /\ entry'.inode = dirent[d][n]
              /\ Listed(candidates', FullPath(n), dirent'[d][n])
  <2>1. /\ Len(candidates) + 1 \in DOMAIN candidates'
        /\ candidates'[Len(candidates) + 1].full_path = FullPath(n)
        /\ candidates'[Len(candidates) + 1].inode = entry'.inode
    BY <1>16, <1>b DEF AddCandidate
  <2>2. d \in Inode
    BY <1>16, <1>i DEF InStream
  <2>3. /\ past[d][n] = {dirent[d][n]}
        /\ dirent'[d][n] = dirent[d][n]
    <3>1. Stands(d, n) /\ dirent'[d][n] = dirent[d][n]
      BY <1>16, <1>d, <2>2
    <3> QED  BY <3>1 DEF Stands, Undisturbed
  <2> QED  BY <1>16, <2>1, <2>3 DEF Listed
<1>17. ASSUME NEW target, AddCandidate(target)
       PROVE  Extends(candidates', candidates)
  BY <1>17, <1>b DEF AddCandidate, Extends
<1>18. ASSUME NEW target, AddCandidate(target), pc \in InEntry, pc' = "readdir",
              UNCHANGED <<walk, actual_entry, stream>>,
              Extends(issues', issues),
              NEW m \in Name, m = entry.name, entry'.name = m,
              NEW i, i = entry'.inode, i \in past[ParentInode][m],
              NEW p, p = FullPath(m), ~ToBeOpened(p, i)
       PROVE  Kept'
  <2>1. ASSUME NEW j \in DOMAIN directory_fds, j = actual_entry.dir_fds_index,
               NEW d, d = directory_fds[j], Stands(d, m)'
        PROVE  DealtWith(j, m)'
    <3>1. d = ParentInode /\ p = Append(directory_paths[j], m) /\ d \in Inode
      BY <1>18, <1>i, <2>1 DEF InStream
    <3>2. i = dirent[d][m] /\ Listed(candidates', p, dirent'[d][m])
      <4>1. /\ AddCandidate(target) /\ pc \in InEntry /\ entry'.name = m
            /\ m = entry.name /\ entry'.inode \in past[ParentInode][m]
            /\ d = ParentInode /\ Stands(d, m)' /\ i = entry'.inode
        BY <1>18, <2>1, <3>1
      <4> QED  BY <1>16, <1>18, <4>1
    <3>3. dirent'[d][m] = i
      BY <1>d, <2>1, <3>1, <3>2
    <3>4. p = Append(directory_paths'[j], m) /\ d = directory_fds'[j]
      BY <1>18, <2>1, <3>1
    <3>5. ~ToBeOpened(p, i)'
      BY <1>18, <1>a DEF ToBeOpened
    <3> QED  BY <3>2, <3>3, <3>4, <3>5 DEF DealtWith, Accounted, ToBeOpened, Listed
  <2>2. Extends(candidates', candidates)
    BY <1>17, <1>18
  <2>3. pc \notin Terminal \cup {"open"} /\ UNCHANGED <<directory_fds, directory_paths>>
    BY <1>18 DEF InEntry
  <2>4. ASSUME NEW j, NEW n, Waiting(j) \/ Unreturned(j, n)
        PROVE  \/ Waiting(j)' \/ Unreturned(j, n)'
               \/ actual_entry.dir_fds_index = j /\ n = m
    BY <1>10, <1>18, <2>4
  <2>5. Extends(issues', issues) /\ pc' # "readlinkat"
    BY <1>18
  <2>6. ASSUME NEW j \in DOMAIN directory_fds, NEW n \in Name,
               NEW d, d = directory_fds[j], Stands(d, n), Stands(d, n)',
               Waiting(j) \/ Unreturned(j, n)
        PROVE  Waiting(j)' \/ Unreturned(j, n)' \/ DealtWith(j, n)'
    <3>1. CASE actual_entry.dir_fds_index = j /\ n = m
      BY <2>1, <2>6, <3>1
    <3> QED  BY <2>4, <2>6, <3>1
  <2> QED  BY <1>h, <2>2, <2>3, <2>5, <2>6
<1>19. CASE StatxSuffices
  <2>1. PICK i \in Inode : StatxSees(i) /\ ~Descends(i)
    BY <1>19 DEF StatxSuffices
  <2>2. /\ AddCandidate(NoInode) /\ pc' = "readdir"
        /\ UNCHANGED <<walk, actual_entry, stream, issues>>
    BY <1>19 DEF StatxSuffices
  <2>3. /\ pc \in InEntry /\ entry'.name = entry.name /\ i = entry'.inode
        /\ i \in past[ParentInode][entry.name]
    BY <1>14, <2>1 DEF InEntry
  <2>4. PICK p : p = FullPath(entry.name)
    OBVIOUS
  <2>5. ~ToBeOpened(p, i)
    <3>1. /\ actual_entry.display_path \in Seq(Name)
          /\ Len(actual_entry.display_path) = Len(RootPath) + actual_entry.depth
          /\ actual_entry.depth \in Nat /\ options.maximum_depth \in Nat
          /\ Len(RootPath) \in Nat
      BY <1>a, <1>b DEF Levels, AtItsLevel, DirectoryRecord, ScanOptions
    <3>2. Len(p) = Len(actual_entry.display_path) + 1
      BY <1>b, <2>4, <3>1 DEF FullPath
    <3> QED  BY <2>1, <3>1, <3>2 DEF ToBeOpened, Descends, DirInode
  <2> QED  BY <1>18, <1>b, <1>j, <2>2, <2>3, <2>4, <2>5
<1>20. CASE ReadlinkFails \/ Readlink
  <2>1. /\ pc = "readlinkat" /\ pc' = "readdir" /\ entry' = entry
        /\ UNCHANGED <<walk, actual_entry, stream>>
    BY <1>20 DEF ReadlinkFails, Readlink
  <2>2. PICK target : AddCandidate(target)
    BY <1>20 DEF ReadlinkFails, Readlink
  <2>3. Extends(issues', issues)
    <3>1. CASE UNCHANGED issues
      BY <1>j, <3>1
    <3>2. CASE \E code, errno : AddIssue(code, FullPath(entry.name), errno, "link")
      <4>1. FullPath(entry.name) \in Seq(Name)
        BY <1>b, <1>i, <2>1 DEF InStream, InEntry
      <4> QED  BY <1>g, <3>2, <4>1
    <3> QED  BY <1>20, <3>1, <3>2 DEF ReadlinkFails, Readlink
  <2>4. entry.inode \in past[ParentInode][entry.name] /\ entry.inode \notin DirInode
    BY <1>a, <2>1 DEF Seen, Kept
  <2>5. PICK p, i : p = FullPath(entry.name) /\ i = entry'.inode
    OBVIOUS
  <2>6. ~ToBeOpened(p, i)
    BY <2>1, <2>4, <2>5 DEF ToBeOpened
  <2> QED  BY <1>18, <1>b, <2>1, <2>2, <2>3, <2>4, <2>5, <2>6 DEF InEntry
<1>21. CASE OpenatDirectory
  <2> DEFINE last == Len(directory_fds) + 1
  <2>1. PICK m, i, p : /\ m \in Name /\ m = entry.name
                       /\ i = LookUp(m) /\ p = FullPath(m)
    BY <1>b
  <2>2. /\ directory_fds' = Append(directory_fds, i)
        /\ directory_paths' = Append(directory_paths, p)
        /\ \E record : /\ record.dir_fds_index = last
                       /\ pending_directories' = Append(pending_directories, record)
        /\ pc = "openat" /\ pc' = "readdir" /\ entry' = entry
        /\ UNCHANGED <<actual_entry, stream, issues>>
        /\ AddCandidate(NoInode)
    BY <1>21, <2>1 DEF OpenatDirectory, OpenedInode
  <2>3. /\ DOMAIN directory_fds' = DOMAIN directory_fds \cup {last}
        /\ last \in DOMAIN directory_fds'
        /\ \A k \in DOMAIN directory_fds : /\ directory_fds'[k] = directory_fds[k]
                                           /\ directory_paths'[k] = directory_paths[k]
        /\ directory_fds'[last] = i /\ directory_paths'[last] = p
    <3>1. Len(directory_paths) = Len(directory_fds)
      BY <1>a DEF Handles
    <3>2. /\ DOMAIN directory_fds' = DOMAIN directory_fds \cup {last}
          /\ last \in DOMAIN directory_fds' /\ directory_fds'[last] = i
          /\ \A k \in DOMAIN directory_fds : directory_fds'[k] = directory_fds[k]
      BY <1>b, <2>2
    <3>3. /\ directory_paths'[last] = p
          /\ \A k \in DOMAIN directory_fds : directory_paths'[k] = directory_paths[k]
      BY <1>b, <2>2, <3>1
    <3> QED  BY <3>2, <3>3
  <2>4. /\ \A k \in DOMAIN pending_directories :
             /\ k \in DOMAIN pending_directories'
             /\ pending_directories'[k] = pending_directories[k]
        /\ \E k \in DOMAIN pending_directories' :
             pending_directories'[k].dir_fds_index = last
    <3>1. PICK record : /\ record.dir_fds_index = last
                        /\ pending_directories' = Append(pending_directories, record)
      BY <2>2
    <3> HIDE DEF last
    <3>2. /\ Len(pending_directories) + 1 \in DOMAIN pending_directories'
          /\ pending_directories'[Len(pending_directories) + 1] = record
          /\ \A k \in DOMAIN pending_directories :
               /\ k \in DOMAIN pending_directories'
               /\ pending_directories'[k] = pending_directories[k]
      BY <1>b, <3>1
    <3> QED  BY <3>1, <3>2
  <2> HIDE DEF last
  <2>5. /\ Extends(directory_fds', directory_fds) /\ Extends(issues', issues)
        /\ Extends(candidates', candidates)
    BY <1>17, <1>j, <2>2, <2>3 DEF Extends
  <2>6. ASSUME NEW j \in DOMAIN directory_fds, j = actual_entry.dir_fds_index,
               NEW d, d = directory_fds[j], Stands(d, m)'
        PROVE  DealtWith(j, m)'
    <3>1. d = ParentInode /\ p = Append(directory_paths[j], m) /\ d \in Inode
      BY <1>i, <2>1, <2>2, <2>6 DEF InStream, InEntry
    <3>2. entry'.inode \in past[ParentInode][m]
      BY <1>a, <2>1, <2>2 DEF Seen
    <3>3. Listed(candidates', p, dirent'[d][m])
      <4>1. /\ AddCandidate(NoInode) /\ pc \in InEntry /\ entry'.name = m
            /\ m = entry.name /\ d = ParentInode /\ Stands(d, m)'
        BY <2>1, <2>2, <2>6, <3>1 DEF InEntry
      <4> QED  BY <1>16, <2>1, <3>2, <4>1
    <3>4. i = dirent'[d][m]
      BY <1>d, <2>1, <2>6, <3>1 DEF LookUp
    <3>5. p = Append(directory_paths'[j], m) /\ d = directory_fds'[j]
      BY <2>3, <2>6, <3>1
    <3>6. Opened(directory_fds', directory_paths', p, i)
      BY <2>3 DEF Opened
    <3> QED  BY <3>3, <3>4, <3>5, <3>6 DEF DealtWith, Accounted, Listed, Opened
  <2>7. ASSUME NEW j, NEW n, Waiting(j) \/ Unreturned(j, n)
        PROVE  \/ Waiting(j)' \/ Unreturned(j, n)'
               \/ actual_entry.dir_fds_index = j /\ n = m
    BY <2>1, <2>2, <2>4, <2>7 DEF Waiting, Unreturned, InEntry
  <2>8. ASSUME NEW j \in DOMAIN directory_fds', NEW n \in Name,
               NEW d, d = directory_fds'[j], Stands(d, n)'
        PROVE  Waiting(j)' \/ Unreturned(j, n)' \/ DealtWith(j, n)'
    <3>1. CASE j = last
      BY <2>4, <3>1 DEF Waiting
    <3>2. CASE j \in DOMAIN directory_fds
      <4>1. d = directory_fds[j] /\ d \in Inode
        BY <1>c, <2>3, <2>8, <3>2
      <4>2. Waiting(j) \/ Unreturned(j, n) \/ DealtWith(j, n)
        BY <1>a, <1>d, <2>2, <2>8, <3>2, <4>1 DEF Kept
      <4>3. CASE DealtWith(j, n)
        BY <1>f, <2>3, <2>5, <2>8, <3>2, <4>1, <4>3
      <4>4. CASE actual_entry.dir_fds_index = j /\ n = m
        BY <2>6, <2>8, <3>2, <4>1, <4>4
      <4> QED  BY <2>7, <4>2, <4>3, <4>4
    <3> QED  BY <2>3, <2>8, <3>1, <3>2
  <2>9. directory_fds'[1] = Root
    <3>1. 1 \in DOMAIN directory_fds /\ directory_fds[1] = Root
      BY <1>a, <1>b, <2>2 DEF Kept, Handles
    <3> QED  BY <2>3, <3>1
  <2> QED  BY <1>e, <2>2, <2>8, <2>9
<1>22. CASE FinishDiscovery
  <2>1. /\ UNCHANGED <<walk, actual_entry, candidates, issues>> /\ pc = "dup"
        /\ pc' = "discovered"
    BY <1>22 DEF FinishDiscovery
  <2>2. ASSUME NEW j, NEW n, Waiting(j) \/ Unreturned(j, n)
        PROVE  Waiting(j)'
    BY <2>1, <2>2 DEF Waiting, Unreturned, InEntry
  <2> QED  BY <1>h, <1>j, <2>1, <2>2
<1>23. CASE CollectMetadata
  BY <1>23 DEF CollectMetadata, Kept
<1>24. CASE World
  <2>1. UNCHANGED <<walk, actual_entry, candidates, issues, entry, pc>>
    BY <1>24 DEF World
  <2>2. CASE pc = "open"
    BY <2>1, <2>2 DEF Kept
  <2>3. ASSUME pc # "open",
               NEW j \in DOMAIN directory_fds, NEW n \in Name,
               NEW d, d = directory_fds[j], Stands(d, n)',
               Waiting(j) \/ Unreturned(j, n)
        PROVE  Waiting(j)' \/ Unreturned(j, n)'
    <3>1. CASE Waiting(j)
      BY <2>1, <3>1 DEF Waiting
    <3>2. CASE Unreturned(j, n)
      <4>1. d \in Inode /\ d = ParentInode
        BY <1>c, <2>3, <3>2 DEF Unreturned, ParentInode
      <4>2. dirent'[d][n] = dirent[d][n]
        BY <1>d, <2>3, <4>1
      <4>3. n \in stream.must => n \in stream'.must
        BY <1>24, <3>2, <4>1, <4>2 DEF World, StreamFollows, Unreturned
      <4> QED  BY <2>1, <3>2, <4>3 DEF Unreturned
    <3> QED  BY <2>3, <3>1, <3>2
  <2>4. pc \notin Terminal
    BY <1>24 DEF World
  <2>5. pc' = "readlinkat" => entry'.inode \notin DirInode
    BY <1>a, <2>1 DEF Kept
  <2> QED  BY <1>h, <1>j, <2>1, <2>2, <2>3, <2>4, <2>5
<1>25. CASE DirectoryStep
  BY <1>4, <1>5, <1>6, <1>7, <1>8, <1>9, <1>25 DEF DirectoryStep
<1>26. CASE EntryStep
  BY <1>12, <1>13, <1>15, <1>19, <1>20, <1>21, <1>26 DEF EntryStep
<1>27. CASE ScannerStep
  BY <1>2, <1>3, <1>22, <1>23, <1>25, <1>26, <1>27 DEF ScannerStep
<1> QED
  BY <1>1, <1>24, <1>27 DEF Next, Done

(* At the end of discovery nothing is still to come; what collect_metadata *)
(* then closes and forgets is kept in the formula.                         *)
Reason ==
  pc = "collected" =>
    \E fds \in Seq(DirInode), paths \in Seq(Seq(Name)) :
      Len(paths) = Len(fds) /\ Closed(fds, paths, items)

LEMMA ClosedStays ==
  ASSUME NEW fds \in Seq(Inode), NEW paths, NEW list, NEW newList,
         \A d \in Inode, n \in Name :
           Stands(d, n)' => Stands(d, n) /\ dirent'[d][n] = dirent[d][n],
         UNCHANGED options, Extends(issues', issues),
         \A path, i : Listed(list, path, i) => Listed(newList, path, i),
         Closed(fds, paths, list)
  PROVE  Closed(fds, paths, newList)'
<1>1. ASSUME NEW j \in DOMAIN fds, NEW n \in Name, Stands(fds[j], n)'
      PROVE  Accounted(fds, paths, newList, Append(paths[j], n), dirent[fds[j]][n])'
  <2>1. PICK path, i : path = Append(paths[j], n) /\ i = dirent'[fds[j]][n]
    OBVIOUS
  <2>2. fds[j] \in Inode
    OBVIOUS
  <2>3. Stands(fds[j], n) /\ i = dirent[fds[j]][n]
    BY <1>1, <2>1, <2>2
  <2>4. Accounted(fds, paths, list, path, i)
    BY <2>1, <2>3 DEF Closed
  <2>5. Excused(path) => Excused(path)'
    BY DEF Excused, Extends
  <2>6. ToBeOpened(path, i)' = ToBeOpened(path, i)
    BY DEF ToBeOpened
  <2>7. \/ Excused(path)'
        \/ /\ Listed(newList, path, i)
           /\ ToBeOpened(path, i)' => Opened(fds, paths, path, i)
    BY <2>4, <2>5, <2>6 DEF Accounted
  <2> QED  BY <2>1, <2>7 DEF Accounted, Excused, ToBeOpened
<1> QED
  BY <1>1 DEF Closed

LEMMA ReasonStep ==
  WalkInv /\ Reason /\ [Next]_vars => Reason'
<1> SUFFICES ASSUME WalkInv, Reason, [Next]_vars, pc' = "collected"
             PROVE  \E fds \in Seq(DirInode), paths \in Seq(Seq(Name)) :
                      Len(paths) = Len(fds) /\ Closed(fds, paths, items)'
  BY DEF Reason
<1>a. TypeOK /\ Remembered /\ UNCHANGED options
  BY OptionsKept DEF WalkInv, SourceInv, DescriptorInv, Shape
<1>b. \A d \in Inode, n \in Name :
        Stands(d, n)' => Stands(d, n) /\ dirent'[d][n] = dirent[d][n]
  BY <1>a, StoodBefore
<1>c. ASSUME NEW fds \in Seq(DirInode), NEW paths, NEW list, Closed(fds, paths, list),
             UNCHANGED issues,
             \A path, i : Listed(list, path, i) => Listed(items', path, i)
      PROVE  Closed(fds, paths, items)'
  <2>1. PICK new : new = items'
    OBVIOUS
  <2>2. Extends(issues', issues)
    BY <1>c DEF Extends
  <2>3. fds \in Seq(Inode)
    BY <1>c DEF DirInode
  <2>4. Closed(fds, paths, new)'
    BY <1>a, <1>b, <1>c, <2>1, <2>2, <2>3, ClosedStays
  <2> QED  BY <2>1, <2>4 DEF Closed, Accounted, Listed
<1>1. CASE UNCHANGED vars
  <2>1. PICK fds \in Seq(DirInode), paths \in Seq(Seq(Name)) :
          Len(paths) = Len(fds) /\ Closed(fds, paths, items)
    BY <1>1 DEF Reason, vars
  <2> QED  BY <1>1, <1>c, <2>1 DEF vars, output
<1>2. CASE CollectMetadata
  <2>1. PICK fds, paths : fds = directory_fds /\ paths = directory_paths
    OBVIOUS
  <2>2. /\ UNCHANGED <<fsVars, given, issues>> /\ pc = "discovered"
        /\ items' = [k \in DOMAIN candidates |-> ItemOf(candidates[k])]
    BY <1>2 DEF CollectMetadata
  <2>3. /\ fds \in Seq(DirInode) /\ paths \in Seq(Seq(Name))
        /\ Len(paths) = Len(fds) /\ paths[1] = RootPath /\ fds[1] = Root
        /\ 1 \in DOMAIN fds
        /\ pending_directories = <<>>
    <3>1. /\ TypeOK /\ Handles /\ DirectoriesOpen /\ Kept
      BY DEF WalkInv, SourceInv, DescriptorInv, Shape
    <3>2. fds \in Seq(DirInode) /\ paths \in Seq(Seq(Name))
      BY <2>1, <3>1 DEF TypeOK, DirectoriesOpen
    <3>3. /\ Len(paths) = Len(fds) /\ Len(paths) > 0
          /\ paths[1] = RootPath /\ fds[1] = Root /\ pending_directories = <<>>
      BY <2>1, <2>2, <3>1 DEF Handles, Terminal, Kept
    <3> QED  BY <3>2, <3>3
  <2>4. ASSUME NEW j \in DOMAIN fds, NEW n \in Name, Stands(fds[j], n)
        PROVE  Accounted(fds, paths, candidates, Append(paths[j], n), dirent[fds[j]][n])
    <3>1. Stands(directory_fds[j], n) /\ j \in DOMAIN directory_fds
      BY <2>1, <2>4
    <3>2. ~Waiting(j) /\ ~Unreturned(j, n)
      BY <2>2, <2>3 DEF Waiting, Unreturned, InEntry
    <3>3. DealtWith(j, n)
      BY <2>2, <3>1, <3>2 DEF WalkInv, Kept, Terminal
    <3> QED  BY <2>1, <3>3 DEF DealtWith
  <2>5. \A path, i : Listed(candidates, path, i) => Listed(items', path, i)
    BY <2>2 DEF Listed, ItemOf
  <2>6. Closed(fds, paths, candidates)
    BY <2>3, <2>4 DEF Closed
  <2>7. Closed(fds, paths, items)'
    BY <1>c, <2>2, <2>3, <2>5, <2>6
  <2> QED  BY <2>3, <2>7
<1>3. UNCHANGED vars \/ CollectMetadata
  <2>1. CASE DirectoryStep
    BY <2>1 DEF DirectoryStep, DupFails, DupDirectory, PopDirectory, CloseStream,
       FdopendirFails, Fdopendir, Readdir, ReaddirEnds, ReaddirFails
  <2>2. CASE EntryStep
    BY <2>2 DEF EntryStep, StatxFails, StatxIncomplete, StatxUnknownType,
       StatxExcluded, StatxGoesOn, StatxSuffices, OpenatFails,
       OpenatDirectory, ReadlinkFails, Readlink, RejectEntry
  <2>3. CASE World
    BY <2>3 DEF World, Terminal
  <2> QED  BY <2>1, <2>2, <2>3 DEF Next, Done, ScannerStep, OpenRootFails,
           OpenRoot, FinishDiscovery
<1> QED
  BY <1>1, <1>2, <1>3

---------------------------------------------------------------------------

(* The recursive definition of what stands, unfolded.                      *)
LevelBelow(k, S) ==
  IF ~Entered(k) THEN {}
  ELSE UNION {StandingIn(s) : s \in {t \in S : t.inode \in DirInode}}

LEMMA StandingLevels ==
  ASSUME TypeOK
  PROVE  /\ StandingAt[0] = {[path |-> RootPath, inode |-> Root]}
         /\ \A k \in Nat : StandingAt[k+1] = LevelBelow(k, StandingAt[k])
<1> DEFINE top   == {[path |-> RootPath, inode |-> Root]}
           Is(f) == f = [k \in Nat |-> IF k = 0 THEN top ELSE LevelBelow(k-1, f[k-1])]
           T     == SUBSET [path : Seq(Name), inode : Inode \cup {NoInode}]
           Step  == [k \in Nat |-> [S \in T |-> LevelBelow(k, S)]]
<1>1. StandingAt = CHOOSE f : Is(f)
  BY DEF StandingAt, LevelBelow
<1>2. ASSUME NEW k \in Nat, NEW S \in T PROVE LevelBelow(k, S) \in T
  <2>1. ASSUME NEW s \in S, s.inode \in DirInode
        PROVE  StandingIn(s) \in T
    <3>1. s.path \in Seq(Name) /\ dirent \in Entries
      BY DEF TypeOK, FsTypeOK
    <3>2. \A n \in Name : /\ Append(s.path, n) \in Seq(Name)
                          /\ dirent[s.inode][n] \in Inode \cup {NoInode}
      BY <2>1, <3>1 DEF Entries, DirInode
    <3>3. ASSUME NEW e \in StandingIn(s)
          PROVE  e \in [path : Seq(Name), inode : Inode \cup {NoInode}]
      <4>1. PICK n \in Name :
              e = [path |-> Append(s.path, n), inode |-> dirent[s.inode][n]]
        BY <3>3 DEF StandingIn
      <4> QED  BY <3>2, <4>1
    <3> QED  BY <3>3
  <2> HIDE DEF T
  <2>2. \A s \in S : s.inode \in DirInode => StandingIn(s) \in T
    BY <2>1
  <2> USE DEF T
  <2> QED  BY <2>2 DEF LevelBelow
<1>3. top \in T /\ Step \in [Nat -> [T -> T]]
  <2>1. top \in T
    BY DEF DirInode
  <2> HIDE DEF top, T
  <2> QED  BY <1>2, <2>1
<1> HIDE DEF Is
<1>4. PICK f \in [Nat -> T] :
        \A k \in Nat : f[k] = IF k = 0 THEN top ELSE Step[k-1][f[k-1]]
  <2> HIDE DEF top, T, Step
  <2> QED  BY ONLY <1>3, RecursionOnNat
<1>5. \A k \in Nat : f[k] = IF k = 0 THEN top ELSE LevelBelow(k-1, f[k-1])
  <2> HIDE DEF top, T
  <2>1. ASSUME NEW k \in Nat, k # 0 PROVE f[k] = LevelBelow(k-1, f[k-1])
    <3>1. k - 1 \in Nat /\ f[k-1] \in T
      BY <2>1
    <3> QED  BY <1>4, <2>1, <3>1
  <2> QED  BY <1>4, <2>1
<1>6. Is(f)
  <2> HIDE DEF top, T
  <2>1. f = [k \in Nat |-> f[k]]
    OBVIOUS
  <2> QED  BY <1>5, <2>1 DEF Is
<1>7. Is(StandingAt)
  BY <1>1, <1>6
<1> HIDE DEF top
<1>8. \A k \in Nat : StandingAt[k] = IF k = 0 THEN top ELSE LevelBelow(k-1, StandingAt[k-1])
  BY <1>7 DEF Is
<1>9. ASSUME NEW k \in Nat PROVE StandingAt[k+1] = LevelBelow(k, StandingAt[k])
  <2>1. k + 1 \in Nat /\ k + 1 # 0 /\ (k + 1) - 1 = k
    OBVIOUS
  <2> QED  BY <1>8, <2>1
<1> QED
  BY <1>8, <1>9 DEF top

(* Why nothing is missed: level by level, what stands is excused or listed *)
(* and, when it is a directory of a level that is entered, was opened.     *)
LEMMA StandingAccounted ==
  ASSUME TypeOK,
         NEW fds \in Seq(DirInode), NEW paths \in Seq(Seq(Name)), NEW list,
         Len(paths) = Len(fds), Closed(fds, paths, list)
  PROVE  \A s \in Standing : Listed(list, s.path, s.inode) \/ Excused(s.path)
<1> DEFINE Right(k, s) ==
             /\ s.path \in Seq(Name) /\ Len(s.path) = Len(RootPath) + k
             /\ \/ Excused(s.path)
                \/ /\ k # 0 => Listed(list, s.path, s.inode)
                   /\ s.inode \in DirInode /\ Entered(k) =>
                        Opened(fds, paths, s.path, s.inode)
           Good == {k \in Nat : \A s \in StandingAt[k] : Right(k, s)}
<1>1. 0 \in Good
  <2>1. Opened(fds, paths, RootPath, Root)
    BY DEF Closed, Opened
  <2>2. ASSUME NEW s \in StandingAt[0] PROVE Right(0, s)
    <3>1. StandingAt[0] = {[path |-> RootPath, inode |-> Root]}
      BY StandingLevels
    <3>2. s.path = RootPath /\ s.inode = Root /\ Len(RootPath) \in Nat
      BY <2>2, <3>1
    <3> QED  BY <2>1, <3>2
  <2> QED  BY <2>2
<1>2. ASSUME NEW k \in Nat, k \in Good PROVE k + 1 \in Good
  <2> SUFFICES ASSUME NEW s \in StandingAt[k+1] PROVE Right(k+1, s)
    OBVIOUS
  <2>1. s \in LevelBelow(k, StandingAt[k])
    BY StandingLevels
  <2>2. Entered(k)
    BY <2>1 DEF LevelBelow
  <2>3. PICK t \in StandingAt[k] : t.inode \in DirInode /\ s \in StandingIn(t)
    BY <2>1, <2>2 DEF LevelBelow
  <2>4. PICK n \in Name : /\ Stands(t.inode, n)
                          /\ s = [path |-> Append(t.path, n), inode |-> dirent[t.inode][n]]
    BY <2>3 DEF StandingIn
  <2>5. Right(k, t)
    BY <1>2, <2>3
  <2>6. /\ t.path \in Seq(Name) /\ s.path = Append(t.path, n) /\ s.path \in Seq(Name)
        /\ Len(s.path) = Len(RootPath) + (k + 1)
    <3>1. Len(t.path) = Len(RootPath) + k /\ t.path \in Seq(Name)
          /\ s.path = Append(t.path, n) /\ Len(RootPath) \in Nat
      BY <2>4, <2>5
    <3>2. Append(t.path, n) \in Seq(Name) /\ Len(Append(t.path, n)) = Len(t.path) + 1
      BY <3>1
    <3> QED  BY <3>1, <3>2
  <2>7. CASE Excused(t.path)
    <3>1. PICK j \in DOMAIN issues :
            issues[j].site # "link" /\ Prefix(issues[j].path, t.path)
      BY <2>7 DEF Excused
    <3>2. issues[j].path \in Seq(Name)
      <4>1. issues[j] \in ScanIssue
        BY DEF TypeOK
      <4> QED  BY <4>1 DEF ScanIssue
    <3>3. Excused(s.path)
      BY <2>6, <3>1, <3>2, PrefixOfEntry DEF Excused
    <3> QED  BY <2>6, <3>3
  <2>8. CASE Opened(fds, paths, t.path, t.inode)
    <3>1. PICK j \in DOMAIN fds : paths[j] = t.path /\ fds[j] = t.inode
      BY <2>8 DEF Opened
    <3>2. Accounted(fds, paths, list, s.path, s.inode)
      BY <2>4, <3>1 DEF Closed
    <3>3. s.inode \in DirInode /\ Entered(k+1) => ToBeOpened(s.path, s.inode)
      <4>1. options.maximum_depth \in Nat /\ Len(RootPath) \in Nat
        BY DEF TypeOK, ScanOptions
      <4> QED  BY <2>6, <4>1 DEF Entered, ToBeOpened
    <3> QED  BY <2>6, <3>2, <3>3 DEF Accounted
  <2> QED  BY <2>2, <2>3, <2>5, <2>7, <2>8
<1> HIDE DEF Right
<1>3. Nat \subseteq Good
  <2> HIDE DEF Good
  <2> QED  BY <1>1, <1>2, SetInduction
<1>4. ASSUME NEW s \in Standing PROVE Listed(list, s.path, s.inode) \/ Excused(s.path)
  <2>1. PICK k \in 1..Cardinality(Inode) : s \in StandingAt[k]
    BY DEF Standing
  <2>2. k \in Nat /\ k # 0
    OBVIOUS
  <2>3. Right(k, s)
    BY <1>3, <2>1, <2>2
  <2> QED  BY <2>2, <2>3 DEF Right
<1> QED
  BY <1>4

KeptInv == WalkInv /\ Reason

LEMMA KeptInvInit == Init => KeptInv
BY SourceInit, LevelInit DEF Init, KeptInv, WalkInv, Kept, Reason, Terminal

LEMMA KeptInvStep == KeptInv /\ [Next]_vars => KeptInv'
BY SourceStep, LevelStep, KeptStep, ReasonStep DEF KeptInv, WalkInv

(* What stands untouched for the whole scan is in the report, or under a   *)
(* path the report says it could not read: whatever changes elsewhere,     *)
(* whichever calls fail, and however the two interleave.                   *)
THEOREM NothingLost == Spec => []NothingStandingIsMissed
<1>1. Spec => []KeptInv
  BY KeptInvInit, KeptInvStep, PTL DEF Spec
<1>2. KeptInv => NothingStandingIsMissed
  <2> SUFFICES ASSUME KeptInv, pc = "collected"
               PROVE  \A s \in Standing : Listed(items, s.path, s.inode) \/ Excused(s.path)
    BY DEF NothingStandingIsMissed
  <2>1. PICK fds \in Seq(DirInode), paths \in Seq(Seq(Name)) :
          Len(paths) = Len(fds) /\ Closed(fds, paths, items)
    BY DEF KeptInv, Reason
  <2>2. TypeOK
    BY DEF KeptInv, WalkInv, LevelInv, Shape
  <2> QED  BY <2>1, <2>2, StandingAccounted
<1> QED
  BY <1>1, <1>2, PTL

---------------------------------------------------------------------------

LEMMA ResolvedUnfolds ==
  ASSUME NEW tree, NEW names
  PROVE  /\ Resolved(tree, names)[0] = Root
         /\ \A k \in Nat : Resolved(tree, names)[k+1] =
                             Advance(tree, Resolved(tree, names)[k], names[k+1])
<1> DEFINE Is(f) == f = [k \in Nat |-> IF k = 0 THEN Root ELSE Advance(tree, f[k-1], names[k])]
           S    == {Root, NoInode} \cup {tree[d][names[k]] : d \in DirInode, k \in Nat}
           Step == [k \in Nat |-> [v \in S |-> Advance(tree, v, names[k+1])]]
           g    == CHOOSE f : Is(f)
<1>1. Resolved(tree, names) = g
  BY DEF Resolved
<1>2. ASSUME NEW v \in S, NEW k \in Nat PROVE Advance(tree, v, names[k+1]) \in S
  <2>1. k + 1 \in Nat
    OBVIOUS
  <2>2. CASE v \in DirInode
    BY <2>1, <2>2 DEF Advance
  <2>3. CASE v \notin DirInode
    BY <2>3 DEF Advance
  <2> QED  BY <2>2, <2>3
<1>3. Root \in S /\ Step \in [Nat -> [S -> S]]
  <2>1. Root \in S
    OBVIOUS
  <2> HIDE DEF S
  <2> QED  BY <1>2, <2>1
<1>4. PICK f \in [Nat -> S] :
        \A k \in Nat : f[k] = IF k = 0 THEN Root ELSE Step[k-1][f[k-1]]
  <2> HIDE DEF S, Step
  <2> QED  BY ONLY <1>3, RecursionOnNat
<1>5. \A k \in Nat : f[k] = IF k = 0 THEN Root ELSE Advance(tree, f[k-1], names[k])
  <2> HIDE DEF S
  <2>1. ASSUME NEW k \in Nat, k # 0 PROVE f[k] = Advance(tree, f[k-1], names[k])
    <3>1. k - 1 \in Nat /\ f[k-1] \in S /\ (k - 1) + 1 = k
      BY <2>1
    <3> QED  BY <1>4, <2>1, <3>1
  <2> QED  BY <1>4, <2>1
<1>6. Is(f)
  <2> HIDE DEF S
  <2>1. f = [k \in Nat |-> f[k]]
    OBVIOUS
  <2> QED  BY <1>5, <2>1 DEF Is
<1> HIDE DEF Is
<1>7. Is(g)
  BY <1>6
<1> HIDE DEF g
<1>8. \A k \in Nat : g[k] = IF k = 0 THEN Root ELSE Advance(tree, g[k-1], names[k])
  BY <1>7 DEF Is
<1>9. ASSUME NEW k \in Nat PROVE g[k+1] = Advance(tree, g[k], names[k+1])
  <2>1. k + 1 \in Nat /\ k + 1 # 0 /\ (k + 1) - 1 = k
    OBVIOUS
  <2> QED  BY <1>8, <2>1
<1>10. g[0] = Root
  <2> HIDE DEF S, Step
  <2>1. 0 \in Nat
    OBVIOUS
  <2> QED  BY ONLY <1>8, <2>1
<1> QED
  BY ONLY <1>1, <1>9, <1>10

(* Only the names looked up so far matter. *)
LEMMA SamePrefix ==
  ASSUME NEW tree, NEW names, NEW others, NEW m \in Nat,
         \A k \in 1..m : others[k] = names[k]
  PROVE  \A k \in 0..m : Resolved(tree, others)[k] = Resolved(tree, names)[k]
<1> DEFINE a == Resolved(tree, others)
           b == Resolved(tree, names)
           Same == {k \in Nat : k <= m => a[k] = b[k]}
<1>1. /\ a[0] = Root /\ b[0] = Root
      /\ \A k \in Nat : a[k+1] = Advance(tree, a[k], others[k+1])
      /\ \A k \in Nat : b[k+1] = Advance(tree, b[k], names[k+1])
  BY ResolvedUnfolds
<1> HIDE DEF a, b
<1>2. 0 \in Same
  BY <1>1
<1>3. ASSUME NEW k \in Nat, k \in Same PROVE k + 1 \in Same
  <2> SUFFICES ASSUME k + 1 <= m PROVE a[k+1] = b[k+1]
    OBVIOUS
  <2>1. a[k] = b[k] /\ k + 1 \in 1..m
    BY <1>3
  <2> QED  BY <1>1, <2>1
<1>4. Nat \subseteq Same
  <2> HIDE DEF Same
  <2> QED  BY <1>2, <1>3, SetInduction
<1>5. \A k \in 0..m : a[k] = b[k]
  BY <1>4
<1> QED
  BY <1>5 DEF a, b

(* The history of a tree holds what is there. *)
Holding(tree, hist) == \A d \in Inode, n \in Name : tree[d][n] \in hist[d][n]

(* What is steady has been, and has led to the same. *)
LEMMA SteadyBefore ==
  ASSUME NEW tree, NEW hist, NEW newTree, NEW newHist,
         Holding(tree, hist), Holding(newTree, newHist),
         \A d \in Inode, n \in Name : hist[d][n] \subseteq newHist[d][n],
         NEW names \in Seq(Name), Steady(newTree, newHist, names)
  PROVE  /\ Steady(tree, hist, names)
         /\ Resolved(tree, names)[Len(names)] = Resolved(newTree, names)[Len(names)]
<1> DEFINE a == Resolved(tree, names)
           b == Resolved(newTree, names)
           m == Len(names)
<1>1. /\ a[0] = Root /\ b[0] = Root
      /\ \A k \in Nat : a[k+1] = Advance(tree, a[k], names[k+1])
      /\ \A k \in Nat : b[k+1] = Advance(newTree, b[k], names[k+1])
  <2>1. a[0] = Root /\ \A k \in Nat : a[k+1] = Advance(tree, a[k], names[k+1])
    BY ResolvedUnfolds
  <2>2. b[0] = Root /\ \A k \in Nat : b[k+1] = Advance(newTree, b[k], names[k+1])
    BY ResolvedUnfolds
  <2> QED  BY <2>1, <2>2
<1>2. /\ m \in Nat /\ DOMAIN names = 1..m
      /\ \A k \in 1..m : names[k] \in Name
  OBVIOUS
<1>3. \A k \in 1..m : b[k-1] \in DirInode /\ newHist[b[k-1]][names[k]] = {newTree[b[k-1]][names[k]]}
  BY DEF Steady
<1> HIDE DEF a, b, m
<1>4. ASSUME NEW k \in 1..m, a[k-1] = b[k-1]
      PROVE  /\ a[k-1] \in DirInode
             /\ hist[a[k-1]][names[k]] = {tree[a[k-1]][names[k]]}
             /\ tree[a[k-1]][names[k]] = newTree[a[k-1]][names[k]]
  <2>1. a[k-1] \in DirInode /\ a[k-1] \in Inode /\ names[k] \in Name
    BY <1>2, <1>3, <1>4 DEF DirInode
  <2>2. newHist[a[k-1]][names[k]] = {newTree[a[k-1]][names[k]]}
    BY <1>3, <1>4
  <2>3. /\ hist[a[k-1]][names[k]] \subseteq newHist[a[k-1]][names[k]]
        /\ tree[a[k-1]][names[k]] \in hist[a[k-1]][names[k]]
        /\ newTree[a[k-1]][names[k]] \in newHist[a[k-1]][names[k]]
    BY <2>1 DEF Holding
  <2>4. PICK x, y, X, Y : /\ x = tree[a[k-1]][names[k]] /\ X = hist[a[k-1]][names[k]]
                          /\ y = newTree[a[k-1]][names[k]] /\ Y = newHist[a[k-1]][names[k]]
    OBVIOUS
  <2>5. x = y /\ X = {x}
    BY <2>2, <2>3, <2>4
  <2> QED  BY <2>1, <2>4, <2>5
<1> DEFINE Same == {k \in Nat : k <= m => a[k] = b[k]}
<1>5. 0 \in Same
  BY <1>1
<1>6. ASSUME NEW k \in Nat, k \in Same PROVE k + 1 \in Same
  <2> SUFFICES ASSUME k + 1 <= m PROVE a[k+1] = b[k+1]
    OBVIOUS
  <2>1. a[k] = b[k] /\ k + 1 \in 1..m /\ (k + 1) - 1 = k
    BY <1>2, <1>6
  <2>2. /\ a[k] \in DirInode
        /\ tree[a[k]][names[k+1]] = newTree[a[k]][names[k+1]]
    BY <1>4, <2>1
  <2>3. /\ a[k+1] = Advance(tree, a[k], names[k+1])
        /\ b[k+1] = Advance(newTree, a[k], names[k+1])
    BY <1>1, <2>1
  <2>4. a[k+1] = tree[a[k]][names[k+1]] /\ b[k+1] = newTree[a[k]][names[k+1]]
    BY <2>2, <2>3 DEF Advance
  <2> QED  BY <2>2, <2>4
<1>7. Nat \subseteq Same
  <2> HIDE DEF Same
  <2> QED  BY <1>5, <1>6, SetInduction
<1>8. \A k \in 0..m : a[k] = b[k]
  BY <1>2, <1>7
<1>9. \A k \in 1..m : k - 1 \in 0..m
  BY <1>2
<1>10. \A k \in 1..m : a[k-1] \in DirInode /\ hist[a[k-1]][names[k]] = {tree[a[k-1]][names[k]]}
  BY <1>4, <1>8, <1>9
<1>11. a[m] = b[m]
  BY <1>2, <1>8
<1> QED
  BY <1>10, <1>11 DEF Steady, a, b, m

(* One name more. *)
LEMMA SteadyFurther ==
  ASSUME NEW tree, NEW hist, NEW names \in Seq(Name), NEW n \in Name,
         Steady(tree, hist, Append(names, n))
  PROVE  LET d == Resolved(tree, names)[Len(names)]
         IN /\ Steady(tree, hist, names)
            /\ d \in DirInode /\ hist[d][n] = {tree[d][n]}
            /\ Resolved(tree, Append(names, n))[Len(Append(names, n))] = tree[d][n]
<1> DEFINE m == Len(names)
           s == Append(names, n)
           a == Resolved(tree, names)
           b == Resolved(tree, s)
<1>1. /\ m \in Nat /\ Len(s) = m + 1 /\ s[m+1] = n
      /\ \A k \in 1..m : s[k] = names[k]
  OBVIOUS
<1>2. \A k \in 1..Len(s) : b[k-1] \in DirInode /\ hist[b[k-1]][s[k]] = {tree[b[k-1]][s[k]]}
  BY DEF Steady
<1>3. \A k \in Nat : b[k+1] = Advance(tree, b[k], s[k+1])
  BY ResolvedUnfolds
<1> HIDE DEF s, m
<1>4. \A k \in 0..m : b[k] = a[k]
  BY ONLY <1>1, SamePrefix
<1> HIDE DEF a, b
<1>5. /\ \A k \in 1..m : k \in 1..Len(s) /\ k - 1 \in 0..m
      /\ m + 1 \in 1..Len(s) /\ (m + 1) - 1 = m /\ m \in 0..m
  BY <1>1
<1>6. \A k \in 1..m : a[k-1] \in DirInode /\ hist[a[k-1]][names[k]] = {tree[a[k-1]][names[k]]}
  BY <1>1, <1>2, <1>4, <1>5
<1>7. a[m] \in DirInode /\ hist[a[m]][n] = {tree[a[m]][n]} /\ b[m] = a[m]
  <2>1. b[m] \in DirInode /\ hist[b[m]][s[m+1]] = {tree[b[m]][s[m+1]]}
    BY <1>2, <1>5
  <2> QED  BY <1>1, <1>4, <1>5, <2>1
<1>8. b[m+1] = tree[a[m]][n]
  <2>1. b[m+1] = Advance(tree, b[m], s[m+1])
    BY <1>1, <1>3
  <2> QED  BY <1>1, <1>7, <2>1 DEF Advance
<1> QED
  BY <1>1, <1>6, <1>7, <1>8 DEF Steady, a, b, s, m

---------------------------------------------------------------------------

(* A display path, as names from the root. *)
UnderRoot(path) == SubSeq(path, Len(RootPath) + 1, Len(path))
Start == Len(RootPath)

LEMMA UnderRootNames ==
  /\ UnderRoot(RootPath) = <<>>
  /\ \A path \in Seq(Name), n \in Name :
       Len(path) >= Start =>
         /\ UnderRoot(path) \in Seq(Name)
         /\ UnderRoot(Append(path, n)) = Append(UnderRoot(path), n)
         /\ Len(Append(path, n)) >= Start
<1>1. UnderRoot(RootPath) = <<>>
  BY DEF UnderRoot
<1>2. ASSUME NEW path \in Seq(Name), NEW n \in Name, Len(path) >= Start
      PROVE  /\ UnderRoot(path) \in Seq(Name)
             /\ UnderRoot(Append(path, n)) = Append(UnderRoot(path), n)
             /\ Len(Append(path, n)) >= Start
  <2>1. Start \in Nat /\ Len(path) \in Nat
    BY DEF Start
  <2>2. /\ UnderRoot(path) \in Seq(Name) /\ Len(UnderRoot(path)) = Len(path) - Start
        /\ \A k \in 1..(Len(path) - Start) : UnderRoot(path)[k] = path[Start + k]
    BY <1>2, <2>1 DEF UnderRoot, Start
  <2>3. /\ Append(path, n) \in Seq(Name) /\ Len(Append(path, n)) = Len(path) + 1
    OBVIOUS
  <2>4. /\ UnderRoot(Append(path, n)) \in Seq(Name)
        /\ Len(UnderRoot(Append(path, n))) = Len(path) + 1 - Start
        /\ \A k \in 1..(Len(path) + 1 - Start) :
             UnderRoot(Append(path, n))[k] = Append(path, n)[Start + k]
    BY <1>2, <2>1, <2>3 DEF UnderRoot, Start
  <2>5. /\ Append(UnderRoot(path), n) \in Seq(Name)
        /\ Len(Append(UnderRoot(path), n)) = Len(path) - Start + 1
    <3> DEFINE u == UnderRoot(path)
    <3>1. u \in Seq(Name) /\ Len(u) = Len(path) - Start
      BY <2>2
    <3> HIDE DEF u
    <3>2. Append(u, n) \in Seq(Name) /\ Len(Append(u, n)) = Len(u) + 1
      BY ONLY <3>1, n \in Name
    <3> QED  BY <2>1, <3>1, <3>2 DEF u
  <2>6. ASSUME NEW k \in 1..(Len(path) + 1 - Start)
        PROVE  UnderRoot(Append(path, n))[k] = Append(UnderRoot(path), n)[k]
    <3>1. CASE k <= Len(path) - Start
      <4>1. k \in 1..(Len(path) - Start) /\ Start + k \in 1..Len(path)
        BY <1>2, <2>1, <3>1
      <4>2. Append(path, n)[Start + k] = path[Start + k]
        BY <4>1
      <4>3. Append(UnderRoot(path), n)[k] = UnderRoot(path)[k]
        BY <2>2, <4>1
      <4> QED  BY <2>2, <2>4, <4>1, <4>2, <4>3
    <3>2. CASE k = Len(path) - Start + 1
      <4>1. Start + k = Len(path) + 1
        BY <2>1, <3>2
      <4>2. Append(path, n)[Start + k] = n
        BY <4>1
      <4>3. Append(UnderRoot(path), n)[k] = n
        BY <2>2, <3>2
      <4> QED  BY <2>4, <4>2, <4>3
    <3>3. k <= Len(path) - Start \/ k = Len(path) - Start + 1
      BY <2>1
    <3> QED  BY <3>1, <3>2, <3>3
  <2>7. UnderRoot(Append(path, n)) = Append(UnderRoot(path), n)
    <3>1. PICK s, t : s = UnderRoot(Append(path, n)) /\ t = Append(UnderRoot(path), n)
      OBVIOUS
    <3>2. /\ s \in Seq(Name) /\ t \in Seq(Name) /\ Len(s) = Len(t)
          /\ \A k \in 1..Len(s) : s[k] = t[k]
      BY <1>2, <2>1, <2>4, <2>5, <2>6, <3>1
    <3> QED  BY <3>1, <3>2, SeqEqual
  <2> QED  BY <1>2, <2>1, <2>2, <2>3, <2>7
<1> QED
  BY <1>1, <1>2

(* What a path has led to since the audit began, if it stood still. *)
Reaches(path, i) ==
  /\ path \in Seq(Name) /\ Len(path) >= Start
  /\ Still(UnderRoot(path)) => Walked(UnderRoot(path)) = i

LEMMA ReachesRoot == Reaches(RootPath, Root)
<1>1. Walked(<<>>) = Root
  BY ResolvedUnfolds DEF Walked
<1>2. Start \in Nat
  BY DEF Start
<1> QED
  BY <1>1, <1>2, UnderRootNames DEF Reaches, Start

(* An entry of what a path leads to: what it ever was is what it is. *)
LEMMA ReachesEntry ==
  ASSUME NEW path, NEW d \in Inode, NEW n \in Name, NEW i, Reaches(path, d),
         i \in past[d][n]
  PROVE  Reaches(Append(path, n), i)
<1> DEFINE names == UnderRoot(path)
<1>1. /\ names \in Seq(Name) /\ UnderRoot(Append(path, n)) = Append(names, n)
      /\ Append(path, n) \in Seq(Name) /\ Len(Append(path, n)) >= Start
  BY UnderRootNames DEF Reaches
<1> HIDE DEF names
<1>2. ASSUME Still(Append(names, n)) PROVE Walked(Append(names, n)) = i
  <2>1. LET e == Resolved(dirent, names)[Len(names)]
        IN /\ Steady(dirent, past, names)
           /\ e \in DirInode /\ past[e][n] = {dirent[e][n]}
           /\ Walked(Append(names, n)) = dirent[e][n]
    BY <1>1, <1>2, SteadyFurther DEF Still, Walked
  <2>2. Resolved(dirent, names)[Len(names)] = d
    BY <2>1 DEF Reaches, Still, Walked, names
  <2> QED  BY <2>1, <2>2
<1> QED
  BY <1>1, <1>2 DEF Reaches

(* The tree moves on. *)
Onward ==
  /\ Remembered /\ Remembered'
  /\ \A d \in Inode, n \in Name : past[d][n] \subseteq past'[d][n]

LEMMA StillBefore ==
  ASSUME Onward, NEW names \in Seq(Name), Still(names)'
  PROVE  Still(names) /\ Walked(names)' = Walked(names)
<1>1. Steady(dirent', past', names)
  BY DEF Still, Steady, Resolved, Advance
<1>2. Holding(dirent, past) /\ Holding(dirent', past')
  BY DEF Onward, Remembered, Holding
<1>3. /\ Steady(dirent, past, names)
      /\ Resolved(dirent, names)[Len(names)] = Resolved(dirent', names)[Len(names)]
  BY <1>1, <1>2, SteadyBefore DEF Onward
<1>4. Walked(names)' = Resolved(dirent', names)[Len(names)]
  BY DEF Walked, Resolved, Advance
<1> QED
  BY <1>3, <1>4 DEF Still, Walked

LEMMA ReachesOn ==
  ASSUME Onward, NEW path, NEW i, Reaches(path, i)
  PROVE  Reaches(path, i)'
<1>1. PICK names : names = UnderRoot(path)
  OBVIOUS
<1>2. names \in Seq(Name)
  BY <1>1 DEF Reaches, UnderRoot
<1>3. Still(names)' => Walked(names)' = i
  BY <1>1, <1>2, StillBefore DEF Reaches
<1> QED
  BY <1>1, <1>3 DEF Reaches, UnderRoot, Start

(* How the tables of the scan move: a candidate is added, and perhaps its  *)
(* directory; or they are copied.                                          *)
TablesKept == UNCHANGED <<directory_fds, directory_paths, candidates, items>>
DirectoryAdded ==
  /\ directory_fds' = Append(directory_fds, LookUp(entry.name))
  /\ directory_paths' = Append(directory_paths, FullPath(entry.name))
CandidateAdded ==
  /\ pc \in InEntry /\ UNCHANGED items
  /\ \/ UNCHANGED <<directory_fds, directory_paths>>
     \/ DirectoryAdded
  /\ \E i, t : /\ t = NoInode \/ t = LookUp(entry.name)
               /\ candidates' = Append(candidates,
                    [name |-> entry.name, parent |-> actual_entry.dir_fds_index,
                     full_path |-> FullPath(entry.name), inode |-> i,
                     symlink_target |-> t])

LEMMA TablesMove ==
  ASSUME TypeOK, [Next]_vars
  PROVE  TablesKept \/ OpenRoot \/ CandidateAdded \/ CollectMetadata
<1> USE DEF TablesKept, output, walk
<1>1. CASE UNCHANGED vars
  BY <1>1 DEF vars
<1>2. CASE World \/ FinishDiscovery
  BY <1>2 DEF World, FinishDiscovery
<1>3. CASE \E errno \in Errno : OpenRootFails(errno)
  BY <1>3 DEF OpenRootFails
<1>4. CASE DirectoryStep
  BY <1>4 DEF DirectoryStep, DupFails, DupDirectory, PopDirectory,
     FdopendirFails, Fdopendir, Readdir, ReaddirEnds, ReaddirFails
<1>5. ASSUME NEW t, AddCandidate(t), t = NoInode \/ t = LookUp(entry.name),
             entry'.name = entry.name, pc \in InEntry, UNCHANGED items,
             UNCHANGED <<directory_fds, directory_paths>> \/ DirectoryAdded
      PROVE  CandidateAdded
  BY <1>5 DEF AddCandidate, CandidateAdded
<1>6. CASE StatxSuffices
  <2>1. entry'.name = entry.name
    BY <1>6 DEF StatxSuffices, StatxSees, TypeOK
  <2> QED  BY <1>5, <1>6, <2>1 DEF StatxSuffices, StatxSees, InEntry
<1>7. CASE OpenatDirectory
  BY <1>5, <1>7 DEF OpenatDirectory, OpenedInode, DirectoryAdded, InEntry
<1>8. CASE Readlink
  BY <1>5, <1>8 DEF Readlink, InEntry
<1>9. CASE ReadlinkFails
  BY <1>5, <1>9 DEF ReadlinkFails, InEntry
<1>10. CASE EntryStep
  BY <1>6, <1>7, <1>8, <1>9, <1>10 DEF EntryStep, StatxFails, StatxIncomplete,
     StatxUnknownType, StatxExcluded, StatxGoesOn, OpenatFails, RejectEntry
<1> QED
  BY <1>1, <1>2, <1>3, <1>4, <1>10 DEF Next, Done, ScannerStep

(* Where the paths of the directories held, and of the items, lead to; and *)
(* what the text of a link was read from.                                  *)
DirectoriesReached ==
  \A k, path, i : /\ k \in DOMAIN directory_fds
                  /\ path = directory_paths[k] /\ i = directory_fds[k]
                  => Reaches(path, i)
TextsRead ==
  \A c : (\E k \in DOMAIN candidates : c = candidates[k]) =>
    c.symlink_target = NoInode \/ c.symlink_target \in past[directory_fds[c.parent]][c.name]

Recorded(path, i, t) == Reaches(path, i) /\ (t = NoInode \/ Reaches(path, t))
ItemsReached ==
  \A c : (\E k \in DOMAIN items : c = items[k]) =>
    \A path, i, t : path = c.full_path /\ i = c.inode /\ t = c.symlink_target =>
      Recorded(path, i, t)

TracedInv == SourceInv /\ DirectoriesReached /\ TextsRead /\ ItemsReached

LEMMA TracedInit == Init => TracedInv
BY SourceInit DEF Init, TracedInv, DirectoriesReached, TextsRead, ItemsReached

LEMMA TracedStep ==
  TracedInv /\ [Next]_vars => TracedInv'
<1> SUFFICES ASSUME TracedInv, [Next]_vars
             PROVE  DirectoriesReached' /\ TextsRead' /\ ItemsReached'
  BY SourceStep DEF TracedInv
<1>a. /\ TypeOK /\ Handles /\ Remembered /\ Reading /\ DirectoriesOpen
      /\ NothingInvented /\ DirectoriesReached /\ TextsRead /\ ItemsReached
      /\ Onward
  BY PastStep DEF TracedInv, SourceInv, DescriptorInv, Shape, Onward
<1>b. /\ DOMAIN directory_fds = DOMAIN directory_paths
      /\ directory_fds \in Seq(Inode) /\ directory_paths \in Seq(Seq(Name))
      /\ \A k \in DOMAIN directory_fds : directory_fds[k] \in Inode
      /\ candidates \in Seq(CandidateEntry)
      /\ \A k \in DOMAIN candidates : candidates[k] \in CandidateEntry
      /\ entry.name \in Name
  <2>1. Len(directory_paths) = Len(directory_fds)
    BY <1>a DEF Handles
  <2>2. /\ directory_paths \in Seq(Seq(Name)) /\ directory_fds \in Seq(Inode)
        /\ candidates \in Seq(CandidateEntry) /\ entry.name \in Name
    BY <1>a DEF TypeOK
  <2> QED  BY <2>1, <2>2
<1>c. ASSUME NEW path, NEW i, NEW t, Recorded(path, i, t) PROVE Recorded(path, i, t)'
  <2>1. Reaches(path, i) => Reaches(path, i)'
    BY <1>a, ReachesOn
  <2>2. Reaches(path, t) => Reaches(path, t)'
    BY <1>a, ReachesOn
  <2> QED  BY <1>c, <2>1, <2>2 DEF Recorded
<1>d. ASSUME UNCHANGED items PROVE ItemsReached'
  <2> SUFFICES ASSUME NEW c, \E k \in DOMAIN items : c = items[k],
                      NEW path, NEW i, NEW t,
                      path = c.full_path, i = c.inode, t = c.symlink_target
               PROVE  Recorded(path, i, t)'
    BY <1>d DEF ItemsReached
  <2>1. Recorded(path, i, t)
    BY <1>a DEF ItemsReached
  <2> QED  BY <1>c, <2>1
<1>e. ASSUME NEW k \in DOMAIN directory_fds, NEW path, NEW i,
             path = directory_paths[k], i = directory_fds[k]
      PROVE  Reaches(path, i)'
  <2>1. Reaches(path, i)
    BY <1>a, <1>e DEF DirectoriesReached
  <2> QED  BY <1>a, <2>1, ReachesOn
<1>f. ASSUME NEW c \in CandidateEntry, c.parent \in DOMAIN directory_fds,
             c.symlink_target = NoInode \/
               c.symlink_target \in past[directory_fds[c.parent]][c.name],
             NEW fds, \A k \in DOMAIN directory_fds : fds[k] = directory_fds[k]
      PROVE  c.symlink_target = NoInode \/
               c.symlink_target \in past'[fds[c.parent]][c.name]
  <2>1. c.name \in Name /\ directory_fds[c.parent] \in Inode
    BY <1>b, <1>f DEF CandidateEntry
  <2> QED  BY <1>a, <1>f, <2>1 DEF Onward
<1>g. ASSUME NEW k \in DOMAIN candidates
      PROVE  /\ candidates[k].parent \in DOMAIN directory_fds
             /\ candidates[k].symlink_target = NoInode \/
                  candidates[k].symlink_target \in
                    past[directory_fds[candidates[k].parent]][candidates[k].name]
  BY <1>a DEF NothingInvented, TextsRead
<1>1. CASE TablesKept
  <2>1. DirectoriesReached'
    <3> SUFFICES ASSUME NEW k, NEW path, NEW i, k \in DOMAIN directory_fds,
                        path = directory_paths[k], i = directory_fds[k]
                 PROVE  Reaches(path, i)'
      BY <1>1 DEF TablesKept, DirectoriesReached
    <3> QED  BY <1>e
  <2>2. TextsRead'
    <3> SUFFICES ASSUME NEW k \in DOMAIN candidates
                 PROVE  candidates[k].symlink_target = NoInode \/
                          candidates[k].symlink_target \in
                            past'[directory_fds[candidates[k].parent]][candidates[k].name]
      BY <1>1 DEF TablesKept, TextsRead
    <3> QED  BY <1>b, <1>f, <1>g
  <2> QED  BY <1>1, <1>d, <2>1, <2>2 DEF TablesKept
<1>2. CASE OpenRoot
  <2>1. Reaches(RootPath, Root)'
    BY <1>a, ReachesRoot, ReachesOn
  <2>2. DirectoriesReached'
    <3> SUFFICES ASSUME NEW k, NEW path, NEW i, k \in DOMAIN directory_fds',
                        path = directory_paths'[k], i = directory_fds'[k]
                 PROVE  Reaches(path, i)'
      BY DEF DirectoriesReached
    <3>1. k = 1 /\ path = RootPath /\ i = Root
      BY <1>2 DEF OpenRoot
    <3> QED  BY <2>1, <3>1
  <2>3. candidates = <<>> /\ UNCHANGED <<candidates, items>>
    <3>1. Len(directory_fds) = 0
      BY <1>2, <1>a DEF OpenRoot, Handles
    <3>2. DOMAIN directory_fds = {}
      BY <1>b, <3>1
    <3>3. DOMAIN candidates = {}
      BY <1>g, <3>2
    <3> QED  BY <1>2, <1>b, <3>3 DEF OpenRoot, output
  <2>4. TextsRead'
    BY <2>3 DEF TextsRead
  <2> QED  BY <1>d, <2>2, <2>3, <2>4
<1>3. CASE CandidateAdded
  <2>1. /\ actual_entry.dir_fds_index \in DOMAIN directory_fds
        /\ actual_entry.display_path = directory_paths[actual_entry.dir_fds_index]
    BY <1>3, <1>a DEF Reading, CandidateAdded, InStream
  <2>2. PICK d : d = ParentInode
    OBVIOUS
  <2>3. d \in Inode /\ Reaches(actual_entry.display_path, d)
    BY <1>a, <1>b, <2>1, <2>2 DEF DirectoriesReached, ParentInode
  <2>4. LookUp(entry.name) \in past[d][entry.name]
    BY <1>a, <1>b, <2>2, <2>3 DEF Remembered, LookUp
  <2>5. PICK path, i : path = FullPath(entry.name) /\ i = LookUp(entry.name)
    OBVIOUS
  <2>6. Reaches(path, i)
    BY <1>b, <2>3, <2>4, <2>5, ReachesEntry DEF FullPath
  <2>7. Reaches(path, i)'
    BY <1>a, <2>6, ReachesOn
  <2>8. /\ DOMAIN directory_fds \subseteq DOMAIN directory_fds'
        /\ \A k \in DOMAIN directory_fds : /\ directory_fds'[k] = directory_fds[k]
                                          /\ directory_paths'[k] = directory_paths[k]
        /\ \A k \in DOMAIN directory_fds' :
             \/ k \in DOMAIN directory_fds
             \/ directory_fds'[k] = i /\ directory_paths'[k] = path
    <3>1. CASE UNCHANGED <<directory_fds, directory_paths>>
      BY <3>1
    <3>2. CASE DirectoryAdded
      <4>1. /\ directory_fds' = Append(directory_fds, i)
            /\ directory_paths' = Append(directory_paths, path)
            /\ Len(directory_fds) = Len(directory_paths) /\ Len(directory_fds) \in Nat
        BY <1>a, <1>b, <2>5, <3>2 DEF DirectoryAdded, Handles
      <4> QED  BY <1>b, <4>1
    <3> QED  BY <1>3, <3>1, <3>2 DEF CandidateAdded
  <2>9. DirectoriesReached'
    <3> SUFFICES ASSUME NEW k, NEW p, NEW j, k \in DOMAIN directory_fds',
                        p = directory_paths'[k], j = directory_fds'[k]
                 PROVE  Reaches(p, j)'
      BY DEF DirectoriesReached
    <3>1. CASE k \in DOMAIN directory_fds
      BY <1>e, <2>8, <3>1
    <3>2. CASE k \notin DOMAIN directory_fds
      BY <2>7, <2>8, <3>2
    <3> QED  BY <3>1, <3>2
  <2>10. TextsRead'
    <3>1. PICK inode, t :
            /\ t = NoInode \/ t = i
            /\ candidates' = Append(candidates,
                 [name |-> entry.name, parent |-> actual_entry.dir_fds_index,
                  full_path |-> path, inode |-> inode, symlink_target |-> t])
      BY <1>3, <2>5 DEF CandidateAdded
    <3>2. \A k \in DOMAIN candidates' :
            \/ k \in DOMAIN candidates /\ candidates'[k] = candidates[k]
            \/ /\ candidates'[k].symlink_target = t /\ candidates'[k].name = entry.name
               /\ candidates'[k].parent = actual_entry.dir_fds_index
      BY <1>b, <3>1
    <3>3. t = NoInode \/ t \in past'[directory_fds'[actual_entry.dir_fds_index]][entry.name]
      <4>1. directory_fds'[actual_entry.dir_fds_index] = d
        BY <2>1, <2>2, <2>8 DEF ParentInode
      <4>2. i \in past'[d][entry.name]
        BY <1>a, <1>b, <2>3, <2>4, <2>5 DEF Onward
      <4> QED  BY <3>1, <4>1, <4>2
    <3>4. ASSUME NEW k \in DOMAIN candidates'
          PROVE  candidates'[k].symlink_target = NoInode \/
                   candidates'[k].symlink_target \in
                     past'[directory_fds'[candidates'[k].parent]][candidates'[k].name]
      <4>1. CASE k \in DOMAIN candidates /\ candidates'[k] = candidates[k]
        BY <1>b, <1>f, <1>g, <2>8, <4>1
      <4>2. CASE /\ candidates'[k].symlink_target = t /\ candidates'[k].name = entry.name
                 /\ candidates'[k].parent = actual_entry.dir_fds_index
        BY <3>3, <4>2
      <4> QED  BY <3>2, <4>1, <4>2
    <3> QED  BY <3>4 DEF TextsRead
  <2> QED  BY <1>3, <1>d, <2>9, <2>10 DEF CandidateAdded
<1>4. CASE CollectMetadata
  <2>1. /\ directory_fds' = <<>> /\ candidates' = <<>> /\ UNCHANGED fsVars
        /\ items' = [k \in DOMAIN candidates |-> ItemOf(candidates[k])]
    BY <1>4 DEF CollectMetadata
  <2>2. DirectoriesReached' /\ TextsRead'
    BY <2>1 DEF DirectoriesReached, TextsRead
  <2>3. ItemsReached'
    <3> SUFFICES ASSUME NEW k \in DOMAIN items', NEW path, NEW i, NEW t,
                        path = items'[k].full_path, i = items'[k].inode,
                        t = items'[k].symlink_target
                 PROVE  Recorded(path, i, t)'
      BY DEF ItemsReached
    <3>1. k \in DOMAIN candidates
      BY <2>1
    <3>2. PICK c : c = candidates[k]
      OBVIOUS
    <3>3. /\ path = c.full_path /\ i = c.inode /\ t = c.symlink_target
          /\ c \in CandidateEntry
      BY <1>b, <2>1, <3>1, <3>2 DEF ItemOf
    <3>4. PICK d, p, n : d = directory_fds[c.parent] /\ p = directory_paths[c.parent] /\ n = c.name
      OBVIOUS
    <3>5. /\ c.parent \in DOMAIN directory_fds /\ i \in past[d][n] /\ path = Append(p, n)
          /\ t = NoInode \/ t \in past[d][n]
      BY <1>a, <1>g, <3>1, <3>2, <3>3, <3>4 DEF NothingInvented
    <3>6. d \in Inode /\ n \in Name /\ Reaches(p, d)
      BY <1>a, <1>b, <3>3, <3>4, <3>5 DEF DirectoriesReached, CandidateEntry
    <3>7. Reaches(path, i) /\ (t = NoInode \/ Reaches(path, t))
      BY <3>5, <3>6, ReachesEntry
    <3> QED  BY <1>c, <3>7 DEF Recorded
  <2> QED  BY <2>2, <2>3
<1> QED
  BY <1>1, <1>2, <1>3, <1>4, <1>a, TablesMove

---------------------------------------------------------------------------

(* A directory keeps to one name. *)
LEMMA OneNameStep ==
  ASSUME FsTypeOK, OneName(dirent), FsChange
  PROVE  OneName(dirent')
<1>1. \A d, e \in DirInode, n, m \in Name :
        dirent[d][n] \in DirInode =>
          /\ dirent[d][n] \notin {Root, Slash}
          /\ dirent[e][m] = dirent[d][n] => e = d /\ m = n
  BY DEF OneName
<1>2. DirInode \subseteq Inode /\ NoInode \notin DirInode
  BY DEF DirInode
<1>3. dirent \in [Inode -> [Name -> Inode \cup {NoInode}]]
  BY DEF FsTypeOK, Entries
<1>4. ASSUME NEW d \in DirInode, NEW n \in Name, NEW i \in Inode, Create(d, n, i)
      PROVE  OneName(dirent')
  <2>1. /\ dirent' = [dirent EXCEPT ![d][n] = i]
        /\ i \in DirInode => /\ i \notin {Root, Slash}
                             /\ \A e \in DirInode, m \in Name : dirent[e][m] # i
    BY <1>4 DEF Create, Rewrite, Linked, DirInode
  <2>2. \A e \in DirInode, m \in Name :
          dirent'[e][m] = IF e = d /\ m = n THEN i ELSE dirent[e][m]
    BY <1>2, <1>3, <2>1
  <2> QED  BY <1>1, <2>1, <2>2 DEF OneName
<1>5. ASSUME NEW d \in DirInode, NEW n \in Name, Remove(d, n)
      PROVE  OneName(dirent')
  <2>1. dirent' = [dirent EXCEPT ![d][n] = NoInode]
    BY <1>5 DEF Remove, Rewrite
  <2>2. \A e \in DirInode, m \in Name :
          dirent'[e][m] = IF e = d /\ m = n THEN NoInode ELSE dirent[e][m]
    BY <1>2, <1>3, <2>1
  <2> QED  BY <1>1, <1>2, <2>2 DEF OneName
<1>6. ASSUME NEW d \in DirInode, NEW n \in Name, NEW e \in DirInode,
             NEW m \in Name, Rename(d, n, e, m)
      PROVE  OneName(dirent')
  <2>1. PICK i : i = dirent[d][n]
    OBVIOUS
  <2>2. /\ dirent' = [dirent EXCEPT ![d][n] = NoInode, ![e][m] = i]
        /\ i # dirent[e][m]
    BY <1>6, <2>1 DEF Rename, Rewrite
  <2>3. \A f \in DirInode, p \in Name :
          dirent'[f][p] = IF f = e /\ p = m THEN i
                          ELSE IF f = d /\ p = n THEN NoInode ELSE dirent[f][p]
    BY <1>2, <1>3, <2>2
  <2> QED  BY <1>1, <1>2, <2>1, <2>3 DEF OneName
<1>7. ASSUME NEW d \in DirInode, ChangeMode(d) PROVE OneName(dirent')
  BY <1>7 DEF ChangeMode, OneName
<1> QED
  BY <1>4, <1>5, <1>6, <1>7 DEF FsChange

(* One name more. *)
Grown(M) == M \cup {dirent[d][n] : d \in M \ {NoInode}, n \in Name}

LEMMA DescentUnfolds ==
  ASSUME FsTypeOK, NEW i \in Inode
  PROVE  /\ Descent(i) \in [Nat -> SUBSET (Inode \cup {NoInode})]
         /\ Descent(i)[0] = {i}
         /\ \A k \in Nat : Descent(i)[k+1] = Grown(Descent(i)[k])
<1> DEFINE Is(f) == f = [k \in Nat |-> IF k = 0 THEN {i} ELSE Grown(f[k-1])]
           S     == SUBSET (Inode \cup {NoInode})
           Step  == [k \in Nat |-> [above \in S |-> Grown(above)]]
           g     == CHOOSE f : Is(f)
<1>1. Descent(i) = g
  BY DEF Descent, Grown
<1>2. \A above \in S : Grown(above) \in S
  BY DEF FsTypeOK, Entries, Grown
<1>3. {i} \in S /\ Step \in [Nat -> [S -> S]]
  <2>1. {i} \in S
    OBVIOUS
  <2> HIDE DEF S
  <2> QED  BY <1>2, <2>1
<1> HIDE DEF S
<1>4. PICK f \in [Nat -> S] :
        \A k \in Nat : f[k] = IF k = 0 THEN {i} ELSE Step[k-1][f[k-1]]
  <2> HIDE DEF Step
  <2> QED  BY ONLY <1>3, RecursionOnNat
<1>5. \A k \in Nat : f[k] = IF k = 0 THEN {i} ELSE Grown(f[k-1])
  <2>1. ASSUME NEW k \in Nat, k # 0 PROVE f[k] = Grown(f[k-1])
    <3>1. k - 1 \in Nat /\ f[k-1] \in S
      BY <2>1
    <3> QED  BY <1>4, <2>1, <3>1
  <2> QED  BY <1>4, <2>1
<1>6. Is(f)
  <2>1. f = [k \in Nat |-> f[k]]
    OBVIOUS
  <2> QED  BY <1>5, <2>1
<1> HIDE DEF Is
<1>7. Is(g)
  BY <1>6
<1> HIDE DEF g
<1>8. g = [k \in Nat |-> IF k = 0 THEN {i} ELSE Grown(g[k-1])]
  BY <1>7 DEF Is
<1>9. \A k \in Nat : g[k] = IF k = 0 THEN {i} ELSE Grown(g[k-1])
  BY <1>8
<1>10. \A k \in Nat : g[k+1] = Grown(g[k])
  <2>1. \A k \in Nat : k + 1 \in Nat /\ k + 1 # 0 /\ (k + 1) - 1 = k
    OBVIOUS
  <2> QED  BY <1>9, <2>1
<1>11. g[0] = {i}
  BY <1>9
<1>12. g \in [Nat -> S]
  <2> DEFINE T == {k \in Nat : g[k] \in S}
  <2>1. 0 \in T
    BY <1>3, <1>11
  <2>2. ASSUME NEW k \in Nat, k \in T PROVE k + 1 \in T
    <3>1. k + 1 \in Nat /\ g[k] \in S
      BY <2>2
    <3> QED  BY <1>2, <1>10, <3>1
  <2>3. Nat \subseteq T
    <3> HIDE DEF T
    <3> QED  BY <2>1, <2>2, SetInduction
  <2>4. g = [k \in Nat |-> g[k]]
    BY <1>8
  <2> QED  BY <2>3, <2>4
<1> QED
  BY <1>1, <1>10, <1>11, <1>12 DEF S

(* What is below something below i is below i: as long as a level adds an  *)
(* inode the subtree counts one more, and there are no more than Inode.    *)
LEMMA SubtreeClosed ==
  ASSUME FsTypeOK, NEW i \in Inode
  PROVE  /\ i \in Subtree(i)
         /\ \A d \in Subtree(i), n \in Name :
              dirent[d][n] # NoInode => dirent[d][n] \in Subtree(i)
<1>1. PICK B : B = Descent(i)
  OBVIOUS
<1>2. /\ B \in [Nat -> SUBSET (Inode \cup {NoInode})]
      /\ B[0] = {i}
      /\ \A k \in Nat : B[k+1] = Grown(B[k])
  BY <1>1, DescentUnfolds
<1>3. PICK l : l = [k \in Nat |-> B[k] \ {NoInode}]
  OBVIOUS
<1>4. /\ l \in [Nat -> SUBSET Inode]
      /\ l[0] = {i}
  BY <1>2, <1>3
<1>5. \A k \in Nat : l[k+1] = Grown(l[k]) \ {NoInode}
  <2> SUFFICES ASSUME NEW k \in Nat PROVE l[k+1] = Grown(l[k]) \ {NoInode}
    OBVIOUS
  <2>1. l[k+1] = B[k+1] \ {NoInode} /\ l[k] = B[k] \ {NoInode}
    BY <1>3
  <2>2. B[k+1] = Grown(B[k])
    BY <1>2
  <2>3. Grown(B[k]) \ {NoInode} = Grown(B[k] \ {NoInode}) \ {NoInode}
    BY DEF Grown
  <2> QED  BY <2>1, <2>2, <2>3
<1>6. PICK c : c = Cardinality(Inode)
  OBVIOUS
<1>7. c \in Nat /\ Subtree(i) = l[c]
  <2>1. c \in Nat
    BY <1>6, FS_CardinalityType
  <2> QED  BY <1>1, <1>3, <1>6, <2>1 DEF Subtree
<1>8. ASSUME NEW M \in SUBSET Inode
      PROVE  IsFiniteSet(M) /\ Cardinality(M) \in Nat /\ Cardinality(M) <= c
  BY <1>6, FS_Subset, FS_CardinalityType
<1> DEFINE T == {k \in Nat : /\ i \in l[k]
                             /\ Cardinality(l[k]) >= k + 1 \/ l[k+1] = l[k]}
<1>9. 0 \in T
  <2>1. Cardinality({i}) = 1
    BY FS_Singleton
  <2>2. i \in l[0] /\ Cardinality(l[0]) = 1
    BY <1>4, <2>1
  <2>3. Cardinality(l[0]) >= 0 + 1
    BY ONLY <2>2
  <2> QED  BY <2>2, <2>3
<1>10. ASSUME NEW k \in Nat, k \in T PROVE k + 1 \in T
  <2>1. k + 1 \in Nat /\ l[k] \in SUBSET Inode /\ l[k+1] \in SUBSET Inode
    BY <1>4
  <2>2. l[k+1] = Grown(l[k]) \ {NoInode} /\ l[(k+1)+1] = Grown(l[k+1]) \ {NoInode}
    BY <1>5, <2>1
  <2>3. l[k] \subseteq l[k+1]
    BY <2>1, <2>2 DEF Grown
  <2>4. CASE l[k+1] = l[k]
    <3>1. l[(k+1)+1] = l[k+1]
      BY <2>2, <2>4
    <3> QED  BY <1>10, <2>1, <2>3, <3>1
  <2>5. CASE l[k+1] # l[k]
    <3>1. PICK M, N : M = l[k] /\ N = l[k+1]
      OBVIOUS
    <3>2. /\ M \in SUBSET N /\ M # N /\ IsFiniteSet(N)
          /\ Cardinality(M) \in Nat /\ Cardinality(N) \in Nat
      BY <1>8, <2>1, <2>3, <2>5, <3>1
    <3>3. Cardinality(M) <= Cardinality(N) /\ Cardinality(M) # Cardinality(N)
      BY <3>2, FS_Subset
    <3>4. Cardinality(M) >= k + 1
      BY <1>10, <2>5, <3>1
    <3>5. Cardinality(N) >= (k + 1) + 1
      BY ONLY <3>2, <3>3, <3>4, k \in Nat
    <3> QED  BY <1>10, <2>1, <2>3, <3>1, <3>5
  <2> QED  BY <2>4, <2>5
<1>11. Nat \subseteq T
  <2> HIDE DEF T
  <2> QED  BY <1>9, <1>10, SetInduction
<1>12. /\ i \in l[c]
       /\ Cardinality(l[c]) >= c + 1 \/ l[c+1] = l[c]
  BY <1>7, <1>11
<1>13. l[c+1] = l[c]
  <2>1. Cardinality(l[c]) \in Nat /\ Cardinality(l[c]) <= c
    BY <1>4, <1>7, <1>8
  <2>2. ~(Cardinality(l[c]) >= c + 1)
    BY ONLY <1>7, <2>1
  <2> QED  BY <1>12, <2>2
<1>14. l[c] = Grown(l[c]) \ {NoInode} /\ NoInode \notin l[c]
  BY <1>4, <1>5, <1>7, <1>13
<1> QED
  BY <1>7, <1>12, <1>14 DEF Grown

(* A disturbed entry stays one. *)
LEMMA UndisturbedBefore ==
  ASSUME TypeOK, Remembered, [Next]_vars, NEW d \in Inode, NEW n \in Name,
         Undisturbed(d, n)'
  PROVE  Undisturbed(d, n) /\ dirent'[d][n] = dirent[d][n]
<1>1. past'[d][n] = {dirent'[d][n]}
  BY DEF Undisturbed
<1>2. past[d][n] \subseteq past'[d][n] /\ dirent[d][n] \in past[d][n]
  BY PastStep DEF Remembered
<1> QED
  BY <1>1, <1>2 DEF Undisturbed

(* The directories in the queue, and the one being read, are different     *)
(* ones; a name the stream has returned comes again only if something      *)
(* happened to it.                                                         *)
QueueOfDifferent ==
  /\ \A p, q \in DOMAIN pending_directories :
       pending_directories[p].dir_fds_index = pending_directories[q].dir_fds_index => p = q
  /\ pc \in InStream =>
       \A q \in DOMAIN pending_directories :
         pending_directories[q].dir_fds_index # actual_entry.dir_fds_index

ReturnedOnce ==
  pc \in InEntry /\ entry.name \in stream.must \cup stream.may =>
    ~Undisturbed(ParentInode, entry.name)

(* The scanner may still open what the entry n of its j-th directory leads *)
(* to.                                                                     *)
MayOpen(j, n) ==
  \/ Waiting(j)
  \/ /\ pc \in {"readdir"} \cup InEntry
     /\ actual_entry.dir_fds_index = j
     /\ n \in stream.must \cup stream.may \/ (pc \in InEntry /\ n = entry.name)

LEMMA QueueStep ==
  TypeOK /\ Handles /\ Reading /\ QueueOfDifferent /\ [Next]_vars => QueueOfDifferent'
<1> SUFFICES ASSUME TypeOK, Handles, Reading, QueueOfDifferent, [Next]_vars
             PROVE  QueueOfDifferent'
  OBVIOUS
<1> USE DEF walk, output
<1>1. /\ pending_directories \in Seq(DirectoryRecord)
      /\ directory_fds \in Seq(Inode) /\ Len(directory_fds) \in Nat
      /\ \A q \in DOMAIN pending_directories :
           pending_directories[q].dir_fds_index \in 1..Len(directory_fds)
      /\ pc \in InStream => actual_entry.dir_fds_index \in 1..Len(directory_fds)
  <2>1. directory_fds \in Seq(Inode) /\ pending_directories \in Seq(DirectoryRecord)
    BY DEF TypeOK
  <2> QED  BY <2>1 DEF Handles, Reading
<1>2. ASSUME UNCHANGED <<pending_directories, actual_entry>>, pc' \in InStream => pc \in InStream
      PROVE  QueueOfDifferent'
  BY <1>2 DEF QueueOfDifferent
<1>3. CASE UNCHANGED vars
  BY <1>2, <1>3 DEF vars
<1>4. CASE World \/ FinishDiscovery \/ CollectMetadata
  BY <1>2, <1>4 DEF World, FinishDiscovery, CollectMetadata, InStream, InEntry
<1>5. CASE \E errno \in Errno : OpenRootFails(errno)
  BY <1>2, <1>5 DEF OpenRootFails, InStream, InEntry
<1>6. CASE OpenRoot
  BY <1>6 DEF OpenRoot, QueueOfDifferent, InStream, InEntry
<1>7. CASE DupFails \/ DupDirectory
  <2>1. /\ pending_directories # <<>>
        /\ actual_entry' = Head(pending_directories)
        /\ pending_directories' = Tail(pending_directories)
    BY <1>7 DEF DupFails, DupDirectory, PopDirectory
  <2>2. /\ 1 \in DOMAIN pending_directories
        /\ actual_entry' = pending_directories[1]
        /\ \A q \in DOMAIN pending_directories' :
             /\ q \in Int /\ q + 1 \in DOMAIN pending_directories /\ q + 1 # 1
             /\ pending_directories'[q] = pending_directories[q+1]
    BY <1>1, <2>1
  <2>3. \A q \in DOMAIN pending_directories' :
          pending_directories'[q].dir_fds_index # actual_entry'.dir_fds_index
    BY <2>2 DEF QueueOfDifferent
  <2>4. ASSUME NEW p \in DOMAIN pending_directories', NEW q \in DOMAIN pending_directories',
               pending_directories'[p].dir_fds_index = pending_directories'[q].dir_fds_index
        PROVE  p = q
    <3>1. p + 1 = q + 1
      BY <2>2, <2>4 DEF QueueOfDifferent
    <3> QED  BY <2>2, <3>1
  <2> QED  BY <2>3, <2>4 DEF QueueOfDifferent
<1>8. CASE OpenatDirectory
  <2>1. PICK record : /\ pending_directories' = Append(pending_directories, record)
                      /\ record \in DirectoryRecord
                      /\ record.dir_fds_index = Len(directory_fds) + 1
                      /\ pc \in InStream /\ UNCHANGED actual_entry
    <3>1. PICK record :
            record = [display_path |-> FullPath(entry.name),
                      dir_fds_index |-> Len(directory_fds) + 1,
                      depth |-> actual_entry.depth + 1]
      OBVIOUS
    <3>2. record \in DirectoryRecord
      <4>1. /\ actual_entry.display_path \in Seq(Name) /\ actual_entry.depth \in Nat
            /\ entry.name \in Name
        BY DEF TypeOK, DirectoryRecord
      <4>2. FullPath(entry.name) \in Seq(Name)
        BY <4>1 DEF FullPath
      <4> QED  BY <1>1, <3>1, <4>1, <4>2 DEF DirectoryRecord
    <3> QED  BY <1>8, <3>1, <3>2 DEF OpenatDirectory, InStream, InEntry
  <2>2. \A q \in DOMAIN pending_directories' :
          \/ q \in DOMAIN pending_directories /\ pending_directories'[q] = pending_directories[q]
          \/ q = Len(pending_directories) + 1 /\ pending_directories'[q] = record
    BY <1>1, <2>1
  <2>3. \A q \in DOMAIN pending_directories :
          pending_directories[q].dir_fds_index # Len(directory_fds) + 1
    BY <1>1
  <2>4. actual_entry.dir_fds_index # Len(directory_fds) + 1
    BY <1>1, <2>1
  <2> QED  BY <2>1, <2>2, <2>3, <2>4 DEF QueueOfDifferent
<1>9. CASE DirectoryStep
  BY <1>2, <1>7, <1>9 DEF DirectoryStep, FdopendirFails, Fdopendir, Readdir,
     ReaddirEnds, ReaddirFails, CloseStream, InStream, InEntry
<1>10. CASE EntryStep
  BY <1>2, <1>8, <1>10 DEF EntryStep, StatxFails, StatxIncomplete, StatxUnknownType,
     StatxExcluded, StatxGoesOn, StatxSuffices, OpenatFails, ReadlinkFails, Readlink,
     StatxSees, RejectEntry, InStream, InEntry
<1> QED
  BY <1>3, <1>4, <1>5, <1>6, <1>9, <1>10 DEF Next, Done, ScannerStep

(* What the stream loses or gains while the tree changes moved just now.   *)
LEMMA StreamStep ==
  ASSUME TypeOK, Handles, Reading, Remembered, World, pc \in {"readdir"} \cup InEntry,
         NEW n \in Name, n \in stream'.must \cup stream'.may
  PROVE  n \in stream.must \cup stream.may \/ ~Undisturbed(ParentInode, n)'
<1>1. ParentInode \in Inode
  BY DEF TypeOK, Reading, InStream, InEntry, ParentInode
<1>2. PICK d : d = ParentInode
  OBVIOUS
<1>3. stream' = LET moved == {m \in Name : dirent[d][m] # dirent'[d][m]}
                    came  == {m \in moved : dirent'[d][m] # NoInode}
                IN [must |-> stream.must \ moved,
                    may  |-> stream.may \cup came \cup (moved \cap stream.must)]
  BY <1>2 DEF World, StreamFollows
<1>4. n \in stream.must \cup stream.may \/ dirent[d][n] # dirent'[d][n]
  BY <1>3
<1>5. dirent[d][n] # dirent'[d][n] => ~Undisturbed(d, n)'
  BY <1>1, <1>2, UndisturbedBefore DEF Next
<1>6. ParentInode' = d
  BY <1>2 DEF World, walk, ParentInode
<1> QED
  BY <1>4, <1>5, <1>6 DEF Undisturbed

LEMMA ReturnedStep ==
  TypeOK /\ Handles /\ Reading /\ Remembered /\ ReturnedOnce /\ [Next]_vars => ReturnedOnce'
<1> SUFFICES ASSUME TypeOK, Handles, Reading, Remembered, ReturnedOnce, [Next]_vars
             PROVE  ReturnedOnce'
  OBVIOUS
<1> USE DEF walk, output
<1>1. ASSUME pc' \notin InEntry PROVE ReturnedOnce'
  BY <1>1 DEF ReturnedOnce
<1>2. ASSUME UNCHANGED <<fsVars, directory_fds, actual_entry, stream>>, pc \in InEntry,
             entry'.name = entry.name
      PROVE  ReturnedOnce'
  BY <1>2 DEF ReturnedOnce, Undisturbed, ParentInode, fsVars
<1>3. CASE UNCHANGED vars
  BY <1>1, <1>2, <1>3 DEF vars
<1>4. CASE World
  <2> SUFFICES ASSUME pc \in InEntry, entry.name \in stream'.must \cup stream'.may
               PROVE  ~Undisturbed(ParentInode, entry.name)'
    BY <1>4 DEF World, ReturnedOnce
  <2>1. PICK n, d : n = entry.name /\ d = ParentInode
    OBVIOUS
  <2>2. n \in Name /\ d \in Inode
    BY <2>1 DEF TypeOK, Reading, InStream, InEntry, ParentInode
  <2>3. UNCHANGED <<pc, entry>> /\ ParentInode' = d
    BY <1>4, <2>1 DEF World, ParentInode
  <2>4. n \in stream.must \cup stream.may \/ ~Undisturbed(ParentInode, n)'
    BY <1>4, <2>1, <2>2, StreamStep
  <2>5. ~Undisturbed(d, n)'
    <3>1. CASE n \in stream.must \cup stream.may
      <4>1. ~Undisturbed(d, n)
        BY <2>1, <3>1 DEF ReturnedOnce
      <4> QED  BY <2>2, <4>1, UndisturbedBefore
    <3>2. CASE ~Undisturbed(ParentInode, n)'
      BY <2>3, <3>2 DEF Undisturbed
    <3> QED  BY <2>4, <3>1, <3>2
  <2> QED  BY <2>1, <2>3, <2>5 DEF Undisturbed
<1>5. CASE FinishDiscovery \/ CollectMetadata
  BY <1>1, <1>5 DEF FinishDiscovery, CollectMetadata, InEntry
<1>6. CASE OpenRoot \/ (\E errno \in Errno : OpenRootFails(errno))
  BY <1>1, <1>6 DEF OpenRoot, OpenRootFails, InEntry
<1>7. ASSUME NEW n \in Name, Readdir(n) PROVE ReturnedOnce'
  <2>1. CASE n \in HiddenName /\ ~options.include_hidden
    BY <1>1, <1>7, <2>1 DEF Readdir, InEntry
  <2>2. CASE ~(n \in HiddenName /\ ~options.include_hidden)
    <3>1. entry'.name \notin stream'.must \cup stream'.may
      BY <1>7, <2>2 DEF Readdir
    <3> QED  BY <3>1 DEF ReturnedOnce
  <2> QED  BY <2>1, <2>2
<1>8. CASE DirectoryStep
  BY <1>1, <1>7, <1>8 DEF DirectoryStep, DupFails, DupDirectory, PopDirectory,
     FdopendirFails, Fdopendir, ReaddirEnds, ReaddirFails, CloseStream, InEntry
<1>9. CASE StatxGoesOn
  <2>1. entry'.name = entry.name
    BY <1>9 DEF StatxGoesOn, StatxSees, TypeOK
  <2> QED  BY <1>2, <1>9, <2>1 DEF StatxGoesOn, StatxSees, InEntry
<1>10. CASE EntryStep
  BY <1>1, <1>9, <1>10 DEF EntryStep, StatxFails, StatxIncomplete, StatxUnknownType,
     StatxExcluded, StatxSuffices, OpenatFails, OpenatDirectory, ReadlinkFails, Readlink,
     RejectEntry, InEntry
<1> QED
  BY <1>3, <1>4, <1>5, <1>6, <1>8, <1>10 DEF Next, Done, ScannerStep

(* What may be opened becomes less, but for what moves and for directories *)
(* not yet known.                                                          *)
LEMMA FewerToOpen ==
  ASSUME TypeOK, Handles, Reading, Remembered, [Next]_vars,
         NEW j \in DOMAIN directory_fds, NEW n \in Name,
         NEW d, d = directory_fds[j], MayOpen(j, n)'
  PROVE  MayOpen(j, n) \/ ~Undisturbed(d, n)'
<1> USE DEF walk, output
<1>1. ASSUME UNCHANGED <<pending_directories, actual_entry>>, pc' \notin InStream
      PROVE  MayOpen(j, n)
  BY <1>1 DEF MayOpen, Waiting, InStream
<1>2. ASSUME UNCHANGED <<pending_directories, actual_entry, stream>>, pc \in InEntry,
             pc' \in {"readdir"} \cup InEntry, entry'.name = entry.name
      PROVE  MayOpen(j, n)
  BY <1>2 DEF MayOpen, Waiting, InEntry
<1>3. CASE UNCHANGED vars
  BY <1>3 DEF vars, MayOpen, Waiting
<1>4. CASE World
  <2>1. UNCHANGED <<pending_directories, actual_entry, pc, entry>>
    BY <1>4 DEF World
  <2>2. CASE ~Waiting(j) /\ ~(pc \in InEntry /\ n = entry.name)
    <3>1. /\ pc \in {"readdir"} \cup InEntry /\ actual_entry.dir_fds_index = j
          /\ n \in stream'.must \cup stream'.may
      BY <2>1, <2>2 DEF MayOpen, Waiting
    <3>2. n \in stream.must \cup stream.may \/ ~Undisturbed(ParentInode, n)'
      BY <1>4, <3>1, StreamStep
    <3>3. ParentInode' = d
      BY <1>4, <3>1 DEF World, ParentInode
    <3>4. n \in stream.must \cup stream.may \/ ~Undisturbed(d, n)'
      BY <3>2, <3>3 DEF Undisturbed
    <3> QED  BY <3>1, <3>4 DEF MayOpen
  <2>3. CASE Waiting(j) \/ (pc \in InEntry /\ n = entry.name)
    BY <2>1, <2>3 DEF MayOpen, Waiting
  <2> QED  BY <2>2, <2>3
<1>5. CASE FinishDiscovery \/ CollectMetadata
  BY <1>1, <1>5 DEF FinishDiscovery, CollectMetadata, InStream, InEntry
<1>6. CASE \E errno \in Errno : OpenRootFails(errno)
  BY <1>1, <1>6 DEF OpenRootFails, InStream, InEntry
<1>7. CASE OpenRoot
  BY <1>7 DEF OpenRoot, Handles
<1>8. CASE DupFails \/ DupDirectory
  <2>1. /\ pending_directories # <<>> /\ pc' \in {"dup", "fdopendir"}
        /\ actual_entry' = Head(pending_directories)
        /\ pending_directories' = Tail(pending_directories)
    BY <1>8 DEF DupFails, DupDirectory, PopDirectory
  <2>2. /\ 1 \in DOMAIN pending_directories
        /\ actual_entry' = pending_directories[1]
        /\ \A q \in DOMAIN pending_directories' :
             /\ q + 1 \in DOMAIN pending_directories
             /\ pending_directories'[q] = pending_directories[q+1]
    <3>1. pending_directories \in Seq(DirectoryRecord)
      BY DEF TypeOK
    <3> QED  BY <2>1, <3>1
  <2>3. Waiting(j)
    BY <2>1, <2>2 DEF MayOpen, Waiting, InEntry
  <2> QED  BY <2>3 DEF MayOpen
<1>9. CASE Fdopendir
  BY <1>9 DEF Fdopendir, MayOpen, Waiting, InEntry
<1>10. ASSUME NEW m \in Name, Readdir(m) PROVE MayOpen(j, n)
  BY <1>10 DEF Readdir, MayOpen, Waiting, InEntry
<1>11. CASE DirectoryStep
  BY <1>1, <1>8, <1>9, <1>10, <1>11 DEF DirectoryStep, FdopendirFails, ReaddirEnds,
     ReaddirFails, CloseStream, InStream, InEntry
<1>12. CASE OpenatDirectory
  <2>1. PICK record : /\ pending_directories' = Append(pending_directories, record)
                      /\ record.dir_fds_index = Len(directory_fds) + 1
    BY <1>12 DEF OpenatDirectory
  <2>2. \A q \in DOMAIN pending_directories' :
          \/ q \in DOMAIN pending_directories /\ pending_directories'[q] = pending_directories[q]
          \/ pending_directories'[q] = record
    <3>1. pending_directories \in Seq(DirectoryRecord)
      BY DEF TypeOK
    <3> QED  BY <2>1, <3>1
  <2>3. j # Len(directory_fds) + 1
    BY DEF TypeOK
  <2>4. Waiting(j)' => Waiting(j)
    BY <1>12, <2>1, <2>2, <2>3 DEF Waiting, OpenatDirectory
  <2> QED  BY <1>12, <2>4 DEF OpenatDirectory, MayOpen, InEntry
<1>13. CASE StatxIncomplete \/ StatxUnknownType \/ StatxExcluded \/ StatxGoesOn
            \/ StatxSuffices
  <2>1. entry'.name = entry.name
    BY <1>13 DEF StatxIncomplete, StatxUnknownType, StatxExcluded, StatxGoesOn,
       StatxSuffices, StatxSees, TypeOK
  <2> QED  BY <1>2, <1>13, <2>1 DEF StatxIncomplete, StatxUnknownType, StatxExcluded,
              StatxGoesOn, StatxSuffices, StatxSees, RejectEntry, InEntry
<1>14. CASE EntryStep
  BY <1>2, <1>12, <1>13, <1>14 DEF EntryStep, StatxFails, OpenatFails, ReadlinkFails,
     Readlink, RejectEntry, InEntry
<1> QED
  BY <1>3, <1>4, <1>5, <1>6, <1>7, <1>11, <1>14 DEF Next, Done, ScannerStep

(* o[k] is the entry by which the k-th directory held was opened: the      *)
(* position of the directory the entry is of, and the name.  An entry by   *)
(* which two were opened, or one still may be, is one something happened   *)
(* to.                                                                     *)
Opening == [parent : Nat, name : Name]

OpenedBy(o) ==
  /\ o \in Seq(Opening) /\ Len(o) = Len(directory_fds)
  /\ \A k \in 2..Len(directory_fds) :
       /\ o[k].parent \in 1..(k-1)
       /\ \A d : d = directory_fds[o[k].parent] =>
            /\ directory_fds[k] \in past[d][o[k].name]
            /\ MayOpen(o[k].parent, o[k].name) => ~Undisturbed(d, o[k].name)
            /\ \A i \in 2..(k-1) : o[i] = o[k] => ~Undisturbed(d, o[k].name)

OpenedByInv ==
  /\ WalkInv /\ OneName(dirent) /\ QueueOfDifferent /\ ReturnedOnce
  /\ \E o : OpenedBy(o)

LEMMA OpenedByInit == Init => OpenedByInv
<1> SUFFICES ASSUME Init PROVE OpenedByInv
  OBVIOUS
<1>1. WalkInv
  BY KeptInvInit DEF KeptInv
<1>2. OneName(dirent)
  BY TreesAssumption DEF Init, FsInit
<1>3. QueueOfDifferent /\ ReturnedOnce
  BY DEF Init, QueueOfDifferent, ReturnedOnce, InStream, InEntry
<1>4. OpenedBy(<<>>)
  <2>1. directory_fds = <<>> /\ Len(directory_fds) = 0 /\ 2..0 = {}
    BY DEF Init
  <2>2. <<>> \in Seq(Opening) /\ Len(<<>>) = 0
    OBVIOUS
  <2> QED  BY <2>1, <2>2 DEF OpenedBy
<1> QED
  BY <1>1, <1>2, <1>3, <1>4 DEF OpenedByInv

LEMMA OpenedByStep ==
  ASSUME WalkInv, QueueOfDifferent, ReturnedOnce, [Next]_vars, NEW o, OpenedBy(o)
  PROVE  \E q : OpenedBy(q)'
<1>a. /\ TypeOK /\ Handles /\ Reading /\ Remembered /\ DirectoriesOpen
      /\ \A d \in Inode, n \in Name : past[d][n] \subseteq past'[d][n]
  <2>1. TypeOK /\ Handles /\ Reading /\ Remembered /\ DirectoriesOpen
    BY DEF WalkInv, SourceInv, DescriptorInv, Shape
  <2> QED  BY <2>1, PastStep
<1>b. /\ Len(directory_fds) \in Nat
      /\ DOMAIN directory_fds = 1..Len(directory_fds)
      /\ \A k \in 1..Len(directory_fds) : directory_fds[k] \in Inode
      /\ o \in Seq(Opening) /\ Len(o) = Len(directory_fds)
      /\ \A k \in 1..Len(o) : o[k].name \in Name /\ o[k].parent \in Nat
  <2>1. /\ directory_fds \in Seq(Inode)
        /\ o \in Seq(Opening) /\ Len(o) = Len(directory_fds)
    BY <1>a DEF TypeOK, OpenedBy
  <2>2. \A k \in 1..Len(o) : o[k] \in Opening
    BY <2>1
  <2> QED  BY <2>1, <2>2 DEF Opening
(* What is known of a directory held before the step is known after it.    *)
<1>c. ASSUME NEW k \in 2..Len(directory_fds), NEW fds, fds = directory_fds',
             \A j \in 1..Len(directory_fds) : fds[j] = directory_fds[j],
             NEW j, j = o[k].parent, NEW n, n = o[k].name, NEW d, d = directory_fds[j]
      PROVE  /\ j \in 1..(k-1) /\ d = fds[j]
             /\ fds[k] \in past'[d][n]
             /\ MayOpen(j, n)' => ~Undisturbed(d, n)'
             /\ \A i \in 2..(k-1) : o[i] = o[k] => ~Undisturbed(d, n)'
  <2>1. /\ k \in 1..Len(directory_fds) /\ k \in Nat
        /\ j \in 1..(k-1) /\ j \in 1..Len(directory_fds) /\ j \in DOMAIN directory_fds
    <3>1. j \in 1..(k-1)
      BY <1>c DEF OpenedBy
    <3> QED  BY <1>b, <3>1
  <2>2. d \in Inode /\ n \in Name /\ d = fds[j] /\ fds[k] = directory_fds[k]
    BY <1>b, <1>c, <2>1
  <2>3. /\ directory_fds[k] \in past[d][n]
        /\ MayOpen(j, n) => ~Undisturbed(d, n)
        /\ \A i \in 2..(k-1) : o[i] = o[k] => ~Undisturbed(d, n)
    BY <1>c DEF OpenedBy
  <2>4. ~Undisturbed(d, n) => ~Undisturbed(d, n)'
    BY <1>a, <2>2, UndisturbedBefore
  <2>5. MayOpen(j, n)' => MayOpen(j, n) \/ ~Undisturbed(d, n)'
    BY <1>a, <1>c, <2>1, <2>2, FewerToOpen
  <2> QED  BY <1>a, <2>1, <2>2, <2>3, <2>4, <2>5
<1>1. CASE UNCHANGED directory_fds
  <2> SUFFICES OpenedBy(o)'
    OBVIOUS
  <2>1. PICK fds : fds = directory_fds'
    OBVIOUS
  <2>2. \A j \in 1..Len(directory_fds) : fds[j] = directory_fds[j]
    BY <1>1, <2>1
  <2>3. ASSUME NEW k \in 2..Len(directory_fds), NEW j, j = o[k].parent,
               NEW n, n = o[k].name, NEW d, d = directory_fds[j]
        PROVE  /\ j \in 1..(k-1)
               /\ fds[k] \in past'[d][n]
               /\ MayOpen(j, n)' => ~Undisturbed(d, n)'
               /\ \A i \in 2..(k-1) : o[i] = o[k] => ~Undisturbed(d, n)'
    BY <1>c, <2>1, <2>2, <2>3
  <2> QED  BY <1>1, <1>b, <2>1, <2>3 DEF OpenedBy
<1>2. CASE directory_fds' = <<>> \/ Len(directory_fds') = 1
  <2>1. PICK q : q = [k \in 1..Len(directory_fds') |->
                        [parent |-> 1, name |-> entry.name]]
    OBVIOUS
  <2>2. Len(directory_fds') \in {0, 1}
    BY <1>2
  <2>3. q \in Seq(Opening) /\ Len(q) = Len(directory_fds')
    <3>1. [parent |-> 1, name |-> entry.name] \in Opening
      BY <1>a DEF TypeOK, Opening
    <3> QED  BY <2>1, <2>2, <3>1
  <2>4. 2..Len(directory_fds') = {}
    <3>1. \A l \in {0, 1} : 2..l = {}
      OBVIOUS
    <3> QED  BY <2>2, <3>1
  <2> QED  BY <2>3, <2>4 DEF OpenedBy
<1>3. CASE OpenatDirectory
  <2>1. PICK J, N, D, L : J = actual_entry.dir_fds_index /\ N = entry.name
                          /\ D = ParentInode /\ L = Len(directory_fds)
    OBVIOUS
  <2>2. PICK q, new, fds : /\ new = [parent |-> J, name |-> N] /\ q = Append(o, new)
                           /\ fds = directory_fds'
    OBVIOUS
  <2> SUFFICES OpenedBy(q)'
    OBVIOUS
  <2>3. /\ L \in Nat /\ L + 1 \in Nat /\ J \in 1..L /\ N \in Name /\ D \in Inode
        /\ D = directory_fds[J] /\ J \in DOMAIN directory_fds
        /\ pc \in InEntry /\ pc' = "readdir" /\ UNCHANGED <<fsVars, actual_entry, stream>>
    BY <1>3, <1>a, <1>b, <2>1 DEF OpenatDirectory, Reading, InStream, InEntry, TypeOK, ParentInode
  <2>4. /\ fds = Append(directory_fds, LookUp(N))
        /\ Len(fds) = L + 1 /\ fds[L+1] = LookUp(N)
        /\ \A j \in 1..L : fds[j] = directory_fds[j]
    <3>1. fds = Append(directory_fds, LookUp(N))
      BY <1>3, <2>1, <2>2 DEF OpenatDirectory, OpenedInode
    <3>2. directory_fds \in Seq(Inode)
      BY <1>a DEF TypeOK
    <3> QED  BY <2>1, <3>1, <3>2
  <2>5. /\ q \in Seq(Opening) /\ Len(q) = L + 1 /\ q[L+1] = new
        /\ \A j \in 1..L : q[j] = o[j]
    <3>1. new \in Opening
      BY <2>2, <2>3 DEF Opening
    <3> QED  BY <1>b, <2>1, <2>2, <3>1
  <2>6. \A k \in 2..(L+1) : k \in 2..L \/ k = L + 1
    BY ONLY <2>3
  <2>7. ASSUME NEW k \in 2..L, NEW d, d = fds[q[k].parent]
        PROVE  /\ q[k].parent \in 1..(k-1)
               /\ fds[k] \in past'[d][q[k].name]
               /\ MayOpen(q[k].parent, q[k].name)' => ~Undisturbed(d, q[k].name)'
               /\ \A i \in 2..(k-1) : q[i] = q[k] => ~Undisturbed(d, q[k].name)'
    <3>1. PICK j, n, e : j = o[k].parent /\ n = o[k].name /\ e = directory_fds[j]
      OBVIOUS
    <3>2. /\ k \in 1..L /\ \A i \in 2..(k-1) : i \in 1..L
      BY <2>3
    <3>3. q[k] = o[k] /\ \A i \in 2..(k-1) : q[i] = o[i]
      BY <2>5, <3>2
    <3>4. /\ j \in 1..(k-1) /\ e = fds[j]
          /\ fds[k] \in past'[e][n]
          /\ MayOpen(j, n)' => ~Undisturbed(e, n)'
          /\ \A i \in 2..(k-1) : o[i] = o[k] => ~Undisturbed(e, n)'
      <4>1. /\ k \in 2..Len(directory_fds) /\ fds = directory_fds'
            /\ \A i \in 1..Len(directory_fds) : fds[i] = directory_fds[i]
        BY <2>1, <2>2, <2>4
      <4> QED  BY <1>c, <3>1, <4>1
    <3>5. q[k].parent = j /\ q[k].name = n /\ d = e
      BY <2>7, <3>1, <3>3, <3>4
    <3>6. MayOpen(q[k].parent, q[k].name)' => MayOpen(j, n)'
      BY <3>5
    <3>7. ~Undisturbed(e, n)' => ~Undisturbed(d, q[k].name)'
      BY <3>5
    <3> QED  BY <3>3, <3>4, <3>5, <3>6, <3>7
  <2>8. MayOpen(J, N)
    BY <2>1, <2>3 DEF MayOpen
  <2>9. \A i \in 2..L : o[i] = new => ~Undisturbed(D, N)
    <3> SUFFICES ASSUME NEW i \in 2..L, o[i] = new PROVE ~Undisturbed(D, N)
      OBVIOUS
    <3>1. o[i].parent = J /\ o[i].name = N
      BY <2>2
    <3>2. i \in 2..Len(directory_fds) /\ D = directory_fds[o[i].parent]
      BY <2>1, <2>3, <3>1
    <3>3. MayOpen(o[i].parent, o[i].name) => ~Undisturbed(D, o[i].name)
      BY <3>2 DEF OpenedBy
    <3> QED  BY <2>8, <3>1, <3>3
  <2>10. Undisturbed(D, N)' = Undisturbed(D, N)
    BY <2>3 DEF fsVars, Undisturbed
  <2>11. ~Waiting(J)'
    <3>1. PICK record : /\ pending_directories' = Append(pending_directories, record)
                        /\ record.dir_fds_index = L + 1
      BY <1>3, <2>1 DEF OpenatDirectory
    <3>2. \A k \in DOMAIN pending_directories' :
            \/ k \in DOMAIN pending_directories /\ pending_directories'[k] = pending_directories[k]
            \/ pending_directories'[k] = record
      <4>1. pending_directories \in Seq(DirectoryRecord)
        BY <1>a DEF TypeOK
      <4> QED  BY <3>1, <4>1
    <3>3. J # L + 1
      BY ONLY <2>3
    <3>4. \A k \in DOMAIN pending_directories : pending_directories[k].dir_fds_index # J
      BY <2>1, <2>3 DEF QueueOfDifferent, InStream
    <3> QED  BY <2>3, <3>1, <3>2, <3>3, <3>4 DEF Waiting
  <2>12. MayOpen(J, N)' => ~Undisturbed(D, N)
    <3>1. MayOpen(J, N)' => N \in stream.must \cup stream.may
      BY <2>3, <2>11 DEF MayOpen, InEntry
    <3> QED  BY <2>1, <2>3, <3>1 DEF ReturnedOnce
  <2>13. LookUp(N) \in past'[D][N]
    <3>1. LookUp(N) = dirent[D][N]
      BY <2>1 DEF LookUp
    <3> QED  BY <1>a, <2>3, <3>1 DEF Remembered
  <2>14. ASSUME NEW k, k = L + 1, NEW d, d = fds[q[k].parent]
         PROVE  /\ q[k].parent \in 1..(k-1)
                /\ fds[k] \in past'[d][q[k].name]
                /\ MayOpen(q[k].parent, q[k].name)' => ~Undisturbed(d, q[k].name)'
                /\ \A i \in 2..(k-1) : q[i] = q[k] => ~Undisturbed(d, q[k].name)'
    <3>1. q[k].parent = J /\ q[k].name = N /\ q[k] = new
      BY <2>2, <2>5, <2>14
    <3>2. d = D
      BY <2>3, <2>4, <2>14, <3>1
    <3>3. k - 1 = L
      BY <2>3, <2>14
    <3>4. \A i \in 2..L : q[i] = o[i]
      BY <2>3, <2>5
    <3>5. ~Undisturbed(D, N) => ~Undisturbed(d, q[k].name)'
      BY <2>10, <3>1, <3>2
    <3>6. MayOpen(q[k].parent, q[k].name)' => MayOpen(J, N)'
      BY <3>1
    <3>7. fds[k] \in past'[d][q[k].name]
      BY <2>4, <2>13, <2>14, <3>1, <3>2
    <3>8. \A i \in 2..(k-1) : q[i] = q[k] => ~Undisturbed(d, q[k].name)'
      BY <2>9, <3>1, <3>3, <3>4, <3>5
    <3> QED  BY <2>3, <2>12, <3>1, <3>3, <3>5, <3>6, <3>7, <3>8
  <2> QED  BY <2>2, <2>4, <2>5, <2>6, <2>7, <2>14 DEF OpenedBy
<1>4. UNCHANGED directory_fds \/ directory_fds' = <<>> \/ Len(directory_fds') = 1 \/ OpenatDirectory
  <2> USE DEF walk, output
  <2>1. CASE UNCHANGED vars
    BY <2>1 DEF vars
  <2>2. CASE World \/ FinishDiscovery \/ OpenRoot \/ CollectMetadata
    BY <2>2 DEF World, FinishDiscovery, OpenRoot, CollectMetadata
  <2>3. CASE \E errno \in Errno : OpenRootFails(errno)
    BY <2>3 DEF OpenRootFails
  <2>4. CASE DirectoryStep
    BY <2>4 DEF DirectoryStep, DupFails, DupDirectory, PopDirectory,
       FdopendirFails, Fdopendir, Readdir, ReaddirEnds, ReaddirFails
  <2>5. CASE EntryStep
    BY <2>5 DEF EntryStep, StatxFails, StatxIncomplete, StatxUnknownType,
       StatxExcluded, StatxGoesOn, StatxSuffices, OpenatFails, ReadlinkFails,
       Readlink, RejectEntry
  <2> QED  BY <2>1, <2>2, <2>3, <2>4, <2>5 DEF Next, Done, ScannerStep
<1> QED
  BY <1>1, <1>2, <1>3, <1>4

LEMMA OpenedByInvStep == OpenedByInv /\ [Next]_vars => OpenedByInv'
<1> SUFFICES ASSUME OpenedByInv, [Next]_vars PROVE OpenedByInv'
  OBVIOUS
<1>1. /\ WalkInv /\ QueueOfDifferent /\ ReturnedOnce /\ OneName(dirent)
      /\ \E o : OpenedBy(o)
  BY DEF OpenedByInv
<1>2. TypeOK /\ Handles /\ Reading /\ Remembered
  BY <1>1 DEF WalkInv, SourceInv, DescriptorInv, Shape
<1>3. WalkInv'
  BY <1>1, KeptStep, SourceStep, LevelStep DEF WalkInv
<1>4. OneName(dirent')
  <2>1. CASE World
    BY <1>1, <1>2, <2>1, OneNameStep DEF World, TypeOK
  <2>2. CASE ~World
    <3>1. UNCHANGED dirent
      <4>1. CASE UNCHANGED vars
        BY <4>1 DEF vars, fsVars
      <4>2. CASE DirectoryStep
        BY <4>2 DEF DirectoryStep, DupFails, DupDirectory, PopDirectory,
           FdopendirFails, Fdopendir, Readdir, ReaddirEnds, ReaddirFails, fsVars
      <4>3. CASE EntryStep
        BY <4>3 DEF EntryStep, StatxFails, StatxIncomplete, StatxUnknownType,
           StatxExcluded, StatxGoesOn, StatxSuffices, OpenatFails,
           OpenatDirectory, ReadlinkFails, Readlink, RejectEntry, fsVars
      <4> QED
        BY <2>2, <4>1, <4>2, <4>3 DEF Next, Done, ScannerStep, OpenRootFails, OpenRoot,
           FinishDiscovery, CollectMetadata, fsVars
    <3> QED  BY <1>1, <3>1
  <2> QED  BY <2>1, <2>2
<1>5. QueueOfDifferent' /\ ReturnedOnce'
  BY <1>1, <1>2, QueueStep, ReturnedStep
<1>6. \E o : OpenedBy(o)'
  BY <1>1, OpenedByStep
<1> QED
  BY <1>3, <1>4, <1>5, <1>6 DEF OpenedByInv

(* Something happened to an entry that i is, or was, at or below.          *)
Moved(x) ==
  \E d \in DirInode, n \in Name :
    /\ ~Undisturbed(d, n)
    /\ \E i \in past[d][n] \ {NoInode} : x \in Subtree(i)

LEMMA TwiceMoved ==
  ASSUME OpenedByInv, NEW j \in DOMAIN directory_fds, NEW k \in DOMAIN directory_fds,
         j < k, directory_fds[j] = directory_fds[k]
  PROVE  Moved(directory_fds[k])
<1>1. /\ WalkInv /\ OneName(dirent) /\ TypeOK /\ FsTypeOK
      /\ DirectoriesOpen /\ Remembered /\ Handles /\ Kept
  BY DEF OpenedByInv, WalkInv, SourceInv, DescriptorInv, Shape, TypeOK
<1>2. PICK o : OpenedBy(o)
  BY DEF OpenedByInv
<1>3. PICK L, fds : L = Len(directory_fds) /\ fds = directory_fds
  OBVIOUS
<1>4. /\ L \in Nat /\ DOMAIN fds = 1..L
      /\ \A m \in 1..L : fds[m] \in DirInode /\ fds[m] \in Inode
      /\ j \in 1..L /\ k \in 1..L /\ fds[j] = fds[k]
  <2>1. fds \in Seq(DirInode)
    BY <1>1, <1>3 DEF DirectoriesOpen
  <2>2. DirInode \subseteq Inode
    BY DEF DirInode
  <2> QED  BY <1>3, <2>1, <2>2
<1>5. fds[1] = Root
  <2>1. directory_fds # <<>>
    BY <1>3, <1>4
  <2> QED  BY <1>1, <1>3, <2>1 DEF Handles, Kept
<1>6. /\ o \in Seq(Opening) /\ Len(o) = L
      /\ \A m \in 2..L : o[m].parent \in 1..(m-1) /\ o[m].name \in Name
      /\ \A m \in 2..L : o[m] = [parent |-> o[m].parent, name |-> o[m].name]
  <2>1. o \in Seq(Opening) /\ Len(o) = L
    BY <1>2, <1>3 DEF OpenedBy
  <2>2. \A m \in 2..L : o[m] \in Opening
    BY <1>4, <2>1
  <2> QED  BY <1>2, <1>3, <2>1, <2>2 DEF OpenedBy, Opening
<1>7. /\ DirInode \subseteq Inode /\ NoInode \notin Inode
      /\ \A d \in DirInode, n \in Name : dirent[d][n] \in past[d][n]
  BY <1>1 DEF DirInode, Remembered
(* An entry that is, or was, x. *)
<1>8. ASSUME NEW d \in DirInode, NEW n \in Name, NEW x \in DirInode, x \in past[d][n],
             ~Undisturbed(d, n)
      PROVE  Moved(x)
  <2>1. x \in Subtree(x) /\ x # NoInode
    BY <1>1, <1>7, <1>8, SubtreeClosed
  <2> QED  BY <1>8, <2>1 DEF Moved
<1>9. ASSUME NEW d \in DirInode, NEW n \in Name, NEW x \in DirInode, x \in past[d][n],
             Undisturbed(d, n)
      PROVE  dirent[d][n] = x
  BY <1>9 DEF Undisturbed
<1>10. ASSUME NEW d \in DirInode, NEW n \in Name, NEW x \in DirInode, dirent[d][n] = x,
              Moved(d)
       PROVE  Moved(x)
  <2>0. PICK e \in DirInode, m \in Name :
          ~Undisturbed(e, m) /\ \E i \in past[e][m] \ {NoInode} : d \in Subtree(i)
    BY <1>10 DEF Moved
  <2>1. PICK i \in past[e][m] \ {NoInode} : d \in Subtree(i)
    BY <2>0
  <2>2. i \in Inode
    BY <1>1, <1>7, <2>1 DEF FsTypeOK
  <2>3. x \in Subtree(i)
    BY <1>1, <1>7, <1>10, <2>1, <2>2, SubtreeClosed
  <2> QED  BY <2>0, <2>1, <2>3 DEF Moved
(* By induction on the later of the two. *)
<1> DEFINE T == {m \in Nat : \A a, b \in 1..L : a < b /\ b <= m /\ fds[a] = fds[b] => Moved(fds[b])}
<1>11. 0 \in T
  BY <1>4
<1>12. ASSUME NEW m \in Nat, m \in T PROVE m + 1 \in T
  <2>1. \A a, b \in 1..L : a < b /\ b <= m /\ fds[a] = fds[b] => Moved(fds[b])
    BY <1>12
  <2> SUFFICES ASSUME NEW a \in 1..L, NEW b \in 1..L, a < b, b <= m + 1, fds[a] = fds[b]
               PROVE  Moved(fds[b])
    OBVIOUS
  <2>2. PICK x : x = fds[b]
    OBVIOUS
  <2>3. b \in 2..L /\ x \in DirInode /\ fds[a] = x
    BY <1>4, <2>2
  <2>4. PICK q, n, e : q = o[b].parent /\ n = o[b].name /\ e = fds[q]
    OBVIOUS
  <2>5. /\ q \in 1..(b-1) /\ q \in 1..L /\ n \in Name /\ e \in DirInode
        /\ x \in past[e][n]
        /\ \A i \in 2..(b-1) : o[i] = o[b] => ~Undisturbed(e, n)
    <3>1. q \in 1..(b-1) /\ n \in Name
      BY <1>6, <2>3, <2>4
    <3>2. q \in 1..L
      BY <1>4, <2>3, <3>1
    <3>3. e \in DirInode
      BY <1>4, <2>4, <3>2
    <3>4. /\ b \in 2..Len(directory_fds) /\ x = directory_fds[b]
          /\ e = directory_fds[o[b].parent]
      BY <1>3, <2>2, <2>3, <2>4
    <3>5. /\ x \in past[e][n]
          /\ \A i \in 2..(b-1) : o[i] = o[b] => ~Undisturbed(e, n)
      BY <1>2, <2>4, <3>4 DEF OpenedBy
    <3> QED  BY <3>1, <3>2, <3>3, <3>5
  <2>6. CASE ~Undisturbed(e, n)
    BY <1>8, <2>2, <2>3, <2>5, <2>6
  <2>7. CASE Undisturbed(e, n)
    <3>1. dirent[e][n] = x
      BY <1>9, <2>3, <2>5, <2>7
    <3>2. x # Root
      BY <1>1, <2>3, <2>5, <3>1 DEF OneName
    <3>3. a \in 2..L
      BY <1>4, <1>5, <2>3, <3>2
    <3>4. PICK q2, n2, e2 : q2 = o[a].parent /\ n2 = o[a].name /\ e2 = fds[q2]
      OBVIOUS
    <3>5. /\ q2 \in 1..(a-1) /\ q2 \in 1..L /\ n2 \in Name /\ e2 \in DirInode
          /\ x \in past[e2][n2]
      <4>1. q2 \in 1..(a-1) /\ n2 \in Name
        BY <1>6, <3>3, <3>4
      <4>2. q2 \in 1..L
        BY <1>4, <3>3, <4>1
      <4> QED  BY <1>2, <1>3, <1>4, <2>3, <3>3, <3>4, <4>1, <4>2 DEF OpenedBy
    <3>6. CASE ~Undisturbed(e2, n2)
      BY <1>8, <2>2, <2>3, <3>5, <3>6
    <3>7. CASE Undisturbed(e2, n2)
      <4>1. dirent[e2][n2] = x
        BY <1>9, <2>3, <3>5, <3>7
      <4>2. e2 = e /\ n2 = n
        BY <1>1, <2>3, <2>5, <3>1, <3>5, <4>1 DEF OneName
      <4>3. q2 # q
        <5> SUFFICES ASSUME q2 = q PROVE FALSE
          OBVIOUS
        <5>1. o[a] = o[b]
          BY <1>6, <2>3, <2>4, <3>3, <3>4, <4>2
        <5>2. a \in 2..(b-1)
          BY <2>3, <3>3
        <5> QED  BY <2>5, <2>7, <5>1, <5>2
      <4>4. Moved(e)
        <5>1. /\ q2 < q => q2 < q /\ q <= m /\ fds[q2] = fds[q]
              /\ q < q2 => q < q2 /\ q2 <= m /\ fds[q] = fds[q2]
              /\ q < q2 \/ q2 < q
          <6>1. fds[q] = fds[q2]
            BY <2>4, <3>4, <4>2
          <6>2. /\ a \in Nat /\ b \in Nat /\ q \in Nat /\ q2 \in Nat /\ q < b /\ q2 < a
            BY <2>3, <2>5, <3>3, <3>5
          <6>3. (q < q2 \/ q2 < q) /\ q <= m /\ q2 <= m
            BY ONLY <6>2, <4>3, a < b, b <= m + 1, m \in Nat
          <6> QED  BY <6>1, <6>3
        <5>2. Moved(fds[q]) \/ Moved(fds[q2])
          BY <2>1, <2>5, <3>5, <5>1
        <5> QED  BY <2>4, <3>4, <4>2, <5>2
      <4> QED  BY <1>10, <2>2, <2>3, <2>5, <3>1, <4>4
    <3> QED  BY <3>6, <3>7
  <2> QED  BY <2>6, <2>7
<1>13. Nat \subseteq T
  <2> HIDE DEF T
  <2> QED  BY <1>11, <1>12, SetInduction
<1>14. k \in T
  BY <1>4, <1>13
<1> QED
  BY <1>3, <1>4, <1>14

(* A directory is read twice only if something was moved, removed or put   *)
(* back at, above or around it: for any tree in which a directory has one  *)
(* name, and any number of changes.                                        *)
THEOREM NoneReadTwice == Spec => []ReadTwiceOnlyIfMoved
<1>1. OpenedByInv => ReadTwiceOnlyIfMoved
  BY TwiceMoved DEF ReadTwiceOnlyIfMoved, Moved
<1> QED
  BY <1>1, OpenedByInit, OpenedByInvStep, PTL DEF Spec
=============================================================================
