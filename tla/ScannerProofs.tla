--------------------------- MODULE ScannerProofs ---------------------------
(***************************************************************************)
(* What TLAPS proves about Scanner, for every tree, option set, limit and  *)
(* number of changes.                                                      *)
(***************************************************************************)
EXTENDS Scanner, SequenceTheorems, FiniteSetTheorems, TLAPS

USE FileSystemAssumption, ScannerAssumption

(* Whatever other processes do, the filesystem stays a filesystem. *)
LEMMA FsStep ==
  FsTypeOK /\ FsChange => FsTypeOK'
<1> SUFFICES ASSUME FsTypeOK, FsChange PROVE FsTypeOK'
  OBVIOUS
<1> USE DEF FsTypeOK, DirInode
<1>1. ASSUME NEW tree \in Entries, Rewrite(tree), UNCHANGED denied,
             changes < MaxChanges
      PROVE  FsTypeOK'
  BY <1>1 DEF Rewrite, Entries
<1>2. ASSUME NEW d \in DirInode, NEW n \in Name, NEW i \in Inode, Create(d, n, i)
      PROVE  FsTypeOK'
  <2>1. [dirent EXCEPT ![d][n] = i] \in Entries
    BY DEF Entries
  <2> QED  BY <1>1, <1>2, <2>1 DEF Create, FsChange
<1>3. ASSUME NEW d \in DirInode, NEW n \in Name, Remove(d, n)
      PROVE  FsTypeOK'
  <2>1. [dirent EXCEPT ![d][n] = NoInode] \in Entries
    BY DEF Entries
  <2> QED  BY <1>1, <1>3, <2>1 DEF Remove, FsChange
<1>4. ASSUME NEW d \in DirInode, NEW n \in Name, NEW e \in DirInode,
             NEW m \in Name, Rename(d, n, e, m)
      PROVE  FsTypeOK'
  <2> DEFINE without == [dirent EXCEPT ![d][n] = NoInode]
             moved   == [without EXCEPT ![e][m] = dirent[d][n]]
  <2>1. dirent[d][n] \in Inode \cup {NoInode} /\ without \in Entries
    BY DEF Entries
  <2>2. moved \in Entries
    <3> HIDE DEF without
    <3> QED  BY <2>1 DEF Entries
  <2>3. moved = [dirent EXCEPT ![d][n] = NoInode, ![e][m] = dirent[d][n]]
    OBVIOUS
  <2> QED  BY <1>1, <1>4, <2>2, <2>3 DEF Rename, FsChange
<1>5. ASSUME NEW d \in DirInode, ChangeMode(d)
      PROVE  FsTypeOK'
  BY <1>5 DEF ChangeMode, FsChange
<1> QED
  BY <1>2, <1>3, <1>4, <1>5 DEF FsChange

---------------------------------------------------------------------------

LEMMA FunctionIsSequence ==
  ASSUME NEW S, NEW n \in Nat, NEW g \in [1..n -> S]
  PROVE  g \in Seq(S)
OBVIOUS

LEMMA TypeInit == Init => TypeOK
<1> SUFFICES ASSUME Init PROVE TypeOK
  OBVIOUS
<1>1. FsTypeOK
  BY DEF Init, FsInit, FsTypeOK, Entries
<1>2. (CHOOSE n \in Name : TRUE) \in Name
  <2>1. \E n \in Name : TRUE
    OBVIOUS
  <2> QED  BY <2>1, Zenon
<1>3. actual_entry \in DirectoryRecord
  BY DEF Init, DirectoryRecord
<1>4. entry \in [name : Name, inode : Inode \cup {NoInode}]
  BY <1>2 DEF Init
<1>5. options \in ScanOptions /\ fd_limit \in Nat
  BY DEF Init
<1>6. stream \in [must : SUBSET Name, may : SUBSET Name]
  BY DEF Init, ClosedStream
<1> QED
  BY <1>1, <1>3, <1>4, <1>5, <1>6 DEF Init, TypeOK, ErrorCode

(* TypeOK is not inductive alone.  One duplicate is held exactly while a   *)
(* directory is being read, else closing a stream could make the count     *)
(* negative; and the calls that follow statx have its result in hand.      *)
OneStream == dup_fds = IF pc \in InStream THEN 1 ELSE 0
StatxDone == pc \in {"openat", "readlinkat"} => entry.inode \in Inode
Shape == TypeOK /\ OneStream /\ StatxDone

(* The shape of every primed variable that an action builds. *)
LEMMA TypeStep ==
  Shape /\ [Next]_vars => TypeOK'
<1> SUFFICES ASSUME Shape, [Next]_vars PROVE TypeOK'
  OBVIOUS
<1> USE DEF Shape, TypeOK, given, walk, output, fsVars, FsTypeOK
<1>1. CASE UNCHANGED vars
  BY <1>1 DEF vars
<1>2. ASSUME NEW errno \in Errno, OpenRootFails(errno) PROVE TypeOK'
  BY <1>2 DEF OpenRootFails, RootError, ErrorCode, Terminal
<1>3. CASE OpenRoot
  BY <1>3 DEF OpenRoot, DirInode, DirectoryRecord
<1>4. ASSUME PopDirectory
      PROVE  /\ FsTypeOK' /\ actual_entry' \in DirectoryRecord
             /\ pending_directories' \in Seq(DirectoryRecord)
             /\ UNCHANGED <<given, error, directory_fds, directory_paths,
                            stream, entry, candidates, visited_count,
                            discovered_count, excluded_count, items>>
  BY <1>4, HeadTailProperties DEF PopDirectory
<1>5. CASE DupFails
  <2>1. PopDirectory
    BY <1>5 DEF DupFails
  <2>2. issues' \in Seq(ScanIssue)
    BY <1>4, <1>5, <2>1 DEF DupFails, AddIssue, ScanIssue, IssueCode, Errno,
       DirectoryRecord
  <2> QED  BY <1>4, <1>5, <2>1, <2>2 DEF DupFails
<1>6. CASE DupDirectory
  <2>1. PopDirectory
    BY <1>6 DEF DupDirectory
  <2> QED  BY <1>4, <1>6, <2>1 DEF DupDirectory
<1>7. CASE FdopendirFails
  <2>1. issues' \in Seq(ScanIssue)
    BY <1>7 DEF FdopendirFails, AddIssue, ScanIssue, IssueCode, Errno, DirectoryRecord
  <2> QED  BY <1>7, <2>1 DEF FdopendirFails, CloseStream, ClosedStream, OneStream, InStream
<1>8. CASE Fdopendir
  BY <1>8 DEF Fdopendir
<1>9. ASSUME NEW n \in Name, Readdir(n) PROVE TypeOK'
  BY <1>9 DEF Readdir, InEntry
<1>10. CASE ReaddirEnds
  BY <1>10 DEF ReaddirEnds, CloseStream, ClosedStream, OneStream, InStream
<1>11. CASE ReaddirFails
  <2>1. issues' \in Seq(ScanIssue)
    BY <1>11 DEF ReaddirFails, AddIssue, ScanIssue, IssueCode, Errno, DirectoryRecord
  <2> QED  BY <1>11, <2>1 DEF ReaddirFails, CloseStream, ClosedStream, OneStream, InStream
<1>12. FullPath(entry.name) \in Seq(Name)
  BY DEF FullPath, DirectoryRecord
<1>13. ASSUME NEW code \in IssueCode, NEW errno \in Errno,
              RejectEntry(code, errno),
              entry' \in [name : Name, inode : Inode \cup {NoInode}],
              excluded_count' \in Nat
       PROVE  TypeOK'
  BY <1>12, <1>13 DEF RejectEntry, AddIssue, ScanIssue
<1>14. ASSUME NEW i \in Inode, StatxSees(i)
       PROVE  /\ entry' \in [name : Name, inode : Inode \cup {NoInode}]
              /\ entry'.inode = i /\ entry'.name = entry.name
  BY <1>14 DEF StatxSees
<1>15. ASSUME NEW errno \in Errno, StatxFails(errno) PROVE TypeOK'
  BY <1>13, <1>15 DEF StatxFails, IssueCode
<1>16. CASE StatxIncomplete
  BY <1>13, <1>14, <1>16 DEF StatxIncomplete, IssueCode, Errno
<1>17. CASE StatxUnknownType
  BY <1>13, <1>14, <1>17 DEF StatxUnknownType, IssueCode, Errno
<1>18. CASE StatxExcluded
  <2>1. /\ RejectEntry("pseudo_filesystem_excluded", "0")
        /\ excluded_count' \in Nat
        /\ \E i \in Inode : StatxSees(i)
    BY <1>18 DEF StatxExcluded
  <2>2. "pseudo_filesystem_excluded" \in IssueCode /\ "0" \in Errno
    BY DEF IssueCode, Errno
  <2> QED  BY <1>13, <1>14, <2>1, <2>2
<1>19. CASE StatxGoesOn
  BY <1>14, <1>19 DEF StatxGoesOn, InEntry
<1>20. ASSUME NEW target \in Inode \cup {NoInode}, AddCandidate(target),
              entry'.inode \in Inode, entry'.name = entry.name
       PROVE  candidates' \in Seq(CandidateEntry)
  BY <1>12, <1>20 DEF AddCandidate, CandidateEntry, DirectoryRecord
<1>21. CASE StatxSuffices
  BY <1>14, <1>20, <1>21 DEF StatxSuffices
<1>22. ASSUME NEW errno \in Errno, OpenatFails(errno) PROVE TypeOK'
  BY <1>13, <1>22 DEF OpenatFails, OpenatIssue, IssueCode
<1>23. CASE OpenatDirectory
  <2>1. candidates' \in Seq(CandidateEntry)
    BY <1>20, <1>23 DEF OpenatDirectory, StatxDone
  <2>2. directory_fds' \in Seq(Inode)
    BY <1>23 DEF OpenatDirectory, DirInode
  <2>3. pending_directories' \in Seq(DirectoryRecord)
    BY <1>12, <1>23 DEF OpenatDirectory, DirectoryRecord
  <2> QED  BY <1>12, <1>23, <2>1, <2>2, <2>3 DEF OpenatDirectory
<1>24. CASE ReadlinkFails
  <2>1. candidates' \in Seq(CandidateEntry)
    BY <1>20, <1>24 DEF ReadlinkFails, StatxDone
  <2>2. issues' \in Seq(ScanIssue)
    <3>1. PICK code \in IssueCode, errno \in Errno :
            AddIssue(code, FullPath(entry.name), errno, "link")
      <4>1. ReadlinkErrno \subseteq Errno
        BY DEF ReadlinkErrno, Errno
      <4> QED  BY <1>24, <4>1 DEF ReadlinkFails, IssueCode, Errno
    <3> QED  BY <1>12, <3>1 DEF AddIssue, ScanIssue
  <2> QED  BY <1>24, <2>1, <2>2 DEF ReadlinkFails
<1>25. CASE Readlink
  <2>1. candidates' \in Seq(CandidateEntry)
    BY <1>20, <1>25 DEF Readlink, StatxDone
  <2> QED  BY <1>25, <2>1 DEF Readlink
<1>26. CASE FinishDiscovery
  BY <1>26 DEF FinishDiscovery
<1>27. CASE CollectMetadata
  <2>1. items' \in Seq(AuditItem)
    <3>1. \A c \in CandidateEntry : ItemOf(c) \in AuditItem
      BY DEF ItemOf, CandidateEntry, AuditItem
    <3>2. items' \in [1..Len(candidates) -> AuditItem]
      BY <1>27, <3>1 DEF CollectMetadata
    <3>3. Len(candidates) \in Nat
      OBVIOUS
    <3> QED  BY <3>2, <3>3, FunctionIsSequence
  <2> QED  BY <1>27, <2>1 DEF CollectMetadata, Terminal
<1>28. CASE World
  <2>1. FsTypeOK'
    BY <1>28, FsStep DEF World
  <2>2. stream' \in [must : SUBSET Name, may : SUBSET Name]
    BY <1>28 DEF World, StreamFollows
  <2> QED  BY <1>28, <2>1, <2>2 DEF World
<1>29. CASE DirectoryStep
  BY <1>5, <1>6, <1>7, <1>8, <1>9, <1>10, <1>11, <1>29 DEF DirectoryStep
<1>30. CASE EntryStep
  BY <1>15, <1>16, <1>17, <1>18, <1>19, <1>21, <1>22, <1>23, <1>24, <1>25,
     <1>30 DEF EntryStep
<1>31. CASE ScannerStep
  BY <1>2, <1>3, <1>26, <1>27, <1>29, <1>30, <1>31 DEF ScannerStep
<1> QED
  BY <1>1, <1>28, <1>31 DEF Next, Done

(* The rest of Shape, from the guards that TypeOK does not see. *)
LEMMA ShapeStep ==
  Shape /\ [Next]_vars => Shape'
<1> SUFFICES ASSUME Shape, [Next]_vars PROVE OneStream' /\ StatxDone'
  BY TypeStep DEF Shape
<1> USE DEF Shape, OneStream, StatxDone, InStream, InEntry
<1>1. CASE UNCHANGED vars
  BY <1>1 DEF vars
<1>2. CASE DirectoryStep
  BY <1>2 DEF DirectoryStep, DupFails, DupDirectory, PopDirectory,
     FdopendirFails, Fdopendir, Readdir, ReaddirEnds, ReaddirFails, CloseStream,
     TypeOK
<1>3. CASE EntryStep
  BY <1>3 DEF EntryStep, StatxFails, StatxIncomplete, StatxUnknownType,
     StatxExcluded, StatxGoesOn, StatxSuffices, StatxSees, OpenatFails,
     OpenatDirectory, ReadlinkFails, Readlink, RejectEntry, TypeOK
<1>4. CASE ScannerStep
  BY <1>2, <1>3, <1>4 DEF ScannerStep, OpenRootFails, OpenRoot,
     FinishDiscovery, CollectMetadata
<1>5. CASE World
  BY <1>5 DEF World
<1> QED
  BY <1>1, <1>4, <1>5 DEF Next, Done

LEMMA ShapeInit == Init => Shape
BY TypeInit DEF Init, Shape, OneStream, StatxDone, InStream, InEntry

(* Every variable keeps its type, in every behaviour of the scanner. *)
THEOREM TypeCorrect == Spec => []TypeOK
<1>1. Spec => []Shape
  BY ShapeInit, ShapeStep, PTL DEF Spec
<1>2. Shape => TypeOK
  BY DEF Shape
<1> QED
  BY <1>1, <1>2, PTL

---------------------------------------------------------------------------

(* IssuesAt of any sequence, so that it can be used of issues'.             *)
At(s, site) == {k \in DOMAIN s : s[k].site = site}

LEMMA SiteCount ==
  ASSUME NEW s \in Seq(ScanIssue), NEW site
  PROVE  Cardinality(At(s, site)) \in Nat
<1>1. DOMAIN s = 1..Len(s) /\ Len(s) \in Nat
  OBVIOUS
<1>2. IsFiniteSet(DOMAIN s)
  <2>1. 1 \in Int /\ Len(s) \in Int
    BY <1>1
  <2>2. IsFiniteSet(1..Len(s))
    BY ONLY <2>1, FS_Interval
  <2> QED  BY <1>1, <2>2
<1>3. At(s, site) \subseteq DOMAIN s
  BY DEF At
<1> QED
  BY <1>2, <1>3, FS_Subset, FS_CardinalityType

LEMMA Counts ==
  ASSUME issues \in Seq(ScanIssue)
  PROVE  /\ \A site : /\ IsFiniteSet(IssuesAt(site))
                       /\ Cardinality(IssuesAt(site)) \in Nat
         /\ IsFiniteSet(UnreadDirectories)
         /\ Cardinality(UnreadDirectories) \in Nat
<1>1. IsFiniteSet(DOMAIN issues)
  <2>1. DOMAIN issues = 1..Len(issues) /\ Len(issues) \in Nat
    OBVIOUS
  <2> QED  BY <2>1, FS_Interval
<1>2. \A site : IssuesAt(site) \subseteq DOMAIN issues
  BY DEF IssuesAt
<1>3. UnreadDirectories \subseteq DOMAIN issues
  BY DEF UnreadDirectories
<1> QED
  BY <1>1, <1>2, <1>3, FS_Subset, FS_CardinalityType

(* An issue added counts once, at its own site. *)
LEMMA IssueAdded ==
  ASSUME issues \in Seq(ScanIssue),
         NEW code, NEW path, NEW errno, NEW at,
         AddIssue(code, path, errno, at)
  PROVE  /\ \A site : Cardinality(IssuesAt(site)') =
                       Cardinality(IssuesAt(site)) + (IF site = at THEN 1 ELSE 0)
         /\ Cardinality(UnreadDirectories') =
              Cardinality(UnreadDirectories) +
              (IF at = "directory" /\ code = "directory_open_failed" THEN 1 ELSE 0)
<1> DEFINE new == Len(issues) + 1
           issue == [code |-> code, path |-> path, system_error |-> errno, site |-> at]
<1>1. /\ Len(issues) \in Nat
      /\ DOMAIN issues = 1..Len(issues)
      /\ DOMAIN issues' = 1..new
      /\ \A k \in DOMAIN issues : issues'[k] = issues[k]
      /\ issues'[new] = issue
  BY DEF AddIssue
<1>2. new \notin DOMAIN issues
  BY <1>1
<1>3. ASSUME NEW site
      PROVE  Cardinality(IssuesAt(site)') =
               Cardinality(IssuesAt(site)) + (IF site = at THEN 1 ELSE 0)
  <2>1. IssuesAt(site)' = IssuesAt(site) \cup (IF site = at THEN {new} ELSE {})
    BY <1>1 DEF IssuesAt
  <2>2. new \notin IssuesAt(site)
    BY <1>2 DEF IssuesAt
  <2>3. CASE site = at
    <3>1. IssuesAt(site)' = IssuesAt(site) \cup {new}
      BY <2>1, <2>3
    <3> QED  BY <2>2, <2>3, <3>1, Counts, FS_AddElement
  <2>4. CASE site # at
    <3>1. IssuesAt(site)' = IssuesAt(site)
      BY <2>1, <2>4
    <3> QED  BY <2>4, <3>1, Counts
  <2> QED  BY <2>3, <2>4
<1>4. Cardinality(UnreadDirectories') =
        Cardinality(UnreadDirectories) +
        (IF at = "directory" /\ code = "directory_open_failed" THEN 1 ELSE 0)
  <2>1. UnreadDirectories' = UnreadDirectories \cup
          (IF at = "directory" /\ code = "directory_open_failed" THEN {new} ELSE {})
    BY <1>1 DEF UnreadDirectories
  <2>2. new \notin UnreadDirectories
    BY <1>2 DEF UnreadDirectories
  <2>3. CASE at = "directory" /\ code = "directory_open_failed"
    <3>1. UnreadDirectories' = UnreadDirectories \cup {new}
      BY <2>1, <2>3
    <3> QED  BY <2>2, <2>3, <3>1, Counts, FS_AddElement
  <2>4. CASE ~(at = "directory" /\ code = "directory_open_failed")
    <3>1. UnreadDirectories' = UnreadDirectories
      BY <2>1, <2>4
    <3> QED  BY <2>4, <3>1, Counts
  <2> QED  BY <2>3, <2>4
<1> QED
  BY <1>3, <1>4

(* Before the root is open there is no descriptor to account for. *)
Unopened == pc = "open" => directory_fds = <<>>

Books == Shape /\ Unopened /\ EntryAccounting /\ DirectoryAccounting

LEMMA BooksInit == Init => Books
<1> SUFFICES ASSUME Init PROVE Unopened /\ EntryAccounting /\ DirectoryAccounting
  BY ShapeInit DEF Books
<1>1. IssuesAt("entry") = {} /\ UnreadDirectories = {}
  BY DEF Init, IssuesAt, UnreadDirectories
<1>2. Cardinality(IssuesAt("entry")) = 0 /\ Cardinality(UnreadDirectories) = 0
  BY <1>1, FS_EmptySet
<1> QED
  BY <1>2 DEF Init, Unopened, EntryAccounting,
     DirectoryAccounting, Reported, InEntry

(* One step for each way an action can touch the two accounts. *)
LEMMA BooksStep ==
  Books /\ [Next]_vars => Books'
<1> SUFFICES ASSUME Books, [Next]_vars
             PROVE  Unopened' /\ EntryAccounting' /\ DirectoryAccounting'
  BY ShapeStep DEF Books
<1>a. TypeOK /\ TypeOK'
  BY TypeStep DEF Books, Shape
<1>b. /\ issues \in Seq(ScanIssue)
      /\ Len(directory_fds) \in Nat /\ Len(pending_directories) \in Nat
      /\ Len(candidates) \in Nat /\ Len(items) \in Nat
      /\ visited_count \in Nat /\ discovered_count \in Nat
      /\ Cardinality(IssuesAt("entry")) \in Nat
      /\ Cardinality(UnreadDirectories) \in Nat
  <2>1. issues \in Seq(ScanIssue)
    BY <1>a DEF TypeOK
  <2>2. Cardinality(IssuesAt("entry")) \in Nat /\ Cardinality(UnreadDirectories) \in Nat
    BY <2>1, Counts
  <2>3. /\ Len(directory_fds) \in Nat /\ Len(pending_directories) \in Nat
        /\ Len(candidates) \in Nat /\ Len(items) \in Nat
    BY <1>a, LenProperties DEF TypeOK
  <2> QED  BY <1>a, <2>1, <2>2, <2>3 DEF TypeOK
<1>c. ASSUME UNCHANGED issues
      PROVE  IssuesAt("entry")' = IssuesAt("entry") /\ UnreadDirectories' = UnreadDirectories
  BY <1>c DEF IssuesAt, UnreadDirectories
<1> USE DEF Unopened, EntryAccounting, DirectoryAccounting, Reported, InEntry,
        output, walk
<1>1. CASE UNCHANGED vars
  BY <1>1, <1>c DEF Books, vars
<1>2. ASSUME NEW errno \in Errno, OpenRootFails(errno)
      PROVE  Unopened' /\ EntryAccounting' /\ DirectoryAccounting'
  BY <1>2, <1>c DEF Books, OpenRootFails
<1>3. CASE OpenRoot
  <2>1. Len(directory_fds') = 1 /\ Len(pending_directories') = 1
    BY <1>3 DEF OpenRoot
  <2> QED  BY <1>3, <1>b, <1>c, <2>1 DEF Books, OpenRoot
<1>4. ASSUME PopDirectory PROVE Len(pending_directories') = Len(pending_directories) - 1
  BY <1>4, <1>a, HeadTailProperties DEF PopDirectory, TypeOK
<1>5. CASE DupFails
  <2>1. PICK path : AddIssue("directory_open_failed", path, "EMFILE", "directory")
    BY <1>5 DEF DupFails
  <2>2. /\ Cardinality(IssuesAt("entry")') = Cardinality(IssuesAt("entry"))
        /\ Cardinality(UnreadDirectories') = Cardinality(UnreadDirectories) + 1
    BY <1>b, <2>1, IssueAdded
  <2>3. Len(pending_directories') = Len(pending_directories) - 1
    BY <1>4, <1>5 DEF DupFails
  <2> QED  BY <1>5, <1>b, <2>2, <2>3 DEF Books, DupFails, PopDirectory
<1>6. CASE DupDirectory
  <2>1. Len(pending_directories') = Len(pending_directories) - 1
    BY <1>4, <1>6 DEF DupDirectory
  <2> QED  BY <1>6, <1>b, <1>c, <2>1 DEF Books, DupDirectory, PopDirectory
<1>7. CASE FdopendirFails
  <2>1. PICK path : AddIssue("directory_open_failed", path, "ENOMEM", "directory")
    BY <1>7 DEF FdopendirFails
  <2>2. /\ Cardinality(IssuesAt("entry")') = Cardinality(IssuesAt("entry"))
        /\ Cardinality(UnreadDirectories') = Cardinality(UnreadDirectories) + 1
    BY <1>b, <2>1, IssueAdded
  <2>3. /\ pc = "fdopendir" /\ pc' = "dup"
        /\ UNCHANGED <<walk, candidates, visited_count, discovered_count, items>>
    BY <1>7 DEF FdopendirFails, CloseStream
  <2>4. Unopened' /\ EntryAccounting'
    BY <1>b, <2>2, <2>3 DEF Books
  <2>5. DirectoryAccounting'
    BY <1>b, <2>2, <2>3 DEF Books
  <2> QED  BY <2>4, <2>5
<1>8. CASE Fdopendir
  BY <1>8, <1>b, <1>c DEF Books, Fdopendir
<1>9. ASSUME NEW n \in Name, Readdir(n)
      PROVE  Unopened' /\ EntryAccounting' /\ DirectoryAccounting'
  BY <1>9, <1>b, <1>c DEF Books, Readdir
<1>10. CASE ReaddirEnds
  BY <1>10, <1>b, <1>c DEF Books, ReaddirEnds, CloseStream
<1>11. CASE ReaddirFails
  <2>1. PICK path : AddIssue("directory_read_failed", path, "EIO", "directory")
    BY <1>11 DEF ReaddirFails
  <2>2. /\ Cardinality(IssuesAt("entry")') = Cardinality(IssuesAt("entry"))
        /\ Cardinality(UnreadDirectories') = Cardinality(UnreadDirectories)
    BY <1>b, <2>1, IssueAdded
  <2> QED  BY <1>11, <1>b, <2>2 DEF Books, ReaddirFails, CloseStream
<1>12. ASSUME NEW code, NEW errno, RejectEntry(code, errno), pc \in InEntry
       PROVE  Unopened' /\ EntryAccounting' /\ DirectoryAccounting'
  <2>1. /\ Cardinality(IssuesAt("entry")') = Cardinality(IssuesAt("entry")) + 1
        /\ Cardinality(UnreadDirectories') = Cardinality(UnreadDirectories)
    BY <1>b, <1>12, IssueAdded DEF RejectEntry
  <2> QED  BY <1>12, <1>b, <2>1 DEF Books, RejectEntry
<1>13. ASSUME NEW errno \in Errno, StatxFails(errno) \/ OpenatFails(errno)
       PROVE  Unopened' /\ EntryAccounting' /\ DirectoryAccounting'
  BY <1>12, <1>13 DEF StatxFails, OpenatFails
<1>14. CASE StatxIncomplete \/ StatxUnknownType \/ StatxExcluded
  BY <1>12, <1>14 DEF StatxIncomplete, StatxUnknownType, StatxExcluded, StatxSees
<1>15. CASE StatxGoesOn
  BY <1>15, <1>b, <1>c DEF Books, StatxGoesOn, StatxSees
<1>16. ASSUME NEW target, AddCandidate(target)
       PROVE  Len(candidates') = Len(candidates) + 1
  BY <1>16, <1>a DEF AddCandidate, TypeOK
<1>17. CASE StatxSuffices
  <2>a. Len(candidates') = Len(candidates) + 1
    BY <1>16, <1>17 DEF StatxSuffices
  <2> QED  BY <2>a, <1>17, <1>b, <1>c DEF Books, StatxSuffices, StatxSees
<1>18. CASE OpenatDirectory
  <2>a. Len(candidates') = Len(candidates) + 1
    BY <1>16, <1>18 DEF OpenatDirectory
  <2>1. /\ Len(directory_fds') = Len(directory_fds) + 1
        /\ Len(pending_directories') = Len(pending_directories) + 1
    BY <1>18, <1>a DEF OpenatDirectory, TypeOK
  <2>2. /\ pc = "openat" /\ pc' = "readdir"
        /\ UNCHANGED <<issues, visited_count, discovered_count, items>>
    BY <1>18 DEF OpenatDirectory
  <2>3. EntryAccounting'
    BY <2>a, <1>b, <1>c, <2>2 DEF Books
  <2>4. DirectoryAccounting'
    <3>1. Cardinality(UnreadDirectories') = Cardinality(UnreadDirectories)
      BY <1>c, <2>2
    <3>2. Len(directory_fds) = visited_count + Cardinality(UnreadDirectories)
                               + Len(pending_directories)
      BY <1>b, <2>2 DEF Books
    <3> QED  BY <1>b, <2>1, <2>2, <3>1, <3>2
  <2> QED  BY <2>2, <2>3, <2>4
<1>19. CASE ReadlinkFails
  <2>a. Len(candidates') = Len(candidates) + 1
    BY <1>16, <1>19 DEF ReadlinkFails
  <2>1. PICK code, path, errno : AddIssue(code, path, errno, "link")
    BY <1>19 DEF ReadlinkFails
  <2>2. /\ Cardinality(IssuesAt("entry")') = Cardinality(IssuesAt("entry"))
        /\ Cardinality(UnreadDirectories') = Cardinality(UnreadDirectories)
    BY <1>b, <2>1, IssueAdded
  <2> QED  BY <2>a, <1>19, <1>b, <2>2 DEF Books, ReadlinkFails
<1>20. CASE Readlink
  <2>a. Len(candidates') = Len(candidates) + 1
    BY <1>16, <1>20 DEF Readlink
  <2> QED  BY <2>a, <1>20, <1>b, <1>c DEF Books, Readlink
<1>21. CASE FinishDiscovery
  BY <1>21, <1>b, <1>c DEF Books, FinishDiscovery
<1>22. CASE CollectMetadata
  <2>1. Len(items') = Len(candidates)
    <3>1. DOMAIN items' = 1..Len(candidates) /\ items' \in Seq(AuditItem)
      BY <1>22, <1>a DEF CollectMetadata, TypeOK
    <3> QED  BY <1>b, <3>1
  <2> QED  BY <1>22, <1>b, <1>c, <2>1 DEF Books, CollectMetadata
<1>23. CASE World
  BY <1>23, <1>b, <1>c DEF Books, World
<1>24. CASE DirectoryStep
  BY <1>5, <1>6, <1>7, <1>8, <1>9, <1>10, <1>11, <1>24 DEF DirectoryStep
<1>25. CASE EntryStep
  BY <1>13, <1>14, <1>15, <1>17, <1>18, <1>19, <1>20, <1>25 DEF EntryStep
<1>26. CASE ScannerStep
  BY <1>2, <1>3, <1>21, <1>22, <1>24, <1>25, <1>26 DEF ScannerStep
<1> QED
  BY <1>1, <1>23, <1>26 DEF Next, Done

(* However the filesystem changes between system calls, each name readdir  *)
(* returned is settled as one candidate or one issue.                      *)
THEOREM EntriesAccountedFor == Spec => []EntryAccounting
<1>1. Spec => []Books
  BY BooksInit, BooksStep, PTL DEF Spec
<1>2. Books => EntryAccounting
  BY DEF Books
<1> QED
  BY <1>1, <1>2, PTL

(* Each directory opened is read once, has an issue, or is still queued. *)
THEOREM DirectoriesAccountedFor == Spec => []DirectoryAccounting
<1>1. Spec => []Books
  BY BooksInit, BooksStep, PTL DEF Spec
<1>2. Books => DirectoryAccounting
  BY DEF Books
<1> QED
  BY <1>1, <1>2, PTL

---------------------------------------------------------------------------

(* What relates the queue, the paths and the descriptors: a record of the  *)
(* queue names a directory that is open, the first directory is the root,  *)
(* and beyond the root a descriptor is always left over when a directory   *)
(* is not being read, namely the duplicate its parent's stream gave back.  *)
Handles ==
  /\ fd_limit \in Nat \ {0}
  /\ pc \in Terminal \cup {"open"} => directory_fds = <<>>
  /\ pc \in Terminal \cup {"open", "discovered"} => pending_directories = <<>>
  /\ Len(directory_paths) = Len(directory_fds)
  /\ pc \notin Terminal \cup {"open"} =>
       Len(directory_paths) > 0 /\ directory_paths[1] = RootPath
  /\ \A k \in DOMAIN pending_directories :
       LET record == pending_directories[k]
       IN /\ record.dir_fds_index \in 1..Len(directory_paths)
          /\ record.display_path = directory_paths[record.dir_fds_index]
  /\ Len(directory_fds) + dup_fds <= fd_limit
  /\ Len(directory_fds) > 1 => Len(directory_fds) < fd_limit

DescriptorInv == Shape /\ Handles /\ DupFailsOnlyForRoot

LEMMA DescriptorInit == Init => DescriptorInv
<1> SUFFICES ASSUME Init PROVE Handles /\ DupFailsOnlyForRoot
  BY ShapeInit DEF DescriptorInv
<1> QED
  BY DEF Init, Handles, DupFailsOnlyForRoot, IssuesAt, Terminal

LEMMA DescriptorStep ==
  DescriptorInv /\ [Next]_vars => DescriptorInv'
<1> SUFFICES ASSUME DescriptorInv, [Next]_vars
             PROVE  Handles' /\ DupFailsOnlyForRoot'
  BY ShapeStep DEF DescriptorInv
<1>a. TypeOK /\ TypeOK' /\ Handles /\ DupFailsOnlyForRoot
      /\ OneStream /\ OneStream'
  BY ShapeStep DEF DescriptorInv, Shape
<1>b. ASSUME UNCHANGED issues PROVE DupFailsOnlyForRoot'
  BY <1>a, <1>b DEF DupFailsOnlyForRoot, IssuesAt
<1>c. ASSUME NEW code, NEW path, NEW errno, NEW at, AddIssue(code, path, errno, at),
             (at = "directory" /\ errno = "EMFILE") => path = RootPath
      PROVE  DupFailsOnlyForRoot'
  <2> DEFINE issue == [code |-> code, path |-> path, system_error |-> errno, site |-> at]
  <2>1. /\ Len(issues) \in Nat /\ DOMAIN issues = 1..Len(issues)
        /\ DOMAIN issues' = 1..(Len(issues) + 1)
        /\ \A k \in 1..Len(issues) : issues'[k] = issues[k]
        /\ issues'[Len(issues) + 1] = issue
    BY <1>a, <1>c DEF AddIssue, TypeOK
  <2> QED  BY <1>a, <1>c, <2>1 DEF DupFailsOnlyForRoot, IssuesAt
<1>d. ASSUME UNCHANGED <<walk, dup_fds, fd_limit>>,
             \/ pc' = pc
             \/ /\ pc \notin Terminal \cup {"open"}
                /\ pc' \notin Terminal \cup {"open", "discovered"}
      PROVE  Handles'
  BY <1>a, <1>d DEF Handles, walk
<1> USE DEF walk, output, given, Terminal
<1>1. CASE UNCHANGED vars
  BY <1>1, <1>b, <1>d DEF vars
<1>2. ASSUME NEW errno \in Errno, OpenRootFails(errno)
      PROVE  Handles' /\ DupFailsOnlyForRoot'
  BY <1>2, <1>a, <1>b DEF OpenRootFails, Handles
<1>3. CASE OpenRoot
  BY <1>3, <1>a, <1>b DEF OpenRoot, Handles, OneStream, InStream, InEntry
<1>4. ASSUME PopDirectory
      PROVE  /\ actual_entry'.dir_fds_index \in 1..Len(directory_paths)
             /\ actual_entry'.display_path = directory_paths[actual_entry'.dir_fds_index]
             /\ \A k \in DOMAIN pending_directories' :
                  k + 1 \in DOMAIN pending_directories
                  /\ pending_directories'[k] = pending_directories[k+1]
  <2>1. /\ pending_directories \in Seq(DirectoryRecord)
        /\ pending_directories # <<>>
        /\ actual_entry' = Head(pending_directories)
        /\ pending_directories' = Tail(pending_directories)
    BY <1>4, <1>a DEF PopDirectory, TypeOK
  <2>2. /\ 1 \in DOMAIN pending_directories
        /\ actual_entry' = pending_directories[1]
        /\ \A k \in DOMAIN pending_directories' :
             /\ k + 1 \in DOMAIN pending_directories
             /\ pending_directories'[k] = pending_directories[k+1]
    BY <2>1
  <2> QED  BY <1>a, <2>2 DEF Handles
<1>5. CASE DupFails
  <2>1. PopDirectory /\ pc = "dup" /\ ~FdAvailable
    BY <1>5 DEF DupFails, PopDirectory
  <2>2. Len(directory_fds) \in Nat /\ Len(directory_fds) <= 1
    BY <2>1, <1>a DEF FdAvailable, OpenFds, OneStream, InStream, InEntry,
       Handles, TypeOK
  <2>3. actual_entry'.display_path = RootPath
    BY <1>4, <1>a, <2>1, <2>2 DEF Handles
  <2>4. DupFailsOnlyForRoot'
    BY <1>c, <1>5, <2>3 DEF DupFails
  <2>5. Handles'
    BY <1>4, <1>5, <1>a, <2>1 DEF DupFails, PopDirectory, Handles
  <2> QED  BY <2>4, <2>5
<1>6. CASE DupDirectory
  <2>1. PopDirectory /\ FdAvailable
    BY <1>6 DEF DupDirectory
  <2>2. Handles'
    <3>1. Len(directory_fds) \in Nat /\ dup_fds \in Nat /\ fd_limit \in Nat
      BY <1>a DEF TypeOK
    <3>2. Len(directory_fds) + dup_fds' <= fd_limit
      BY <1>6, <2>1, <3>1 DEF DupDirectory, FdAvailable, OpenFds
    <3> QED  BY <1>4, <1>6, <1>a, <2>1, <3>2 DEF DupDirectory, PopDirectory, Handles
  <2> QED  BY <1>6, <1>b, <2>2 DEF DupDirectory
<1>7. ASSUME CloseStream, pc \in InStream, UNCHANGED <<walk, fd_limit>>
      PROVE  Handles'
  BY <1>7, <1>a DEF CloseStream, Handles, OneStream, InStream, InEntry, TypeOK
<1>8. CASE FdopendirFails
  BY <1>7, <1>8, <1>c DEF FdopendirFails, InStream
<1>9. CASE Fdopendir
  BY <1>9, <1>b, <1>d DEF Fdopendir
<1>10. ASSUME NEW n \in Name, Readdir(n) PROVE Handles' /\ DupFailsOnlyForRoot'
  BY <1>10, <1>b, <1>d DEF Readdir
<1>11. CASE ReaddirEnds
  BY <1>7, <1>11, <1>b DEF ReaddirEnds, InStream
<1>12. CASE ReaddirFails
  BY <1>7, <1>12, <1>c DEF ReaddirFails, InStream
<1>13. ASSUME NEW code, NEW errno, RejectEntry(code, errno), pc \in InEntry
       PROVE  Handles' /\ DupFailsOnlyForRoot'
  BY <1>13, <1>c, <1>d DEF RejectEntry, InEntry
<1>14. ASSUME NEW errno \in Errno, StatxFails(errno) \/ OpenatFails(errno)
       PROVE  Handles' /\ DupFailsOnlyForRoot'
  BY <1>13, <1>14 DEF StatxFails, OpenatFails, InEntry
<1>15. CASE StatxIncomplete \/ StatxUnknownType \/ StatxExcluded
  BY <1>13, <1>15 DEF StatxIncomplete, StatxUnknownType, StatxExcluded, StatxSees,
     InEntry
<1>16. CASE StatxGoesOn
  BY <1>16, <1>b, <1>d DEF StatxGoesOn, StatxSees
<1>17. CASE StatxSuffices
  BY <1>17, <1>b, <1>d DEF StatxSuffices, StatxSees
<1>18. CASE OpenatDirectory
  <2>1. /\ directory_fds' = Append(directory_fds, OpenedInode(entry.name))
        /\ directory_paths' = Append(directory_paths, FullPath(entry.name))
        /\ pending_directories' =
             Append(pending_directories,
                    [display_path |-> FullPath(entry.name),
                     dir_fds_index |-> Len(directory_fds) + 1,
                     depth |-> actual_entry.depth + 1])
        /\ FdAvailable /\ pc = "openat" /\ pc' = "readdir"
        /\ UNCHANGED <<issues, dup_fds, fd_limit>>
    BY <1>18 DEF OpenatDirectory
  <2>2. Len(directory_fds) + 1 < fd_limit /\ dup_fds = 1
    BY <1>a, <2>1 DEF FdAvailable, OpenFds, OneStream, InStream, InEntry, TypeOK
  <2>3. /\ Len(directory_fds') = Len(directory_fds) + 1
        /\ Len(directory_paths') = Len(directory_paths) + 1
        /\ Len(directory_paths) = Len(directory_fds) /\ Len(directory_fds) \in Nat
        /\ \A k \in 1..Len(directory_paths) : directory_paths'[k] = directory_paths[k]
        /\ directory_paths'[Len(directory_fds) + 1] = FullPath(entry.name)
    <3>1. Len(directory_paths) = Len(directory_fds)
      BY <1>a DEF Handles
    <3>2. directory_fds \in Seq(Inode) /\ directory_paths \in Seq(Seq(Name))
      BY <1>a DEF TypeOK
    <3> HIDE DEF Terminal
    <3> QED  BY <2>1, <3>1, <3>2
  <2> DEFINE record == [display_path |-> FullPath(entry.name),
                        dir_fds_index |-> Len(directory_fds) + 1,
                        depth |-> actual_entry.depth + 1]
             len == Len(pending_directories)
  <2>4. /\ len \in Nat
        /\ DOMAIN pending_directories' = 1..(len + 1)
        /\ DOMAIN pending_directories = 1..len
        /\ \A k \in 1..len : pending_directories'[k] = pending_directories[k]
        /\ pending_directories'[len + 1] = record
    BY <1>a, <2>1 DEF TypeOK
  <2>5. \A k \in DOMAIN pending_directories' :
          /\ pending_directories'[k].dir_fds_index \in 1..Len(directory_paths')
          /\ pending_directories'[k].display_path =
               directory_paths'[pending_directories'[k].dir_fds_index]
    <3> SUFFICES ASSUME NEW k \in DOMAIN pending_directories'
                 PROVE  /\ pending_directories'[k].dir_fds_index \in 1..Len(directory_paths')
                        /\ pending_directories'[k].display_path =
                             directory_paths'[pending_directories'[k].dir_fds_index]
      OBVIOUS
    <3>1. CASE k \in 1..len
      BY <1>a, <2>3, <2>4, <3>1 DEF Handles
    <3>2. CASE k = len + 1
      BY <2>3, <2>4, <3>2
    <3> QED  BY <2>4, <3>1, <3>2
  <2>6. Len(directory_paths') > 0 /\ directory_paths'[1] = RootPath
    BY <1>a, <2>1, <2>3 DEF Handles
  <2>7. Handles'
    BY <1>a, <2>1, <2>2, <2>3, <2>5, <2>6 DEF Handles
  <2> QED  BY <1>b, <2>1, <2>7
<1>19. CASE ReadlinkFails
  <2>1. PICK code, path, errno : AddIssue(code, path, errno, "link")
    BY <1>19 DEF ReadlinkFails
  <2>2. DupFailsOnlyForRoot'
    BY <1>c, <2>1
  <2> QED  BY <1>19, <1>d, <2>2 DEF ReadlinkFails
<1>20. CASE Readlink
  BY <1>20, <1>b, <1>d DEF Readlink
<1>21. CASE FinishDiscovery
  BY <1>21, <1>a, <1>b DEF FinishDiscovery, Handles
<1>22. CASE CollectMetadata
  BY <1>22, <1>a, <1>b DEF CollectMetadata, Handles, OneStream, InStream, InEntry
<1>23. CASE World
  BY <1>23, <1>b, <1>d DEF World
<1>24. CASE DirectoryStep
  BY <1>5, <1>6, <1>8, <1>9, <1>10, <1>11, <1>12, <1>24 DEF DirectoryStep
<1>25. CASE EntryStep
  BY <1>14, <1>15, <1>16, <1>17, <1>18, <1>19, <1>20, <1>25 DEF EntryStep
<1>26. CASE ScannerStep
  BY <1>2, <1>3, <1>21, <1>22, <1>24, <1>25, <1>26 DEF ScannerStep
<1> QED
  BY <1>1, <1>23, <1>26 DEF Next, Done

(* No path through discovery exceeds the descriptor limit, or keeps one    *)
(* open once the scanner has returned.                                     *)
THEOREM DescriptorsSafe == Spec => []DescriptorsReturned
<1>1. Spec => []DescriptorInv
  BY DescriptorInit, DescriptorStep, PTL DEF Spec
<1>2. DescriptorInv => DescriptorsReturned
  BY DEF DescriptorInv, Shape, TypeOK, OneStream, Handles, DescriptorsReturned,
     OpenFds, InStream, InEntry, Terminal
<1> QED
  BY <1>1, <1>2, PTL

(* Running out of descriptors can cost the reading of the root only: every *)
(* other directory that was opened can also be duplicated for reading.     *)
THEOREM DupSafe == Spec => []DupFailsOnlyForRoot
<1>1. Spec => []DescriptorInv
  BY DescriptorInit, DescriptorStep, PTL DEF Spec
<1>2. DescriptorInv => DupFailsOnlyForRoot
  BY DEF DescriptorInv
<1> QED
  BY <1>1, <1>2, PTL

---------------------------------------------------------------------------

(* With the books in order before and after a step, the count of rejected  *)
(* entries follows from the others, and each step is one of the ledger's.  *)
LEMMA LedgerStep ==
  Books /\ Books' /\ [Next]_vars => [Promise!Next]_Promise!vars
<1> SUFFICES ASSUME Books, Books', [Next]_vars
             PROVE  [Promise!Next]_Promise!vars
  OBVIOUS
<1> DEFINE rejected == Cardinality(IssuesAt("entry"))
           hand     == IF pc \in InEntry THEN 1 ELSE 0
           isOpen   == pc \notin {"discovered", "collected", "failed"}
<1>a. /\ TypeOK /\ TypeOK'
      /\ rejected \in Nat /\ rejected' \in Nat
      /\ Reported \in Nat /\ Reported' \in Nat
      /\ discovered_count = Reported + rejected + hand
      /\ discovered_count' = Reported' + rejected' + hand'
  <2>1. TypeOK /\ TypeOK'
    BY DEF Books, Shape
  <2>2. issues \in Seq(ScanIssue) /\ issues' \in Seq(ScanIssue)
    BY <2>1 DEF TypeOK
  <2>3. rejected \in Nat
    BY <2>2, Counts
  <2>4. rejected' \in Nat
    <3>1. IssuesAt("entry")' = At(issues', "entry")
      BY DEF IssuesAt, At
    <3> QED  BY <2>2, <3>1, SiteCount
  <2>5. Reported \in Nat /\ Reported' \in Nat
    BY <2>1, LenProperties DEF Reported, TypeOK
  <2> QED  BY <2>1, <2>3, <2>4, <2>5 DEF Books, EntryAccounting
<1> HIDE DEF rejected
<1> USE DEF Promise!Next, Promise!vars, Promise!Settled, output, walk, InEntry, Reported
<1>b. ASSUME UNCHANGED <<discovered_count, Reported>>, hand' = hand,
             isOpen' = isOpen \/ (isOpen /\ hand = 0)
      PROVE  [Promise!Next]_Promise!vars
  BY <1>a, <1>b DEF Promise!Close, rejected
<1>1. CASE UNCHANGED vars
  BY <1>1, <1>b DEF vars
<1>2. ASSUME NEW errno \in Errno, OpenRootFails(errno) PROVE [Promise!Next]_Promise!vars
  BY <1>2, <1>b DEF OpenRootFails
<1>3. CASE OpenRoot
  BY <1>3, <1>b DEF OpenRoot
<1>4. CASE DupFails \/ DupDirectory \/ FdopendirFails \/ Fdopendir
  BY <1>4, <1>b DEF DupFails, DupDirectory, PopDirectory, FdopendirFails,
     Fdopendir, CloseStream
<1>5. CASE ReaddirEnds \/ ReaddirFails
  BY <1>5, <1>b DEF ReaddirEnds, ReaddirFails, CloseStream
<1>6. ASSUME NEW n \in Name, Readdir(n) PROVE [Promise!Next]_Promise!vars
  <2>1. CASE n \in HiddenName /\ ~options.include_hidden
    BY <1>6, <2>1, <1>b DEF Readdir
  <2>2. CASE ~(n \in HiddenName /\ ~options.include_hidden)
    BY <1>6, <2>2, <1>a DEF Readdir, Promise!Find, rejected
  <2> QED  BY <2>1, <2>2
<1>7. ASSUME hand = 1, hand' = 0, isOpen, isOpen', UNCHANGED discovered_count,
             Reported' \in {Reported, Reported + 1}
      PROVE  [Promise!Next]_Promise!vars
  BY <1>7, <1>a DEF Promise!Report, Promise!Reject, rejected
<1>8. ASSUME NEW code, NEW errno, RejectEntry(code, errno), pc \in InEntry
      PROVE  [Promise!Next]_Promise!vars
  BY <1>7, <1>8 DEF RejectEntry
<1>9. ASSUME NEW errno \in Errno, StatxFails(errno) \/ OpenatFails(errno)
      PROVE  [Promise!Next]_Promise!vars
  BY <1>8, <1>9 DEF StatxFails, OpenatFails
<1>10. CASE StatxIncomplete \/ StatxUnknownType \/ StatxExcluded
  BY <1>8, <1>10 DEF StatxIncomplete, StatxUnknownType, StatxExcluded, StatxSees
<1>11. CASE StatxGoesOn
  BY <1>11, <1>b DEF StatxGoesOn, StatxSees
<1>12. ASSUME NEW target, AddCandidate(target)
       PROVE  Len(candidates') = Len(candidates) + 1
  BY <1>12, <1>a DEF AddCandidate, TypeOK
<1>13. CASE StatxSuffices \/ OpenatDirectory \/ ReadlinkFails \/ Readlink
  <2>1. /\ Len(candidates') = Len(candidates) + 1
        /\ pc \in InEntry /\ pc' = "readdir"
        /\ UNCHANGED <<discovered_count, items>>
    BY <1>12, <1>13 DEF StatxSuffices, StatxSees, OpenatDirectory, ReadlinkFails, Readlink
  <2> QED  BY <1>7, <2>1
<1>14. CASE FinishDiscovery
  BY <1>14, <1>b DEF FinishDiscovery
<1>15. CASE CollectMetadata
  <2>1. Len(items') = Len(candidates)
    <3>1. /\ DOMAIN items' = 1..Len(candidates) /\ items' \in Seq(AuditItem)
          /\ Len(candidates) \in Nat
      BY <1>15, <1>a, LenProperties DEF CollectMetadata, TypeOK
    <3> QED  BY <3>1
  <2> QED  BY <1>15, <1>b, <2>1 DEF CollectMetadata
<1>16. CASE World
  BY <1>16, <1>b DEF World
<1>17. CASE DirectoryStep
  BY <1>4, <1>5, <1>6, <1>17 DEF DirectoryStep
<1>18. CASE EntryStep
  BY <1>9, <1>10, <1>11, <1>13, <1>18 DEF EntryStep
<1> QED
  BY <1>1, <1>2, <1>3, <1>14, <1>15, <1>16, <1>17, <1>18
     DEF Next, Done, ScannerStep

(* The scanner, with all its system calls and failure branches, implements *)
(* the ledger: one entry in hand at a time, settled once, nothing after    *)
(* the ledger is closed.                                                   *)
THEOREM ScannerKeepsLedger == Spec => KeepsLedger
<1>1. Init => Promise!Init
  <2> SUFFICES ASSUME Init PROVE Promise!Init
    OBVIOUS
  <2>1. IssuesAt("entry") = {}
    BY DEF Init, IssuesAt
  <2> QED  BY <2>1, FS_EmptySet DEF Init, Promise!Init, Reported
<1>2. Spec => []Books
  BY BooksInit, BooksStep, PTL DEF Spec
<1> QED
  BY <1>1, <1>2, LedgerStep, PTL DEF Spec, KeepsLedger, Promise!Spec
============================================================================
