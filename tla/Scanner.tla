------------------------------ MODULE Scanner ------------------------------
(***************************************************************************)
(* kls::scanner: discover_entries (src/scanner/scanner.cpp), followed by   *)
(* collect_metadata (src/scanner/collect_metadata.cpp) as orchestrator     *)
(* (src/scanner/orchestator.cpp) runs them.  One action per system call:   *)
(* what the code does between two calls cannot be observed by, nor see,    *)
(* the rest of the machine, and belongs to the action of the call before.  *)
(* The filesystem may change between any two of these actions.             *)
(***************************************************************************)
EXTENDS Paths

CONSTANTS
  HiddenName,     (* names that start with '.'                             *)
  PseudoName,     (* dev, proc, run, sys: first components of the prefixes *)
  RootPath,       (* display path of the root: the components after '/'    *)
  RootIsAbsolute, (* the root was given as (or expanded to) an absolute path *)
  OptionSet,      (* the ScanOptions an audit may be run with              *)
  FdLimits,       (* how many descriptors the process may still open       *)
  RootErrno,      (* errors open(root) may report whatever the tree holds  *)
  Faults          (* errors the kernel may report whatever the tree holds  *)

SymlinkMode == {"ignore", "read", "traverse_target"}

ScanOptions ==
  [recursive : BOOLEAN, include_hidden : BOOLEAN,
   symlink_status : SymlinkMode, maximum_depth : Nat]

Errno == {"0", "ENOENT", "ENOTDIR", "EACCES", "EINVAL", "EPERM",
          "EMFILE", "ENFILE", "EIO", "ENOMEM"}

ASSUME ScannerAssumption ==
  /\ HiddenName \subseteq Name
  /\ PseudoName \subseteq Name
  /\ RootPath \in Seq(Name)
  /\ RootIsAbsolute \in BOOLEAN
  /\ OptionSet \subseteq ScanOptions
  /\ FdLimits \subseteq Nat \ {0}
  /\ RootErrno \subseteq Errno
  /\ Faults \subseteq Errno \cup {"partial_mask", "long_target"}

VARIABLES
  options,
  fd_limit,             (* RLIMIT_NOFILE less what the process holds at start *)
  pc,                   (* the system call the scanner makes next          *)
  error,                (* ScanErrorCode, "none" while there is none       *)
  directory_fds,        (* the inode each held descriptor is open on       *)
  directory_paths,
  pending_directories,
  actual_entry,         (* the DirectoryRecord being read                  *)
  dup_fds,              (* number of duplicated descriptors now open       *)
  stream,               (* what readdir has still to return                *)
  entry,                (* name and statx result of the entry in hand      *)
  candidates,
  issues,
  visited_count, discovered_count, excluded_count,
  items                 (* ScanOutput::items, once collect_metadata ran    *)

output == <<candidates, issues, visited_count, discovered_count, excluded_count>>
given  == <<options, fd_limit>>
walk   == <<directory_fds, directory_paths, pending_directories>>
vars   == <<fsVars, given, pc, error, walk, actual_entry, dup_fds, stream,
            entry, output, items>>

IssueCode ==
  {"directory_open_failed", "directory_read_failed",
   "directory_permission_denied", "entry_disappeared",
   "entry_type_detection_failed", "entry_type_changed", "metadata_failed",
   "metadata_incomplete", "descriptor_limited", "global_limited", "io_error",
   "symlink_target_truncated", "symlink_error_resolve",
   "pseudo_filesystem_excluded"}

(* site is history: which kind of thing the branch that added the issue    *)
(* was working on.  The struct itself holds code, path and system_error.   *)
ScanIssue ==
  [code : IssueCode, path : Seq(Name), system_error : Errno,
   site : {"directory", "entry", "link"}]

DirectoryRecord ==
  [display_path : Seq(Name), dir_fds_index : Nat, depth : Nat]

(* symlink_target names the link whose text was read, NoInode for none.    *)
CandidateEntry ==
  [name : Name, parent : Nat, full_path : Seq(Name), inode : Inode,
   symlink_target : Inode \cup {NoInode}]

AuditItem ==
  [full_path : Seq(Name), inode : Inode,
   symlink_target : Inode \cup {NoInode},
   stability : {"stable", "unstable", "unknown"}]

ErrorCode ==
  {"none", "root_not_found", "root_not_directory", "root_permission_denied",
   "root_open_failed"}

InEntry == {"statx", "openat", "readlinkat"}
Terminal == {"failed", "collected"}

TypeOK ==
  /\ FsTypeOK
  /\ options \in ScanOptions
  /\ fd_limit \in Nat
  /\ pc \in {"open", "dup", "fdopendir", "readdir", "discovered"}
            \cup InEntry \cup Terminal
  /\ error \in ErrorCode
  /\ directory_fds \in Seq(Inode)
  /\ directory_paths \in Seq(Seq(Name))
  /\ pending_directories \in Seq(DirectoryRecord)
  /\ actual_entry \in DirectoryRecord
  /\ dup_fds \in Nat
  /\ stream \in [must : SUBSET Name, may : SUBSET Name]
  /\ entry \in [name : Name, inode : Inode \cup {NoInode}]
  /\ candidates \in Seq(CandidateEntry)
  /\ issues \in Seq(ScanIssue)
  /\ visited_count \in Nat
  /\ discovered_count \in Nat
  /\ excluded_count \in Nat
  /\ items \in Seq(AuditItem)

ClosedStream == [must |-> {}, may |-> {}]

Init ==
  /\ FsInit
  /\ options \in OptionSet
  /\ fd_limit \in FdLimits
  /\ pc = "open"
  /\ error = "none"
  /\ directory_fds = <<>>
  /\ directory_paths = <<>>
  /\ pending_directories = <<>>
  /\ actual_entry = [display_path |-> RootPath, dir_fds_index |-> 1, depth |-> 0]
  /\ dup_fds = 0
  /\ stream = ClosedStream
  /\ entry = [name |-> CHOOSE n \in Name : TRUE, inode |-> NoInode]
  /\ candidates = <<>>
  /\ issues = <<>>
  /\ visited_count = 0
  /\ discovered_count = 0
  /\ excluded_count = 0
  /\ items = <<>>

---------------------------------------------------------------------------

(* Indexes into directory_fds start at 1 here and at 0 in the code. *)
ParentInode == directory_fds[actual_entry.dir_fds_index]

LookUp(n) == dirent[ParentInode][n]

FullPath(n) == Append(actual_entry.display_path, n)

(* Every prefix of EXCLUDED_PREFIXES ends in '/': only what lies below one *)
(* of the four directories starts with it, and only by an absolute path.   *)
IsExcludedPseudoFilesystem(path) ==
  RootIsAbsolute /\ Len(path) >= 2 /\ path[1] \in PseudoName

(* Descriptors now open, and whether the process may open one more. *)
OpenFds == Len(directory_fds) + dup_fds
FdAvailable == OpenFds < fd_limit

AddIssue(code, path, errno, site) ==
  issues' = Append(issues, [code |-> code, path |-> path,
                            system_error |-> errno, site |-> site])

(* Mutant: the parent is the directory registered last. *)
AddCandidateOfLastDirectory(target) ==
  candidates' = Append(candidates,
    [name |-> entry'.name, parent |-> Len(directory_fds),
     full_path |-> FullPath(entry'.name), inode |-> entry'.inode,
     symlink_target |-> target])

AddCandidate(target) ==
  candidates' = Append(candidates,
    [name |-> entry'.name, parent |-> actual_entry.dir_fds_index,
     full_path |-> FullPath(entry'.name), inode |-> entry'.inode,
     symlink_target |-> target])

(* Mutant: ~DirPtr closes the stream and ::close its descriptor again. *)
CloseStreamTwice ==
  /\ dup_fds' = dup_fds - 2
  /\ stream' = ClosedStream
  /\ pc' = "dup"

(* The directory loop is done with its stream: ~DirPtr or ::close.         *)
CloseStream ==
  /\ dup_fds' = dup_fds - 1
  /\ stream' = ClosedStream
  /\ pc' = "dup"

RootError(errno) ==
  CASE errno = "ENOENT"  -> "root_not_found"
    [] errno = "ENOTDIR" -> "root_not_directory"
    [] errno = "EACCES"  -> "root_permission_denied"
    [] OTHER             -> "root_open_failed"

OpenRootFails(errno) ==
  /\ pc = "open"
  /\ errno \in RootErrno \/ (errno = "EACCES" /\ Root \in denied)
  /\ error' = RootError(errno)
  /\ pc' = "failed"
  /\ UNCHANGED <<fsVars, given, walk, actual_entry, dup_fds, stream, entry,
                 output, items>>

OpenRoot ==
  /\ pc = "open"
  /\ Root \notin denied
  /\ directory_fds' = <<Root>>
  /\ directory_paths' = <<RootPath>>
  /\ pending_directories' =
       <<[display_path |-> RootPath, dir_fds_index |-> 1, depth |-> 0]>>
  /\ pc' = "dup"
  /\ UNCHANGED <<fsVars, given, error, actual_entry, dup_fds, stream, entry,
                 output, items>>

(* Mutant: pop_back, a stack in place of the queue. *)
PopLastDirectory ==
  /\ pc = "dup"
  /\ pending_directories # <<>>
  /\ actual_entry' = pending_directories[Len(pending_directories)]
  /\ pending_directories' =
       SubSeq(pending_directories, 1, Len(pending_directories) - 1)
  /\ UNCHANGED <<fsVars, given, error, directory_fds, directory_paths,
                 stream, entry, candidates, visited_count, discovered_count,
                 excluded_count, items>>

PopDirectory ==
  /\ pc = "dup"
  /\ pending_directories # <<>>
  /\ actual_entry' = Head(pending_directories)
  /\ pending_directories' = Tail(pending_directories)
  /\ UNCHANGED <<fsVars, given, error, directory_fds, directory_paths,
                 stream, entry, candidates, visited_count, discovered_count,
                 excluded_count, items>>

DupFails ==
  /\ PopDirectory
  /\ ~FdAvailable
  /\ AddIssue("directory_open_failed", actual_entry'.display_path, "EMFILE",
              "directory")
  /\ UNCHANGED <<pc, dup_fds>>

DupDirectory ==
  /\ PopDirectory
  /\ FdAvailable
  /\ dup_fds' = dup_fds + 1
  /\ pc' = "fdopendir"
  /\ UNCHANGED issues

(* Mutant: the error path forgets ::close(dup_fd). *)
FdopendirFailsLeaking ==
  /\ pc = "fdopendir"
  /\ "ENOMEM" \in Faults
  /\ AddIssue("directory_open_failed", actual_entry.display_path, "ENOMEM",
              "directory")
  /\ pc' = "dup"
  /\ UNCHANGED <<fsVars, given, error, walk, actual_entry, dup_fds, stream,
                 entry, candidates, visited_count, discovered_count,
                 excluded_count, items>>

(* Mutant: visited_count is raised before the stream is known to be open. *)
FdopendirFailsCounted ==
  /\ pc = "fdopendir"
  /\ "ENOMEM" \in Faults
  /\ AddIssue("directory_open_failed", actual_entry.display_path, "ENOMEM",
              "directory")
  /\ CloseStream
  /\ visited_count' = visited_count + 1
  /\ UNCHANGED <<fsVars, given, error, walk, actual_entry, entry, candidates,
                 discovered_count, excluded_count, items>>

FdopendirFails ==
  /\ pc = "fdopendir"
  /\ "ENOMEM" \in Faults
  /\ AddIssue("directory_open_failed", actual_entry.display_path, "ENOMEM",
              "directory")
  /\ CloseStream
  /\ UNCHANGED <<fsVars, given, error, walk, actual_entry, entry, candidates,
                 visited_count, discovered_count, excluded_count, items>>

Fdopendir ==
  /\ pc = "fdopendir"
  /\ visited_count' = visited_count + 1
  /\ stream' = [must |-> {n \in Name : LookUp(n) # NoInode}, may |-> {}]
  /\ pc' = "readdir"
  /\ UNCHANGED <<fsVars, given, error, walk, actual_entry, dup_fds, entry,
                 candidates, issues, discovered_count, excluded_count, items>>

---------------------------------------------------------------------------

(* Mutant: --all is not looked at. *)
ReaddirSkippingHidden(n) ==
  /\ pc = "readdir"
  /\ n \in stream.must \cup stream.may
  /\ stream' = [must |-> stream.must \ {n}, may |-> stream.may \ {n}]
  /\ IF n \in HiddenName
     THEN UNCHANGED <<pc, discovered_count, entry>>
     ELSE /\ discovered_count' = discovered_count + 1
          /\ entry' = [name |-> n, inode |-> NoInode]
          /\ pc' = "statx"
  /\ UNCHANGED <<fsVars, given, error, walk, actual_entry, dup_fds,
                 candidates, issues, visited_count, excluded_count, items>>

(* Mutant: the stream is rewound, and returns the name again. *)
ReaddirRepeating(n) ==
  /\ pc = "readdir"
  /\ n \in stream.must \cup stream.may
  /\ discovered_count' = discovered_count + 1
  /\ entry' = [name |-> n, inode |-> NoInode]
  /\ pc' = "statx"
  /\ UNCHANGED <<fsVars, given, error, walk, actual_entry, dup_fds, stream,
                 candidates, issues, visited_count, excluded_count, items>>

(* The stream returns every entry that stays, and may or may not return    *)
(* one that came or went since fdopendir.                                  *)
Readdir(n) ==
  /\ pc = "readdir"
  /\ n \in stream.must \cup stream.may
  /\ stream' = [must |-> stream.must \ {n}, may |-> stream.may \ {n}]
  /\ IF n \in HiddenName /\ ~options.include_hidden
     THEN UNCHANGED <<pc, discovered_count, entry>>
     ELSE /\ discovered_count' = discovered_count + 1
          /\ entry' = [name |-> n, inode |-> NoInode]
          /\ pc' = "statx"
  /\ UNCHANGED <<fsVars, given, error, walk, actual_entry, dup_fds,
                 candidates, issues, visited_count, excluded_count, items>>

(* Mutant: the stream is released from DirPtr and never closed. *)
ReaddirEndsLeaking ==
  /\ pc = "readdir"
  /\ stream.must = {}
  /\ stream' = ClosedStream
  /\ pc' = "dup"
  /\ UNCHANGED <<fsVars, given, error, walk, actual_entry, dup_fds, entry,
                 output, items>>

ReaddirEnds ==
  /\ pc = "readdir"
  /\ stream.must = {}
  /\ CloseStream
  /\ UNCHANGED <<fsVars, given, error, walk, actual_entry, entry, output, items>>

ReaddirFails ==
  /\ pc = "readdir"
  /\ "EIO" \in Faults
  /\ AddIssue("directory_read_failed", actual_entry.display_path, "EIO",
              "directory")
  /\ CloseStream
  /\ UNCHANGED <<fsVars, given, error, walk, actual_entry, entry, candidates,
                 visited_count, discovered_count, excluded_count, items>>

(* The entry in hand ends as an issue, and the loop continues. *)
RejectEntry(code, errno) ==
  /\ AddIssue(code, FullPath(entry.name), errno, "entry")
  /\ pc' = "readdir"
  /\ UNCHANGED <<fsVars, given, error, walk, actual_entry, dup_fds, stream,
                 candidates, visited_count, discovered_count, items>>

StatxFails(errno) ==
  /\ pc = "statx"
  /\ \/ errno = "ENOENT" /\ LookUp(entry.name) = NoInode
     \/ errno \in Faults \cap {"EACCES", "EPERM", "EIO", "ENOMEM"}
  /\ RejectEntry(IF errno = "ENOENT" THEN "entry_disappeared"
                 ELSE "metadata_failed", errno)
  /\ UNCHANGED <<entry, excluded_count>>

(* statx succeeds on the inode the name leads to at this moment. *)
StatxSees(i) ==
  /\ pc = "statx"
  /\ i = LookUp(entry.name)
  /\ i # NoInode
  /\ entry' = [entry EXCEPT !.inode = i]

(* Mutant: no continue after the issue, the entry becomes a candidate too. *)
StatxIncompleteKept ==
  /\ \E i \in Inode : StatxSees(i)
  /\ "partial_mask" \in Faults
  /\ AddIssue("metadata_incomplete", FullPath(entry.name), "0", "entry")
  /\ AddCandidate(NoInode)
  /\ pc' = "readdir"
  /\ UNCHANGED <<fsVars, given, error, walk, actual_entry, dup_fds, stream,
                 visited_count, discovered_count, excluded_count, items>>

StatxIncomplete ==
  /\ \E i \in Inode : StatxSees(i)
  /\ "partial_mask" \in Faults
  /\ RejectEntry("metadata_incomplete", "0")
  /\ UNCHANGED excluded_count

StatxUnknownType ==
  /\ \E i \in Inode : StatxSees(i) /\ Kind[i] = "unknown"
  /\ RejectEntry("entry_type_detection_failed", "0")
  /\ UNCHANGED excluded_count

(* Mutant: one level too many. *)
DescendsTooFar(i) ==
  /\ Kind[i] = "directory"
  /\ options.recursive
  /\ actual_entry.depth <= options.maximum_depth

Descends(i) ==
  /\ Kind[i] = "directory"
  /\ options.recursive
  /\ actual_entry.depth < options.maximum_depth

StatxExcluded ==
  /\ \E i \in Inode : StatxSees(i) /\ Descends(i)
  /\ IsExcludedPseudoFilesystem(FullPath(entry.name))
  /\ excluded_count' = excluded_count + 1
  /\ RejectEntry("pseudo_filesystem_excluded", "0")

ReadsLink(i) == Kind[i] = "symlink" /\ options.symlink_status = "read"

(* statx succeeded and another call follows for the same name. *)
StatxGoesOn ==
  /\ \E i \in Inode :
       /\ StatxSees(i)
       /\ \/ /\ Descends(i)
             /\ ~IsExcludedPseudoFilesystem(FullPath(entry.name))
             /\ pc' = "openat"
          \/ ReadsLink(i) /\ pc' = "readlinkat"
  /\ UNCHANGED <<fsVars, given, error, walk, actual_entry, dup_fds, stream,
                 output, items>>

StatxSuffices ==
  /\ \E i \in Inode : /\ StatxSees(i)
                      /\ Kind[i] # "unknown"
                      /\ ~Descends(i)
                      /\ ~ReadsLink(i)
  /\ AddCandidate(NoInode)
  /\ pc' = "readdir"
  /\ UNCHANGED <<fsVars, given, error, walk, actual_entry, dup_fds, stream,
                 issues, visited_count, discovered_count, excluded_count, items>>

---------------------------------------------------------------------------

(* What openat(O_DIRECTORY | O_NOFOLLOW) may report for the name now: the  *)
(* descriptor is allocated before the name is looked up.                   *)
OpenatErrno ==
  IF ~FdAvailable THEN {"EMFILE"}
  ELSE LET i == LookUp(entry.name)
       IN (Faults \cap {"EACCES", "ENFILE", "EIO", "ENOMEM"}) \cup
          CASE i = NoInode              -> {"ENOENT"}
            [] i \notin DirInode        -> {"ENOTDIR"}
            [] i \in DirInode \cap denied -> {"EACCES"}
            [] OTHER                    -> {}

OpenatIssue(errno) ==
  CASE errno = "EACCES"  -> "directory_permission_denied"
    [] errno = "ENOENT"  -> "entry_disappeared"
    [] errno = "ENOTDIR" -> "entry_type_changed"
    [] errno = "EMFILE"  -> "descriptor_limited"
    [] errno = "ENFILE"  -> "global_limited"
    [] errno = "EIO"     -> "io_error"
    [] OTHER             -> "directory_open_failed"

(* Mutant: the default branch of the switch adds no issue. *)
OpenatFailsSilently(errno) ==
  /\ pc = "openat"
  /\ errno \in OpenatErrno
  /\ pc' = "readdir"
  /\ UNCHANGED <<fsVars, given, error, walk, actual_entry, dup_fds, stream,
                 entry, output, items>>

(* Mutant: a directory that cannot be opened is a candidate as well. *)
OpenatFailsKept(errno) ==
  /\ pc = "openat"
  /\ errno \in OpenatErrno
  /\ AddIssue(OpenatIssue(errno), FullPath(entry.name), errno, "entry")
  /\ entry' = entry
  /\ AddCandidate(NoInode)
  /\ pc' = "readdir"
  /\ UNCHANGED <<fsVars, given, error, walk, actual_entry, dup_fds, stream,
                 visited_count, discovered_count, excluded_count, items>>

(* Mutant: openat is repeated until it succeeds. *)
OpenatFailsRetrying(errno) ==
  /\ pc = "openat"
  /\ errno \in OpenatErrno
  /\ UNCHANGED vars

OpenatFails(errno) ==
  /\ pc = "openat"
  /\ errno \in OpenatErrno
  /\ RejectEntry(OpenatIssue(errno), errno)
  /\ UNCHANGED <<entry, excluded_count>>

(* Mutant: openat without O_NOFOLLOW. *)
OpenedInodeFollowing(n) == LeadsTo(dirent, ParentInode, <<n>>)

(* The inode a successful openat(O_DIRECTORY | O_NOFOLLOW) opens. *)
OpenedInode(n) == LookUp(n)

(* The descriptor is for what the name leads to now, the metadata of the   *)
(* candidate for what it led to at statx.                                  *)
OpenatDirectory ==
  /\ pc = "openat"
  /\ FdAvailable
  /\ OpenedInode(entry.name) \in DirInode \ denied
  /\ directory_fds' = Append(directory_fds, OpenedInode(entry.name))
  /\ directory_paths' = Append(directory_paths, FullPath(entry.name))
  /\ pending_directories' =
       Append(pending_directories,
              [display_path |-> FullPath(entry.name),
               dir_fds_index |-> Len(directory_fds) + 1,
               depth |-> actual_entry.depth + 1])
  /\ entry' = entry
  /\ AddCandidate(NoInode)
  /\ pc' = "readdir"
  /\ UNCHANGED <<fsVars, given, error, actual_entry, dup_fds, stream, issues,
                 visited_count, discovered_count, excluded_count, items>>

ReadlinkErrno ==
  LET i == LookUp(entry.name)
  IN (Faults \cap {"EACCES", "EIO", "ENOMEM"}) \cup
     CASE i = NoInode                             -> {"ENOENT"}
       [] i # NoInode /\ Kind[i] # "symlink"      -> {"EINVAL"}
       [] OTHER                                   -> {}

(* A link that cannot be read, or whose text fills the buffer, is still    *)
(* reported, without a target.                                             *)
ReadlinkFails ==
  /\ pc = "readlinkat"
  /\ entry' = entry
  /\ \/ \E errno \in ReadlinkErrno :
          AddIssue("symlink_error_resolve", FullPath(entry.name), errno, "link")
     \/ /\ "long_target" \in Faults
        /\ LookUp(entry.name) \in {i \in Inode : Kind[i] = "symlink"}
        /\ AddIssue("symlink_target_truncated", FullPath(entry.name), "0", "link")
  /\ AddCandidate(NoInode)
  /\ pc' = "readdir"
  /\ UNCHANGED <<fsVars, given, error, walk, actual_entry, dup_fds, stream,
                 visited_count, discovered_count, excluded_count, items>>

Readlink ==
  /\ pc = "readlinkat"
  /\ LookUp(entry.name) \in {i \in Inode : Kind[i] = "symlink"}
  /\ entry' = entry
  /\ AddCandidate(LookUp(entry.name))
  /\ pc' = "readdir"
  /\ UNCHANGED <<fsVars, given, error, walk, actual_entry, dup_fds, stream,
                 issues, visited_count, discovered_count, excluded_count, items>>

---------------------------------------------------------------------------

FinishDiscovery ==
  /\ pc = "dup"
  /\ pending_directories = <<>>
  /\ pc' = "discovered"
  /\ UNCHANGED <<fsVars, given, error, walk, actual_entry, dup_fds, stream,
                 entry, output, items>>

ItemOf(c) ==
  [full_path |-> c.full_path, inode |-> c.inode,
   symlink_target |-> c.symlink_target, stability |-> "stable"]

(* collect_metadata copies; DiscoveredOutput, and with it every descriptor *)
(* still held, is destroyed when orchestrator returns.                     *)
CollectMetadata ==
  /\ pc = "discovered"
  /\ items' = [k \in DOMAIN candidates |-> ItemOf(candidates[k])]
  /\ candidates' = <<>>
  /\ directory_fds' = <<>>
  /\ directory_paths' = <<>>
  /\ pc' = "collected"
  /\ UNCHANGED <<fsVars, given, error, pending_directories, actual_entry,
                 dup_fds, stream, entry, issues, visited_count,
                 discovered_count, excluded_count>>

DirectoryStep ==
  \/ DupFails \/ DupDirectory \/ FdopendirFails \/ Fdopendir
  \/ \E n \in Name : Readdir(n)
  \/ ReaddirEnds \/ ReaddirFails

EntryStep ==
  \/ \E errno \in Errno : StatxFails(errno)
  \/ StatxIncomplete \/ StatxUnknownType \/ StatxExcluded \/ StatxGoesOn
  \/ StatxSuffices
  \/ \E errno \in Errno : OpenatFails(errno)
  \/ OpenatDirectory
  \/ ReadlinkFails \/ Readlink

ScannerStep ==
  \/ \E errno \in Errno : OpenRootFails(errno)
  \/ OpenRoot
  \/ DirectoryStep \/ EntryStep
  \/ FinishDiscovery \/ CollectMetadata

(* An open stream loses the promise of an entry that went or was replaced, *)
(* and may show one that came.                                             *)
StreamFollows ==
  stream' =
    IF pc \in {"readdir"} \cup InEntry
    THEN LET moved == {n \in Name : dirent[ParentInode][n] # dirent'[ParentInode][n]}
             came  == {n \in moved : dirent'[ParentInode][n] # NoInode}
         IN [must |-> stream.must \ moved,
             may  |-> stream.may \cup came \cup (moved \cap stream.must)]
    ELSE stream

World ==
  /\ pc \notin Terminal
  /\ FsChange
  /\ StreamFollows
  /\ UNCHANGED <<given, pc, error, walk, actual_entry, dup_fds, entry,
                 output, items>>

(* The audit is over: nothing is left to do. *)
Done == pc \in Terminal /\ UNCHANGED vars

Next == ScannerStep \/ World \/ Done

Spec == Init /\ [][Next]_vars

(* The process keeps running; nothing is promised about anybody else. *)
FairSpec == Spec /\ WF_vars(ScannerStep)

---------------------------------------------------------------------------

IssuesAt(site) == {k \in DOMAIN issues : issues[k].site = site}

UnreadDirectories ==
  {k \in DOMAIN issues : /\ issues[k].site = "directory"
                         /\ issues[k].code = "directory_open_failed"}

Reported == IF pc = "collected" THEN Len(items) ELSE Len(candidates)

(* Every name readdir returned ends as exactly one candidate or exactly    *)
(* one issue: whichever branch of the 190-line loop body it took, and      *)
(* whatever happened to the filesystem between its system calls.           *)
EntryAccounting ==
  discovered_count = Reported + Cardinality(IssuesAt("entry"))
                     + (IF pc \in InEntry THEN 1 ELSE 0)

(* Every directory opened is read once, or has an issue saying it was not, *)
(* or still waits in the queue.                                            *)
DirectoryAccounting ==
  pc # "collected" =>
    Len(directory_fds) = visited_count + Cardinality(UnreadDirectories)
                         + Len(pending_directories)
                         + (IF pc = "fdopendir" THEN 1 ELSE 0)

InStream == {"fdopendir", "readdir"} \cup InEntry

(* The process holds one duplicate while it reads a directory and none     *)
(* otherwise, never more descriptors than it may, and once the audit       *)
(* leaves the scanner, by whichever path, none is left open.               *)
DescriptorsReturned ==
  /\ dup_fds = IF pc \in InStream THEN 1 ELSE 0
  /\ OpenFds <= fd_limit
  /\ pc \in Terminal => OpenFds = 0

(* Each directory held costs a descriptor for the whole scan.  Still, dup  *)
(* can run out of them for the root only: any other directory was opened   *)
(* while its parent's stream held one descriptor more, since returned.     *)
DupFailsOnlyForRoot ==
  \A k \in IssuesAt("directory") :
    issues[k].system_error = "EMFILE" => issues[k].path = RootPath

(* The report lists a directory's level before the next: candidates come   *)
(* out by depth, and never below maximum_depth.                            *)
BreadthFirst ==
  \A k \in DOMAIN candidates :
    /\ Len(candidates[k].full_path) <=
         Len(RootPath) + 1 + (IF options.recursive THEN options.maximum_depth ELSE 0)
    /\ \A j \in 1..k :
         Len(candidates[j].full_path) <= Len(candidates[k].full_path)

(* A candidate is what the directory its parent index names held, at some  *)
(* time of the audit, under the candidate's name; its display path is the  *)
(* display path of that directory with the name added.                     *)
NothingInvented ==
  \A k \in DOMAIN candidates :
    LET c == candidates[k]
    IN /\ c.parent \in DOMAIN directory_fds
       /\ c.inode \in past[directory_fds[c.parent]][c.name]
       /\ c.full_path = Append(directory_paths[c.parent], c.name)

(* The scanner opens only what is, or was, an entry of a directory: a      *)
(* directory some link points to, and no entry leads to, stays closed,     *)
(* even when the link takes a directory's name between statx and openat.   *)
LinksNotFollowed ==
  \A k \in DOMAIN directory_fds :
    \/ directory_fds[k] = Root
    \/ \E d \in DirInode, n \in Name : directory_fds[k] \in past[d][n]

(* There is no set of visited directories.  All the same no directory is   *)
(* read twice unless some process moved it or a directory above it, or     *)
(* removed and restored it, during the audit.                              *)
ReadTwiceOnlyIfMoved ==
  \A j, k \in DOMAIN directory_fds :
    j < k /\ directory_fds[j] = directory_fds[k] =>
      \E d \in DirInode, n \in Name :
        /\ ~Undisturbed(d, n)
        /\ \E i \in past[d][n] \ {NoInode} : directory_fds[k] \in Subtree(i)

(* The entry of d has been there since before the audit, and the options   *)
(* ask for names like it.                                                  *)
Stands(d, n) ==
  /\ dirent[d][n] # NoInode
  /\ Undisturbed(d, n)
  /\ n \notin HiddenName \/ options.include_hidden

Entered(k) == k = 0 \/ (options.recursive /\ k <= options.maximum_depth)

StandingIn(s) ==
  {[path |-> Append(s.path, n), inode |-> dirent[s.inode][n]] :
     n \in {m \in Name : Stands(s.inode, m)}}

(* What stood still under the root for the whole audit, within the depth   *)
(* and the hidden-name policy asked for: the reference the result is held  *)
(* against.                                                                *)
StandingAt[k \in Nat] ==
  IF k = 0 THEN {[path |-> RootPath, inode |-> Root]}
  ELSE IF ~Entered(k-1) THEN {}
  ELSE UNION {StandingIn(s) : s \in {t \in StandingAt[k-1] : t.inode \in DirInode}}

Standing == UNION {StandingAt[k] : k \in 1..Cardinality(Inode)}

Prefix(p, q) == Len(p) <= Len(q) /\ SubSeq(q, 1, Len(p)) = p

(* An issue names the path, or a directory above it.  One about the text   *)
(* of a link is no excuse: the link itself is reported all the same.       *)
Excused(path) ==
  \E k \in DOMAIN issues : issues[k].site # "link" /\ Prefix(issues[k].path, path)

Listed(list, path, i) ==
  \E k \in DOMAIN list : list[k].full_path = path /\ list[k].inode = i

(* An object that stood still is in the report with its own inode, or an   *)
(* issue names it or a directory above it: changes elsewhere, however      *)
(* timed, never make the scanner lose it silently.                         *)
NothingStandingIsMissed ==
  pc = "collected" =>
    \A s \in Standing : Listed(items, s.path, s.inode) \/ Excused(s.path)

(* What discovery promises about the entries it finds, kept as a ledger.   *)
Promise ==
  INSTANCE Ledger WITH found <- discovered_count,
                       reported <- Reported,
                       rejected <- Cardinality(IssuesAt("entry")),
                       open <- pc \notin {"discovered", "collected", "failed"}

(* The scanner keeps that ledger, one entry at a time, and closes it once. *)
KeepsLedger == Promise!Spec

(* The scan ends, whatever fails and however the tree changes meanwhile.   *)
Terminates == <>(pc \in Terminal)
===========================================================================
