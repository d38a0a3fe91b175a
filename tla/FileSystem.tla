---------------------------- MODULE FileSystem ----------------------------
(***************************************************************************)
(* The live filesystem under audit, as kls sees it through system calls.   *)
(* It is not part of the repository: kls only reads it, while every other  *)
(* process of the machine may change it between any two calls.  An inode   *)
(* keeps its type for life; what changes is which name of which directory  *)
(* leads to it, and which directories the auditor may open.                *)
(***************************************************************************)
EXTENDS Integers, FiniteSets, Sequences

CONSTANTS
  Inode,        (* objects of the filesystem                               *)
  Name,         (* names a directory entry can have                        *)
  NoInode,      (* "no such entry"                                         *)
  Root,         (* the directory the audit root names                      *)
  Slash,        (* the directory /: Root itself, or outside what is audited *)
  Kind,         (* Kind[i]: the type bits of inode i                       *)
  Trees,        (* the directory contents an audit may start from          *)
  DeniedSets,   (* the directories the auditor may not open, initially     *)
  MaxChanges    (* bound: changes other processes make during one audit    *)

(* FileType, as type_from_mode computes it from the type bits. *)
Kinds == {"directory", "regular", "symlink", "character_device", "block_device",
          "named_pipe", "unix_domain_socket", "unknown"}

DirInode == {i \in Inode : Kind[i] = "directory"}

Entries == [Inode -> [Name -> Inode \cup {NoInode}]]

(* A directory has one name at most.  The way from Slash down to Root is   *)
(* not in the model, and neither of them has a name.                       *)
OneName(tree) ==
  \A d, e \in DirInode, n, m \in Name :
    tree[d][n] \in DirInode =>
      /\ tree[d][n] \notin {Root, Slash}
      /\ tree[e][m] = tree[d][n] => e = d /\ m = n

ASSUME FileSystemAssumption ==
  /\ IsFiniteSet(Inode)
  /\ NoInode \notin Inode
  /\ Name # {}
  /\ Kind \in [Inode -> Kinds]
  /\ {Root, Slash} \subseteq DirInode
  /\ Trees \subseteq Entries
  /\ DeniedSets \subseteq SUBSET DirInode
  /\ MaxChanges \in Nat

ASSUME TreesAssumption == \A tree \in Trees : OneName(tree)

VARIABLES
  dirent,       (* dirent[d][n]: what the name n of directory d leads to   *)
  denied,       (* directories whose open fails with EACCES                *)
  past,         (* history: past[d][n] is every value dirent[d][n] has had *)
  changes       (* number of changes so far, bounded by MaxChanges         *)

fsVars == <<dirent, denied, past, changes>>

FsTypeOK ==
  /\ dirent \in Entries
  /\ denied \subseteq DirInode
  /\ past \in [Inode -> [Name -> SUBSET (Inode \cup {NoInode})]]
  /\ changes \in 0..MaxChanges

FsInit ==
  /\ dirent \in Trees
  /\ denied \in DeniedSets
  /\ past = [d \in Inode |-> [n \in Name |-> {dirent[d][n]}]]
  /\ changes = 0

---------------------------------------------------------------------------

(* Descent(i)[k]: the inodes at most k names below i. *)
Descent(i) ==
  LET Level[k \in Nat] ==
        IF k = 0 THEN {i}
        ELSE LET above == Level[k-1]
             IN above \cup {dirent[d][n] : d \in above \ {NoInode}, n \in Name}
  IN Level

(* The inodes at or below i; Cardinality(Inode) names reach all of them. *)
Subtree(i) == Descent(i)[Cardinality(Inode)] \ {NoInode}

Linked(i) == \E d \in DirInode, n \in Name : dirent[d][n] = i

Empty(d) == \A n \in Name : dirent[d][n] = NoInode

(* dirent becomes entries, and the history remembers the new values. *)
Rewrite(entries) ==
  /\ changes' = changes + 1
  /\ dirent' = entries
  /\ past' = [d \in Inode |-> [n \in Name |-> past[d][n] \cup {entries[d][n]}]]

(* A new name for i: mkdir, creat, symlink or link.  A directory has one   *)
(* name and is never below itself.                                         *)
Create(d, n, i) ==
  /\ dirent[d][n] = NoInode
  /\ Kind[i] = "directory" => ~Linked(i) /\ i \notin {Root, Slash} /\ d \notin Subtree(i)
  /\ Rewrite([dirent EXCEPT ![d][n] = i])
  /\ UNCHANGED denied

(* unlink, rmdir, or a rename to somewhere the audit does not reach. *)
Remove(d, n) ==
  /\ dirent[d][n] # NoInode
  /\ Rewrite([dirent EXCEPT ![d][n] = NoInode])
  /\ UNCHANGED denied

(* rename(2): atomic, and it may replace a file or an empty directory. *)
Rename(d, n, e, m) ==
  LET i == dirent[d][n]
      j == dirent[e][m]
  IN /\ i # NoInode
     /\ i # j
     /\ Kind[i] = "directory" => e \notin Subtree(i)
     /\ j # NoInode => \/ Kind[i] # "directory" /\ Kind[j] # "directory"
                       \/ Kind[i] = "directory" /\ Kind[j] = "directory" /\ Empty(j)
     /\ Rewrite([dirent EXCEPT ![d][n] = NoInode, ![e][m] = i])
     /\ UNCHANGED denied

ChangeMode(d) ==
  /\ changes' = changes + 1
  /\ denied' = IF d \in denied THEN denied \ {d} ELSE denied \cup {d}
  /\ UNCHANGED <<dirent, past>>

FsChange ==
  /\ changes < MaxChanges
  /\ \/ \E d \in DirInode, n \in Name :
          \/ \E i \in Inode : Create(d, n, i)
          \/ Remove(d, n)
          \/ \E e \in DirInode, m \in Name : Rename(d, n, e, m)
     \/ \E d \in DirInode : ChangeMode(d)

---------------------------------------------------------------------------

(* The entry has led to the same inode since before the audit. *)
Undisturbed(d, n) == past[d][n] = {dirent[d][n]}
===========================================================================
