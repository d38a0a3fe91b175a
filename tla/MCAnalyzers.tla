---------------------------- MODULE MCAnalyzers ----------------------------
(* Small instances of Analyzers for TLC. *)
EXTENDS Analyzers, TLC

CONSTANTS r, d, x, f, g, l, m, n, p  \* inodes
CONSTANTS a, b                  \* names
CONSTANTS root, user, ghost     \* accounts

MCInode == {r, d, x, f, g, l, m, n, p}
MCName == {a, b}
MCKind == [i \in MCInode |-> CASE i \in {r, d, x} -> "directory"
                               [] i \in {f, g} -> "regular"
                               [] i \in {l, m, n} -> "symlink"
                               [] i = p -> "named_pipe"]
(* The audit is of /b, and x is the directory /.  l holds "a", m "../a"    *)
(* and n "/a", both of which are outside of what is audited.               *)
MCText ==
  [i \in MCInode |->
     CASE i = m -> [absolute |-> FALSE, names |-> <<"..", a>>]
       [] i = n -> [absolute |-> TRUE, names |-> <<a>>]
       [] OTHER -> [absolute |-> FALSE, names |-> <<a>>]]
BelowB == <<b>>

(* A file below a directory; or a link by the name b and, by the name it   *)
(* holds, a file, a link out of the tree, or the link itself.  Outside of  *)
(* what is audited are a pipe and another file that may replace them.      *)
MCTrees ==
  {[i \in MCInode |-> CASE i = r -> top
                        [] i = d -> (a :> g @@ b :> NoInode)
                        [] i = x -> (a :> p @@ b :> NoInode)
                        [] OTHER -> (a :> NoInode @@ b :> NoInode)] :
     top \in {a :> f @@ b :> l, a :> n @@ b :> l, a :> l @@ b :> m}}
  \cup {[i \in MCInode |-> CASE i = r -> (a :> d @@ b :> NoInode)
                             [] i = d -> (a :> NoInode @@ b :> f)
                             [] i = x -> (a :> p @@ b :> NoInode)
                             [] OTHER -> (a :> NoInode @@ b :> NoInode)]}
NoneDenied == {{}}

Plain == [mode |-> {"IR", "IX"}, uid |-> root, gid |-> root, nlinks |-> 1,
          mtime |-> 0, btime |-> 0, flags |-> {}, capability |-> NoCapability,
          magic |-> "elf"]
Setuid == [Plain EXCEPT !.mode = {"ISUID", "IR", "IX", "IXOTH"}, !.mtime = 200000]
Capable(set) == [present |-> TRUE, supported |-> TRUE, permitted |-> set, inheritable |-> {}]

(* The file's metadata; the other file differs from a plain one in all     *)
(* that the analyzers ask for by path.                                     *)
Other == [Plain EXCEPT !.flags = {"immutable"}, !.capability = Capable({21}),
                       !.magic = "script", !.uid = ghost]
Files ==
  {Plain, Setuid,
   [Setuid EXCEPT !.mode = {"ISUID", "ISGID", "IR"}, !.uid = ghost, !.gid = user,
           !.magic = "other"],
   [Setuid EXCEPT !.capability = Capable({0, 13}), !.flags = {"append"}, !.uid = user],
   [Plain EXCEPT !.mode = {"ISGID", "ISVTX", "IX", "IWGRP"},
                 !.capability = [Capable({}) EXCEPT !.supported = FALSE]],
   [Plain EXCEPT !.mode = {"ISGID", "IR"}]}
MCAttrSets ==
  {[i \in MCInode |-> CASE i = f -> file [] i = g -> Other [] OTHER -> Plain] : file \in Files}

MCOptions == {[recursive |-> TRUE, include_hidden |-> TRUE,
               symlink_status |-> "read", maximum_depth |-> 9]}
NoNames == {}
Ample == {9}
Nothing == {}
BelowA == {<<b, a>>}
NameB == {b}

(* The record of root is too long for the first buffer, and ghost is gone. *)
MCAccount == {root, user, ghost}
MCKnown == {{root, user}}
MCRemote == {user}
MCRoom == (root :> 2 @@ user :> 1 @@ ghost :> 1)
Content == {"content"}
MCFailing == {"content", "stat"}
============================================================================
