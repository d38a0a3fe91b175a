------------------------------- MODULE Paths -------------------------------
(***************************************************************************)
(* How the kernel finds what a path leads to: name by name in the tree of  *)
(* the moment, with the text of a symbolic link put in the place of its    *)
(* name.  A link keeps its text; what the text leads to may be removed or  *)
(* replaced while the link stands.                                         *)
(***************************************************************************)
EXTENDS FileSystem

CONSTANTS
  Text,         (* Text[i]: what readlink gives for the symbolic link i    *)
  TextLimit,    (* bound: the components of a text, PATH_MAX               *)
  LinkLimit,    (* links followed on the way to one object, MAXSYMLINKS    *)
  RootRoute     (* the names that lead from Slash to Root                  *)

(* "." also stands for nothing between two slashes, or after the last one. *)
Component == Name \cup {".", ".."}

LinkText == [absolute : BOOLEAN, names : Seq(Component)]

ASSUME PathsAssumption ==
  /\ Name \cap {".", ".."} = {}
  /\ Inode \cap {"ENOTDIR", "ELOOP"} = {} /\ NoInode \notin {"ENOTDIR", "ELOOP"}
  /\ Text \in [Inode -> LinkText]
  /\ TextLimit \in Nat /\ LinkLimit \in Nat
  /\ \A i \in Inode : Len(Text[i].names) <= TextLimit
  /\ RootRoute \in Seq(Name)
  /\ Root = Slash <=> RootRoute = <<>>

StartsWith(names, route) ==
  Len(route) <= Len(names) /\ SubSeq(names, 1, Len(route)) = route

---------------------------------------------------------------------------

(* The directory d is in.  What has no name hangs directly under Slash. *)
Up(tree, d) ==
  LET Holders == {e \in DirInode : \E n \in Name : tree[e][n] = d}
  IN IF Holders = {} THEN Slash ELSE CHOOSE e \in Holders : TRUE

LookedUp(tree, d, n) ==
  CASE n = "."  -> d
    [] n = ".." -> Up(tree, d)
    [] OTHER    -> tree[d][n]

(* A lookup on its way: the object arrived at, or the error; the names     *)
(* still to look up; and the links followed.                               *)
Way == [here : Inode \cup {NoInode, "ENOTDIR", "ELOOP"}, todo : Seq(Component), links : Nat]

(* From the directory d on, a link's text and then the names in rest. *)
Followed(text, d, rest, links) ==
  LET throughRoot == text.absolute /\ StartsWith(text.names, RootRoute)
      names == IF throughRoot
               THEN SubSeq(text.names, Len(RootRoute) + 1, Len(text.names))
               ELSE text.names
  IN [here  |-> IF throughRoot THEN Root ELSE IF text.absolute THEN Slash ELSE d,
      todo  |-> names \o rest,
      links |-> links]

(* One name more. *)
Further(tree) ==
  [s \in Way |->
     LET i == LookedUp(tree, s.here, Head(s.todo))
     IN IF s.todo = <<>> \/ s.here \notin Inode THEN s
        ELSE IF s.here \notin DirInode THEN [s EXCEPT !.here = "ENOTDIR"]
        ELSE IF ~(i \in Inode /\ Kind[i] = "symlink")
             THEN [here |-> i, todo |-> Tail(s.todo), links |-> s.links]
        ELSE IF s.links = LinkLimit THEN [s EXCEPT !.here = "ELOOP"]
        ELSE Followed(Text[i], s.here, Tail(s.todo), s.links + 1)]

Setout(d, names) == [here |-> d, todo |-> names, links |-> 0]

(* The names looked up from the directory d on, one after the other. *)
Resolution(tree, d, names) ==
  LET State[k \in Nat] ==
        IF k = 0 THEN Setout(d, names)
        ELSE Further(tree)[State[k-1]]
  IN State

(* So many are enough for any path. *)
Lookups(names) == Len(names) + LinkLimit * TextLimit

(* What the path leads to, all links followed: an inode, NoInode (ENOENT), *)
(* "ENOTDIR" or "ELOOP".                                                   *)
LeadsTo(tree, d, names) == Resolution(tree, d, names)[Lookups(names)].here

(* n has meant the same in d throughout the history of the tree. *)
Unmoved(tree, history, d, n) ==
  CASE n = "."  -> TRUE
    [] n = ".." -> \/ \E e \in DirInode, m \in Name : history[e][m] = {d}
                   \/ \A e \in DirInode, m \in Name : d \notin history[e][m]
    [] OTHER    -> history[d][n] = {tree[d][n]}

(* ... and so has every name looked up on the way, those of links too. *)
SteadyWay(tree, history, d, names) ==
  \A k \in 0..(Lookups(names) - 1) :
    LET s == Resolution(tree, d, names)[k]
    IN s.todo # <<>> /\ s.here \in DirInode => Unmoved(tree, history, s.here, Head(s.todo))

WayStill(names) == SteadyWay(dirent, past, Root, names)

---------------------------------------------------------------------------

(* A path through directories only, as the scan takes them: the names      *)
(* looked up from the root, no link followed.                              *)
Advance(tree, v, n) == IF v \in DirInode THEN tree[v][n] ELSE NoInode

Resolved(tree, names) ==
  LET Step[k \in Nat] ==
        IF k = 0 THEN Root ELSE Advance(tree, Step[k-1], names[k])
  IN Step

(* What all the names arrive at. *)
Walked(names) == Resolved(dirent, names)[Len(names)]

(* Every entry on the way has led to the same inode all along. *)
Steady(tree, history, names) ==
  \A k \in 1..Len(names) :
    LET here == Resolved(tree, names)[k-1]
    IN here \in DirInode /\ history[here][names[k]] = {tree[here][names[k]]}

(* ... since the audit began. *)
Still(names) == Steady(dirent, past, names)
===========================================================================
