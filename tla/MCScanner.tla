----------------------------- MODULE MCScanner -----------------------------
(* Small instances of Scanner for TLC. *)
EXTENDS Scanner, TLC

CONSTANTS r, d, e, x, f, l, u   \* inodes
CONSTANTS a, b, h               \* names

MCInode == {r, d, e, x, f, l, u}
MCKind == [i \in MCInode |->
             CASE i \in {r, d, e, x} -> "directory"
               [] i = f -> "regular"
               [] i = l -> "symlink"
               [] i = u -> "unknown"]
MCName == {a, b, h}

NoEntry == [n \in MCName |-> NoInode]
(* /a is a directory with an empty directory below, /b a file; the link l  *)
(* and the directory x it points to are there for others to link in.       *)
RaceInode == {r, d, e, x, f, l}
RaceName == {a, b}
Nested ==
  [i \in RaceInode |-> CASE i = r -> (a :> d @@ b :> f)
                         [] i = d -> (a :> e @@ b :> NoInode)
                         [] OTHER -> (a :> NoInode @@ b :> NoInode)]
RaceKind == [i \in RaceInode |-> MCKind[i]]
(* l holds "/".  Where the audit is of /a, that is x. *)
MCText == [i \in MCInode |-> [absolute |-> TRUE, names |-> <<".">>]]
RaceText == [i \in RaceInode |-> MCText[i]]
RootBelow == <<a>>

(* Every small tree: any of these for the root, any for d, any for e. *)
SmallTrees ==
  {[i \in MCInode |-> CASE i = r -> R [] i = d -> D [] i = e -> E [] OTHER -> NoEntry] :
     R \in {t \in [MCName -> {d, l, NoInode}] :
              Cardinality({n \in MCName : t[n] = d}) <= 1},
     D \in {t \in [MCName -> {e, u, NoInode}] :
              Cardinality({n \in MCName : t[n] = e}) <= 1},
     E \in {NoEntry, [NoEntry EXCEPT ![a] = f]}}

(* Two directories side by side, a link below one and a directory with a   *)
(* file below the other.                                                   *)
Siblings ==
  [i \in RaceInode |-> CASE i = r -> (a :> d @@ b :> e)
                         [] i = d -> (a :> NoInode @@ b :> l)
                         [] i = e -> (a :> x @@ b :> NoInode)
                         [] i = x -> (a :> f @@ b :> NoInode)
                         [] OTHER -> (a :> NoInode @@ b :> NoInode)]
SiblingsOnly == {Siblings}

NestedOnly == {Nested}

AllOptions == [recursive : BOOLEAN, include_hidden : BOOLEAN,
               symlink_status : {"ignore", "read"}, maximum_depth : {0, 1, 9}]
RecursiveOnly == {[recursive |-> TRUE, include_hidden |-> TRUE,
                   symlink_status |-> "read", maximum_depth |-> 9]}

Ample == {9}
Scarce == 1..5
AnyFault == {"EACCES", "EPERM", "EIO", "ENOMEM", "ENFILE", "partial_mask",
             "long_target"}
AnyRootErrno == {"ENOENT", "ENOTDIR", "EACCES", "EIO"}

NoneDenied == {{}}
DDenied == {{}, {d}}
SlashPath == <<>>
HiddenNames == {h}
PseudoNames == {b}
NoPseudo == {}
NoErrno == {}
============================================================================
