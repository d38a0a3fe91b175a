------------------------------ MODULE MCAudit ------------------------------
(* Small instances of Audit for TLC. *)
EXTENDS Audit, TLC

CONSTANTS r, d, e       \* inodes
CONSTANTS a, b          \* names
CONSTANTS root, user    \* accounts

MCInode == {r, d, e}
MCName == {a, b}
MCKind == [i \in MCInode |-> "directory"]
MCText == [i \in MCInode |-> [absolute |-> FALSE, names |-> <<a>>]]
NoRoute == <<>>

(* /a is a directory holding an empty directory. *)
MCTrees ==
  {[i \in MCInode |-> CASE i = r -> (a :> d @@ b :> NoInode)
                        [] i = d -> (a :> e @@ b :> NoInode)
                        [] OTHER -> (a :> NoInode @@ b :> NoInode)]}
MCDenied == {{}, {d}}
NoneDenied == {{}}
MCOptions == {[recursive |-> TRUE, include_hidden |-> TRUE,
               symlink_status |-> "read", maximum_depth |-> 9]}
NoNames == {}
SlashPath == <<>>
Ample == {9}
Scarce == {1, 2, 4}
NoErrno == {}
RootErrnos == {"ENOENT", "EIO"}
AnyFault == {"EACCES", "EIO", "ENOMEM", "ENFILE", "partial_mask"}
NoMemory == {"ENOMEM"}
ForPseudo == {b}

NoThreshold == {-1}
MCThresholds == {4}

(* Both directories are the user's, and orphans once the user is removed,  *)
(* which is a finding at the threshold; e is setgid, which is one below.   *)
Plain == [mode |-> {}, uid |-> user, gid |-> root, nlinks |-> 2, mtime |-> 0,
          btime |-> 0, flags |-> {}, capability |-> NoCapability,
          magic |-> "other"]
MCAttrSets == {[i \in MCInode |-> IF i = e THEN [Plain EXCEPT !.mode = {"ISGID"}] ELSE Plain]}

MCAccount == {root, user}
AllKnown == {{root, user}}
MCRemote == {user}
MCRoom == (root :> 1 @@ user :> 2)
============================================================================
