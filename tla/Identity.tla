------------------------------ MODULE Identity ------------------------------
(***************************************************************************)
(* kls::platform::IdentityResolver (src/platform/identity_resolver.cpp):   *)
(* the names of owners and groups, each asked for once and then cached.    *)
(* Which name an account has is left out: "name" is its name.              *)
(***************************************************************************)
EXTENDS NameService

VARIABLES owners, groups      (* owners_ and groups_ *)

resolver == <<owners, groups>>

Cache == [Account -> {"absent", "name", "UNKNOWN"}]

IdentityTypeOK == owners \in Cache /\ groups \in Cache

IdentityInit ==
  /\ owners = [a \in Account |-> "absent"]
  /\ groups = [a \in Account |-> "absent"]

(* Mutant: the cache is filled and never looked at. *)
LooksUpAlways(cache, a, answer) ==
  /\ Looked(a, answer)
  /\ answer # "error"

(* What the cache or, failing that, the database says of a. *)
LooksUp(cache, a, answer) ==
  IF cache[a] = "absent"
  THEN Looked(a, answer) /\ answer # "error"
  ELSE /\ answer = (IF cache[a] = "name" THEN "found" ELSE "missing")
       /\ UNCHANGED nsVars

NameFor(answer) == IF answer = "found" THEN "name" ELSE "UNKNOWN"

OwnersName(uid, name) ==
  /\ \E answer \in {"found", "missing"} :
       LooksUp(owners, uid, answer) /\ name = NameFor(answer)
  /\ owners' = [owners EXCEPT ![uid] = name]
  /\ UNCHANGED groups

GroupsName(gid, name) ==
  /\ \E answer \in {"found", "missing"} :
       LooksUp(groups, gid, answer) /\ name = NameFor(answer)
  /\ groups' = [groups EXCEPT ![gid] = name]
  /\ UNCHANGED owners

(* ERANGE: the lookup goes on with a larger buffer. *)
AsksAgain(cache, a) ==
  cache[a] = "absent" /\ ResizeBuffer(a) /\ UNCHANGED resolver

(* Any other error is thrown as std::system_error. *)
Throws(cache, a) ==
  cache[a] = "absent" /\ Looked(a, "error") /\ UNCHANGED resolver
=============================================================================
