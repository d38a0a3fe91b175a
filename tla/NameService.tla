----------------------------- MODULE NameService -----------------------------
(***************************************************************************)
(* getpwuid_r and getgrgid_r: the user and group databases behind the name *)
(* service, local or remote.  Not part of the repository.  Users and       *)
(* groups are accounts of one set.  An answer needs room in the caller's   *)
(* buffer; ERANGE says that there is not enough, and both callers in kls   *)
(* then double the buffer and ask again, until the answer fits.            *)
(***************************************************************************)
EXTENDS Integers

CONSTANTS
  Account,            (* numeric ids of users and groups                   *)
  KnownSets,          (* the accounts the databases may hold at the start  *)
  Room,               (* Room[a]: size of the record of account a          *)
  InitialBuffer,      (* what sysconf suggests, or the default             *)
  Remote,             (* accounts the lookup of which may fail             *)
  MaxAccountChanges   (* bound: accounts added or removed during one audit *)

ASSUME NameServiceAssumption ==
  /\ KnownSets \subseteq SUBSET Account
  /\ Room \in [Account -> Nat]
  /\ InitialBuffer \in Nat \ {0}
  /\ Remote \subseteq Account
  /\ MaxAccountChanges \in Nat

VARIABLES
  known,              (* the accounts that exist                           *)
  buffer,             (* size of the buffer of the lookup in progress      *)
  account_changes,
  lost,               (* history: accounts that have at some time been missing *)
  failed              (* history: accounts a lookup of which has failed    *)

nsVars == <<known, buffer, account_changes, lost, failed>>

NsTypeOK ==
  /\ known \subseteq Account
  /\ buffer \in Nat \ {0}
  /\ account_changes \in 0..MaxAccountChanges
  /\ lost \subseteq Account
  /\ failed \subseteq Account

NsInit ==
  /\ known \in KnownSets
  /\ buffer = InitialBuffer
  /\ account_changes = 0
  /\ lost = Account \ known
  /\ failed = {}

(* useradd, userdel, or a directory server that comes and goes. *)
AccountChange ==
  /\ account_changes < MaxAccountChanges
  /\ account_changes' = account_changes + 1
  /\ \E a \in Account :
       known' = IF a \in known THEN known \ {a} ELSE known \cup {a}
  /\ lost' = lost \cup (Account \ known')
  /\ UNCHANGED <<buffer, failed>>

(* Mutant: asked again with a buffer of the same size. *)
ResizeBufferInPlace(a) ==
  /\ a \in known
  /\ buffer < Room[a]
  /\ buffer' = buffer
  /\ UNCHANGED <<known, account_changes, lost, failed>>

(* ERANGE: resize and ask again. *)
ResizeBuffer(a) ==
  /\ a \in known
  /\ buffer < Room[a]
  /\ buffer' = 2 * buffer
  /\ UNCHANGED <<known, account_changes, lost, failed>>

Fits(a) == a \in known => Room[a] <= buffer

(* The lookup of a ends; the next one starts with a buffer of its own.     *)
Looked(a, answer) ==
  /\ \/ answer = "found"   /\ a \in known /\ Fits(a)
     \/ answer = "missing" /\ a \notin known
     \/ answer = "error"   /\ a \in Remote
  /\ buffer' = InitialBuffer
  /\ failed' = failed \cup (IF answer = "error" THEN {a} ELSE {})
  /\ UNCHANGED <<known, account_changes, lost>>
==============================================================================
