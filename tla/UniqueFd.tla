------------------------------ MODULE UniqueFd ------------------------------
(***************************************************************************)
(* kls::platform::UniqueFd (src/platform/unique_fd.cpp): objects that own  *)
(* a file descriptor each, in the hands of a caller that also holds plain  *)
(* descriptors, those it just opened or got back from release().  The      *)
(* kernel gives a closed number out again, the lowest first: closing one   *)
(* descriptor twice closes somebody else's.                                *)
(***************************************************************************)
EXTENDS Integers

CONSTANTS
  Object,   (* storage for UniqueFd objects                                *)
  MaxFd     (* bound: descriptor numbers are 0..MaxFd                      *)

Fd == 0..MaxFd
None == -1

ASSUME UniqueFdAssumption == MaxFd \in Nat

VARIABLES
  fd_,      (* fd_[o]: the member of object o, None while o does not exist *)
  alive,    (* the objects constructed and not yet destroyed               *)
  open,     (* the descriptors open in the process                         *)
  raw       (* those of them the caller holds as plain ints                *)

vars == <<fd_, alive, open, raw>>

TypeOK ==
  /\ fd_ \in [Object -> Fd \cup {None}]
  /\ alive \subseteq Object
  /\ open \subseteq Fd
  /\ raw \subseteq Fd

Init ==
  /\ fd_ = [o \in Object |-> None]
  /\ alive = {}
  /\ open = {}
  /\ raw = {}

(* open, openat, dup: the lowest number not in use. *)
Open(f) ==
  /\ f \in Fd \ open
  /\ \A g \in Fd \ open : f <= g
  /\ open' = open \cup {f}
  /\ raw' = raw \cup {f}
  /\ UNCHANGED <<fd_, alive>>

(* The caller closes a descriptor it holds, or gives it to fdopendir. *)
CloseRaw(f) ==
  /\ f \in raw
  /\ open' = open \ {f}
  /\ raw' = raw \ {f}
  /\ UNCHANGED <<fd_, alive>>

(* UniqueFd(), UniqueFd(int) *)
Construct(o, f) ==
  /\ o \notin alive
  /\ f \in raw \cup {None}
  /\ alive' = alive \cup {o}
  /\ fd_' = [fd_ EXCEPT ![o] = f]
  /\ raw' = raw \ {f}
  /\ UNCHANGED open

(* Mutant: the source keeps its descriptor. *)
MoveConstructCopying(o, p) ==
  /\ o \notin alive /\ p \in alive
  /\ alive' = alive \cup {o}
  /\ fd_' = [fd_ EXCEPT ![o] = fd_[p]]
  /\ UNCHANGED <<open, raw>>

(* UniqueFd(UniqueFd&&), with which a vector grows as well. *)
MoveConstruct(o, p) ==
  /\ o \notin alive /\ p \in alive
  /\ alive' = alive \cup {o}
  /\ fd_' = [fd_ EXCEPT ![o] = fd_[p], ![p] = None]
  /\ UNCHANGED <<open, raw>>

(* Mutant: an empty object releases -1, taken for a descriptor. *)
ReleaseNone(o) ==
  /\ o \in alive
  /\ fd_' = [fd_ EXCEPT ![o] = None]
  /\ raw' = raw \cup {fd_[o]}
  /\ UNCHANGED <<alive, open>>

Release(o) ==
  /\ o \in alive
  /\ fd_' = [fd_ EXCEPT ![o] = None]
  /\ raw' = raw \cup ({fd_[o]} \ {None})
  /\ UNCHANGED <<alive, open>>

(* Mutant: the descriptor closed is the new one. *)
CloseNew(old, new) == open' = open \ {new}

(* What reset closes when it puts new where old was. *)
CloseOld(old, new) == open' = IF new = old THEN open ELSE open \ {old}

(* reset(int): the caller passes a descriptor of its own, none, or get(). *)
Reset(o, new) ==
  /\ o \in alive
  /\ new \in raw \cup {None, fd_[o]}
  /\ CloseOld(fd_[o], new)
  /\ fd_' = [fd_ EXCEPT ![o] = new]
  /\ raw' = raw \ {new}
  /\ UNCHANGED alive

(* operator=(UniqueFd&&): reset(other.release()), unless it is itself. *)
MoveAssign(o, p) ==
  /\ {o, p} \subseteq alive
  /\ o # p
  /\ CloseOld(fd_[o], fd_[p])
  /\ fd_' = [fd_ EXCEPT ![o] = fd_[p], ![p] = None]
  /\ UNCHANGED <<alive, raw>>

MoveAssignItself(o) == o \in alive /\ UNCHANGED vars

Destroy(o) ==
  /\ o \in alive
  /\ CloseOld(fd_[o], None)
  /\ fd_' = [fd_ EXCEPT ![o] = None]
  /\ alive' = alive \ {o}
  /\ UNCHANGED raw

Next ==
  \/ \E f \in Fd : Open(f) \/ CloseRaw(f)
  \/ \E o \in Object : Release(o) \/ MoveAssignItself(o) \/ Destroy(o)
  \/ \E o \in Object, f \in Fd \cup {None} : Construct(o, f) \/ Reset(o, f)
  \/ \E o, p \in Object : MoveConstruct(o, p) \/ MoveAssign(o, p)

Spec == Init /\ [][Next]_vars

---------------------------------------------------------------------------

(* Every open descriptor has exactly one owner, an object or the caller,   *)
(* and every owner's descriptor is open: none leaks, whatever sequence of  *)
(* constructions, moves, resets and releases led here, and no object holds *)
(* a number that was closed and may be somebody else's by now.             *)
OneOwner ==
  /\ \A f \in open : f \in raw \/ \E o \in alive : fd_[o] = f
  /\ raw \subseteq open
  /\ \A o \in Object :
       fd_[o] # None =>
         /\ o \in alive
         /\ fd_[o] \in open \ raw
         /\ \A p \in Object \ {o} : fd_[p] # fd_[o]

(* A descriptor is closed by the object that held it and holds it no more, *)
(* or by the caller with a plain close: never one that was passed in.      *)
ClosedByOwner ==
  [][\A f \in open \ open' :
       \/ \E o \in alive : fd_[o] = f /\ fd_'[o] # f
       \/ f \in raw /\ fd_' = fd_]_vars
=============================================================================
