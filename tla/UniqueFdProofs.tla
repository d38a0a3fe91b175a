--------------------------- MODULE UniqueFdProofs ---------------------------
(***************************************************************************)
(* UniqueFd, for any number of objects and of descriptors: TypeOK and      *)
(* OneOwner are together inductive, and with them each operation closes    *)
(* only what the object it is called on held.                              *)
(***************************************************************************)
EXTENDS UniqueFd, TLAPS

Inv == TypeOK /\ OneOwner

(* None is no descriptor. *)
LEMMA NoneIsNoFd == None \notin Fd /\ None \in Int /\ Fd \subseteq Int
  BY DEF None, Fd

LEMMA OwnedInit == Init => Inv
  BY NoneIsNoFd DEF Init, Inv, TypeOK, OneOwner

(* One step per operation. *)
LEMMA OwnedStep == Inv /\ [Next]_vars => Inv'
  <1> SUFFICES ASSUME Inv, [Next]_vars PROVE Inv'
    OBVIOUS
  <1> USE NoneIsNoFd DEF Inv, TypeOK, OneOwner
  <1>1. ASSUME NEW f \in Fd, Open(f) PROVE Inv'
    BY <1>1 DEF Open
  <1>2. ASSUME NEW f \in Fd, CloseRaw(f) PROVE Inv'
    BY <1>2 DEF CloseRaw
  <1>3. ASSUME NEW o \in Object, Release(o) PROVE Inv'
    BY <1>3 DEF Release
  <1>4. ASSUME NEW o \in Object, MoveAssignItself(o) PROVE Inv'
    BY <1>4 DEF MoveAssignItself, vars
  <1>5. ASSUME NEW o \in Object, Destroy(o) PROVE Inv'
    <2>1. fd_'[o] = None /\ \A p \in Object \ {o} : fd_'[p] = fd_[p]
      BY <1>5 DEF Destroy
    <2>2. open' = open \ {fd_[o]}
      BY <1>5 DEF Destroy, CloseOld
    <2>3. TypeOK'
      BY <1>5, <2>2 DEF Destroy
    <2>4. raw' \subseteq open'
      BY <1>5, <2>2 DEF Destroy
    <2>5. \A f \in open' : f \in raw' \/ \E p \in alive' : fd_'[p] = f
      BY <1>5, <2>1, <2>2 DEF Destroy
    <2>6. \A p \in Object :
            fd_'[p] # None =>
              /\ p \in alive'
              /\ fd_'[p] \in open' \ raw'
              /\ \A q \in Object \ {p} : fd_'[q] # fd_'[p]
      BY <1>5, <2>1, <2>2 DEF Destroy
    <2> QED
      BY <2>3, <2>4, <2>5, <2>6
  <1>6. ASSUME NEW o \in Object, NEW f \in Fd \cup {None}, Construct(o, f)
        PROVE Inv'
    BY <1>6 DEF Construct
  <1>7. ASSUME NEW o \in Object, NEW f \in Fd \cup {None}, Reset(o, f)
        PROVE Inv'
    BY <1>7 DEF Reset, CloseOld
  <1>8. ASSUME NEW o \in Object, NEW p \in Object, MoveConstruct(o, p)
        PROVE Inv'
    BY <1>8 DEF MoveConstruct
  <1>9. ASSUME NEW o \in Object, NEW p \in Object, MoveAssign(o, p)
        PROVE Inv'
    BY <1>9 DEF MoveAssign, CloseOld
  <1>10. CASE UNCHANGED vars
    BY <1>10 DEF vars
  <1> QED
    BY <1>1, <1>2, <1>3, <1>4, <1>5, <1>6, <1>7, <1>8, <1>9, <1>10 DEF Next

LEMMA Owned == Spec => []Inv
  BY OwnedInit, OwnedStep, PTL DEF Spec

(* What an object holds is a descriptor or nothing, whatever was moved or  *)
(* released before.                                                        *)
THEOREM DescriptorTypeCorrect == Spec => []TypeOK
  BY Owned, PTL DEF Inv

(* At every moment each open descriptor has one owner and each owner an    *)
(* open descriptor: moves and resets neither leak nor close twice.         *)
THEOREM EveryDescriptorOwned == Spec => []OneOwner
  BY Owned, PTL DEF Inv

(* No operation closes a descriptor its object did not hold. *)
THEOREM OnlyOwnersClose == Spec => ClosedByOwner
  <1> DEFINE Closed ==
        \A f \in open \ open' :
          \/ \E o \in alive : fd_[o] = f /\ fd_'[o] # f
          \/ f \in raw /\ fd_' = fd_
  <1>1. ASSUME Inv, [Next]_vars PROVE [Closed]_vars
    <2> USE <1>1, NoneIsNoFd DEF Inv, TypeOK, OneOwner
    <2>1. ASSUME NEW f \in Fd, CloseRaw(f) PROVE Closed
      BY <2>1 DEF CloseRaw
    <2>2. ASSUME NEW o \in Object, Destroy(o) PROVE Closed
      <3>1. open' \subseteq open /\ open \ open' \subseteq {fd_[o]}
        BY <2>2 DEF Destroy, CloseOld
      <3>2. fd_'[o] = None
        BY <2>2 DEF Destroy
      <3> QED
        BY <2>2, <3>1, <3>2 DEF Destroy
    <2>3. ASSUME NEW o \in Object, NEW f \in Fd \cup {None}, Reset(o, f)
          PROVE Closed
      <3>1. fd_'[o] = f
        BY <2>3 DEF Reset
      <3>2. open \ open' \subseteq {fd_[o]} \ {f}
        BY <2>3 DEF Reset, CloseOld
      <3> QED
        BY <2>3, <3>1, <3>2 DEF Reset
    <2>4. ASSUME NEW o \in Object, NEW p \in Object, MoveAssign(o, p)
          PROVE Closed
      <3>1. fd_'[o] = fd_[p]
        BY <2>4 DEF MoveAssign
      <3>2. open \ open' \subseteq {fd_[o]} \ {fd_[p]}
        BY <2>4 DEF MoveAssign, CloseOld
      <3> QED
        BY <2>4, <3>1, <3>2 DEF MoveAssign
    <2>5. open \subseteq open' => Closed
      OBVIOUS
    <2>6. ASSUME NEW f \in Fd, Open(f) PROVE open \subseteq open'
      BY <2>6 DEF Open
    <2>7. ASSUME NEW o \in Object, Release(o) \/ MoveAssignItself(o)
          PROVE open \subseteq open'
      BY <2>7 DEF Release, MoveAssignItself, vars
    <2>8. ASSUME NEW o \in Object, NEW f \in Fd \cup {None}, Construct(o, f)
          PROVE open \subseteq open'
      BY <2>8 DEF Construct
    <2>9. ASSUME NEW o \in Object, NEW p \in Object, MoveConstruct(o, p)
          PROVE open \subseteq open'
      BY <2>9 DEF MoveConstruct
    <2>10. Next => Closed
      <3> HIDE DEF Closed
      <3> QED
        BY <2>1, <2>2, <2>3, <2>4, <2>5, <2>6, <2>7, <2>8, <2>9 DEF Next
    <2> QED
      BY <1>1, <2>10
  <1> QED
    BY <1>1, Owned, PTL DEF Spec, ClosedByOwner
=============================================================================
