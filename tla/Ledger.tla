------------------------------- MODULE Ledger -------------------------------
(***************************************************************************)
(* What discovery promises about directory entries, whoever changes the    *)
(* filesystem meanwhile: an entry once found is settled before the next    *)
(* is found, settled once, as reported or as rejected, and never taken     *)
(* back; the ledger closes with every entry settled and stays as it is.    *)
(***************************************************************************)
EXTENDS Integers

VARIABLES found, reported, rejected, open

vars == <<found, reported, rejected, open>>

Settled == found = reported + rejected

Init ==
  /\ found = 0 /\ reported = 0 /\ rejected = 0
  /\ open = TRUE

Find ==
  /\ open /\ Settled
  /\ found' = found + 1
  /\ UNCHANGED <<reported, rejected, open>>

Report ==
  /\ open /\ ~Settled
  /\ reported' = reported + 1
  /\ UNCHANGED <<found, rejected, open>>

Reject ==
  /\ open /\ ~Settled
  /\ rejected' = rejected + 1
  /\ UNCHANGED <<found, reported, open>>

Close ==
  /\ open /\ Settled
  /\ open' = FALSE
  /\ UNCHANGED <<found, reported, rejected>>

Next == Find \/ Report \/ Reject \/ Close

Spec == Init /\ [][Next]_vars
=============================================================================
