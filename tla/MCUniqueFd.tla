----------------------------- MODULE MCUniqueFd -----------------------------
(* Three objects and four descriptors. *)
EXTENDS UniqueFd

CONSTANTS o1, o2, o3

MCObject == {o1, o2, o3}
=============================================================================
