-------------------------------- MODULE MCRoles -------------------------------
(* Values of the constants of Roles for TLC. *)
EXTENDS Roles, TLC

RequestSymmetry == Permutations(Requests)
=============================================================================
