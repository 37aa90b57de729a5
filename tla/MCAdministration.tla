-------------------------- MODULE MCAdministration --------------------------
(***************************************************************************)
(* Administration for TLC.  Administrators are interchangeable.            *)
(***************************************************************************)
EXTENDS Administration, TLC

AdminSymmetry == Permutations(Admins)
============================================================================
