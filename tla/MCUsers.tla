------------------------------ MODULE MCUsers ------------------------------
(***************************************************************************)
(* Users for TLC.  Threads, persons, names and works are interchangeable:  *)
(* the specification compares them for equality only.                      *)
(***************************************************************************)
EXTENDS Users, TLC

Symmetry == Permutations(Threads) \cup Permutations(Persons)
              \cup Permutations(Names) \cup Permutations(Works)
============================================================================
