-------------------------- MODULE MCMaritimePages --------------------------
(***************************************************************************)
(* Small instances of MaritimePages for TLC. Rows are interchangeable.     *)
(***************************************************************************)
EXTENDS MaritimePages, TLC

Symmetry == Permutations(Rows)
=============================================================================
