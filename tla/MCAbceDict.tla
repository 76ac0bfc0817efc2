---------------------------- MODULE MCAbceDict ----------------------------
(* Small instances of AbceDict for TLC. *)
EXTENDS AbceDict, TLC

KeysFour == 1 .. 4

\* Keys are ordered, values are not.
Symmetry == Permutations(Value)
=============================================================================
