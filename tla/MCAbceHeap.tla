----------------------------- MODULE MCAbceHeap -----------------------------
(* Small instances of AbceHeap for TLC. *)
EXTENDS AbceHeap, TLC

CONSTANTS sc, o1, o2, o3
ObjThree == {sc, o1, o2}
ObjFour == {sc, o1, o2, o3}

\* Addresses other than the dynamic scope's are interchangeable.
Symmetry == Permutations(Obj \ {DynScope})
=============================================================================
