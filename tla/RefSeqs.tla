------------------------------- MODULE RefSeqs -------------------------------
(***************************************************************************)
(* Sequences of references: how often one occurs, and the removal from the *)
(* object table that fills the hole with the last entry.                   *)
(***************************************************************************)
EXTENDS Naturals, Sequences, FiniteSets, Functions

Occurrences(s, o) == Cardinality({i \in DOMAIN s : s[i] = o})

\* gcblockbase[i] = gcblockbase[--gcblocksz]
SwapRemove(t, i) ==
  [j \in 1 .. Len(t) - 1 |-> IF j = i THEN t[Len(t)] ELSE t[j]]
=============================================================================
