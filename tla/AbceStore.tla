----------------------------- MODULE AbceStore -----------------------------
(***************************************************************************)
(* What the memory manager promises to the programs it serves: a store of  *)
(* objects that refer to each other.  A program follows references from    *)
(* those it holds; an object may be reclaimed only when no such path leads *)
(* to it, and nothing brings a lost object back.                           *)
(***************************************************************************)
EXTENDS Naturals, FiniteSets

CONSTANTS Obj, DynScope

VARIABLES live, held, edges

storevars == <<live, held, edges>>

ClosedUnder(S) == \A o \in S : edges[o] \subseteq S
Reach == {o \in Obj : \A S \in SUBSET Obj : held \subseteq S /\ ClosedUnder(S) => o \in S}

Init ==
  /\ live = {DynScope} /\ held = {DynScope}
  /\ edges = [o \in Obj |-> {}]

\* A program step: it allocates the objects of new, moves references it can
\* reach, and at most forgets the rest.
Operate(new) ==
  /\ live' = live \cup new
  /\ held' \subseteq Reach \cup new
  /\ \A o \in Obj :
       edges'[o] \subseteq IF o \in Reach \cup new THEN Reach \cup new
                          ELSE edges[o]

Reclaim(dead) ==
  /\ dead \subseteq live \ Reach
  /\ live' = live \ dead
  /\ held' = held
  /\ \A o \in Obj : edges'[o] = IF o \in dead THEN {} ELSE edges[o]

Next ==
  \/ \E new \in SUBSET (Obj \ live) : Cardinality(new) <= 1 /\ Operate(new)
  \/ \E dead \in SUBSET live : Reclaim(dead)

Spec == Init /\ [][Next]_storevars
=============================================================================
