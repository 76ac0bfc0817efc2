----------------------------- MODULE AbceRbTree -----------------------------
(***************************************************************************)
(* The intrusive red-black tree (abcerbtree.h, abcerbtree.c) that holds    *)
(* the entries of dictionaries, of the buckets of scopes and of the string *)
(* cache.                                                                  *)
(*                                                                         *)
(* Callers keep one entry per key, and the tree moves entries by their     *)
(* pointers, so a node is identified with its key.  Side 0 is left, side 1 *)
(* is right.  A loop or tail recursion of the C code takes one step per    *)
(* round; op says in which one the code is, and key, cur and up are its    *)
(* locals.  abort(), or following NULL, is the absence of a step in a      *)
(* state where Aborts holds.                                               *)
(***************************************************************************)
EXTENDS Integers, FiniteSets

CONSTANTS
  Key,    \* the keys, in the order of abce_str_cmp
  NULL

ASSUME KeyAssumption == Key \subseteq Int /\ NULL \notin Key

VARIABLES
  tree,   \* root, and the fields of each node
  op,     \* the loop in progress
  key,    \* the key, or the node, the operation is about
  cur,    \* the node the loop is at
  up      \* the parent passed along with it by the deletion cases

vars == <<tree, op, key, cur, up>>

-----------------------------------------------------------------------------
Side == {0, 1}
Node == Key \cup {NULL}
Trees == [root   : Node,
          kid    : [Key -> [Side -> Node]],
          parent : [Key -> Node],
          black  : [Key -> BOOLEAN]]

Ops == {"ready", "get", "lookup", "insert", "repair", "find", "pred", "fix", "sibling"}

\* Every variable has its type, and the locals of a loop are there while it
\* runs: no loop starts on an empty tree, no case is entered without a parent.
TypeOK ==
  /\ tree \in Trees
  /\ op \in Ops /\ key \in Node /\ cur \in Node /\ up \in Node
  /\ op = "ready" <=> key = NULL
  /\ op \in {"insert", "repair", "pred"} => cur \in Key
  /\ op = "sibling" => up \in Key

Empty == [root   |-> NULL,
          kid    |-> [n \in Key |-> [d \in Side |-> NULL]],
          parent |-> [n \in Key |-> NULL],
          black  |-> [n \in Key |-> FALSE]]

Init ==
  /\ tree = Empty
  /\ op = "ready" /\ key = NULL /\ cur = NULL /\ up = NULL

-----------------------------------------------------------------------------
(* Pointers and colours.                                                   *)

Toward(k, n) == IF k < n THEN 0 ELSE 1
SideOf(t, p, n) == IF t.kid[p][0] = n THEN 0 ELSE 1
Red(t, n) == n # NULL /\ ~t.black[n]
Paint(t, n, b) == [t EXCEPT !.black[n] = b]

SetParent(t, n, p) == IF n = NULL THEN t ELSE [t EXCEPT !.parent[n] = p]
Adopt(t, p, d, n) == SetParent([t EXCEPT !.kid[p][d] = n], n, p)

\* n takes the place of old under p.
Hang(t, p, old, n) ==
  IF p = NULL THEN SetParent([t EXCEPT !.root = n], n, NULL)
  ELSE Adopt(t, p, SideOf(t, p, old), n)

\* Mutant: the kid that changes sides keeps q as its parent.
RotateParentKept(t, p, d) ==
  LET q == t.kid[p][1 - d]
  IN Hang(Adopt([t EXCEPT !.kid[p][1 - d] = t.kid[q][d]], q, d, p), t.parent[p], p, q)
\* p goes down on side d, its other kid q comes up in its place.
Rotate(t, p, d) ==
  LET q == t.kid[p][1 - d]
      b == t.kid[q][d]
  IN Hang(Adopt(Adopt(t, p, 1 - d, b), q, d, p), t.parent[p], p, q)

\* Nodes a and b trade places and colours.
Exchange(t, a, b) ==
  LET Swap(n) == IF n = a THEN b ELSE IF n = b THEN a ELSE n
  IN [root   |-> Swap(t.root),
      kid    |-> [n \in Key |-> [d \in Side |-> Swap(t.kid[Swap(n)][d])]],
      parent |-> [n \in Key |-> Swap(t.parent[Swap(n)])],
      black  |-> [n \in Key |-> t.black[Swap(n)]]]

\* The fields insert_nonexist writes before it looks for a place, and what is
\* left of a node its owner has freed.
Fresh(t, n) ==
  [t EXCEPT !.black[n] = FALSE, !.kid[n] = [d \in Side |-> NULL], !.parent[n] = NULL]

-----------------------------------------------------------------------------
\* Mutant: the loop does not move.
LowerNot(n) == n
Lower(n) == tree.kid[n][Toward(key, n)]

Goto(o, n, p) == op' = o /\ cur' = n /\ up' = p /\ key' = key
Done(t) == tree' = t /\ op' = "ready" /\ key' = NULL /\ cur' = NULL /\ up' = NULL

Begin(o, k) ==
  /\ op = "ready"
  /\ op' = o /\ key' = k /\ cur' = tree.root /\ up' = NULL
  /\ tree' = tree

\* Callers look a key up before they insert it, and find a node before they
\* delete it; those that tear a tree down delete its root until there is none.
Set(k) == Begin("lookup", k)
Get(k) == Begin("get", k)
Del(k) == Begin("find", k)

\* One round of the loop of nocmp_find_asym or of insert_nonexist.
Descend ==
  /\ op \in {"get", "lookup", "find", "insert"}
  /\ cur # NULL /\ cur # key
  /\ op = "insert" => tree.kid[cur][Toward(key, cur)] # NULL
  /\ Goto(op, Lower(cur), NULL)
  /\ tree' = tree

Found == cur # NULL /\ cur = key

Hit == op = "get" /\ Found /\ Done(tree)
Present == op = "lookup" /\ Found /\ Done(tree)
Absent == op \in {"get", "find"} /\ cur = NULL /\ Done(tree)

\* There is no memory for the entry.
NoMem == op = "lookup" /\ cur = NULL /\ Done(tree)

HasRoot == tree.root # NULL

PlaceRoot ==
  /\ op = "lookup" /\ cur = NULL /\ ~HasRoot
  /\ tree' = [Fresh(tree, key) EXCEPT !.root = key]
  /\ Goto("repair", key, NULL)

SeekPlace ==
  /\ op = "lookup" /\ cur = NULL /\ HasRoot
  /\ tree' = Fresh(tree, key)
  /\ Goto("insert", tree.root, NULL)

PlaceLeaf ==
  /\ op = "insert" /\ cur # key
  /\ tree.kid[cur][Toward(key, cur)] = NULL
  /\ tree' = Adopt(tree, cur, Toward(key, cur), key)
  /\ Goto("repair", key, NULL)

-----------------------------------------------------------------------------
(* abce_rb_tree_nocmp_insert_repair: cur is red and linked.                *)

Parent(n) == tree.parent[n]
Grand(n) == tree.parent[tree.parent[n]]
Uncle(n) == IF Grand(n) = NULL THEN NULL
            ELSE tree.kid[Grand(n)][1 - SideOf(tree, Grand(n), Parent(n))]

RepairRoot ==
  /\ op = "repair" /\ Parent(cur) = NULL
  /\ Done(Paint(tree, cur, TRUE))

RepairNothing ==
  /\ op = "repair" /\ Parent(cur) # NULL /\ ~Red(tree, Parent(cur))
  /\ Done(tree)

\* Mutant: the grandparent stays black.
RecolouredHalf(t, p, u, g) == Paint(Paint(t, p, TRUE), u, TRUE)
Recoloured(t, p, u, g) == Paint(Paint(Paint(t, p, TRUE), u, TRUE), g, FALSE)
RepairUp ==
  /\ op = "repair" /\ Parent(cur) # NULL
  /\ Red(tree, Parent(cur)) /\ Red(tree, Uncle(cur))
  /\ tree' = Recoloured(tree, Parent(cur), Uncle(cur), Grand(cur))
  /\ Goto("repair", Grand(cur), NULL)

RepairRotate ==
  LET p == Parent(cur)
      g == Grand(cur)
      d == SideOf(tree, g, p)
      inner == tree.kid[p][1 - d] = cur
      t == IF inner THEN Rotate(tree, p, d) ELSE tree
      top == IF inner THEN cur ELSE p
  IN /\ op = "repair" /\ p # NULL /\ g # NULL
     /\ Red(tree, p) /\ ~Red(tree, Uncle(cur))
     /\ Done(Paint(Paint(Rotate(t, g, 1 - d), top, TRUE), g, FALSE))

-----------------------------------------------------------------------------
(* abce_rb_tree_nocmp_delete.                                              *)

OnlyKid(t, n) == IF t.kid[n][1] = NULL THEN t.kid[n][0] ELSE t.kid[n][1]
Unlink(t, n) == Fresh(Hang(t, t.parent[n], n, OnlyKid(t, n)), n)

DeleteOneChild(t) ==
  LET c == OnlyKid(t, key)
  IN IF ~t.black[key] THEN Done(Unlink(t, key))
     ELSE IF Red(t, c) THEN Done(Paint(Unlink(t, key), c, TRUE))
     ELSE tree' = Unlink(t, key) /\ Goto("fix", c, t.parent[key])

BothKids(n) == tree.kid[n][0] # NULL /\ tree.kid[n][1] # NULL

DeleteHere == op = "find" /\ Found /\ ~BothKids(key) /\ DeleteOneChild(tree)

\* Mutant: the walk to the predecessor starts on the other side.
LowHalfWrong(n) == tree.kid[n][1]
LowHalf(n) == tree.kid[n][0]
SeekPred ==
  /\ op = "find" /\ Found /\ BothKids(key)
  /\ Goto("pred", LowHalf(key), NULL)
  /\ tree' = tree

PredRight ==
  /\ op = "pred" /\ tree.kid[cur][1] # NULL
  /\ Goto("pred", tree.kid[cur][1], NULL)
  /\ tree' = tree

PredTake ==
  /\ op = "pred" /\ tree.kid[cur][1] = NULL
  /\ DeleteOneChild(Exchange(tree, key, cur))

-----------------------------------------------------------------------------
(* abce_rb_tree_delete_case1 to case6: one black is missing above cur,     *)
(* which may be NULL, under up.                                            *)

FixSide == SideOf(tree, up, cur)
Sibling == tree.kid[up][1 - FixSide]
Inner == tree.kid[Sibling][FixSide]
Outer == tree.kid[Sibling][1 - FixSide]

FixRoot == op = "fix" /\ up = NULL /\ Done(tree)

\* case2
FixSibling ==
  /\ op = "fix" /\ up # NULL
  /\ tree' = IF Red(tree, Sibling)
             THEN Rotate(Paint(Paint(tree, up, FALSE), Sibling, TRUE), up, FixSide)
             ELSE tree
  /\ Goto("sibling", cur, up)

AllBlack == ~Red(tree, Sibling) /\ ~Red(tree, Inner) /\ ~Red(tree, Outer)

\* case3
FixUp ==
  /\ op = "sibling" /\ Sibling # NULL /\ AllBlack /\ tree.black[up]
  /\ tree' = Paint(tree, Sibling, FALSE)
  /\ Goto("fix", up, Parent(up))

\* case4
FixSwapColours ==
  /\ op = "sibling" /\ Sibling # NULL /\ AllBlack /\ ~tree.black[up]
  /\ Done(Paint(Paint(tree, Sibling, FALSE), up, TRUE))

\* Mutant: case5 is left out.
NearOnlyNever == FALSE
NearOnly == ~Red(tree, Sibling) /\ Red(tree, Inner) /\ ~Red(tree, Outer)
\* case5
Straightened ==
  IF NearOnly
  THEN Rotate(Paint(Paint(tree, Sibling, FALSE), Inner, TRUE), Sibling, 1 - FixSide)
  ELSE tree
\* case6
FixRotate ==
  LET s == Straightened.kid[up][1 - FixSide]
      far == Straightened.kid[s][1 - FixSide]
      t == Paint(Paint(Straightened, s, tree.black[up]), up, TRUE)
  IN /\ op = "sibling" /\ Sibling # NULL /\ ~AllBlack /\ (NearOnly \/ Outer # NULL)
     /\ Done(Rotate(Paint(t, far, TRUE), up, FixSide))

-----------------------------------------------------------------------------
\* rotate and exchange abort() on a node its parent does not know, which
\* PointersValid excludes.  Else: the key is in the tree although the lookup
\* missed it; the repair of an insertion has no grandparent to rotate; a case of
\* the deletion follows a sibling, or a far kid, that is not there.
Aborts ==
  \/ op = "insert" /\ cur = key
  \/ op = "repair" /\ Parent(cur) # NULL /\ Red(tree, Parent(cur)) /\ Grand(cur) = NULL
  \/ op = "sibling" /\ Sibling = NULL
  \/ op = "sibling" /\ Sibling # NULL /\ ~AllBlack /\ ~NearOnly /\ Outer = NULL

Step ==
  \/ Descend \/ Hit \/ Present \/ Absent \/ NoMem
  \/ PlaceRoot \/ SeekPlace \/ PlaceLeaf
  \/ RepairRoot \/ RepairNothing \/ RepairUp \/ RepairRotate
  \/ DeleteHere \/ SeekPred \/ PredRight \/ PredTake
  \/ FixRoot \/ FixSibling \/ FixUp \/ FixSwapColours \/ FixRotate

Next == (\E k \in Key : Set(k) \/ Get(k) \/ Del(k)) \/ Step

Spec == Init /\ [][Next]_vars
FairSpec == Spec /\ WF_vars(Step)

-----------------------------------------------------------------------------
Linked == {n \in Key : n = tree.root \/ tree.parent[n] # NULL}

\* The keys a descent can still meet from a node on.
Below ==
  LET b[n \in Node] == IF n = NULL THEN {}
                       ELSE {n} \cup b[tree.kid[n][0]] \cup b[tree.kid[n][1]]
  IN b

\* What abce_rb_subtree_height computes, -1 for a wrong one, when the slot on
\* side d of node p is owed one black.
Height(p, d) ==
  LET h[n \in Node] ==
        IF n = NULL THEN 0
        ELSE LET l == h[tree.kid[n][0]] + (IF n = p /\ d = 0 THEN 1 ELSE 0)
                 r == h[tree.kid[n][1]] + (IF n = p /\ d = 1 THEN 1 ELSE 0)
             IN IF l # r \/ l < 0 \/ r < 0 THEN -1
                ELSE IF tree.black[n] THEN r + 1 ELSE r
  IN h[tree.root]
Fixing == op \in {"fix", "sibling"} /\ up # NULL
BlackHeight == IF Fixing THEN Height(up, FixSide) ELSE Height(NULL, 0)

\* The code reaches no abort() and follows no NULL: the descent of an insertion
\* never meets the key the lookup missed, a red node has a grandparent, and a
\* node one black short has a sibling with the kids the cases look at.
NoAbort == ~Aborts

\* Between any two rounds kids and parents agree, no node hangs in two places,
\* and one that is out of the tree points nowhere (the C code's own
\* abce_rb_tree_nocmp_ptrs_valid, which nothing calls).
PointersValid ==
  /\ tree.root # NULL => tree.parent[tree.root] = NULL
  /\ \A n \in Key, d \in Side :
       tree.kid[n][d] # NULL =>
         tree.parent[tree.kid[n][d]] = n /\ tree.kid[n][d] # tree.kid[n][1 - d]
  /\ \A n \in Key : tree.parent[n] # NULL => \E d \in Side : tree.kid[tree.parent[n]][d] = n
  /\ \A n \in Key \ Linked : tree.kid[n] = [d \in Side |-> NULL]

\* At every point, in the middle of a repair too, the tree is a search tree of
\* all its nodes: rotations and the exchange with the predecessor keep the
\* order that find and the iteration rely on.
Ordered ==
  /\ Below[tree.root] = Linked
  /\ \A n \in Linked :
       /\ \A k \in Below[tree.kid[n][0]] : k < n
       /\ \A k \in Below[tree.kid[n][1]] : k > n

\* An operation ends with equal black heights, no red node under a red one and
\* a black root.  On the way exactly one thing may be wrong: the node being
\* repaired is red under a red parent (or as the root), or the slot being
\* fixed is one black short.
Balanced ==
  /\ BlackHeight >= 0
  /\ \A n \in Linked :
       Red(tree, n) /\ (n = tree.root \/ Red(tree, tree.parent[n])) =>
         op = "repair" /\ n = cur

\* A descent and a repair end: the loops move down, or up, the tree.
OperationEnds == (op # "ready") ~> (op = "ready")
=============================================================================
