-------------------------- MODULE AbceRbTreeProofs --------------------------
(***************************************************************************)
(* The red-black tree of AbceRbTree keeps its pointers, its order, its     *)
(* colours and its black heights, and never aborts, for every set of keys. *)
(*                                                                         *)
(* Below and Height are recursive functions.  What they compute is found   *)
(* through the sets of nodes that a fixed point of their equations gives   *)
(* to each node: such sets exist after every step because the step says    *)
(* how they change, and they are unique because a node's set is larger     *)
(* than those of its kids.                                                 *)
(***************************************************************************)
EXTENDS AbceRbTree, FiniteSetTheorems, WellFoundedInduction, TLAPS

-----------------------------------------------------------------------------
(* The fields of the trees the operators build.                            *)

LEMMA Sides ==
  ASSUME NEW d \in Side
  PROVE  /\ 1 - d \in Side /\ 1 - d # d /\ 1 - (1 - d) = d
         /\ \A e \in Side : e = d \/ e = 1 - d
  BY DEF Side

LEMMA BothSides == 0 \in Side /\ 1 \in Side /\ 1 - 0 = 1 /\ 1 - 1 = 0 /\ 0 # 1
  BY DEF Side

LEMMA Nodes ==
  /\ NULL \in Node /\ NULL \notin Key /\ Key \subseteq Node
  /\ \A n \in Node : n # NULL => n \in Key
  BY KeyAssumption DEF Node

LEMMA TreeFields ==
  ASSUME NEW t \in Trees
  PROVE  /\ t.root \in Node
         /\ \A n \in Key, d \in Side : t.kid[n][d] \in Node
         /\ \A n \in Key : t.parent[n] \in Node /\ t.black[n] \in BOOLEAN
  BY DEF Trees

LEMMA PaintFields ==
  ASSUME NEW t \in Trees, NEW n \in Node, NEW b \in BOOLEAN
  PROVE  /\ Paint(t, n, b) \in Trees
         /\ Paint(t, n, b).root = t.root
         /\ Paint(t, n, b).kid = t.kid
         /\ Paint(t, n, b).parent = t.parent
         /\ \A m \in Key : Paint(t, n, b).black[m] = IF m = n THEN b ELSE t.black[m]
  BY KeyAssumption DEF Paint, Trees, Node

LEMMA SetParentFields ==
  ASSUME NEW t \in Trees, NEW n \in Node, NEW p \in Node
  PROVE  /\ SetParent(t, n, p) \in Trees
         /\ SetParent(t, n, p).root = t.root
         /\ SetParent(t, n, p).kid = t.kid
         /\ SetParent(t, n, p).black = t.black
         /\ \A m \in Key : SetParent(t, n, p).parent[m] = IF m = n THEN p ELSE t.parent[m]
  BY KeyAssumption DEF SetParent, Trees, Node

LEMMA AdoptFields ==
  ASSUME NEW t \in Trees, NEW p \in Key, NEW d \in Side, NEW n \in Node
  PROVE  /\ Adopt(t, p, d, n) \in Trees
         /\ Adopt(t, p, d, n).root = t.root
         /\ Adopt(t, p, d, n).black = t.black
         /\ \A m \in Key, e \in Side :
              Adopt(t, p, d, n).kid[m][e] = IF m = p /\ e = d THEN n ELSE t.kid[m][e]
         /\ \A m \in Key : Adopt(t, p, d, n).parent[m] = IF m = n THEN p ELSE t.parent[m]
<1> DEFINE s == [t EXCEPT !.kid[p][d] = n]
           u == SetParent(s, n, p)
<1>1. /\ s \in Trees /\ s.root = t.root /\ s.black = t.black /\ s.parent = t.parent
      /\ \A m \in Key, e \in Side : s.kid[m][e] = IF m = p /\ e = d THEN n ELSE t.kid[m][e]
  BY DEF Trees
<1>2. Adopt(t, p, d, n) = u
  BY Zenon DEF Adopt
<1> HIDE DEF s
<1>3. p \in Node /\ s \in Trees
  BY <1>1, Nodes
<1>4. /\ u \in Trees /\ u.root = s.root /\ u.kid = s.kid /\ u.black = s.black
      /\ \A m \in Key : u.parent[m] = IF m = n THEN p ELSE s.parent[m]
  BY <1>3, SetParentFields
<1> HIDE DEF u
<1> QED BY <1>1, <1>2, <1>4

\* p knows its kid old, once.
LEMMA HangFields ==
  ASSUME NEW t \in Trees, NEW p \in Node, NEW old \in Key, NEW n \in Node,
         p # NULL => \E d \in Side : t.kid[p][d] = old /\ t.kid[p][1 - d] # old
  PROVE  LET u == Hang(t, p, old, n)
         IN /\ u \in Trees
            /\ u.root = IF p = NULL THEN n ELSE t.root
            /\ u.black = t.black
            /\ \A m \in Key, e \in Side :
                 u.kid[m][e] = IF m = p /\ t.kid[m][e] = old THEN n ELSE t.kid[m][e]
            /\ \A m \in Key : u.parent[m] = IF m = n THEN p ELSE t.parent[m]
<1> DEFINE u == Hang(t, p, old, n)
<1>1. CASE p = NULL
  <2> DEFINE s == [t EXCEPT !.root = n]
  <2>1. /\ s \in Trees /\ s.root = n /\ s.kid = t.kid /\ s.black = t.black /\ s.parent = t.parent
    BY DEF Trees
  <2>2. u = SetParent(s, n, NULL)
    BY <1>1, Zenon DEF Hang
  <2> HIDE DEF s, u
  <2>3. /\ u \in Trees /\ u.root = s.root /\ u.kid = s.kid /\ u.black = s.black
        /\ \A m \in Key : u.parent[m] = IF m = n THEN NULL ELSE s.parent[m]
    <3>1. s \in Trees /\ NULL \in Node
      BY <2>1, Nodes
    <3> DEFINE v == SetParent(s, n, NULL)
    <3>2. /\ v \in Trees /\ v.root = s.root /\ v.kid = s.kid /\ v.black = s.black
          /\ \A m \in Key : v.parent[m] = IF m = n THEN NULL ELSE s.parent[m]
      BY <3>1, SetParentFields
    <3> QED BY <2>2, <3>2
  <2>4. \A m \in Key : m # p
    BY <1>1, Nodes
  <2>5. \A m \in Key, e \in Side : u.kid[m][e] = t.kid[m][e]
    BY <2>1, <2>3
  <2> QED BY <1>1, <2>1, <2>3, <2>4, <2>5 DEF u
<1>2. CASE p # NULL
  <2> DEFINE d == SideOf(t, p, old)
  <2>1. p \in Key /\ d \in Side /\ t.kid[p][d] = old /\ t.kid[p][1 - d] # old
    BY <1>2, Nodes, Sides, BothSides DEF SideOf, Side
  <2>2. u = Adopt(t, p, d, n)
    BY <1>2, Zenon DEF Hang
  <2> HIDE DEF u, d
  <2>3. /\ u \in Trees /\ u.root = t.root /\ u.black = t.black
        /\ \A m \in Key, e \in Side : u.kid[m][e] = IF m = p /\ e = d THEN n ELSE t.kid[m][e]
        /\ \A m \in Key : u.parent[m] = IF m = n THEN p ELSE t.parent[m]
    <3>1. p \in Key /\ d \in Side
      BY <2>1
    <3> DEFINE v == Adopt(t, p, d, n)
    <3>2. /\ v \in Trees /\ v.root = t.root /\ v.black = t.black
          /\ \A m \in Key, e \in Side : v.kid[m][e] = IF m = p /\ e = d THEN n ELSE t.kid[m][e]
          /\ \A m \in Key : v.parent[m] = IF m = n THEN p ELSE t.parent[m]
      BY <3>1, AdoptFields
    <3> QED BY <2>2, <3>2
  <2>4. \A e \in Side : t.kid[p][e] = old <=> e = d
    BY <2>1, Sides
  <2>5. \A m \in Key, e \in Side :
           u.kid[m][e] = IF m = p /\ t.kid[m][e] = old THEN n ELSE t.kid[m][e]
    BY <2>3, <2>4
  <2> QED BY <1>2, <2>3, <2>5 DEF u
<1> QED BY <1>1, <1>2

LEMMA FreshFields ==
  ASSUME NEW t \in Trees, NEW n \in Key
  PROVE  LET u == Fresh(t, n)
         IN /\ u \in Trees /\ u.root = t.root
            /\ \A m \in Key, e \in Side : u.kid[m][e] = IF m = n THEN NULL ELSE t.kid[m][e]
            /\ \A m \in Key : u.parent[m] = IF m = n THEN NULL ELSE t.parent[m]
            /\ \A m \in Key : u.black[m] = IF m = n THEN FALSE ELSE t.black[m]
<1>1. [d \in Side |-> NULL] \in [Side -> Node]
  BY Nodes
<1> QED BY <1>1, Nodes DEF Fresh, Trees


-----------------------------------------------------------------------------
(* The shape of a tree: B gives the nodes from each node down.             *)

InTree(t) == {n \in Key : n = t.root \/ t.parent[n] # NULL}

\* PointersValid of any tree.
Pointers(t) ==
  /\ t.root # NULL => t.parent[t.root] = NULL
  /\ \A n \in Key, d \in Side :
       t.kid[n][d] # NULL => t.parent[t.kid[n][d]] = n /\ t.kid[n][d] # t.kid[n][1 - d]
  /\ \A n \in Key : t.parent[n] # NULL => \E d \in Side : t.kid[t.parent[n]][d] = n
  /\ \A n \in Key \ InTree(t), d \in Side : t.kid[n][d] = NULL

\* B solves the equation of Below.
Covers(t, B) ==
  /\ B \in [Node -> SUBSET Key]
  /\ B[NULL] = {}
  /\ \A n \in Key : B[n] = {n} \cup B[t.kid[n][0]] \cup B[t.kid[n][1]]

\* Nothing hangs below itself, or on both sides of a node.
Layered(t, B) ==
  /\ \A n \in Node : IsFiniteSet(B[n])
  /\ \A n \in Key, d \in Side :
       n \notin B[t.kid[n][d]] /\ \A k \in B[t.kid[n][d]] : k \notin B[t.kid[n][1 - d]]
  /\ B[t.root] = InTree(t)

Shape(t, B) == t \in Trees /\ Pointers(t) /\ Covers(t, B) /\ Layered(t, B)

\* Each node's kids are on the side of it that a search for them takes.
Sorted(t, B) ==
  \A n \in Key, d \in Side : \A k \in B[t.kid[n][d]] : Toward(k, n) = d

LEMMA TowardFacts ==
  ASSUME NEW a \in Key, NEW b \in Key
  PROVE  /\ Toward(a, b) \in Side
         /\ a # b => \A d \in Side : Toward(a, b) = d <=> Toward(b, a) = 1 - d
         /\ \A c \in Key, d \in Side :
              a # b /\ b # c /\ Toward(a, b) = d /\ Toward(b, c) = d => a # c /\ Toward(a, c) = d
  BY KeyAssumption DEF Toward, Side

\* A set of naturals that is not empty has a least element.
LEMMA LeastNat ==
  ASSUME NEW T, T \subseteq Nat, T # {}
  PROVE  \E n \in T : \A m \in T : n <= m
<1> DEFINE R == OpToRel(<, Nat)
<1>1. IsWellFoundedOn(R, Nat)
  BY NatLessThanWellFounded
<1>2. \A m, n \in Nat : m < n => <<m, n>> \in R
  BY DEF OpToRel
<1> HIDE DEF R
<1>3. PICK n \in T : \A m \in T : ~(<<m, n>> \in R)
  BY <1>1, WFMin
<1>4. ASSUME NEW m \in T PROVE n <= m
  <2>1. m \in Nat /\ n \in Nat /\ ~(m < n)
    BY <1>2, <1>3
  <2> QED BY <2>1
<1> QED BY <1>4

LEMMA CoverKids ==
  ASSUME NEW t \in Trees, NEW B, Covers(t, B), NEW n \in Key
  PROVE  /\ n \in B[n]
         /\ \A d \in Side : B[t.kid[n][d]] \subseteq B[n]
         /\ \A k \in B[n] : k = n \/ \E d \in Side : k \in B[t.kid[n][d]]
<1>1. B[n] = {n} \cup B[t.kid[n][0]] \cup B[t.kid[n][1]]
  BY DEF Covers
<1> QED BY <1>1 DEF Side

\* Induction from the leaves up: what passes from the kids to a node holds of
\* every node, as a node's set is larger than its kids'.
LEMMA NodeInduction ==
  ASSUME NEW t \in Trees, NEW B, Covers(t, B), Layered(t, B), NEW S, NULL \in S,
         \A n \in Key : t.kid[n][0] \in S /\ t.kid[n][1] \in S => n \in S
  PROVE  \A n \in Node : n \in S
<1> SUFFICES ASSUME \E n \in Node : n \notin S PROVE FALSE
  OBVIOUS
<1> DEFINE Size(n) == Cardinality(B[n])
           T == {Size(n) : n \in {m \in Node : m \notin S}}
<1>1. \A n \in Node : Size(n) \in Nat
  BY FS_CardinalityType DEF Layered
<1>2. T \subseteq Nat /\ T # {}
  BY <1>1
<1>3. PICK c \in T : \A s \in T : c <= s
  BY <1>2, LeastNat
<1>4. PICK n \in Node : n \notin S /\ c = Size(n)
  BY <1>3
<1>5. n \in Key
  BY <1>4, Nodes
<1>6. ASSUME NEW d \in Side PROVE t.kid[n][d] \in S
  <2> DEFINE k == t.kid[n][d]
  <2>1. k \in Node
    BY <1>5, TreeFields
  <2>2. B[k] \subseteq B[n] /\ n \in B[n] /\ n \notin B[k] /\ IsFiniteSet(B[n])
    BY <1>5, CoverKids DEF Layered
  <2>3. Size(k) <= Size(n) /\ Size(k) # Size(n)
    BY <2>2, FS_Subset
  <2>4. Size(k) \in Nat /\ Size(n) \in Nat
    BY <1>1, <2>1
  <2> HIDE DEF Size
  <2>5. ~(Size(n) <= Size(k))
    BY <2>3, <2>4
  <2> QED BY <1>3, <1>4, <2>1, <2>5
<1> QED BY <1>4, <1>5, <1>6, BothSides

\* What is below a node that is below n is below n.
LEMMA Transitive ==
  ASSUME NEW t, NEW B, Shape(t, B), NEW x \in Node, NEW n \in B[x]
  PROVE  n \in Key /\ B[n] \subseteq B[x]
<1>1. t \in Trees /\ Covers(t, B) /\ Layered(t, B)
  BY DEF Shape
<1> DEFINE S == {y \in Node : \A m \in B[y] : m \in Key /\ B[m] \subseteq B[y]}
<1>2. NULL \in S
  BY <1>1, Nodes DEF Covers
<1>3. ASSUME NEW y \in Key, t.kid[y][0] \in S, t.kid[y][1] \in S PROVE y \in S
  <2>1. ASSUME NEW m \in B[y] PROVE m \in Key /\ B[m] \subseteq B[y]
    <3>1. m = y \/ \E d \in Side : m \in B[t.kid[y][d]]
      BY <1>1, CoverKids
    <3>2. \A d \in Side : B[t.kid[y][d]] \subseteq B[y]
      BY <1>1, CoverKids
    <3> QED BY <1>3, <3>1, <3>2 DEF Side
  <2> QED BY <2>1, Nodes
<1>4. x \in S
  <2> HIDE DEF S
  <2> QED BY <1>1, <1>2, <1>3, NodeInduction
<1> QED BY <1>4

\* The parent of a node below x is below x, or above it.
LEMMA Upward ==
  ASSUME NEW t, NEW B, Shape(t, B), NEW x \in Node, NEW n \in B[x], n # x
  PROVE  t.parent[n] \in B[x]
<1>1. t \in Trees /\ Covers(t, B) /\ Layered(t, B) /\ Pointers(t)
  BY DEF Shape
<1> DEFINE S == {y \in Node : \A m \in B[y] : m = y \/ t.parent[m] \in B[y]}
<1>2. NULL \in S
  BY <1>1, Nodes DEF Covers
<1>3. ASSUME NEW y \in Key, t.kid[y][0] \in S, t.kid[y][1] \in S PROVE y \in S
  <2>1. ASSUME NEW m \in B[y], m # y PROVE t.parent[m] \in B[y]
    <3>1. y \in B[y] /\ \E d \in Side : m \in B[t.kid[y][d]]
      BY <1>1, <2>1, CoverKids
    <3>2. PICK d \in Side : m \in B[t.kid[y][d]]
      BY <3>1
    <3>3. B[t.kid[y][d]] \subseteq B[y]
      BY <1>1, CoverKids
    <3>4. t.kid[y][d] \in S
      BY <1>3 DEF Side
    <3>5. CASE m = t.kid[y][d]
      <4>1. t.kid[y][d] # NULL
        BY <1>1, <3>2, Nodes DEF Covers
      <4>2. t.parent[t.kid[y][d]] = y
        BY <1>1, <4>1 DEF Pointers
      <4> QED BY <3>1, <3>5, <4>2
    <3>6. CASE m # t.kid[y][d]
      BY <3>2, <3>3, <3>4, <3>6
    <3> QED BY <3>5, <3>6
  <2> QED BY <2>1, Nodes
<1>4. x \in S
  <2> HIDE DEF S
  <2> QED BY <1>1, <1>2, <1>3, NodeInduction
<1> QED BY <1>4

\* The sets below each node are the only solution of the equation of Below.
LEMMA CoverUnique ==
  ASSUME NEW t, NEW B, Shape(t, B), NEW C, Covers(t, C)
  PROVE  C = B
<1>1. t \in Trees /\ Covers(t, B) /\ Layered(t, B)
  BY DEF Shape
<1> DEFINE S == {y \in Node : C[y] = B[y]}
<1>2. NULL \in S
  BY <1>1, Nodes DEF Covers
<1>3. ASSUME NEW y \in Key, t.kid[y][0] \in S, t.kid[y][1] \in S PROVE y \in S
  BY <1>1, <1>3, Nodes DEF Covers
<1>4. \A n \in Node : n \in S
  <2> HIDE DEF S
  <2> QED BY <1>1, <1>2, <1>3, NodeInduction
<1>5. B \in [Node -> SUBSET Key] /\ C \in [Node -> SUBSET Key]
  BY <1>1 DEF Covers
<1> QED BY <1>4, <1>5


LEMMA KidFacts ==
  ASSUME NEW t, NEW B, Shape(t, B), NEW n \in Key, NEW d \in Side, t.kid[n][d] # NULL
  PROVE  LET k == t.kid[n][d]
         IN /\ k \in Key /\ k \in InTree(t) /\ n \in InTree(t)
            /\ t.parent[k] = n /\ t.kid[n][1 - d] # k
            /\ k \in B[k] /\ k \in B[n] /\ n \in B[n] /\ n \notin B[k] /\ B[k] \subseteq B[n]
<1>1. t \in Trees /\ Pointers(t) /\ Covers(t, B) /\ Layered(t, B)
  BY DEF Shape
<1>2. t.kid[n][d] \in Key
  BY <1>1, TreeFields, Nodes
<1>3. t.parent[t.kid[n][d]] = n /\ t.kid[n][d] # t.kid[n][1 - d] /\ n \in InTree(t)
  BY <1>1 DEF Pointers
<1>4. t.kid[n][d] \in InTree(t)
  BY <1>2, <1>3, Nodes DEF InTree
<1>5. t.kid[n][d] \in B[t.kid[n][d]] /\ B[t.kid[n][d]] \subseteq B[n] /\ n \in B[n]
  BY <1>1, <1>2, CoverKids
<1>6. n \notin B[t.kid[n][d]]
  BY <1>1 DEF Layered
<1> QED BY <1>2, <1>3, <1>4, <1>5, <1>6

LEMMA ParentFacts ==
  ASSUME NEW t, NEW B, Shape(t, B), NEW n \in InTree(t)
  PROVE  LET p == t.parent[n]
         IN /\ n \in Key /\ n \in B[n]
            /\ p = NULL <=> n = t.root
            /\ p # NULL =>
                 /\ p \in Key /\ p \in InTree(t) /\ n \in B[p] /\ p \notin B[n] /\ B[n] \subseteq B[p]
                 /\ \E d \in Side : t.kid[p][d] = n /\ t.kid[p][1 - d] # n
<1>1. t \in Trees /\ Pointers(t) /\ Covers(t, B) /\ Layered(t, B) /\ n \in Key
  BY DEF Shape, InTree
<1>2. n \in B[n]
  BY <1>1, CoverKids
<1>3. t.parent[n] = NULL <=> n = t.root
  BY <1>1, Nodes DEF InTree, Pointers
<1>4. ASSUME t.parent[n] # NULL
      PROVE  /\ t.parent[n] \in Key /\ t.parent[n] \in InTree(t) /\ n \in B[t.parent[n]]
             /\ t.parent[n] \notin B[n] /\ B[n] \subseteq B[t.parent[n]]
             /\ \E d \in Side : t.kid[t.parent[n]][d] = n /\ t.kid[t.parent[n]][1 - d] # n
  <2>1. t.parent[n] \in Key
    BY <1>1, <1>4, TreeFields, Nodes
  <2>2. PICK d \in Side : t.kid[t.parent[n]][d] = n
    BY <1>1, <1>4 DEF Pointers
  <2>3. n # NULL
    BY <1>1, Nodes
  <2> QED BY <2>1, <2>2, <2>3, KidFacts
<1> QED BY <1>1, <1>2, <1>3, <1>4

LEMMA RootFacts ==
  ASSUME NEW t, NEW B, Shape(t, B)
  PROVE  /\ t.root \in Node
         /\ t.root = NULL => InTree(t) = {}
         /\ t.root # NULL => t.root \in InTree(t) /\ t.parent[t.root] = NULL
         /\ \A n \in InTree(t) : n \in Key /\ n \in B[t.root]
  BY TreeFields, Nodes DEF Shape, Layered, Covers, Pointers, InTree

\* Neither colours nor the fields of nodes outside matter to the shape.
LEMMA SameShape ==
  ASSUME NEW t, NEW B, Shape(t, B), NEW u \in Trees,
         u.root = t.root, u.kid = t.kid, u.parent = t.parent
  PROVE  /\ Shape(u, B) /\ InTree(u) = InTree(t)
         /\ Sorted(t, B) => Sorted(u, B)
<1>1. t \in Trees /\ Pointers(t) /\ Covers(t, B) /\ Layered(t, B)
  BY DEF Shape
<1>2. InTree(u) = InTree(t)
  BY DEF InTree
<1>3. Pointers(u)
  BY <1>1, <1>2 DEF Pointers
<1>4. Covers(u, B)
  BY <1>1 DEF Covers
<1>5. Layered(u, B)
  BY <1>1, <1>2 DEF Layered
<1>6. Sorted(t, B) => Sorted(u, B)
  BY DEF Sorted
<1> QED BY <1>2, <1>3, <1>4, <1>5, <1>6 DEF Shape

LEMMA PaintShape ==
  ASSUME NEW t, NEW B, Shape(t, B), NEW n \in Node, NEW b \in BOOLEAN
  PROVE  /\ Shape(Paint(t, n, b), B) /\ InTree(Paint(t, n, b)) = InTree(t)
         /\ Sorted(t, B) => Sorted(Paint(t, n, b), B)
<1>1. t \in Trees
  BY DEF Shape
<1> DEFINE u == Paint(t, n, b)
<1>2. u \in Trees /\ u.root = t.root /\ u.kid = t.kid /\ u.parent = t.parent
  BY <1>1, PaintFields
<1> HIDE DEF u
<1>3. Shape(u, B) /\ InTree(u) = InTree(t) /\ (Sorted(t, B) => Sorted(u, B))
  BY <1>2, SameShape
<1> QED BY <1>3 DEF u

-----------------------------------------------------------------------------
(* Rotations.                                                              *)

LEMMA RotateFields ==
  ASSUME NEW t, NEW B, Shape(t, B), NEW p \in InTree(t), NEW d \in Side,
         t.kid[p][1 - d] # NULL
  PROVE  LET q == t.kid[p][1 - d]
             b == t.kid[q][d]
             g == t.parent[p]
             u == Rotate(t, p, d)
         IN /\ p \in Key /\ q \in Key /\ b \in Node /\ g \in Node
            /\ q # p /\ b # p /\ b # q /\ g # p /\ g # q /\ (b # NULL => g # b)
            /\ u \in Trees
            /\ u.root = IF g = NULL THEN q ELSE t.root
            /\ u.black = t.black
            /\ \A m \in Key, e \in Side :
                 u.kid[m][e] = IF m = p THEN IF e = d THEN t.kid[p][e] ELSE b
                               ELSE IF m = q THEN IF e = d THEN p ELSE t.kid[q][e]
                               ELSE IF m = g /\ t.kid[g][e] = p THEN q
                               ELSE t.kid[m][e]
            /\ \A m \in Key :
                 u.parent[m] = IF m = q THEN g ELSE IF m = p THEN q
                               ELSE IF m = b THEN p ELSE t.parent[m]
<1> DEFINE q == t.kid[p][1 - d]
           b == t.kid[q][d]
           g == t.parent[p]
           u == Rotate(t, p, d)
           v == Adopt(t, p, 1 - d, b)
           w == Adopt(v, q, d, p)
           x == Hang(w, g, p, q)
<1>1. t \in Trees /\ 1 - d \in Side /\ 1 - d # d
  BY Sides DEF Shape
<1>2. p \in Key /\ p \in B[p] /\ (g # NULL => g \in Key /\ p \in B[g] /\ g \notin B[p])
  BY ParentFacts
<1>3. g # NULL => \E e \in Side : t.kid[g][e] = p /\ t.kid[g][1 - e] # p
  BY ParentFacts
<1>4. q \in Key /\ q \in B[p] /\ q \in B[q] /\ p \notin B[q] /\ B[q] \subseteq B[p] /\ q # p
  BY <1>1, <1>2, KidFacts
<1>5. b \in Node /\ g \in Node
  BY <1>1, <1>2, <1>4, TreeFields
<1>6. b # NULL => b \in Key /\ b \in B[q] /\ q \notin B[b] /\ b \in B[b]
  BY <1>1, <1>4, KidFacts
<1>7. b # p /\ b # q /\ g # p /\ g # q /\ (b # NULL => g # b)
  BY <1>2, <1>4, <1>6, Nodes
<1> HIDE DEF b, g, q
<1>8. u = x
  BY Zenon DEF Rotate, b, g, q
<1>9. /\ v \in Trees /\ v.root = t.root /\ v.black = t.black
      /\ \A m \in Key, e \in Side : v.kid[m][e] = IF m = p /\ e = 1 - d THEN b ELSE t.kid[m][e]
      /\ \A m \in Key : v.parent[m] = IF m = b THEN p ELSE t.parent[m]
  BY <1>1, <1>2, <1>5, AdoptFields
<1> HIDE DEF v
<1>10. p \in Node /\ q \in Node
  BY <1>2, <1>4, Nodes
<1>11. /\ w \in Trees /\ w.root = v.root /\ w.black = v.black
       /\ \A m \in Key, e \in Side : w.kid[m][e] = IF m = q /\ e = d THEN p ELSE v.kid[m][e]
       /\ \A m \in Key : w.parent[m] = IF m = p THEN q ELSE v.parent[m]
  BY <1>4, <1>9, <1>10, AdoptFields
<1> HIDE DEF w
<1>12. g # NULL => \E e \in Side : w.kid[g][e] = p /\ w.kid[g][1 - e] # p
  <2>1. g # NULL => \A e \in Side : w.kid[g][e] = t.kid[g][e]
    BY <1>2, <1>7, <1>9, <1>11
  <2> QED BY <1>3, <2>1, Sides
<1>13. /\ x \in Trees /\ x.root = (IF g = NULL THEN q ELSE w.root) /\ x.black = w.black
       /\ \A m \in Key, e \in Side : x.kid[m][e] = IF m = g /\ w.kid[m][e] = p THEN q ELSE w.kid[m][e]
       /\ \A m \in Key : x.parent[m] = IF m = q THEN g ELSE w.parent[m]
  BY <1>2, <1>5, <1>10, <1>11, <1>12, HangFields
<1> HIDE DEF x, u
<1>14. ASSUME NEW m \in Key, NEW e \in Side
       PROVE  u.kid[m][e] = IF m = p THEN IF e = d THEN t.kid[p][e] ELSE b
                            ELSE IF m = q THEN IF e = d THEN p ELSE t.kid[q][e]
                            ELSE IF m = g /\ t.kid[g][e] = p THEN q
                            ELSE t.kid[m][e]
  <2>1. e = d \/ e = 1 - d
    BY Sides
  <2>2. w.kid[m][e] = IF m = p THEN IF e = d THEN t.kid[p][e] ELSE b
                      ELSE IF m = q THEN IF e = d THEN p ELSE t.kid[q][e]
                      ELSE t.kid[m][e]
    BY <1>1, <1>4, <1>9, <1>11, <2>1
  <2>3. u.kid[m][e] = IF m = g /\ w.kid[m][e] = p THEN q ELSE w.kid[m][e]
    BY <1>8, <1>13
  <2> QED BY <1>7, <2>2, <2>3
<1>15. ASSUME NEW m \in Key
       PROVE  u.parent[m] = IF m = q THEN g ELSE IF m = p THEN q
                            ELSE IF m = b THEN p ELSE t.parent[m]
  BY <1>7, <1>8, <1>9, <1>11, <1>13
<1>16. u \in Trees /\ u.root = (IF g = NULL THEN q ELSE t.root) /\ u.black = t.black
  BY <1>8, <1>9, <1>11, <1>13
<1> QED BY <1>2, <1>4, <1>5, <1>7, <1>14, <1>15, <1>16 DEF b, g, q, u


\* Where p and its kid q trade places, only their own sets change.
RotatedBelow(t, B, p, d) ==
  [B EXCEPT ![t.kid[p][1 - d]] = B[p],
            ![p] = {p} \cup B[t.kid[p][d]] \cup B[t.kid[t.kid[p][1 - d]][d]]]

LEMMA RotatePointers ==
  ASSUME NEW t, NEW B, Shape(t, B), NEW p \in InTree(t), NEW d \in Side,
         t.kid[p][1 - d] # NULL
  PROVE  /\ Pointers(Rotate(t, p, d))
         /\ InTree(Rotate(t, p, d)) = InTree(t)
<1> DEFINE q == t.kid[p][1 - d]
           b == t.kid[q][d]
           g == t.parent[p]
           u == Rotate(t, p, d)
<1>1. /\ p \in Key /\ q \in Key /\ b \in Node /\ g \in Node
      /\ q # p /\ b # p /\ b # q /\ g # p /\ g # q /\ (b # NULL => g # b)
      /\ u \in Trees /\ u.root = (IF g = NULL THEN q ELSE t.root)
  BY RotateFields
<1>2. /\ \A m \in Key, e \in Side :
           u.kid[m][e] = IF m = p THEN IF e = d THEN t.kid[p][e] ELSE b
                         ELSE IF m = q THEN IF e = d THEN p ELSE t.kid[q][e]
                         ELSE IF m = g /\ t.kid[g][e] = p THEN q
                         ELSE t.kid[m][e]
      /\ \A m \in Key :
           u.parent[m] = IF m = q THEN g ELSE IF m = p THEN q
                         ELSE IF m = b THEN p ELSE t.parent[m]
  BY RotateFields
<1>3. /\ t \in Trees /\ Pointers(t)
      /\ t.parent[q] = p /\ q \in InTree(t) /\ q # NULL /\ p # NULL
      /\ b # NULL => b \in Key /\ t.parent[b] = q /\ b \in InTree(t)
      /\ g = NULL <=> p = t.root
      /\ g # NULL => g \in Key /\ g \in InTree(t) /\ \E e \in Side : t.kid[g][e] = p
  <2>1. 1 - d \in Side
    BY Sides
  <2>2. t.parent[q] = p /\ q \in InTree(t)
    BY <1>1, <2>1, KidFacts
  <2>3. ASSUME b # NULL PROVE b \in Key /\ t.parent[b] = q /\ b \in InTree(t)
    <3>1. q \in Key /\ t.kid[q][d] # NULL
      BY <1>1, <2>3
    <3> HIDE DEF q
    <3> QED BY <3>1, KidFacts
  <2>4. g = NULL <=> p = t.root
    BY ParentFacts
  <2>5. g # NULL => g \in Key /\ g \in InTree(t) /\ \E e \in Side : t.kid[g][e] = p
    BY ParentFacts
  <2> QED BY <1>1, <2>2, <2>3, <2>4, <2>5, Nodes DEF Shape
<1>4. \A e \in Side : e = d \/ e = 1 - d
  BY Sides
<1>5. /\ 1 - d \in Side /\ 1 - d # d /\ t.kid[p][1 - d] = q /\ t.kid[q][d] = b
      /\ t.parent[p] = g /\ \A e \in Side : 1 - e \in Side /\ 1 - e # e
  BY Sides
<1> HIDE DEF q, b, g, u
<1>6. /\ t.root # NULL => t.parent[t.root] = NULL
      /\ \A n \in Key, e \in Side :
           t.kid[n][e] # NULL => t.parent[t.kid[n][e]] = n /\ t.kid[n][e] # t.kid[n][1 - e]
      /\ \A n \in Key : t.parent[n] # NULL => \E e \in Side : t.kid[t.parent[n]][e] = n
      /\ \A n \in Key \ InTree(t), e \in Side : t.kid[n][e] = NULL
  BY <1>3 DEF Pointers
<1>7. ASSUME NEW m \in Key PROVE m \in InTree(u) <=> m \in InTree(t)
  <2>1. m \in InTree(u) <=> m = u.root \/ u.parent[m] # NULL
    BY DEF InTree
  <2>2. m \in InTree(t) <=> m = t.root \/ t.parent[m] # NULL
    BY DEF InTree
  <2>3. CASE m = q
    BY <1>1, <1>2, <1>3, <2>1, <2>3
  <2>4. CASE m = p
    BY <1>1, <1>2, <1>3, <2>1, <2>4
  <2>5. CASE m = b
    <3>1. b # NULL /\ u.parent[b] = p
      BY <1>1, <1>2, <2>5, Nodes
    <3> QED BY <1>3, <2>1, <2>5, <3>1
  <2>6. CASE m # p /\ m # q /\ m # b
    <3>1. u.parent[m] = t.parent[m]
      BY <1>2, <2>6
    <3>2. m = u.root <=> m = t.root
      BY <1>1, <1>3, <2>6
    <3> QED BY <2>1, <2>2, <3>1, <3>2
  <2> QED BY <2>3, <2>4, <2>5, <2>6
<1>8. InTree(u) = InTree(t)
  BY <1>7 DEF InTree
<1>9. u.root # NULL => u.parent[u.root] = NULL
  <2>1. t.root # NULL => t.root \in Key
    BY <1>3, TreeFields, Nodes
  <2> QED BY <1>1, <1>2, <1>3, <1>6, <2>1
<1>10. ASSUME NEW n \in Key, NEW e \in Side, u.kid[n][e] # NULL
       PROVE  u.parent[u.kid[n][e]] = n /\ u.kid[n][e] # u.kid[n][1 - e]
  <2>1. t.kid[n][e] \in Node /\ t.kid[n][1 - e] \in Node
    BY <1>3, <1>5, TreeFields
  <2>2. CASE n = p
    <3>1. t.kid[p][d] # NULL => t.kid[p][d] # b /\ t.kid[p][d] # p /\ t.kid[p][d] # q
      BY <1>1, <1>3, <1>5, <1>6
    <3>2. t.kid[p][d] # NULL => t.kid[p][d] \in Key /\ t.parent[t.kid[p][d]] = p
      BY <1>1, <1>3, <1>6, TreeFields, Nodes
    <3>3. u.kid[p][d] = t.kid[p][d] /\ u.kid[p][1 - d] = b /\ 1 - (1 - d) = d
      BY <1>1, <1>2, <1>5, Sides
    <3>4. b # NULL => u.parent[b] = p
      BY <1>1, <1>2, <1>3
    <3>5. t.kid[p][d] # NULL => u.parent[t.kid[p][d]] = p
      BY <1>2, <3>1, <3>2
    <3> QED BY <1>4, <1>10, <2>2, <3>1, <3>3, <3>4, <3>5
  <2>3. CASE n = q
    <3> DEFINE c == t.kid[q][1 - d]
    <3>1. c # NULL => c \in Key /\ t.parent[c] = q /\ c # b /\ c # p /\ c # q
      BY <1>1, <1>3, <1>5, <1>6, TreeFields, Nodes
    <3>2. u.kid[q][d] = p /\ u.kid[q][1 - d] = c
      BY <1>1, <1>2, <1>5
    <3> HIDE DEF c
    <3>3. 1 - (1 - d) = d
      BY Sides
    <3>4. u.parent[p] = q /\ (c # NULL => u.parent[c] = q)
      BY <1>1, <1>2, <3>1
    <3> QED BY <1>3, <1>4, <1>10, <2>3, <3>1, <3>2, <3>3, <3>4
  <2>4. CASE n # p /\ n # q
    <3>1. t.kid[n][e] # NULL => t.kid[n][e] \in Key /\ t.parent[t.kid[n][e]] = n
      BY <1>6, <2>1, Nodes
    <3>2. t.kid[n][1 - e] # NULL => t.parent[t.kid[n][1 - e]] = n
      BY <1>5, <1>6
    <3>3. (t.kid[n][e] # q /\ t.kid[n][1 - e] # q /\ t.kid[n][e] # b) \/ t.kid[n][e] = NULL
      BY <1>3, <2>4, <3>1, <3>2
    <3>4. t.kid[n][e] # NULL => t.kid[n][e] # t.kid[n][1 - e]
      BY <1>6
    <3>5. CASE t.kid[n][e] = p
      <4>1. n = g
        BY <1>3, <1>5, <3>1, <3>5
      <4>2. u.kid[n][e] = q
        BY <1>2, <2>4, <3>5, <4>1
      <4>3. u.kid[n][1 - e] = t.kid[n][1 - e] /\ t.kid[n][1 - e] # q
        BY <1>2, <1>3, <1>5, <2>4, <3>2, <3>4, <3>5, <4>1
      <4> QED BY <1>1, <1>2, <4>1, <4>2, <4>3
    <3>6. CASE t.kid[n][e] # p
      <4>1. u.kid[n][e] = t.kid[n][e]
        BY <1>2, <2>4, <3>6
      <4>2. t.kid[n][e] # q /\ t.kid[n][e] # b
        BY <1>3, <2>4, <3>1, <4>1, <1>10
      <4>3. u.parent[u.kid[n][e]] = n
        BY <1>2, <1>10, <3>1, <3>6, <4>1, <4>2
      <4>4. u.kid[n][1 - e] = q \/ u.kid[n][1 - e] = t.kid[n][1 - e]
        BY <1>2, <1>5, <2>4
      <4> QED BY <1>10, <3>4, <4>1, <4>2, <4>3, <4>4
    <3> QED BY <3>5, <3>6
  <2> QED BY <2>2, <2>3, <2>4
<1>11. ASSUME NEW m \in Key, u.parent[m] # NULL
       PROVE  \E e \in Side : u.kid[u.parent[m]][e] = m
  <2>1. CASE m = q
    BY <1>1, <1>2, <1>3, <1>11, <2>1
  <2>2. CASE m = p
    BY <1>1, <1>2, <1>3, <1>11, <2>2
  <2>3. CASE m = b
    BY <1>1, <1>2, <1>3, <1>5, <1>11, <2>3
  <2>4. CASE m # p /\ m # q /\ m # b
    <3>1. u.parent[m] = t.parent[m] /\ t.parent[m] \in Key
      BY <1>2, <1>3, <1>11, <2>4, TreeFields, Nodes
    <3>2. PICK e \in Side : t.kid[t.parent[m]][e] = m
      BY <1>6, <1>11, <3>1
    <3>3. u.kid[t.parent[m]][e] = m
      BY <1>1, <1>2, <1>4, <1>5, <2>4, <3>1, <3>2
    <3> QED BY <3>1, <3>3
  <2> QED BY <2>1, <2>2, <2>3, <2>4
<1>12. ASSUME NEW m \in Key \ InTree(u), NEW e \in Side PROVE u.kid[m][e] = NULL
  <2>1. m \notin InTree(t) /\ m # p /\ m # q /\ (g # NULL => m # g) /\ m # NULL
    BY <1>3, <1>8, Nodes
  <2> QED BY <1>2, <1>6, <2>1
<1>13. Pointers(u)
  BY <1>9, <1>10, <1>11, <1>12 DEF Pointers
<1> QED BY <1>8, <1>13 DEF u


LEMMA RotateShape ==
  ASSUME NEW t, NEW B, Shape(t, B), NEW p \in InTree(t), NEW d \in Side,
         t.kid[p][1 - d] # NULL
  PROVE  /\ Shape(Rotate(t, p, d), RotatedBelow(t, B, p, d))
         /\ InTree(Rotate(t, p, d)) = InTree(t)
         /\ Sorted(t, B) => Sorted(Rotate(t, p, d), RotatedBelow(t, B, p, d))
<1> DEFINE q == t.kid[p][1 - d]
           b == t.kid[q][d]
           c == t.kid[q][1 - d]
           r == t.kid[p][d]
           g == t.parent[p]
           u == Rotate(t, p, d)
           C == RotatedBelow(t, B, p, d)
<1>1. /\ p \in Key /\ q \in Key /\ b \in Node /\ g \in Node
      /\ q # p /\ b # p /\ b # q /\ g # p /\ g # q
      /\ u \in Trees /\ u.root = (IF g = NULL THEN q ELSE t.root)
      /\ \A m \in Key, e \in Side :
           u.kid[m][e] = IF m = p THEN IF e = d THEN t.kid[p][e] ELSE b
                         ELSE IF m = q THEN IF e = d THEN p ELSE t.kid[q][e]
                         ELSE IF m = g /\ t.kid[g][e] = p THEN q
                         ELSE t.kid[m][e]
  BY RotateFields
<1>2. t \in Trees /\ Pointers(t) /\ Covers(t, B) /\ Layered(t, B)
  BY DEF Shape
<1>3. /\ 1 - d \in Side /\ 1 - d # d /\ 1 - (1 - d) = d
      /\ \A e \in Side : e = d \/ e = 1 - d
  BY Sides
<1>4. /\ B \in [Node -> SUBSET Key] /\ B[NULL] = {}
      /\ \A n \in Key : n \in B[n] /\ \A e \in Side : B[t.kid[n][e]] \subseteq B[n]
      /\ \A n \in Key : B[n] = {n} \cup B[t.kid[n][0]] \cup B[t.kid[n][1]]
  BY <1>2, CoverKids DEF Covers
<1>5. c \in Node /\ r \in Node /\ p \in Node /\ q \in Node /\ p # NULL /\ q # NULL
  BY <1>1, <1>2, <1>3, TreeFields, Nodes
<1>6. /\ \A n \in Node : IsFiniteSet(B[n])
      /\ \A n \in Key, e \in Side : n \notin B[t.kid[n][e]]
      /\ \A n \in Key, e \in Side : \A k \in B[t.kid[n][e]] : k \notin B[t.kid[n][1 - e]]
      /\ B[t.root] = InTree(t)
  BY <1>2 DEF Layered
<1>7. B[p] = {p} \cup B[r] \cup B[q] /\ B[q] = {q} \cup B[b] \cup B[c]
  <2>1. B[p] = {p} \cup B[t.kid[p][0]] \cup B[t.kid[p][1]] /\ B[q] = {q} \cup B[t.kid[q][0]] \cup B[t.kid[q][1]]
    BY <1>1, <1>4
  <2>2. CASE d = 0
    <3>1. t.kid[p][0] = r /\ t.kid[p][1] = q /\ t.kid[q][0] = b /\ t.kid[q][1] = c
      BY <2>2
    <3> QED BY <2>1, <3>1
  <2>3. CASE d = 1
    <3>1. t.kid[p][1] = r /\ t.kid[p][0] = q /\ t.kid[q][1] = b /\ t.kid[q][0] = c
      BY <2>3
    <3> QED BY <2>1, <3>1
  <2> QED BY <2>2, <2>3 DEF Side
<1>8. /\ p \notin B[r] /\ p \notin B[q] /\ q \notin B[b] /\ q \notin B[c]
      /\ \A k \in B[r] : k \notin B[q]
      /\ \A k \in B[b] : k \notin B[c]
  BY <1>1, <1>3, <1>6
<1>9. Pointers(u) /\ InTree(u) = InTree(t)
  BY RotatePointers
<1>10. /\ C = [B EXCEPT ![q] = B[p], ![p] = {p} \cup B[r] \cup B[b]]
  BY Zenon DEF RotatedBelow
<1>11. /\ \A n \in Key, e \in Side : t.kid[n][e] \in Node /\ t.kid[n][e] # n
       /\ \A n \in Key, e \in Side :
            t.kid[n][e] # NULL => t.kid[n][e] \in Key /\ t.parent[t.kid[n][e]] = n
  <2>1. \A n \in Key, e \in Side : t.kid[n][e] \in Node
    BY <1>2, TreeFields
  <2>2. \A n \in Key, e \in Side : t.kid[n][e] # n
    BY <1>4, <1>6
  <2>3. \A n \in Key, e \in Side :
          t.kid[n][e] # NULL => t.kid[n][e] \in Key /\ t.parent[t.kid[n][e]] = n
    BY <1>2, <2>1, Nodes DEF Pointers
  <2> QED BY <2>1, <2>2, <2>3
<1>12. t.kid[p][1 - d] = q /\ t.kid[p][d] = r /\ t.kid[q][d] = b /\ t.kid[q][1 - d] = c
  OBVIOUS
<1>13. g # NULL => g \in Key /\ \E e \in Side : t.kid[g][e] = p
  BY ParentFacts
<1>14. t.parent[p] = g /\ (g = NULL <=> p = t.root)
  BY ParentFacts
<1> HIDE DEF q, b, c, r, g, u, C
<1>15. /\ C[q] = B[p] /\ C[p] = {p} \cup B[r] \cup B[b]
       /\ \A n \in Node : n # p /\ n # q => C[n] = B[n]
       /\ \A n \in Node : C[n] \in SUBSET Key
       /\ C \in [Node -> SUBSET Key]
  <2>1. {p} \cup B[r] \cup B[b] \in SUBSET Key /\ B[p] \in SUBSET Key
    BY <1>1, <1>4, <1>5
  <2> DEFINE X == {p} \cup B[r] \cup B[b]
  <2> HIDE DEF X
  <2>2. C = [B EXCEPT ![q] = B[p], ![p] = X]
    BY <1>10 DEF X
  <2>3. X \in SUBSET Key
    BY <2>1 DEF X
  <2>4. C[q] = B[p] /\ C[p] = X /\ C \in [Node -> SUBSET Key]
        /\ \A n \in Node : n # p /\ n # q => C[n] = B[n]
    BY <1>1, <1>4, <1>5, <2>1, <2>2, <2>3
  <2> QED BY <2>4 DEF X
\* Away from p and q every slot still leads to the same nodes.
<1>16. /\ u.kid[p][d] = r /\ u.kid[p][1 - d] = b /\ u.kid[q][d] = p /\ u.kid[q][1 - d] = c
       /\ C[r] = B[r] /\ C[b] = B[b] /\ C[c] = B[c]
  <2>1. /\ u.kid[p][d] = r /\ u.kid[p][1 - d] = b
        /\ u.kid[q][d] = p /\ u.kid[q][1 - d] = c
    BY <1>1, <1>3, <1>12
  <2>2. r # p /\ r # q /\ c # p /\ c # q
    BY <1>1, <1>4, <1>5, <1>7, <1>8
  <2> QED BY <1>1, <1>5, <1>15, <2>1, <2>2
<1>17. ASSUME NEW n \in Key, n # p, n # q, NEW e \in Side
       PROVE  C[u.kid[n][e]] = B[t.kid[n][e]]
  <2>1. CASE t.kid[n][e] = p
    <3>1. n = g
      BY <1>5, <1>11, <1>14, <2>1
    <3>2. u.kid[n][e] = q
      BY <1>1, <1>17, <2>1, <3>1
    <3> QED BY <1>15, <2>1, <3>2
  <2>2. CASE t.kid[n][e] # p
    <3>1. u.kid[n][e] = t.kid[n][e]
      BY <1>1, <1>17, <2>2
    <3>2. t.kid[n][e] # q
      BY <1>3, <1>5, <1>11, <1>12, <1>17, <1>1
    <3> QED BY <1>11, <1>15, <2>2, <3>1, <3>2
  <2> QED BY <2>1, <2>2
<1>18. Covers(u, C)
  <2>1. C[NULL] = {}
    BY <1>4, <1>5, <1>15, Nodes
  <2>2. ASSUME NEW n \in Key PROVE C[n] = {n} \cup C[u.kid[n][0]] \cup C[u.kid[n][1]]
    <3>1. CASE n = p
      <4>1. C[n] = {n} \cup C[u.kid[n][d]] \cup C[u.kid[n][1 - d]]
        BY <1>15, <1>16, <3>1
      <4> QED BY <1>3, <4>1 DEF Side
    <3>2. CASE n = q
      <4>1. C[n] = {n} \cup C[u.kid[n][d]] \cup C[u.kid[n][1 - d]]
        BY <1>7, <1>15, <1>16, <3>2
      <4> QED BY <1>3, <4>1 DEF Side
    <3>3. CASE n # p /\ n # q
      <4>1. C[n] = B[n]
        BY <1>15, <3>3, Nodes
      <4>2. C[u.kid[n][0]] = B[t.kid[n][0]] /\ C[u.kid[n][1]] = B[t.kid[n][1]]
        BY <1>17, <3>3, BothSides
      <4> QED BY <1>4, <4>1, <4>2
    <3> QED BY <3>1, <3>2, <3>3
  <2> QED BY <1>15, <2>1, <2>2 DEF Covers
<1>19. Layered(u, C)
  <2>1. ASSUME NEW n \in Node PROVE IsFiniteSet(C[n])
    <3>1. IsFiniteSet(B[p])
      BY <1>5, <1>6
    <3>2. C[p] \subseteq B[p]
      BY <1>7, <1>15
    <3>3. IsFiniteSet(C[p])
      BY <3>1, <3>2, FS_Subset
    <3> QED BY <1>6, <1>15, <3>1, <3>3
  <2>2. ASSUME NEW n \in Key, NEW e \in Side
        PROVE  /\ n \notin C[u.kid[n][e]]
               /\ \A k \in C[u.kid[n][e]] : k \notin C[u.kid[n][1 - e]]
    <3>1. CASE n = p
      <4>1. /\ p \notin B[r] /\ p \notin B[b] /\ \A k \in B[r] : k \notin B[b]
        BY <1>7, <1>8
      <4> QED BY <1>3, <1>16, <3>1, <4>1
    <3>2. CASE n = q
      <4>1. /\ q \notin C[p] /\ q \notin B[c] /\ \A k \in C[p] : k \notin B[c]
        BY <1>1, <1>7, <1>8, <1>15
      <4> QED BY <1>3, <1>16, <3>2, <4>1
    <3>3. CASE n # p /\ n # q
      <4>1. 1 - e \in Side
        BY Sides
      <4>2. C[u.kid[n][e]] = B[t.kid[n][e]] /\ C[u.kid[n][1 - e]] = B[t.kid[n][1 - e]]
        BY <1>17, <3>3, <4>1
      <4> QED BY <1>6, <4>2
    <3> QED BY <3>1, <3>2, <3>3
  <2>3. C[u.root] = InTree(u)
    <3>1. CASE g = NULL
      BY <1>1, <1>6, <1>9, <1>14, <1>15, <3>1
    <3>2. CASE g # NULL
      <4>1. t.root # p /\ t.root \in Node
        BY <1>2, <1>14, <3>2, TreeFields
      <4>2. t.root # q
        <5>1. t.root # NULL => t.parent[t.root] = NULL
          BY <1>2 DEF Pointers
        <5>2. t.parent[q] = p
          BY <1>1, <1>3, <1>5, <1>11, <1>12
        <5> QED BY <1>5, <5>1, <5>2
      <4> QED BY <1>1, <1>6, <1>9, <1>15, <3>2, <4>1, <4>2
    <3> QED BY <3>1, <3>2
  <2> QED BY <2>1, <2>2, <2>3 DEF Layered
<1>20. ASSUME Sorted(t, B) PROVE Sorted(u, C)
  <2>1. \A n \in Key, e \in Side : \A k \in B[t.kid[n][e]] : Toward(k, n) = e
    BY <1>20 DEF Sorted
  <2>2. /\ \A k \in B[r] : Toward(k, p) = d
        /\ \A k \in B[q] : Toward(k, p) = 1 - d
        /\ \A k \in B[b] : Toward(k, q) = d
        /\ \A k \in B[c] : Toward(k, q) = 1 - d
    BY <1>1, <1>3, <1>12, <2>1
  <2>3. ASSUME NEW n \in Key, NEW e \in Side, NEW k \in C[u.kid[n][e]]
        PROVE  Toward(k, n) = e
    <3>1. CASE n = p
      <4>1. \A j \in B[b] : Toward(j, p) = 1 - d
        BY <1>7, <2>2
      <4> QED BY <1>3, <1>16, <2>2, <2>3, <3>1, <4>1
    <3>2. CASE n = q
      <4>1. Toward(p, q) = d
        <5>1. Toward(q, p) = 1 - d
          BY <1>1, <1>4, <2>2
        <5> QED BY <1>1, <1>3, <5>1, TowardFacts
      <4>2. ASSUME NEW j \in B[r] PROVE Toward(j, q) = d
        <5>1. j \in Key /\ j # p /\ Toward(j, p) = d
          BY <1>4, <1>5, <1>8, <2>2
        <5> QED BY <1>1, <4>1, <5>1, TowardFacts
      <4>3. \A j \in C[p] : Toward(j, q) = d
        BY <1>15, <2>2, <4>1, <4>2
      <4> QED BY <1>3, <1>16, <2>2, <2>3, <3>2, <4>3
    <3>3. CASE n # p /\ n # q
      BY <1>17, <2>1, <2>3, <3>3
    <3> QED BY <3>1, <3>2, <3>3
  <2> QED BY <2>3 DEF Sorted
<1>21. Shape(u, C)
  BY <1>1, <1>9, <1>18, <1>19 DEF Shape
<1> QED BY <1>9, <1>20, <1>21 DEF u, C


-----------------------------------------------------------------------------
(* A node comes into the tree.                                             *)

LEMMA Outside ==
  ASSUME NEW t, NEW B, Shape(t, B), NEW k \in Key, k \notin InTree(t)
  PROVE  /\ t.parent[k] = NULL /\ k # t.root /\ B[k] = {k}
         /\ \A d \in Side : t.kid[k][d] = NULL
         /\ \A n \in Key, d \in Side : t.kid[n][d] # k
         /\ \A n \in Node : n # k => k \notin B[n]
<1>1. t \in Trees /\ Pointers(t) /\ Covers(t, B)
  BY DEF Shape
<1>2. t.parent[k] = NULL /\ k # t.root
  BY DEF InTree
<1>3. \A d \in Side : t.kid[k][d] = NULL
  BY <1>1 DEF Pointers
<1>4. B[k] = {k}
  BY <1>1, <1>3, BothSides DEF Covers
<1>5. ASSUME NEW n \in Key, NEW d \in Side PROVE t.kid[n][d] # k
  BY <1>1, <1>2, Nodes DEF Pointers
<1>6. ASSUME NEW n \in Node, n # k, k \in B[n] PROVE FALSE
  <2>1. t.parent[k] \in B[n]
    BY <1>6, Upward
  <2>2. NULL \in Key
    BY <1>1, <1>2, <2>1 DEF Covers
  <2> QED BY <2>2, Nodes
<1> QED BY <1>2, <1>3, <1>4, <1>5, <1>6

LEMMA FreshShape ==
  ASSUME NEW t, NEW B, Shape(t, B), NEW k \in Key, k \notin InTree(t)
  PROVE  /\ Shape(Fresh(t, k), B) /\ InTree(Fresh(t, k)) = InTree(t)
         /\ Sorted(t, B) => Sorted(Fresh(t, k), B)
<1> DEFINE u == Fresh(t, k)
<1>1. t \in Trees
  BY DEF Shape
<1>2. /\ u \in Trees /\ u.root = t.root
      /\ \A m \in Key, e \in Side : u.kid[m][e] = IF m = k THEN NULL ELSE t.kid[m][e]
      /\ \A m \in Key : u.parent[m] = IF m = k THEN NULL ELSE t.parent[m]
  BY <1>1, FreshFields
<1> HIDE DEF u
<1>3. t.parent[k] = NULL /\ \A d \in Side : t.kid[k][d] = NULL
  BY Outside
<1>4. u.parent = t.parent
  <2>1. u.parent \in [Key -> Node] /\ t.parent \in [Key -> Node]
    BY <1>1, <1>2 DEF Trees
  <2>2. \A m \in Key : u.parent[m] = t.parent[m]
    BY <1>2, <1>3
  <2> QED BY <2>1, <2>2
<1>5. u.kid = t.kid
  <2>1. u.kid \in [Key -> [Side -> Node]] /\ t.kid \in [Key -> [Side -> Node]]
    BY <1>1, <1>2 DEF Trees
  <2>2. ASSUME NEW m \in Key PROVE u.kid[m] = t.kid[m]
    <3>1. u.kid[m] \in [Side -> Node] /\ t.kid[m] \in [Side -> Node]
      BY <2>1
    <3>2. \A e \in Side : u.kid[m][e] = t.kid[m][e]
      BY <1>2, <1>3
    <3> QED BY <3>1, <3>2
  <2> QED BY <2>1, <2>2
<1>6. Shape(u, B) /\ InTree(u) = InTree(t) /\ (Sorted(t, B) => Sorted(u, B))
  BY <1>2, <1>4, <1>5, SameShape
<1> QED BY <1>6 DEF u

\* The first node becomes the root.
LEMMA RootShape ==
  ASSUME NEW t, NEW B, Shape(t, B), t.root = NULL, NEW k \in Key, NEW u \in Trees,
         u.root = k, u.kid = t.kid, u.parent = t.parent
  PROVE  /\ Shape(u, B) /\ InTree(u) = {k}
         /\ Sorted(t, B) => Sorted(u, B)
<1>1. t \in Trees /\ Pointers(t) /\ Covers(t, B) /\ Layered(t, B) /\ InTree(t) = {}
  BY RootFacts DEF Shape
<1>2. \A n \in Key : t.parent[n] = NULL /\ \A d \in Side : t.kid[n][d] = NULL
  BY <1>1, Outside
<1>3. InTree(u) = {k}
  BY <1>2 DEF InTree
<1>4. Pointers(u)
  BY <1>2 DEF Pointers
<1>5. Covers(u, B)
  BY <1>1 DEF Covers
<1>6. Layered(u, B)
  <2>1. B[k] = {k}
    BY <1>1, Outside
  <2> QED BY <1>1, <1>3, <2>1 DEF Layered
<1>7. Sorted(t, B) => Sorted(u, B)
  BY DEF Sorted
<1> QED BY <1>3, <1>4, <1>5, <1>6, <1>7 DEF Shape

AttachedBelow(B, c, k) ==
  [m \in Node |-> IF m = k THEN {k} ELSE IF c \in B[m] THEN B[m] \cup {k} ELSE B[m]]

\* A new leaf k hangs where a search for k ended.
LEMMA AttachShape ==
  ASSUME NEW t, NEW B, Shape(t, B), NEW k \in Key, k \notin InTree(t),
         NEW c \in InTree(t), NEW d \in Side, t.kid[c][d] = NULL
  PROVE  LET u == Adopt(t, c, d, k)
             C == AttachedBelow(B, c, k)
         IN /\ Shape(u, C) /\ InTree(u) = InTree(t) \cup {k}
            /\ /\ Sorted(t, B) /\ Toward(k, c) = d
               /\ \A m \in Key, e \in Side : c \in B[t.kid[m][e]] => Toward(k, m) = e
               => Sorted(u, C)
<1> DEFINE u == Adopt(t, c, d, k)
           C == AttachedBelow(B, c, k)
<1>1. t \in Trees /\ Pointers(t) /\ Covers(t, B) /\ Layered(t, B) /\ c \in Key /\ k # c
      /\ c \in B[c]
  BY ParentFacts DEF Shape
<1>2. /\ u \in Trees /\ u.root = t.root
      /\ \A m \in Key, e \in Side : u.kid[m][e] = IF m = c /\ e = d THEN k ELSE t.kid[m][e]
      /\ \A m \in Key : u.parent[m] = IF m = k THEN c ELSE t.parent[m]
  BY <1>1, AdoptFields, Nodes
<1>3. /\ t.parent[k] = NULL /\ k # t.root /\ B[k] = {k}
      /\ \A e \in Side : t.kid[k][e] = NULL
      /\ \A n \in Key, e \in Side : t.kid[n][e] # k
      /\ \A n \in Node : n # k => k \notin B[n]
  BY Outside
<1>4. /\ C \in [Node -> SUBSET Key] /\ C[k] = {k} /\ C[NULL] = {}
      /\ \A m \in Node : m # k => C[m] = IF c \in B[m] THEN B[m] \cup {k} ELSE B[m]
  BY <1>1, Nodes DEF AttachedBelow, Covers
<1>5. /\ \A n \in Key, e \in Side : t.kid[n][e] \in Node
      /\ \A n \in Key, e \in Side : n \notin B[t.kid[n][e]]
      /\ \A n \in Key, e \in Side : \A j \in B[t.kid[n][e]] : j \notin B[t.kid[n][1 - e]]
      /\ \A n \in Key : B[n] = {n} \cup B[t.kid[n][0]] \cup B[t.kid[n][1]]
      /\ B[NULL] = {} /\ B[t.root] = InTree(t) /\ \A n \in Node : IsFiniteSet(B[n])
  BY <1>1, TreeFields DEF Covers, Layered
<1>6. /\ 1 - d \in Side /\ 1 - d # d /\ 1 - (1 - d) = d
      /\ \A e \in Side : e = d \/ e = 1 - d
      /\ \A e \in Side : 1 - e \in Side
  BY Sides
<1>7. k # NULL /\ c # NULL /\ t.root # NULL /\ t.root \in Node
  BY <1>1, RootFacts, Nodes
<1> HIDE DEF u, C
<1>8. \A m \in Key : m \in InTree(u) <=> m \in InTree(t) \/ m = k
  BY <1>2, <1>7 DEF InTree
<1>9. InTree(u) = InTree(t) \cup {k}
  BY <1>8 DEF InTree
<1>10. Pointers(u)
  <2>1. /\ t.root # NULL => t.parent[t.root] = NULL
        /\ \A n \in Key, e \in Side :
             t.kid[n][e] # NULL => t.parent[t.kid[n][e]] = n /\ t.kid[n][e] # t.kid[n][1 - e]
        /\ \A n \in Key : t.parent[n] # NULL => \E e \in Side : t.kid[t.parent[n]][e] = n
        /\ \A n \in Key \ InTree(t), e \in Side : t.kid[n][e] = NULL
    BY <1>1 DEF Pointers
  <2>2. u.root # NULL => u.parent[u.root] = NULL
    BY <1>2, <1>3, <1>7, <2>1, Nodes
  <2>3. ASSUME NEW n \in Key, NEW e \in Side, u.kid[n][e] # NULL
        PROVE  u.parent[u.kid[n][e]] = n /\ u.kid[n][e] # u.kid[n][1 - e]
    <3>1. CASE n = c /\ e = d
      <4>1. u.kid[n][e] = k /\ u.kid[n][1 - e] = t.kid[n][1 - e]
        BY <1>1, <1>2, <1>6, <3>1
      <4> QED BY <1>1, <1>2, <1>3, <1>6, <3>1, <4>1
    <3>2. CASE ~(n = c /\ e = d)
      <4>1. u.kid[n][e] = t.kid[n][e] /\ t.kid[n][e] \in Key
        BY <1>2, <1>5, <2>3, <3>2, Nodes
      <4>2. u.parent[u.kid[n][e]] = n
        BY <1>2, <1>3, <2>1, <2>3, <4>1
      <4>3. u.kid[n][1 - e] = k \/ u.kid[n][1 - e] = t.kid[n][1 - e]
        BY <1>2, <1>6
      <4> QED BY <1>3, <2>1, <2>3, <4>1, <4>2, <4>3
    <3> QED BY <3>1, <3>2
  <2>4. ASSUME NEW n \in Key, u.parent[n] # NULL
        PROVE  \E e \in Side : u.kid[u.parent[n]][e] = n
    <3>1. CASE n = k
      BY <1>1, <1>2, <3>1
    <3>2. CASE n # k
      <4>1. u.parent[n] = t.parent[n] /\ t.parent[n] \in Key
        BY <1>1, <1>2, <2>4, <3>2, TreeFields, Nodes
      <4>2. PICK e \in Side : t.kid[t.parent[n]][e] = n
        BY <2>1, <2>4, <4>1
      <4>3. u.kid[t.parent[n]][e] = n
        BY <1>2, <4>1, <4>2, Nodes
      <4> QED BY <4>1, <4>3
    <3> QED BY <3>1, <3>2
  <2>5. ASSUME NEW n \in Key \ InTree(u), NEW e \in Side PROVE u.kid[n][e] = NULL
    BY <1>2, <1>9, <2>1
  <2> QED BY <2>2, <2>3, <2>4, <2>5 DEF Pointers
\* The slots of the other nodes, and the other slot of c.
<1>11. ASSUME NEW n \in Key, NEW e \in Side, ~(n = c /\ e = d)
       PROVE  C[u.kid[n][e]] = IF c \in B[t.kid[n][e]] THEN B[t.kid[n][e]] \cup {k} ELSE B[t.kid[n][e]]
  <2>1. u.kid[n][e] = t.kid[n][e]
    BY <1>2, <1>11
  <2>2. t.kid[n][e] # k /\ t.kid[n][e] \in Node
    BY <1>3, <1>5
  <2> DEFINE x == t.kid[n][e]
  <2> HIDE DEF x
  <2>3. x # k /\ x \in Node /\ u.kid[n][e] = x /\ t.kid[n][e] = x
    BY <2>1, <2>2 DEF x
  <2>4. C[x] = IF c \in B[x] THEN B[x] \cup {k} ELSE B[x]
    BY <1>4, <2>3
  <2> QED BY <2>3, <2>4
<1>12. C[u.kid[c][d]] = {k} /\ C[u.kid[c][1 - d]] = B[t.kid[c][1 - d]] /\ B[t.kid[c][d]] = {}
  <2>1. c \notin B[t.kid[c][1 - d]]
    BY <1>1, <1>5, <1>6
  <2>2. C[u.kid[c][1 - d]] = B[t.kid[c][1 - d]]
    BY <1>1, <1>6, <1>11, <2>1
  <2> QED BY <1>1, <1>2, <1>4, <1>5, <2>2
<1>13. Covers(u, C)
  <2>1. ASSUME NEW n \in Key PROVE C[n] = {n} \cup C[u.kid[n][0]] \cup C[u.kid[n][1]]
    <3>1. CASE n = c
      <4>1. C[n] = B[n] \cup {k}
        BY <1>1, <1>4, <3>1, Nodes
      <4>2. B[n] = {n} \cup B[t.kid[c][d]] \cup B[t.kid[c][1 - d]]
        BY <1>5, <3>1, <1>6 DEF Side
      <4>3. C[n] = {n} \cup C[u.kid[n][d]] \cup C[u.kid[n][1 - d]]
        BY <1>12, <3>1, <4>1, <4>2
      <4> QED BY <1>6, <4>3 DEF Side
    <3>2. CASE n = k
      <4>1. u.kid[n][0] = NULL /\ u.kid[n][1] = NULL
        BY <1>1, <1>2, <1>3, <3>2, BothSides
      <4> QED BY <1>4, <3>2, <4>1
    <3>3. CASE n # c /\ n # k
      <4>1. c \in B[n] <=> c \in B[t.kid[n][0]] \/ c \in B[t.kid[n][1]]
        BY <1>5, <3>3
      <4>2. C[n] = IF c \in B[n] THEN B[n] \cup {k} ELSE B[n]
        BY <1>4, <3>3, Nodes
      <4>3. /\ C[u.kid[n][0]] = IF c \in B[t.kid[n][0]] THEN B[t.kid[n][0]] \cup {k} ELSE B[t.kid[n][0]]
            /\ C[u.kid[n][1]] = IF c \in B[t.kid[n][1]] THEN B[t.kid[n][1]] \cup {k} ELSE B[t.kid[n][1]]
        BY <1>11, <3>3, BothSides
      <4>4. B[n] = {n} \cup B[t.kid[n][0]] \cup B[t.kid[n][1]]
        BY <1>5
      <4> QED BY <4>1, <4>2, <4>3, <4>4
    <3> QED BY <3>1, <3>2, <3>3
  <2> QED BY <1>4, <2>1 DEF Covers
<1>14. Layered(u, C)
  <2>1. ASSUME NEW n \in Node PROVE IsFiniteSet(C[n])
    <3>1. C[n] = {k} \/ C[n] = B[n] \cup {k} \/ C[n] = B[n]
      BY <1>4
    <3>2. IsFiniteSet({k}) /\ IsFiniteSet(B[n] \cup {k}) /\ IsFiniteSet(B[n])
      BY <1>5, FS_Singleton, FS_AddElement
    <3> QED BY <3>1, <3>2
  <2>2. ASSUME NEW n \in Key, NEW e \in Side
        PROVE  /\ n \notin C[u.kid[n][e]]
               /\ \A j \in C[u.kid[n][e]] : j \notin C[u.kid[n][1 - e]]
    <3>1. CASE n = c
      <4>1. k \notin B[t.kid[c][1 - d]] /\ c \notin B[t.kid[c][1 - d]]
        BY <1>1, <1>3, <1>5, <1>6
      <4> QED BY <1>1, <1>6, <1>12, <3>1, <4>1
    <3>2. CASE n # c
      <4>1. 1 - e \in Side /\ t.kid[n][e] # k /\ t.kid[n][1 - e] # k
        BY <1>3, <1>6
      <4>2. /\ C[u.kid[n][e]] = IF c \in B[t.kid[n][e]] THEN B[t.kid[n][e]] \cup {k} ELSE B[t.kid[n][e]]
            /\ C[u.kid[n][1 - e]] = IF c \in B[t.kid[n][1 - e]] THEN B[t.kid[n][1 - e]] \cup {k} ELSE B[t.kid[n][1 - e]]
        BY <1>11, <3>2, <4>1
      <4>3. k \notin B[t.kid[n][e]] /\ k \notin B[t.kid[n][1 - e]]
        BY <1>3, <1>5, <4>1
      <4>4. /\ n \notin B[t.kid[n][e]]
            /\ \A j \in B[t.kid[n][e]] : j \notin B[t.kid[n][1 - e]]
        BY <1>5
      <4>5. n = k => c \notin B[t.kid[n][e]]
        BY <1>3, <1>5
      <4> QED BY <4>2, <4>3, <4>4, <4>5
    <3> QED BY <3>1, <3>2
  <2>3. C[u.root] = InTree(u)
    BY <1>2, <1>3, <1>4, <1>5, <1>7, <1>9
  <2> QED BY <2>1, <2>2, <2>3 DEF Layered
<1>15. ASSUME Sorted(t, B), Toward(k, c) = d,
              \A m \in Key, e \in Side : c \in B[t.kid[m][e]] => Toward(k, m) = e
       PROVE  Sorted(u, C)
  <2>1. ASSUME NEW n \in Key, NEW e \in Side, NEW j \in C[u.kid[n][e]]
        PROVE  Toward(j, n) = e
    <3>1. \A i \in B[t.kid[n][e]] : Toward(i, n) = e
      BY <1>15 DEF Sorted
    <3>2. CASE n = c /\ e = d
      BY <1>12, <1>15, <2>1, <3>2
    <3>3. CASE ~(n = c /\ e = d)
      <4>1. C[u.kid[n][e]] = IF c \in B[t.kid[n][e]] THEN B[t.kid[n][e]] \cup {k}
                             ELSE B[t.kid[n][e]]
        BY <1>11, <3>3
      <4>2. j \in B[t.kid[n][e]] \/ (c \in B[t.kid[n][e]] /\ j = k)
        BY <2>1, <4>1
      <4>3. c \in B[t.kid[n][e]] => Toward(k, n) = e
        BY <1>15
      <4> QED BY <3>1, <4>2, <4>3
    <3> QED BY <3>2, <3>3
  <2> QED BY <2>1 DEF Sorted
<1>16. Shape(u, C)
  BY <1>2, <1>10, <1>13, <1>14 DEF Shape
<1> QED BY <1>9, <1>15, <1>16 DEF u, C


-----------------------------------------------------------------------------
(* A node goes, and leaves its place to its only kid.                      *)

LEMMA OnlyKidFacts ==
  ASSUME NEW t, NEW B, Shape(t, B), NEW n \in InTree(t),
         t.kid[n][0] = NULL \/ t.kid[n][1] = NULL
  PROVE  LET c == OnlyKid(t, n)
         IN /\ c \in Node /\ c # n /\ B[n] = {n} \cup B[c] /\ n \notin B[c]
            /\ c # NULL => c \in Key /\ t.parent[c] = n
            /\ \E d \in Side : t.kid[n][d] = c /\ t.kid[n][1 - d] = NULL
            /\ \A d \in Side : t.kid[n][d] = c \/ t.kid[n][d] = NULL
<1> DEFINE c == OnlyKid(t, n)
<1>1. t \in Trees /\ Covers(t, B) /\ n \in Key
  BY ParentFacts DEF Shape
<1>2. \/ t.kid[n][0] = c /\ t.kid[n][1] = NULL
      \/ t.kid[n][1] = c /\ t.kid[n][0] = NULL
  BY DEF OnlyKid
<1> HIDE DEF c
<1>3. \E d \in Side : t.kid[n][d] = c /\ t.kid[n][1 - d] = NULL
  BY <1>2, BothSides
<1>4. \A d \in Side : t.kid[n][d] = c \/ t.kid[n][d] = NULL
  BY <1>2 DEF Side
<1>5. PICK d \in Side : t.kid[n][d] = c
  BY <1>3
<1>6. c \in Node /\ n \notin B[c]
  BY <1>1, <1>5, TreeFields DEF Shape, Layered
<1>7. B[n] = {n} \cup B[c]
  <2>1. B[n] = {n} \cup B[t.kid[n][0]] \cup B[t.kid[n][1]] /\ B[NULL] = {}
    BY <1>1 DEF Covers
  <2> QED BY <1>2, <2>1
<1>8. c # NULL => c \in Key /\ t.parent[c] = n /\ c # n
  <2>1. c # NULL => c \in Key /\ t.parent[c] = n /\ c \in B[c]
    BY <1>1, <1>5, KidFacts
  <2> QED BY <1>6, <2>1
<1> QED BY <1>1, <1>3, <1>4, <1>6, <1>7, <1>8, Nodes DEF c

\* u is t without n, whose only kid is c and whose parent is p.
Without(t, n, c, p, u) ==
  /\ u \in Trees
  /\ u.root = (IF p = NULL THEN c ELSE t.root)
  /\ \A m \in Key, e \in Side :
       u.kid[m][e] = IF m = n THEN NULL ELSE IF t.kid[m][e] = n THEN c ELSE t.kid[m][e]
  /\ \A m \in Key :
       u.parent[m] = IF m = n THEN NULL ELSE IF m = c THEN p ELSE t.parent[m]
  /\ \A m \in Key : u.black[m] = IF m = n THEN FALSE ELSE t.black[m]

LEMMA UnlinkFields ==
  ASSUME NEW t, NEW B, Shape(t, B), NEW n \in InTree(t),
         t.kid[n][0] = NULL \/ t.kid[n][1] = NULL
  PROVE  Without(t, n, OnlyKid(t, n), t.parent[n], Unlink(t, n))
<1> DEFINE c == OnlyKid(t, n)
           p == t.parent[n]
           u == Unlink(t, n)
           v == Hang(t, p, n, c)
           w == Fresh(v, n)
<1>1. t \in Trees /\ Pointers(t) /\ n \in Key /\ p \in Node /\ c \in Node
  BY ParentFacts, OnlyKidFacts, TreeFields DEF Shape
<1>2. p # NULL => \E d \in Side : t.kid[p][d] = n /\ t.kid[p][1 - d] # n
  BY ParentFacts
<1>3. \A m \in Key, e \in Side : t.kid[m][e] = n => m = p
  BY <1>1, Nodes DEF Pointers
<1>4. u = w
  BY Zenon DEF Unlink
<1> HIDE DEF c, p
<1>5. /\ v \in Trees /\ v.root = (IF p = NULL THEN c ELSE t.root) /\ v.black = t.black
      /\ \A m \in Key, e \in Side : v.kid[m][e] = IF m = p /\ t.kid[m][e] = n THEN c ELSE t.kid[m][e]
      /\ \A m \in Key : v.parent[m] = IF m = c THEN p ELSE t.parent[m]
  BY <1>1, <1>2, HangFields
<1> HIDE DEF v
<1>6. /\ w \in Trees /\ w.root = v.root
      /\ \A m \in Key, e \in Side : w.kid[m][e] = IF m = n THEN NULL ELSE v.kid[m][e]
      /\ \A m \in Key : w.parent[m] = IF m = n THEN NULL ELSE v.parent[m]
      /\ \A m \in Key : w.black[m] = IF m = n THEN FALSE ELSE v.black[m]
  BY <1>1, <1>5, FreshFields
<1> HIDE DEF w, u
<1>7. ASSUME NEW m \in Key, NEW e \in Side
      PROVE  u.kid[m][e] = IF m = n THEN NULL ELSE IF t.kid[m][e] = n THEN c ELSE t.kid[m][e]
  BY <1>3, <1>4, <1>5, <1>6
<1>8. Without(t, n, c, p, u)
  BY <1>4, <1>5, <1>6, <1>7 DEF Without
<1> QED BY <1>8 DEF c, p, u

UnlinkedBelow(B, n) == [m \in Node |-> IF m = n THEN {n} ELSE B[m] \ {n}]

LEMMA UnlinkPointers ==
  ASSUME NEW t, NEW B, Shape(t, B), NEW n \in InTree(t),
         t.kid[n][0] = NULL \/ t.kid[n][1] = NULL
  PROVE  Pointers(Unlink(t, n)) /\ InTree(Unlink(t, n)) = InTree(t) \ {n}
<1> DEFINE c == OnlyKid(t, n)
           p == t.parent[n]
           u == Unlink(t, n)
<1>1. /\ u.root = (IF p = NULL THEN c ELSE t.root)
      /\ \A m \in Key, e \in Side :
           u.kid[m][e] = IF m = n THEN NULL ELSE IF t.kid[m][e] = n THEN c ELSE t.kid[m][e]
      /\ \A m \in Key :
           u.parent[m] = IF m = n THEN NULL ELSE IF m = c THEN p ELSE t.parent[m]
  <2>1. Without(t, n, c, p, u)
    BY UnlinkFields
  <2> QED BY <2>1 DEF Without
<1>2. /\ c \in Node /\ c # n
      /\ c # NULL => c \in Key /\ t.parent[c] = n
      /\ \A d \in Side : t.kid[n][d] = c \/ t.kid[n][d] = NULL
  BY OnlyKidFacts
<1>3. /\ n \in Key /\ n # NULL /\ (p = NULL <=> n = t.root) /\ t.parent[n] = p /\ p # n
      /\ p # NULL => p \in Key /\ \E d \in Side : t.kid[p][d] = n
  BY ParentFacts, Nodes
<1> HIDE DEF c, p, u
<1>4. /\ t \in Trees
      /\ t.root # NULL => t.parent[t.root] = NULL
      /\ \A m \in Key, e \in Side :
           t.kid[m][e] # NULL => t.parent[t.kid[m][e]] = m /\ t.kid[m][e] # t.kid[m][1 - e]
      /\ \A m \in Key : t.parent[m] # NULL => \E e \in Side : t.kid[t.parent[m]][e] = m
      /\ \A m \in Key \ InTree(t), e \in Side : t.kid[m][e] = NULL
  BY DEF Shape, Pointers
<1>5. ASSUME NEW m \in Key PROVE m \in InTree(u) <=> m \in InTree(t) /\ m # n
  <2>1. m \in InTree(u) <=> m = u.root \/ u.parent[m] # NULL
    BY DEF InTree
  <2>2. m \in InTree(t) <=> m = t.root \/ t.parent[m] # NULL
    BY DEF InTree
  <2>3. CASE m = n
    <3>1. u.root # n
      BY <1>1, <1>2, <1>3
    <3> QED BY <1>1, <2>1, <2>3, <3>1
  <2>4. CASE m = c
    <3>1. m # NULL /\ t.parent[m] # NULL
      BY <1>2, <1>3, <2>4, Nodes
    <3>2. m = u.root \/ u.parent[m] # NULL
      BY <1>1, <1>2, <2>4
    <3> QED BY <1>2, <2>1, <2>2, <2>4, <3>1, <3>2
  <2>5. CASE m # n /\ m # c
    <3>1. u.parent[m] = t.parent[m] /\ (m = u.root <=> m = t.root)
      BY <1>1, <1>3, <2>5
    <3> QED BY <2>1, <2>2, <2>5, <3>1
  <2> QED BY <2>3, <2>4, <2>5
<1>6. InTree(u) = InTree(t) \ {n}
  BY <1>5 DEF InTree
<1>7. u.root # NULL => u.parent[u.root] = NULL
  <2>1. CASE p = NULL
    BY <1>1, <1>2, <2>1
  <2>2. CASE p # NULL
    <3>1. t.root # NULL => t.root \in Key /\ t.root # n /\ t.root # c
      BY <1>2, <1>3, <1>4, <2>2, TreeFields, Nodes
    <3> QED BY <1>1, <1>4, <2>2, <3>1
  <2> QED BY <2>1, <2>2
<1>8. ASSUME NEW m \in Key, NEW e \in Side, u.kid[m][e] # NULL
      PROVE  u.parent[u.kid[m][e]] = m /\ u.kid[m][e] # u.kid[m][1 - e]
  <2>1. m # n
    BY <1>1, <1>8
  <2>2. /\ 1 - e \in Side /\ t.kid[m][e] \in Node /\ t.kid[m][1 - e] \in Node
        /\ u.kid[m][1 - e] = IF t.kid[m][1 - e] = n THEN c ELSE t.kid[m][1 - e]
    BY <1>1, <1>4, <2>1, Sides, TreeFields
  <2>3. \A f \in Side : t.kid[m][f] # NULL => t.kid[m][f] # c
    BY <1>2, <1>4, <2>1
  <2>4. CASE t.kid[m][e] = n
    <3>1. u.kid[m][e] = c /\ m = p /\ c # NULL
      BY <1>1, <1>3, <1>4, <1>8, <2>1, <2>4
    <3>2. t.kid[m][1 - e] # n
      BY <1>3, <1>4, <2>4
    <3>3. u.kid[m][1 - e] # c
      BY <2>2, <2>3, <3>1, <3>2
    <3> QED BY <1>1, <1>2, <3>1, <3>3
  <2>5. CASE t.kid[m][e] # n
    <3>1. u.kid[m][e] = t.kid[m][e] /\ t.kid[m][e] \in Key
      BY <1>1, <1>8, <2>1, <2>2, <2>5, Nodes
    <3>2. t.kid[m][e] # c
      BY <1>8, <2>3, <3>1
    <3> QED BY <1>1, <1>4, <1>8, <2>2, <2>5, <3>1, <3>2
  <2> QED BY <2>4, <2>5
<1>9. ASSUME NEW m \in Key, u.parent[m] # NULL
      PROVE  \E e \in Side : u.kid[u.parent[m]][e] = m
  <2>1. m # n
    BY <1>1, <1>9
  <2>2. CASE m = c
    <3>1. u.parent[m] = p /\ p # NULL
      BY <1>1, <1>9, <2>1, <2>2
    <3>2. PICK e \in Side : t.kid[p][e] = n
      BY <1>3, <3>1
    <3>3. u.kid[p][e] = c
      BY <1>1, <1>3, <3>1, <3>2
    <3> QED BY <2>2, <3>1, <3>3
  <2>3. CASE m # c
    <3>1. u.parent[m] = t.parent[m] /\ t.parent[m] \in Key
      BY <1>1, <1>4, <1>9, <2>1, <2>3, TreeFields, Nodes
    <3>2. PICK e \in Side : t.kid[t.parent[m]][e] = m
      BY <1>4, <1>9, <3>1
    <3>3. t.parent[m] # n
      BY <1>2, <2>3, <3>2, Nodes
    <3>4. u.kid[t.parent[m]][e] = m
      BY <1>1, <2>1, <3>1, <3>2, <3>3
    <3> QED BY <3>1, <3>4
  <2> QED BY <2>2, <2>3
<1>10. ASSUME NEW m \in Key \ InTree(u), NEW e \in Side PROVE u.kid[m][e] = NULL
  BY <1>1, <1>3, <1>4, <1>6
<1>11. Pointers(u)
  BY <1>7, <1>8, <1>9, <1>10 DEF Pointers
<1> QED BY <1>6, <1>11 DEF u

LEMMA UnlinkShape ==
  ASSUME NEW t, NEW B, Shape(t, B), NEW n \in InTree(t),
         t.kid[n][0] = NULL \/ t.kid[n][1] = NULL
  PROVE  /\ Shape(Unlink(t, n), UnlinkedBelow(B, n))
         /\ InTree(Unlink(t, n)) = InTree(t) \ {n}
         /\ \A m \in Key, e \in Side : m # n =>
              UnlinkedBelow(B, n)[Unlink(t, n).kid[m][e]] = B[t.kid[m][e]] \ {n}
         /\ \A e \in Side : Unlink(t, n).kid[n][e] = NULL
         /\ Sorted(t, B) => Sorted(Unlink(t, n), UnlinkedBelow(B, n))
<1> DEFINE c == OnlyKid(t, n)
           p == t.parent[n]
           u == Unlink(t, n)
           C == UnlinkedBelow(B, n)
<1>1. /\ u \in Trees
      /\ u.root = (IF p = NULL THEN c ELSE t.root)
      /\ \A m \in Key, e \in Side :
           u.kid[m][e] = IF m = n THEN NULL ELSE IF t.kid[m][e] = n THEN c ELSE t.kid[m][e]
  <2>1. Without(t, n, c, p, u)
    BY UnlinkFields
  <2> QED BY <2>1 DEF Without
<1>2. c \in Node /\ c # n /\ B[n] = {n} \cup B[c] /\ n \notin B[c]
  BY OnlyKidFacts
<1>3. n \in Key /\ n # NULL /\ n \in Node /\ (p = NULL <=> n = t.root)
  BY ParentFacts, Nodes
<1>4. Pointers(u) /\ InTree(u) = InTree(t) \ {n}
  BY UnlinkPointers
<1>5. /\ t \in Trees /\ B \in [Node -> SUBSET Key] /\ B[NULL] = {}
      /\ \A m \in Key : B[m] = {m} \cup B[t.kid[m][0]] \cup B[t.kid[m][1]]
      /\ \A m \in Node : IsFiniteSet(B[m])
      /\ \A m \in Key, e \in Side : m \notin B[t.kid[m][e]]
      /\ \A m \in Key, e \in Side : \A k \in B[t.kid[m][e]] : k \notin B[t.kid[m][1 - e]]
      /\ B[t.root] = InTree(t)
      /\ \A m \in Key, e \in Side : t.kid[m][e] \in Node
      /\ t.root \in Node
  BY TreeFields DEF Shape, Covers, Layered
<1>6. /\ C \in [Node -> SUBSET Key] /\ C[n] = {n}
      /\ \A m \in Node : m # n => C[m] = B[m] \ {n}
  BY <1>3, <1>5 DEF UnlinkedBelow
<1> HIDE DEF c, p, u, C
<1>7. ASSUME NEW m \in Key, NEW e \in Side, m # n
      PROVE  C[u.kid[m][e]] = B[t.kid[m][e]] \ {n}
  <2>1. CASE t.kid[m][e] = n
    <3>1. u.kid[m][e] = c
      BY <1>1, <1>7, <2>1
    <3>2. C[c] = B[c] \ {n}
      BY <1>2, <1>6
    <3> QED BY <1>2, <2>1, <3>1, <3>2
  <2>2. CASE t.kid[m][e] # n
    <3>1. u.kid[m][e] = t.kid[m][e]
      BY <1>1, <1>7, <2>2
    <3> QED BY <1>5, <1>6, <2>2, <3>1
  <2> QED BY <2>1, <2>2
<1>8. \A e \in Side : u.kid[n][e] = NULL
  BY <1>1, <1>3
<1>9. C[NULL] = {}
  BY <1>3, <1>5, <1>6, Nodes
<1>10. Covers(u, C)
  <2>1. ASSUME NEW m \in Key PROVE C[m] = {m} \cup C[u.kid[m][0]] \cup C[u.kid[m][1]]
    <3>1. CASE m = n
      BY <1>6, <1>8, <1>9, <3>1, BothSides
    <3>2. CASE m # n
      <4>1. C[u.kid[m][0]] = B[t.kid[m][0]] \ {n} /\ C[u.kid[m][1]] = B[t.kid[m][1]] \ {n}
        BY <1>7, <3>2, BothSides
      <4>2. C[m] = B[m] \ {n}
        BY <1>6, <3>2, Nodes
      <4> QED BY <1>5, <3>2, <4>1, <4>2
    <3> QED BY <3>1, <3>2
  <2> QED BY <1>6, <1>9, <2>1 DEF Covers
<1>11. Layered(u, C)
  <2>1. ASSUME NEW m \in Node PROVE IsFiniteSet(C[m])
    <3>1. C[m] = {n} \/ C[m] \subseteq B[m]
      BY <1>6
    <3> QED BY <1>5, <3>1, FS_Subset, FS_Singleton
  <2>2. ASSUME NEW m \in Key, NEW e \in Side
        PROVE  /\ m \notin C[u.kid[m][e]]
               /\ \A k \in C[u.kid[m][e]] : k \notin C[u.kid[m][1 - e]]
    <3>1. CASE m = n
      BY <1>8, <1>9, <3>1
    <3>2. CASE m # n
      <4>1. 1 - e \in Side
        BY Sides
      <4>2. /\ C[u.kid[m][e]] = B[t.kid[m][e]] \ {n}
            /\ C[u.kid[m][1 - e]] = B[t.kid[m][1 - e]] \ {n}
        BY <1>7, <3>2, <4>1
      <4> QED BY <1>5, <4>2
    <3> QED BY <3>1, <3>2
  <2>3. C[u.root] = InTree(u)
    <3>1. CASE p = NULL
      <4>1. C[c] = B[c] \ {n}
        BY <1>2, <1>6
      <4> QED BY <1>1, <1>2, <1>3, <1>4, <1>5, <3>1, <4>1
    <3>2. CASE p # NULL
      BY <1>1, <1>3, <1>4, <1>5, <1>6, <3>2
    <3> QED BY <3>1, <3>2
  <2> QED BY <2>1, <2>2, <2>3 DEF Layered
<1>12. ASSUME Sorted(t, B) PROVE Sorted(u, C)
  <2>1. ASSUME NEW m \in Key, NEW e \in Side, NEW k \in C[u.kid[m][e]]
        PROVE  Toward(k, m) = e
    <3>1. m # n
      BY <1>8, <1>9, <2>1
    <3>2. k \in B[t.kid[m][e]]
      BY <1>7, <2>1, <3>1
    <3> QED BY <1>12, <3>2 DEF Sorted
  <2> QED BY <2>1 DEF Sorted
<1>13. Shape(u, C)
  BY <1>1, <1>4, <1>10, <1>11 DEF Shape
<1> QED BY <1>4, <1>7, <1>8, <1>12, <1>13 DEF u, C


-----------------------------------------------------------------------------
(* Two nodes trade places.                                                 *)

Traded(a, b, n) == IF n = a THEN b ELSE IF n = b THEN a ELSE n

LEMMA TradedFacts ==
  ASSUME NEW a \in Key, NEW b \in Key
  PROVE  /\ \A n \in Node : Traded(a, b, n) \in Node /\ Traded(a, b, Traded(a, b, n)) = n
         /\ \A n \in Key : Traded(a, b, n) \in Key
         /\ \A n \in Node : Traded(a, b, n) = NULL <=> n = NULL
         /\ Traded(a, b, NULL) = NULL /\ Traded(a, b, a) = b /\ Traded(a, b, b) = a
         /\ \A n \in Node : n # a /\ n # b => Traded(a, b, n) = n
  BY Nodes DEF Traded

\* u is t with a and b in each other's places.
TradePlaces(t, a, b, u) ==
  /\ u \in Trees
  /\ u.root = Traded(a, b, t.root)
  /\ \A n \in Key, d \in Side : u.kid[n][d] = Traded(a, b, t.kid[Traded(a, b, n)][d])
  /\ \A n \in Key : u.parent[n] = Traded(a, b, t.parent[Traded(a, b, n)])
  /\ \A n \in Key : u.black[n] = t.black[Traded(a, b, n)]

LEMMA ExchangeFields ==
  ASSUME NEW t \in Trees, NEW a \in Key, NEW b \in Key
  PROVE  TradePlaces(t, a, b, Exchange(t, a, b))
<1> DEFINE f(n) == Traded(a, b, n)
           u == Exchange(t, a, b)
           K == [n \in Key |-> [d \in Side |-> f(t.kid[f(n)][d])]]
           P == [n \in Key |-> f(t.parent[f(n)])]
           C == [n \in Key |-> t.black[f(n)]]
<1>1. u = [root |-> f(t.root), kid |-> K, parent |-> P, black |-> C]
  BY Zenon DEF Exchange, Traded
<1>2. /\ \A n \in Node : f(n) \in Node
      /\ \A n \in Key : f(n) \in Key
  BY TradedFacts
<1> HIDE DEF f
<1>3. /\ t.root \in Node
      /\ \A n \in Key, d \in Side : t.kid[n][d] \in Node
      /\ \A n \in Key : t.parent[n] \in Node /\ t.black[n] \in BOOLEAN
  BY TreeFields
<1>4. K \in [Key -> [Side -> Node]] /\ P \in [Key -> Node] /\ C \in [Key -> BOOLEAN]
  BY <1>2, <1>3
<1>5. /\ \A n \in Key, d \in Side : K[n][d] = f(t.kid[f(n)][d])
      /\ \A n \in Key : P[n] = f(t.parent[f(n)])
      /\ \A n \in Key : C[n] = t.black[f(n)]
  OBVIOUS
<1> HIDE DEF K, P, C
<1>6. u \in Trees /\ u.root = f(t.root) /\ u.kid = K /\ u.parent = P /\ u.black = C
  BY <1>1, <1>2, <1>3, <1>4 DEF Trees
<1> HIDE DEF u
<1>7. /\ u \in Trees
      /\ u.root = f(t.root)
      /\ \A n \in Key, d \in Side : u.kid[n][d] = f(t.kid[f(n)][d])
      /\ \A n \in Key : u.parent[n] = f(t.parent[f(n)])
      /\ \A n \in Key : u.black[n] = t.black[f(n)]
  BY <1>5, <1>6
<1> QED BY <1>7 DEF u, f, TradePlaces

TradedBelow(B, a, b) ==
  [n \in Node |-> {k \in Key : Traded(a, b, k) \in B[Traded(a, b, n)]}]

LEMMA ExchangeShape ==
  ASSUME NEW t, NEW B, Shape(t, B), NEW a \in InTree(t), NEW b \in InTree(t)
  PROVE  /\ Shape(Exchange(t, a, b), TradedBelow(B, a, b))
         /\ InTree(Exchange(t, a, b)) = InTree(t)
         /\ \A n \in Key, d \in Side : \A k \in Key :
              k \in TradedBelow(B, a, b)[Exchange(t, a, b).kid[n][d]]
                <=> Traded(a, b, k) \in B[t.kid[Traded(a, b, n)][d]]
<1> DEFINE f(n) == Traded(a, b, n)
           u == Exchange(t, a, b)
           C == TradedBelow(B, a, b)
<1>1. /\ t \in Trees /\ B \in [Node -> SUBSET Key] /\ B[NULL] = {}
      /\ \A m \in Key : B[m] = {m} \cup B[t.kid[m][0]] \cup B[t.kid[m][1]]
      /\ \A m \in Node : IsFiniteSet(B[m])
      /\ \A m \in Key, e \in Side : m \notin B[t.kid[m][e]]
      /\ \A m \in Key, e \in Side : \A k \in B[t.kid[m][e]] : k \notin B[t.kid[m][1 - e]]
      /\ B[t.root] = InTree(t)
      /\ \A m \in Key, e \in Side : t.kid[m][e] \in Node
      /\ \A m \in Key : t.parent[m] \in Node
      /\ t.root \in Node
  BY TreeFields DEF Shape, Covers, Layered
<1>2. a \in Key /\ b \in Key
  BY ParentFacts
<1>3. /\ u \in Trees
      /\ u.root = f(t.root)
      /\ \A n \in Key, d \in Side : u.kid[n][d] = f(t.kid[f(n)][d])
      /\ \A n \in Key : u.parent[n] = f(t.parent[f(n)])
  <2>1. TradePlaces(t, a, b, u)
    BY <1>1, <1>2, ExchangeFields
  <2> QED BY <2>1 DEF TradePlaces
<1>4. /\ \A n \in Node : f(n) \in Node /\ f(f(n)) = n
      /\ \A n \in Key : f(n) \in Key
      /\ \A n \in Node : f(n) = NULL <=> n = NULL
      /\ f(NULL) = NULL
      /\ \A n \in Node : n # a /\ n # b => f(n) = n
      /\ f(a) = b /\ f(b) = a
  BY <1>2, TradedFacts
<1>5. C = [n \in Node |-> {k \in Key : f(k) \in B[f(n)]}]
  BY Zenon DEF TradedBelow
<1> HIDE DEF f, u, C
<1>6. /\ C \in [Node -> SUBSET Key]
      /\ \A n \in Node, k \in Key : k \in C[n] <=> f(k) \in B[f(n)]
  BY <1>5
<1>7. Key \subseteq Node /\ NULL \in Node /\ NULL \notin Key /\ \A n \in Node : n # NULL => n \in Key
  BY Nodes
<1>8. ASSUME NEW n \in Key, NEW d \in Side, NEW k \in Key
      PROVE  k \in C[u.kid[n][d]] <=> f(k) \in B[t.kid[f(n)][d]]
  <2>1. f(n) \in Key /\ t.kid[f(n)][d] \in Node
    BY <1>1, <1>4
  <2>2. u.kid[n][d] \in Node /\ f(u.kid[n][d]) = t.kid[f(n)][d]
    BY <1>3, <1>4, <2>1
  <2> QED BY <1>6, <2>2
<1>9. ASSUME NEW n \in Key PROVE n \in InTree(u) <=> n \in InTree(t)
  <2>1. n \in InTree(u) <=> n = f(t.root) \/ f(t.parent[f(n)]) # NULL
    BY <1>3 DEF InTree
  <2>2. f(n) \in Key /\ f(f(n)) = n /\ t.parent[f(n)] \in Node
    BY <1>1, <1>4, <1>7
  <2>3. n = f(t.root) <=> f(n) = t.root
    BY <1>1, <1>4, <2>2
  <2>4. n \in InTree(u) <=> f(n) \in InTree(t)
    BY <1>4, <2>1, <2>2, <2>3 DEF InTree
  <2>5. f(n) \in InTree(t) <=> n \in InTree(t)
    BY <1>4, <1>7
  <2> QED BY <2>4, <2>5
<1>10. InTree(u) = InTree(t)
  BY <1>9 DEF InTree
<1>11. Pointers(u)
  <2>1. /\ t.root # NULL => t.parent[t.root] = NULL
        /\ \A m \in Key, e \in Side :
             t.kid[m][e] # NULL => t.parent[t.kid[m][e]] = m /\ t.kid[m][e] # t.kid[m][1 - e]
        /\ \A m \in Key : t.parent[m] # NULL => \E e \in Side : t.kid[t.parent[m]][e] = m
        /\ \A m \in Key \ InTree(t), e \in Side : t.kid[m][e] = NULL
    BY DEF Shape, Pointers
  <2>2. u.root # NULL => u.parent[u.root] = NULL
    <3>1. u.root # NULL => u.root \in Key /\ f(u.root) = t.root /\ t.root # NULL
      BY <1>1, <1>3, <1>4, <1>7
    <3> QED BY <1>3, <1>4, <2>1, <3>1
  <2>3. ASSUME NEW n \in Key, NEW e \in Side, u.kid[n][e] # NULL
        PROVE  u.parent[u.kid[n][e]] = n /\ u.kid[n][e] # u.kid[n][1 - e]
    <3> DEFINE m == f(n)
               k == t.kid[m][e]
               o == t.kid[m][1 - e]
    <3>1. 1 - e \in Side
      BY Sides
    <3>2. m \in Key /\ f(m) = n /\ k \in Node /\ o \in Node
      BY <1>1, <1>4, <1>7, <3>1
    <3>3. u.kid[n][e] = f(k) /\ u.kid[n][1 - e] = f(o)
      BY <1>3, <3>1
    <3>4. k # NULL
      BY <1>4, <2>3, <3>3
    <3>5. t.parent[k] = m /\ k # o
      BY <2>1, <3>2, <3>4
    <3> HIDE DEF m, k, o
    <3>6. f(k) \in Key /\ f(f(k)) = k /\ f(f(o)) = o
      BY <1>4, <1>7, <3>2, <3>4
    <3>7. u.parent[f(k)] = f(t.parent[k])
      BY <1>3, <3>6
    <3> QED BY <3>2, <3>3, <3>5, <3>6, <3>7
  <2>4. ASSUME NEW n \in Key, u.parent[n] # NULL
        PROVE  \E e \in Side : u.kid[u.parent[n]][e] = n
    <3> DEFINE m == f(n)
               p == t.parent[m]
    <3>1. m \in Key /\ f(m) = n /\ p \in Node /\ u.parent[n] = f(p)
      BY <1>1, <1>3, <1>4, <1>7
    <3>2. p # NULL
      BY <1>4, <2>4, <3>1
    <3>3. PICK e \in Side : t.kid[p][e] = m
      BY <2>1, <3>1, <3>2
    <3> HIDE DEF m, p
    <3>4. f(p) \in Key /\ f(f(p)) = p
      BY <1>4, <1>7, <3>1, <3>2
    <3>5. u.kid[f(p)][e] = f(t.kid[p][e])
      BY <1>3, <3>4
    <3> QED BY <3>1, <3>3, <3>5
  <2>5. ASSUME NEW n \in Key \ InTree(u), NEW e \in Side PROVE u.kid[n][e] = NULL
    <3>1. f(n) = n /\ t.kid[n][e] = NULL
      BY <1>4, <1>7, <1>10, <2>1
    <3> QED BY <1>3, <1>4, <3>1
  <2> QED BY <2>2, <2>3, <2>4, <2>5 DEF Pointers
<1>12. Covers(u, C)
  <2>1. C[NULL] = {}
    BY <1>1, <1>4, <1>6, <1>7
  <2>2. ASSUME NEW n \in Key PROVE C[n] = {n} \cup C[u.kid[n][0]] \cup C[u.kid[n][1]]
    <3>1. ASSUME NEW k \in Key
          PROVE  k \in C[n] <=> k = n \/ k \in C[u.kid[n][0]] \/ k \in C[u.kid[n][1]]
      <4>1. f(n) \in Key /\ f(k) \in Key /\ (f(k) = f(n) <=> k = n)
        BY <1>4, <1>7
      <4>2. k \in C[n] <=> f(k) \in B[f(n)]
        BY <1>6, <1>7
      <4>3. B[f(n)] = {f(n)} \cup B[t.kid[f(n)][0]] \cup B[t.kid[f(n)][1]]
        BY <1>1, <4>1
      <4>4. /\ k \in C[u.kid[n][0]] <=> f(k) \in B[t.kid[f(n)][0]]
            /\ k \in C[u.kid[n][1]] <=> f(k) \in B[t.kid[f(n)][1]]
        BY <1>8, BothSides
      <4> QED BY <4>1, <4>2, <4>3, <4>4
    <3>2. u.kid[n][0] \in Node /\ u.kid[n][1] \in Node
      BY <1>3, TreeFields, BothSides
    <3>3. C[n] \subseteq Key /\ C[u.kid[n][0]] \subseteq Key /\ C[u.kid[n][1]] \subseteq Key
      BY <1>6, <1>7, <3>2
    <3> QED BY <3>1, <3>3
  <2> QED BY <1>6, <2>1, <2>2 DEF Covers
<1>13. Layered(u, C)
  <2>1. ASSUME NEW n \in Node PROVE IsFiniteSet(C[n])
    <3> DEFINE S == (B[f(n)] \cup {a}) \cup {b}
    <3>1. IsFiniteSet(S)
      <4>1. IsFiniteSet(B[f(n)])
        BY <1>1, <1>4
      <4>2. IsFiniteSet(B[f(n)] \cup {a})
        BY <4>1, FS_AddElement
      <4> QED BY <4>2, FS_AddElement
    <3>2. C[n] \subseteq S
      <4>1. ASSUME NEW k \in C[n] PROVE k \in S
        <5>1. k \in Key /\ f(k) \in B[f(n)]
          BY <1>6
        <5> QED BY <1>4, <1>7, <5>1
      <4> QED BY <4>1
    <3> QED BY <3>1, <3>2, FS_Subset
  <2>2. ASSUME NEW n \in Key, NEW e \in Side
        PROVE  /\ n \notin C[u.kid[n][e]]
               /\ \A k \in C[u.kid[n][e]] : k \notin C[u.kid[n][1 - e]]
    <3>1. f(n) \in Key /\ 1 - e \in Side /\ u.kid[n][e] \in Node
      BY <1>3, <1>4, Sides, TreeFields
    <3>2. n \notin C[u.kid[n][e]]
      BY <1>1, <1>8, <3>1
    <3>3. ASSUME NEW k \in C[u.kid[n][e]] PROVE k \notin C[u.kid[n][1 - e]]
      <4>1. k \in Key
        BY <1>6, <3>1
      <4>2. f(k) \in B[t.kid[f(n)][e]]
        BY <1>8, <3>3, <4>1
      <4>3. f(k) \notin B[t.kid[f(n)][1 - e]]
        BY <1>1, <3>1, <4>2
      <4> QED BY <1>8, <3>1, <4>1, <4>3
    <3> QED BY <3>2, <3>3
  <2>3. C[u.root] = InTree(u)
    <3>1. u.root \in Node /\ f(u.root) = t.root
      BY <1>1, <1>3, <1>4
    <3>2. ASSUME NEW k \in Key PROVE k \in C[u.root] <=> k \in InTree(u)
      <4>1. k \in C[u.root] <=> f(k) \in InTree(t)
        BY <1>1, <1>6, <3>1
      <4>2. f(k) \in InTree(t) <=> k \in InTree(t)
        BY <1>4, <1>7
      <4> QED BY <1>10, <4>1, <4>2
    <3>3. C[u.root] \subseteq Key /\ InTree(u) \subseteq Key
      BY <1>6, <3>1 DEF InTree
    <3> QED BY <3>2, <3>3
  <2> QED BY <2>1, <2>2, <2>3 DEF Layered
<1>14. Shape(u, C)
  BY <1>3, <1>11, <1>12, <1>13 DEF Shape
<1> QED BY <1>8, <1>10, <1>14 DEF u, C, f


-----------------------------------------------------------------------------
(* Colours and black heights.                                              *)

\* No red node is the root or below a red one, other than x.
Calm(t, x) ==
  \A n \in InTree(t) : Red(t, n) /\ (n = t.root \/ Red(t, t.parent[n])) => n = x

Ones(t, n) == IF t.black[n] THEN 1 ELSE 0
Owed(n, d, p, e) == IF n = p /\ d = e THEN 1 ELSE 0

\* H gives the black height of each node, when the slot on side e of p is owed
\* one black; no slot is when p is NULL.
Weighs(t, H, p, e) ==
  /\ H \in [Node -> Nat] /\ H[NULL] = 0
  /\ \A n \in InTree(t), d \in Side : H[n] = H[t.kid[n][d]] + Owed(n, d, p, e) + Ones(t, n)

LEMMA RedFacts ==
  ASSUME NEW t \in Trees
  PROVE  /\ \A n \in Key : t.black[n] \in BOOLEAN /\ (Red(t, n) <=> ~t.black[n])
         /\ ~Red(t, NULL)
         /\ \A n \in Key : (Red(t, n) => Ones(t, n) = 0) /\ (~Red(t, n) => Ones(t, n) = 1)
         /\ \A n \in Key : Ones(t, n) \in {0, 1}
  BY TreeFields, Nodes DEF Red, Ones

\* q comes up in the place of p, whose other kid is r; b and c are the kids of
\* q on the sides of p and away from it.  Only the links count.
Turn(t, p, d, q, b, c, r, u) ==
  /\ t \in Trees /\ u \in Trees /\ InTree(u) = InTree(t)
  /\ p \in InTree(t) /\ q \in InTree(t) /\ p \in Key /\ q \in Key /\ p # q
  /\ r \in Node /\ b \in Node /\ c \in Node
  /\ r # p /\ r # q /\ b # p /\ b # q /\ c # p /\ c # q
  /\ (r = NULL \/ (r # b /\ r # c))
  /\ (b = NULL \/ b # c)
  /\ t.kid[p][d] = r /\ t.kid[p][1 - d] = q /\ t.kid[q][d] = b /\ t.kid[q][1 - d] = c
  /\ u.kid[p][d] = r /\ u.kid[p][1 - d] = b /\ u.kid[q][d] = p /\ u.kid[q][1 - d] = c
  /\ \A n \in Key, e \in Side :
       n # p /\ n # q =>
         /\ t.kid[n][e] # q
         /\ u.kid[n][e] = IF t.kid[n][e] = p THEN q ELSE t.kid[n][e]
  /\ t.parent[q] = p /\ u.parent[p] = q /\ u.parent[q] = t.parent[p]
  /\ t.parent[p] # p /\ t.parent[p] # q
  /\ b # NULL => t.parent[b] = q /\ u.parent[b] = p
  /\ c # NULL => t.parent[c] = q
  /\ r # NULL => t.parent[r] = p
  /\ \A n \in Key : n # p /\ n # q /\ n # b => u.parent[n] = t.parent[n]
  /\ \A n \in Key : t.parent[n] = p => n = q \/ n = r
  /\ \A n \in Key : t.parent[n] = q => n = b \/ n = c
  /\ t.root # q /\ u.root = (IF t.root = p THEN q ELSE t.root)
  /\ (t.root = p <=> t.parent[p] = NULL)

LEMMA TurnRotate ==
  ASSUME NEW t, NEW B, Shape(t, B), NEW p \in InTree(t), NEW d \in Side,
         t.kid[p][1 - d] # NULL
  PROVE  LET q == t.kid[p][1 - d]
         IN /\ Turn(t, p, d, q, t.kid[q][d], t.kid[q][1 - d], t.kid[p][d], Rotate(t, p, d))
            /\ Rotate(t, p, d).black = t.black
<1> DEFINE q == t.kid[p][1 - d]
           b == t.kid[q][d]
           c == t.kid[q][1 - d]
           r == t.kid[p][d]
           g == t.parent[p]
           u == Rotate(t, p, d)
<1>1. /\ p \in Key /\ q \in Key /\ b \in Node /\ g \in Node
      /\ q # p /\ b # p /\ b # q /\ g # p /\ g # q
      /\ u \in Trees /\ u.root = (IF g = NULL THEN q ELSE t.root)
      /\ u.black = t.black
  BY RotateFields
<1>2. /\ \A m \in Key, e \in Side :
           u.kid[m][e] = IF m = p THEN IF e = d THEN t.kid[p][e] ELSE b
                         ELSE IF m = q THEN IF e = d THEN p ELSE t.kid[q][e]
                         ELSE IF m = g /\ t.kid[g][e] = p THEN q
                         ELSE t.kid[m][e]
      /\ \A m \in Key :
           u.parent[m] = IF m = q THEN g ELSE IF m = p THEN q
                         ELSE IF m = b THEN p ELSE t.parent[m]
  BY RotateFields
<1>3. InTree(u) = InTree(t)
  BY RotatePointers
<1>4. /\ t \in Trees /\ t.root \in Node
      /\ t.root # NULL => t.parent[t.root] = NULL
      /\ \A n \in Key, e \in Side :
           t.kid[n][e] # NULL => t.parent[t.kid[n][e]] = n /\ t.kid[n][e] # t.kid[n][1 - e]
      /\ \A n \in Key : t.parent[n] # NULL => \E e \in Side : t.kid[t.parent[n]][e] = n
      /\ \A n \in Key, e \in Side : t.kid[n][e] \in Node
      /\ \A n \in Key, e \in Side : t.kid[n][e] # NULL => t.kid[n][e] \in InTree(t)
  BY TreeFields, KidFacts DEF Shape, Pointers
<1>5. /\ 1 - d \in Side /\ 1 - d # d /\ 1 - (1 - d) = d
      /\ \A e \in Side : e = d \/ e = 1 - d
  BY Sides
<1>6. p # NULL /\ q # NULL /\ t.parent[q] = p /\ q \in InTree(t)
  BY <1>1, <1>4, <1>5, Nodes
<1>7. g = NULL <=> p = t.root
  BY ParentFacts
<1>8. t.kid[p][1 - d] = q /\ t.kid[q][d] = b /\ t.kid[q][1 - d] = c /\ t.kid[p][d] = r
      /\ t.parent[p] = g
  OBVIOUS
<1>9. c \in Node /\ r \in Node
  BY <1>1, <1>4, <1>5
<1> HIDE DEF q, b, c, r, g, u
<1>10. /\ b # NULL => t.parent[b] = q
       /\ c # NULL => t.parent[c] = q
       /\ r # NULL => t.parent[r] = p
       /\ r # NULL => r # q
       /\ b # NULL => b # c
  BY <1>1, <1>4, <1>5, <1>8
<1>11. r # p /\ c # p /\ c # q /\ r # q
  <2>1. r # p
    BY <1>1, <1>6, <1>8, <1>10
  <2>2. c # p
    BY <1>1, <1>6, <1>8, <1>10
  <2>3. c # q
    BY <1>1, <1>6, <1>10
  <2> QED BY <1>6, <1>10, <2>1, <2>2, <2>3
<1>12. r = NULL \/ (r # b /\ r # c)
  BY <1>1, <1>10
<1>13. u.kid[p][d] = r /\ u.kid[p][1 - d] = b /\ u.kid[q][d] = p /\ u.kid[q][1 - d] = c
  BY <1>1, <1>2, <1>5, <1>8
<1>14. ASSUME NEW n \in Key, NEW e \in Side, n # p, n # q
       PROVE  t.kid[n][e] # q /\ u.kid[n][e] = IF t.kid[n][e] = p THEN q ELSE t.kid[n][e]
  <2>1. t.kid[n][e] # q
    BY <1>4, <1>6, <1>14
  <2>2. t.kid[n][e] = p => n = g
    BY <1>4, <1>6, <1>8
  <2> QED BY <1>2, <1>14, <2>1, <2>2
<1>15. /\ u.parent[p] = q /\ u.parent[q] = g
       /\ b # NULL => u.parent[b] = p
       /\ \A n \in Key : n # p /\ n # q /\ n # b => u.parent[n] = t.parent[n]
  BY <1>1, <1>2, Nodes
<1>16. ASSUME NEW n \in Key, t.parent[n] = p PROVE n = q \/ n = r
  <2>1. PICK e \in Side : t.kid[p][e] = n
    BY <1>4, <1>6, <1>16
  <2> QED BY <1>5, <1>8, <2>1
<1>17. ASSUME NEW n \in Key, t.parent[n] = q PROVE n = b \/ n = c
  <2>1. PICK e \in Side : t.kid[q][e] = n
    BY <1>4, <1>6, <1>17
  <2> QED BY <1>5, <1>8, <2>1
<1>18. t.root # q /\ u.root = (IF t.root = p THEN q ELSE t.root)
  BY <1>1, <1>4, <1>6, <1>7
<1>19. Turn(t, p, d, q, b, c, r, u)
  BY <1>1, <1>3, <1>4, <1>6, <1>7, <1>8, <1>9, <1>10, <1>11, <1>12, <1>13, <1>14, <1>15, <1>16,
     <1>17, <1>18 DEF Turn
<1> QED BY <1>1, <1>19 DEF q, b, c, r, u

LEMMA TurnSame ==
  ASSUME NEW t, NEW p, NEW d, NEW q, NEW b, NEW c, NEW r, NEW u,
         Turn(t, p, d, q, b, c, r, u),
         NEW s \in Trees, InTree(s) = InTree(t), s.root = t.root, s.kid = t.kid, s.parent = t.parent,
         NEW v \in Trees, InTree(v) = InTree(u), v.root = u.root, v.kid = u.kid, v.parent = u.parent
  PROVE  Turn(s, p, d, q, b, c, r, v)
  BY SMTT(60) DEF Turn


-----------------------------------------------------------------------------
(* Where each loop is in the tree, and what it has seen on the way.        *)

\* A search is above its key, if the tree has it.
Searching(t, k, c, B) ==
  /\ c \in InTree(t) \cup {NULL}
  /\ k \in InTree(t) => c # NULL /\ k \in B[c]

\* The key is not in the tree, and the search for its place took at each node
\* the side of the key.
Placing(t, k, c, B) ==
  /\ k \notin InTree(t) /\ c \in InTree(t)
  /\ \A m \in Key, d \in Side : c \in B[t.kid[m][d]] => Toward(k, m) = d

\* Every key that is below k on the left but no longer below c is less than c.
Preceding(t, k, c, B) ==
  /\ k \in InTree(t) /\ \A d \in Side : t.kid[k][d] # NULL
  /\ c \in B[t.kid[k][0]]
  /\ \A n \in B[t.kid[k][0]] : n \notin B[c] => Toward(n, c) = 0

\* c, NULL or not, is a kid of p, or the root.
Under(t, c, p) ==
  /\ c \in InTree(t) \cup {NULL}
  /\ p # NULL => p \in InTree(t) /\ \E d \in Side : t.kid[p][d] = c

Sound(t, o, k, c, p, B) ==
  /\ Shape(t, B) /\ Sorted(t, B)
  /\ o \in {"get", "lookup", "find"} => Searching(t, k, c, B)
  /\ o = "insert" => Placing(t, k, c, B)
  /\ o = "repair" => c \in InTree(t)
  /\ o = "pred" => Preceding(t, k, c, B)
  /\ o \in {"fix", "sibling"} => Under(t, c, p)

\* The inductive invariant, without the colours.
OrderInv == TypeOK /\ \E B : Sound(tree, op, key, cur, up, B)


LEMMA SearchStart ==
  ASSUME NEW t, NEW B, Shape(t, B), NEW k
  PROVE  Searching(t, k, t.root, B)
  BY RootFacts DEF Searching

\* A step down to the side of the key keeps the key below.
LEMMA SearchDown ==
  ASSUME NEW t, NEW B, Shape(t, B), Sorted(t, B), NEW k \in Key, NEW c \in Key,
         Searching(t, k, c, B), c # k
  PROVE  Searching(t, k, t.kid[c][Toward(k, c)], B)
<1> DEFINE d == Toward(k, c)
           n == t.kid[c][d]
<1>1. t \in Trees /\ Covers(t, B) /\ d \in Side /\ n \in Node /\ B[NULL] = {}
  BY TowardFacts, TreeFields DEF Shape, Covers
<1>2. n \in InTree(t) \cup {NULL}
  BY <1>1, KidFacts
<1>3. ASSUME k \in InTree(t) PROVE n # NULL /\ k \in B[n]
  <2>1. k \in B[c]
    BY <1>3 DEF Searching
  <2>2. PICK e \in Side : k \in B[t.kid[c][e]]
    BY <1>1, <2>1, CoverKids
  <2>3. e = d
    BY <2>2 DEF Sorted
  <2> QED BY <1>1, <2>2, <2>3
<1> QED BY <1>2, <1>3 DEF Searching

LEMMA PlaceStart ==
  ASSUME NEW t, NEW B, Shape(t, B), NEW k \in Key, k \notin InTree(t), t.root # NULL
  PROVE  Placing(t, k, t.root, B)
<1>1. t.root \in InTree(t) /\ t.root \in Key /\ t.parent[t.root] = NULL
  BY RootFacts
<1>2. ASSUME NEW m \in Key, NEW d \in Side, t.root \in B[t.kid[m][d]] PROVE FALSE
  <2>1. t.kid[m][d] # NULL
    BY <1>2, Nodes DEF Shape, Covers
  <2>2. t.kid[m][d] \in Key /\ t.parent[t.kid[m][d]] = m
    BY <2>1, KidFacts
  <2>3. t.root # t.kid[m][d]
    BY <1>1, <2>2, Nodes
  <2>4. t.kid[m][d] \in Node /\ NULL \notin Key /\ B[t.kid[m][d]] \subseteq Key
    BY <2>2, Nodes DEF Shape, Covers
  <2>5. t.parent[t.root] \in B[t.kid[m][d]]
    BY <1>2, <2>3, <2>4, Upward
  <2> QED BY <1>1, <2>4, <2>5
<1> QED BY <1>1, <1>2 DEF Placing

LEMMA PlaceDown ==
  ASSUME NEW t, NEW B, Shape(t, B), NEW k \in Key, NEW c \in Key, Placing(t, k, c, B),
         t.kid[c][Toward(k, c)] # NULL
  PROVE  Placing(t, k, t.kid[c][Toward(k, c)], B)
<1> DEFINE e == Toward(k, c)
           n == t.kid[c][e]
<1>1. e \in Side
  BY TowardFacts
<1>2. n \in Key /\ n \in InTree(t) /\ t.parent[n] = c /\ t.kid[c][1 - e] # n
  BY <1>1, KidFacts
<1>3. ASSUME NEW m \in Key, NEW d \in Side, n \in B[t.kid[m][d]] PROVE Toward(k, m) = d
  <2>1. t.kid[m][d] # NULL
    BY <1>3, Nodes DEF Shape, Covers
  <2>2. t.kid[m][d] \in Node /\ t.parent[t.kid[m][d]] = m
    BY <2>1, KidFacts, Nodes
  <2>3. CASE t.kid[m][d] = n
    <3>1. m = c
      BY <1>2, <2>2, <2>3
    <3>2. d = e
      BY <1>1, <1>2, <2>3, <3>1, Sides
    <3> QED BY <3>1, <3>2
  <2>4. CASE t.kid[m][d] # n
    <3> HIDE DEF n
    <3>1. c \in B[t.kid[m][d]]
      BY <1>2, <1>3, <2>2, <2>4, Upward
    <3> QED BY <3>1 DEF Placing
  <2> QED BY <2>3, <2>4
<1> QED BY <1>2, <1>3 DEF Placing

LEMMA PredStart ==
  ASSUME NEW t, NEW B, Shape(t, B), NEW k \in InTree(t), \A d \in Side : t.kid[k][d] # NULL
  PROVE  Preceding(t, k, t.kid[k][0], B)
<1>1. k \in Key /\ 0 \in Side
  BY ParentFacts, BothSides
<1>2. t.kid[k][0] \in B[t.kid[k][0]]
  BY <1>1, KidFacts
<1> QED BY <1>2 DEF Preceding

LEMMA PredDown ==
  ASSUME NEW t, NEW B, Shape(t, B), Sorted(t, B), NEW k \in Key, NEW c \in Key,
         Preceding(t, k, c, B), t.kid[c][1] # NULL
  PROVE  Preceding(t, k, t.kid[c][1], B)
<1> DEFINE x == t.kid[k][0]
           n == t.kid[c][1]
<1>1. t \in Trees /\ Covers(t, B) /\ k \in InTree(t) /\ c \in B[x] /\ x \in Node /\ 0 # 1
      /\ 0 \in Side /\ 1 \in Side /\ \A d \in Side : t.kid[k][d] # NULL
  BY TreeFields, BothSides DEF Shape, Preceding
<1>2. n \in Key /\ n \in B[n] /\ n \in B[c]
  BY <1>1, KidFacts
<1>3. B[c] \subseteq B[x] /\ B[x] \subseteq Key
  BY <1>1, Transitive DEF Covers
<1>4. Toward(n, c) = 1 /\ n # c
  <2>1. Toward(n, c) = 1
    BY <1>1, <1>2 DEF Sorted
  <2>2. n # c
    BY <1>1, <1>2, KidFacts
  <2> QED BY <2>1, <2>2
<1>5. Toward(c, n) = 0
  BY <1>1, <1>2, <1>4, TowardFacts, BothSides
<1> HIDE DEF n, x
<1>6. ASSUME NEW m \in B[x], m \notin B[n] PROVE Toward(m, n) = 0
  <2>1. m \in Key
    BY <1>3
  <2>2. CASE m = c
    BY <1>5, <2>2
  <2>3. CASE m # c
    <3>1. Toward(m, c) = 0
      <4>1. CASE m \notin B[c]
        BY <1>6, <4>1 DEF Preceding, x
      <4>2. CASE m \in B[c]
        <5>1. PICK d \in Side : m \in B[t.kid[c][d]]
          BY <1>1, <2>3, <4>2, CoverKids
        <5>2. d = 0
          BY <1>6, <5>1 DEF Side, n
        <5> QED BY <1>1, <5>1, <5>2 DEF Sorted
      <4> QED BY <4>1, <4>2
    <3> QED BY <1>1, <1>2, <1>4, <1>5, <2>1, <2>3, <3>1, TowardFacts
  <2> QED BY <2>2, <2>3
<1> QED BY <1>1, <1>2, <1>3, <1>6 DEF Preceding, n, x


\* The predecessor c of k can take its place: once k is gone from the place c
\* had, the rest is in order again.
LEMMA TakePlace ==
  ASSUME NEW t, NEW B, Shape(t, B), Sorted(t, B), NEW k \in Key, NEW c \in Key,
         Preceding(t, k, c, B), t.kid[c][1] = NULL
  PROVE  LET u == Exchange(t, k, c)
             C == TradedBelow(B, k, c)
         IN /\ Shape(u, C) /\ InTree(u) = InTree(t) /\ k \in InTree(u) /\ u.kid[k][1] = NULL
            /\ Sorted(Unlink(u, k), UnlinkedBelow(C, k))
<1> DEFINE u == Exchange(t, k, c)
           C == TradedBelow(B, k, c)
           v == Unlink(u, k)
           W == UnlinkedBelow(C, k)
           f(n) == Traded(k, c, n)
<1>1. /\ t \in Trees /\ Covers(t, B) /\ k \in InTree(t) /\ 0 \in Side /\ 1 \in Side
      /\ t.kid[k][0] \in Node /\ c \in B[t.kid[k][0]] /\ k \notin B[t.kid[k][0]] /\ c # k
      /\ B[t.kid[k][0]] \subseteq B[k] /\ t.kid[k][0] # NULL
  BY TreeFields, BothSides, KidFacts DEF Shape, Preceding
<1>2. c \in InTree(t)
  <2>1. k \in B[t.root] /\ t.root \in Node
    BY <1>1, RootFacts
  <2>2. B[k] \subseteq B[t.root]
    BY <2>1, Transitive
  <2> QED BY <1>1, <2>2 DEF Shape, Layered
<1>3. /\ Shape(u, C) /\ InTree(u) = InTree(t)
      /\ \A n \in Key, d \in Side : \A j \in Key : j \in C[u.kid[n][d]] <=> f(j) \in B[t.kid[f(n)][d]]
  BY <1>1, <1>2, ExchangeShape
<1>4. u.kid[k][1] = f(t.kid[f(k)][1])
  <2>1. TradePlaces(t, k, c, u)
    BY <1>1, ExchangeFields
  <2> QED BY <1>1, <2>1 DEF TradePlaces
<1>5. /\ \A n \in Key : f(n) \in Key
      /\ f(NULL) = NULL /\ f(k) = c /\ f(c) = k
      /\ \A n \in Node : n # k /\ n # c => f(n) = n
  BY TradedFacts
<1> HIDE DEF u, C, f
<1>6. u.kid[k][1] = NULL /\ k \in InTree(u)
  BY <1>1, <1>3, <1>4, <1>5
<1>7. /\ Shape(v, W)
      /\ \A m \in Key, e \in Side : m # k => W[v.kid[m][e]] = C[u.kid[m][e]] \ {k}
      /\ \A e \in Side : v.kid[k][e] = NULL
  BY <1>3, <1>6, UnlinkShape
<1> HIDE DEF v, W
<1>8. W[NULL] = {} /\ C \in [Node -> SUBSET Key] /\ u \in Trees
  BY <1>3, <1>7 DEF Shape, Covers
<1>9. ASSUME NEW m \in Key, NEW e \in Side, NEW n \in W[v.kid[m][e]] PROVE Toward(n, m) = e
  <2>1. m # k
    BY <1>7, <1>8, <1>9
  <2>2. n \in C[u.kid[m][e]] /\ n # k
    BY <1>7, <1>9, <2>1
  <2>3. n \in Key
    BY <1>8, <2>2, TreeFields
  <2>4. f(n) \in B[t.kid[f(m)][e]]
    BY <1>3, <2>2, <2>3
  <2>5. CASE m = c
    <3>1. f(n) \in B[t.kid[k][e]]
      BY <1>5, <2>4, <2>5
    <3>2. k \notin B[t.kid[k][e]]
      BY DEF Shape, Layered
    <3>3. n # c /\ f(n) = n
      BY <1>5, <2>2, <2>3, <3>1, <3>2, Nodes
    <3>4. n \in B[t.kid[k][e]]
      BY <3>1, <3>3
    <3>5. CASE e = 0
      <4>1. CASE n \notin B[c]
        BY <2>5, <3>4, <3>5, <4>1 DEF Preceding
      <4>2. CASE n \in B[c]
        <5>1. PICK d \in Side : n \in B[t.kid[c][d]]
          BY <1>1, <3>3, <4>2, CoverKids
        <5>2. d = 0
          <6>1. B[NULL] = {}
            BY <1>1 DEF Covers
          <6> QED BY <5>1, <6>1 DEF Side
        <5> QED BY <2>5, <3>5, <5>1, <5>2 DEF Sorted
      <4> QED BY <4>1, <4>2
    <3>6. CASE e = 1
      <4>1. Toward(n, k) = 1 /\ Toward(c, k) = 0
        BY <1>1, <3>4, <3>6 DEF Sorted
      <4>2. Toward(k, c) = 1
        BY <1>1, <4>1, TowardFacts, BothSides
      <4> QED BY <1>1, <2>2, <2>3, <2>5, <3>6, <4>1, <4>2, TowardFacts
    <3> QED BY <3>5, <3>6 DEF Side
  <2>6. CASE m # c
    <3>1. f(m) = m
      BY <1>5, <2>1, <2>6, Nodes
    <3>2. CASE n # c
      <4>1. f(n) = n
        BY <1>5, <2>2, <2>3, <3>2, Nodes
      <4> QED BY <2>4, <3>1, <4>1 DEF Sorted
    <3>3. CASE n = c
      <4>1. k \in B[t.kid[m][e]] /\ t.kid[m][e] \in Node
        BY <1>1, <1>5, <2>4, <3>1, <3>3, TreeFields
      <4>2. B[k] \subseteq B[t.kid[m][e]]
        BY <4>1, Transitive
      <4> QED BY <1>1, <3>3, <4>2 DEF Sorted
    <3> QED BY <3>2, <3>3
  <2> QED BY <2>5, <2>6
<1>10. Sorted(v, W)
  BY <1>9 DEF Sorted
<1> QED BY <1>3, <1>6, <1>10 DEF u, C, v, W

\* A tree that is in order, whatever is below each node.
InOrder(t) == \E B : Shape(t, B) /\ Sorted(t, B)

LEMMA RotateOrder ==
  ASSUME NEW t, InOrder(t), NEW p \in InTree(t), NEW d \in Side, t.kid[p][1 - d] # NULL
  PROVE  InOrder(Rotate(t, p, d)) /\ InTree(Rotate(t, p, d)) = InTree(t)
<1>1. PICK B : Shape(t, B) /\ Sorted(t, B)
  BY DEF InOrder
<1>2. /\ Shape(Rotate(t, p, d), RotatedBelow(t, B, p, d))
      /\ Sorted(Rotate(t, p, d), RotatedBelow(t, B, p, d))
      /\ InTree(Rotate(t, p, d)) = InTree(t)
  BY <1>1, RotateShape
<1> QED BY <1>2 DEF InOrder

LEMMA PaintOrder ==
  ASSUME NEW t, InOrder(t), NEW n \in Node, NEW b \in BOOLEAN
  PROVE  /\ InOrder(Paint(t, n, b)) /\ InTree(Paint(t, n, b)) = InTree(t)
         /\ Paint(t, n, b).kid = t.kid /\ Paint(t, n, b).parent = t.parent
         /\ Paint(t, n, b).root = t.root /\ Paint(t, n, b) \in Trees
<1>1. PICK B : Shape(t, B) /\ Sorted(t, B)
  BY DEF InOrder
<1>2. t \in Trees
  BY <1>1 DEF Shape
<1>3. /\ Shape(Paint(t, n, b), B) /\ Sorted(Paint(t, n, b), B)
      /\ InTree(Paint(t, n, b)) = InTree(t)
  BY <1>1, PaintShape
<1>4. /\ Paint(t, n, b).kid = t.kid /\ Paint(t, n, b).parent = t.parent
      /\ Paint(t, n, b).root = t.root /\ Paint(t, n, b) \in Trees
  BY <1>2, PaintFields
<1> QED BY <1>3, <1>4 DEF InOrder

LEMMA InOrderFacts ==
  ASSUME NEW t, InOrder(t)
  PROVE  /\ t \in Trees /\ InTree(t) \subseteq Key
         /\ \A n \in InTree(t) : t.parent[n] # NULL =>
              /\ t.parent[n] \in InTree(t)
              /\ SideOf(t, t.parent[n], n) \in Side
              /\ t.kid[t.parent[n]][SideOf(t, t.parent[n], n)] = n
         /\ \A n \in Key, d \in Side :
              t.kid[n][d] # NULL => t.kid[n][d] \in InTree(t) /\ t.parent[t.kid[n][d]] = n
         /\ \A n \in Key, d \in Side : t.kid[n][d] \in Node
<1>1. PICK B : Shape(t, B)
  BY DEF InOrder
<1>2. t \in Trees /\ InTree(t) \subseteq Key
  BY <1>1 DEF Shape, InTree
<1>3. ASSUME NEW n \in InTree(t), t.parent[n] # NULL
      PROVE  /\ t.parent[n] \in InTree(t)
             /\ SideOf(t, t.parent[n], n) \in Side
             /\ t.kid[t.parent[n]][SideOf(t, t.parent[n], n)] = n
  <2>1. /\ t.parent[n] \in InTree(t)
        /\ \E d \in Side : t.kid[t.parent[n]][d] = n /\ t.kid[t.parent[n]][1 - d] # n
    BY <1>1, <1>3, ParentFacts
  <2> QED BY <2>1 DEF SideOf, Side
<1> QED BY <1>1, <1>2, <1>3, KidFacts, TreeFields


\* What is left without n is in order, with n's kid under n's parent.
LEMMA DeleteOrder ==
  ASSUME NEW t, NEW B, Shape(t, B), NEW n \in InTree(t),
         t.kid[n][0] = NULL \/ t.kid[n][1] = NULL,
         Sorted(Unlink(t, n), UnlinkedBelow(B, n))
  PROVE  /\ OnlyKid(t, n) \in Node /\ t.parent[n] \in Node
         /\ InOrder(Unlink(t, n)) /\ InOrder(Paint(Unlink(t, n), OnlyKid(t, n), TRUE))
         /\ Under(Unlink(t, n), OnlyKid(t, n), t.parent[n])
<1> DEFINE c == OnlyKid(t, n)
           p == t.parent[n]
           u == Unlink(t, n)
<1>1. n \in Key /\ c \in Node /\ p \in Node /\ t \in Trees
  BY ParentFacts, OnlyKidFacts, TreeFields DEF Shape
<1>2. InOrder(u) /\ InTree(u) = InTree(t) \ {n}
  BY UnlinkShape DEF InOrder
<1>3. InOrder(Paint(u, c, TRUE))
  BY <1>1, <1>2, PaintOrder
<1>4. c # n /\ \E d \in Side : t.kid[n][d] = c
  BY OnlyKidFacts
<1>5. c \in InTree(u) \cup {NULL}
  BY <1>1, <1>2, <1>4, KidFacts
<1>6. ASSUME p # NULL PROVE p \in InTree(u) /\ \E d \in Side : u.kid[p][d] = c
  <2>1. /\ p \in Key /\ p \in InTree(t) /\ p \notin B[n] /\ n \in B[n]
        /\ \E d \in Side : t.kid[p][d] = n
    BY <1>6, ParentFacts
  <2>2. Without(t, n, c, p, u)
    BY UnlinkFields
  <2> HIDE DEF c, p, u
  <2>3. \E d \in Side : u.kid[p][d] = c
    BY <2>1, <2>2 DEF Without
  <2> QED BY <1>2, <2>1, <2>3
<1> QED BY <1>1, <1>2, <1>3, <1>5, <1>6 DEF Under

\* A rotation of p downwards on the side of c leaves c where it is.
LEMMA RotateUnder ==
  ASSUME NEW t, InOrder(t), NEW p \in InTree(t), NEW d \in Side, t.kid[p][1 - d] # NULL
  PROVE  /\ p \in InTree(Rotate(t, p, d))
         /\ Rotate(t, p, d).kid[p][d] = t.kid[p][d]
         /\ Rotate(t, p, d).kid[t.kid[p][1 - d]][d] = p
         /\ \A m \in InTree(t) : m # p /\ m # t.kid[p][1 - d] =>
              \A e \in Side : t.kid[m][e] # p => Rotate(t, p, d).kid[m][e] = t.kid[m][e]
         /\ \A e \in Side : t.parent[p] # NULL /\ t.kid[t.parent[p]][e] = p
                              => Rotate(t, p, d).kid[t.parent[p]][e] = t.kid[p][1 - d]
<1> DEFINE q == t.kid[p][1 - d]
           g == t.parent[p]
           u == Rotate(t, p, d)
<1>1. PICK B : Shape(t, B)
  BY DEF InOrder
<1>2. /\ p \in Key /\ q \in Key /\ g \in Node /\ q # p /\ g # p /\ g # q
      /\ \A m \in Key, e \in Side :
           u.kid[m][e] = IF m = p THEN IF e = d THEN t.kid[p][e] ELSE t.kid[q][d]
                         ELSE IF m = q THEN IF e = d THEN p ELSE t.kid[q][e]
                         ELSE IF m = g /\ t.kid[g][e] = p THEN q
                         ELSE t.kid[m][e]
  BY <1>1, RotateFields
<1>3. InTree(u) = InTree(t) /\ InTree(t) \subseteq Key
  BY RotateOrder, InOrderFacts
<1>4. g # NULL => g \in Key
  BY <1>2, Nodes
<1> HIDE DEF u, q, g
<1>5. ASSUME NEW m \in InTree(t), NEW e \in Side, m # p, m # q, t.kid[m][e] # p
      PROVE  u.kid[m][e] = t.kid[m][e]
  BY <1>2, <1>3, <1>5
<1>6. ASSUME NEW e \in Side, g # NULL, t.kid[g][e] = p PROVE u.kid[g][e] = q
  BY <1>2, <1>4, <1>6
<1>7. u.kid[p][d] = t.kid[p][d] /\ u.kid[q][d] = p
  BY <1>2
<1> QED BY <1>3, <1>5, <1>6, <1>7 DEF u, q, g

\* The straightening of the path from g to n, and the rotation of g.
LEMMA RepairRotateOrder ==
  ASSUME NEW t, InOrder(t), NEW n \in InTree(t), t.parent[n] # NULL, t.parent[t.parent[n]] # NULL
  PROVE  LET p == t.parent[n]
             g == t.parent[p]
             d == SideOf(t, g, p)
             v == IF t.kid[p][1 - d] = n THEN Rotate(t, p, d) ELSE t
         IN /\ g \in InTree(v) /\ d \in Side /\ v.kid[g][d] # NULL
            /\ p \in Key /\ g \in Key
            /\ InOrder(v) /\ InOrder(Rotate(v, g, 1 - d))
            /\ InTree(Rotate(v, g, 1 - d)) = InTree(t)
<1> DEFINE p == t.parent[n]
           g == t.parent[p]
           d == SideOf(t, g, p)
           v == IF t.kid[p][1 - d] = n THEN Rotate(t, p, d) ELSE t
<1>1. /\ p \in InTree(t) /\ g \in InTree(t) /\ d \in Side /\ t.kid[g][d] = p /\ n \in Key
      /\ p \in Key /\ g \in Key /\ t \in Trees
  BY InOrderFacts
<1>2. 1 - d \in Side /\ 1 - (1 - d) = d /\ p # NULL /\ g # NULL /\ n # NULL
  BY <1>1, Nodes, Sides
<1>3. PICK B : Shape(t, B)
  BY DEF InOrder
<1> HIDE DEF d
<1>4. CASE t.kid[p][1 - d] = n
  <2>1. v = Rotate(t, p, d)
    BY <1>4
  <2>2. t.kid[p][1 - d] # NULL
    BY <1>2, <1>4
  <2>3. InOrder(v) /\ InTree(v) = InTree(t)
    BY <1>1, <2>1, <2>2, RotateOrder
  <2>4. v.kid[g][d] = n
    <3>1. t.parent[p] = g
      OBVIOUS
    <3> HIDE DEF v, p, g
    <3>2. t.parent[p] # NULL /\ t.kid[t.parent[p]][d] = p
      BY <1>1, <1>2, <3>1
    <3>3. Rotate(t, p, d).kid[t.parent[p]][d] = t.kid[p][1 - d]
      BY <1>1, <2>2, <3>2, RotateUnder
    <3> QED BY <1>4, <2>1, <3>1, <3>3
  <2> HIDE DEF v
  <2>5. InOrder(Rotate(v, g, 1 - d)) /\ InTree(Rotate(v, g, 1 - d)) = InTree(t)
    BY <1>1, <1>2, <2>3, <2>4, RotateOrder
  <2> QED BY <1>1, <1>2, <2>3, <2>4, <2>5 DEF v, d
<1>5. CASE t.kid[p][1 - d] # n
  <2>1. v = t
    BY <1>5
  <2> HIDE DEF v
  <2>2. InOrder(Rotate(t, g, 1 - d)) /\ InTree(Rotate(t, g, 1 - d)) = InTree(t)
    BY <1>1, <1>2, RotateOrder
  <2> QED BY <1>1, <1>2, <2>1, <2>2 DEF v, d
<1> QED BY <1>4, <1>5

LEMMA UnderFacts ==
  ASSUME NEW t, InOrder(t), NEW c, NEW p, Under(t, c, p), p # NULL
  PROVE  /\ p \in InTree(t) /\ p \in Key /\ c \in Node
         /\ SideOf(t, p, c) \in Side /\ t.kid[p][SideOf(t, p, c)] = c
<1>1. p \in InTree(t) /\ \E d \in Side : t.kid[p][d] = c
  BY DEF Under
<1>2. t.kid[p][SideOf(t, p, c)] = c /\ SideOf(t, p, c) \in Side
  BY <1>1 DEF SideOf, Side
<1> QED BY <1>1, <1>2, InOrderFacts

LEMMA FixSiblingOrder ==
  ASSUME NEW t, InOrder(t), NEW c, NEW p, Under(t, c, p), p # NULL
  PROVE  LET d == SideOf(t, p, c)
             s == t.kid[p][1 - d]
             u == Rotate(Paint(Paint(t, p, FALSE), s, TRUE), p, d)
         IN s # NULL => InOrder(u) /\ Under(u, c, p) /\ InTree(u) = InTree(t)
<1> DEFINE d == SideOf(t, p, c)
           s == t.kid[p][1 - d]
           v == Paint(t, p, FALSE)
           w == Paint(v, s, TRUE)
           u == Rotate(w, p, d)
<1> SUFFICES ASSUME s # NULL PROVE InOrder(u) /\ Under(u, c, p) /\ InTree(u) = InTree(t)
  OBVIOUS
<1>1. /\ p \in InTree(t) /\ p \in Key /\ c \in Node /\ d \in Side /\ t.kid[p][d] = c
      /\ FALSE \in BOOLEAN /\ TRUE \in BOOLEAN
  BY UnderFacts
<1>2. p \in Node /\ s \in Node
  BY <1>1, Nodes, InOrderFacts, Sides
<1> HIDE DEF d, s, v, w, u
<1>3. InOrder(v) /\ InTree(v) = InTree(t) /\ v.kid = t.kid
  BY <1>1, <1>2, PaintOrder DEF v
<1>4. InOrder(w) /\ InTree(w) = InTree(t) /\ w.kid = t.kid
  BY <1>1, <1>2, <1>3, PaintOrder DEF w
<1>5. w.kid[p][1 - d] # NULL /\ p \in InTree(w)
  BY <1>1, <1>4 DEF s
<1>6. InOrder(u) /\ InTree(u) = InTree(w)
  BY <1>1, <1>4, <1>5, RotateOrder DEF u
<1>7. u.kid[p][d] = c
  BY <1>1, <1>4, <1>5, RotateUnder DEF u
<1>8. Under(u, c, p)
  BY <1>1, <1>4, <1>6, <1>7 DEF Under
<1> QED BY <1>4, <1>6, <1>8


\* u is in order, with the nodes of t.
KeepsOrder(u, t) == InOrder(u) /\ InTree(u) = InTree(t)

LEMMA FixRotateOrder ==
  ASSUME NEW t, InOrder(t), NEW c, NEW p, Under(t, c, p), p # NULL,
         NEW b \in BOOLEAN, NEW near \in BOOLEAN
  PROVE  LET d == SideOf(t, p, c)
             q == t.kid[p][1 - d]
             i == t.kid[q][d]
             v == IF near THEN Rotate(Paint(Paint(t, q, FALSE), i, TRUE), q, 1 - d) ELSE t
             s == v.kid[p][1 - d]
             far == v.kid[s][1 - d]
         IN q # NULL /\ (near => i # NULL)
              => KeepsOrder(Rotate(Paint(Paint(Paint(v, s, b), p, TRUE), far, TRUE), p, d), t)
<1> DEFINE d == SideOf(t, p, c)
           q == t.kid[p][1 - d]
           i == t.kid[q][d]
           w == Paint(Paint(t, q, FALSE), i, TRUE)
           v == IF near THEN Rotate(w, q, 1 - d) ELSE t
           s == v.kid[p][1 - d]
           far == v.kid[s][1 - d]
           x == Paint(v, s, b)
           y == Paint(x, p, TRUE)
           z == Paint(y, far, TRUE)
<1> SUFFICES ASSUME q # NULL, near => i # NULL
             PROVE  KeepsOrder(Rotate(z, p, d), t)
  OBVIOUS
<1>1. /\ p \in InTree(t) /\ p \in Key /\ d \in Side /\ FALSE \in BOOLEAN /\ TRUE \in BOOLEAN
  BY UnderFacts
<1>2. 1 - d \in Side /\ 1 - (1 - d) = d
  BY <1>1, Sides
<1> HIDE DEF d
<1>3. q \in InTree(t) /\ q \in Key /\ t.parent[q] = p
  BY <1>1, <1>2, InOrderFacts
<1>4. i \in Node /\ q \in Node /\ p \in Node
  BY <1>1, <1>3, InOrderFacts, Nodes
<1>5. InOrder(v) /\ InTree(v) = InTree(t) /\ s \in Key
  <2>1. CASE near
    <3>1. /\ InOrder(Paint(t, q, FALSE)) /\ InTree(Paint(t, q, FALSE)) = InTree(t)
          /\ Paint(t, q, FALSE).kid = t.kid /\ Paint(t, q, FALSE).parent = t.parent
      BY <1>1, <1>4, PaintOrder
    <3>2. InOrder(w) /\ InTree(w) = InTree(t) /\ w.kid = t.kid /\ w.parent = t.parent
      BY <1>1, <1>4, <3>1, PaintOrder
    <3> HIDE DEF w
    <3>3. w.kid[q][1 - (1 - d)] = i /\ i # NULL /\ w.kid[p][1 - d] = q /\ w.parent[q] = p
      BY <1>2, <1>3, <2>1, <3>2
    <3>4. InOrder(Rotate(w, q, 1 - d)) /\ InTree(Rotate(w, q, 1 - d)) = InTree(t)
      BY <1>2, <1>3, <3>2, <3>3, RotateOrder
    <3>5. Rotate(w, q, 1 - d).kid[p][1 - d] = i
      <4> HIDE DEF q, i
      <4>1. InOrder(w) /\ q \in InTree(w) /\ 1 - d \in Side /\ w.kid[q][1 - (1 - d)] # NULL
        BY <1>2, <1>3, <3>2, <3>3
      <4>2. \A e \in Side : w.parent[q] # NULL /\ w.kid[w.parent[q]][e] = q
              => Rotate(w, q, 1 - d).kid[w.parent[q]][e] = w.kid[q][1 - (1 - d)]
        BY <4>1, RotateUnder
      <4>3. w.parent[q] # NULL /\ w.kid[w.parent[q]][1 - d] = q
        BY <3>3
      <4> QED BY <1>2, <3>3, <4>2, <4>3
    <3>6. i \in Key
      BY <1>4, <3>3, Nodes
    <3> QED BY <2>1, <3>4, <3>5, <3>6
  <2>2. CASE ~near
    BY <1>3, <2>2
  <2> QED BY <2>1, <2>2
<1> HIDE DEF v
<1>6. far \in Node /\ s \in Node
  BY <1>2, <1>5, InOrderFacts, Nodes
<1> HIDE DEF far
<1>7. InOrder(x) /\ InTree(x) = InTree(v) /\ x.kid = v.kid
  BY <1>5, <1>6, PaintOrder
<1> HIDE DEF x
<1>8. InOrder(y) /\ InTree(y) = InTree(v) /\ y.kid = v.kid
  BY <1>1, <1>4, <1>7, PaintOrder
<1> HIDE DEF y
<1>9. InOrder(z) /\ InTree(z) = InTree(v) /\ z.kid = v.kid
  BY <1>1, <1>6, <1>8, PaintOrder
<1> HIDE DEF z
<1>10. z.kid[p][1 - d] # NULL
  BY <1>5, <1>9, Nodes
<1> HIDE DEF s
<1> QED BY <1>1, <1>5, <1>9, <1>10, RotateOrder DEF KeepsOrder

LEMMA ReadySound ==
  ASSUME NEW t, InOrder(t), NEW k, NEW c, NEW p
  PROVE  t \in Trees /\ \E B : Sound(t, "ready", k, c, p, B)
  BY DEF InOrder, Sound, Shape


LEMMA EmptyOrder == InOrder(Empty) /\ InTree(Empty) = {} /\ Empty \in Trees
<1> DEFINE B == [n \in Node |-> IF n = NULL THEN {} ELSE {n}]
<1>1. /\ Empty \in Trees /\ Empty.root = NULL
      /\ \A n \in Key, d \in Side : Empty.kid[n][d] = NULL
      /\ \A n \in Key : Empty.parent[n] = NULL
  BY Nodes DEF Empty, Trees
<1>2. InTree(Empty) = {}
  BY <1>1, Nodes DEF InTree
<1>3. /\ B \in [Node -> SUBSET Key] /\ B[NULL] = {} /\ \A n \in Key : B[n] = {n}
      /\ \A n \in Node : IsFiniteSet(B[n])
  <2>1. \A n \in Node : B[n] = {} \/ B[n] = {n}
    OBVIOUS
  <2> QED BY <2>1, Nodes, FS_EmptySet, FS_Singleton
<1> HIDE DEF B
<1>4. Pointers(Empty)
  BY <1>1 DEF Pointers
<1>5. Covers(Empty, B)
  BY <1>1, <1>3, BothSides DEF Covers
<1>6. Layered(Empty, B)
  BY <1>1, <1>2, <1>3 DEF Layered
<1>7. Sorted(Empty, B)
  BY <1>1, <1>3 DEF Sorted
<1> QED BY <1>1, <1>2, <1>4, <1>5, <1>6, <1>7 DEF Shape, InOrder

LEMMA OrderInit == Init => OrderInv
<1> SUFFICES ASSUME Init PROVE OrderInv
  OBVIOUS
<1>1. tree = Empty /\ op = "ready" /\ key = NULL /\ cur = NULL /\ up = NULL
  BY DEF Init
<1>2. tree \in Trees /\ \E B : Sound(tree, op, key, cur, up, B)
  BY <1>1, EmptyOrder, ReadySound
<1> QED BY <1>1, <1>2, Nodes DEF OrderInv, TypeOK, Ops

\* A finished operation leaves a tree in order.
LEMMA DoneOrder ==
  ASSUME NEW STATE t, InOrder(t), Done(t)
  PROVE  OrderInv'
<1>1. tree' = t /\ op' = "ready" /\ key' = NULL /\ cur' = NULL /\ up' = NULL
  BY DEF Done
<1>2. t \in Trees /\ \E B : Sound(t, "ready", NULL, NULL, NULL, B)
  BY ReadySound
<1>3. TypeOK'
  BY <1>1, <1>2, Nodes DEF TypeOK, Ops
<1> QED BY <1>1, <1>2, <1>3 DEF OrderInv

\* The next round of a loop that leaves the tree alone.
LEMMA SameTreeOrder ==
  ASSUME OrderInv, op # "ready", tree' = tree, NEW o \in Ops, o # "ready", NEW STATE c, c \in Node,
         o \in {"insert", "repair", "pred"} => c \in Key,
         NEW p \in Node, o = "sibling" => p \in Key, Goto(o, c, p),
         \E B : Sound(tree, o, key, c, p, B)
  PROVE  OrderInv'
<1>1. op' = o /\ cur' = c /\ up' = p /\ key' = key
  BY DEF Goto
<1>2. TypeOK'
  BY <1>1 DEF OrderInv, TypeOK
<1>3. \E B : Sound(tree', op', key', cur', up', B)
  BY <1>1
<1> QED BY <1>2, <1>3 DEF OrderInv

\* The entry of a loop that does not look at where it is.
LEMMA GotoOrder ==
  ASSUME OrderInv, op # "ready", NEW STATE t, InOrder(t), tree' = t, NEW STATE c, NEW STATE p, NEW o,
         \/ o = "repair" /\ c \in InTree(t) /\ p = NULL
         \/ o = "fix" /\ Under(t, c, p) /\ p \in Node
         \/ o = "sibling" /\ Under(t, c, p) /\ p \in Key,
         Goto(o, c, p)
  PROVE  OrderInv'
<1>1. op' = o /\ cur' = c /\ up' = p /\ key' = key
  BY DEF Goto
<1>2. t \in Trees /\ c \in Node /\ InTree(t) \subseteq Key /\ p \in Node
  BY InOrderFacts, Nodes DEF Under
<1>3. TypeOK'
  BY <1>1, <1>2 DEF OrderInv, TypeOK, Ops
<1>4. \E B : Sound(t, o, key, c, p, B)
  BY DEF InOrder, Sound
<1> QED BY <1>1, <1>3, <1>4 DEF OrderInv


\* Deleting a node with one kid at most ends the operation, or leaves a slot
\* one black short.
LEMMA DeleteStepOrder ==
  ASSUME OrderInv, op # "ready", NEW STATE t, NEW STATE B, Shape(t, B), key \in InTree(t),
         t.kid[key][0] = NULL \/ t.kid[key][1] = NULL,
         Sorted(Unlink(t, key), UnlinkedBelow(B, key)), DeleteOneChild(t)
  PROVE  OrderInv'
<1> DEFINE c == OnlyKid(t, key)
           v == Unlink(t, key)
<1>1. /\ c \in Node /\ t.parent[key] \in Node
      /\ InOrder(v) /\ InOrder(Paint(v, c, TRUE)) /\ Under(v, c, t.parent[key])
  BY DeleteOrder
<1>2. \/ Done(v)
      \/ Done(Paint(v, c, TRUE))
      \/ tree' = v /\ Goto("fix", c, t.parent[key])
  BY DEF DeleteOneChild
<1> HIDE DEF c, v
<1>3. CASE Done(v)
  BY <1>1, <1>3, DoneOrder
<1>4. CASE Done(Paint(v, c, TRUE))
  BY <1>1, <1>4, DoneOrder
<1>5. CASE tree' = v /\ Goto("fix", c, t.parent[key])
  BY <1>1, <1>5, GotoOrder
<1> QED BY <1>2, <1>3, <1>4, <1>5

LEMMA OrderStep == OrderInv /\ [Next]_vars => OrderInv'
<1> SUFFICES ASSUME OrderInv, [Next]_vars PROVE OrderInv'
  OBVIOUS
<1>1. /\ tree \in Trees /\ op \in Ops /\ key \in Node /\ cur \in Node /\ up \in Node
      /\ op = "ready" <=> key = NULL
      /\ op \in {"insert", "repair", "pred"} => cur \in Key
      /\ op = "sibling" => up \in Key
  BY DEF OrderInv, TypeOK
<1>2. PICK B : Sound(tree, op, key, cur, up, B)
  BY DEF OrderInv
<1>3. Shape(tree, B) /\ Sorted(tree, B) /\ InOrder(tree)
  BY <1>2 DEF Sound, InOrder
<1>4. NULL \in Node /\ NULL \notin Key /\ \A n \in Node : n # NULL => n \in Key
  BY Nodes
<1>5. op \in {"get", "lookup", "find"} => Searching(tree, key, cur, B)
  BY <1>2 DEF Sound
<1>6. op = "insert" => Placing(tree, key, cur, B)
  BY <1>2 DEF Sound
<1>7. op = "repair" => cur \in InTree(tree)
  BY <1>2 DEF Sound
<1>8. op = "pred" => Preceding(tree, key, cur, B)
  BY <1>2 DEF Sound
<1>9. op \in {"fix", "sibling"} => Under(tree, cur, up)
  BY <1>2 DEF Sound
<1>10. op # "ready" => key \in Key
  BY <1>1, <1>4
<1>11. CASE UNCHANGED vars
  BY <1>11 DEF vars, OrderInv, TypeOK
<1>12. CASE \E k \in Key : Set(k) \/ Get(k) \/ Del(k)
  <2>1. PICK k \in Key : Set(k) \/ Get(k) \/ Del(k)
    BY <1>12
  <2>2. PICK o \in {"lookup", "get", "find"} : Begin(o, k)
    BY <2>1 DEF Set, Get, Del
  <2>3. op' = o /\ key' = k /\ cur' = tree.root /\ up' = NULL /\ tree' = tree
    BY <2>2 DEF Begin
  <2>4. Searching(tree, k, tree.root, B)
    BY <1>3, SearchStart
  <2>5. Sound(tree, o, k, tree.root, NULL, B)
    BY <1>3, <2>4 DEF Sound
  <2>6. TypeOK'
    <3>1. tree.root \in Node /\ k \in Node /\ k # NULL
      BY <1>1, <1>4, TreeFields, Nodes
    <3>2. o \in {"lookup", "get", "find"}
      BY <2>2
    <3> QED BY <1>1, <1>4, <2>3, <3>1, <3>2 DEF TypeOK, Ops
  <2> QED BY <2>3, <2>5, <2>6 DEF OrderInv
<1>13. CASE Descend
  <2> DEFINE n == Lower(cur)
  <2>1. /\ op \in {"get", "lookup", "find", "insert"} /\ cur # NULL /\ cur # key
        /\ op = "insert" => n # NULL
        /\ Goto(op, n, NULL) /\ tree' = tree
    BY <1>13 DEF Descend, Lower
  <2>2. cur \in Key /\ key \in Key /\ op # "ready"
    BY <1>4, <1>1, <1>10, <2>1
  <2>3. n = tree.kid[cur][Toward(key, cur)]
    BY DEF Lower
  <2> HIDE DEF n
  <2>4. op \in {"get", "lookup", "find"} => Searching(tree, key, n, B)
    BY <1>3, <1>5, <2>1, <2>2, <2>3, SearchDown
  <2>5. op = "insert" => Placing(tree, key, n, B)
    BY <1>3, <1>6, <2>1, <2>2, <2>3, PlaceDown
  <2>6. Sound(tree, op, key, n, NULL, B)
    BY <1>3, <2>1, <2>4, <2>5 DEF Sound
  <2>7. n \in Node /\ (n # NULL => n \in Key)
    BY <1>1, <1>4, <2>2, <2>3, TowardFacts, TreeFields
  <2> QED BY <1>1, <1>4, <2>1, <2>2, <2>6, <2>7, SameTreeOrder
<1>14. CASE Hit \/ Present \/ Absent \/ NoMem \/ FixRoot \/ RepairNothing
  <2>1. Done(tree)
    BY <1>14 DEF Hit, Present, Absent, NoMem, FixRoot, RepairNothing
  <2> QED BY <1>3, <2>1, DoneOrder
<1>15. ASSUME op = "lookup", cur = NULL
       PROVE  key \in Key /\ key \notin InTree(tree)
  BY <1>5, <1>10, <1>15 DEF Searching
<1>16. CASE PlaceRoot
  <2> DEFINE s == Fresh(tree, key)
             t == [s EXCEPT !.root = key]
  <2>1. /\ op = "lookup" /\ cur = NULL /\ tree.root = NULL
        /\ tree' = t /\ Goto("repair", key, NULL)
    BY <1>16 DEF PlaceRoot, HasRoot
  <2>2. key \in Key /\ key \notin InTree(tree)
    BY <1>15, <2>1
  <2>3. Shape(s, B) /\ Sorted(s, B) /\ s.root = NULL /\ s \in Trees
    BY <1>3, <2>1, <2>2, FreshShape, FreshFields DEF Shape
  <2> HIDE DEF s
  <2>4. t \in Trees /\ t.root = key /\ t.kid = s.kid /\ t.parent = s.parent
    BY <2>2, <2>3, Nodes DEF Trees
  <2> HIDE DEF t
  <2>5. Shape(t, B) /\ Sorted(t, B) /\ InTree(t) = {key}
    BY <2>2, <2>3, <2>4, RootShape
  <2>6. InOrder(t) /\ key \in InTree(t)
    BY <2>5 DEF InOrder
  <2> QED BY <2>1, <2>6, GotoOrder
<1>17. CASE SeekPlace
  <2> DEFINE s == Fresh(tree, key)
  <2>1. /\ op = "lookup" /\ cur = NULL /\ tree.root # NULL
        /\ tree' = s /\ Goto("insert", tree.root, NULL)
    BY <1>17 DEF SeekPlace, HasRoot
  <2>2. key \in Key /\ key \notin InTree(tree)
    BY <1>15, <2>1
  <2>3. Shape(s, B) /\ Sorted(s, B) /\ s.root = tree.root /\ s \in Trees
        /\ InTree(s) = InTree(tree)
    BY <1>1, <1>3, <2>2, FreshShape, FreshFields
  <2> HIDE DEF s
  <2>4. Placing(s, key, s.root, B)
    BY <2>1, <2>2, <2>3, PlaceStart
  <2>5. op' = "insert" /\ cur' = s.root /\ up' = NULL /\ key' = key
    BY <2>1, <2>3 DEF Goto
  <2>6. Sound(s, "insert", key, s.root, NULL, B)
    BY <2>3, <2>4 DEF Sound
  <2>7. s.root \in Key
    BY <1>4, <2>1, <2>3, TreeFields
  <2>8. TypeOK'
    BY <1>4, <2>1, <2>2, <2>3, <2>5, <2>7, Nodes DEF TypeOK, Ops
  <2> QED BY <2>1, <2>5, <2>6, <2>8 DEF OrderInv
<1>18. CASE PlaceLeaf
  <2> DEFINE d == Toward(key, cur)
             t == Adopt(tree, cur, d, key)
  <2>1. op = "insert" /\ tree.kid[cur][d] = NULL /\ tree' = t /\ Goto("repair", key, NULL)
    BY <1>18 DEF PlaceLeaf
  <2>2. key \in Key /\ key \notin InTree(tree) /\ cur \in InTree(tree) /\ cur \in Key
        /\ \A m \in Key, e \in Side : cur \in B[tree.kid[m][e]] => Toward(key, m) = e
    BY <1>1, <1>6, <1>10, <2>1 DEF Placing
  <2>3. d \in Side
    BY <2>2, TowardFacts
  <2>4. /\ Shape(t, AttachedBelow(B, cur, key)) /\ InTree(t) = InTree(tree) \cup {key}
        /\ Sorted(t, AttachedBelow(B, cur, key))
    <3>1. Toward(key, cur) = d
      OBVIOUS
    <3> HIDE DEF d
    <3> QED BY <1>3, <2>1, <2>2, <2>3, <3>1, AttachShape
  <2> HIDE DEF t
  <2>5. InOrder(t) /\ key \in InTree(t)
    BY <2>4 DEF InOrder
  <2> QED BY <2>1, <2>5, GotoOrder
<1>19. CASE RepairRoot
  <2>1. InOrder(Paint(tree, cur, TRUE))
    BY <1>1, <1>3, PaintOrder
  <2> QED BY <1>19, <2>1, DoneOrder DEF RepairRoot
<1>20. CASE RepairUp
  <2> DEFINE p == Parent(cur)
             u == Uncle(cur)
             g == Grand(cur)
             s == Paint(tree, p, TRUE)
             v == Paint(s, u, TRUE)
             w == Paint(v, g, FALSE)
  <2>1. /\ op = "repair" /\ p # NULL /\ Red(tree, u) /\ tree' = w /\ Goto("repair", g, NULL)
    BY <1>20 DEF RepairUp, Recoloured
  <2>2. u # NULL /\ g # NULL
    BY <2>1 DEF Red, Uncle
  <2>3. p \in InTree(tree) /\ g \in InTree(tree)
    BY <1>3, <1>7, <2>1, <2>2, InOrderFacts DEF Parent, Grand
  <2>4. p \in Node /\ g \in Node /\ g \in Key
    BY <1>3, <2>3, Nodes, InOrderFacts
  <2>5. u \in Node
    <3> DEFINE d == SideOf(tree, g, p)
    <3>1. d \in Side
      BY BothSides DEF SideOf
    <3>2. u = tree.kid[g][1 - d]
      BY <2>2, Zenon DEF Uncle
    <3> HIDE DEF d, g, u
    <3> QED BY <1>3, <2>4, <3>1, <3>2, InOrderFacts, Sides
  <2> HIDE DEF p, u, g, s, v, w
  <2>6. InOrder(s) /\ InTree(s) = InTree(tree)
    BY <1>3, <2>4, PaintOrder DEF s
  <2>7. InOrder(v) /\ InTree(v) = InTree(tree)
    BY <2>5, <2>6, PaintOrder DEF v
  <2>8. InOrder(w) /\ InTree(w) = InTree(tree)
    BY <2>4, <2>7, PaintOrder DEF w
  <2> QED BY <2>1, <2>3, <2>8, GotoOrder
<1>21. CASE RepairRotate
  <2> DEFINE p == tree.parent[cur]
             g == tree.parent[p]
             d == SideOf(tree, g, p)
             v == IF tree.kid[p][1 - d] = cur THEN Rotate(tree, p, d) ELSE tree
             top == IF tree.kid[p][1 - d] = cur THEN cur ELSE p
             w == Rotate(v, g, 1 - d)
  <2>1. op = "repair" /\ p # NULL /\ g # NULL /\ Done(Paint(Paint(w, top, TRUE), g, FALSE))
    BY <1>21 DEF RepairRotate, Parent, Grand
  <2>2. p \in Key /\ g \in Key /\ InOrder(w) /\ cur \in Key
    BY <1>1, <1>3, <1>7, <2>1, RepairRotateOrder
  <2>3. top \in Node /\ g \in Node
    BY <2>2, Nodes
  <2> HIDE DEF w, top, g
  <2>4. InOrder(Paint(w, top, TRUE))
    BY <2>2, <2>3, PaintOrder
  <2>5. InOrder(Paint(Paint(w, top, TRUE), g, FALSE))
    BY <2>3, <2>4, PaintOrder
  <2> QED BY <2>1, <2>5, DoneOrder
<1>22. CASE DeleteHere
  <2>1. op = "find" /\ cur # NULL /\ cur = key /\ ~BothKids(key) /\ DeleteOneChild(tree)
    BY <1>22 DEF DeleteHere, Found
  <2>2. key \in InTree(tree) /\ (tree.kid[key][0] = NULL \/ tree.kid[key][1] = NULL)
    BY <1>5, <2>1 DEF Searching, BothKids
  <2>3. Sorted(Unlink(tree, key), UnlinkedBelow(B, key))
    BY <1>3, <2>2, UnlinkShape
  <2> QED BY <1>3, <2>1, <2>2, <2>3, DeleteStepOrder
<1>23. CASE SeekPred
  <2>1. op = "find" /\ cur # NULL /\ cur = key /\ BothKids(key) /\ tree' = tree
        /\ Goto("pred", tree.kid[key][0], NULL)
    BY <1>23 DEF SeekPred, Found, LowHalf
  <2>2. key \in InTree(tree) /\ \A d \in Side : tree.kid[key][d] # NULL
    BY <1>5, <2>1 DEF Searching, BothKids, Side
  <2>3. Sound(tree, "pred", key, tree.kid[key][0], NULL, B)
    BY <1>3, <2>2, PredStart DEF Sound
  <2>4. tree.kid[key][0] \in Key
    BY <1>3, <1>10, <2>1, <2>2, InOrderFacts, BothSides
  <2> QED BY <1>4, <2>1, <2>3, <2>4, Nodes, SameTreeOrder DEF Ops
<1>24. CASE PredRight
  <2>1. op = "pred" /\ tree.kid[cur][1] # NULL /\ Goto("pred", tree.kid[cur][1], NULL)
        /\ tree' = tree
    BY <1>24 DEF PredRight
  <2>2. Preceding(tree, key, tree.kid[cur][1], B)
    BY <1>1, <1>3, <1>8, <1>10, <2>1, PredDown
  <2>3. Sound(tree, "pred", key, tree.kid[cur][1], NULL, B)
    BY <1>3, <2>2 DEF Sound
  <2>4. tree.kid[cur][1] \in Key
    BY <1>1, <1>3, <2>1, InOrderFacts, BothSides
  <2> QED BY <1>4, <2>1, <2>3, <2>4, Nodes, SameTreeOrder DEF Ops
<1>25. CASE PredTake
  <2> DEFINE u == Exchange(tree, key, cur)
             C == TradedBelow(B, key, cur)
  <2>1. op = "pred" /\ tree.kid[cur][1] = NULL /\ DeleteOneChild(u)
    BY <1>25 DEF PredTake
  <2>2. /\ Shape(u, C) /\ key \in InTree(u) /\ u.kid[key][1] = NULL
        /\ Sorted(Unlink(u, key), UnlinkedBelow(C, key))
    BY <1>1, <1>3, <1>8, <1>10, <2>1, TakePlace
  <2> HIDE DEF u, C
  <2> QED BY <2>1, <2>2, DeleteStepOrder
<1>26. CASE FixSibling
  <2> DEFINE d == SideOf(tree, up, cur)
             s == tree.kid[up][1 - d]
             u == Rotate(Paint(Paint(tree, up, FALSE), s, TRUE), up, d)
  <2>1. /\ op = "fix" /\ up # NULL /\ Goto("sibling", cur, up)
        /\ tree' = IF Red(tree, s) THEN u ELSE tree
    BY <1>26 DEF FixSibling, Sibling, FixSide
  <2>2. s # NULL => InOrder(u) /\ Under(u, cur, up)
    BY <1>3, <1>9, <2>1, FixSiblingOrder
  <2>3. Red(tree, s) => s # NULL
    BY DEF Red
  <2>4. up \in Key
    BY <1>1, <1>4, <2>1
  <2> HIDE DEF u, s
  <2>5. CASE Red(tree, s)
    BY <2>1, <2>2, <2>3, <2>4, <2>5, GotoOrder
  <2>6. CASE ~Red(tree, s)
    BY <1>3, <1>9, <2>1, <2>4, <2>6, GotoOrder
  <2> QED BY <2>5, <2>6
<1>27. CASE FixUp
  <2>1. op = "sibling" /\ tree' = Paint(tree, Sibling, FALSE) /\ Goto("fix", up, Parent(up))
    BY <1>27 DEF FixUp
  <2>2. up # NULL /\ up \in InTree(tree) /\ up \in Key /\ Sibling \in Node
    BY <1>1, <1>3, <1>4, <1>9, <2>1, UnderFacts, InOrderFacts, Sides DEF Sibling, FixSide
  <2> DEFINE t == Paint(tree, Sibling, FALSE)
             p == Parent(up)
  <2>3. InOrder(t) /\ InTree(t) = InTree(tree) /\ t.kid = tree.kid
    BY <1>3, <2>2, PaintOrder
  <2>4. p \in Node
    BY <1>1, <2>2, TreeFields DEF Parent
  <2>5. p # NULL => p \in InTree(tree) /\ \E d \in Side : tree.kid[p][d] = up
    BY <1>3, <2>2, InOrderFacts DEF Parent
  <2> HIDE DEF t, p
  <2>6. Under(t, up, p)
    BY <2>2, <2>3, <2>5 DEF Under
  <2> QED BY <2>1, <2>3, <2>4, <2>6, GotoOrder DEF t, p
<1>28. CASE FixSwapColours
  <2>1. op = "sibling" /\ Done(Paint(Paint(tree, Sibling, FALSE), up, TRUE))
    BY <1>28 DEF FixSwapColours
  <2>2. up \in Node /\ Sibling \in Node
    BY <1>1, <1>3, <1>4, <1>9, <2>1, UnderFacts, InOrderFacts, Sides DEF Sibling, FixSide
  <2> DEFINE s == Paint(tree, Sibling, FALSE)
  <2>3. InOrder(s)
    BY <1>3, <2>2, PaintOrder
  <2> HIDE DEF s
  <2>4. InOrder(Paint(s, up, TRUE))
    BY <2>2, <2>3, PaintOrder
  <2> QED BY <2>1, <2>4, DoneOrder DEF s
<1>29. CASE FixRotate
  <2> DEFINE d == SideOf(tree, up, cur)
             q == tree.kid[up][1 - d]
             i == tree.kid[q][d]
             v == IF NearOnly THEN Rotate(Paint(Paint(tree, q, FALSE), i, TRUE), q, 1 - d) ELSE tree
             s == v.kid[up][1 - d]
             far == v.kid[s][1 - d]
             w == Rotate(Paint(Paint(Paint(v, s, tree.black[up]), up, TRUE), far, TRUE), up, d)
  <2>1. op = "sibling" /\ q # NULL /\ Done(w)
    BY <1>29, Zenon DEF FixRotate, Straightened, Sibling, Inner, FixSide
  <2>2. NearOnly => i # NULL
    BY DEF NearOnly, Inner, Sibling, FixSide, Red
  <2>3. NearOnly \in BOOLEAN /\ tree.black[up] \in BOOLEAN /\ up # NULL
    BY <1>1, <1>4, <2>1, TreeFields DEF NearOnly
  <2>4. KeepsOrder(w, tree)
    BY <1>3, <1>9, <2>1, <2>2, <2>3, FixRotateOrder, ZenonT(40)
  <2> QED BY <2>1, <2>4, DoneOrder DEF KeepsOrder
<1> QED
  BY <1>11, <1>12, <1>13, <1>14, <1>16, <1>17, <1>18, <1>19, <1>20, <1>21, <1>22, <1>23, <1>24,
     <1>25, <1>26, <1>27, <1>28, <1>29 DEF Next, Step


\* What the recursive function computes.
LEMMA BelowIs ==
  ASSUME NEW B, Shape(tree, B)
  PROVE  Below = B
<1> DEFINE Solves(b) ==
             b = [n \in Node |-> IF n = NULL THEN {}
                                 ELSE {n} \cup b[tree.kid[n][0]] \cup b[tree.kid[n][1]]]
           C == CHOOSE b : Solves(b)
<1>1. tree \in Trees /\ Covers(tree, B) /\ Layered(tree, B)
  BY DEF Shape
<1>2. Solves(B)
  BY <1>1, Nodes DEF Covers
<1>3. Below = C
  BY Zenon DEF Below
<1> HIDE DEF Solves
<1>4. Solves(C)
  BY <1>2
<1>5. C = [n \in Node |-> IF n = NULL THEN {}
                          ELSE {n} \cup C[tree.kid[n][0]] \cup C[tree.kid[n][1]]]
  BY <1>4 DEF Solves
<1> HIDE DEF C
<1> DEFINE S == {y \in Node : C[y] = B[y]}
<1>6. C[NULL] = {} /\ \A n \in Key : C[n] = {n} \cup C[tree.kid[n][0]] \cup C[tree.kid[n][1]]
  BY <1>5, Nodes
<1>7. NULL \in S
  BY <1>1, <1>6, Nodes DEF Covers
<1>8. ASSUME NEW y \in Key, tree.kid[y][0] \in S, tree.kid[y][1] \in S PROVE y \in S
  BY <1>1, <1>6, <1>8, Nodes DEF Covers
<1>9. \A n \in Node : n \in S
  <2> HIDE DEF S
  <2> QED BY <1>1, <1>7, <1>8, NodeInduction
<1>10. C = [n \in Node |-> C[n]] /\ B = [n \in Node |-> B[n]]
  BY <1>1, <1>5 DEF Covers
<1>11. \A n \in Node : C[n] = B[n]
  BY <1>9
<1>12. [n \in Node |-> C[n]] = [n \in Node |-> B[n]]
  BY <1>11
<1> QED BY <1>3, <1>10, <1>12

LEMMA OrderSafe == OrderInv => PointersValid /\ Ordered
<1> SUFFICES ASSUME OrderInv PROVE PointersValid /\ Ordered
  OBVIOUS
<1>1. PICK B : Shape(tree, B) /\ Sorted(tree, B)
  BY DEF OrderInv, Sound
<1>2. tree \in Trees /\ Pointers(tree) /\ Covers(tree, B) /\ Layered(tree, B)
  BY <1>1 DEF Shape
<1>3. Linked = InTree(tree)
  BY DEF Linked, InTree
<1>4. PointersValid
  <2>1. ASSUME NEW n \in Key \ Linked PROVE tree.kid[n] = [d \in Side |-> NULL]
    <3>1. tree.kid[n] \in [Side -> Node]
      BY <1>2 DEF Trees
    <3>2. \A d \in Side : tree.kid[n][d] = NULL
      BY <1>2, <1>3 DEF Pointers
    <3>3. tree.kid[n] = [d \in Side |-> tree.kid[n][d]]
      BY <3>1
    <3> QED BY <3>2, <3>3
  <2> QED BY <1>2, <2>1 DEF Pointers, PointersValid
<1>5. Below = B
  BY <1>1, BelowIs
<1>6. ASSUME NEW n \in Linked
      PROVE  /\ \A k \in B[tree.kid[n][0]] : k < n
             /\ \A k \in B[tree.kid[n][1]] : k > n
  <2>1. n \in Key /\ n \in Int
    BY KeyAssumption DEF Linked
  <2>2. \A d \in Side : B[tree.kid[n][d]] \subseteq Key /\ n \notin B[tree.kid[n][d]]
    BY <1>2, <2>1, TreeFields DEF Covers, Layered
  <2>3. \A d \in Side : \A k \in B[tree.kid[n][d]] : Toward(k, n) = d
    BY <1>1, <2>1 DEF Sorted
  <2>4. ASSUME NEW k \in B[tree.kid[n][0]] PROVE k < n
    <3>1. Toward(k, n) = 0
      BY <2>3, BothSides
    <3> QED BY <3>1 DEF Toward
  <2>5. ASSUME NEW k \in B[tree.kid[n][1]] PROVE k > n
    <3>1. Toward(k, n) = 1 /\ k \in Int /\ k # n
      BY <2>2, <2>3, BothSides, KeyAssumption
    <3> QED BY <2>1, <3>1 DEF Toward
  <2> QED BY <2>4, <2>5
<1>7. Ordered
  BY <1>2, <1>3, <1>5, <1>6 DEF Ordered, Layered
<1> QED BY <1>4, <1>7

\* Between any two rounds the pointers, the order of the keys and the locals of
\* the loop in progress fit together, whatever the keys.
THEOREM OrderInvariance == Spec => []OrderInv
<1>1. Init => OrderInv
  BY OrderInit
<1>2. OrderInv /\ [Next]_vars => OrderInv'
  BY OrderStep
<1> QED BY <1>1, <1>2, PTL DEF Spec

\* Between any two rounds kids and parents agree, no node hangs in two places,
\* and one that is out of the tree points nowhere: whatever the keys, rotate,
\* exchange, insert_nonexist and delete keep the pointers valid.
THEOREM PointersStayValid == Spec => []PointersValid
<1>1. OrderInv => PointersValid
  BY OrderSafe
<1> QED BY <1>1, OrderInvariance, PTL

\* At every point the tree is a search tree of all its nodes, whatever the keys.
THEOREM StaysOrdered == Spec => []Ordered
<1>1. OrderInv => Ordered
  BY OrderSafe
<1> QED BY <1>1, OrderInvariance, PTL


-----------------------------------------------------------------------------
(* What rotations do to colours and black heights.                         *)

SameLinks(s, t) ==
  s \in Trees /\ t \in Trees /\ s.root = t.root /\ s.kid = t.kid /\ s.parent = t.parent

\* Colours do not matter to a rotation.
LEMMA TurnAny ==
  ASSUME NEW t, NEW B, Shape(t, B), NEW p \in InTree(t), NEW d \in Side,
         t.kid[p][1 - d] # NULL, NEW w, SameLinks(w, t), NEW x, SameLinks(x, Rotate(w, p, d))
  PROVE  LET q == t.kid[p][1 - d]
         IN Turn(t, p, d, q, t.kid[q][d], t.kid[q][1 - d], t.kid[p][d], x)
<1>1. Shape(w, B) /\ InTree(w) = InTree(t)
  BY SameShape DEF SameLinks
<1> DEFINE q == t.kid[p][1 - d]
           u == Rotate(w, p, d)
<1>2. w.kid = t.kid /\ w \in Trees /\ t \in Trees /\ w.root = t.root /\ w.parent = t.parent
  BY DEF SameLinks
<1>3. Turn(w, p, d, q, t.kid[q][d], t.kid[q][1 - d], t.kid[p][d], u)
  <2>1. p \in InTree(w) /\ w.kid[p][1 - d] # NULL
    BY <1>1, <1>2
  <2> DEFINE k == w.kid[p][1 - d]
  <2>2. Turn(w, p, d, k, w.kid[k][d], w.kid[k][1 - d], w.kid[p][d], Rotate(w, p, d))
    BY <1>1, <2>1, TurnRotate
  <2> QED BY <1>2, <2>2
<1>4. x \in Trees /\ x.root = u.root /\ x.kid = u.kid /\ x.parent = u.parent
  BY DEF SameLinks
<1>5. InTree(x) = InTree(u)
  BY <1>4 DEF InTree
<1> HIDE DEF q, u
<1>6. Turn(t, p, d, q, t.kid[q][d], t.kid[q][1 - d], t.kid[p][d], x)
  BY <1>1, <1>2, <1>3, <1>4, <1>5, TurnSame
<1> QED BY <1>6 DEF q

\* A red q that comes up takes the colour and the height of p, which turns red.
LEMMA TurnWeighs ==
  ASSUME NEW t, NEW p, NEW d \in Side, NEW q, NEW b, NEW c, NEW r, NEW u,
         Turn(t, p, d, q, b, c, r, u),
         NEW H, NEW o, NEW f, Weighs(t, H, o, f), o # q, o = p => f = d,
         ~t.black[q], ~u.black[p], u.black[q] = t.black[p],
         \A n \in Key : n # p /\ n # q => u.black[n] = t.black[n]
  PROVE  Weighs(u, [H EXCEPT ![p] = H[q], ![q] = H[p]], o, f)
<1> DEFINE G == [H EXCEPT ![p] = H[q], ![q] = H[p]]
<1>1. /\ t \in Trees /\ u \in Trees /\ InTree(u) = InTree(t)
      /\ p \in InTree(t) /\ q \in InTree(t) /\ p \in Key /\ q \in Key /\ p # q
      /\ r \in Node /\ b \in Node /\ c \in Node
      /\ r # p /\ r # q /\ b # p /\ b # q /\ c # p /\ c # q
      /\ t.kid[p][d] = r /\ t.kid[p][1 - d] = q /\ t.kid[q][d] = b /\ t.kid[q][1 - d] = c
      /\ u.kid[p][d] = r /\ u.kid[p][1 - d] = b /\ u.kid[q][d] = p /\ u.kid[q][1 - d] = c
      /\ \A n \in Key, e \in Side :
           n # p /\ n # q =>
             /\ t.kid[n][e] # q
             /\ u.kid[n][e] = IF t.kid[n][e] = p THEN q ELSE t.kid[n][e]
  BY DEF Turn
<1>2. /\ H \in [Node -> Nat] /\ H[NULL] = 0
      /\ \A n \in InTree(t), e \in Side : H[n] = H[t.kid[n][e]] + Owed(n, e, o, f) + Ones(t, n)
  BY DEF Weighs
<1>3. /\ G \in [Node -> Nat] /\ G[NULL] = 0 /\ G[p] = H[q] /\ G[q] = H[p]
      /\ \A n \in Node : n # p /\ n # q => G[n] = H[n]
  BY <1>1, <1>2, Nodes
<1>4. 1 - d \in Side /\ 1 - d # d /\ \A e \in Side : e = d \/ e = 1 - d
  BY Sides
<1>5. /\ Owed(p, 1 - d, o, f) = 0 /\ Owed(q, d, o, f) = 0 /\ Owed(q, 1 - d, o, f) = 0
      /\ Owed(p, d, o, f) \in {0, 1}
  BY <1>1, <1>4 DEF Owed
<1>6. /\ Ones(t, q) = 0 /\ Ones(u, p) = 0 /\ Ones(u, q) = Ones(t, p) /\ Ones(t, p) \in {0, 1}
      /\ \A n \in Key : n # p /\ n # q => Ones(u, n) = Ones(t, n)
  BY <1>1 DEF Ones
<1>7. /\ H[p] = H[r] + Owed(p, d, o, f) + Ones(t, p)
      /\ H[p] = H[q] + Owed(p, 1 - d, o, f) + Ones(t, p)
      /\ H[q] = H[b] + Owed(q, d, o, f) + Ones(t, q)
      /\ H[q] = H[c] + Owed(q, 1 - d, o, f) + Ones(t, q)
  BY <1>1, <1>2, <1>4
<1>8. H[p] \in Nat /\ H[q] \in Nat /\ H[r] \in Nat /\ H[b] \in Nat /\ H[c] \in Nat
  BY <1>1, <1>2, Nodes
<1> HIDE DEF G
<1>9. ASSUME NEW n \in InTree(u), NEW e \in Side
      PROVE  G[n] = G[u.kid[n][e]] + Owed(n, e, o, f) + Ones(u, n)
  <2>1. n \in Key
    BY DEF InTree
  <2>2. CASE n = p
    <3>1. CASE e = d
      <4>1. G[n] = H[q] /\ G[u.kid[n][e]] = H[r] /\ Ones(u, n) = 0
        BY <1>1, <1>3, <1>6, <2>2, <3>1
      <4> QED BY <1>5, <1>6, <1>7, <1>8, <2>2, <3>1, <4>1
    <3>2. CASE e = 1 - d
      <4>1. G[n] = H[q] /\ G[u.kid[n][e]] = H[b] /\ Ones(u, n) = 0
        BY <1>1, <1>3, <1>6, <2>2, <3>2
      <4> QED BY <1>5, <1>6, <1>7, <1>8, <2>2, <3>2, <4>1
    <3> QED BY <1>4, <3>1, <3>2
  <2>3. CASE n = q
    <3>1. CASE e = d
      <4>1. G[n] = H[p] /\ G[u.kid[n][e]] = H[q] /\ Ones(u, n) = Ones(t, p)
        BY <1>1, <1>3, <1>6, <2>3, <3>1
      <4> QED BY <1>5, <1>6, <1>7, <1>8, <2>3, <3>1, <4>1
    <3>2. CASE e = 1 - d
      <4>1. G[n] = H[p] /\ G[u.kid[n][e]] = H[c] /\ Ones(u, n) = Ones(t, p)
        BY <1>1, <1>3, <1>6, <2>3, <3>2
      <4> QED BY <1>5, <1>6, <1>7, <1>8, <2>3, <3>2, <4>1
    <3> QED BY <1>4, <3>1, <3>2
  <2>4. CASE n # p /\ n # q
    <3>1. /\ t.kid[n][e] # q /\ t.kid[n][e] \in Node
          /\ u.kid[n][e] = IF t.kid[n][e] = p THEN q ELSE t.kid[n][e]
      BY <1>1, <2>1, <2>4, TreeFields
    <3>2. G[u.kid[n][e]] = H[t.kid[n][e]]
      BY <1>3, <3>1
    <3>3. G[n] = H[n] /\ Ones(u, n) = Ones(t, n)
      BY <1>3, <1>6, <2>1, <2>4, Nodes
    <3>4. n \in InTree(t)
      BY <1>1
    <3> QED BY <1>2, <3>2, <3>3, <3>4
  <2> QED BY <2>2, <2>3, <2>4
<1>10. Weighs(u, G, o, f)
  BY <1>3, <1>9 DEF Weighs
<1> QED BY <1>10 DEF G

\* A black p goes down red, and a red q comes up black: if the other kid of p
\* is not red, nothing is wrong any more below q.
LEMMA TurnCalm ==
  ASSUME NEW t, NEW p, NEW d \in Side, NEW q, NEW b, NEW c, NEW r, NEW u,
         Turn(t, p, d, q, b, c, r, u),
         NEW x, Calm(t, x), x = NULL \/ x = c, x # t.root \/ x = NULL,
         t.black[p], ~t.black[q], ~u.black[p], u.black[q], ~Red(t, r),
         \A n \in Key : n # p /\ n # q => u.black[n] = t.black[n]
  PROVE  Calm(u, NULL)
<1>1. /\ t \in Trees /\ u \in Trees /\ InTree(u) = InTree(t)
      /\ p \in InTree(t) /\ q \in InTree(t) /\ p \in Key /\ q \in Key /\ p # q
      /\ r # p /\ r # q /\ b # p /\ b # q /\ c # p /\ c # q
      /\ (b = NULL \/ b # c)
      /\ t.parent[q] = p /\ u.parent[p] = q /\ u.parent[q] = t.parent[p]
      /\ b # NULL => t.parent[b] = q /\ u.parent[b] = p
      /\ c # NULL => t.parent[c] = q
      /\ r # NULL => t.parent[r] = p
      /\ \A n \in Key : n # p /\ n # q /\ n # b => u.parent[n] = t.parent[n]
      /\ \A n \in Key : t.parent[n] = p => n = q \/ n = r
      /\ \A n \in Key : t.parent[n] = q => n = b \/ n = c
      /\ t.root # q /\ u.root = (IF t.root = p THEN q ELSE t.root)
  BY DEF Turn
<1>2. /\ \A n \in Key : Red(t, n) <=> ~t.black[n]
      /\ \A n \in Key : Red(u, n) <=> ~u.black[n]
      /\ ~Red(t, NULL) /\ ~Red(u, NULL)
      /\ \A n \in Key : t.parent[n] \in Node /\ u.parent[n] \in Node
      /\ \A n \in Node : n # NULL => n \in Key
      /\ NULL \notin Key
  BY <1>1, RedFacts, TreeFields, Nodes
<1>3. \A n \in InTree(t) : n \in Key /\ (Red(t, n) /\ (n = t.root \/ Red(t, t.parent[n])) => n = x)
  BY DEF Calm, InTree
<1>4. ASSUME NEW n \in InTree(u), Red(u, n), n = u.root \/ Red(u, u.parent[n]) PROVE n = NULL
  <2>1. n \in InTree(t) /\ n \in Key /\ n # q
    BY <1>1, <1>2, <1>3, <1>4
  <2>2. CASE n = p
    BY <1>1, <1>2, <1>4, <2>2
  <2>3. CASE n # p
    <3>1. Red(t, n)
      BY <1>2, <1>4, <2>1, <2>3
    <3>2. n # r
      BY <3>1
    <3>3. n # b
      <4>1. ASSUME n = b PROVE FALSE
        <5>1. Red(t, t.parent[n])
          BY <1>1, <1>2, <2>1, <4>1
        <5> QED BY <1>1, <1>2, <1>3, <2>1, <3>1, <4>1, <5>1
      <4> QED BY <4>1
    <3>4. u.parent[n] = t.parent[n]
      BY <1>1, <2>1, <2>3, <3>3
    <3>5. CASE n = c
      <4>1. u.parent[n] = q /\ n # u.root
        <5>1. n # NULL
          BY <1>2, <2>1
        <5>2. n = t.root => n = x
          BY <1>3, <2>1, <3>1
        <5>3. n # t.root
          BY <5>1, <5>2
        <5> QED BY <1>1, <2>1, <3>4, <3>5, <5>1, <5>3
      <4> QED BY <1>1, <1>2, <1>4, <4>1
    <3>6. CASE n # c
      <4>1. t.parent[n] # p /\ t.parent[n] # q
        BY <1>1, <2>1, <3>2, <3>3, <3>6
      <4>2. n = u.root => n = t.root
        BY <1>1, <2>1
      <4>3. Red(u, u.parent[n]) => Red(t, t.parent[n])
        BY <1>2, <2>1, <3>4, <4>1
      <4>4. n = x
        BY <1>3, <1>4, <2>1, <3>1, <4>2, <4>3
      <4> QED BY <3>6, <4>4
    <3> QED BY <3>5, <3>6
  <2> QED BY <2>2, <2>3
<1> QED BY <1>4 DEF Calm


\* Where the red q under the red p is wrong, p is wrong once they have turned.
LEMMA TurnTwist ==
  ASSUME NEW t, NEW p, NEW d \in Side, NEW q, NEW b, NEW c, NEW r, NEW u,
         Turn(t, p, d, q, b, c, r, u), Calm(t, q), ~t.black[p], ~t.black[q], u.black = t.black
  PROVE  Calm(u, p)
<1>1. /\ t \in Trees /\ u \in Trees /\ InTree(u) = InTree(t)
      /\ p \in InTree(t) /\ q \in InTree(t) /\ p \in Key /\ q \in Key /\ p # q
      /\ b # p /\ b # q
      /\ t.parent[q] = p /\ u.parent[p] = q /\ u.parent[q] = t.parent[p]
      /\ b # NULL => t.parent[b] = q /\ u.parent[b] = p
      /\ \A n \in Key : n # p /\ n # q /\ n # b => u.parent[n] = t.parent[n]
      /\ t.root # q /\ u.root = (IF t.root = p THEN q ELSE t.root)
  BY DEF Turn
<1>2. /\ \A n \in Key : Red(t, n) <=> ~t.black[n]
      /\ \A n \in Key : Red(u, n) <=> ~u.black[n]
      /\ ~Red(t, NULL) /\ ~Red(u, NULL)
      /\ \A n \in Key : t.parent[n] \in Node
      /\ \A n \in Node : n # NULL => n \in Key
      /\ NULL \notin Key
  BY <1>1, RedFacts, TreeFields, Nodes
<1>3. \A n \in InTree(t) : n \in Key /\ (Red(t, n) /\ (n = t.root \/ Red(t, t.parent[n])) => n = q)
  BY DEF Calm, InTree
<1>4. Red(t, p) /\ Red(t, q) /\ t.root # p /\ u.root = t.root /\ ~Red(t, t.parent[p])
  BY <1>1, <1>2, <1>3
<1>5. \A n \in Node : Red(u, n) <=> Red(t, n)
  BY <1>2
<1>6. ASSUME NEW n \in InTree(u), Red(u, n), n = u.root \/ Red(u, u.parent[n]) PROVE n = p
  <2>1. n \in InTree(t) /\ n \in Key /\ n \in Node /\ Red(t, n)
    BY <1>1, <1>2, <1>3, <1>6
  <2>2. CASE n = q
    <3>1. ~Red(u, u.parent[n]) /\ n # u.root
      BY <1>1, <1>4, <1>5, <2>2, TreeFields
    <3> QED BY <1>6, <3>1
  <2>3. CASE n = b
    <3>1. Red(t, t.parent[n])
      BY <1>1, <1>2, <1>4, <2>1, <2>3
    <3> QED BY <1>1, <1>3, <2>1, <2>3, <3>1
  <2>4. CASE n # q /\ n # b /\ n # p
    <3>1. u.parent[n] = t.parent[n] /\ t.parent[n] \in Node
      BY <1>1, <1>2, <2>1, <2>4
    <3>2. n = q
      BY <1>3, <1>4, <1>5, <1>6, <2>1, <3>1
    <3> QED BY <2>4, <3>2
  <2> QED BY <2>2, <2>3, <2>4
<1> QED BY <1>6 DEF Calm

\* The last case of the deletion: the far kid c of the sibling q is red, and pays
\* for the black that p is owed.
LEMMA TurnFar ==
  ASSUME NEW t, NEW p, NEW d \in Side, NEW q, NEW b, NEW c, NEW r, NEW u,
         Turn(t, p, d, q, b, c, r, u), Pointers(t),
         NEW H, Weighs(t, H, p, d), Calm(t, NULL), t.black[q], Red(t, c),
         u.black[q] = t.black[p], u.black[p], u.black[c],
         \A n \in Key : n # p /\ n # q /\ n # c => u.black[n] = t.black[n]
  PROVE  /\ Weighs(u, [H EXCEPT ![p] = H[q], ![q] = H[p], ![c] = H[q]], NULL, 0)
         /\ Calm(u, NULL)
<1> DEFINE G == [H EXCEPT ![p] = H[q], ![q] = H[p], ![c] = H[q]]
<1>1. /\ t \in Trees /\ u \in Trees /\ InTree(u) = InTree(t)
      /\ p \in InTree(t) /\ q \in InTree(t) /\ p \in Key /\ q \in Key /\ p # q
      /\ r \in Node /\ b \in Node /\ c \in Node
      /\ r # p /\ r # q /\ b # p /\ b # q /\ c # p /\ c # q
      /\ (r = NULL \/ (r # b /\ r # c))
      /\ (b = NULL \/ b # c)
      /\ t.kid[p][d] = r /\ t.kid[p][1 - d] = q /\ t.kid[q][d] = b /\ t.kid[q][1 - d] = c
      /\ u.kid[p][d] = r /\ u.kid[p][1 - d] = b /\ u.kid[q][d] = p /\ u.kid[q][1 - d] = c
      /\ \A n \in Key, e \in Side :
           n # p /\ n # q =>
             /\ t.kid[n][e] # q
             /\ u.kid[n][e] = IF t.kid[n][e] = p THEN q ELSE t.kid[n][e]
  BY DEF Turn
<1>2. /\ t.parent[q] = p /\ u.parent[p] = q /\ u.parent[q] = t.parent[p]
      /\ t.parent[p] # p /\ t.parent[p] # q
      /\ b # NULL => t.parent[b] = q /\ u.parent[b] = p
      /\ c # NULL => t.parent[c] = q
      /\ r # NULL => t.parent[r] = p
      /\ \A n \in Key : n # p /\ n # q /\ n # b => u.parent[n] = t.parent[n]
      /\ \A n \in Key : t.parent[n] = p => n = q \/ n = r
      /\ \A n \in Key : t.parent[n] = q => n = b \/ n = c
      /\ t.root # q /\ u.root = (IF t.root = p THEN q ELSE t.root)
  BY DEF Turn
<1>3. /\ \A n \in Key : Red(t, n) <=> ~t.black[n]
      /\ \A n \in Key : Red(u, n) <=> ~u.black[n]
      /\ ~Red(t, NULL) /\ ~Red(u, NULL)
      /\ \A n \in Key : t.parent[n] \in Node
      /\ \A n \in Node : n # NULL => n \in Key
      /\ NULL \notin Key
      /\ \A n \in Key, e \in Side : t.kid[n][e] \in Node
  BY <1>1, RedFacts, TreeFields, Nodes
<1>4. /\ H \in [Node -> Nat] /\ H[NULL] = 0
      /\ \A n \in InTree(t), e \in Side : H[n] = H[t.kid[n][e]] + Owed(n, e, p, d) + Ones(t, n)
  BY DEF Weighs
<1>5. c \in Key /\ ~t.black[c] /\ c # NULL
  BY <1>1, <1>3
<1>6. b # c /\ r # c
  BY <1>1, <1>5
<1>7. /\ G \in [Node -> Nat] /\ G[NULL] = 0 /\ G[p] = H[q] /\ G[q] = H[p] /\ G[c] = H[q]
      /\ \A n \in Node : n # p /\ n # q /\ n # c => G[n] = H[n]
  BY <1>1, <1>4, <1>5, Nodes
<1>8. 1 - d \in Side /\ 1 - d # d /\ \A e \in Side : e = d \/ e = 1 - d
  BY Sides
<1>9. /\ Owed(p, d, p, d) = 1 /\ Owed(p, 1 - d, p, d) = 0
      /\ \A n \in Key, e \in Side : n # p => Owed(n, e, p, d) = 0
      /\ \A n \in Key, e \in Side : Owed(n, e, NULL, 0) = 0
  BY <1>1, <1>3, <1>8 DEF Owed
<1>10. /\ Ones(t, q) = 1 /\ Ones(t, c) = 0 /\ Ones(u, p) = 1 /\ Ones(u, c) = 1
       /\ Ones(u, q) = Ones(t, p) /\ Ones(t, p) \in {0, 1}
       /\ \A n \in Key : n # p /\ n # q /\ n # c => Ones(u, n) = Ones(t, n)
  BY <1>1, <1>5 DEF Ones
<1>11. /\ H[p] = H[r] + Owed(p, d, p, d) + Ones(t, p)
       /\ H[p] = H[q] + Owed(p, 1 - d, p, d) + Ones(t, p)
       /\ H[q] = H[b] + Owed(q, d, p, d) + Ones(t, q)
       /\ H[q] = H[c] + Owed(q, 1 - d, p, d) + Ones(t, q)
  BY <1>1, <1>4, <1>8
<1>12. H[p] \in Nat /\ H[q] \in Nat /\ H[r] \in Nat /\ H[b] \in Nat /\ H[c] \in Nat
  BY <1>1, <1>4, Nodes
<1>13. /\ H[p] = H[q] + Ones(t, p) /\ H[q] = H[r] + 1 /\ H[q] = H[b] + 1 /\ H[q] = H[c] + 1
  <2>1. Owed(q, d, p, d) = 0 /\ Owed(q, 1 - d, p, d) = 0
    BY <1>1, <1>8, <1>9
  <2> QED BY <1>9, <1>10, <1>11, <1>12, <2>1
<1> HIDE DEF G
<1>14. ASSUME NEW n \in InTree(u), NEW e \in Side
       PROVE  G[n] = G[u.kid[n][e]] + Owed(n, e, NULL, 0) + Ones(u, n)
  <2>1. n \in Key /\ n \in InTree(t) /\ Owed(n, e, NULL, 0) = 0
    BY <1>1, <1>9 DEF InTree
  <2>2. CASE n = p
    <3>1. G[u.kid[n][e]] = H[r] \/ G[u.kid[n][e]] = H[b]
      BY <1>1, <1>6, <1>7, <1>8, <2>2
    <3> QED BY <1>7, <1>10, <1>12, <1>13, <2>1, <2>2, <3>1
  <2>3. CASE n = q
    <3>1. G[u.kid[n][e]] = H[q]
      BY <1>1, <1>6, <1>7, <1>8, <2>3
    <3> QED BY <1>7, <1>10, <1>12, <1>13, <2>1, <2>3, <3>1
  <2>4. CASE n = c
    <3> DEFINE k == t.kid[c][e]
    <3>1. k \in Node /\ H[c] = H[k] + Owed(c, e, p, d) + Ones(t, c) /\ Owed(c, e, p, d) = 0
      BY <1>1, <1>3, <1>4, <1>5, <1>9, <2>1, <2>4
    <3>2. k # p /\ k # q /\ k # c
      <4>1. k # q
        BY <1>1, <1>5
      <4>2. k # c
        BY <1>1, <1>2, <1>5 DEF Pointers
      <4>3. H[k] = H[c]
        BY <1>4, <1>10, <1>12, <3>1
      <4>4. k # p
        BY <1>10, <1>12, <1>13, <4>3
      <4> QED BY <4>1, <4>2, <4>4
    <3>3. G[u.kid[n][e]] = H[k]
      BY <1>1, <1>5, <1>7, <2>4, <3>1, <3>2
    <3> QED BY <1>4, <1>7, <1>10, <1>12, <1>13, <2>1, <2>4, <3>1, <3>3
  <2>5. CASE n # p /\ n # q /\ n # c
    <3> DEFINE k == t.kid[n][e]
    <3>1. k # q /\ k \in Node /\ u.kid[n][e] = IF k = p THEN q ELSE k
      BY <1>1, <1>3, <2>1, <2>5
    <3>2. H[n] = H[k] + Owed(n, e, p, d) + Ones(t, n) /\ Owed(n, e, p, d) = 0
      BY <1>4, <1>9, <2>1, <2>5
    <3>3. k # c
      BY <1>2, <1>5, <2>1, <2>5 DEF Pointers
    <3>4. G[u.kid[n][e]] = H[k]
      BY <1>7, <3>1, <3>3
    <3>5. G[n] = H[n] /\ Ones(u, n) = Ones(t, n)
      BY <1>7, <1>10, <2>1, <2>5, Nodes
    <3> QED BY <1>4, <2>1, <3>1, <3>2, <3>4, <3>5
  <2> QED BY <2>2, <2>3, <2>4, <2>5
<1>15. Weighs(u, G, NULL, 0)
  BY <1>7, <1>14 DEF Weighs
<1>16. \A n \in InTree(t) : n \in Key /\ (Red(t, n) /\ (n = t.root \/ Red(t, t.parent[n])) => n = NULL)
  BY DEF Calm, InTree
<1>17. ASSUME NEW n \in InTree(u), Red(u, n), n = u.root \/ Red(u, u.parent[n]) PROVE FALSE
  <2>1. n \in InTree(t) /\ n \in Key /\ n # p /\ n # c /\ n # NULL
    BY <1>1, <1>3, <1>5, <1>16, <1>17
  <2>2. ASSUME NEW m \in Node, Red(u, m), m # q PROVE Red(t, m) /\ m # p /\ m # c
    BY <1>1, <1>3, <1>5, <2>2
  <2>3. CASE n = q
    <3>1. Red(t, p)
      BY <1>1, <1>3, <1>17, <2>3
    <3>2. t.root # p /\ ~Red(t, t.parent[p]) /\ t.parent[p] \in Node
      BY <1>1, <1>3, <1>16, <3>1
    <3>3. n # u.root /\ ~Red(u, u.parent[n])
      BY <1>2, <2>2, <2>3, <3>2
    <3> QED BY <1>17, <3>3
  <2>4. CASE n # q
    <3>1. Red(t, n)
      BY <1>3, <1>17, <2>1, <2>2, <2>4, Nodes
    <3>2. n # b
      <4>1. ASSUME n = b PROVE FALSE
        <5>1. u.parent[n] = p /\ ~Red(u, p)
          BY <1>1, <1>2, <1>3, <2>1, <4>1
        <5>2. n = t.root
          BY <1>2, <1>17, <2>4, <5>1
        <5> QED BY <1>16, <2>1, <3>1, <5>2
      <4> QED BY <4>1
    <3>3. u.parent[n] = t.parent[n] /\ t.parent[n] \in Node
      BY <1>2, <1>3, <2>1, <2>4, <3>2
    <3>4. t.parent[n] # q
      BY <1>2, <2>1, <3>2
    <3>5. n = t.root \/ Red(t, t.parent[n])
      BY <1>2, <1>17, <2>2, <2>4, <3>3, <3>4
    <3> QED BY <1>16, <2>1, <3>1, <3>5
  <2> QED BY <2>3, <2>4
<1>18. Calm(u, NULL)
  BY <1>17 DEF Calm
<1> QED BY <1>15, <1>18 DEF G


-----------------------------------------------------------------------------
(* What the steps without a rotation do to colours and black heights.      *)

Even(t) == \E H : Weighs(t, H, NULL, 0)
Short(t, p, d) == \E H : Weighs(t, H, p, d)

LEMMA NoneOwed == \A n \in Key, e \in Side : Owed(n, e, NULL, 0) = 0
  BY Nodes DEF Owed

LEMMA WeighsFacts ==
  ASSUME NEW t, NEW B, Shape(t, B), NEW H, NEW p, NEW d, Weighs(t, H, p, d)
  PROVE  /\ H \in [Node -> Nat] /\ H[NULL] = 0 /\ \A n \in Node : H[n] \in Nat
         /\ \A n \in InTree(t), e \in Side :
              H[n] = H[t.kid[n][e]] + Owed(n, e, p, d) + Ones(t, n)
         /\ \A n \in Key, e \in Side : t.kid[n][e] \in Node
         /\ InTree(t) \subseteq Key
  BY TreeFields DEF Weighs, Shape, InTree

\* The slot that is owed a black is on one side of its node only, and the other
\* side is one higher.
LEMMA OwedSide ==
  ASSUME NEW t, NEW B, Shape(t, B), NEW H, NEW p \in InTree(t), NEW d \in Side,
         Weighs(t, H, p, d)
  PROVE  /\ SideOf(t, p, t.kid[p][d]) = d
         /\ H[t.kid[p][1 - d]] = H[t.kid[p][d]] + 1
         /\ t.kid[p][1 - d] # NULL /\ t.kid[p][1 - d] # t.kid[p][d]
         /\ H[p] = H[t.kid[p][1 - d]] + Ones(t, p)
<1> DEFINE c == t.kid[p][d]
           s == t.kid[p][1 - d]
<1>1. 1 - d \in Side /\ 1 - d # d /\ p \in Key
  BY Sides DEF InTree
<1>2. /\ H \in [Node -> Nat] /\ H[NULL] = 0 /\ c \in Node /\ s \in Node
      /\ H[p] = H[c] + Owed(p, d, p, d) + Ones(t, p)
      /\ H[p] = H[s] + Owed(p, 1 - d, p, d) + Ones(t, p)
  BY <1>1, WeighsFacts
<1>3. Owed(p, d, p, d) = 1 /\ Owed(p, 1 - d, p, d) = 0 /\ Ones(t, p) \in {0, 1}
  BY <1>1 DEF Owed, Ones
<1>4. H[c] \in Nat /\ H[s] \in Nat
  BY <1>2
<1>5. H[s] = H[c] + 1 /\ H[p] = H[s] + Ones(t, p)
  BY <1>2, <1>3, <1>4
<1>6. s # NULL /\ s # c
  BY <1>2, <1>4, <1>5
<1>7. SideOf(t, p, c) = d
  <2>1. CASE d = 0
    BY <2>1 DEF SideOf
  <2>2. CASE d = 1
    BY <1>6, <2>2 DEF SideOf
  <2> QED BY <2>1, <2>2 DEF Side
<1> QED BY <1>5, <1>6, <1>7

LEMMA ShortSibling ==
  ASSUME NEW t, NEW B, Shape(t, B), NEW p \in InTree(t), NEW d \in Side, Short(t, p, d)
  PROVE  t.kid[p][1 - d] # NULL
<1>1. PICK H : Weighs(t, H, p, d)
  BY DEF Short
<1> DEFINE c == t.kid[p][d]
           s == t.kid[p][1 - d]
<1>2. 1 - d \in Side /\ 1 - d # d /\ p \in Key
  BY Sides DEF InTree
<1>3. /\ H[NULL] = 0 /\ H[c] \in Nat /\ H[s] \in Nat
      /\ H[p] = H[c] + Owed(p, d, p, d) + Ones(t, p)
      /\ H[p] = H[s] + Owed(p, 1 - d, p, d) + Ones(t, p)
  BY <1>1, <1>2, WeighsFacts
<1>4. Owed(p, d, p, d) = 1 /\ Owed(p, 1 - d, p, d) = 0 /\ Ones(t, p) \in {0, 1}
  BY <1>2 DEF Owed, Ones
<1> HIDE DEF c, s
<1>5. H[s] = H[c] + 1
  BY <1>3, <1>4
<1>6. s # NULL
  BY <1>3, <1>5
<1> QED BY <1>6 DEF s

LEMMA CalmFacts ==
  ASSUME NEW t, NEW B, Shape(t, B), NEW x, Calm(t, x)
  PROVE  /\ \A n \in Key : Red(t, n) <=> ~t.black[n]
         /\ ~Red(t, NULL)
         /\ \A n \in InTree(t) :
              /\ n \in Key /\ n # NULL /\ t.parent[n] \in Node
              /\ Red(t, n) /\ (n = t.root \/ Red(t, t.parent[n])) => n = x
         /\ \A n \in InTree(t) : t.parent[n] = NULL <=> n = t.root
         /\ \A n \in InTree(t) : t.parent[n] # NULL => t.parent[n] \in InTree(t) /\ t.parent[n] # n
<1>1. t \in Trees
  BY DEF Shape
<1>2. \A n \in InTree(t) : n \in Key /\ n # NULL /\ t.parent[n] \in Node
  BY <1>1, TreeFields, Nodes DEF InTree
<1>3. ASSUME NEW n \in InTree(t)
      PROVE  /\ t.parent[n] = NULL <=> n = t.root
             /\ t.parent[n] # NULL => t.parent[n] \in InTree(t) /\ t.parent[n] # n
  BY ParentFacts
<1> QED BY <1>1, <1>2, <1>3, RedFacts DEF Calm

LEMMA FreshEven ==
  ASSUME NEW t, NEW B, Shape(t, B), NEW k \in Key, k \notin InTree(t), Calm(t, NULL), Even(t)
  PROVE  Calm(Fresh(t, k), NULL) /\ Even(Fresh(t, k)) /\ ~Fresh(t, k).black[k]
<1> DEFINE u == Fresh(t, k)
<1>1. t \in Trees
  BY DEF Shape
<1>2. /\ u \in Trees /\ u.root = t.root
      /\ \A m \in Key, e \in Side : u.kid[m][e] = IF m = k THEN NULL ELSE t.kid[m][e]
      /\ \A m \in Key : u.parent[m] = IF m = k THEN NULL ELSE t.parent[m]
      /\ \A m \in Key : u.black[m] = IF m = k THEN FALSE ELSE t.black[m]
  BY <1>1, FreshFields
<1>3. InTree(u) = InTree(t)
  BY FreshShape
<1> HIDE DEF u
<1>4. PICK H : Weighs(t, H, NULL, 0)
  BY DEF Even
<1>5. \A n \in InTree(t) : n \in Key /\ n # k /\ Ones(u, n) = Ones(t, n)
  BY <1>2 DEF InTree, Ones
<1>6. Weighs(u, H, NULL, 0)
  BY <1>2, <1>3, <1>4, <1>5, Zenon DEF Weighs
<1>7. ASSUME NEW n \in InTree(u), Red(u, n), n = u.root \/ Red(u, u.parent[n]) PROVE n = NULL
  <2>1. n \in InTree(t) /\ n \in Key /\ u.parent[n] = t.parent[n]
    BY <1>2, <1>3, <1>5
  <2>2. Red(u, u.parent[n]) => Red(t, t.parent[n])
    <3>1. t.parent[n] # NULL => t.parent[n] \in InTree(t)
      BY <2>1, ParentFacts
    <3> QED BY <1>2, <1>5, <2>1, <3>1 DEF Red
  <2>3. Red(t, n)
    BY <1>2, <1>5, <1>7, <2>1 DEF Red
  <2> QED BY <1>2, <1>7, <2>1, <2>2, <2>3 DEF Calm
<1>8. Calm(u, NULL)
  BY <1>7 DEF Calm
<1>9. ~u.black[k]
  BY <1>2
<1> QED BY <1>6, <1>8, <1>9 DEF Even, u

\* A red leaf in an empty tree, or where a search ended, keeps the heights.
LEMMA LeafEven ==
  ASSUME NEW t, NEW B, Shape(t, B), NEW k \in Key, k \notin InTree(t), Calm(t, NULL), Even(t),
         NEW u \in Trees, InTree(u) = InTree(t) \cup {k}, u.black = t.black, ~t.black[k],
         \A m \in InTree(t), e \in Side :
            u.kid[m][e] = t.kid[m][e] \/ (u.kid[m][e] = k /\ t.kid[m][e] = NULL),
         \A e \in Side : u.kid[k][e] = NULL,
         \A m \in InTree(t) : u.parent[m] = t.parent[m] /\ (m = u.root => m = t.root)
  PROVE  Calm(u, k) /\ Even(u)
<1>1. PICK H : Weighs(t, H, NULL, 0)
  BY DEF Even
<1> DEFINE G == [H EXCEPT ![k] = 0]
<1>2. /\ H \in [Node -> Nat] /\ H[NULL] = 0 /\ \A n \in Node : H[n] \in Nat
      /\ \A n \in InTree(t), e \in Side :
           H[n] = H[t.kid[n][e]] + Owed(n, e, NULL, 0) + Ones(t, n)
      /\ \A n \in Key, e \in Side : t.kid[n][e] \in Node
      /\ InTree(t) \subseteq Key
  BY <1>1, WeighsFacts
<1>3. /\ G \in [Node -> Nat] /\ G[NULL] = 0 /\ G[k] = 0
      /\ \A n \in Node : n # k => G[n] = H[n]
  BY <1>2, Nodes
<1> HIDE DEF G
<1>4. \A n \in Key : Ones(u, n) = Ones(t, n)
  BY DEF Ones
<1>5. ASSUME NEW n \in InTree(u), NEW e \in Side
      PROVE  G[n] = G[u.kid[n][e]] + Owed(n, e, NULL, 0) + Ones(u, n)
  <2>1. CASE n = k
    <3>1. Ones(u, n) = 0 /\ Owed(n, e, NULL, 0) = 0 /\ G[n] = 0 /\ G[u.kid[n][e]] = 0
      BY <1>3, <2>1, NoneOwed DEF Ones
    <3> QED BY <3>1
  <2>2. CASE n # k
    <3>1. n \in InTree(t) /\ n \in Key
      BY <1>2, <2>2
    <3>2. t.kid[n][e] # k
      BY <3>1, Outside
    <3>3. G[u.kid[n][e]] = H[t.kid[n][e]]
      BY <1>2, <1>3, <3>1, <3>2
    <3>4. G[n] = H[n] /\ Ones(u, n) = Ones(t, n)
      BY <1>3, <1>4, <2>2, <3>1, Nodes
    <3> QED BY <1>2, <3>1, <3>3, <3>4
  <2> QED BY <2>1, <2>2
<1>6. Weighs(u, G, NULL, 0)
  BY <1>3, <1>5 DEF Weighs
<1>7. ASSUME NEW n \in InTree(u), Red(u, n), n = u.root \/ Red(u, u.parent[n]), n # k PROVE FALSE
  <2>1. n \in InTree(t) /\ n \in Key
    BY <1>2, <1>7
  <2>2. Red(t, n) /\ (n = t.root \/ Red(t, t.parent[n]))
    BY <1>7, <2>1 DEF Red
  <2> QED BY <2>1, <2>2, Nodes DEF Calm
<1>8. Calm(u, k)
  BY <1>7 DEF Calm
<1> QED BY <1>6, <1>8 DEF Even


LEMMA PaintBlack ==
  ASSUME NEW t \in Trees, NEW n \in Node
  PROVE  /\ SameLinks(Paint(t, n, TRUE), t)
         /\ Paint(t, n, TRUE).black = [m \in Key |-> m = n \/ t.black[m]]
  BY KeyAssumption DEF Paint, Trees, Node, SameLinks

LEMMA PaintRed ==
  ASSUME NEW t \in Trees, NEW n \in Node
  PROVE  /\ SameLinks(Paint(t, n, FALSE), t)
         /\ Paint(t, n, FALSE).black = [m \in Key |-> m # n /\ t.black[m]]
  BY KeyAssumption DEF Paint, Trees, Node, SameLinks

\* The repair of an insertion ends at the root.
LEMMA RootEven ==
  ASSUME NEW t, NEW B, Shape(t, B), NEW x \in InTree(t), t.parent[x] = NULL,
         ~t.black[x], Calm(t, x), Even(t)
  PROVE  Calm(Paint(t, x, TRUE), NULL) /\ Even(Paint(t, x, TRUE))
<1> DEFINE u == Paint(t, x, TRUE)
<1>1. t \in Trees /\ x \in Key /\ x \in Node
  BY ParentFacts, Nodes DEF Shape
<1>2. /\ u \in Trees /\ u.root = t.root /\ u.kid = t.kid /\ u.parent = t.parent
      /\ \A m \in Key : u.black[m] = IF m = x THEN TRUE ELSE t.black[m]
  BY <1>1, PaintFields
<1>3. InTree(u) = InTree(t)
  BY <1>1, PaintShape
<1> HIDE DEF u
<1>4. PICK H : Weighs(t, H, NULL, 0)
  BY DEF Even
<1> DEFINE G == [H EXCEPT ![x] = H[x] + 1]
<1>5. /\ H \in [Node -> Nat] /\ H[NULL] = 0 /\ \A n \in Node : H[n] \in Nat
      /\ \A n \in InTree(t), e \in Side :
           H[n] = H[t.kid[n][e]] + Owed(n, e, NULL, 0) + Ones(t, n)
      /\ \A n \in Key, e \in Side : t.kid[n][e] \in Node
      /\ InTree(t) \subseteq Key
  BY <1>4, WeighsFacts
<1>6. /\ G \in [Node -> Nat] /\ G[NULL] = 0 /\ G[x] = H[x] + 1
      /\ \A n \in Node : n # x => G[n] = H[n]
  BY <1>1, <1>5, Nodes
<1> HIDE DEF G
<1>7. \A n \in Key, e \in Side : t.kid[n][e] # x
  BY <1>1, Nodes DEF Shape, Pointers
<1>8. /\ Ones(u, x) = 1 /\ Ones(t, x) = 0
      /\ \A n \in Key : n # x => Ones(u, n) = Ones(t, n)
  BY <1>1, <1>2 DEF Ones
<1>9. ASSUME NEW n \in InTree(u), NEW e \in Side
      PROVE  G[n] = G[u.kid[n][e]] + Owed(n, e, NULL, 0) + Ones(u, n)
  <2>1. n \in InTree(t) /\ n \in Key /\ n \in Node /\ G[u.kid[n][e]] = H[t.kid[n][e]]
        /\ H[t.kid[n][e]] \in Nat
    BY <1>2, <1>3, <1>5, <1>6, <1>7, Nodes
  <2>2. H[n] = H[t.kid[n][e]] + Owed(n, e, NULL, 0) + Ones(t, n) /\ Owed(n, e, NULL, 0) = 0
    BY <1>5, <2>1, NoneOwed
  <2> QED BY <1>6, <1>8, <2>1, <2>2
<1>10. Weighs(u, G, NULL, 0)
  BY <1>6, <1>9 DEF Weighs
<1>11. ASSUME NEW n \in InTree(u), Red(u, n), n = u.root \/ Red(u, u.parent[n]) PROVE FALSE
  <2>1. n \in InTree(t) /\ n \in Key /\ n # x
    BY <1>2, <1>3, <1>5, <1>11 DEF Red
  <2>2. t.parent[n] \in Node
    BY <1>1, <2>1, TreeFields
  <2>3. Red(t, n) /\ (n = t.root \/ Red(t, t.parent[n]))
    BY <1>2, <1>11, <2>1, <2>2, Nodes DEF Red
  <2> QED BY <2>1, <2>3 DEF Calm
<1>12. Calm(u, NULL)
  BY <1>11 DEF Calm
<1> QED BY <1>10, <1>12 DEF Even, u

\* The red parent p and uncle q of x take the black of their parent g.
LEMMA UpEven ==
  ASSUME NEW t, NEW B, Shape(t, B), NEW x \in InTree(t), NEW p, p = t.parent[x],
         NEW g \in InTree(t), NEW d \in Side, t.kid[g][d] = p, NEW q, q = t.kid[g][1 - d],
         Red(t, p), Red(t, q), Calm(t, x), Even(t)
  PROVE  LET u == Recoloured(t, p, q, g)
         IN Calm(u, g) /\ Even(u) /\ ~u.black[g]
<1> DEFINE u == Recoloured(t, p, q, g)
<1>1. /\ t \in Trees /\ g \in Key /\ p # NULL /\ q # NULL /\ 1 - d \in Side /\ 1 - d # d
      /\ x \in Key /\ \A e \in Side : e = d \/ e = 1 - d
  BY ParentFacts, Sides DEF Shape, Red
<1>2. p \in Key /\ q \in Key /\ t.parent[p] = g /\ t.parent[q] = g /\ p # q /\ p # g /\ q # g
      /\ p \in InTree(t) /\ q \in InTree(t)
  BY <1>1, KidFacts
<1>3. /\ u \in Trees /\ u.root = t.root /\ u.kid = t.kid /\ u.parent = t.parent
      /\ \A m \in Key : u.black[m] = IF m = g THEN FALSE ELSE IF m = q \/ m = p THEN TRUE ELSE t.black[m]
  <2> DEFINE v == Paint(t, p, TRUE)
             w == Paint(v, q, TRUE)
             y == Paint(w, g, FALSE)
  <2>1. p \in Node /\ q \in Node /\ g \in Node
    BY <1>1, <1>2, Nodes
  <2>2. SameLinks(v, t) /\ v.black = [m \in Key |-> m = p \/ t.black[m]]
    BY <1>1, <2>1, PaintBlack
  <2> HIDE DEF v
  <2>3. SameLinks(w, v) /\ w.black = [m \in Key |-> m = q \/ v.black[m]]
    BY <2>1, <2>2, PaintBlack DEF SameLinks
  <2> HIDE DEF w
  <2>4. SameLinks(y, w) /\ y.black = [m \in Key |-> m # g /\ w.black[m]]
    BY <2>1, <2>3, PaintRed DEF SameLinks
  <2>5. u = y
    BY Zenon DEF Recoloured, v, w
  <2> HIDE DEF y, u
  <2>6. u \in Trees /\ u.root = t.root /\ u.kid = t.kid /\ u.parent = t.parent
    BY <2>2, <2>3, <2>4, <2>5 DEF SameLinks
  <2>7. ASSUME NEW m \in Key
        PROVE  u.black[m] = IF m = g THEN FALSE ELSE IF m = q \/ m = p THEN TRUE ELSE t.black[m]
    <3>1. u.black[m] = (m # g /\ w.black[m])
      BY <2>4, <2>5
    <3>2. w.black[m] = (m = q \/ v.black[m])
      BY <2>3
    <3>3. v.black[m] = (m = p \/ t.black[m])
      BY <2>2
    <3>4. t.black[m] \in BOOLEAN
      BY <1>1, TreeFields
    <3> QED BY <3>1, <3>2, <3>3, <3>4
  <2> QED BY <2>6, <2>7
<1>4. InTree(u) = InTree(t)
  BY <1>3 DEF InTree
<1> HIDE DEF u
<1>5. PICK H : Weighs(t, H, NULL, 0)
  BY DEF Even
<1> DEFINE G == [H EXCEPT ![p] = H[p] + 1, ![q] = H[q] + 1]
<1>6. /\ H \in [Node -> Nat] /\ H[NULL] = 0 /\ \A n \in Node : H[n] \in Nat
      /\ \A n \in InTree(t), e \in Side :
           H[n] = H[t.kid[n][e]] + Owed(n, e, NULL, 0) + Ones(t, n)
      /\ \A n \in Key, e \in Side : t.kid[n][e] \in Node
      /\ InTree(t) \subseteq Key
  BY <1>5, WeighsFacts
<1>7. /\ G \in [Node -> Nat] /\ G[NULL] = 0 /\ G[p] = H[p] + 1 /\ G[q] = H[q] + 1
      /\ \A n \in Node : n # p /\ n # q => G[n] = H[n]
  BY <1>2, <1>6, Nodes
<1> HIDE DEF G
<1>8. /\ \A n \in Key : Red(t, n) <=> ~t.black[n]
      /\ \A n \in InTree(t) :
           /\ n \in Key /\ n # NULL /\ t.parent[n] \in Node
           /\ Red(t, n) /\ (n = t.root \/ Red(t, t.parent[n])) => n = x
      /\ \A n \in InTree(t) : t.parent[n] = NULL <=> n = t.root
      /\ \A n \in InTree(t) : t.parent[n] # NULL => t.parent[n] \in InTree(t) /\ t.parent[n] # n
  BY CalmFacts
<1>9. t.black[g]
  BY <1>2, <1>8
<1>10. /\ Ones(u, p) = 1 /\ Ones(u, q) = 1 /\ Ones(u, g) = 0
       /\ Ones(t, p) = 0 /\ Ones(t, q) = 0 /\ Ones(t, g) = 1
       /\ \A n \in Key : n # p /\ n # q /\ n # g => Ones(u, n) = Ones(t, n)
  BY <1>1, <1>2, <1>3, <1>8, <1>9 DEF Ones
<1>11. ASSUME NEW n \in InTree(u), NEW e \in Side
       PROVE  G[n] = G[u.kid[n][e]] + Owed(n, e, NULL, 0) + Ones(u, n)
  <2> DEFINE k == t.kid[n][e]
  <2>1. /\ n \in InTree(t) /\ n \in Key /\ n \in Node /\ k \in Node /\ H[k] \in Nat
        /\ H[n] = H[k] + Ones(t, n) /\ Owed(n, e, NULL, 0) = 0 /\ u.kid[n][e] = k
        /\ Ones(t, n) \in {0, 1}
    <3>1. n \in InTree(t) /\ n \in Key /\ n \in Node /\ k \in Node /\ H[k] \in Nat
      BY <1>4, <1>6, Nodes
    <3>2. H[n] = H[k] + Owed(n, e, NULL, 0) + Ones(t, n) /\ Owed(n, e, NULL, 0) = 0
      BY <1>6, <3>1, NoneOwed
    <3>3. Ones(t, n) \in {0, 1}
      BY DEF Ones
    <3> QED BY <1>3, <3>1, <3>2, <3>3
  <2>2. k = p \/ k = q => n = g
    BY <1>2, <1>1, <2>1 DEF Shape, Pointers
  <2>3. n = g => k = p \/ k = q
    BY <1>1
  <2> HIDE DEF k
  <2>4. CASE n = g
    BY <1>2, <1>7, <1>10, <2>1, <2>3, <2>4
  <2>5. CASE n # g
    BY <1>7, <1>10, <2>1, <2>2, <2>5
  <2> QED BY <2>4, <2>5
<1>12. Weighs(u, G, NULL, 0)
  BY <1>7, <1>11 DEF Weighs
<1>13. ASSUME NEW n \in InTree(u), Red(u, n), n = u.root \/ Red(u, u.parent[n]), n # g PROVE FALSE
  <2>1. n \in InTree(t) /\ n \in Key /\ n # p /\ n # q
    BY <1>3, <1>4, <1>6, <1>13 DEF Red
  <2>2. Red(t, n)
    BY <1>3, <1>13, <2>1 DEF Red
  <2>3. t.parent[n] # g
    <3>1. ASSUME t.parent[n] = g PROVE FALSE
      <4>1. \E e \in Side : t.kid[g][e] = n
        BY <1>1, <2>1, <3>1, Nodes DEF Shape, Pointers
      <4> QED BY <1>1, <2>1, <4>1
    <3> QED BY <3>1
  <2>4. n = t.root \/ (Red(t, t.parent[n]) /\ t.parent[n] # p)
    BY <1>3, <1>8, <1>13, <2>1, <2>3, Nodes DEF Red
  <2>5. n = x
    BY <1>8, <2>1, <2>2, <2>4
  <2> QED BY <1>1, <1>8, <2>1, <2>4, <2>5
<1>14. Calm(u, g)
  BY <1>13 DEF Calm
<1>15. ~u.black[g]
  BY <1>1, <1>3
<1> QED BY <1>12, <1>14, <1>15 DEF Even, u


\* Colours and heights belong to places, which an exchange leaves alone.
LEMMA ExchangeEven ==
  ASSUME NEW t, NEW B, Shape(t, B), NEW a \in InTree(t), NEW b \in InTree(t),
         Calm(t, NULL), Even(t)
  PROVE  Calm(Exchange(t, a, b), NULL) /\ Even(Exchange(t, a, b))
<1> DEFINE u == Exchange(t, a, b)
           f(n) == Traded(a, b, n)
<1>1. t \in Trees /\ a \in Key /\ b \in Key
  BY ParentFacts DEF Shape
<1>2. /\ u \in Trees
      /\ u.root = f(t.root)
      /\ \A n \in Key, d \in Side : u.kid[n][d] = f(t.kid[f(n)][d])
      /\ \A n \in Key : u.parent[n] = f(t.parent[f(n)])
      /\ \A n \in Key : u.black[n] = t.black[f(n)]
  <2>1. TradePlaces(t, a, b, u)
    BY <1>1, ExchangeFields
  <2> QED BY <2>1 DEF TradePlaces
<1>3. InTree(u) = InTree(t)
  BY ExchangeShape
<1>4. /\ \A n \in Node : f(n) \in Node /\ f(f(n)) = n
      /\ \A n \in Key : f(n) \in Key
      /\ \A n \in Node : f(n) = NULL <=> n = NULL
      /\ f(NULL) = NULL
      /\ \A n \in Node : n # a /\ n # b => f(n) = n
      /\ f(a) = b /\ f(b) = a
  BY <1>1, TradedFacts
<1> HIDE DEF u, f
<1>5. PICK H : Weighs(t, H, NULL, 0)
  BY DEF Even
<1> DEFINE G == [n \in Node |-> H[f(n)]]
<1>6. /\ H \in [Node -> Nat] /\ H[NULL] = 0 /\ \A n \in Node : H[n] \in Nat
      /\ \A n \in InTree(t), e \in Side :
           H[n] = H[t.kid[n][e]] + Owed(n, e, NULL, 0) + Ones(t, n)
      /\ \A n \in Key, e \in Side : t.kid[n][e] \in Node
      /\ InTree(t) \subseteq Key
  BY <1>5, WeighsFacts
<1>7. G \in [Node -> Nat] /\ G[NULL] = 0 /\ \A n \in Node : G[n] = H[f(n)]
  BY <1>4, <1>6, Nodes
<1> HIDE DEF G
<1>8. \A n \in InTree(t) : f(n) \in InTree(t) /\ n \in Key /\ n \in Node
  BY <1>4, <1>6, Nodes
<1>9. ASSUME NEW n \in InTree(u), NEW e \in Side
      PROVE  G[n] = G[u.kid[n][e]] + Owed(n, e, NULL, 0) + Ones(u, n)
  <2>1. n \in Key /\ n \in Node /\ f(n) \in InTree(t) /\ f(n) \in Key
    BY <1>3, <1>6, <1>8
  <2>2. G[n] = H[f(n)]
    BY <1>7, <2>1
  <2>3. G[u.kid[n][e]] = H[t.kid[f(n)][e]]
    <3>1. t.kid[f(n)][e] \in Node /\ u.kid[n][e] = f(t.kid[f(n)][e])
      BY <1>2, <1>6, <2>1
    <3> QED BY <1>4, <1>7, <3>1
  <2>4. Ones(u, n) = Ones(t, f(n))
    BY <1>2, <2>1 DEF Ones
  <2>5. Owed(n, e, NULL, 0) = 0 /\ Owed(f(n), e, NULL, 0) = 0
    BY <2>1, NoneOwed
  <2>6. H[f(n)] = H[t.kid[f(n)][e]] + Owed(f(n), e, NULL, 0) + Ones(t, f(n))
    BY <1>6, <2>1
  <2> QED BY <2>2, <2>3, <2>4, <2>5, <2>6
<1>10. Weighs(u, G, NULL, 0)
  BY <1>7, <1>9 DEF Weighs
<1>11. ASSUME NEW n \in InTree(u), Red(u, n), n = u.root \/ Red(u, u.parent[n]) PROVE FALSE
  <2>1. n \in Key /\ f(n) \in InTree(t) /\ f(n) \in Key /\ f(f(n)) = n
    BY <1>3, <1>4, <1>6, <1>8
  <2>2. Red(t, f(n))
    BY <1>2, <1>11, <2>1, Nodes DEF Red
  <2>3. n = u.root => f(n) = t.root
    BY <1>1, <1>2, <1>4, TreeFields
  <2>4. Red(u, u.parent[n]) => Red(t, t.parent[f(n)])
    <3>1. t.parent[f(n)] \in Node /\ u.parent[n] = f(t.parent[f(n)])
      BY <1>1, <1>2, <2>1, TreeFields
    <3> DEFINE m == t.parent[f(n)]
    <3> HIDE DEF m
    <3>2. ASSUME Red(u, f(m)), m \in Node PROVE Red(t, m)
      <4>1. f(m) # NULL /\ m # NULL /\ f(f(m)) = m /\ f(m) \in Key
        BY <1>4, <3>2, Nodes DEF Red
      <4> QED BY <1>2, <3>2, <4>1 DEF Red
    <3> QED BY <3>1, <3>2 DEF m
  <2> QED BY <1>11, <2>1, <2>2, <2>3, <2>4, Nodes DEF Calm
<1>12. Calm(u, NULL)
  BY <1>11 DEF Calm
<1> QED BY <1>10, <1>12 DEF Even, u

\* Taking n out: its kid c comes up.  Without a change of height if n was red;
\* if n was black and c is red, c turns black; else a slot is short of one.
LEMMA UnlinkEven ==
  ASSUME NEW t, NEW B, Shape(t, B), NEW n \in InTree(t),
         t.kid[n][0] = NULL \/ t.kid[n][1] = NULL, Calm(t, NULL), Even(t)
  PROVE  LET c == OnlyKid(t, n)
             p == t.parent[n]
             u == Unlink(t, n)
         IN /\ ~t.black[n] => Calm(u, NULL) /\ Even(u)
            /\ t.black[n] /\ Red(t, c) => Calm(Paint(u, c, TRUE), NULL) /\ Even(Paint(u, c, TRUE))
            /\ t.black[n] /\ ~Red(t, c) =>
                 /\ Calm(u, NULL) /\ ~Red(u, c)
                 /\ IF p = NULL THEN Even(u) ELSE Short(u, p, SideOf(u, p, c))
<1> DEFINE c == OnlyKid(t, n)
           p == t.parent[n]
           u == Unlink(t, n)
<1>1. /\ c \in Node /\ c # n
      /\ c # NULL => c \in Key /\ t.parent[c] = n
      /\ \E d \in Side : t.kid[n][d] = c /\ t.kid[n][1 - d] = NULL
      /\ \A d \in Side : t.kid[n][d] = c \/ t.kid[n][d] = NULL
  BY OnlyKidFacts
<1>2. /\ n \in Key /\ t \in Trees /\ p \in Node
      /\ p = NULL <=> n = t.root
      /\ p # NULL => p \in Key /\ p \in InTree(t) /\ p # n
                     /\ \E d \in Side : t.kid[p][d] = n /\ t.kid[p][1 - d] # n
  BY ParentFacts, TreeFields DEF Shape
<1>3. /\ u \in Trees /\ u.root = (IF p = NULL THEN c ELSE t.root)
      /\ \A m \in Key, e \in Side :
           u.kid[m][e] = IF m = n THEN NULL ELSE IF t.kid[m][e] = n THEN c ELSE t.kid[m][e]
      /\ \A m \in Key :
           u.parent[m] = IF m = n THEN NULL ELSE IF m = c THEN p ELSE t.parent[m]
      /\ \A m \in Key : u.black[m] = IF m = n THEN FALSE ELSE t.black[m]
  <2>1. Without(t, n, c, p, u)
    BY UnlinkFields
  <2> QED BY <2>1 DEF Without
<1>4. InTree(u) = InTree(t) \ {n} /\ Shape(u, UnlinkedBelow(B, n))
  BY UnlinkShape
<1>5. t.parent[n] = p
  OBVIOUS
<1> HIDE DEF c, p, u
<1>6. PICK H : Weighs(t, H, NULL, 0)
  BY DEF Even
<1>7. /\ H \in [Node -> Nat] /\ H[NULL] = 0 /\ \A m \in Node : H[m] \in Nat
      /\ \A m \in InTree(t), e \in Side :
           H[m] = H[t.kid[m][e]] + Owed(m, e, NULL, 0) + Ones(t, m)
      /\ \A m \in Key, e \in Side : t.kid[m][e] \in Node
      /\ InTree(t) \subseteq Key
  BY <1>6, WeighsFacts
<1>8. /\ \A m \in Key : Red(t, m) <=> ~t.black[m]
      /\ ~Red(t, NULL) /\ ~Red(u, NULL)
      /\ \A m \in InTree(t) :
           /\ m \in Key /\ m # NULL /\ t.parent[m] \in Node
           /\ Red(t, m) /\ (m = t.root \/ Red(t, t.parent[m])) => m = NULL
  BY CalmFacts DEF Red
<1>9. \A m \in Key : m # n => Ones(u, m) = Ones(t, m) /\ (Red(u, m) <=> Red(t, m))
  BY <1>3 DEF Ones, Red
<1>10. H[n] = H[c] + Ones(t, n)
  <2>1. PICK d \in Side : t.kid[n][d] = c
    BY <1>1
  <2>2. H[n] = H[c] + Owed(n, d, NULL, 0) + Ones(t, n) /\ Owed(n, d, NULL, 0) = 0
    BY <1>2, <1>7, <2>1, NoneOwed
  <2>3. H[n] \in Nat /\ H[c] \in Nat /\ Ones(t, n) \in {0, 1}
    BY <1>1, <1>2, <1>7, Nodes DEF Ones
  <2> QED BY <2>2, <2>3
<1>11. ASSUME NEW m \in InTree(u)
       PROVE  m \in Key /\ m \in Node /\ m \in InTree(t) /\ m # n /\ Ones(t, m) \in {0, 1}
  BY <1>4, <1>7, Nodes DEF Ones
\* Only c can have become wrong.
<1>12. ASSUME NEW m \in InTree(u), Red(u, m), m = u.root \/ Red(u, u.parent[m]), m # c PROVE FALSE
  <2>1. m \in Key /\ m # n /\ Red(t, m) /\ m \in InTree(t) /\ m # NULL
    BY <1>8, <1>9, <1>11, <1>12
  <2>2. u.parent[m] = t.parent[m] /\ (m = u.root => m = t.root)
    BY <1>3, <1>12, <2>1
  <2>3. t.parent[m] # n
    <3>1. ASSUME t.parent[m] = n PROVE FALSE
      <4>1. \E e \in Side : t.kid[n][e] = m
        BY <1>2, <2>1, <3>1, Nodes DEF Shape, Pointers
      <4> QED BY <1>1, <1>12, <2>1, <4>1
    <3> QED BY <3>1
  <2>4. Red(u, t.parent[m]) => Red(t, t.parent[m])
    BY <1>8, <1>9, <2>1, <2>3, Nodes
  <2> QED BY <1>8, <1>12, <2>1, <2>2, <2>4
<1>13. ~Red(t, c) => ~Red(u, c) /\ Calm(u, NULL)
  <2>1. ~Red(t, c) => ~Red(u, c)
    BY <1>1, <1>8, <1>9, Nodes
  <2> QED BY <1>12, <2>1 DEF Calm
<1>14. ASSUME ~t.black[n] PROVE Calm(u, NULL) /\ Even(u)
  <2>1. ~Red(t, c)
    <3>1. ASSUME Red(t, c) PROVE FALSE
      <4>1. c # NULL /\ c \in Key /\ t.parent[c] = n
        BY <1>1, <1>8, <3>1
      <4>2. c \in InTree(t)
        BY <1>2, <4>1, Nodes DEF InTree
      <4> QED BY <1>2, <1>8, <1>14, <3>1, <4>1, <4>2
    <3> QED BY <3>1
  <2>2. H[n] = H[c]
    BY <1>1, <1>7, <1>10, <1>14 DEF Ones
  <2>3. ASSUME NEW m \in InTree(u), NEW e \in Side
        PROVE  H[m] = H[u.kid[m][e]] + Owed(m, e, NULL, 0) + Ones(u, m)
    <3>1. H[u.kid[m][e]] = H[t.kid[m][e]]
      BY <1>3, <1>11, <2>2
    <3> QED BY <1>7, <1>9, <1>11, <3>1
  <2>4. Weighs(u, H, NULL, 0)
    BY <1>7, <2>3 DEF Weighs
  <2> QED BY <1>13, <2>1, <2>4 DEF Even
<1>15. ASSUME t.black[n], Red(t, c) PROVE Calm(Paint(u, c, TRUE), NULL) /\ Even(Paint(u, c, TRUE))
  <2> DEFINE w == Paint(u, c, TRUE)
             G == [H EXCEPT ![c] = H[n]]
  <2>1. SameLinks(w, u) /\ w.black = [m \in Key |-> m = c \/ u.black[m]]
    BY <1>1, <1>3, PaintBlack
  <2>2. InTree(w) = InTree(u)
    BY <2>1 DEF SameLinks, InTree
  <2>3. c \in Key /\ c # NULL /\ t.parent[c] = n /\ H[n] = H[c] + 1 /\ Ones(t, c) = 0
    BY <1>1, <1>8, <1>10, <1>15 DEF Ones
  <2>4. /\ G \in [Node -> Nat] /\ G[NULL] = 0 /\ G[c] = H[c] + 1
        /\ \A m \in Node : m # c => G[m] = H[m]
    <3>1. H[n] \in Nat /\ c \in Node /\ NULL \in Node
      BY <1>1, <1>2, <1>7, Nodes
    <3> QED BY <1>7, <2>3, <3>1
  <2> HIDE DEF w, G
  <2>5. Ones(w, c) = 1 /\ \A m \in Key : m # c /\ m # n => Ones(w, m) = Ones(t, m)
    BY <1>9, <2>1, <2>3 DEF Ones
  <2>6. ASSUME NEW m \in InTree(w), NEW e \in Side
        PROVE  G[m] = G[w.kid[m][e]] + Owed(m, e, NULL, 0) + Ones(w, m)
    <3> DEFINE k == t.kid[m][e]
    <3>1. m \in Key /\ m \in Node /\ m \in InTree(t) /\ m # n /\ Ones(t, m) \in {0, 1}
      BY <1>11, <2>2
    <3>2. /\ H[m] = H[k] + Owed(m, e, NULL, 0) + Ones(t, m) /\ Owed(m, e, NULL, 0) = 0
          /\ H[k] \in Nat /\ k \in Node
      BY <1>7, <3>1, NoneOwed
    <3>3. k # c
      BY <2>3, <3>1 DEF Shape, Pointers
    <3>4. w.kid[m][e] = IF k = n THEN c ELSE k
      BY <1>3, <2>1, <3>1 DEF SameLinks
    <3> HIDE DEF k
    <3>5. G[w.kid[m][e]] = H[k]
      BY <2>3, <2>4, <3>2, <3>3, <3>4
    <3>6. CASE m = c
      BY <2>3, <2>4, <2>5, <3>1, <3>2, <3>5, <3>6
    <3>7. CASE m # c
      BY <2>4, <2>5, <3>1, <3>2, <3>5, <3>7
    <3> QED BY <3>6, <3>7
  <2>7. Weighs(w, G, NULL, 0)
    BY <2>4, <2>6 DEF Weighs
  <2>8. ASSUME NEW m \in InTree(w), Red(w, m), m = w.root \/ Red(w, w.parent[m]) PROVE FALSE
    <3>1. m \in InTree(u) /\ m \in Key /\ m # c /\ Red(u, m)
      BY <1>11, <2>1, <2>2, <2>8 DEF Red
    <3>2. w.root = u.root /\ w.parent = u.parent /\ u.parent[m] \in Node
      BY <2>1, <3>1, TreeFields DEF SameLinks
    <3>3. Red(w, u.parent[m]) => Red(u, u.parent[m])
      BY <2>1, <3>2, Nodes DEF Red
    <3> QED BY <1>12, <2>8, <3>1, <3>2, <3>3
  <2>9. Calm(w, NULL)
    BY <2>8 DEF Calm
  <2> QED BY <2>7, <2>9 DEF Even, w
<1>16. ASSUME t.black[n], ~Red(t, c)
       PROVE  IF p = NULL THEN Even(u) ELSE Short(u, p, SideOf(u, p, c))
  <2>1. H[n] = H[c] + 1
    BY <1>10, <1>16 DEF Ones
  <2>2. CASE p = NULL
    <3>1. ASSUME NEW m \in InTree(u), NEW e \in Side
          PROVE  H[m] = H[u.kid[m][e]] + Owed(m, e, NULL, 0) + Ones(u, m)
      <4>1. t.kid[m][e] # n
        BY <1>2, <1>5, <1>11, <2>2, Nodes DEF Shape, Pointers
      <4>2. u.kid[m][e] = t.kid[m][e]
        BY <1>3, <1>11, <4>1
      <4> QED BY <1>7, <1>9, <1>11, <4>2
    <3>2. Weighs(u, H, NULL, 0)
      BY <1>7, <3>1 DEF Weighs
    <3> QED BY <2>2, <3>2 DEF Even
  <2>3. CASE p # NULL
    <3>1. PICK d \in Side : t.kid[p][d] = n /\ t.kid[p][1 - d] # n
      BY <1>2, <2>3
    <3>2. \A m \in Key, e \in Side : t.kid[m][e] = n => m = p
      BY <1>2, <1>5, Nodes DEF Shape, Pointers
    <3>3. ASSUME NEW m \in InTree(u), NEW e \in Side
          PROVE  H[m] = H[u.kid[m][e]] + Owed(m, e, p, d) + Ones(u, m)
      <4> DEFINE k == t.kid[m][e]
      <4>1. /\ H[m] = H[k] + Owed(m, e, NULL, 0) + Ones(t, m) /\ Owed(m, e, NULL, 0) = 0
            /\ H[k] \in Nat /\ k \in Node /\ Ones(u, m) = Ones(t, m) /\ Ones(t, m) \in {0, 1}
            /\ u.kid[m][e] = IF k = n THEN c ELSE k
        BY <1>3, <1>7, <1>9, <1>11, NoneOwed
      <4>2. k = n <=> m = p /\ e = d
        BY <1>11, <3>1, <3>2, Sides
      <4> HIDE DEF k
      <4>3. H[c] \in Nat
        BY <1>1, <1>7
      <4>4. CASE k = n
        <5>1. Owed(m, e, p, d) = 1 /\ u.kid[m][e] = c
          BY <4>1, <4>2, <4>4 DEF Owed
        <5> QED BY <2>1, <4>1, <4>3, <4>4, <5>1
      <4>5. CASE k # n
        <5>1. Owed(m, e, p, d) = 0 /\ u.kid[m][e] = k
          BY <4>1, <4>2, <4>5 DEF Owed
        <5> QED BY <4>1, <5>1
      <4> QED BY <4>4, <4>5
    <3>4. Weighs(u, H, p, d)
      BY <1>7, <3>3 DEF Weighs
    <3>5. p \in InTree(u) /\ u.kid[p][d] = c
      BY <1>2, <1>3, <1>4, <2>3, <3>1
    <3>6. SideOf(u, p, u.kid[p][d]) = d
      BY <1>4, <3>4, <3>5, OwedSide
    <3> QED BY <2>3, <3>4, <3>5, <3>6 DEF Short
  <2> QED BY <2>2, <2>3
<1> QED BY <1>13, <1>14, <1>15, <1>16 DEF c, p, u


\* A sibling s with no red kid turns red, and p is black: what p was owed is
\* paid if p was red, and else owed to p.
LEMMA SiblingEven ==
  ASSUME NEW t, NEW B, Shape(t, B), NEW p \in InTree(t), NEW d \in Side,
         NEW s, s = t.kid[p][1 - d], s # NULL,
         Short(t, p, d), Calm(t, NULL), ~Red(t, s), \A e \in Side : ~Red(t, t.kid[s][e]),
         NEW u, SameLinks(u, t), ~u.black[s], u.black[p],
         \A m \in Key : m # s /\ m # p => u.black[m] = t.black[m]
  PROVE  /\ Calm(u, NULL)
         /\ ~t.black[p] \/ t.parent[p] = NULL => Even(u)
         /\ t.black[p] /\ t.parent[p] # NULL
              => Short(u, t.parent[p], SideOf(u, t.parent[p], p))
<1> DEFINE c == t.kid[p][d]
           g == t.parent[p]
<1>1. /\ t \in Trees /\ u \in Trees /\ u.kid = t.kid /\ u.parent = t.parent /\ u.root = t.root
      /\ Shape(u, B) /\ InTree(u) = InTree(t) /\ p \in Key
  <2>1. t \in Trees /\ u \in Trees /\ u.kid = t.kid /\ u.parent = t.parent /\ u.root = t.root
    BY DEF SameLinks
  <2> QED BY <2>1, SameShape, ParentFacts
<1>2. 1 - d \in Side /\ 1 - d # d /\ \A e \in Side : e = d \/ e = 1 - d
  BY Sides
<1>3. s \in Key /\ s \in InTree(t) /\ t.parent[s] = p /\ c # s /\ s # p
  BY <1>1, <1>2, KidFacts
<1>4. PICK H : Weighs(t, H, p, d)
  BY DEF Short
<1>5. /\ H \in [Node -> Nat] /\ H[NULL] = 0 /\ \A n \in Node : H[n] \in Nat
      /\ \A n \in InTree(t), e \in Side :
           H[n] = H[t.kid[n][e]] + Owed(n, e, p, d) + Ones(t, n)
      /\ \A n \in Key, e \in Side : t.kid[n][e] \in Node
      /\ InTree(t) \subseteq Key
  BY <1>4, WeighsFacts
<1>6. H[s] = H[c] + 1 /\ H[p] = H[s] + Ones(t, p)
  BY <1>4, OwedSide
<1> DEFINE G == [H EXCEPT ![s] = H[c], ![p] = H[s]]
<1>7. /\ G \in [Node -> Nat] /\ G[NULL] = 0 /\ G[s] = H[c] /\ G[p] = H[s]
      /\ \A n \in Node : n # s /\ n # p => G[n] = H[n]
  <2>1. H[s] \in Nat /\ H[c] \in Nat
    BY <1>1, <1>3, <1>5, Nodes
  <2>2. s \in Node /\ p \in Node /\ s # p /\ s # NULL /\ p # NULL /\ NULL \in Node
    BY <1>1, <1>3, Nodes
  <2>3. H \in [Node -> Nat] /\ H[NULL] = 0
    BY <1>5
  <2> HIDE DEF c
  <2> QED BY <2>1, <2>2, <2>3
<1>8. g \in Node /\ t.kid[p][d] = c /\ c \in Node /\ t.parent[p] = g /\ c # p
      /\ (g # NULL => g # p /\ g \in InTree(t) /\ \E e \in Side : t.kid[g][e] = p)
  <2>1. c # p
    BY <1>1, KidFacts, Nodes
  <2> QED BY <1>1, <1>5, <2>1, ParentFacts, TreeFields
<1> HIDE DEF G, c, g
<1>9. /\ Ones(u, s) = 0 /\ Ones(u, p) = 1 /\ Ones(t, s) = 1 /\ Ones(t, p) \in {0, 1}
      /\ \A n \in Key : n # s /\ n # p => Ones(u, n) = Ones(t, n)
  <2>1. t.black[s]
    BY <1>3, Nodes DEF Red
  <2> QED BY <2>1 DEF Ones
<1>10. \A n \in Key, e \in Side : t.kid[n][e] # NULL => t.parent[t.kid[n][e]] = n
  BY DEF Shape, Pointers
\* Every slot but that of p keeps its height.
<1>11. ASSUME NEW n \in InTree(u), NEW e \in Side
       PROVE  /\ t.kid[n][e] # p => G[n] = G[u.kid[n][e]] + Ones(u, n)
              /\ t.kid[n][e] = p => n = g /\ G[n] = H[p] + Ones(u, n) /\ G[u.kid[n][e]] = H[s]
  <2> DEFINE k == t.kid[n][e]
  <2>1. /\ n \in InTree(t) /\ n \in Key /\ n \in Node /\ k \in Node /\ H[k] \in Nat
        /\ H[n] = H[k] + Owed(n, e, p, d) + Ones(t, n) /\ u.kid[n][e] = k
        /\ Ones(t, n) \in {0, 1}
    <3>1. Ones(t, n) \in {0, 1}
      BY DEF Ones
    <3> QED BY <1>1, <1>5, <3>1, Nodes
  <2>2. k # NULL => t.parent[k] = n
    BY <1>10, <2>1
  <2>3. (n = p /\ e = d => k = c) /\ (n = p /\ e = 1 - d => k = s)
    BY <1>8
  <2>4. k = s => n = p /\ e = 1 - d
    <3>1. ASSUME k = s PROVE n = p /\ e = 1 - d
      <4>1. n = p
        BY <1>3, <2>2, <3>1, Nodes
      <4>2. e # d
        BY <1>3, <2>3, <3>1, <4>1
      <4> QED BY <1>2, <4>1, <4>2
    <3> QED BY <3>1
  <2> HIDE DEF k
  <2>5. CASE n = p
    <3>1. k # p
      BY <1>1, <1>3, <1>8, <1>2, <2>3, <2>5
    <3>2. G[n] = H[s] /\ Ones(u, n) = 1 /\ u.kid[n][e] = k /\ t.kid[n][e] # p
      BY <1>7, <1>9, <2>1, <2>5, <3>1 DEF k
    <3>3. CASE e = d
      <4>1. k = c
        BY <2>3, <2>5, <3>3
      <4>2. G[k] = H[c]
        BY <1>3, <1>7, <1>8, <4>1
      <4> QED BY <1>6, <3>2, <4>2
    <3>4. CASE e = 1 - d
      <4>1. k = s
        BY <2>3, <2>5, <3>4
      <4>2. G[k] = H[c]
        BY <1>7, <4>1
      <4> QED BY <1>6, <3>2, <4>2
    <3> QED BY <1>2, <3>3, <3>4
  <2>6. CASE n = s
    <3>1. k # p /\ k # s
      <4>1. k # s
        BY <1>3, <2>4, <2>6
      <4>2. ASSUME k = p PROVE FALSE
        <5>1. H[s] = H[p] + 1
          <6>1. Owed(n, e, p, d) = 0
            BY <1>3, <2>6 DEF Owed
          <6> QED BY <1>9, <2>1, <2>6, <4>2, <6>1
        <5>2. H[s] \in Nat /\ H[p] \in Nat
          BY <1>1, <1>3, <1>5, Nodes
        <5> QED BY <1>6, <1>9, <5>1, <5>2
      <4> QED BY <4>1, <4>2
    <3>2. Owed(n, e, p, d) = 0
      BY <1>3, <2>6 DEF Owed
    <3>3. H[s] = H[k] + 1
      BY <1>9, <2>1, <2>6, <3>2
    <3>4. H[c] \in Nat /\ H[k] \in Nat
      BY <1>5, <1>8, <2>1
    <3>5. H[c] = H[k]
      BY <1>6, <3>3, <3>4
    <3>6. G[n] = H[c] /\ G[k] = H[k] /\ Ones(u, n) = 0
      BY <1>7, <1>9, <2>1, <2>6, <3>1
    <3> QED BY <1>1, <3>1, <3>4, <3>5, <3>6 DEF k
  <2>7. CASE n # p /\ n # s
    <3>1. Owed(n, e, p, d) = 0 /\ G[n] = H[n] /\ Ones(u, n) = Ones(t, n) /\ k # s
      BY <1>7, <1>9, <2>1, <2>4, <2>7 DEF Owed
    <3>2. H[n] = H[k] + Ones(u, n)
      BY <2>1, <3>1
    <3>3. CASE k = p
      <4>1. n = g
        BY <1>1, <1>8, <2>2, <3>3, Nodes
      <4> QED BY <1>7, <2>1, <3>1, <3>2, <3>3, <4>1 DEF k
    <3>4. CASE k # p
      BY <1>7, <2>1, <3>1, <3>2, <3>4 DEF k
    <3> QED BY <3>3, <3>4
  <2> QED BY <2>5, <2>6, <2>7
<1>12. \A n \in InTree(u), e \in Side : G[u.kid[n][e]] \in Nat /\ n \in Key /\ Ones(u, n) \in {0, 1}
  BY <1>1, <1>5, <1>7 DEF Ones
<1>13. H[s] \in Nat /\ H[p] \in Nat
  BY <1>1, <1>3, <1>5, Nodes
<1>14. ASSUME ~t.black[p] \/ g = NULL PROVE Even(u)
  <2>1. ASSUME NEW n \in InTree(u), NEW e \in Side
        PROVE  G[n] = G[u.kid[n][e]] + Owed(n, e, NULL, 0) + Ones(u, n)
    <3>1. Owed(n, e, NULL, 0) = 0 /\ G[u.kid[n][e]] \in Nat /\ Ones(u, n) \in {0, 1} /\ n # NULL
      BY <1>12, NoneOwed, Nodes
    <3>2. CASE t.kid[n][e] # p
      BY <1>11, <3>1, <3>2
    <3>3. CASE t.kid[n][e] = p
      <4>1. n = g /\ G[n] = H[p] + Ones(u, n) /\ G[u.kid[n][e]] = H[s]
        BY <1>11, <3>3
      <4>2. ~t.black[p]
        BY <1>14, <3>1, <4>1
      <4>3. H[p] = H[s]
        BY <1>6, <1>13, <4>2 DEF Ones
      <4> QED BY <3>1, <4>1, <4>3
    <3> QED BY <3>2, <3>3
  <2>2. Weighs(u, G, NULL, 0)
    BY <1>7, <2>1 DEF Weighs
  <2> QED BY <2>2 DEF Even
<1>15. ASSUME t.black[p], g # NULL PROVE Short(u, g, SideOf(u, g, p))
  <2>1. PICK f \in Side : t.kid[g][f] = p
    BY <1>8, <1>15
  <2>2. ASSUME NEW n \in InTree(u), NEW e \in Side
        PROVE  G[n] = G[u.kid[n][e]] + Owed(n, e, g, f) + Ones(u, n)
    <3>1. G[u.kid[n][e]] \in Nat /\ Ones(u, n) \in {0, 1} /\ n \in Key
      BY <1>12
    <3>2. CASE t.kid[n][e] # p
      <4>1. Owed(n, e, g, f) = 0
        BY <2>1, <3>2 DEF Owed
      <4> QED BY <1>11, <3>1, <3>2, <4>1
    <3>3. CASE t.kid[n][e] = p
      <4>1. n = g /\ G[n] = H[p] + Ones(u, n) /\ G[u.kid[n][e]] = H[s]
        BY <1>11, <3>3
      <4>2. H[p] = H[s] + 1
        BY <1>6, <1>15 DEF Ones
      <4>3. e = f
        <5>1. t.kid[g][f] # t.kid[g][1 - f]
          BY <1>1, <2>1, <3>1, <4>1, Nodes DEF Shape, Pointers
        <5>2. e = f \/ e = 1 - f
          BY Sides
        <5> QED BY <2>1, <3>3, <4>1, <5>1, <5>2
      <4>4. Owed(n, e, g, f) = 1
        BY <4>1, <4>3 DEF Owed
      <4> QED BY <1>13, <3>1, <4>1, <4>2, <4>4
    <3> QED BY <3>2, <3>3
  <2>3. Weighs(u, G, g, f)
    BY <1>7, <2>2 DEF Weighs
  <2>4. g \in Key /\ u.kid[g][f] = p /\ u.kid[g][1 - f] # p
    <3>1. g \in Key /\ t.kid[g][f] # t.kid[g][1 - f]
      BY <1>1, <1>8, <1>15, <2>1, Nodes DEF Shape, Pointers
    <3> QED BY <1>1, <2>1, <3>1
  <2>5. SideOf(u, g, p) = f
    BY <2>1, <2>4 DEF SideOf, Side
  <2> QED BY <2>3, <2>5 DEF Short
<1>16. /\ \A m \in Key : Red(t, m) <=> ~t.black[m]
       /\ ~Red(t, NULL) /\ ~Red(u, NULL)
       /\ \A m \in InTree(t) :
            /\ m \in Key /\ m # NULL /\ t.parent[m] \in Node
            /\ Red(t, m) /\ (m = t.root \/ Red(t, t.parent[m])) => m = NULL
       /\ \A m \in InTree(t) : t.parent[m] = NULL <=> m = t.root
  BY CalmFacts DEF Red
<1>17. ASSUME NEW m \in InTree(u), Red(u, m), m = u.root \/ Red(u, u.parent[m]) PROVE FALSE
  <2>1. m \in InTree(t) /\ m \in Key /\ m # p
    BY <1>1, <1>16, <1>17 DEF Red
  <2>2. CASE m = s
    <3>1. ~Red(u, u.parent[m]) /\ m # u.root
      <4>1. u.parent[m] = p /\ p # NULL
        BY <1>1, <1>3, <2>2, Nodes
      <4>2. ~Red(u, u.parent[m])
        BY <1>1, <1>16, <4>1 DEF Red
      <4>3. m # u.root
        BY <1>1, <2>1, <2>2, <4>1, ParentFacts
      <4> QED BY <4>2, <4>3
    <3> QED BY <1>17, <3>1
  <2>3. CASE m # s
    <3>1. Red(t, m)
      BY <1>16, <1>17, <2>1, <2>3 DEF Red
    <3>2. t.parent[m] # s
      <4>1. ASSUME t.parent[m] = s PROVE FALSE
        <5>1. \E e \in Side : t.kid[s][e] = m
          BY <1>3, <2>1, <4>1, Nodes DEF Shape, Pointers
        <5> QED BY <3>1, <5>1
      <4> QED BY <4>1
    <3>3. Red(u, t.parent[m]) => Red(t, t.parent[m])
      BY <1>16, <2>1, <3>2, Nodes DEF Red
    <3> QED BY <1>1, <1>16, <1>17, <2>1, <3>1, <3>3
  <2> QED BY <2>2, <2>3
<1>18. Calm(u, NULL)
  BY <1>17 DEF Calm
<1> QED BY <1>14, <1>15, <1>18 DEF g


\* A red q and p trade their colours.
Trades(t, p, q, u) ==
  /\ ~t.black[q] /\ ~u.black[p] /\ u.black[q] = t.black[p]
  /\ \A n \in Key : n # p /\ n # q => u.black[n] = t.black[n]

LEMMA TurnShort ==
  ASSUME NEW t, NEW p, NEW d \in Side, NEW q, NEW b, NEW c, NEW r, NEW u,
         Turn(t, p, d, q, b, c, r, u), Trades(t, p, q, u),
         NEW o, NEW f, Short(t, o, f), o # q, o = p => f = d
  PROVE  Short(u, o, f)
<1>1. PICK H : Weighs(t, H, o, f)
  BY DEF Short
<1>2. Weighs(u, [H EXCEPT ![p] = H[q], ![q] = H[p]], o, f)
  BY <1>1, TurnWeighs DEF Trades
<1> QED BY <1>2 DEF Short

\* A red q, the kid of a black g whose other kid is not red, may come up; x, the
\* node that may be wrong, is the kid of q that comes up with it.
Liftable(t, g, d, q, x) ==
  /\ g \in InTree(t) /\ d \in Side /\ t.kid[g][1 - d] = q
  /\ Red(t, q) /\ t.black[g] /\ ~Red(t, t.kid[g][d])
  /\ x = NULL \/ x = t.kid[q][1 - d]
  /\ Calm(t, x)

\* u has the links of the rotation of t, and q and g have traded colours.
Lifts(t, w, g, d, q, u) ==
  /\ g \in InTree(t) /\ d \in Side /\ q \in Key /\ t.kid[g][1 - d] = q
  /\ SameLinks(w, t) /\ SameLinks(u, Rotate(w, g, d))
  /\ ~u.black[g] /\ u.black[q]
  /\ \A m \in Key : m # g /\ m # q => u.black[m] = t.black[m]

\* The rotation that ends the repair of an insertion, and the two that prepare
\* the last case of a deletion.
LEMMA LiftEven ==
  ASSUME NEW t, NEW B, Shape(t, B), NEW g, NEW d, NEW q, NEW x, Liftable(t, g, d, q, x),
         NEW o, NEW f, Short(t, o, f), o # q, o = g => f = d,
         NEW w, NEW u, Lifts(t, w, g, d, q, u)
  PROVE  Calm(u, NULL) /\ Short(u, o, f)
<1>0. /\ g \in InTree(t) /\ d \in Side /\ t.kid[g][1 - d] = q
      /\ Red(t, q) /\ t.black[g] /\ ~Red(t, t.kid[g][d])
      /\ x = NULL \/ x = t.kid[q][1 - d]
      /\ Calm(t, x)
      /\ SameLinks(w, t) /\ SameLinks(u, Rotate(w, g, d))
      /\ ~u.black[g] /\ u.black[q]
      /\ \A m \in Key : m # g /\ m # q => u.black[m] = t.black[m]
  BY DEF Liftable, Lifts
<1> DEFINE b == t.kid[q][d]
           c == t.kid[q][1 - d]
           r == t.kid[g][d]
<1>1. q # NULL /\ t \in Trees /\ 1 - d \in Side /\ g \in Key
  BY <1>0, Sides DEF Shape, Red, InTree
<1>2. Turn(t, g, d, q, b, c, r, u)
  BY <1>0, <1>1, TurnAny
<1>3. q \in Key
  BY <1>0, <1>1, KidFacts
<1>4. ~t.black[q]
  BY <1>0, <1>3 DEF Red
<1>5. x # t.root \/ x = NULL
  <2>1. ASSUME x # NULL PROVE x # t.root
    <3>1. x = t.kid[q][1 - d] /\ t.parent[t.kid[q][1 - d]] = q
      BY <1>0, <1>1, <1>3, <2>1, KidFacts
    <3> QED BY <1>1, <2>1, <3>1 DEF Shape, Pointers
  <2> QED BY <2>1
<1>6. x = NULL \/ x = c
  BY <1>0
<1> HIDE DEF b, c, r
<1>7. Calm(u, NULL)
  <2>1. ~Red(t, r)
    BY <1>0 DEF r
  <2> QED BY <1>0, <1>2, <1>4, <1>5, <1>6, <2>1, TurnCalm
<1>9. u.black[q] = t.black[g]
  <2>1. u \in Trees
    BY <1>0 DEF SameLinks
  <2>2. u.black[q] \in BOOLEAN /\ t.black[g] \in BOOLEAN
    BY <1>1, <1>3, <2>1, TreeFields
  <2> QED BY <1>0, <2>2
<1>10. Trades(t, g, q, u)
  BY <1>0, <1>4, <1>9 DEF Trades
<1>11. Short(u, o, f)
  BY <1>0, <1>2, <1>10, TurnShort
<1> QED BY <1>7, <1>11

LEMMA EvenShort ==
  ASSUME NEW t
  PROVE  Even(t) <=> Short(t, NULL, 0)
  BY DEF Even, Short

\* The inner grandchild comes up first, and the parent is wrong then.
LEMMA RepairInnerEven ==
  ASSUME NEW t, NEW B, Shape(t, B), NEW g \in InTree(t), NEW d \in Side,
         NEW p \in InTree(t), NEW n \in InTree(t),
         t.kid[g][d] = p, t.kid[p][1 - d] = n, g # p, g # n, p # n,
         t.black[g], ~Red(t, t.kid[g][1 - d]), ~t.black[p], ~t.black[n], Calm(t, n), Even(t),
         NEW v, v.black = t.black, NEW b, NEW c, NEW r, Turn(t, p, d, n, b, c, r, v)
  PROVE  Liftable(v, g, 1 - d, n, p) /\ Even(v)
<1>1. /\ t \in Trees /\ n \in Key /\ p \in Key /\ g \in Key /\ 1 - d \in Side
      /\ 1 - (1 - d) = d /\ 1 - d # d
  BY Sides DEF Shape, InTree
<1>2. Calm(v, p)
  BY TurnTwist
<1>3. Even(v)
  <2>1. Short(t, NULL, 0)
    BY EvenShort
  <2>2. v.black[n] = t.black[p]
    <3>1. t.black[n] \in BOOLEAN /\ t.black[p] \in BOOLEAN
      BY <1>1, TreeFields
    <3> QED BY <3>1
  <2>3. NULL # n /\ NULL # p
    BY <1>1, Nodes
  <2>4. Trades(t, p, n, v)
    BY <2>2 DEF Trades
  <2>5. Short(v, NULL, 0)
    BY <2>1, <2>3, <2>4, TurnShort
  <2> QED BY <2>5, EvenShort
<1>4. /\ v.kid[n][d] = p /\ InTree(v) = InTree(t) /\ v \in Trees
      /\ \A m \in Key, e \in Side :
           m # p /\ m # n => v.kid[m][e] = IF t.kid[m][e] = p THEN n ELSE t.kid[m][e]
  BY DEF Turn
<1>5. v.kid[g][d] = n
  BY <1>1, <1>4
<1>6. t.kid[g][1 - d] # p
  <2>1. p # NULL
    BY <1>1, Nodes
  <2> QED BY <1>1, <2>1 DEF Shape, Pointers
<1>7. v.kid[g][1 - d] = t.kid[g][1 - d]
  BY <1>1, <1>4, <1>6
<1>8. Red(v, n) /\ v.black[g] /\ ~Red(v, v.kid[g][1 - d])
  BY <1>1, <1>7, Nodes DEF Red
<1> QED BY <1>1, <1>2, <1>3, <1>4, <1>5, <1>8 DEF Liftable

\* w is t with g painted in colour a and q in colour b.
Painted(t, g, a, q, b, w) ==
  /\ SameLinks(w, t) /\ w \in Trees
  /\ w.black[g] = a /\ w.black[q] = b
  /\ \A m \in Key : m # g /\ m # q => w.black[m] = t.black[m]

LEMMA PaintTwo ==
  ASSUME NEW t \in Trees, NEW g \in Key, NEW q \in Key, g # q, NEW a \in BOOLEAN, NEW b \in BOOLEAN
  PROVE  Painted(t, g, a, q, b, Paint(Paint(t, g, a), q, b))
<1> DEFINE v == Paint(t, g, a)
           w == Paint(v, q, b)
<1>1. g \in Node /\ q \in Node
  BY Nodes
<1>2. /\ v \in Trees /\ v.root = t.root /\ v.kid = t.kid /\ v.parent = t.parent
      /\ \A m \in Key : v.black[m] = IF m = g THEN a ELSE t.black[m]
  BY <1>1, PaintFields
<1> HIDE DEF v
<1>3. /\ w \in Trees /\ w.root = v.root /\ w.kid = v.kid /\ w.parent = v.parent
      /\ \A m \in Key : w.black[m] = IF m = q THEN b ELSE v.black[m]
  BY <1>1, <1>2, PaintFields
<1> HIDE DEF w
<1>4. Painted(t, g, a, q, b, w)
  BY <1>2, <1>3 DEF SameLinks, Painted
<1> QED BY <1>4 DEF w, v

LEMMA LiftRotate ==
  ASSUME NEW t, NEW B, Shape(t, B), NEW g \in InTree(t), NEW q \in Key, NEW d \in Side,
         t.kid[g][1 - d] = q, NEW w, SameLinks(w, t), ~w.black[g], w.black[q],
         \A m \in Key : m # g /\ m # q => w.black[m] = t.black[m]
  PROVE  Lifts(t, w, g, d, q, Rotate(w, g, d))
<1> DEFINE u == Rotate(w, g, d)
<1>1. /\ w \in Trees /\ w.root = t.root /\ w.kid = t.kid /\ w.parent = t.parent
  BY DEF SameLinks
<1>2. Shape(w, B) /\ InTree(w) = InTree(t)
  BY <1>1, SameShape
<1>3. g \in InTree(w) /\ w.kid[g][1 - d] # NULL
  BY <1>1, <1>2, Nodes
<1>4. u \in Trees /\ u.black = w.black
  BY <1>2, <1>3, RotateFields
<1>5. SameLinks(u, u)
  BY <1>4 DEF SameLinks
<1>6. /\ ~u.black[g] /\ u.black[q]
      /\ \A m \in Key : m # g /\ m # q => u.black[m] = t.black[m]
  BY <1>4
<1> HIDE DEF u
<1>7. SameLinks(u, Rotate(w, g, d))
  BY <1>5 DEF u
<1>8. Lifts(t, w, g, d, q, u)
  BY <1>6, <1>7 DEF Lifts
<1> QED BY <1>8 DEF u

LEMMA LiftPaint ==
  ASSUME NEW t, NEW B, Shape(t, B), NEW g \in InTree(t), NEW q \in Key, NEW d \in Side,
         t.kid[g][1 - d] = q
  PROVE  LET w == Paint(Paint(t, g, FALSE), q, TRUE)
         IN Lifts(t, w, g, d, q, Rotate(w, g, d))
<1>1. t \in Trees /\ g \in Key /\ q # NULL /\ 1 - d \in Side
      /\ FALSE \in BOOLEAN /\ TRUE \in BOOLEAN
  BY Nodes, Sides DEF Shape, InTree
<1>2. g # q
  BY <1>1, KidFacts, ParentFacts
<1> DEFINE w == Paint(Paint(t, g, FALSE), q, TRUE)
<1>3. Painted(t, g, FALSE, q, TRUE, w)
  BY <1>1, <1>2, PaintTwo
<1> HIDE DEF w
<1>4. Lifts(t, w, g, d, q, Rotate(w, g, d))
  BY <1>3, LiftRotate DEF Painted
<1> QED BY <1>4 DEF w

\* The kids after a lift.
LEMMA LiftKids ==
  ASSUME NEW t, NEW B, Shape(t, B), NEW g, NEW d, NEW q, NEW w, NEW u, Lifts(t, w, g, d, q, u)
  PROVE  /\ \E C : Shape(u, C)
         /\ u \in Trees /\ InTree(u) = InTree(t) /\ q \in InTree(u)
         /\ u.kid[g][d] = t.kid[g][d] /\ u.kid[g][1 - d] = t.kid[q][d]
         /\ u.kid[q][d] = g /\ u.kid[q][1 - d] = t.kid[q][1 - d]
         /\ \A n \in Key, e \in Side :
              n # g /\ n # q => u.kid[n][e] = IF t.kid[n][e] = g THEN q ELSE t.kid[n][e]
         /\ g # q /\ t.kid[q][d] # g /\ t.kid[q][d] # q
<1>1. /\ q # NULL /\ SameLinks(w, t) /\ SameLinks(u, Rotate(w, g, d))
      /\ g \in InTree(t) /\ d \in Side /\ q \in Key /\ t.kid[g][1 - d] = q
  BY Nodes DEF Lifts
<1>2. Turn(t, g, d, q, t.kid[q][d], t.kid[q][1 - d], t.kid[g][d], u)
  BY <1>1, TurnAny
<1>3. Shape(w, B) /\ InTree(w) = InTree(t) /\ w.kid = t.kid
  BY <1>1, SameShape DEF SameLinks
<1>4. w.kid[g][1 - d] # NULL /\ g \in InTree(w)
  BY <1>1, <1>3
<1>5. PICK C : Shape(Rotate(w, g, d), C)
  BY <1>1, <1>3, <1>4, RotateShape
<1>6. Shape(u, C)
  <2>1. /\ u \in Trees /\ u.root = Rotate(w, g, d).root
        /\ u.kid = Rotate(w, g, d).kid /\ u.parent = Rotate(w, g, d).parent
    BY <1>1 DEF SameLinks
  <2> QED BY <1>5, <2>1, SameShape
<1>7. /\ u \in Trees /\ InTree(u) = InTree(t) /\ q \in InTree(u)
      /\ u.kid[g][d] = t.kid[g][d] /\ u.kid[g][1 - d] = t.kid[q][d]
      /\ u.kid[q][d] = g /\ u.kid[q][1 - d] = t.kid[q][1 - d]
      /\ \A n \in Key, e \in Side :
           n # g /\ n # q => u.kid[n][e] = IF t.kid[n][e] = g THEN q ELSE t.kid[n][e]
      /\ g # q /\ t.kid[q][d] # g /\ t.kid[q][d] # q
  BY <1>2 DEF Turn
<1> QED BY <1>6, <1>7

\* A red sibling is lifted, and one of its kids, not red, is the sibling then.
LEMMA FixSiblingEven ==
  ASSUME NEW t, NEW B, Shape(t, B), NEW p \in InTree(t), NEW d \in Side, NEW s \in Key,
         t.kid[p][1 - d] = s, Red(t, s), ~Red(t, t.kid[p][d]), Calm(t, NULL), Short(t, p, d),
         NEW w, NEW u, Lifts(t, w, p, d, s, u)
  PROVE  Calm(u, NULL) /\ Short(u, p, d) /\ u.kid[p][d] = t.kid[p][d] /\ ~Red(u, u.kid[p][1 - d])
<1>1. t \in Trees /\ p \in Key /\ 1 - d \in Side /\ s # NULL
  BY Sides, Nodes DEF Shape, InTree
<1>2. s \in InTree(t) /\ t.parent[s] = p
  BY <1>1, KidFacts
<1>3. /\ \A m \in Key : Red(t, m) <=> ~t.black[m]
      /\ \A m \in InTree(t) :
           /\ m \in Key /\ m # NULL
           /\ Red(t, m) /\ (m = t.root \/ Red(t, t.parent[m])) => m = NULL
  BY CalmFacts
<1>4. t.black[p]
  BY <1>1, <1>2, <1>3
<1>5. Liftable(t, p, d, s, NULL)
  BY <1>4 DEF Liftable
<1>6. /\ u \in Trees /\ u.kid[p][d] = t.kid[p][d] /\ u.kid[p][1 - d] = t.kid[s][d]
      /\ p # s /\ t.kid[s][d] # p /\ t.kid[s][d] # s
  BY LiftKids
<1>7. Calm(u, NULL) /\ Short(u, p, d)
  BY <1>5, <1>6, LiftEven
<1>8. ASSUME Red(u, t.kid[s][d]) PROVE FALSE
  <2> DEFINE b == t.kid[s][d]
  <2>1. b # NULL
    BY <1>8 DEF Red
  <2>2. b \in Key /\ b \in InTree(t) /\ t.parent[b] = s
    BY <2>1, KidFacts
  <2>3. ~Red(t, b)
    BY <1>3, <2>2
  <2>4. u.black[b] = t.black[b]
    BY <1>6, <2>2 DEF Lifts
  <2> QED BY <1>3, <1>8, <2>2, <2>3, <2>4 DEF Red
<1> QED BY <1>6, <1>7, <1>8

\* Near and far kid of the sibling, from the side of the slot that is owed.
\* When only the near one is red it is lifted, and the old sibling is the far
\* kid of the new one.
LEMMA StraightenEven ==
  ASSUME NEW t, NEW B, Shape(t, B), NEW p \in InTree(t), NEW d \in Side, NEW s \in Key,
         NEW i \in Key,
         t.kid[p][1 - d] = s, t.kid[s][d] = i, ~Red(t, s), Red(t, i), ~Red(t, t.kid[s][1 - d]),
         Calm(t, NULL), Short(t, p, d), NEW w, NEW u, Lifts(t, w, s, 1 - d, i, u)
  PROVE  /\ Calm(u, NULL) /\ Short(u, p, d)
         /\ \E C : Shape(u, C)
         /\ InTree(u) = InTree(t) /\ u.black[p] = t.black[p]
         /\ u.kid[p][1 - d] = i /\ u.kid[i][1 - d] = s /\ u.black[i] /\ Red(u, s)
<1>1. /\ t \in Trees /\ p \in Key /\ p # NULL /\ 1 - d \in Side /\ 1 - d # d /\ 1 - (1 - d) = d
      /\ s # NULL /\ i # NULL
  BY Sides, Nodes DEF Shape, InTree
<1>2. s \in InTree(t) /\ t.parent[s] = p /\ t.parent[i] = s /\ s # p /\ t.parent[p] # s /\ i # p
  <2>1. s \in InTree(t) /\ t.parent[s] = p /\ p \in B[p] /\ s \in B[p] /\ p \notin B[s] /\ s \in B[s]
    BY <1>1, KidFacts
  <2>2. t.parent[i] = s /\ i \in B[s]
    BY <1>1, KidFacts
  <2>3. t.parent[p] # s
    <3>1. ASSUME t.parent[p] = s PROVE FALSE
      <4>1. p \in B[s]
        BY <1>1, <3>1, ParentFacts
      <4> QED BY <2>1, <4>1
    <3> QED BY <3>1
  <2> QED BY <2>1, <2>2, <2>3
<1>3. t.black[s]
  BY <1>1 DEF Red
<1>4. Liftable(t, s, 1 - d, i, NULL)
  BY <1>1, <1>2, <1>3 DEF Liftable
<1> DEFINE e == 1 - d
<1>5. e \in Side /\ 1 - e = d
  BY <1>1
<1> HIDE DEF e
<1>6. /\ \E C : Shape(u, C)
      /\ InTree(u) = InTree(t) /\ u.kid[i][e] = s
      /\ \A n \in Key, f \in Side :
           n # s /\ n # i => u.kid[n][f] = IF t.kid[n][f] = s THEN i ELSE t.kid[n][f]
  <2>1. t.kid[s][1 - e] = i /\ Lifts(t, w, s, e, i, u)
    BY <1>1, <1>5 DEF e
  <2> QED BY <1>2, <1>5, <2>1, LiftKids
<1>7. u.kid[p][e] = i
  <2>1. t.kid[p][e] = s
    BY DEF e
  <2> QED BY <1>1, <1>2, <1>5, <1>6, <2>1
<1>8. Calm(u, NULL) /\ Short(u, p, d)
  <2>1. p # i /\ (p = s => d = 1 - d)
    BY <1>2
  <2> QED BY <1>4, <2>1, LiftEven
<1>9. u.black[i] /\ ~u.black[s] /\ u.black[p] = t.black[p]
  BY <1>1, <1>2 DEF Lifts
<1> QED BY <1>1, <1>6, <1>7, <1>8, <1>9 DEF e, Red

\* The black s takes the colour of p, p and the red far become black.
Pays(t, p, s, far, w) ==
  /\ SameLinks(w, t)
  /\ w.black[s] = t.black[p] /\ w.black[p] /\ w.black[far]
  /\ \A m \in Key : m # p /\ m # s /\ m # far => w.black[m] = t.black[m]

LEMMA FarEven ==
  ASSUME NEW t, NEW B, Shape(t, B), NEW p \in InTree(t), NEW d \in Side, NEW s \in Key, NEW far,
         t.kid[p][1 - d] = s, t.kid[s][1 - d] = far, t.black[s], Red(t, far),
         Calm(t, NULL), Short(t, p, d), NEW w, Pays(t, p, s, far, w)
  PROVE  Calm(Rotate(w, p, d), NULL) /\ Even(Rotate(w, p, d))
<1> DEFINE u == Rotate(w, p, d)
           b == t.kid[s][d]
           r == t.kid[p][d]
<1>1. /\ w \in Trees /\ w.root = t.root /\ w.kid = t.kid /\ w.parent = t.parent /\ SameLinks(w, t)
      /\ s # NULL /\ Pointers(t)
  BY Nodes DEF SameLinks, Pays, Shape
<1>2. Shape(w, B) /\ InTree(w) = InTree(t)
  BY <1>1, SameShape
<1>3. p \in InTree(w) /\ w.kid[p][1 - d] # NULL
  BY <1>1, <1>2
<1>4. u \in Trees /\ u.black = w.black
  BY <1>2, <1>3, RotateFields
<1>5. SameLinks(u, Rotate(w, p, d))
  BY <1>4 DEF SameLinks
<1> HIDE DEF u
<1>6. Turn(t, p, d, s, b, far, r, u)
  BY <1>1, <1>5, TurnAny
<1> HIDE DEF b, r
<1>7. /\ u.black[s] = t.black[p] /\ u.black[p] /\ u.black[far]
      /\ \A m \in Key : m # p /\ m # s /\ m # far => u.black[m] = t.black[m]
  BY <1>4 DEF Pays
<1>8. PICK H : Weighs(t, H, p, d)
  BY DEF Short
<1>9. /\ Weighs(u, [H EXCEPT ![p] = H[s], ![s] = H[p], ![far] = H[s]], NULL, 0)
      /\ Calm(u, NULL)
  BY <1>1, <1>6, <1>7, <1>8, TurnFar
<1>10. Calm(u, NULL) /\ Even(u)
  BY <1>9 DEF Even
<1> QED BY <1>10 DEF u

LEMMA PaysPaint ==
  ASSUME NEW v \in Trees, NEW s \in Key, NEW p \in Key, NEW far \in Key,
         s # p, far # p, far # s, NEW c \in BOOLEAN, c = v.black[p]
  PROVE  Pays(v, p, s, far, Paint(Paint(Paint(v, s, c), p, TRUE), far, TRUE))
<1> DEFINE y == Paint(Paint(v, s, c), p, TRUE)
           z == Paint(y, far, TRUE)
<1>1. Painted(v, s, c, p, TRUE, y)
  <2>1. TRUE \in BOOLEAN
    OBVIOUS
  <2> QED BY <2>1, PaintTwo
<1> HIDE DEF y
<1>2. /\ SameLinks(y, v) /\ y \in Trees /\ y.black[s] = c /\ y.black[p] = TRUE
      /\ \A m \in Key : m # s /\ m # p => y.black[m] = v.black[m]
  BY <1>1 DEF Painted
<1>3. far \in Node /\ TRUE \in BOOLEAN
  BY Nodes
<1>4. /\ z \in Trees /\ z.root = y.root /\ z.kid = y.kid /\ z.parent = y.parent
      /\ \A m \in Key : z.black[m] = IF m = far THEN TRUE ELSE y.black[m]
  BY <1>2, <1>3, PaintFields, ZenonT(40)
<1> HIDE DEF z
<1>5. SameLinks(z, v)
  BY <1>2, <1>4 DEF SameLinks
<1>6. z.black[s] = c /\ z.black[p] /\ z.black[far]
  BY <1>2, <1>4
<1>7. \A m \in Key : m # p /\ m # s /\ m # far => z.black[m] = v.black[m]
  BY <1>2, <1>4
<1>8. Pays(v, p, s, far, z)
  BY <1>5, <1>6, <1>7 DEF Pays
<1> QED BY <1>8 DEF y, z

\* The last case of the deletion, with the one that may come before it.
LEMMA FixRotateEven ==
  ASSUME NEW t, NEW B, Shape(t, B), NEW p \in InTree(t), NEW d \in Side, Calm(t, NULL),
         Short(t, p, d)
  PROVE  LET q == t.kid[p][1 - d]
             i == t.kid[q][d]
             o == t.kid[q][1 - d]
             near == Red(t, i) /\ ~Red(t, o)
             v == IF near THEN Rotate(Paint(Paint(t, q, FALSE), i, TRUE), q, 1 - d) ELSE t
             s == v.kid[p][1 - d]
             far == v.kid[s][1 - d]
             u == Rotate(Paint(Paint(Paint(v, s, t.black[p]), p, TRUE), far, TRUE), p, d)
         IN q # NULL /\ ~Red(t, q) /\ (Red(t, i) \/ Red(t, o)) => Calm(u, NULL) /\ Even(u)
<1> DEFINE q == t.kid[p][1 - d]
           i == t.kid[q][d]
           o == t.kid[q][1 - d]
           near == Red(t, i) /\ ~Red(t, o)
           w == Paint(Paint(t, q, FALSE), i, TRUE)
           v == IF near THEN Rotate(w, q, 1 - d) ELSE t
           s == v.kid[p][1 - d]
           far == v.kid[s][1 - d]
           z == Paint(Paint(Paint(v, s, t.black[p]), p, TRUE), far, TRUE)
<1> SUFFICES ASSUME q # NULL, ~Red(t, q), Red(t, i) \/ Red(t, o)
             PROVE  Calm(Rotate(z, p, d), NULL) /\ Even(Rotate(z, p, d))
  OBVIOUS
<1>1. t \in Trees /\ p \in Key /\ 1 - d \in Side /\ 1 - (1 - d) = d
  BY Sides DEF Shape, InTree
<1>2. q \in Key /\ q \in InTree(t)
  BY <1>1, KidFacts
<1>3. i \in Node /\ o \in Node
  BY <1>1, <1>2, TreeFields
<1>4. t.kid[p][1 - d] = q /\ t.kid[q][d] = i /\ t.kid[q][1 - d] = o
  OBVIOUS
<1> HIDE DEF q, i, o
<1>5. /\ \E C : Shape(v, C)
      /\ InTree(v) = InTree(t) /\ v.black[p] = t.black[p] /\ s \in Key /\ v.black[s] /\ Red(v, far)
      /\ Calm(v, NULL) /\ Short(v, p, d)
  <2>1. CASE near
    <3>1. i \in Key
      BY <1>3, <2>1, Nodes DEF Red
    <3> DEFINE x == Rotate(w, q, 1 - d)
    <3>2. Lifts(t, w, q, 1 - d, i, x)
      BY <1>1, <1>2, <1>4, <3>1, LiftPaint
    <3> HIDE DEF w, x
    <3>3. /\ Calm(x, NULL) /\ Short(x, p, d)
          /\ \E C : Shape(x, C)
          /\ InTree(x) = InTree(t) /\ x.black[p] = t.black[p]
          /\ x.kid[p][1 - d] = i /\ x.kid[i][1 - d] = q /\ x.black[i] /\ Red(x, q)
      BY <1>1, <1>2, <1>4, <2>1, <3>1, <3>2, StraightenEven, SMTT(30)
    <3>4. v = x
      BY <2>1 DEF x
    <3> QED BY <3>1, <3>3, <3>4
  <2>2. CASE ~near
    <3>1. v = t
      BY <2>2
    <3>2. Red(t, o) /\ t.black[q]
      BY <1>2, <2>2, Nodes DEF Red
    <3> QED BY <1>2, <1>4, <3>1, <3>2
  <2> QED BY <2>1, <2>2
<1> HIDE DEF v
<1>6. PICK C : Shape(v, C)
  BY <1>5
<1>7. v \in Trees /\ p \in InTree(v) /\ t.black[p] \in BOOLEAN
  BY <1>1, <1>5, <1>6, TreeFields DEF Shape
<1>8. v.kid[p][1 - d] = s /\ v.kid[s][1 - d] = far
  OBVIOUS
<1> HIDE DEF s, far
<1>9. far \in Key /\ s # p /\ far # p /\ far # s
  <2>1. far # NULL /\ s # NULL
    BY <1>5, Nodes DEF Red
  <2>2. s \in InTree(v) /\ v.parent[s] = p /\ p \in C[p] /\ p \notin C[s] /\ s \in C[s]
    BY <1>1, <1>6, <1>8, <2>1, KidFacts
  <2>3. far \in Key /\ v.parent[far] = s /\ far \in C[s] /\ s \notin C[far] /\ far \in C[far]
    BY <1>1, <1>5, <1>6, <1>8, <2>1, KidFacts
  <2> QED BY <2>2, <2>3
<1>10. Pays(v, p, s, far, z)
  BY <1>1, <1>5, <1>7, <1>9, PaysPaint
<1> HIDE DEF z
<1> QED BY <1>5, <1>6, <1>7, <1>8, <1>10, FarEven

-----------------------------------------------------------------------------
(* The invariant of colours and black heights.                             *)

\* Nothing is wrong but the node being repaired, which is red; the slot being
\* fixed is one black short, and neither the node in it nor, once it has been
\* looked at, the sibling is red.
Coloured(t, o, k, c, p) ==
  /\ Calm(t, IF o = "repair" THEN c ELSE NULL)
  /\ o = "insert" => ~t.black[k]
  /\ o = "repair" => ~t.black[c]
  /\ o \in {"fix", "sibling"} => ~Red(t, c)
  /\ o = "sibling" => ~Red(t, t.kid[p][1 - SideOf(t, p, c)])
  /\ IF o \in {"fix", "sibling"} /\ p # NULL THEN Short(t, p, SideOf(t, p, c)) ELSE Even(t)

BalanceInv == Coloured(tree, op, key, cur, up)

LEMMA EmptyColoured == Calm(Empty, NULL) /\ Even(Empty)
<1> DEFINE H == [n \in Node |-> 0]
<1>1. InTree(Empty) = {}
  BY EmptyOrder
<1>2. H \in [Node -> Nat] /\ H[NULL] = 0
  BY Nodes
<1> HIDE DEF H
<1>3. Weighs(Empty, H, NULL, 0)
  BY <1>1, <1>2 DEF Weighs
<1> QED BY <1>1, <1>3 DEF Calm, Even

LEMMA BalanceInit == Init => BalanceInv
<1> SUFFICES ASSUME Init PROVE BalanceInv
  OBVIOUS
<1>1. tree = Empty /\ op = "ready"
  BY DEF Init
<1> QED BY <1>1, EmptyColoured DEF BalanceInv, Coloured

LEMMA DoneColoured ==
  ASSUME NEW STATE t, Calm(t, NULL), Even(t), Done(t)
  PROVE  BalanceInv'
<1>1. tree' = t /\ op' = "ready" /\ key' = NULL /\ cur' = NULL /\ up' = NULL
  BY DEF Done
<1>2. Coloured(t, "ready", NULL, NULL, NULL)
  BY DEF Coloured
<1> QED BY <1>1, <1>2 DEF BalanceInv

LEMMA GotoColoured ==
  ASSUME NEW STATE t, tree' = t, NEW o, NEW STATE c, NEW STATE p, Goto(o, c, p),
         Coloured(t, o, key, c, p)
  PROVE  BalanceInv'
<1>1. op' = o /\ cur' = c /\ up' = p /\ key' = key
  BY DEF Goto
<1> QED BY <1>1 DEF BalanceInv

\* What is above a red node whose parent is red too.
LEMMA RepairAbove ==
  ASSUME NEW t, NEW B, Shape(t, B), NEW n \in InTree(t), Calm(t, n),
         NEW p, t.parent[n] = p, Red(t, p)
  PROVE  LET g == t.parent[p]
             d == SideOf(t, g, p)
         IN /\ p \in InTree(t) /\ p \in Key /\ p # n /\ ~t.black[p]
            /\ \E e \in Side : t.kid[p][e] = n
            /\ g # NULL /\ g \in InTree(t) /\ g \in Key /\ g # p /\ g # n /\ t.black[g]
            /\ d \in Side /\ t.kid[g][d] = p
<1>1. t \in Trees /\ p # NULL /\ n \in Key
  BY DEF Shape, Red, InTree
<1>2. /\ p \in Key /\ p \in InTree(t) /\ n \in B[p] /\ p \notin B[n] /\ B[n] \subseteq B[p] /\ n \in B[n]
      /\ \E e \in Side : t.kid[p][e] = n
  BY <1>1, ParentFacts
<1>3. /\ \A m \in Key : Red(t, m) <=> ~t.black[m]
      /\ \A m \in InTree(t) :
           /\ m \in Key
           /\ Red(t, m) /\ (m = t.root \/ Red(t, t.parent[m])) => m = n
      /\ \A m \in InTree(t) : t.parent[m] = NULL <=> m = t.root
  BY CalmFacts
<1>4. p # n /\ ~t.black[p]
  BY <1>2, <1>3
<1> DEFINE g == t.parent[p]
           d == SideOf(t, g, p)
<1>5. g # NULL
  BY <1>2, <1>3, <1>4
<1>6. /\ g \in Key /\ g \in InTree(t) /\ p \in B[g] /\ g \notin B[p]
      /\ \E e \in Side : t.kid[g][e] = p /\ t.kid[g][1 - e] # p
  BY <1>2, <1>5, ParentFacts
<1>7. g # p /\ g # n /\ p \in B[p]
  BY <1>2, <1>6, ParentFacts
<1>8. t.black[g]
  BY <1>2, <1>3, <1>4, <1>6
<1>9. d \in Side /\ t.kid[g][d] = p
  BY <1>6 DEF SideOf, Side
<1> HIDE DEF g, d
<1>10. /\ p \in InTree(t) /\ p \in Key /\ p # n /\ ~t.black[p]
       /\ \E e \in Side : t.kid[p][e] = n
       /\ g # NULL /\ g \in InTree(t) /\ g \in Key /\ g # p /\ g # n /\ t.black[g]
       /\ d \in Side /\ t.kid[g][d] = p
  BY <1>2, <1>4, <1>5, <1>6, <1>7, <1>8, <1>9
<1> QED BY <1>10 DEF g, d

\* The rotation that ends the repair of an insertion.
LEMMA LiftTurned ==
  ASSUME NEW t, NEW B, Shape(t, B), NEW g, NEW d, NEW q, NEW x, Liftable(t, g, d, q, x), Even(t)
  PROVE  LET u == Paint(Paint(Rotate(t, g, d), q, TRUE), g, FALSE)
         IN Calm(u, NULL) /\ Even(u)
<1> DEFINE v == Rotate(t, g, d)
           u == Paint(Paint(v, q, TRUE), g, FALSE)
<1>1. /\ g \in InTree(t) /\ d \in Side /\ t.kid[g][1 - d] = q /\ Red(t, q)
      /\ TRUE \in BOOLEAN /\ FALSE \in BOOLEAN
  BY DEF Liftable
<1>2. q # NULL /\ g \in Key /\ g # NULL /\ 1 - d \in Side /\ t \in Trees
  BY <1>1, Nodes, Sides DEF Red, InTree, Shape
<1>3. q \in Key /\ q # g
  BY <1>1, <1>2, RotateFields
<1>4. v \in Trees /\ v.black = t.black
  BY <1>1, <1>2, RotateFields
<1> HIDE DEF v
<1>5. Painted(v, q, TRUE, g, FALSE, u)
  BY <1>1, <1>2, <1>3, <1>4, PaintTwo
<1> HIDE DEF u
<1>6. /\ SameLinks(u, v) /\ ~u.black[g] /\ u.black[q]
      /\ \A m \in Key : m # g /\ m # q => u.black[m] = t.black[m]
  BY <1>4, <1>5 DEF Painted
<1>7. SameLinks(t, t) /\ SameLinks(u, Rotate(t, g, d))
  BY <1>2, <1>6 DEF SameLinks, v
<1>8. Lifts(t, t, g, d, q, u)
  BY <1>1, <1>3, <1>6, <1>7 DEF Lifts
<1>9. Short(t, NULL, 0) /\ NULL # q /\ NULL # g
  BY <1>2, EvenShort
<1>10. Calm(u, NULL) /\ Short(u, NULL, 0)
  BY <1>8, <1>9, LiftEven
<1> QED BY <1>10, EvenShort DEF u, v

\* One rotation, or two, as RepairRotate writes them.
LEMMA RepairRotateEven ==
  ASSUME NEW t, NEW B, Shape(t, B), NEW n \in InTree(t), ~t.black[n], Calm(t, n), Even(t)
  PROVE  LET p == t.parent[n]
             g == t.parent[p]
             d == SideOf(t, g, p)
             v == IF t.kid[p][1 - d] = n THEN Rotate(t, p, d) ELSE t
             top == IF t.kid[p][1 - d] = n THEN n ELSE p
             u == Paint(Paint(Rotate(v, g, 1 - d), top, TRUE), g, FALSE)
         IN Red(t, p) /\ ~Red(t, t.kid[g][1 - d]) => Calm(u, NULL) /\ Even(u)
<1> DEFINE p == t.parent[n]
           g == t.parent[p]
           d == SideOf(t, g, p)
           v == IF t.kid[p][1 - d] = n THEN Rotate(t, p, d) ELSE t
           top == IF t.kid[p][1 - d] = n THEN n ELSE p
           u == Paint(Paint(Rotate(v, g, 1 - d), top, TRUE), g, FALSE)
<1> SUFFICES ASSUME Red(t, p), ~Red(t, t.kid[g][1 - d]) PROVE Calm(u, NULL) /\ Even(u)
  OBVIOUS
<1>1. /\ p \in InTree(t) /\ p \in Key /\ p # n /\ ~t.black[p]
      /\ \E e \in Side : t.kid[p][e] = n
      /\ g # NULL /\ g \in InTree(t) /\ g \in Key /\ g # p /\ g # n /\ t.black[g]
      /\ d \in Side /\ t.kid[g][d] = p
  BY RepairAbove
<1>2. n \in Key /\ n # NULL /\ p # NULL /\ t \in Trees
  BY <1>1, Nodes DEF InTree, Shape
<1> HIDE DEF p, g, d
<1>3. 1 - d \in Side /\ 1 - (1 - d) = d /\ \A e \in Side : e = d \/ e = 1 - d
  BY <1>1, Sides
<1>4. CASE t.kid[p][1 - d] = n
  <2> DEFINE x == Rotate(t, p, d)
  <2>1. v = x /\ top = n
    BY <1>4
  <2>2. /\ Turn(t, p, d, n, t.kid[n][d], t.kid[n][1 - d], t.kid[p][d], x)
        /\ x.black = t.black
    <3> DEFINE q == t.kid[p][1 - d]
    <3>1. /\ Turn(t, p, d, q, t.kid[q][d], t.kid[q][1 - d], t.kid[p][d], x)
          /\ x.black = t.black
      BY <1>1, <1>2, <1>4, TurnRotate
    <3> QED BY <1>4, <3>1
  <2>3. Shape(x, RotatedBelow(t, B, p, d))
    BY <1>1, <1>2, <1>4, RotateShape
  <2> HIDE DEF x
  <2>4. Liftable(x, g, 1 - d, n, p) /\ Even(x)
    BY <1>1, <1>4, <2>2, RepairInnerEven
  <2>5. Calm(Paint(Paint(Rotate(x, g, 1 - d), n, TRUE), g, FALSE), NULL)
        /\ Even(Paint(Paint(Rotate(x, g, 1 - d), n, TRUE), g, FALSE))
    BY <2>3, <2>4, LiftTurned
  <2> QED BY <2>1, <2>5
<1>5. CASE t.kid[p][1 - d] # n
  <2>1. v = t /\ top = p
    BY <1>5
  <2>2. t.kid[p][d] = n
    BY <1>1, <1>3, <1>5
  <2>3. Liftable(t, g, 1 - d, p, n)
    BY <1>1, <1>3, <2>2 DEF Liftable
  <2>4. Calm(Paint(Paint(Rotate(t, g, 1 - d), p, TRUE), g, FALSE), NULL)
        /\ Even(Paint(Paint(Rotate(t, g, 1 - d), p, TRUE), g, FALSE))
    BY <2>3, LiftTurned
  <2> QED BY <2>1, <2>4
<1> QED BY <1>4, <1>5

\* What deleting a node with one kid at most leaves.
LEMMA DeleteStepBalance ==
  ASSUME key \in Key, NEW STATE t, NEW STATE B, Shape(t, B), key \in InTree(t),
         t.kid[key][0] = NULL \/ t.kid[key][1] = NULL,
         Calm(t, NULL), Even(t), DeleteOneChild(t)
  PROVE  BalanceInv'
<1> DEFINE c == OnlyKid(t, key)
           p == t.parent[key]
           u == Unlink(t, key)
<1>1. /\ ~t.black[key] => Calm(u, NULL) /\ Even(u)
      /\ t.black[key] /\ Red(t, c) => Calm(Paint(u, c, TRUE), NULL) /\ Even(Paint(u, c, TRUE))
      /\ t.black[key] /\ ~Red(t, c) =>
           /\ Calm(u, NULL) /\ ~Red(u, c)
           /\ IF p = NULL THEN Even(u) ELSE Short(u, p, SideOf(u, p, c))
  BY UnlinkEven
<1>2. \/ ~t.black[key] /\ Done(u)
      \/ t.black[key] /\ Red(t, c) /\ Done(Paint(u, c, TRUE))
      \/ t.black[key] /\ ~Red(t, c) /\ tree' = u /\ Goto("fix", c, p)
  BY DEF DeleteOneChild
<1> HIDE DEF c, p, u
<1>3. CASE ~t.black[key] /\ Done(u)
  BY <1>1, <1>3, DoneColoured
<1>4. CASE t.black[key] /\ Red(t, c) /\ Done(Paint(u, c, TRUE))
  BY <1>1, <1>4, DoneColoured
<1>5. CASE t.black[key] /\ ~Red(t, c) /\ tree' = u /\ Goto("fix", c, p)
  <2>1. Coloured(u, "fix", key, c, p)
    BY <1>1, <1>5 DEF Coloured
  <2> QED BY <1>5, <2>1, GotoColoured
<1> QED BY <1>2, <1>3, <1>4, <1>5

LEMMA BalanceStep == OrderInv /\ BalanceInv /\ [Next]_vars => BalanceInv'
<1> SUFFICES ASSUME OrderInv, BalanceInv, [Next]_vars PROVE BalanceInv'
  OBVIOUS
<1>1. /\ tree \in Trees /\ op \in Ops /\ key \in Node /\ cur \in Node /\ up \in Node
      /\ op = "ready" <=> key = NULL
      /\ op \in {"insert", "repair", "pred"} => cur \in Key
      /\ op = "sibling" => up \in Key
  BY DEF OrderInv, TypeOK
<1>2. PICK B : Sound(tree, op, key, cur, up, B)
  BY DEF OrderInv
<1>3. Shape(tree, B) /\ Sorted(tree, B) /\ InOrder(tree)
  BY <1>2 DEF Sound, InOrder
<1>4. NULL \in Node /\ NULL \notin Key /\ \A n \in Node : n # NULL => n \in Key
  BY Nodes
<1>5. /\ op \in {"get", "lookup", "find"} => Searching(tree, key, cur, B)
      /\ op = "insert" => Placing(tree, key, cur, B)
      /\ op = "repair" => cur \in InTree(tree)
      /\ op = "pred" => Preceding(tree, key, cur, B)
      /\ op \in {"fix", "sibling"} => Under(tree, cur, up)
  BY <1>2 DEF Sound
<1>6. op # "ready" => key \in Key
  BY <1>1, <1>4
<1>7. Coloured(tree, op, key, cur, up)
  BY DEF BalanceInv
<1>8. /\ op # "repair" => Calm(tree, NULL)
      /\ op = "repair" => Calm(tree, cur) /\ ~tree.black[cur] /\ Even(tree)
      /\ op = "insert" => ~tree.black[key]
      /\ op \in {"fix", "sibling"} => ~Red(tree, cur)
      /\ op = "sibling" => ~Red(tree, Sibling)
      /\ op \notin {"fix", "sibling"} \/ up = NULL => Even(tree)
      /\ op \in {"fix", "sibling"} /\ up # NULL => Short(tree, up, FixSide)
  BY <1>7 DEF Coloured, Sibling, FixSide
<1>9. op \in {"fix", "sibling"} /\ up # NULL =>
        /\ up \in InTree(tree) /\ up \in Key /\ cur \in Node
        /\ FixSide \in Side /\ 1 - FixSide \in Side /\ tree.kid[up][FixSide] = cur
  BY <1>3, <1>5, UnderFacts, Sides DEF FixSide
<1>11. CASE UNCHANGED vars
  BY <1>7, <1>11 DEF vars, BalanceInv
<1>12. CASE \E k \in Key : Set(k) \/ Get(k) \/ Del(k)
  <2>1. PICK k \in Key : Set(k) \/ Get(k) \/ Del(k)
    BY <1>12
  <2>2. PICK o \in {"lookup", "get", "find"} : Begin(o, k)
    BY <2>1 DEF Set, Get, Del
  <2>3. op = "ready" /\ op' = o /\ key' = k /\ cur' = tree.root /\ up' = NULL /\ tree' = tree
    BY <2>2 DEF Begin
  <2>4. Coloured(tree, o, k, tree.root, NULL)
    BY <1>8, <2>3 DEF Coloured
  <2> QED BY <2>3, <2>4 DEF BalanceInv
<1>13. CASE Descend
  <2>1. op \in {"get", "lookup", "find", "insert"} /\ Goto(op, Lower(cur), NULL) /\ tree' = tree
    BY <1>13 DEF Descend
  <2>2. Coloured(tree, op, key, Lower(cur), NULL)
    BY <1>8, <2>1 DEF Coloured
  <2>3. op' = op /\ cur' = Lower(cur) /\ up' = NULL /\ key' = key
    BY <2>1 DEF Goto
  <2> QED BY <2>1, <2>2, <2>3 DEF BalanceInv
<1>14. CASE Hit \/ Present \/ Absent \/ NoMem \/ FixRoot
  <2>1. Done(tree) /\ op # "repair" /\ (op \notin {"fix", "sibling"} \/ up = NULL)
    BY <1>14 DEF Hit, Present, Absent, NoMem, FixRoot
  <2> QED BY <1>8, <2>1, DoneColoured
<1>15. CASE RepairNothing
  <2>1. op = "repair" /\ tree.parent[cur] # NULL /\ ~Red(tree, tree.parent[cur]) /\ Done(tree)
    BY <1>15 DEF RepairNothing, Parent
  <2>2. cur # tree.root
    BY <1>3, <1>5, <2>1, ParentFacts
  <2>3. Calm(tree, NULL)
    BY <1>8, <2>1, <2>2 DEF Calm
  <2> QED BY <1>8, <2>1, <2>3, DoneColoured
<1>16. ASSUME op = "lookup", cur = NULL
       PROVE  key \in Key /\ key \notin InTree(tree)
  BY <1>5, <1>6, <1>16 DEF Searching
<1>17. CASE PlaceRoot
  <2> DEFINE s == Fresh(tree, key)
             t == [s EXCEPT !.root = key]
  <2>1. /\ op = "lookup" /\ cur = NULL /\ tree.root = NULL
        /\ tree' = t /\ Goto("repair", key, NULL)
    BY <1>17 DEF PlaceRoot, HasRoot
  <2>2. key \in Key /\ key \notin InTree(tree)
    BY <1>16, <2>1
  <2>3. /\ Shape(s, B) /\ InTree(s) = InTree(tree) /\ s.root = NULL /\ s \in Trees
        /\ \A e \in Side : s.kid[key][e] = NULL
    <3>1. Shape(s, B) /\ InTree(s) = InTree(tree)
      BY <1>3, <2>2, FreshShape
    <3>2. /\ s \in Trees /\ s.root = tree.root
          /\ \A m \in Key, e \in Side : s.kid[m][e] = IF m = key THEN NULL ELSE tree.kid[m][e]
      BY <1>1, <2>2, FreshFields
    <3> HIDE DEF s
    <3> QED BY <2>1, <2>2, <3>1, <3>2
  <2>4. Calm(s, NULL) /\ Even(s) /\ ~s.black[key]
    BY <1>3, <1>8, <2>1, <2>2, FreshEven
  <2> HIDE DEF s
  <2>5. t \in Trees /\ t.root = key /\ t.kid = s.kid /\ t.parent = s.parent /\ t.black = s.black
    BY <2>2, <2>3, Nodes DEF Trees
  <2> HIDE DEF t
  <2>6. InTree(s) = {}
    BY <2>3 DEF Shape, Covers, Layered
  <2>7. InTree(t) = {key}
    BY <2>2, <2>3, <2>5, RootShape
  <2>8. Calm(t, key) /\ Even(t)
    BY <2>2, <2>3, <2>4, <2>5, <2>6, <2>7, LeafEven
  <2>9. Coloured(t, "repair", key, key, NULL)
    BY <2>4, <2>5, <2>8 DEF Coloured
  <2>10. op' = "repair" /\ cur' = key /\ up' = NULL /\ key' = key
    BY <2>1 DEF Goto
  <2> QED BY <2>1, <2>9, <2>10 DEF BalanceInv
<1>18. CASE SeekPlace
  <2> DEFINE s == Fresh(tree, key)
  <2>1. op = "lookup" /\ cur = NULL /\ tree' = s /\ Goto("insert", tree.root, NULL)
    BY <1>18 DEF SeekPlace
  <2>2. key \in Key /\ key \notin InTree(tree)
    BY <1>16, <2>1
  <2>3. Calm(s, NULL) /\ Even(s) /\ ~s.black[key]
    BY <1>3, <1>8, <2>1, <2>2, FreshEven
  <2> HIDE DEF s
  <2>4. Coloured(s, "insert", key, tree.root, NULL)
    BY <2>3 DEF Coloured
  <2>5. op' = "insert" /\ cur' = tree.root /\ up' = NULL /\ key' = key
    BY <2>1 DEF Goto
  <2> QED BY <2>1, <2>4, <2>5 DEF BalanceInv
<1>19. CASE PlaceLeaf
  <2> DEFINE d == Toward(key, cur)
             t == Adopt(tree, cur, d, key)
  <2>1. op = "insert" /\ tree.kid[cur][d] = NULL /\ tree' = t /\ Goto("repair", key, NULL)
    BY <1>19 DEF PlaceLeaf
  <2>2. key \in Key /\ key \notin InTree(tree) /\ cur \in InTree(tree) /\ cur \in Key
    BY <1>1, <1>5, <1>6, <2>1 DEF Placing
  <2>3. d \in Side
    BY <2>2, TowardFacts
  <2> HIDE DEF d
  <2>4. InTree(t) = InTree(tree) \cup {key}
    BY <1>3, <2>1, <2>2, <2>3, AttachShape
  <2>5. /\ t \in Trees /\ t.root = tree.root /\ t.black = tree.black
        /\ \A m \in Key, e \in Side : t.kid[m][e] = IF m = cur /\ e = d THEN key ELSE tree.kid[m][e]
        /\ \A m \in Key : t.parent[m] = IF m = key THEN cur ELSE tree.parent[m]
    BY <1>1, <2>2, <2>3, Nodes, AdoptFields
  <2> HIDE DEF t
  <2>6. \A e \in Side : t.kid[key][e] = NULL
    BY <1>3, <2>2, <2>5 DEF Shape, Pointers
  <2>7. \A m \in InTree(tree), e \in Side :
           t.kid[m][e] = tree.kid[m][e] \/ (t.kid[m][e] = key /\ tree.kid[m][e] = NULL)
    BY <2>1, <2>5 DEF InTree
  <2>8. \A m \in InTree(tree) : t.parent[m] = tree.parent[m] /\ (m = t.root => m = tree.root)
    BY <2>2, <2>5 DEF InTree
  <2>9. ~tree.black[key] /\ Calm(tree, NULL) /\ Even(tree)
    BY <1>8, <2>1
  <2>10. Calm(t, key) /\ Even(t)
    BY <1>3, <2>2, <2>4, <2>5, <2>6, <2>7, <2>8, <2>9, LeafEven
  <2>11. Coloured(t, "repair", key, key, NULL)
    BY <2>5, <2>9, <2>10 DEF Coloured
  <2>12. op' = "repair" /\ cur' = key /\ up' = NULL /\ key' = key
    BY <2>1 DEF Goto
  <2> QED BY <2>1, <2>11, <2>12 DEF BalanceInv
<1>20. CASE RepairRoot
  <2>1. op = "repair" /\ tree.parent[cur] = NULL /\ Done(Paint(tree, cur, TRUE))
    BY <1>20 DEF RepairRoot, Parent
  <2>2. Calm(Paint(tree, cur, TRUE), NULL) /\ Even(Paint(tree, cur, TRUE))
    BY <1>3, <1>5, <1>8, <2>1, RootEven
  <2> QED BY <2>1, <2>2, DoneColoured
<1>21. CASE RepairUp
  <2> DEFINE p == tree.parent[cur]
             g == tree.parent[p]
             d == SideOf(tree, g, p)
             q == tree.kid[g][1 - d]
             u == Recoloured(tree, p, q, g)
  <2>1. op = "repair" /\ Red(tree, p) /\ Red(tree, Uncle(cur))
    BY <1>21 DEF RepairUp, Parent
  <2>2. /\ p \in InTree(tree) /\ g # NULL /\ g \in InTree(tree) /\ d \in Side /\ tree.kid[g][d] = p
    BY <1>3, <1>5, <1>8, <2>1, RepairAbove
  <2>3. Uncle(cur) = q
    BY <2>2, Zenon DEF Uncle, Grand, Parent
  <2>4. tree' = u /\ Goto("repair", g, NULL)
    BY <1>21, <2>3 DEF RepairUp, Parent, Grand
  <2>5. Calm(u, g) /\ Even(u) /\ ~u.black[g]
    <3>1. Red(tree, p) /\ Red(tree, q) /\ cur \in InTree(tree) /\ p = tree.parent[cur]
          /\ Calm(tree, cur) /\ Even(tree) /\ q = tree.kid[g][1 - d]
      BY <1>5, <1>8, <2>1, <2>3
    <3> HIDE DEF p, g, d, q
    <3> QED BY <1>3, <2>2, <3>1, UpEven
  <2> HIDE DEF u, g
  <2>6. Coloured(u, "repair", key, g, NULL)
    BY <2>5 DEF Coloured
  <2>7. op' = "repair" /\ cur' = g /\ up' = NULL /\ key' = key
    BY <2>4 DEF Goto
  <2> QED BY <2>4, <2>6, <2>7 DEF BalanceInv
<1>22. CASE RepairRotate
  <2> DEFINE p == tree.parent[cur]
             g == tree.parent[p]
             d == SideOf(tree, g, p)
             v == IF tree.kid[p][1 - d] = cur THEN Rotate(tree, p, d) ELSE tree
             top == IF tree.kid[p][1 - d] = cur THEN cur ELSE p
             u == Paint(Paint(Rotate(v, g, 1 - d), top, TRUE), g, FALSE)
  <2>1. op = "repair" /\ g # NULL /\ Red(tree, p) /\ ~Red(tree, Uncle(cur)) /\ Done(u)
    BY <1>22, Zenon DEF RepairRotate, Parent, Grand
  <2>2. Uncle(cur) = tree.kid[g][1 - d]
    BY <2>1, Zenon DEF Uncle, Grand, Parent
  <2>3. Calm(u, NULL) /\ Even(u)
    BY <1>3, <1>5, <1>8, <2>1, <2>2, RepairRotateEven
  <2> HIDE DEF u
  <2> QED BY <2>1, <2>3, DoneColoured
<1>23. CASE DeleteHere
  <2>1. op = "find" /\ cur # NULL /\ cur = key /\ ~BothKids(key) /\ DeleteOneChild(tree)
    BY <1>23 DEF DeleteHere, Found
  <2>2. key \in InTree(tree) /\ (tree.kid[key][0] = NULL \/ tree.kid[key][1] = NULL)
    BY <1>5, <2>1 DEF Searching, BothKids
  <2> QED BY <1>3, <1>6, <1>8, <2>1, <2>2, DeleteStepBalance
<1>24. CASE SeekPred \/ PredRight
  <2>1. PICK n : op \in {"find", "pred"} /\ Goto("pred", n, NULL) /\ tree' = tree
    BY <1>24 DEF SeekPred, PredRight
  <2>2. Coloured(tree, "pred", key, n, NULL)
    BY <1>8, <2>1 DEF Coloured
  <2>3. op' = "pred" /\ cur' = n /\ up' = NULL /\ key' = key
    BY <2>1 DEF Goto
  <2> QED BY <2>1, <2>2, <2>3 DEF BalanceInv
<1>25. CASE PredTake
  <2> DEFINE u == Exchange(tree, key, cur)
             C == TradedBelow(B, key, cur)
  <2>1. op = "pred" /\ tree.kid[cur][1] = NULL /\ DeleteOneChild(u)
    BY <1>25 DEF PredTake
  <2>2. Shape(u, C) /\ key \in InTree(u) /\ u.kid[key][1] = NULL
    BY <1>1, <1>3, <1>5, <1>6, <2>1, TakePlace
  <2>3. key \in InTree(tree) /\ cur \in InTree(tree)
    <3>1. key \in InTree(tree) /\ tree.kid[key][0] # NULL /\ cur \in B[tree.kid[key][0]]
      BY <1>5, <2>1, BothSides DEF Preceding
    <3>2. tree.kid[key][0] \in InTree(tree)
      BY <1>3, <1>6, <2>1, <3>1, InOrderFacts, BothSides
    <3>3. B[tree.root] = InTree(tree) /\ tree.root \in Node
      BY <1>1, <1>3, TreeFields DEF Shape, Layered
    <3>4. B[tree.kid[key][0]] \subseteq B[tree.root]
      BY <1>3, <3>2, <3>3, Transitive
    <3> QED BY <3>1, <3>3, <3>4
  <2>4. Calm(u, NULL) /\ Even(u)
    BY <1>3, <1>8, <2>1, <2>3, ExchangeEven
  <2> HIDE DEF u, C
  <2> QED BY <1>6, <2>1, <2>2, <2>4, DeleteStepBalance
<1>26. CASE FixSibling
  <2> DEFINE d == FixSide
             s == Sibling
             w == Paint(Paint(tree, up, FALSE), s, TRUE)
             u == Rotate(w, up, d)
  <2>1. /\ op = "fix" /\ up # NULL /\ Goto("sibling", cur, up)
        /\ tree' = IF Red(tree, s) THEN u ELSE tree
    BY <1>26 DEF FixSibling
  <2>2. /\ up \in InTree(tree) /\ up \in Key /\ cur \in Node
        /\ d \in Side /\ 1 - d \in Side /\ tree.kid[up][d] = cur /\ tree.kid[up][1 - d] = s
        /\ Short(tree, up, d) /\ Calm(tree, NULL) /\ ~Red(tree, cur) /\ d = SideOf(tree, up, cur)
    BY <1>8, <1>9, <2>1 DEF Sibling, FixSide
  <2>3. op' = "sibling" /\ cur' = cur /\ up' = up /\ key' = key
    BY <2>1 DEF Goto
  <2> HIDE DEF d, s
  <2>4. CASE Red(tree, s)
    <3>1. s \in Key
      BY <1>1, <2>2, <2>4, TreeFields, Nodes DEF Red
    <3>2. Lifts(tree, w, up, d, s, u)
      BY <1>3, <2>2, <3>1, LiftPaint
    <3> HIDE DEF u, w
    <3>3. Calm(u, NULL) /\ Short(u, up, d) /\ u.kid[up][d] = cur /\ ~Red(u, u.kid[up][1 - d])
      BY <1>3, <2>2, <2>4, <3>1, <3>2, FixSiblingEven
    <3>4. /\ \E C : Shape(u, C)
          /\ InTree(u) = InTree(tree)
      BY <1>3, <3>2, LiftKids
    <3>5. PICK H : Weighs(u, H, up, d)
      BY <3>3 DEF Short
    <3>6. SideOf(u, up, cur) = d
      BY <2>2, <3>3, <3>4, <3>5, OwedSide
    <3>7. ~Red(u, cur)
      <4>1. ASSUME Red(u, cur) PROVE FALSE
        <5>1. cur \in Key /\ ~u.black[cur]
          BY <1>4, <2>2, <4>1 DEF Red
        <5>2. tree.black[cur]
          BY <1>4, <2>2, <5>1 DEF Red
        <5>3. cur # up
          BY <1>3, <1>4, <2>2, <5>1, KidFacts, ParentFacts
        <5> QED BY <3>2, <5>1, <5>2, <5>3 DEF Lifts
      <4> QED BY <4>1
    <3>8. Coloured(u, "sibling", key, cur, up)
      BY <2>1, <3>3, <3>6, <3>7 DEF Coloured
    <3> QED BY <2>1, <2>3, <2>4, <3>8 DEF BalanceInv
  <2>5. CASE ~Red(tree, s)
    <3>1. Coloured(tree, "sibling", key, cur, up)
      BY <2>1, <2>2, <2>5 DEF Coloured
    <3> QED BY <2>1, <2>3, <2>5, <3>1 DEF BalanceInv
  <2> QED BY <2>4, <2>5
<1>27. ASSUME op = "sibling", Sibling # NULL, AllBlack
       PROVE  /\ up \in Key /\ up # NULL /\ Sibling \in Key /\ Sibling # up
              /\ \A u : /\ SameLinks(u, tree) /\ ~u.black[Sibling] /\ u.black[up]
                        /\ \A m \in Key : m # Sibling /\ m # up => u.black[m] = tree.black[m]
                        => /\ Calm(u, NULL)
                           /\ ~tree.black[up] \/ tree.parent[up] = NULL => Even(u)
                           /\ tree.black[up] /\ tree.parent[up] # NULL
                                => Short(u, tree.parent[up], SideOf(u, tree.parent[up], up))
  <2> DEFINE d == FixSide
             s == Sibling
  <2>1. /\ up \in InTree(tree) /\ up \in Key /\ up # NULL
        /\ d \in Side /\ 1 - d \in Side /\ 1 - (1 - d) = d /\ s = tree.kid[up][1 - d]
        /\ Short(tree, up, d) /\ Calm(tree, NULL) /\ ~Red(tree, s)
    BY <1>1, <1>4, <1>8, <1>9, <1>27, Sides DEF Sibling
  <2>2. s \in Key /\ s # up
    BY <1>3, <1>27, <2>1, KidFacts, ParentFacts
  <2>3. \A e \in Side : ~Red(tree, tree.kid[s][e])
    <3>1. ~Red(tree, tree.kid[s][d]) /\ ~Red(tree, tree.kid[s][1 - d])
      BY <1>27 DEF AllBlack, Inner, Outer
    <3> QED BY <2>1, <3>1, Sides
  <2>4. s # NULL
    BY <1>27
  <2> HIDE DEF d, s
  <2>5. ASSUME NEW u, SameLinks(u, tree), ~u.black[s], u.black[up],
               \A m \in Key : m # s /\ m # up => u.black[m] = tree.black[m]
        PROVE  /\ Calm(u, NULL)
               /\ ~tree.black[up] \/ tree.parent[up] = NULL => Even(u)
               /\ tree.black[up] /\ tree.parent[up] # NULL
                    => Short(u, tree.parent[up], SideOf(u, tree.parent[up], up))
    BY <1>3, <2>1, <2>3, <2>4, <2>5, SiblingEven
  <2> QED BY <2>1, <2>2, <2>5 DEF s
<1>28. CASE FixUp
  <2> DEFINE s == Sibling
             u == Paint(tree, s, FALSE)
             p == tree.parent[up]
  <2>1. op = "sibling" /\ s # NULL /\ AllBlack /\ tree.black[up] /\ tree' = u /\ Goto("fix", up, p)
    BY <1>28 DEF FixUp, Parent
  <2>2. up \in Key /\ up # NULL /\ s \in Key /\ s # up
    BY <1>27, <2>1
  <2>3. /\ u \in Trees /\ u.root = tree.root /\ u.kid = tree.kid /\ u.parent = tree.parent
        /\ \A m \in Key : u.black[m] = IF m = s THEN FALSE ELSE tree.black[m]
    BY <1>1, <2>2, Nodes, PaintFields, ZenonT(40)
  <2> HIDE DEF u
  <2>4. SameLinks(u, tree) /\ ~u.black[s] /\ u.black[up]
        /\ \A m \in Key : m # s /\ m # up => u.black[m] = tree.black[m]
    BY <1>1, <2>1, <2>2, <2>3 DEF SameLinks
  <2>5. Calm(u, NULL) /\ (p = NULL => Even(u)) /\ (p # NULL => Short(u, p, SideOf(u, p, up)))
    BY <1>27, <2>1, <2>4
  <2>6. ~Red(u, up)
    BY <2>4 DEF Red
  <2> HIDE DEF p
  <2>7. Coloured(u, "fix", key, up, p)
    BY <2>5, <2>6 DEF Coloured
  <2>8. op' = "fix" /\ cur' = up /\ up' = p /\ key' = key
    BY <2>1 DEF Goto
  <2> QED BY <2>1, <2>7, <2>8 DEF BalanceInv
<1>29. CASE FixSwapColours
  <2> DEFINE s == Sibling
             u == Paint(Paint(tree, s, FALSE), up, TRUE)
  <2>1. op = "sibling" /\ s # NULL /\ AllBlack /\ ~tree.black[up] /\ Done(u)
    BY <1>29 DEF FixSwapColours
  <2>2. up \in Key /\ s \in Key /\ s # up /\ FALSE \in BOOLEAN /\ TRUE \in BOOLEAN
    BY <1>27, <2>1
  <2>3. Painted(tree, s, FALSE, up, TRUE, u)
    BY <1>1, <2>2, PaintTwo
  <2> HIDE DEF u
  <2>4. SameLinks(u, tree) /\ ~u.black[s] /\ u.black[up]
        /\ \A m \in Key : m # s /\ m # up => u.black[m] = tree.black[m]
    BY <2>3 DEF Painted
  <2>5. Calm(u, NULL) /\ Even(u)
    BY <1>27, <2>1, <2>4
  <2> QED BY <2>1, <2>5, DoneColoured
<1>30. CASE FixRotate
  <2> DEFINE d == FixSide
             q == tree.kid[up][1 - d]
             i == tree.kid[q][d]
             o == tree.kid[q][1 - d]
             near == Red(tree, i) /\ ~Red(tree, o)
             v == IF near THEN Rotate(Paint(Paint(tree, q, FALSE), i, TRUE), q, 1 - d) ELSE tree
             s == v.kid[up][1 - d]
             far == v.kid[s][1 - d]
             u == Rotate(Paint(Paint(Paint(v, s, tree.black[up]), up, TRUE), far, TRUE), up, d)
  <2>1. op = "sibling" /\ q # NULL /\ ~AllBlack
    BY <1>30 DEF FixRotate, Sibling
  <2>2. up # NULL /\ ~Red(tree, q)
    BY <1>1, <1>4, <1>8, <2>1 DEF Sibling
  <2>3. (NearOnly <=> near) /\ (Red(tree, i) \/ Red(tree, o))
    BY <2>1, <2>2 DEF NearOnly, AllBlack, Sibling, Inner, Outer
  <2>4. Straightened = v
    <3>1. CASE near
      BY <2>3, <3>1, Zenon DEF Straightened, Sibling, Inner
    <3>2. CASE ~near
      BY <2>3, <3>2, Zenon DEF Straightened
    <3> QED BY <3>1, <3>2
  <2>5. Done(u)
    <3> HIDE DEF v
    <3> QED BY <1>30, <2>4, Zenon DEF FixRotate
  <2>6. Calm(u, NULL) /\ Even(u)
    <3>1. up \in InTree(tree) /\ d \in Side /\ Calm(tree, NULL) /\ Short(tree, up, d)
      BY <1>8, <1>9, <2>1, <2>2
    <3> HIDE DEF d
    <3> QED BY <1>3, <2>1, <2>2, <2>3, <3>1, FixRotateEven
  <2> HIDE DEF u
  <2> QED BY <2>5, <2>6, DoneColoured
<1> QED
  BY <1>11, <1>12, <1>13, <1>14, <1>15, <1>17, <1>18, <1>19, <1>20, <1>21, <1>22, <1>23, <1>24,
     <1>25, <1>26, <1>28, <1>29, <1>30 DEF Next, Step

\* The invariants leave no way to abort.
LEMMA BalanceNoAbort == OrderInv /\ BalanceInv => NoAbort
<1> SUFFICES ASSUME OrderInv, BalanceInv PROVE NoAbort
  OBVIOUS
<1>1. /\ tree \in Trees /\ op \in Ops /\ key \in Node /\ cur \in Node /\ up \in Node
      /\ op = "sibling" => up \in Key
  BY DEF OrderInv, TypeOK
<1>2. PICK B : Sound(tree, op, key, cur, up, B)
  BY DEF OrderInv
<1>3. Shape(tree, B) /\ InOrder(tree)
  BY <1>2 DEF Sound, InOrder
<1>4. ~(op = "insert" /\ cur = key)
  BY <1>2 DEF Sound, Placing
<1>5. ASSUME op = "repair", Parent(cur) # NULL, Red(tree, Parent(cur)), Grand(cur) = NULL PROVE FALSE
  <2>1. cur \in InTree(tree) /\ Calm(tree, cur)
    BY <1>2, <1>5 DEF Sound, BalanceInv, Coloured
  <2> DEFINE p == tree.parent[cur]
  <2>2. Red(tree, p) /\ tree.parent[p] = NULL
    BY <1>5 DEF Parent, Grand
  <2>3. tree.parent[p] # NULL
    <3>1. Red(tree, p) /\ tree.parent[cur] = p
      BY <2>2
    <3> HIDE DEF p
    <3> QED BY <1>3, <2>1, <3>1, RepairAbove
  <2> QED BY <2>2, <2>3
<1>6. ASSUME op = "sibling"
      PROVE  /\ Sibling # NULL
             /\ ~AllBlack /\ ~NearOnly => Outer # NULL
  <2>1. up \in Key /\ up # NULL /\ Under(tree, cur, up)
    BY <1>1, <1>2, <1>6, Nodes DEF Sound
  <2>2. up \in InTree(tree) /\ FixSide \in Side
    BY <1>3, <2>1, UnderFacts DEF FixSide
  <2>3. Short(tree, up, FixSide) /\ ~Red(tree, Sibling)
    BY <1>6, <2>1 DEF BalanceInv, Coloured, Sibling, FixSide
  <2>4. Sibling # NULL
    BY <1>3, <2>2, <2>3, ShortSibling DEF Sibling
  <2>5. ~AllBlack /\ ~NearOnly => Red(tree, Outer)
    BY <2>3 DEF AllBlack, NearOnly
  <2> QED BY <2>4, <2>5 DEF Red
<1> QED BY <1>4, <1>5, <1>6 DEF NoAbort, Aborts

\* One round of Height at node n, for the heights h of its kids.
Round(n, l, r) ==
  IF l # r \/ l < 0 \/ r < 0 THEN -1 ELSE IF tree.black[n] THEN r + 1 ELSE r

\* What the recursive function of Height computes.
LEMMA HeightIs ==
  ASSUME NEW B, Shape(tree, B), NEW p, NEW d, NEW H, Weighs(tree, H, p, d)
  PROVE  Height(p, d) = H[tree.root] /\ H[tree.root] \in Nat
<1> DEFINE Solves(h) ==
             h = [n \in Node |->
                   IF n = NULL THEN 0
                   ELSE LET l == h[tree.kid[n][0]] + (IF n = p /\ d = 0 THEN 1 ELSE 0)
                            r == h[tree.kid[n][1]] + (IF n = p /\ d = 1 THEN 1 ELSE 0)
                        IN IF l # r \/ l < 0 \/ r < 0 THEN -1
                           ELSE IF tree.black[n] THEN r + 1 ELSE r]
           C == CHOOSE h : Solves(h)
           At(h, n) == IF n = NULL THEN 0
                       ELSE Round(n, h[tree.kid[n][0]] + Owed(n, 0, p, d),
                                  h[tree.kid[n][1]] + Owed(n, 1, p, d))
<1>1. /\ tree \in Trees /\ Pointers(tree) /\ Covers(tree, B) /\ Layered(tree, B)
      /\ tree.root \in Node
  BY TreeFields DEF Shape
<1>2. /\ H \in [Node -> Nat] /\ H[NULL] = 0
      /\ \A n \in InTree(tree), e \in Side :
           H[n] = H[tree.kid[n][e]] + Owed(n, e, p, d) + Ones(tree, n)
  BY DEF Weighs
<1>3. Height(p, d) = C[tree.root]
  BY Zenon DEF Height
<1>4. ASSUME NEW h, h = [n \in Node |-> At(h, n)]
      PROVE  Solves(h)
  <2>1. \A n \in Node :
          At(h, n) = IF n = NULL THEN 0
                     ELSE LET l == h[tree.kid[n][0]] + (IF n = p /\ d = 0 THEN 1 ELSE 0)
                              r == h[tree.kid[n][1]] + (IF n = p /\ d = 1 THEN 1 ELSE 0)
                          IN IF l # r \/ l < 0 \/ r < 0 THEN -1
                             ELSE IF tree.black[n] THEN r + 1 ELSE r
    BY DEF Round, Owed
  <2> HIDE DEF At
  <2> QED BY <1>4, <2>1
<1>5. ASSUME NEW h, Solves(h)
      PROVE  \A n \in Node : h[n] = At(h, n)
  <2>1. \A n \in Node :
          h[n] = IF n = NULL THEN 0
                 ELSE LET l == h[tree.kid[n][0]] + (IF n = p /\ d = 0 THEN 1 ELSE 0)
                          r == h[tree.kid[n][1]] + (IF n = p /\ d = 1 THEN 1 ELSE 0)
                      IN IF l # r \/ l < 0 \/ r < 0 THEN -1
                         ELSE IF tree.black[n] THEN r + 1 ELSE r
    BY <1>5
  <2> QED BY <2>1 DEF Round, Owed
<1> HIDE DEF Solves
<1>6. \A n \in Key, e \in Side :
        /\ tree.kid[n][e] \in Node
        /\ tree.kid[n][e] # NULL => tree.kid[n][e] \in InTree(tree) /\ n \in InTree(tree)
  BY <1>1, TreeFields, KidFacts
<1>7. \A n \in InTree(tree) : n \in Key /\ n \in Node /\ n # NULL
  BY Nodes DEF InTree
<1>8. \A n \in Node : H[n] \in Nat
  BY <1>2
\* On a node of the tree a round gives what H says, if it finds that on the kids.
<1>9. ASSUME NEW n \in InTree(tree), NEW a, NEW b, a = H[tree.kid[n][0]], b = H[tree.kid[n][1]]
      PROVE  Round(n, a + Owed(n, 0, p, d), b + Owed(n, 1, p, d)) = H[n]
  <2>1. /\ H[n] = a + Owed(n, 0, p, d) + Ones(tree, n)
        /\ H[n] = b + Owed(n, 1, p, d) + Ones(tree, n)
    BY <1>2, <1>9, BothSides
  <2>2. a \in Nat /\ b \in Nat /\ H[n] \in Nat
    BY <1>6, <1>7, <1>8, <1>9, BothSides
  <2>3. Owed(n, 0, p, d) \in {0, 1} /\ Owed(n, 1, p, d) \in {0, 1}
    BY DEF Owed
  <2>4. Ones(tree, n) = IF tree.black[n] THEN 1 ELSE 0
    BY DEF Ones
  <2> QED BY <2>1, <2>2, <2>3, <2>4 DEF Round
<1> DEFINE W == [n \in Node |->
                  IF n \in InTree(tree) THEN H[n]
                  ELSE IF n = NULL THEN 0
                       ELSE Round(n, Owed(n, 0, p, d), Owed(n, 1, p, d))]
<1>10. Solves(W)
  <2>1. W[NULL] = 0 /\ \A n \in InTree(tree) : W[n] = H[n]
    BY <1>7, Nodes
  <2>2. ASSUME NEW n \in Node PROVE W[n] = At(W, n)
    <3>1. CASE n = NULL
      BY <2>1, <3>1
    <3>2. CASE n \in InTree(tree)
      <4>1. \A e \in Side : W[tree.kid[n][e]] = H[tree.kid[n][e]]
        BY <1>2, <1>6, <1>7, <2>1, <3>2
      <4> HIDE DEF W
      <4>2. W[tree.kid[n][0]] = H[tree.kid[n][0]] /\ W[tree.kid[n][1]] = H[tree.kid[n][1]]
        BY <4>1, BothSides
      <4> QED BY <1>7, <1>9, <2>1, <3>2, <4>2
    <3>3. CASE n # NULL /\ n \notin InTree(tree)
      <4>1. n \in Key
        BY <3>3, Nodes
      <4>2. W[n] = Round(n, Owed(n, 0, p, d), Owed(n, 1, p, d))
        BY <3>3
      <4> HIDE DEF W
      <4>3. W[tree.kid[n][0]] = 0 /\ W[tree.kid[n][1]] = 0
        BY <1>6, <2>1, <3>3, <4>1, BothSides
      <4>4. 0 + Owed(n, 0, p, d) = Owed(n, 0, p, d) /\ 0 + Owed(n, 1, p, d) = Owed(n, 1, p, d)
        BY DEF Owed
      <4> QED BY <3>3, <4>2, <4>3, <4>4
    <3> QED BY <3>1, <3>2, <3>3
  <2>3. W = [n \in Node |-> W[n]]
    OBVIOUS
  <2> HIDE DEF W, At
  <2>4. W = [n \in Node |-> At(W, n)]
    BY <2>2, <2>3
  <2> QED BY <1>4, <2>4
<1> HIDE DEF W
<1>11. Solves(C)
  BY <1>10
<1> HIDE DEF C
<1>12. \A n \in Node : C[n] = At(C, n)
  BY <1>5, <1>11
<1> DEFINE S == {y \in Node : y = NULL \/ y \in InTree(tree) => C[y] = H[y]}
<1>13. NULL \in S
  BY <1>2, <1>12, Nodes
<1>14. ASSUME NEW y \in Key, tree.kid[y][0] \in S, tree.kid[y][1] \in S PROVE y \in S
  <2>1. ASSUME y \in InTree(tree) PROVE C[y] = H[y]
    <3>1. C[tree.kid[y][0]] = H[tree.kid[y][0]] /\ C[tree.kid[y][1]] = H[tree.kid[y][1]]
      BY <1>6, <1>14, BothSides
    <3>2. C[y] = Round(y, C[tree.kid[y][0]] + Owed(y, 0, p, d), C[tree.kid[y][1]] + Owed(y, 1, p, d))
      BY <1>7, <1>12, <2>1
    <3> QED BY <1>9, <2>1, <3>1, <3>2
  <2> QED BY <2>1, Nodes
<1>15. \A n \in Node : n \in S
  <2> HIDE DEF S
  <2> QED BY <1>1, <1>13, <1>14, NodeInduction
<1>16. tree.root = NULL \/ tree.root \in InTree(tree)
  BY <1>1, Nodes DEF InTree
<1> QED BY <1>1, <1>3, <1>8, <1>15, <1>16

LEMMA BalanceSafe == OrderInv /\ BalanceInv => Balanced
<1> SUFFICES ASSUME OrderInv, BalanceInv PROVE Balanced
  OBVIOUS
<1>1. PICK B : Shape(tree, B)
  BY DEF OrderInv, Sound
<1>2. Linked = InTree(tree)
  BY DEF Linked, InTree
<1>3. BlackHeight >= 0
  <2>1. CASE Fixing
    <3>1. PICK H : Weighs(tree, H, up, FixSide)
      BY <2>1 DEF Fixing, BalanceInv, Coloured, Short, FixSide
    <3>2. Height(up, FixSide) \in Nat
      BY <1>1, <3>1, HeightIs
    <3>3. BlackHeight = Height(up, FixSide)
      BY <2>1, Zenon DEF BlackHeight
    <3> QED BY <3>2, <3>3
  <2>2. CASE ~Fixing
    <3>1. PICK H : Weighs(tree, H, NULL, 0)
      BY <2>2 DEF Fixing, BalanceInv, Coloured, Even
    <3>2. Height(NULL, 0) \in Nat
      BY <1>1, <3>1, HeightIs
    <3>3. BlackHeight = Height(NULL, 0)
      BY <2>2, Zenon DEF BlackHeight
    <3> QED BY <3>2, <3>3
  <2> QED BY <2>1, <2>2
<1>4. Calm(tree, IF op = "repair" THEN cur ELSE NULL)
  BY DEF BalanceInv, Coloured
<1>5. ASSUME NEW n \in Linked, Red(tree, n), n = tree.root \/ Red(tree, tree.parent[n])
      PROVE  op = "repair" /\ n = cur
  <2>1. n = IF op = "repair" THEN cur ELSE NULL
    BY <1>2, <1>4, <1>5 DEF Calm
  <2>2. n # NULL
    BY <1>5 DEF Red
  <2> QED BY <2>1, <2>2
<1> QED BY <1>3, <1>5 DEF Balanced

\* Between any two rounds the colours and black heights are those the loop in
\* progress expects, whatever the keys.
THEOREM BalanceInvariance == Spec => [](OrderInv /\ BalanceInv)
<1>1. Init => OrderInv /\ BalanceInv
  BY OrderInit, BalanceInit
<1>2. (OrderInv /\ BalanceInv) /\ [Next]_vars => (OrderInv /\ BalanceInv)'
  BY OrderStep, BalanceStep
<1> QED BY <1>1, <1>2, PTL DEF Spec

\* Whatever the keys, no operation reaches an abort() or follows NULL.
THEOREM NeverAborts == Spec => []NoAbort
<1>1. OrderInv /\ BalanceInv => NoAbort
  BY BalanceNoAbort
<1> QED BY <1>1, BalanceInvariance, PTL

\* Whatever the keys, an operation ends with equal black heights, no red node
\* under a red one and a black root, and on the way exactly one thing is wrong.
THEOREM StaysBalanced == Spec => []Balanced
<1>1. OrderInv /\ BalanceInv => Balanced
  BY BalanceSafe
<1> QED BY <1>1, BalanceInvariance, PTL

\* Every variable has its type, and the locals of a loop are there while it runs.
THEOREM TypesHold == Spec => []TypeOK
<1>1. OrderInv => TypeOK
  BY DEF OrderInv
<1> QED BY <1>1, OrderInvariance, PTL
=============================================================================
