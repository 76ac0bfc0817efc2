--------------------------- MODULE AbceDictProofs ---------------------------
(***************************************************************************)
(* The dictionary of AbceDict finds the neighbour of any key, its loops    *)
(* miss no key and repeat none, and it implements AbceMap, for every set   *)
(* of keys and values.                                                     *)
(*                                                                         *)
(* All of it rests on OrderInv of AbceRbTreeProofs: a step of a dictionary *)
(* is a step of its tree.                                                  *)
(***************************************************************************)
EXTENDS AbceDict, AbceRbTreeProofs

LEMMA DictStepsTree == [DictNext]_dictvars => [Next]_vars
<1> SUFFICES ASSUME [DictNext]_dictvars PROVE [Next]_vars
  OBVIOUS
<1>1. CASE UNCHANGED dictvars
  BY <1>1 DEF dictvars
<1>2. CASE \E k \in Key : DictGet(k) \/ DictDel(k) \/ \E v \in Value : DictSet(k, v)
  BY <1>2 DEF DictGet, DictDel, DictSet, Next
<1>3. CASE Replace \/ Refused \/ Add \/ Count \/ GetDone \/ DelMissing \/ Remove \/ Silent
  BY <1>3 DEF Replace, Refused, Add, Count, GetDone, DelMissing, Remove, Silent, Next, Step
<1>4. CASE (\E d \in Loops : LoopBegin(d)) \/ LoopNext \/ LoopEnd
  BY <1>4 DEF LoopBegin, LoopNext, LoopEnd
<1> QED BY <1>1, <1>2, <1>3, <1>4 DEF DictNext

LEMMA TreeInvariance == DictSpec => []OrderInv
<1>1. DictInit => OrderInv
  BY OrderInit DEF DictInit
<1>2. OrderInv /\ [DictNext]_dictvars => OrderInv'
  BY OrderStep, DictStepsTree
<1> QED BY <1>1, <1>2, PTL DEF DictSpec

-----------------------------------------------------------------------------
(* Which steps change the set of nodes.                                    *)

LEMMA LinkedInTree == Linked = InTree(tree)
  BY DEF Linked, InTree

\* What OrderInv says where the loop is.
LEMMA LoopFacts ==
  ASSUME OrderInv
  PROVE  /\ TypeOK /\ tree \in Trees /\ InOrder(tree)
         /\ op # "ready" => key \in Key
         /\ op \in {"get", "lookup", "find"} =>
              /\ cur = key => key \in Linked
              /\ cur = NULL => key \notin Linked
         /\ op = "insert" => key \notin Linked /\ cur \in Linked
         /\ op = "repair" => cur \in Linked
         /\ op = "pred" => key \in Linked
         /\ op \in {"fix", "sibling"} => Under(tree, cur, up)
<1>1. PICK B : Sound(tree, op, key, cur, up, B)
  BY DEF OrderInv
<1>2. TypeOK /\ InOrder(tree)
  BY <1>1 DEF OrderInv, Sound, InOrder
<1>3. op # "ready" => key \in Key
  BY <1>2, Nodes DEF TypeOK
<1>4. ASSUME op \in {"get", "lookup", "find"}
      PROVE  (cur = key => key \in Linked) /\ (cur = NULL => key \notin Linked)
  <2>1. Searching(tree, key, cur, B) /\ key # NULL
    BY <1>1, <1>3, <1>4, Nodes DEF Sound
  <2> QED BY <2>1, LinkedInTree DEF Searching
<1>5. ASSUME op = "insert" PROVE key \notin Linked /\ cur \in Linked
  BY <1>1, <1>5, LinkedInTree DEF Sound, Placing
<1>6. op = "repair" => cur \in Linked
  BY <1>1, LinkedInTree DEF Sound
<1>7. op = "pred" => key \in Linked
  BY <1>1, LinkedInTree DEF Sound, Preceding
<1>8. op \in {"fix", "sibling"} => Under(tree, cur, up)
  BY <1>1 DEF Sound
<1> QED BY <1>2, <1>3, <1>4, <1>5, <1>6, <1>7, <1>8 DEF TypeOK

LEMMA PlaceLinks ==
  ASSUME OrderInv, PlaceRoot \/ PlaceLeaf
  PROVE  key \in Key /\ key \notin Linked /\ Linked' = Linked \cup {key}
<1>1. PICK B : Shape(tree, B) /\ Sorted(tree, B)
  BY DEF OrderInv, Sound
<1>2. tree \in Trees
  BY <1>1 DEF Shape
<1>3. CASE PlaceRoot
  <2> DEFINE s == Fresh(tree, key)
             t == [s EXCEPT !.root = key]
  <2>1. op = "lookup" /\ cur = NULL /\ tree.root = NULL /\ tree' = t
    BY <1>3 DEF PlaceRoot, HasRoot
  <2>2. key \in Key /\ key \notin Linked
    BY <2>1, LoopFacts
  <2>3. Shape(s, B) /\ s.root = NULL /\ s \in Trees
    BY <1>1, <1>2, <2>1, <2>2, FreshShape, FreshFields, LinkedInTree
  <2> HIDE DEF s
  <2>4. t \in Trees /\ t.root = key /\ t.kid = s.kid /\ t.parent = s.parent
    BY <2>2, <2>3, Nodes DEF Trees
  <2> HIDE DEF t
  <2>5. InTree(t) = {key}
    BY <2>2, <2>3, <2>4, RootShape
  <2>6. Linked = {}
    BY <1>1, <2>1, RootFacts, LinkedInTree
  <2>7. Linked' = InTree(t)
    BY <2>1 DEF Linked, InTree
  <2> QED BY <2>2, <2>5, <2>6, <2>7
<1>4. CASE PlaceLeaf
  <2> DEFINE d == Toward(key, cur)
             t == Adopt(tree, cur, d, key)
  <2>1. op = "insert" /\ tree.kid[cur][d] = NULL /\ tree' = t
    BY <1>4 DEF PlaceLeaf
  <2>2. key \in Key /\ key \notin InTree(tree) /\ cur \in InTree(tree) /\ cur \in Key
    BY <2>1, LoopFacts, LinkedInTree DEF InTree
  <2>3. d \in Side
    BY <2>2, TowardFacts
  <2> HIDE DEF d
  <2>4. InTree(t) = InTree(tree) \cup {key}
    BY <1>1, <2>1, <2>2, <2>3, AttachShape
  <2> HIDE DEF t
  <2>5. Linked' = InTree(t)
    BY <2>1 DEF Linked, InTree
  <2> QED BY <2>2, <2>4, <2>5, LinkedInTree
<1> QED BY <1>3, <1>4

LEMMA RemoveLinks ==
  ASSUME OrderInv, DeleteHere \/ PredTake
  PROVE  key \in Linked /\ Linked' = Linked \ {key}
<1>1. PICK B : Sound(tree, op, key, cur, up, B)
  BY DEF OrderInv
<1>2. Shape(tree, B) /\ Sorted(tree, B)
  BY <1>1 DEF Sound
<1>3. ASSUME NEW STATE t, NEW STATE C, Shape(t, C), InTree(t) = InTree(tree), key \in InTree(t),
             t.kid[key][0] = NULL \/ t.kid[key][1] = NULL, DeleteOneChild(t)
      PROVE  key \in Linked /\ Linked' = Linked \ {key}
  <2> DEFINE c == OnlyKid(t, key)
             v == Unlink(t, key)
  <2>1. Shape(v, UnlinkedBelow(C, key)) /\ InTree(v) = InTree(t) \ {key}
    BY <1>3, UnlinkShape
  <2>2. c \in Node
    BY <1>3, OnlyKidFacts
  <2>3. tree' = v \/ tree' = Paint(v, c, TRUE)
    BY <1>3 DEF DeleteOneChild, Done
  <2> HIDE DEF c, v
  <2>4. InTree(Paint(v, c, TRUE)) = InTree(v)
    BY <2>1, <2>2, PaintShape
  <2>5. Linked' = InTree(v)
    <3>1. Linked' = InTree(tree')
      BY DEF Linked, InTree
    <3> QED BY <2>3, <2>4, <3>1
  <2> QED BY <1>3, <2>1, <2>5, LinkedInTree
<1>4. CASE DeleteHere
  <2>1. op = "find" /\ cur = key /\ ~BothKids(key) /\ DeleteOneChild(tree)
    BY <1>4 DEF DeleteHere, Found
  <2>2. key \in InTree(tree) /\ (tree.kid[key][0] = NULL \/ tree.kid[key][1] = NULL)
    BY <2>1, LoopFacts, LinkedInTree DEF BothKids
  <2> QED BY <1>2, <1>3, <2>1, <2>2
<1>5. CASE PredTake
  <2> DEFINE u == Exchange(tree, key, cur)
             C == TradedBelow(B, key, cur)
  <2>1. op = "pred" /\ tree.kid[cur][1] = NULL /\ DeleteOneChild(u)
    BY <1>5 DEF PredTake
  <2>2. key \in Key /\ cur \in Key /\ Preceding(tree, key, cur, B)
    BY <1>1, <2>1, LoopFacts DEF TypeOK, Sound
  <2>3. Shape(u, C) /\ InTree(u) = InTree(tree) /\ key \in InTree(u) /\ u.kid[key][1] = NULL
    BY <1>2, <2>1, <2>2, TakePlace
  <2> HIDE DEF u, C
  <2> QED BY <1>3, <2>1, <2>3
<1> QED BY <1>4, <1>5


\* Every other step leaves the nodes what they are.
Rearrange ==
  \/ \E k \in Key : Set(k) \/ Get(k) \/ Del(k)
  \/ Descend \/ Hit \/ Present \/ Absent \/ NoMem \/ SeekPlace
  \/ RepairRoot \/ RepairNothing \/ RepairUp \/ RepairRotate \/ SeekPred \/ PredRight
  \/ FixRoot \/ FixSibling \/ FixUp \/ FixSwapColours \/ FixRotate

LEMMA RearrangeLinks ==
  ASSUME OrderInv, Rearrange
  PROVE  Linked' = Linked
<1>1. PICK B : Shape(tree, B) /\ Sorted(tree, B)
  BY DEF OrderInv, Sound
<1>2. TypeOK /\ tree \in Trees /\ InOrder(tree)
  BY LoopFacts
<1>3. ASSUME NEW STATE t, InTree(t) = InTree(tree), tree' = t PROVE Linked' = Linked
  BY <1>3, LinkedInTree DEF Linked, InTree
<1>4. FALSE \in BOOLEAN /\ TRUE \in BOOLEAN
  OBVIOUS
<1>5. CASE tree' = tree
  BY <1>5 DEF Linked
<1>6. CASE SeekPlace
  <2>1. op = "lookup" /\ cur = NULL /\ tree' = Fresh(tree, key)
    BY <1>6 DEF SeekPlace
  <2>2. key \in Key /\ key \notin InTree(tree)
    BY <2>1, LoopFacts, LinkedInTree
  <2>3. InTree(Fresh(tree, key)) = InTree(tree)
    BY <1>1, <2>2, FreshShape
  <2> QED BY <1>3, <2>1, <2>3
<1>7. CASE RepairRoot
  <2>1. tree' = Paint(tree, cur, TRUE) /\ cur \in Node
    BY <1>2, <1>7 DEF RepairRoot, Done, TypeOK
  <2>2. InTree(Paint(tree, cur, TRUE)) = InTree(tree)
    BY <1>1, <2>1, PaintShape
  <2> QED BY <1>3, <2>1, <2>2
<1>8. CASE RepairUp
  <2> DEFINE p == Parent(cur)
             u == Uncle(cur)
             g == Grand(cur)
             s == Paint(tree, p, TRUE)
             v == Paint(s, u, TRUE)
             w == Paint(v, g, FALSE)
  <2>1. op = "repair" /\ p # NULL /\ Red(tree, u) /\ tree' = w
    BY <1>8 DEF RepairUp, Recoloured
  <2>2. u # NULL /\ g # NULL
    BY <2>1 DEF Red, Uncle
  <2>3. p \in InTree(tree) /\ g \in InTree(tree)
    BY <1>2, <2>1, <2>2, LoopFacts, LinkedInTree, InOrderFacts DEF Parent, Grand
  <2>4. p \in Node /\ g \in Node /\ g \in Key
    BY <1>2, <2>3, Nodes, InOrderFacts
  <2>5. u \in Node
    <3> DEFINE d == SideOf(tree, g, p)
    <3>1. d \in Side
      BY BothSides DEF SideOf
    <3>2. u = tree.kid[g][1 - d]
      BY <2>2, Zenon DEF Uncle
    <3> HIDE DEF d, g, u
    <3> QED BY <1>2, <2>4, <3>1, <3>2, InOrderFacts, Sides
  <2> HIDE DEF p, u, g, s, v, w
  <2>6. InOrder(s) /\ InTree(s) = InTree(tree)
    BY <1>2, <2>4, PaintOrder DEF s
  <2>7. InOrder(v) /\ InTree(v) = InTree(tree)
    BY <2>5, <2>6, PaintOrder DEF v
  <2>8. InTree(w) = InTree(tree)
    BY <2>4, <2>7, PaintOrder DEF w
  <2> QED BY <1>3, <2>1, <2>8
<1>9. CASE RepairRotate
  <2> DEFINE p == tree.parent[cur]
             g == tree.parent[p]
             d == SideOf(tree, g, p)
             v == IF tree.kid[p][1 - d] = cur THEN Rotate(tree, p, d) ELSE tree
             top == IF tree.kid[p][1 - d] = cur THEN cur ELSE p
             w == Rotate(v, g, 1 - d)
  <2>1. op = "repair" /\ p # NULL /\ g # NULL /\ tree' = Paint(Paint(w, top, TRUE), g, FALSE)
    BY <1>9 DEF RepairRotate, Parent, Grand, Done
  <2>2. cur \in InTree(tree) /\ cur \in Key
    BY <1>2, <2>1, LoopFacts, LinkedInTree DEF InTree
  <2>3. p \in Key /\ g \in Key /\ InOrder(w) /\ InTree(w) = InTree(tree)
    BY <1>2, <2>1, <2>2, RepairRotateOrder
  <2>4. top \in Node /\ g \in Node
    BY <2>2, <2>3, Nodes
  <2> HIDE DEF w, top, g
  <2>5. InOrder(Paint(w, top, TRUE)) /\ InTree(Paint(w, top, TRUE)) = InTree(w)
    BY <2>3, <2>4, PaintOrder
  <2>6. InTree(Paint(Paint(w, top, TRUE), g, FALSE)) = InTree(w)
    BY <2>4, <2>5, PaintOrder
  <2> QED BY <1>3, <2>1, <2>3, <2>6
<1>10. CASE FixSibling
  <2> DEFINE d == SideOf(tree, up, cur)
             s == tree.kid[up][1 - d]
             u == Rotate(Paint(Paint(tree, up, FALSE), s, TRUE), up, d)
  <2>1. op = "fix" /\ up # NULL /\ tree' = IF Red(tree, s) THEN u ELSE tree
    BY <1>10 DEF FixSibling, Sibling, FixSide
  <2>2. Under(tree, cur, up)
    BY <2>1, LoopFacts
  <2>3. s # NULL => InTree(u) = InTree(tree)
    BY <1>2, <2>1, <2>2, FixSiblingOrder
  <2>4. Red(tree, s) => s # NULL
    BY DEF Red
  <2> HIDE DEF u, s
  <2> QED BY <1>3, <1>5, <2>1, <2>3, <2>4
<1>11. ASSUME op = "sibling"
       PROVE  Under(tree, cur, up) /\ up # NULL /\ up \in Node /\ Sibling \in Node
  <2>1. Under(tree, cur, up) /\ up \in Key
    BY <1>2, <1>11, LoopFacts DEF TypeOK
  <2>2. up # NULL /\ up \in Node
    BY <2>1, Nodes
  <2>3. SideOf(tree, up, cur) \in Side
    BY <1>2, <2>1, <2>2, UnderFacts
  <2> QED BY <1>2, <2>1, <2>2, <2>3, InOrderFacts, Sides DEF Sibling, FixSide
<1>12. CASE FixUp
  <2>1. op = "sibling" /\ tree' = Paint(tree, Sibling, FALSE)
    BY <1>12 DEF FixUp
  <2>2. InTree(Paint(tree, Sibling, FALSE)) = InTree(tree)
    BY <1>2, <1>11, <2>1, PaintOrder
  <2> QED BY <1>3, <2>1, <2>2
<1>13. CASE FixSwapColours
  <2> DEFINE s == Paint(tree, Sibling, FALSE)
  <2>1. op = "sibling" /\ tree' = Paint(s, up, TRUE)
    BY <1>13 DEF FixSwapColours, Done
  <2>2. InOrder(s) /\ InTree(s) = InTree(tree)
    BY <1>2, <1>11, <2>1, PaintOrder
  <2> HIDE DEF s
  <2>3. InTree(Paint(s, up, TRUE)) = InTree(s)
    BY <1>11, <2>1, <2>2, PaintOrder
  <2> QED BY <1>3, <2>1, <2>2, <2>3
<1>14. CASE FixRotate
  <2> DEFINE d == SideOf(tree, up, cur)
             q == tree.kid[up][1 - d]
             i == tree.kid[q][d]
             v == IF NearOnly THEN Rotate(Paint(Paint(tree, q, FALSE), i, TRUE), q, 1 - d) ELSE tree
             s == v.kid[up][1 - d]
             far == v.kid[s][1 - d]
             w == Rotate(Paint(Paint(Paint(v, s, tree.black[up]), up, TRUE), far, TRUE), up, d)
  <2>1. op = "sibling" /\ q # NULL /\ Done(w)
    BY <1>14, Zenon DEF FixRotate, Straightened, Sibling, Inner, FixSide
  <2>2. NearOnly => i # NULL
    BY DEF NearOnly, Inner, Sibling, FixSide, Red
  <2>3. NearOnly \in BOOLEAN /\ tree.black[up] \in BOOLEAN /\ up # NULL
    BY <1>2, <1>11, <2>1, Nodes, TreeFields DEF NearOnly
  <2>4. Under(tree, cur, up) /\ q # NULL
    BY <1>11, <2>1
  <2>5. KeepsOrder(w, tree)
    BY <1>2, <2>2, <2>3, <2>4, FixRotateOrder, ZenonT(40)
  <2>6. tree' = w
    BY <2>1 DEF Done
  <2> HIDE DEF w
  <2> QED BY <1>3, <2>5, <2>6 DEF KeepsOrder
<1>15. CASE \E k \in Key : Set(k) \/ Get(k) \/ Del(k)
  BY <1>5, <1>15 DEF Set, Get, Del, Begin
<1>16. CASE Descend \/ Hit \/ Present \/ Absent \/ NoMem \/ RepairNothing \/ SeekPred \/ PredRight
            \/ FixRoot
  BY <1>5, <1>16 DEF Descend, Hit, Present, Absent, NoMem, RepairNothing, SeekPred, PredRight,
                     FixRoot, Done
<1> QED BY <1>6, <1>7, <1>8, <1>9, <1>10, <1>12, <1>13, <1>14, <1>15, <1>16 DEF Rearrange


-----------------------------------------------------------------------------
(* Walks down the tree.                                                    *)

\* T says to which kid a walk goes on from each node, NULL where it ends.
Guides(t, T) ==
  /\ T \in [Key -> Node]
  /\ \A x \in Key : T[x] # NULL => \E d \in Side : T[x] = t.kid[x][d]

\* The nodes from x down that T leads to.
Ends(B, T, x) ==
  {y \in B[x] : /\ T[y] = NULL
                /\ \A m \in B[x] : y \in B[m] /\ y # m => T[m] # NULL /\ y \in B[T[m]]}

\* e gives the end of the walk from each node.
Walks(T, e) == e = [x \in Key |-> IF T[x] = NULL THEN x ELSE e[T[x]]]

\* Two nodes are not below each other.
LEMMA Apart ==
  ASSUME NEW t, NEW B, Shape(t, B), NEW a \in Key, NEW b \in Key, a \in B[b], b \in B[a]
  PROVE  a = b
<1>1. t \in Trees /\ Covers(t, B) /\ Layered(t, B)
  BY DEF Shape
<1> SUFFICES ASSUME a # b PROVE FALSE
  OBVIOUS
<1>2. PICK d \in Side : a \in B[t.kid[b][d]]
  BY <1>1, CoverKids
<1>3. t.kid[b][d] \in Node
  BY <1>1, TreeFields
<1>4. B[a] \subseteq B[t.kid[b][d]]
  BY <1>2, <1>3, Transitive
<1> QED BY <1>1, <1>4 DEF Layered

\* What is below one kid is not below the other.
LEMMA OneSide ==
  ASSUME NEW t, NEW B, Shape(t, B), NEW n \in Key, NEW d \in Side, NEW e \in Side,
         NEW k \in B[t.kid[n][d]]
  PROVE  /\ k \in Key /\ k # n /\ k \in B[n] /\ B[k] \subseteq B[t.kid[n][d]] /\ n \notin B[k]
         /\ k \in B[t.kid[n][e]] => e = d
<1>1. t \in Trees /\ Covers(t, B) /\ Layered(t, B)
  BY DEF Shape
<1>2. t.kid[n][d] \in Node
  BY <1>1, TreeFields
<1>3. k \in Key /\ B[k] \subseteq B[t.kid[n][d]]
  BY <1>2, Transitive
<1>4. k \in B[n] /\ n \notin B[t.kid[n][d]]
  BY <1>1, CoverKids DEF Layered
<1>5. k \notin B[t.kid[n][1 - d]] /\ (e # d => e = 1 - d)
  BY <1>1, Sides DEF Layered
<1> QED BY <1>3, <1>4, <1>5

LEMMA EndsStep ==
  ASSUME NEW t, NEW B, Shape(t, B), NEW T, Guides(t, T), NEW x \in Key
  PROVE  /\ T[x] = NULL => Ends(B, T, x) = {x}
         /\ T[x] # NULL => T[x] \in Key /\ Ends(B, T, x) = Ends(B, T, T[x])
<1>1. t \in Trees /\ Covers(t, B) /\ Layered(t, B)
  BY DEF Shape
<1>2. /\ x \in B[x] /\ \A d \in Side : B[t.kid[x][d]] \subseteq B[x]
      /\ \A k \in B[x] : k \in Key /\ (k = x \/ \E d \in Side : k \in B[t.kid[x][d]])
  BY <1>1, CoverKids, Nodes DEF Covers
<1>3. ASSUME T[x] = NULL PROVE Ends(B, T, x) = {x}
  <2>1. x \in Ends(B, T, x)
    BY <1>2, <1>3, Apart DEF Ends
  <2>2. ASSUME NEW y \in Ends(B, T, x) PROVE y = x
    BY <1>2, <1>3 DEF Ends
  <2> QED BY <2>1, <2>2
<1>4. ASSUME T[x] # NULL PROVE T[x] \in Key /\ Ends(B, T, x) = Ends(B, T, T[x])
  <2>1. PICK d \in Side : T[x] = t.kid[x][d]
    BY <1>4 DEF Guides
  <2> DEFINE c == T[x]
  <2>2. c \in Key
    BY <1>4, Nodes DEF Guides
  <2>3. ASSUME NEW y \in Ends(B, T, x) PROVE y \in Ends(B, T, c)
    <3>1. /\ y \in B[x] /\ T[y] = NULL
          /\ \A m \in B[x] : y \in B[m] /\ y # m => T[m] # NULL /\ y \in B[T[m]]
      BY DEF Ends
    <3>2. y \in B[c]
      BY <1>2, <1>4, <3>1
    <3>3. B[c] \subseteq B[x]
      BY <1>2, <2>1
    <3> QED BY <3>1, <3>2, <3>3 DEF Ends
  <2>4. ASSUME NEW y \in Ends(B, T, c) PROVE y \in Ends(B, T, x)
    <3>1. /\ y \in B[c] /\ T[y] = NULL
          /\ \A m \in B[c] : y \in B[m] /\ y # m => T[m] # NULL /\ y \in B[T[m]]
      BY DEF Ends
    <3>2. y \in B[x]
      BY <1>2, <2>1, <3>1
    <3>3. ASSUME NEW m \in B[x], y \in B[m], y # m PROVE T[m] # NULL /\ y \in B[T[m]]
      <4>1. CASE m = x
        BY <1>4, <3>1, <4>1
      <4>2. CASE m # x
        <5>1. PICK e \in Side : m \in B[t.kid[x][e]]
          BY <1>2, <4>2
        <5>2. B[m] \subseteq B[t.kid[x][e]]
          BY <5>1, OneSide
        <5>3. e = d
          BY <2>1, <3>1, <3>3, <5>2, OneSide
        <5> QED BY <2>1, <3>1, <3>3, <5>1, <5>3
      <4> QED BY <4>1, <4>2
    <3> QED BY <3>1, <3>2, <3>3 DEF Ends
  <2> QED BY <2>2, <2>3, <2>4
<1> QED BY <1>3, <1>4

\* A recursive function that follows T exists, and finds the ends.
LEMMA WalksEnd ==
  ASSUME NEW t, NEW B, Shape(t, B), NEW T, Guides(t, T)
  PROVE  /\ \E e : Walks(T, e)
         /\ \A e : Walks(T, e) => \A n \in Key : e[n] \in Ends(B, T, n)
<1>1. t \in Trees /\ Covers(t, B) /\ Layered(t, B)
  BY DEF Shape
<1>2. \A x \in Key : /\ T[x] = NULL => Ends(B, T, x) = {x}
                     /\ T[x] # NULL => T[x] \in Key /\ Ends(B, T, x) = Ends(B, T, T[x])
  BY EndsStep
<1>3. \E e : Walks(T, e)
  <2> DEFINE P(x) == CHOOSE y : y \in Ends(B, T, x)
             e == [x \in Key |-> P(x)]
  <2>1. ASSUME NEW x \in Key PROVE P(x) = IF T[x] = NULL THEN x ELSE e[T[x]]
    <3>1. CASE T[x] = NULL
      <4>1. Ends(B, T, x) = {x}
        BY <1>2, <3>1
      <4>2. P(x) \in Ends(B, T, x)
        BY <4>1
      <4> QED BY <3>1, <4>1, <4>2
    <3>2. CASE T[x] # NULL
      <4>1. T[x] \in Key /\ Ends(B, T, x) = Ends(B, T, T[x])
        BY <1>2, <3>2
      <4>2. e[T[x]] = P(T[x])
        BY <4>1
      <4>3. P(x) = P(T[x])
        BY <4>1
      <4> QED BY <3>2, <4>2, <4>3
    <3> QED BY <3>1, <3>2
  <2>2. e = [x \in Key |-> IF T[x] = NULL THEN x ELSE e[T[x]]]
    <3> HIDE DEF P
    <3> QED BY <2>1
  <2> HIDE DEF e
  <2> QED BY <2>2 DEF Walks
<1>4. ASSUME NEW e, Walks(T, e), NEW n \in Key PROVE e[n] \in Ends(B, T, n)
  <2>1. \A x \in Key : e[x] = IF T[x] = NULL THEN x ELSE e[T[x]]
    BY <1>4 DEF Walks
  <2> DEFINE S == {x \in Node : x # NULL => e[x] \in Ends(B, T, x)}
  <2>2. NULL \in S
    BY Nodes
  <2>3. ASSUME NEW x \in Key, t.kid[x][0] \in S, t.kid[x][1] \in S PROVE x \in S
    <3>1. CASE T[x] = NULL
      <4>1. e[x] = x /\ Ends(B, T, x) = {x}
        BY <1>2, <2>1, <3>1
      <4> QED BY <4>1, Nodes
    <3>2. CASE T[x] # NULL
      <4>1. e[x] = e[T[x]] /\ Ends(B, T, x) = Ends(B, T, T[x])
        BY <1>2, <2>1, <3>2
      <4>2. T[x] \in S
        BY <2>3, <3>2 DEF Guides, Side
      <4> QED BY <3>2, <4>1, <4>2, Nodes
    <3> QED BY <3>1, <3>2
  <2>4. n \in S
    <3> HIDE DEF S
    <3> QED BY <1>1, <2>2, <2>3, NodeInduction, Nodes
  <2> QED BY <2>4, Nodes
<1> QED BY <1>3, <1>4


\* The nodes on side e of x, seen from x.
LEMMA SideFacts ==
  ASSUME NEW t, NEW B, Shape(t, B), Sorted(t, B), NEW x \in Key, NEW e \in Side,
         NEW m \in B[t.kid[x][e]]
  PROVE  m \in Key /\ m # x /\ Toward(m, x) = e /\ Toward(x, m) = 1 - e
<1>1. m \in Key /\ m # x
  BY OneSide
<1>2. Toward(m, x) = e
  BY DEF Sorted
<1> QED BY <1>1, <1>2, TowardFacts

\* From n on, always to side d: all other nodes below n are on the other side.
LEMMA LastIs ==
  ASSUME NEW B, Shape(tree, B), Sorted(tree, B), NEW n \in Key, NEW d \in Side
  PROVE  LET y == Last(n, d)
         IN y \in B[n] /\ \A m \in B[n] : m # y => Toward(m, y) = 1 - d
<1> DEFINE Solves(e) == e = [x \in Key |-> IF tree.kid[x][d] = NULL THEN x ELSE e[tree.kid[x][d]]]
           C == CHOOSE e : Solves(e)
           T == [x \in Key |-> tree.kid[x][d]]
           y == C[n]
<1>1. tree \in Trees /\ Covers(tree, B) /\ Layered(tree, B)
  BY DEF Shape
<1>2. Last(n, d) = C[n]
  BY Zenon DEF Last
<1>3. Guides(tree, T)
  BY <1>1, TreeFields DEF Guides
<1>4. \A e : Solves(e) <=> Walks(T, e)
  <2>1. ASSUME NEW e
        PROVE  [x \in Key |-> IF tree.kid[x][d] = NULL THEN x ELSE e[tree.kid[x][d]]]
                 = [x \in Key |-> IF T[x] = NULL THEN x ELSE e[T[x]]]
    OBVIOUS
  <2> QED BY <2>1 DEF Walks
<1> HIDE DEF Solves
<1>5. Solves(C)
  BY <1>3, <1>4, WalksEnd
<1>6. y \in Ends(B, T, n)
  BY <1>3, <1>4, <1>5, WalksEnd
<1>7. y \in B[n] /\ tree.kid[y][d] = NULL /\ y \in Key
      /\ \A m \in B[n] : y \in B[m] /\ y # m => y \in B[tree.kid[m][d]]
  <2>1. /\ y \in B[n] /\ T[y] = NULL
        /\ \A m \in B[n] : y \in B[m] /\ y # m => T[m] # NULL /\ y \in B[T[m]]
    BY <1>6 DEF Ends
  <2>2. \A m \in B[n] : m \in Key
    BY Transitive, Nodes
  <2> QED BY <2>1, <2>2
<1> HIDE DEF C, T, y
<1> DEFINE S == {x \in Node : y \in B[x] /\ x \in B[n] => \A m \in B[x] : m # y => Toward(m, y) = 1 - d}
<1>8. NULL \in S
  BY <1>1, Nodes DEF Covers
<1>9. ASSUME NEW x \in Key, tree.kid[x][0] \in S, tree.kid[x][1] \in S PROVE x \in S
  <2> SUFFICES ASSUME y \in B[x], x \in B[n], NEW m \in B[x], m # y PROVE Toward(m, y) = 1 - d
    BY Nodes
  <2>1. m \in Key /\ (m = x \/ \E e \in Side : m \in B[tree.kid[x][e]])
    BY <1>1, CoverKids, Transitive, Nodes
  <2>2. CASE x = y
    <3>1. PICK e \in Side : m \in B[tree.kid[y][e]]
      BY <2>1, <2>2
    <3>2. e = 1 - d
      <4>1. B[NULL] = {}
        BY <1>1 DEF Covers
      <4> QED BY <1>7, <3>1, <4>1, Sides
    <3> QED BY <1>7, <3>1, <3>2, SideFacts
  <2>3. CASE x # y
    <3>1. y \in B[tree.kid[x][d]]
      BY <1>7, <2>3
    <3>2. Toward(x, y) = 1 - d
      BY <3>1, SideFacts
    <3>3. ASSUME NEW e \in Side, m \in B[tree.kid[x][e]] PROVE Toward(m, y) = 1 - d
      <4>1. CASE e = d
        <5>1. tree.kid[x][d] \in B[x]
          <6>1. tree.kid[x][d] # NULL
            BY <1>1, <3>1 DEF Covers
          <6> QED BY <6>1, KidFacts
        <5>2. B[x] \subseteq B[n]
          BY Transitive, Nodes
        <5>3. tree.kid[x][d] \in S
          BY <1>9 DEF Side
        <5> QED BY <3>1, <3>3, <4>1, <5>1, <5>2, <5>3
      <4>2. CASE e = 1 - d
        <5>1. Toward(m, x) = 1 - d /\ m # x /\ 1 - d \in Side
          BY <3>3, <4>2, SideFacts
        <5> QED BY <1>7, <2>1, <2>3, <3>2, <5>1, TowardFacts
      <4> QED BY <4>1, <4>2, Sides
    <3> QED BY <2>1, <3>2, <3>3
  <2> QED BY <2>2, <2>3
<1>10. n \in S
  <2> HIDE DEF S
  <2> QED BY <1>1, <1>8, <1>9, NodeInduction, Nodes
<1>11. n \in B[n]
  BY <1>1, CoverKids
<1> QED BY <1>2, <1>7, <1>10, <1>11 DEF y

\* No other node is between a key and the node at which the search for it ends.
LEMMA StopIs ==
  ASSUME NEW B, Shape(tree, B), Sorted(tree, B), tree.root # NULL, NEW k \in Key
  PROVE  LET n == Stop(k)
         IN /\ n \in InTree(tree)
            /\ n # k => \A m \in InTree(tree) : m # n => m # k /\ Toward(k, m) = Toward(n, m)
<1> DEFINE Solves(e) ==
             e = [x \in Key |-> IF x = k \/ tree.kid[x][Toward(k, x)] = NULL THEN x
                                ELSE e[tree.kid[x][Toward(k, x)]]]
           C == CHOOSE e : Solves(e)
           T == [x \in Key |-> IF x = k THEN NULL ELSE tree.kid[x][Toward(k, x)]]
           r == tree.root
           n == C[r]
<1>1. tree \in Trees /\ Covers(tree, B) /\ Layered(tree, B) /\ B[r] = InTree(tree) /\ r \in Key
  BY TreeFields, Nodes DEF Shape, Layered
<1>2. Stop(k) = C[r]
  BY Zenon DEF Stop
<1>3. Guides(tree, T)
  BY <1>1, TreeFields, TowardFacts, Nodes DEF Guides
<1>4. \A e : Solves(e) <=> Walks(T, e)
  <2>1. ASSUME NEW e, NEW x \in Key
        PROVE  (IF x = k \/ tree.kid[x][Toward(k, x)] = NULL THEN x ELSE e[tree.kid[x][Toward(k, x)]])
                 = (IF T[x] = NULL THEN x ELSE e[T[x]])
    OBVIOUS
  <2> HIDE DEF T
  <2>2. ASSUME NEW e
        PROVE  [x \in Key |-> IF x = k \/ tree.kid[x][Toward(k, x)] = NULL THEN x
                              ELSE e[tree.kid[x][Toward(k, x)]]]
                 = [x \in Key |-> IF T[x] = NULL THEN x ELSE e[T[x]]]
    BY <2>1
  <2> QED BY <2>2 DEF Walks
<1> HIDE DEF Solves
<1>5. Solves(C)
  BY <1>3, <1>4, WalksEnd
<1>6. n \in Ends(B, T, r)
  BY <1>1, <1>3, <1>4, <1>5, WalksEnd
<1>7. /\ n \in InTree(tree) /\ n \in Key /\ (n # k => tree.kid[n][Toward(k, n)] = NULL)
      /\ \A m \in InTree(tree) : n \in B[m] /\ n # m => m # k /\ n \in B[tree.kid[m][Toward(k, m)]]
  <2>1. /\ n \in B[r] /\ T[n] = NULL
        /\ \A m \in B[r] : n \in B[m] /\ n # m => T[m] # NULL /\ n \in B[T[m]]
    BY <1>6 DEF Ends
  <2>2. \A m \in B[r] : m \in Key
    BY <1>1, Transitive, Nodes
  <2> QED BY <1>1, <2>1, <2>2
<1> HIDE DEF C, T, n
<1> DEFINE Same(m) == m # n => m # k /\ Toward(k, m) = Toward(n, m)
           S == {x \in Node : n \in B[x] => \A m \in B[x] : Same(m)}
<1>8. ASSUME n # k PROVE \A m \in InTree(tree) : Same(m)
  <2>1. NULL \in S
    BY <1>1, Nodes DEF Covers
  <2>2. ASSUME NEW x \in Key, tree.kid[x][0] \in S, tree.kid[x][1] \in S PROVE x \in S
    <3> SUFFICES ASSUME n \in B[x], NEW m \in B[x], m # n
                 PROVE  m # k /\ Toward(k, m) = Toward(n, m)
      BY Nodes
    <3>1. m \in Key /\ (m = x \/ \E e \in Side : m \in B[tree.kid[x][e]])
      BY <1>1, CoverKids, Transitive, Nodes
    <3>2. x \in InTree(tree)
      <4>1. x = n \/ \E e \in Side : tree.kid[x][e] # NULL
        BY <1>1, CoverKids DEF Covers
      <4> QED BY <1>7, <4>1, KidFacts
    <3>3. CASE x = n
      <4>1. PICK e \in Side : m \in B[tree.kid[n][e]]
        BY <3>1, <3>3
      <4>2. Toward(n, m) = 1 - e /\ Toward(m, n) = e
        BY <1>7, <4>1, SideFacts
      <4>3. e # Toward(k, n)
        BY <1>1, <1>7, <1>8, <4>1 DEF Covers
      <4>4. Toward(k, n) = 1 - e
        BY <1>7, <4>3, TowardFacts, Sides
      <4>5. Toward(n, k) = e /\ 1 - e \in Side
        BY <1>7, <1>8, <4>4, TowardFacts, Sides
      <4>6. k # m
        BY <4>1, <4>2, <4>4, Sides
      <4>7. Toward(k, m) = 1 - e
        BY <1>7, <1>8, <3>1, <4>2, <4>4, <4>5, TowardFacts
      <4> QED BY <4>2, <4>6, <4>7
    <3>4. CASE x # n
      <4> DEFINE e == Toward(k, x)
      <4>1. e \in Side /\ 1 - e \in Side /\ 1 - e # e /\ \A f \in Side : f = e \/ f = 1 - e
        BY TowardFacts, Sides
      <4>2. x # k /\ n \in B[tree.kid[x][e]]
        BY <1>7, <3>2, <3>4
      <4> HIDE DEF e
      <4>3. Toward(n, x) = e
        BY <4>1, <4>2, SideFacts
      <4>4. CASE m = x
        BY <4>2, <4>3, <4>4 DEF e
      <4>5. CASE m \in B[tree.kid[x][e]]
        <5>1. tree.kid[x][e] \in S
          BY <2>2, <4>1 DEF Side
        <5> QED BY <4>2, <4>5, <5>1
      <4>6. CASE m \in B[tree.kid[x][1 - e]]
        <5>1. m # x /\ Toward(m, x) = 1 - e /\ Toward(x, m) = e
          BY <4>1, <4>6, SideFacts, Sides
        <5>2. Toward(k, x) = e
          BY DEF e
        <5>3. m # k /\ Toward(k, m) = e
          BY <3>1, <4>1, <4>2, <5>1, <5>2, TowardFacts
        <5>4. Toward(n, m) = e
          BY <1>7, <3>1, <3>4, <4>1, <4>3, <5>1, TowardFacts
        <5> QED BY <5>3, <5>4
      <4> QED BY <3>1, <4>1, <4>4, <4>5, <4>6
    <3> QED BY <3>3, <3>4
  <2>3. r \in S
    <3> HIDE DEF S
    <3> QED BY <1>1, <2>1, <2>2, NodeInduction, Nodes
  <2> QED BY <1>1, <1>7, <2>3
<1> QED BY <1>2, <1>7, <1>8 DEF n


-----------------------------------------------------------------------------
(* The walk up the tree.                                                   *)

\* The nodes above x that have it on the other side of d, and the lowest.
Turns(B, d, x) == {m \in Key : x \in B[tree.kid[m][1 - d]]}
Nearest(B, d, x) ==
  {m \in Node : IF Turns(B, d, x) = {} THEN m = NULL
                ELSE m \in Turns(B, d, x) /\ \A q \in Turns(B, d, x) : m \in B[q]}

LEMMA ParentBelow ==
  ASSUME NEW B, Shape(tree, B), NEW m \in Key, NEW e \in Side, NEW x \in B[tree.kid[m][e]]
  PROVE  LET p == tree.parent[x]
         IN /\ x \in InTree(tree) /\ p \in Key /\ p \in B[m]
            /\ (x = tree.kid[m][e] /\ p = m) \/ p \in B[tree.kid[m][e]]
<1>1. tree \in Trees /\ Covers(tree, B) /\ Layered(tree, B)
  BY DEF Shape
<1>2. tree.kid[m][e] \in Node /\ tree.kid[m][e] # NULL /\ x \in Key /\ x \in B[m]
  BY <1>1, TreeFields, OneSide DEF Covers
<1>3. m \in B[m] /\ B[tree.kid[m][e]] \subseteq B[m] /\ B[m] \subseteq Key
  BY <1>1, CoverKids, Nodes DEF Covers
<1>4. CASE x = tree.kid[m][e]
  BY <1>2, <1>3, <1>4, KidFacts
<1>5. CASE x # tree.kid[m][e]
  <2>1. tree.parent[x] \in B[tree.kid[m][e]]
    BY <1>2, <1>5, Upward
  <2>2. tree.parent[x] \in Key
    BY <1>3, <2>1
  <2>3. x \in InTree(tree)
    BY <1>2, <2>2, Nodes DEF InTree
  <2> QED BY <1>3, <2>1, <2>2, <2>3
<1> QED BY <1>4, <1>5

LEMMA NearestStep ==
  ASSUME NEW B, Shape(tree, B), NEW d \in Side, NEW x \in Key
  PROVE  LET p == tree.parent[x]
         IN /\ p = NULL => Nearest(B, d, x) = {NULL}
            /\ p # NULL /\ tree.kid[p][d] = x => p \in Key /\ Nearest(B, d, x) = Nearest(B, d, p)
            /\ p # NULL /\ tree.kid[p][d] # x => Nearest(B, d, x) = {p}
<1> DEFINE p == tree.parent[x]
<1>1. tree \in Trees /\ 1 - d \in Side /\ 1 - d # d /\ \A e \in Side : e = d \/ e = 1 - d
  BY Sides DEF Shape
<1>2. \A m \in Turns(B, d, x) : p \in Key /\ p \in B[m] /\ (p = m \/ p \in B[tree.kid[m][1 - d]])
  BY <1>1, ParentBelow DEF Turns
<1>3. ASSUME p = NULL PROVE Nearest(B, d, x) = {NULL}
  <2>1. Turns(B, d, x) = {}
    BY <1>2, <1>3, Nodes
  <2> QED BY <2>1, Nodes DEF Nearest
<1>4. ASSUME p # NULL
      PROVE  /\ p \in Key /\ p \in B[p] /\ x \in B[p]
             /\ \E e \in Side : tree.kid[p][e] = x /\ tree.kid[p][1 - e] # x
             /\ x \in B[x] /\ B[x] \subseteq B[p]
  <2>1. x \in InTree(tree)
    BY <1>4 DEF InTree
  <2>2. p \in Key /\ x \in B[p] /\ B[x] \subseteq B[p] /\ x \in B[x]
        /\ \E e \in Side : tree.kid[p][e] = x /\ tree.kid[p][1 - e] # x
    BY <1>4, <2>1, ParentFacts
  <2>3. p \in B[p]
    BY <1>1, <2>2, CoverKids DEF Shape
  <2> QED BY <2>2, <2>3
<1>5. ASSUME p # NULL, tree.kid[p][d] = x PROVE p \in Key /\ Nearest(B, d, x) = Nearest(B, d, p)
  <2>1. p \in Key /\ x \in B[x] /\ x \in B[p]
    BY <1>4, <1>5
  <2>2. ASSUME NEW m \in Turns(B, d, x) PROVE m \in Turns(B, d, p)
    <3>1. m # p
      BY <1>1, <1>5, <2>1, <2>2, OneSide DEF Turns
    <3> QED BY <1>2, <2>2, <3>1 DEF Turns
  <2>3. ASSUME NEW m \in Turns(B, d, p) PROVE m \in Turns(B, d, x)
    <3>1. m \in Key /\ p \in B[tree.kid[m][1 - d]]
      BY <2>3 DEF Turns
    <3>2. B[p] \subseteq B[tree.kid[m][1 - d]]
      BY <1>1, <3>1, OneSide
    <3> QED BY <2>1, <3>1, <3>2 DEF Turns
  <2>4. Turns(B, d, x) = Turns(B, d, p)
    BY <2>2, <2>3
  <2> QED BY <2>1, <2>4 DEF Nearest
<1>6. ASSUME p # NULL, tree.kid[p][d] # x PROVE Nearest(B, d, x) = {p}
  <2>1. p \in Key /\ p \in Node /\ x \in B[x] /\ tree.kid[p][1 - d] = x
    BY <1>1, <1>4, <1>6, Nodes
  <2>2. p \in Turns(B, d, x)
    BY <2>1 DEF Turns
  <2>3. p \in Nearest(B, d, x)
    BY <1>2, <2>1, <2>2 DEF Nearest
  <2>4. ASSUME NEW m \in Nearest(B, d, x) PROVE m = p
    <3>1. m \in Turns(B, d, x) /\ m \in B[p] /\ m \in Key
      BY <2>2 DEF Nearest, Turns
    <3> QED BY <1>2, <2>1, <3>1, Apart
  <2> QED BY <2>3, <2>4
<1> QED BY <1>3, <1>5, <1>6

LEMMA AscendIs ==
  ASSUME NEW B, Shape(tree, B), NEW n \in InTree(tree), NEW d \in Side
  PROVE  Ascend(n, d) \in Nearest(B, d, n)
<1> DEFINE Up(x) == tree.parent[x] # NULL /\ tree.kid[tree.parent[x]][d] = x
           Solves(a) == a = [x \in Key |-> IF tree.parent[x] # NULL /\ tree.kid[tree.parent[x]][d] = x
                                           THEN a[tree.parent[x]] ELSE tree.parent[x]]
           C == CHOOSE a : Solves(a)
           N(x) == Nearest(B, d, x)
           r == tree.root
<1>1. tree \in Trees /\ Covers(tree, B) /\ Layered(tree, B) /\ B[r] = InTree(tree)
  BY DEF Shape, Layered
<1>2. Ascend(n, d) = C[n]
  BY Zenon DEF Ascend
<1>3. \A x \in Key : /\ tree.parent[x] = NULL => N(x) = {NULL}
                     /\ Up(x) => tree.parent[x] \in Key /\ N(x) = N(tree.parent[x])
                     /\ tree.parent[x] # NULL /\ ~Up(x) => N(x) = {tree.parent[x]}
  BY NearestStep
<1> HIDE DEF N
<1>4. \E a : Solves(a)
  <2> DEFINE P(x) == CHOOSE y : y \in N(x)
             a == [x \in Key |-> P(x)]
  <2>1. ASSUME NEW x \in Key PROVE P(x) = IF Up(x) THEN a[tree.parent[x]] ELSE tree.parent[x]
    <3>1. CASE Up(x)
      <4>1. tree.parent[x] \in Key /\ N(x) = N(tree.parent[x])
        BY <1>3, <3>1
      <4>2. a[tree.parent[x]] = P(tree.parent[x])
        BY <4>1
      <4>3. P(x) = P(tree.parent[x])
        BY <4>1
      <4> QED BY <3>1, <4>2, <4>3
    <3>2. CASE ~Up(x)
      <4>1. N(x) = {tree.parent[x]}
        BY <1>3, <3>2
      <4>2. P(x) \in N(x)
        BY <4>1
      <4> QED BY <3>2, <4>1, <4>2
    <3> QED BY <3>1, <3>2
  <2>2. a = [x \in Key |-> IF Up(x) THEN a[tree.parent[x]] ELSE tree.parent[x]]
    <3> HIDE DEF P, Up
    <3> QED BY <2>1
  <2> HIDE DEF a
  <2> QED BY <2>2
<1>5. Solves(C)
  <2> HIDE DEF Solves
  <2> QED BY <1>4
<1>6. \A x \in Key : C[x] = IF Up(x) THEN C[tree.parent[x]] ELSE tree.parent[x]
  <2> HIDE DEF C
  <2> QED BY <1>5
<1> HIDE DEF C, Solves, Up
<1>7. \A x \in Key : (Up(x) => C[tree.parent[x]] \in N(tree.parent[x])) => C[x] \in N(x)
  <2> TAKE x \in Key
  <2>1. CASE Up(x)
    BY <1>3, <1>6, <2>1
  <2>2. CASE ~Up(x)
    BY <1>3, <1>6, <2>2
  <2> QED BY <2>1, <2>2
<1> DEFINE S == {x \in Node : x # NULL /\ C[x] \in N(x) => \A m \in B[x] : C[m] \in N(m)}
<1>8. NULL \in S
  BY Nodes
<1>9. ASSUME NEW x \in Key, tree.kid[x][0] \in S, tree.kid[x][1] \in S PROVE x \in S
  <2> SUFFICES ASSUME C[x] \in N(x), NEW m \in B[x] PROVE C[m] \in N(m)
    BY Nodes
  <2>1. CASE m = x
    BY <2>1
  <2>2. ASSUME NEW e \in Side, m \in B[tree.kid[x][e]] PROVE C[m] \in N(m)
    <3>1. tree.kid[x][e] # NULL
      BY <1>1, <2>2 DEF Covers
    <3>2. tree.kid[x][e] \in Key /\ tree.parent[tree.kid[x][e]] = x
      BY <3>1, KidFacts
    <3>3. C[tree.kid[x][e]] \in N(tree.kid[x][e])
      BY <1>7, <3>2
    <3>4. tree.kid[x][e] \in S
      BY <1>9 DEF Side
    <3> QED BY <2>2, <3>1, <3>3, <3>4
  <2> QED BY <1>1, <2>1, <2>2, CoverKids
<1>10. r \in S
  <2>1. r \in Node
    BY RootFacts
  <2> HIDE DEF S
  <2> QED BY <1>1, <1>8, <1>9, <2>1, NodeInduction
<1>11. r # NULL /\ r \in Key /\ tree.parent[r] = NULL
  BY RootFacts, Nodes
<1>12. C[r] \in N(r)
  <2>1. ~Up(r)
    BY <1>11 DEF Up
  <2> QED BY <1>7, <1>11, <2>1
<1>13. C[n] \in N(n)
  BY <1>1, <1>10, <1>11, <1>12
<1> QED BY <1>2, <1>13 DEF N


-----------------------------------------------------------------------------
(* Neighbours.                                                             *)

AheadOf(n, d) == {m \in InTree(tree) : m # n /\ Toward(m, n) = d}

\* y is the first of the nodes in K, coming from the other side of d.
Foremost(y, K, d) ==
  IF K = {} THEN y = NULL ELSE y \in K /\ \A m \in K : m # y => Toward(m, y) = d

\* The nodes below x are all on one side of a node elsewhere.
LEMMA BelowTogether ==
  ASSUME NEW B, Shape(tree, B), Sorted(tree, B), NEW x \in InTree(tree), NEW m \in InTree(tree),
         m \notin B[x], NEW a \in B[x]
  PROVE  a \in Key /\ a # m /\ Toward(a, m) = Toward(x, m)
<1>1. tree \in Trees /\ Covers(tree, B) /\ Layered(tree, B) /\ B[tree.root] = InTree(tree)
      /\ x \in Key /\ x \in Node /\ m \in Key /\ x \in B[x]
  BY CoverKids, Nodes DEF Shape, Layered, InTree
<1>2. a \in Key /\ a # m
  BY <1>1, Transitive
<1> DEFINE S == {z \in Node : x \in B[z] => \A q \in B[z] : q \notin B[x] => Toward(a, q) = Toward(x, q)}
<1>3. NULL \in S
  BY <1>1, Nodes DEF Covers
<1>4. ASSUME NEW z \in Key, tree.kid[z][0] \in S, tree.kid[z][1] \in S PROVE z \in S
  <2> SUFFICES ASSUME x \in B[z], NEW q \in B[z], q \notin B[x] PROVE Toward(a, q) = Toward(x, q)
    BY Nodes
  <2>1. q \in Key /\ (q = z \/ \E e \in Side : q \in B[tree.kid[z][e]])
    BY <1>1, CoverKids, Transitive, Nodes
  <2>2. x # z
    BY <2>1
  <2>3. PICK e \in Side : x \in B[tree.kid[z][e]]
    BY <1>1, <2>2, CoverKids
  <2>4. a \in B[tree.kid[z][e]]
    BY <2>3, OneSide
  <2>5. Toward(a, z) = e /\ Toward(x, z) = e /\ a # z
    BY <2>3, <2>4, SideFacts
  <2>6. 1 - e \in Side /\ \A f \in Side : f = e \/ f = 1 - e
    BY Sides
  <2>7. CASE q \in B[tree.kid[z][e]]
    <3>1. tree.kid[z][e] \in S
      BY <1>4 DEF Side
    <3> QED BY <2>3, <2>7, <3>1
  <2>8. CASE q \in B[tree.kid[z][1 - e]]
    <3>1. q # z /\ Toward(z, q) = e
      BY <2>6, <2>8, SideFacts, Sides
    <3> QED BY <1>1, <1>2, <2>1, <2>2, <2>5, <3>1, TowardFacts
  <2> QED BY <2>1, <2>5, <2>6, <2>7, <2>8
<1>5. tree.root \in S
  <2> HIDE DEF S
  <2> QED BY <1>1, <1>3, <1>4, NodeInduction, RootFacts
<1> QED BY <1>1, <1>2, <1>5

\* The way up from n turns at a node as near as any that is ahead and not below n.
LEMMA TurnBefore ==
  ASSUME NEW B, Shape(tree, B), Sorted(tree, B), NEW n \in InTree(tree), NEW d \in Side,
         NEW m \in AheadOf(n, d), m \notin B[n]
  PROVE  \E q \in Turns(B, d, n) : m = q \/ Toward(m, q) = d
<1>1. tree \in Trees /\ Covers(tree, B) /\ Layered(tree, B) /\ B[tree.root] = InTree(tree)
      /\ n \in Key /\ n \in B[n] /\ m \in InTree(tree) /\ m # n /\ Toward(m, n) = d
  BY CoverKids DEF Shape, Layered, InTree, AheadOf
<1> DEFINE Good == \E q \in Turns(B, d, n) : m = q \/ Toward(m, q) = d
           S == {z \in Node : n \in B[z] /\ m \in B[z] => Good}
<1>2. NULL \in S
  BY <1>1, Nodes DEF Covers
<1>3. ASSUME NEW z \in Key, tree.kid[z][0] \in S, tree.kid[z][1] \in S PROVE z \in S
  <2> SUFFICES ASSUME n \in B[z], m \in B[z] PROVE Good
    BY Nodes
  <2> HIDE DEF Good
  <2>1. m \in Key /\ n # z
    BY <1>1 DEF InTree
  <2>2. PICK e \in Side : n \in B[tree.kid[z][e]]
    BY <1>1, <2>1, CoverKids
  <2>3. Toward(n, z) = e /\ Toward(z, n) = 1 - e
    BY <2>2, SideFacts
  <2>4. 1 - e \in Side /\ 1 - (1 - e) = e /\ \A f \in Side : f = e \/ f = 1 - e
    BY Sides
  <2>5. ASSUME d = 1 - e, m = z \/ Toward(m, z) = d PROVE Good
    <3>1. z \in Turns(B, d, n)
      BY <2>2, <2>4, <2>5 DEF Turns
    <3> QED BY <2>5, <3>1 DEF Good
  <2>6. CASE m = z
    BY <1>1, <2>3, <2>5, <2>6
  <2>7. CASE m \in B[tree.kid[z][e]]
    <3>1. tree.kid[z][e] \in S
      BY <1>3 DEF Side
    <3> QED BY <2>2, <2>7, <3>1
  <2>8. CASE m \in B[tree.kid[z][1 - e]]
    <3>1. m # z /\ Toward(m, z) = 1 - e
      BY <2>4, <2>8, SideFacts
    <3>2. Toward(m, n) = 1 - e
      BY <1>1, <2>1, <2>3, <2>4, <3>1, TowardFacts
    <3> QED BY <1>1, <2>5, <3>1, <3>2
  <2> QED BY <1>1, <2>4, <2>6, <2>7, <2>8, CoverKids
<1>4. tree.root \in S
  <2> HIDE DEF S
  <2> QED BY <1>1, <1>2, <1>3, NodeInduction, RootFacts
<1> QED BY <1>1, <1>4

LEMMA BeyondIs ==
  ASSUME NEW B, Shape(tree, B), Sorted(tree, B), NEW n \in InTree(tree), NEW d \in Side
  PROVE  Foremost(Beyond(n, d), AheadOf(n, d), d)
<1> DEFINE K == AheadOf(n, d)
           c == tree.kid[n][d]
<1>1. /\ tree \in Trees /\ Covers(tree, B) /\ Layered(tree, B) /\ B[tree.root] = InTree(tree)
      /\ n \in Key /\ n \in Node /\ n \in B[n] /\ c \in Node
  BY CoverKids, TreeFields, Nodes DEF Shape, Layered, InTree
<1>2. 1 - d \in Side /\ 1 - (1 - d) = d /\ 1 - d # d /\ \A e \in Side : e = d \/ e = 1 - d
  BY Sides
<1>3. B[n] \subseteq InTree(tree) /\ InTree(tree) \subseteq Key
  BY <1>1, Transitive, RootFacts DEF InTree
\* What is ahead of n and below it is below c.
<1>4. \A m \in K : m \in B[n] => m \in B[c]
  <2> SUFFICES ASSUME NEW m \in K, m \in B[n] PROVE m \in B[c]
    OBVIOUS
  <2>1. m # n /\ Toward(m, n) = d
    BY DEF AheadOf
  <2>2. PICK e \in Side : m \in B[tree.kid[n][e]]
    BY <1>1, <2>1, CoverKids
  <2>3. e = d
    BY <1>1, <2>1, <2>2, SideFacts
  <2> QED BY <2>2, <2>3
<1>5. CASE c # NULL
  <2> DEFINE y == Last(c, 1 - d)
  <2>1. Beyond(n, d) = y
    BY <1>5 DEF Beyond
  <2>2. c \in Key /\ B[c] \subseteq B[n]
    BY <1>1, <1>5, KidFacts
  <2>3. y \in B[c] /\ \A m \in B[c] : m # y => Toward(m, y) = d
    BY <1>2, <2>2, LastIs
  <2> HIDE DEF y
  <2>4. y \in Key /\ y # n /\ Toward(y, n) = d /\ Toward(n, y) = 1 - d
    BY <1>1, <2>3, SideFacts
  <2>5. y \in K
    BY <1>3, <2>2, <2>3, <2>4 DEF AheadOf
  <2>6. ASSUME NEW m \in K, m # y PROVE Toward(m, y) = d
    <3>1. CASE m \in B[n]
      BY <1>4, <2>3, <2>6, <3>1
    <3>2. CASE m \notin B[n]
      <4>1. m \in InTree(tree) /\ m \in Key /\ m # n /\ Toward(m, n) = d
        BY <1>3 DEF AheadOf
      <4>2. Toward(y, m) = Toward(n, m)
        BY <2>2, <2>3, <3>2, <4>1, BelowTogether
      <4>3. Toward(n, m) = 1 - d
        BY <1>1, <4>1, TowardFacts
      <4> QED BY <1>2, <2>4, <2>6, <4>1, <4>2, <4>3, TowardFacts
    <3> QED BY <3>1, <3>2
  <2> QED BY <2>1, <2>5, <2>6 DEF Foremost
<1>6. CASE c = NULL
  <2> DEFINE y == Ascend(n, d)
             Q == Turns(B, d, n)
  <2>1. Beyond(n, d) = y
    BY <1>6 DEF Beyond
  <2>2. y \in Nearest(B, d, n)
    BY AscendIs
  <2>3. B[c] = {}
    BY <1>1, <1>6 DEF Covers
  <2>4. \A m \in K : m \notin B[n] /\ \E q \in Q : m = q \/ Toward(m, q) = d
    BY <1>4, <2>3, TurnBefore
  <2> HIDE DEF y, Q, K
  <2>5. CASE Q = {}
    <3>1. y = NULL /\ K = {}
      BY <2>2, <2>4, <2>5 DEF Nearest, Q
    <3> QED BY <2>1, <3>1 DEF Foremost, K
  <2>6. CASE Q # {}
    <3>1. y \in Q /\ \A q \in Q : y \in B[q]
      BY <2>2, <2>6 DEF Nearest, Q
    <3>2. \A q \in Q : q \in Key /\ n \in B[tree.kid[q][1 - d]]
      BY DEF Q, Turns
    <3>3. y \in Key /\ Toward(y, n) = d /\ y # n
      BY <1>2, <3>1, <3>2, SideFacts
    <3>4. y \in InTree(tree) /\ n \in B[y]
      <4>1. tree.kid[y][1 - d] # NULL
        BY <1>1, <3>1, <3>2 DEF Covers
      <4> QED BY <1>2, <3>1, <3>2, <3>3, <4>1, KidFacts, OneSide
    <3>5. y \in K
      BY <3>3, <3>4 DEF K, AheadOf
    <3>6. ASSUME NEW q \in Q, q # y PROVE Toward(y, q) = 1 - d
      <4>1. q \in Key /\ n \in B[tree.kid[q][1 - d]] /\ y \in B[q]
        BY <3>1, <3>2
      <4>2. PICK e \in Side : y \in B[tree.kid[q][e]]
        BY <1>1, <3>6, <4>1, CoverKids
      <4>3. n \in B[tree.kid[q][e]]
        BY <3>4, <4>1, <4>2, OneSide
      <4>4. e = 1 - d
        BY <1>2, <4>1, <4>3, OneSide
      <4> QED BY <4>1, <4>2, <4>4, SideFacts
    <3>7. ASSUME NEW m \in K, m # y PROVE Toward(m, y) = d
      <4>1. PICK q \in Q : m = q \/ Toward(m, q) = d
        BY <2>4
      <4>2. m \in Key /\ q \in Key
        BY <1>3, <3>2 DEF K, AheadOf
      <4>3. q # y => Toward(q, y) = d
        <5>1. q # y => Toward(y, q) = 1 - d
          BY <3>6
        <5> QED BY <1>2, <3>3, <4>2, <5>1, TowardFacts
      <4> QED BY <3>3, <3>7, <4>1, <4>2, <4>3, TowardFacts
    <3> QED BY <2>1, <3>5, <3>7 DEF Foremost, K
  <2> QED BY <2>5, <2>6
<1> QED BY <1>5, <1>6


LEMMA AheadIs ==
  ASSUME NEW k \in Key, NEW d \in Side
  PROVE  Ahead(k, d) = {m \in InTree(tree) : m # k /\ Toward(m, k) = d}
<1>1. k # NULL
  BY Nodes
<1>2. ASSUME NEW m \in Linked
      PROVE  (IF d = 1 THEN m > k ELSE m < k) <=> m # k /\ Toward(m, k) = d
  <2>1. m \in Int /\ k \in Int
    BY KeyAssumption DEF Linked
  <2> QED BY <2>1 DEF Toward, Side
<1>3. Ahead(k, d) = {m \in Linked : IF d = 1 THEN m > k ELSE m < k}
  BY <1>1 DEF Ahead
<1> QED BY <1>2, <1>3, LinkedInTree

\* get_next and get_prev answer for any key, and for none.
LEMMA NeighbourIs ==
  ASSUME OrderInv, NEW d \in Side, NEW k \in Node, k # NULL => tree.root # NULL
  PROVE  Foremost(Neighbour(k, d), Ahead(k, d), d)
<1>1. PICK B : Shape(tree, B) /\ Sorted(tree, B)
  BY DEF OrderInv, Sound
<1>2. tree \in Trees /\ B[tree.root] = InTree(tree) /\ InTree(tree) \subseteq Key
  BY <1>1 DEF Shape, Layered, InTree
<1>3. 1 - d \in Side /\ 1 - (1 - d) = d
  BY Sides
<1>4. CASE k = NULL
  <2>1. Ahead(k, d) = InTree(tree)
    BY <1>4, LinkedInTree DEF Ahead
  <2>2. CASE tree.root = NULL
    <3>1. InTree(tree) = {} /\ Neighbour(k, d) = NULL
      BY <1>1, <1>4, <2>2, RootFacts DEF Neighbour
    <3> QED BY <2>1, <3>1 DEF Foremost
  <2>3. CASE tree.root # NULL
    <3> DEFINE y == Last(tree.root, 1 - d)
    <3>1. tree.root \in Key /\ tree.root \in InTree(tree)
      BY <1>1, <1>2, <2>3, RootFacts
    <3>2. Neighbour(k, d) = y
      BY <1>4, <2>3 DEF Neighbour
    <3>3. y \in B[tree.root] /\ \A m \in B[tree.root] : m # y => Toward(m, y) = d
      BY <1>1, <1>3, <3>1, LastIs
    <3> HIDE DEF y
    <3> QED BY <1>2, <2>1, <3>1, <3>2, <3>3 DEF Foremost
  <2> QED BY <2>2, <2>3
<1>5. CASE k # NULL
  <2> DEFINE n == Stop(k)
             K == {m \in InTree(tree) : m # k /\ Toward(m, k) = d}
  <2>1. k \in Key /\ Ahead(k, d) = K
    BY <1>5, AheadIs, Nodes
  <2>2. /\ n \in InTree(tree) /\ n \in Key
        /\ n # k => \A m \in InTree(tree) : m # n => m # k /\ Toward(k, m) = Toward(n, m)
    BY <1>1, <1>2, <1>5, <2>1, StopIs
  <2>3. Neighbour(k, d) = IF n # k /\ Toward(k, n) # d THEN n ELSE Beyond(n, d)
    BY <1>5 DEF Neighbour, Overshot
  <2> HIDE DEF n
  <2>4. CASE n # k /\ Toward(k, n) # d
    <3>1. n \in K
      BY <1>3, <2>1, <2>2, <2>4, TowardFacts, Sides
    <3>2. ASSUME NEW m \in K, m # n PROVE Toward(m, n) = d
      <4>1. m \in Key /\ m # k /\ Toward(m, k) = d
        BY <1>2
      <4>2. Toward(k, m) = 1 - d
        BY <2>1, <4>1, TowardFacts
      <4>3. Toward(n, m) = 1 - d
        BY <2>2, <2>4, <3>2, <4>2
      <4> QED BY <1>3, <2>2, <3>2, <4>1, <4>3, TowardFacts
    <3> QED BY <2>1, <2>3, <2>4, <3>1, <3>2 DEF Foremost
  <2>5. CASE n = k \/ Toward(k, n) = d
    <3>1. AheadOf(n, d) = K
      <4>1. CASE n = k
        BY <4>1 DEF AheadOf
      <4>2. CASE n # k /\ Toward(k, n) = d
        <5>1. ASSUME NEW m \in InTree(tree)
              PROVE  m # n /\ Toward(m, n) = d <=> m # k /\ Toward(m, k) = d
          <6>1. m \in Key
            BY <1>2
          <6>2. CASE m = n
            <7>1. Toward(n, k) = 1 - d
              BY <2>1, <2>2, <4>2, TowardFacts
            <7> QED BY <6>2, <7>1, Sides
          <6>3. CASE m # n
            <7>1. m # k /\ Toward(k, m) = Toward(n, m)
              BY <2>2, <4>2, <6>3
            <7>2. (Toward(m, n) = d <=> Toward(n, m) = 1 - d)
                  /\ (Toward(m, k) = d <=> Toward(k, m) = 1 - d)
              BY <2>1, <2>2, <6>1, <6>3, <7>1, TowardFacts
            <7> QED BY <6>3, <7>1, <7>2
          <6> QED BY <6>2, <6>3
        <5> QED BY <5>1 DEF AheadOf
      <4> QED BY <2>5, <4>1, <4>2
    <3>2. Foremost(Beyond(n, d), AheadOf(n, d), d)
      BY <1>1, <2>2, BeyondIs
    <3>3. Neighbour(k, d) = Beyond(n, d)
      BY <2>3, <2>5
    <3> QED BY <2>1, <3>1, <3>2, <3>3
  <2> QED BY <2>4, <2>5
<1> QED BY <1>4, <1>5

LEMMA NeighbourSafe == OrderInv => NeighboursExact
<1> SUFFICES ASSUME OrderInv, NEW d \in Side, NEW k \in IF tree.root = NULL THEN {NULL} ELSE Node
             PROVE  LET n == Neighbour(k, d)
                    IN IF Ahead(k, d) = {} THEN n = NULL
                       ELSE /\ n \in Ahead(k, d)
                            /\ \A m \in Ahead(k, d) : IF d = 1 THEN n <= m ELSE n >= m
  BY DEF NeighboursExact
<1> DEFINE n == Neighbour(k, d)
<1>1. k \in Node /\ (k # NULL => tree.root # NULL)
  BY Nodes
<1>2. Foremost(n, Ahead(k, d), d)
  BY <1>1, NeighbourIs
<1> HIDE DEF n
<1>3. Ahead(k, d) \subseteq Key
  BY DEF Ahead, Linked
<1>4. ASSUME n \in Ahead(k, d), NEW m \in Ahead(k, d), m # n => Toward(m, n) = d
      PROVE  IF d = 1 THEN n <= m ELSE n >= m
  <2>1. m \in Int /\ n \in Int
    BY <1>3, <1>4, KeyAssumption
  <2> QED BY <1>4, <2>1 DEF Toward, Side
<1> QED BY <1>2, <1>4 DEF Foremost, n

\* Whatever the keys, get_next and get_prev find the nearest key on their side
\* of any key, in the dictionary or not.
THEOREM NeighboursFound == DictSpec => []NeighboursExact
  BY TreeInvariance, NeighbourSafe, PTL


-----------------------------------------------------------------------------
(* The entries.                                                            *)

\* DictTypeOK is not inductive: an insertion needs the value it brings, and room
\* in the count for the entry it adds.
DictInv ==
  /\ DictTypeOK
  /\ op \in {"lookup", "insert"} => arg \in Value
  /\ op \in {"lookup", "insert", "repair"} => sz < MaxSz

DictRearranges ==
  \/ \E k \in Key : DictGet(k) \/ DictDel(k) \/ \E v \in Value : DictSet(k, v)
  \/ Replace \/ Refused \/ Count \/ GetDone \/ DelMissing \/ Silent

LEMMA DictLinks ==
  ASSUME OrderInv
  PROVE  /\ DictRearranges => Linked' = Linked
         /\ Add => key \in Key /\ key \notin Linked /\ Linked' = Linked \cup {key}
         /\ Remove => key \in Linked /\ Linked' = Linked \ {key}
         /\ UNCHANGED vars => Linked' = Linked
<1>1. ASSUME DictRearranges PROVE Linked' = Linked
  <2>1. CASE \E k \in Key : DictGet(k) \/ DictDel(k) \/ \E v \in Value : DictSet(k, v)
    <3>1. Rearrange
      BY <2>1 DEF Rearrange, DictGet, DictDel, DictSet
    <3> QED BY <3>1, RearrangeLinks
  <2>2. CASE Replace \/ Refused \/ Count \/ GetDone \/ DelMissing
    <3>1. Rearrange
      BY <2>2 DEF Rearrange, Replace, Refused, Count, GetDone, DelMissing
    <3> QED BY <3>1, RearrangeLinks
  <2>3. CASE Silent
    <3>1. Rearrange
      BY <2>3 DEF Rearrange, Silent
    <3> QED BY <3>1, RearrangeLinks
  <2> QED BY <1>1, <2>1, <2>2, <2>3 DEF DictRearranges
<1>2. Add => key \in Key /\ key \notin Linked /\ Linked' = Linked \cup {key}
  BY PlaceLinks DEF Add
<1>3. Remove => key \in Linked /\ Linked' = Linked \ {key}
  BY RemoveLinks DEF Remove
<1>4. UNCHANGED vars => Linked' = Linked
  BY DEF vars, Linked
<1> QED BY <1>1, <1>2, <1>3, <1>4

LEMMA DictStart == DictInit => DictInv
<1> SUFFICES ASSUME DictInit PROVE DictInv
  OBVIOUS
<1>1. TypeOK
  BY OrderInit DEF DictInit, OrderInv
<1>2. Linked = {} /\ op = "ready"
  BY Nodes DEF DictInit, Init, Empty, Linked
<1>3. 0 \in 0 .. MaxSz
  BY DictAssumption
<1> QED BY <1>1, <1>2, <1>3, Nodes DEF DictInit, DictInv, DictTypeOK

\* What a step does to the locals of an insertion.
LEMMA SilentOps ==
  ASSUME Silent
  PROVE  /\ op' \in {"lookup", "insert"} => op \in {"lookup", "insert"}
         /\ op' = "repair" => op = "repair"
<1>1. CASE Descend
  BY <1>1 DEF Descend, Goto
<1>2. CASE SeekPlace
  BY <1>2 DEF SeekPlace, Goto
<1>3. CASE RepairUp \/ SeekPred \/ PredRight \/ FixSibling \/ FixUp
  BY <1>3 DEF RepairUp, SeekPred, PredRight, FixSibling, FixUp, Goto
<1>4. CASE FixRoot \/ FixSwapColours \/ FixRotate
  BY <1>4 DEF FixRoot, FixSwapColours, FixRotate, Done
<1> QED BY <1>1, <1>2, <1>3, <1>4 DEF Silent

LEMMA DictStep ==
  ASSUME OrderInv, OrderInv', DictInv, [DictNext]_dictvars
  PROVE  DictInv'
<1>1. /\ val \in [Key -> Value \cup {NULL}] /\ arg \in Value \cup {NULL}
      /\ sz \in 0 .. MaxSz
      /\ answer \in Value \cup {"ok", "nomem", "absent", NULL}
      /\ loop \in Side \cup {NULL} /\ at \in Node
      /\ seen \subseteq Key /\ stay \subseteq Key
      /\ \A k \in Key : val[k] # NULL <=> k \in Linked
      /\ op \in {"lookup", "insert"} => arg \in Value
      /\ op \in {"lookup", "insert", "repair"} => sz < MaxSz
  BY DEF DictInv, DictTypeOK
<1>2. TypeOK' /\ MaxSz \in Nat /\ NULL \notin Value /\ Linked \subseteq Key
  BY DictAssumption DEF OrderInv, Linked
<1>3. (op # "ready" => key \in Key) /\ (op = "get" /\ cur = key => key \in Linked)
  BY LoopFacts
<1>4. CASE \E k \in Key : DictGet(k) \/ DictDel(k)
  <2>1. Linked' = Linked
    BY <1>4, DictLinks DEF DictRearranges
  <2>2. op' \in {"get", "find"} /\ UNCHANGED <<entries, cursor>>
    BY <1>4 DEF DictGet, DictDel, Get, Del, Begin
  <2> QED BY <1>1, <1>2, <2>1, <2>2 DEF DictInv, DictTypeOK, entries, cursor
<1>5. CASE \E k \in Key, v \in Value : DictSet(k, v)
  <2>1. Linked' = Linked
    BY <1>5, DictLinks DEF DictRearranges
  <2>2. sz < MaxSz /\ arg' \in Value /\ UNCHANGED <<val, sz, answer, cursor>>
    BY <1>5 DEF DictSet
  <2> QED BY <1>1, <1>2, <2>1, <2>2 DEF DictInv, DictTypeOK, cursor
<1>6. CASE Replace
  <2>1. Linked' = Linked
    BY <1>6, DictLinks DEF DictRearranges
  <2>2. /\ op = "lookup" /\ cur = key /\ op' = "ready"
        /\ val' = [val EXCEPT ![key] = arg] /\ arg' = NULL /\ answer' = "ok"
        /\ UNCHANGED <<sz, cursor>>
    BY <1>6 DEF Replace, Present, Found, Done
  <2>3. key \in Linked /\ key \in Key /\ arg \in Value
    BY <1>1, <1>2, <2>2, LoopFacts
  <2>4. val' \in [Key -> Value \cup {NULL}] /\ \A k \in Key : val'[k] = IF k = key THEN arg ELSE val[k]
    BY <1>1, <2>2, <2>3
  <2>5. \A k \in Key : val'[k] # NULL <=> k \in Linked
    BY <1>1, <1>2, <2>3, <2>4
  <2> QED BY <1>1, <1>2, <2>1, <2>2, <2>4, <2>5 DEF DictInv, DictTypeOK, cursor
<1>7. CASE Refused
  <2>1. Linked' = Linked
    BY <1>7, DictLinks DEF DictRearranges
  <2>2. op' = "ready" /\ arg' = NULL /\ answer' = "nomem" /\ UNCHANGED <<val, sz, cursor>>
    BY <1>7 DEF Refused, NoMem, Done
  <2> QED BY <1>1, <1>2, <2>1, <2>2 DEF DictInv, DictTypeOK, cursor
<1>8. CASE Add
  <2>1. key \in Key /\ key \notin Linked /\ Linked' = Linked \cup {key}
    BY <1>8, DictLinks
  <2>2. /\ op \in {"lookup", "insert"} /\ op' = "repair"
        /\ val' = [val EXCEPT ![key] = arg] /\ arg' = NULL /\ answer' = "ok"
        /\ UNCHANGED <<sz, cursor>>
    BY <1>8 DEF Add, PlaceRoot, PlaceLeaf, Goto
  <2>3. arg \in Value
    BY <1>1, <2>2
  <2>4. val' \in [Key -> Value \cup {NULL}] /\ \A k \in Key : val'[k] = IF k = key THEN arg ELSE val[k]
    BY <1>1, <2>1, <2>2, <2>3
  <2>5. \A k \in Key : val'[k] # NULL <=> k \in Linked'
    BY <1>1, <1>2, <2>1, <2>3, <2>4
  <2> QED BY <1>1, <1>2, <2>2, <2>4, <2>5 DEF DictInv, DictTypeOK, cursor
<1>9. CASE Count
  <2>1. Linked' = Linked
    BY <1>9, DictLinks DEF DictRearranges
  <2>2. op = "repair" /\ op' = "ready" /\ sz' = sz + 1 /\ UNCHANGED <<val, arg, answer, cursor>>
    BY <1>9 DEF Count, RepairRoot, RepairNothing, RepairRotate, Done
  <2>3. sz' \in 0 .. MaxSz
    BY <1>1, <1>2, <2>2
  <2> QED BY <1>1, <1>2, <2>1, <2>2, <2>3 DEF DictInv, DictTypeOK, cursor
<1>10. CASE GetDone
  <2>1. Linked' = Linked
    BY <1>10, DictLinks DEF DictRearranges
  <2>2. op' = "ready" /\ answer' \in {val[key], NULL} /\ UNCHANGED <<val, arg, sz, cursor>>
        /\ op = "get"
    BY <1>10 DEF GetDone, Hit, Absent, Done
  <2>3. val[key] \in Value \cup {NULL}
    BY <1>1, <1>3, <2>2
  <2> QED BY <1>1, <1>2, <2>1, <2>2, <2>3 DEF DictInv, DictTypeOK, cursor
<1>11. CASE DelMissing
  <2>1. Linked' = Linked
    BY <1>11, DictLinks DEF DictRearranges
  <2>2. op' = "ready" /\ answer' = "absent" /\ UNCHANGED <<val, arg, sz, cursor>>
    BY <1>11 DEF DelMissing, Absent, Done
  <2> QED BY <1>1, <1>2, <2>1, <2>2 DEF DictInv, DictTypeOK, cursor
<1>12. CASE Remove
  <2>1. key \in Linked /\ Linked' = Linked \ {key}
    BY <1>12, DictLinks
  <2>2. /\ val' = [val EXCEPT ![key] = NULL] /\ answer' = "ok"
        /\ stay' = stay \ {key} /\ UNCHANGED <<arg, sz, loop, at, seen>>
    BY <1>12 DEF Remove, Victim
  <2>3. op' \in {"ready", "fix"}
    BY <1>12 DEF Remove, DeleteHere, PredTake, DeleteOneChild, Done, Goto
  <2>4. val' \in [Key -> Value \cup {NULL}] /\ \A k \in Key : val'[k] = IF k = key THEN NULL ELSE val[k]
    BY <1>1, <1>2, <2>1, <2>2
  <2>5. \A k \in Key : val'[k] # NULL <=> k \in Linked'
    BY <1>1, <2>1, <2>4
  <2> QED BY <1>1, <1>2, <2>2, <2>3, <2>4, <2>5 DEF DictInv, DictTypeOK
<1>13. CASE Silent
  <2>1. Linked' = Linked
    BY <1>13, DictLinks DEF DictRearranges
  <2>2. UNCHANGED <<entries, cursor>>
    BY <1>13 DEF Silent
  <2> QED BY <1>1, <1>2, <1>13, <2>1, <2>2, SilentOps DEF DictInv, DictTypeOK, entries, cursor
<1>14. ASSUME UNCHANGED <<vars, entries>>, loop' \in Side \cup {NULL}, at' \in Node,
              seen' \subseteq Key, stay' \subseteq Key
       PROVE  DictInv'
  <2>1. Linked' = Linked /\ op' = op
    BY <1>14, DictLinks DEF vars
  <2> QED BY <1>1, <1>2, <1>14, <2>1 DEF DictInv, DictTypeOK, entries
<1>15. CASE \E d \in Loops : LoopBegin(d)
  BY <1>2, <1>14, <1>15, DictAssumption, Nodes DEF LoopBegin
<1>16. CASE LoopNext
  <2>1. /\ UNCHANGED <<vars, entries, loop, stay>> /\ Following # NULL
        /\ at' = Following /\ seen' = seen \cup {Following} /\ loop # NULL
        /\ (at # NULL => tree.root # NULL)
    BY <1>16 DEF LoopNext, LoopAborts
  <2>2. Foremost(Following, Ahead(at, loop), loop)
    BY <1>1, <2>1, NeighbourIs DEF Following
  <2>3. Following \in Linked
    BY <2>1, <2>2 DEF Foremost, Ahead
  <2> QED BY <1>1, <1>2, <1>14, <2>1, <2>3, Nodes
<1>17. CASE LoopEnd
  BY <1>14, <1>17, Nodes DEF LoopEnd
<1>18. CASE UNCHANGED dictvars
  BY <1>1, <1>14, <1>18 DEF dictvars, cursor
<1> QED BY <1>4, <1>5, <1>6, <1>7, <1>8, <1>9, <1>10, <1>11, <1>12, <1>13, <1>15, <1>16, <1>17, <1>18
        DEF DictNext

\* What holds between any two steps of a dictionary.
THEOREM DictInvariance == DictSpec => [](OrderInv /\ DictInv)
<1>1. DictInit => OrderInv /\ DictInv
  BY OrderInit, DictStart DEF DictInit
<1>2. (OrderInv /\ DictInv) /\ [DictNext]_dictvars => (OrderInv /\ DictInv)'
  BY OrderStep, DictStepsTree, DictStep
<1> QED BY <1>1, <1>2, PTL DEF DictSpec

\* Every variable has its type, and an entry has a value exactly while its node
\* is linked.
THEOREM DictTypesHold == DictSpec => []DictTypeOK
<1>1. DictInv => DictTypeOK
  BY DEF DictInv
<1> QED BY <1>1, DictInvariance, PTL


-----------------------------------------------------------------------------
(* The dictionary is a map.                                                *)

LEMMA MapInit == DictInit => Map!Init
<1>1. DictInit => Linked = {}
  BY Nodes DEF DictInit, Init, Empty, Linked
<1> QED BY <1>1 DEF DictInit, Map!Init

LEMMA MapSame ==
  ASSUME Linked' = Linked, UNCHANGED val
  PROVE  [k \in Linked |-> val[k]]' = [k \in Linked |-> val[k]]
<1>1. [k \in Linked' |-> val'[k]] = [k \in Linked |-> val[k]]
  OBVIOUS
<1> QED BY <1>1

\* Setting the value of a node that is linked now makes it the map's.
LEMMA MapPut ==
  ASSUME DictInv, key \in Key, arg \in Value, Linked' = Linked \cup {key},
         val' = [val EXCEPT ![key] = arg], answer' = "ok"
  PROVE  Map!Next
<1> DEFINE map == [k \in Linked |-> val[k]]
<1>1. val \in [Key -> Value \cup {NULL}] /\ Linked \subseteq Key
  BY DEF DictInv, DictTypeOK, Linked
<1>2. DOMAIN map = Linked /\ \A k \in Linked : map[k] = val[k]
  OBVIOUS
<1>3. \A k \in Linked' : val'[k] = IF k = key THEN arg ELSE map[k]
  BY <1>1, <1>2
<1>4. [k \in Linked' |-> val'[k]] = [k \in DOMAIN map \cup {key} |-> IF k = key THEN arg ELSE map[k]]
  <2> HIDE DEF map
  <2> QED BY <1>2, <1>3
<1>5. map' = [k \in DOMAIN map \cup {key} |-> IF k = key THEN arg ELSE map[k]]
  BY <1>4
<1>6. PICK k \in Key, v \in Value : k = key /\ v = arg
  OBVIOUS
<1>7. Map!Put(k, v)
  BY <1>5, <1>6 DEF Map!Put
<1> QED BY <1>7 DEF Map!Next

LEMMA MapStep ==
  ASSUME OrderInv, DictInv, [DictNext]_dictvars
  PROVE  [Map!Next]_(Map!mapvars)
<1> DEFINE map == [k \in Linked |-> val[k]]
<1>1. /\ val \in [Key -> Value \cup {NULL}] /\ Linked \subseteq Key
      /\ op \in {"lookup", "insert"} => arg \in Value
  BY DEF DictInv, DictTypeOK, Linked
<1>2. ASSUME Linked' = Linked, UNCHANGED <<val, answer>> PROVE [Map!Next]_(Map!mapvars)
  BY <1>2, MapSame DEF Map!mapvars
<1>3. CASE \E k \in Key : DictGet(k) \/ DictDel(k) \/ \E v \in Value : DictSet(k, v)
  <2>1. Linked' = Linked
    BY <1>3, DictLinks DEF DictRearranges
  <2> QED BY <1>2, <1>3, <2>1 DEF DictGet, DictDel, DictSet, entries
<1>4. CASE Replace
  <2>1. Linked' = Linked
    BY <1>4, DictLinks DEF DictRearranges
  <2>2. op = "lookup" /\ cur = key /\ val' = [val EXCEPT ![key] = arg] /\ answer' = "ok"
    BY <1>4 DEF Replace, Present, Found
  <2>3. key \in Linked
    BY <2>2, LoopFacts
  <2>4. Linked' = Linked \cup {key}
    BY <2>1, <2>3
  <2>5. Map!Next
    BY <1>1, <2>2, <2>3, <2>4, MapPut
  <2> QED BY <2>5
<1>5. CASE Refused
  <2>1. Linked' = Linked
    BY <1>5, DictLinks DEF DictRearranges
  <2>2. answer' = "nomem" /\ UNCHANGED val
    BY <1>5 DEF Refused
  <2>3. Map!Refuse
    BY <2>1, <2>2, MapSame DEF Map!Refuse
  <2> QED BY <2>3 DEF Map!Next
<1>6. CASE Add
  <2>1. key \in Key /\ Linked' = Linked \cup {key}
    BY <1>6, DictLinks
  <2>2. op \in {"lookup", "insert"} /\ val' = [val EXCEPT ![key] = arg] /\ answer' = "ok"
    BY <1>6 DEF Add, PlaceRoot, PlaceLeaf
  <2>3. Map!Next
    BY <1>1, <2>1, <2>2, MapPut
  <2> QED BY <2>3
<1>7. CASE GetDone
  <2>1. Linked' = Linked
    BY <1>7, DictLinks DEF DictRearranges
  <2>2. op = "get" /\ UNCHANGED val /\ \/ cur = key /\ answer' = val[key]
                                       \/ cur = NULL /\ answer' = NULL
    BY <1>7 DEF GetDone, Hit, Found, Absent
  <2>3. key \in Key /\ (cur = key => key \in Linked) /\ (cur = NULL => key \notin Linked)
    BY <2>2, LoopFacts
  <2>4. answer' = IF key \in DOMAIN map THEN map[key] ELSE NULL
    BY <2>2, <2>3
  <2>5. PICK k \in Key : k = key
    BY <2>3
  <2>6. Map!Look(k)
    BY <2>1, <2>2, <2>4, <2>5, MapSame DEF Map!Look
  <2> QED BY <2>6 DEF Map!Next
<1>8. CASE DelMissing
  <2>1. Linked' = Linked
    BY <1>8, DictLinks DEF DictRearranges
  <2>2. op = "find" /\ cur = NULL /\ answer' = "absent" /\ UNCHANGED val
    BY <1>8 DEF DelMissing, Absent
  <2>3. key \in Key /\ key \notin Linked
    BY <2>2, LoopFacts
  <2>4. PICK k \in Key : k = key
    BY <2>3
  <2>5. Map!Miss(k)
    BY <2>1, <2>2, <2>3, <2>4, MapSame DEF Map!Miss
  <2> QED BY <2>5 DEF Map!Next
<1>9. CASE Remove
  <2>1. key \in Linked /\ Linked' = Linked \ {key}
    BY <1>9, DictLinks
  <2>2. val' = [val EXCEPT ![key] = NULL] /\ answer' = "ok"
    BY <1>9 DEF Remove, Victim
  <2>3. DOMAIN map = Linked /\ \A k \in Linked : map[k] = val[k]
    OBVIOUS
  <2>4. \A k \in Linked' : val'[k] = map[k]
    BY <1>1, <2>1, <2>2
  <2>5. [k \in Linked' |-> val'[k]] = [k \in DOMAIN map \ {key} |-> map[k]]
    <3> HIDE DEF map
    <3> QED BY <2>1, <2>3, <2>4
  <2>6. map' = [k \in DOMAIN map \ {key} |-> map[k]]
    BY <2>5
  <2>7. PICK k \in Key : k = key
    BY <1>1, <2>1
  <2>8. Map!Take(k)
    BY <2>1, <2>2, <2>3, <2>6, <2>7 DEF Map!Take
  <2> QED BY <2>8 DEF Map!Next
<1>10. CASE Count \/ Silent
  <2>1. Linked' = Linked
    BY <1>10, DictLinks DEF DictRearranges
  <2> QED BY <1>2, <1>10, <2>1 DEF Count, Silent, entries
<1>11. CASE (\E d \in Loops : LoopBegin(d)) \/ LoopNext \/ LoopEnd \/ UNCHANGED dictvars
  <2>1. UNCHANGED vars /\ UNCHANGED entries
    BY <1>11 DEF LoopBegin, LoopNext, LoopEnd, dictvars
  <2> QED BY <1>2, <2>1, DictLinks DEF entries
<1> QED BY <1>3, <1>4, <1>5, <1>6, <1>7, <1>8, <1>9, <1>10, <1>11 DEF DictNext

\* The dictionary implements AbceMap: descents, repairs and loops change
\* nothing, and each request is answered as the map of the linked keys' values would.
THEOREM ImplementsMap == DictSpec => MapSpec
<1>1. DictInit => Map!Init
  BY MapInit
<1>2. OrderInv /\ DictInv /\ [DictNext]_dictvars => [Map!Next]_(Map!mapvars)
  BY MapStep
<1> QED BY <1>1, <1>2, DictInvariance, PTL DEF DictSpec, MapSpec, Map!Spec

-----------------------------------------------------------------------------
(* Loops.                                                                  *)

\* A loop is at the last key it saw, and has seen, or has before it, each key
\* that was there all the time.
LoopInv ==
  loop # NULL =>
    /\ stay \subseteq Linked
    /\ \A n \in seen : at # NULL /\ (n # at => Toward(n, at) = 1 - loop)
    /\ stay \subseteq seen \cup Ahead(at, loop)

\* Where a loop goes next.
LEMMA LoopFollows ==
  ASSUME OrderInv, DictInv, LoopNext \/ LoopEnd
  PROVE  /\ loop \in Side /\ at \in Node /\ seen \subseteq Key
         /\ Foremost(Following, Ahead(at, loop), loop)
<1>1. loop # NULL /\ (at # NULL => tree.root # NULL)
  BY DEF LoopNext, LoopEnd, LoopAborts
<1>2. loop \in Side /\ at \in Node /\ seen \subseteq Key
  BY <1>1 DEF DictInv, DictTypeOK
<1> QED BY <1>1, <1>2, NeighbourIs DEF Following

LEMMA AheadFacts ==
  ASSUME NEW k \in Node, NEW d \in Side
  PROVE  /\ Ahead(k, d) \subseteq Linked /\ Ahead(k, d) \subseteq Key
         /\ k = NULL => Ahead(k, d) = Linked
         /\ k # NULL => \A n \in Key : n \in Ahead(k, d) <=> n \in Linked /\ n # k /\ Toward(n, k) = d
<1>1. k # NULL => k \in Key
  BY Nodes
<1> QED BY <1>1, AheadIs, LinkedInTree DEF Ahead, Linked

\* The next key was not seen before, and what was ahead is ahead of it.
LEMMA LoopAdvances ==
  ASSUME OrderInv, DictInv, LoopInv, LoopNext
  PROVE  at' \notin seen /\ LoopInv'
<1> DEFINE y == Following
           d == loop
<1>1. /\ loop # NULL /\ y # NULL /\ at' = y /\ seen' = seen \cup {y}
      /\ UNCHANGED <<vars, loop, stay>>
  BY DEF LoopNext
<1>2. d \in Side /\ at \in Node /\ seen \subseteq Key /\ Foremost(y, Ahead(at, d), d)
  BY LoopFollows
<1>3. /\ stay \subseteq Linked
      /\ \A n \in seen : at # NULL /\ (n # at => Toward(n, at) = 1 - d)
      /\ stay \subseteq seen \cup Ahead(at, d)
  BY <1>1 DEF LoopInv
<1> HIDE DEF y, d
<1>4. /\ y \in Ahead(at, d) /\ y \in Linked /\ y \in Key
      /\ \A m \in Ahead(at, d) : m # y => Toward(m, y) = d
  BY <1>1, <1>2, AheadFacts DEF Foremost
<1>5. 1 - d \in Side /\ 1 - d # d /\ 1 - (1 - d) = d
  BY <1>2, Sides
<1>6. at # NULL => at \in Key /\ y # at /\ Toward(y, at) = d /\ Toward(at, y) = 1 - d
  <2>1. at # NULL => at \in Key
    BY <1>2, Nodes
  <2>2. at # NULL => y # at /\ Toward(y, at) = d
    BY <1>2, <1>4, AheadFacts
  <2> QED BY <1>2, <1>4, <2>1, <2>2, TowardFacts
<1>7. \A n \in seen : n # y /\ Toward(n, y) = 1 - d
  <2> TAKE n \in seen
  <2>1. at # NULL /\ n \in Key /\ (n # at => Toward(n, at) = 1 - d)
    BY <1>2, <1>3
  <2>2. n # y
    BY <1>5, <1>6, <2>1
  <2> QED BY <1>4, <1>5, <1>6, <2>1, <2>2, TowardFacts
<1>8. \A n \in stay : n \in seen \cup {y} \/ n \in Ahead(y, d)
  <2> TAKE n \in stay
  <2>1. CASE n \in Ahead(at, d) /\ n # y
    <3>1. n \in Linked /\ n \in Key /\ Toward(n, y) = d
      BY <1>2, <1>4, <2>1, AheadFacts
    <3>2. y \in Node /\ y # NULL
      BY <1>4, Nodes
    <3> QED BY <1>2, <2>1, <3>1, <3>2, AheadFacts
  <2> QED BY <1>3, <2>1
<1>9. loop' = d /\ stay' = stay /\ Linked' = Linked
  BY <1>1 DEF d, vars, Linked
<1>10. \A n : n \in Ahead(y, d) => n \in Ahead(at, loop)'
  <2>1. Ahead(at, loop)' = IF at' = NULL THEN Linked'
                          ELSE {n \in Linked' : IF loop' = 1 THEN n > at' ELSE n < at'}
    BY DEF Ahead
  <2>2. Ahead(y, d) = IF y = NULL THEN Linked
                      ELSE {n \in Linked : IF d = 1 THEN n > y ELSE n < y}
    BY DEF Ahead
  <2> QED BY <1>1, <1>9, <2>1, <2>2
<1>11. stay' \subseteq Linked' /\ stay' \subseteq seen' \cup Ahead(at, loop)'
  BY <1>1, <1>3, <1>8, <1>9, <1>10
<1>12. \A n \in seen' : at' # NULL /\ (n # at' => Toward(n, at') = 1 - loop')
  BY <1>1, <1>7, <1>9
<1>13. LoopInv'
  BY <1>11, <1>12 DEF LoopInv, Toward
<1> QED BY <1>1, <1>7, <1>13


\* When no node is ahead, every key that was there all the time was seen.
LEMMA LoopFinishes ==
  ASSUME OrderInv, DictInv, LoopInv, LoopEnd
  PROVE  stay \subseteq seen
<1>1. loop # NULL /\ Following = NULL
  BY DEF LoopEnd
<1>2. /\ loop \in Side /\ at \in Node
      /\ Foremost(Following, Ahead(at, loop), loop)
  BY LoopFollows
<1>3. Ahead(at, loop) = {}
  BY <1>1, <1>2, AheadFacts, Nodes DEF Foremost
<1> QED BY <1>1, <1>3 DEF LoopInv

\* The dictionary may change while the loop stands still: a removed key is no
\* longer one of those that stay.
LEMMA LoopWaits ==
  ASSUME LoopInv, UNCHANGED <<loop, at, seen>>, stay' \subseteq stay, stay' \subseteq Linked'
  PROVE  LoopInv'
<1> SUFFICES ASSUME loop # NULL
             PROVE  /\ stay' \subseteq Linked'
                    /\ \A n \in seen : at # NULL /\ (n # at => Toward(n, at) = 1 - loop)
                    /\ stay' \subseteq seen \cup Ahead(at, loop)'
  BY DEF LoopInv, Toward
<1>1. /\ \A n \in seen : at # NULL /\ (n # at => Toward(n, at) = 1 - loop)
      /\ stay \subseteq seen \cup Ahead(at, loop)
  BY DEF LoopInv
<1>2. Ahead(at, loop)' = IF at = NULL THEN Linked'
                         ELSE {n \in Linked' : IF loop = 1 THEN n > at ELSE n < at}
  BY DEF Ahead
<1>3. Ahead(at, loop) = IF at = NULL THEN Linked
                        ELSE {n \in Linked : IF loop = 1 THEN n > at ELSE n < at}
  BY DEF Ahead
<1>4. \A n : n \in Ahead(at, loop) /\ n \in Linked' => n \in Ahead(at, loop)'
  BY <1>2, <1>3
<1> QED BY <1>1, <1>4

LEMMA LoopStep ==
  ASSUME OrderInv, DictInv, LoopInv, [DictNext]_dictvars
  PROVE  LoopInv'
<1>1. CASE loop = NULL /\ loop' = NULL
  BY <1>1 DEF LoopInv
<1>2. loop # NULL => stay \subseteq Linked
  BY DEF LoopInv
<1>3. ASSUME Linked \subseteq Linked', UNCHANGED cursor PROVE LoopInv'
  <2>1. CASE loop = NULL
    BY <1>1, <1>3, <2>1 DEF cursor
  <2>2. CASE loop # NULL
    <3>1. stay' \subseteq Linked' /\ stay' \subseteq stay /\ UNCHANGED <<loop, at, seen>>
      BY <1>2, <1>3, <2>2 DEF cursor
    <3> QED BY <3>1, LoopWaits
  <2> QED BY <2>1, <2>2
<1>4. CASE DictRearranges
  <2>1. UNCHANGED cursor
    BY <1>4 DEF DictRearranges, DictGet, DictDel, DictSet, Replace, Refused, Count, GetDone,
                DelMissing, Silent
  <2> QED BY <1>3, <1>4, <2>1, DictLinks
<1>5. CASE Add
  BY <1>3, <1>5, DictLinks DEF Add
<1>6. CASE Remove
  <2>1. stay' = stay \ {key} /\ UNCHANGED <<loop, at, seen>> /\ Linked' = Linked \ {key}
    BY <1>6, DictLinks DEF Remove
  <2>2. CASE loop = NULL
    BY <1>1, <2>1, <2>2
  <2>3. CASE loop # NULL
    BY <1>2, <2>1, <2>3, LoopWaits
  <2> QED BY <2>2, <2>3
<1>7. CASE \E d \in Loops : LoopBegin(d)
  <2>1. /\ at' = NULL /\ seen' = {} /\ stay' = Linked /\ UNCHANGED vars
    BY <1>7 DEF LoopBegin
  <2>2. Linked' = Linked
    BY <2>1, DictLinks
  <2>3. Ahead(at, loop)' = Linked'
    BY <2>1 DEF Ahead
  <2> QED BY <2>1, <2>2, <2>3 DEF LoopInv
<1>8. CASE LoopNext
  BY <1>8, LoopAdvances
<1>9. CASE LoopEnd
  BY <1>9 DEF LoopEnd, LoopInv
<1>10. CASE UNCHANGED dictvars
  BY <1>3, <1>10, DictLinks DEF dictvars
<1> QED BY <1>4, <1>5, <1>6, <1>7, <1>8, <1>9, <1>10 DEF DictNext, DictRearranges

\* However a @fordict loop's body changes the dictionary, whatever the keys, the
\* loop visits no key twice and ends having visited each that was there all the time.
THEOREM LoopsExact == DictSpec => LoopExact
<1> DEFINE Inv == OrderInv /\ DictInv /\ LoopInv
           Exact == (LoopNext => at' \notin seen) /\ (LoopEnd => stay \subseteq seen)
<1>1. DictInit => Inv
  BY OrderInit, DictStart DEF DictInit, LoopInv
<1>2. Inv /\ [DictNext]_dictvars => Inv'
  BY OrderStep, DictStepsTree, DictStep, LoopStep
<1>3. Inv => [Exact]_dictvars
  BY LoopAdvances, LoopFinishes
<1> HIDE DEF Inv
<1> QED BY <1>1, <1>2, <1>3, PTL DEF DictSpec, LoopExact
=============================================================================
