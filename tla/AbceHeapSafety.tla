--------------------------- MODULE AbceHeapSafety ---------------------------
(***************************************************************************)
(* The inductive invariant of AbceHeap: counts, table, scratch area and    *)
(* marks are in step at every point of a handler, a cascade or a           *)
(* collection; and the refinement of AbceStore.                            *)
(***************************************************************************)
EXTENDS AbceHeapProofs

-----------------------------------------------------------------------------
(* What refers to an object.                                               *)

Known == Objects \cup {Nil}
MarkedObjects == {o \in Objects : Marked(o)}
KnownMarked == MarkedObjects \cup {Nil}

One(a, o) == IF a = o THEN 1 ELSE 0

\* How often a root or a reference in the hands of the C code is o.
RootCount(o) ==
  Occurrences(stack, o) + Occurrences(cstack, o) + Occurrences(cache, o)
  + Occurrences(<<dynscope, errmb>>, o) + Occurrences(drops, o) + Occurrences(dn, o)
\* The references to o in the objects of P.
KidCount(P, o) == Cardinality(SlotsIn(kids, P, o))
CountFrom(P, o) == KidCount(P, o) + RootCount(o)

\* Every reference outside the objects is in S.
Held(S) ==
  /\ stack \in Seq(S) /\ cstack \in Seq(S) /\ cache \in Seq(S)
  /\ dynscope \in S /\ errmb \in S
  /\ drops \in Seq(S) /\ dn \in Seq(S)

\* The unmarked objects whose references the collector has taken off.
Done == {o \in Obj : Unmarked(o) /\ \E i \in DOMAIN tab : i < gci /\ tab[i] = o}

-----------------------------------------------------------------------------
(* The invariant.                                                          *)

InTable(o) == \E i \in DOMAIN tab : tab[i] = o
InScratch(o) == \E i \in DOMAIN scratch : scratch[i] = o

\* Only containers refer to anything; the one area that is not an object yet
\* is the one in hand.
Shape ==
  /\ \A o \in Obj : kind[o] \notin Containers => kids[o] = <<>>
  /\ \A o \in Obj : kind[o] = "raw" <=> o = hand
  /\ dying # Nil => kids[dying] = <<>>

\* An object is in exactly one place and a table entry knows its index.
Placed ==
  /\ \A i, j \in DOMAIN tab : tab[i] = tab[j] => i = j
  /\ \A i, j \in DOMAIN scratch : scratch[i] = scratch[j] => i = j
  /\ \A o \in Obj : o \in Objects <=> InTable(o) \/ InScratch(o) \/ o = dying
  /\ \A o \in Obj : InTable(o) => ~InScratch(o) /\ o # dying
  /\ \A o \in Obj : InScratch(o) => o # dying
  /\ \A o \in Obj : InScratch(o) \/ o = dying => kind[o] \in Containers /\ refcnt[o] = 0
  /\ \A i \in DOMAIN tab :
       locidx[tab[i]] = i \/ (pc \in {"mark", "refdn", "sweep"} /\ locidx[tab[i]] = MARK)

Fits == cap > 0 /\ Len(tab) + Len(scratch) <= cap

\* What is not a scope.
Simple == {"leaf", "array"} \cup Bare

\* What is in progress where: containers are taken apart only by a cascade, the
\* queue of marks is empty once everything is marked, an append still has its
\* array, and abce_free has no root left.
Phases ==
  /\ pc # "drop" => scratch = <<>> /\ dying = Nil /\ dn = <<>> /\ drops = <<>>
  /\ dn # <<>> => dying # Nil
  /\ pc # "mark" => gray = {}
  /\ pc \in {"alloc", "made", "alloced"} => op \in Creating \cup {"append"}
  /\ pc \in {"mark", "refdn", "sweep"} => op # "none"
  /\ pc = "down" => op = "free"
  /\ op \in {"create", "new"} => want \in Simple
  /\ op = "scope" => want = "scope"
  /\ op = "append" => At(2) # Nil /\ kind[At(2)] \in Arrays
  /\ op = "free" => /\ stack = <<>> /\ cstack = <<>> /\ cache = <<>>
                    /\ dynscope = Nil /\ errmb = Nil

\* No reference leads out of the objects.
HeldKnown == Held(Known)
KidsKnown ==
  pc \notin {"sweep", "down"} => \A o \in Obj : kids[o] \in Seq(Known)

\* Every scope is in the cache until abce_free empties it.
Pinned ==
  op # "free" => \A o \in Obj : kind[o] = "scope" => \E i \in DOMAIN cache : cache[i] = o

\* The counts, which the collector takes down object by object.
CountsExact ==
  /\ pc \notin {"refdn", "sweep", "down"} =>
       \A o \in Objects : refcnt[o] = CountFrom(Obj, o)
  /\ pc = "refdn" => \A o \in Objects : refcnt[o] = CountFrom(Obj \ Done, o)
  /\ pc = "sweep" => \A o \in Objects : refcnt[o] = CountFrom(MarkedObjects, o)

\* The marks: what is marked and out of the queue refers to marked objects only;
\* behind the marking the roots are marked, and nothing out of reach ever is.
Marks ==
  /\ gray \subseteq MarkedObjects
  /\ pc = "mark" => \A o \in MarkedObjects \ gray : kids[o] \in Seq(KnownMarked)
  /\ pc \in {"refdn", "sweep"} =>
       /\ RootSet \subseteq MarkedObjects
       /\ \A o \in MarkedObjects : kids[o] \in Seq(KnownMarked)
  /\ pc \in {"mark", "refdn", "sweep"} => MarkedObjects \subseteq Reachable
  /\ pc = "sweep" /\ op # "free" =>
       \A i \in DOMAIN tab : i < gci => Marked(tab[i])

HeapInv ==
  /\ Shape /\ Placed /\ Fits /\ Phases /\ HeldKnown /\ KidsKnown
  /\ Pinned /\ CountsExact /\ Marks /\ CollectedExactly
-----------------------------------------------------------------------------
(* Facts about the state that many steps need.                             *)

LEMMA OneType == \A a, o : One(a, o) \in Nat
BY DEF One

LEMMA OneNil ==
  ASSUME NEW o \in Obj PROVE One(Nil, o) = 0
BY HeapAssumption DEF One

LEMMA KnownIsRef == Known \subseteq Ref /\ Objects \subseteq Obj /\ Nil \in Known /\ Nil \notin Objects
BY HeapAssumption DEF Known, Ref, Objects

\* One more reference is counted exactly for the object it refers to.
LEMMA UpCounts ==
  ASSUME NEW rc \in [Obj -> Nat], NEW x \in Ref, NEW o \in Obj
  PROVE  Up(rc, x)[o] = rc[o] + One(x, o) /\ One(x, o) \in Nat
BY HeapAssumption DEF Up, Ref, One

\* The slots of the value stack, one by one.
LEMMA StackCounts ==
  ASSUME NEW S, stack \in Seq(S), NEW o
  PROVE  /\ N \in Nat /\ N = Len(stack)
         /\ \A d \in 1 .. N : At(d) \in S
         /\ \A d \in 0 .. N : /\ Below(d) \in Seq(S) /\ Len(Below(d)) = N - d
                              /\ Occurrences(Below(d), o) \in Nat
         /\ \A d \in 1 .. N : Occurrences(Below(d - 1), o)
                                = Occurrences(Below(d), o) + One(At(d), o)
         /\ Occurrences(Below(0), o) = Occurrences(stack, o)
<1>1. N \in Nat /\ N = Len(stack)
  BY DEF N
<1>2. \A d \in 1 .. N : At(d) \in S
  BY <1>1 DEF At
<1>3. ASSUME NEW d \in 0 .. N
      PROVE  Below(d) \in Seq(S) /\ Len(Below(d)) = N - d /\ Occurrences(Below(d), o) \in Nat
  <2>1. Below(d) \in Seq(S) /\ Len(Below(d)) = N - d
    BY <1>1 DEF Below
  <2> QED BY <2>1, OccurrencesType
<1>4. ASSUME NEW d \in 1 .. N
      PROVE  Occurrences(Below(d - 1), o) = Occurrences(Below(d), o) + One(At(d), o)
  <2>1. N - d + 1 \in 1 .. Len(stack) /\ N - (d - 1) = N - d + 1 /\ N - d + 1 - 1 = N - d
    BY <1>1
  <2> DEFINE n == N - d + 1
  <2>2. n \in 1 .. Len(stack) /\ n - 1 = N - d
    BY <1>1, <2>1
  <2> HIDE DEF n
  <2>3. Occurrences(SubSeq(stack, 1, n), o)
          = Occurrences(SubSeq(stack, 1, n - 1), o) + (IF stack[n] = o THEN 1 ELSE 0)
    BY <2>2, OccurrencesCut
  <2>4. Below(d - 1) = SubSeq(stack, 1, n) /\ Below(d) = SubSeq(stack, 1, n - 1) /\ At(d) = stack[n]
    BY <2>1, <2>2 DEF Below, At, n
  <2> QED BY <2>3, <2>4 DEF One
<1>5. Below(0) = stack
  BY <1>1 DEF Below
<1> QED BY <1>1, <1>2, <1>3, <1>4, <1>5

\* The top one, two or three slots apart.
LEMMA StackTop ==
  ASSUME NEW S, stack \in Seq(S), NEW o
  PROVE  /\ N >= 1 => Occurrences(stack, o) = Occurrences(Below(1), o) + One(At(1), o)
         /\ N >= 2 => Occurrences(stack, o)
                        = Occurrences(Below(2), o) + One(At(1), o) + One(At(2), o)
         /\ N >= 3 => Occurrences(stack, o)
                        = Occurrences(Below(3), o) + One(At(1), o) + One(At(2), o) + One(At(3), o)
<1>1. /\ N \in Nat
      /\ \A d \in 0 .. N : Occurrences(Below(d), o) \in Nat
      /\ \A d \in 1 .. N : Occurrences(Below(d - 1), o)
                             = Occurrences(Below(d), o) + One(At(d), o)
      /\ Occurrences(Below(0), o) = Occurrences(stack, o)
  BY StackCounts
<1>2. \A d : One(At(d), o) \in Nat
  BY OneType
<1>3. ASSUME N >= 1 PROVE Occurrences(stack, o) = Occurrences(Below(1), o) + One(At(1), o)
  <2>1. 1 \in 1 .. N /\ 1 - 1 = 0
    BY <1>1, <1>3
  <2> QED BY <1>1, <2>1
<1>4. ASSUME N >= 2
      PROVE  Occurrences(Below(1), o) = Occurrences(Below(2), o) + One(At(2), o)
  <2>1. 2 \in 1 .. N /\ 2 - 1 = 1
    BY <1>1, <1>4
  <2> QED BY <1>1, <2>1
<1>5. ASSUME N >= 3
      PROVE  Occurrences(Below(2), o) = Occurrences(Below(3), o) + One(At(3), o)
  <2>1. 3 \in 1 .. N /\ 3 - 1 = 2
    BY <1>1, <1>5
  <2> QED BY <1>1, <2>1
<1>6. /\ N >= 2 => 2 \in 0 .. N /\ 1 \in 0 .. N
      /\ N >= 3 => 3 \in 0 .. N
  BY <1>1
<1>7. N >= 2 => Occurrences(stack, o) = Occurrences(Below(2), o) + One(At(1), o) + One(At(2), o)
  BY <1>1, <1>2, <1>3, <1>4, <1>6
<1>8. N >= 3 => Occurrences(stack, o)
                  = Occurrences(Below(3), o) + One(At(1), o) + One(At(2), o) + One(At(3), o)
  <2> SUFFICES ASSUME N >= 3
               PROVE  Occurrences(stack, o)
                        = Occurrences(Below(3), o) + One(At(1), o) + One(At(2), o) + One(At(3), o)
    OBVIOUS
  <2> DEFINE w == Occurrences(stack, o)
             v == Occurrences(Below(2), o)
             u == Occurrences(Below(3), o)
             a == One(At(1), o)
             b == One(At(2), o)
             c == One(At(3), o)
  <2>1. /\ w = v + a + b /\ v = u + c
        /\ u \in Nat /\ a \in Nat /\ b \in Nat /\ c \in Nat
    <3>1. N >= 2
      BY <1>1
    <3> QED BY <1>1, <1>2, <1>5, <1>6, <1>7, <3>1
  <2> HIDE DEF w, v, u, a, b, c
  <2>2. w = u + a + b + c
    BY <2>1
  <2> QED BY <2>2 DEF w, u, a, b, c
<1> QED BY <1>3, <1>7, <1>8

\* Every place that can refer to an object is counted by a natural number.
LEMMA CountTypes ==
  ASSUME TypeOK, NEW o
  PROVE  /\ Occurrences(stack, o) \in Nat /\ Occurrences(cstack, o) \in Nat
         /\ Occurrences(cache, o) \in Nat /\ Occurrences(<<dynscope, errmb>>, o) \in Nat
         /\ Occurrences(drops, o) \in Nat /\ Occurrences(dn, o) \in Nat
         /\ \A P \in SUBSET Obj : KidCount(P, o) \in Nat
         /\ RootCount(o) \in Nat
<1>1. /\ Occurrences(stack, o) \in Nat /\ Occurrences(cstack, o) \in Nat
      /\ Occurrences(cache, o) \in Nat
      /\ Occurrences(drops, o) \in Nat /\ Occurrences(dn, o) \in Nat
  BY OccurrencesType DEF TypeOK, RootsOK, ControlOK
<1>2. <<dynscope, errmb>> \in Seq(Ref)
  BY DEF TypeOK, RootsOK
<1>3. Occurrences(<<dynscope, errmb>>, o) \in Nat
  BY <1>2, OccurrencesType
<1>4. ASSUME NEW P \in SUBSET Obj PROVE KidCount(P, o) \in Nat
  <2>1. IsFiniteSet(P)
    BY HeapAssumption, FS_Subset
  <2>2. \A p \in P : kids[p] \in Seq(Ref)
    BY DEF TypeOK, HeapOK
  <2> QED BY <2>1, <2>2, SlotsFinite DEF KidCount
<1> QED BY <1>1, <1>3, <1>4 DEF RootCount

LEMMA ShortCounts ==
  ASSUME NEW a, NEW b, NEW c, NEW d, NEW o
  PROVE  /\ Occurrences(<<a>>, o) = One(a, o)
         /\ Occurrences(<<a, b>>, o) = One(a, o) + One(b, o)
         /\ Occurrences(<<a, b, c>>, o) = One(a, o) + One(b, o) + One(c, o)
         /\ Occurrences(<<a, b, c, d>>, o)
              = One(a, o) + One(b, o) + One(c, o) + One(d, o)
<1> DEFINE S == {a, b, c, d}
<1>1. a \in S /\ b \in S /\ c \in S /\ d \in S
  OBVIOUS
<1> HIDE DEF S
<1>2. /\ Occurrences(<<a>>, o) = IF a = o THEN 1 ELSE 0
      /\ Occurrences(<<a, b>>, o)
           = (IF a = o THEN 1 ELSE 0) + (IF b = o THEN 1 ELSE 0)
      /\ Occurrences(<<a, b, c>>, o)
           = (IF a = o THEN 1 ELSE 0) + (IF b = o THEN 1 ELSE 0)
             + (IF c = o THEN 1 ELSE 0)
      /\ Occurrences(<<a, b, c, d>>, o)
           = (IF a = o THEN 1 ELSE 0) + (IF b = o THEN 1 ELSE 0)
             + (IF c = o THEN 1 ELSE 0) + (IF d = o THEN 1 ELSE 0)
  BY <1>1, OccurrencesShort
<1> QED BY <1>2 DEF One

LEMMA SingleCounts ==
  ASSUME NEW a, NEW o PROVE Occurrences(<<a>>, o) = One(a, o) /\ One(a, o) \in Nat
<1> DEFINE s == <<>>
           S == {a}
<1>1. a \in S /\ s \in Seq(S) /\ Occurrences(s, o) = 0
  BY OccurrencesEmpty
<1> HIDE DEF s, S
<1> DEFINE t == <<a>>
<1>2. t \in Seq(S) /\ Len(t) = Len(s) + 1 /\ t[Len(t)] = a /\ \A i \in 1 .. Len(s) : t[i] = s[i]
  BY <1>1 DEF s
<1> HIDE DEF t
<1>3. Occurrences(t, o) = Occurrences(s, o) + (IF t[Len(t)] = o THEN 1 ELSE 0)
  BY <1>1, <1>2, OccurrencesExtend
<1> QED BY <1>1, <1>2, <1>3 DEF One, t

LEMMA PairCounts ==
  ASSUME NEW a, NEW b, NEW o
  PROVE  Occurrences(<<a, b>>, o) = One(a, o) + One(b, o)
<1>1. /\ Occurrences(<<a>>, o) = One(a, o)
      /\ Occurrences(<<a, b>>, o) = One(a, o) + One(b, o)
      /\ Occurrences(<<a, b, a>>, o) = One(a, o) + One(b, o) + One(a, o)
      /\ Occurrences(<<a, b, a, a>>, o)
           = One(a, o) + One(b, o) + One(a, o) + One(a, o)
  BY ShortCounts
<1> QED BY <1>1

LEMMA TripleCounts ==
  ASSUME NEW a, NEW b, NEW c, NEW o
  PROVE  Occurrences(<<a, b, c>>, o) = One(a, o) + One(b, o) + One(c, o)
<1>1. /\ Occurrences(<<a>>, o) = One(a, o)
      /\ Occurrences(<<a, b>>, o) = One(a, o) + One(b, o)
      /\ Occurrences(<<a, b, c>>, o) = One(a, o) + One(b, o) + One(c, o)
      /\ Occurrences(<<a, b, c, a>>, o)
           = One(a, o) + One(b, o) + One(c, o) + One(a, o)
  BY ShortCounts
<1> QED BY <1>1

LEMMA FourCounts ==
  ASSUME NEW a, NEW b, NEW c, NEW d, NEW o
  PROVE  Occurrences(<<a, b, c, d>>, o) = One(a, o) + One(b, o) + One(c, o) + One(d, o)
<1>1. /\ Occurrences(<<a>>, o) = One(a, o)
      /\ Occurrences(<<a, b>>, o) = One(a, o) + One(b, o)
      /\ Occurrences(<<a, b, c>>, o) = One(a, o) + One(b, o) + One(c, o)
      /\ Occurrences(<<a, b, c, d>>, o) = One(a, o) + One(b, o) + One(c, o) + One(d, o)
  BY ShortCounts
<1> QED BY <1>1

\* One object changes its references: its share of the count is replaced.
LEMMA KidsChange ==
  ASSUME NEW P, IsFiniteSet(P), NEW K, NEW L, NEW q \in P,
         \A p \in P : K[p] \in Seq(Ref), \A p \in P : L[p] \in Seq(Ref),
         \A p \in P \ {q} : K[p] = L[p], NEW o
  PROVE  Cardinality(SlotsIn(L, P, o)) + Occurrences(K[q], o)
           = Cardinality(SlotsIn(K, P, o)) + Occurrences(L[q], o)
<1>1. /\ Cardinality(SlotsIn(K, P, o)) = Occurrences(K[q], o) + Cardinality(SlotsIn(K, P \ {q}, o))
      /\ Cardinality(SlotsIn(L, P, o)) = Occurrences(L[q], o) + Cardinality(SlotsIn(L, P \ {q}, o))
  BY SlotsSplit
<1>2. SlotsIn(K, P \ {q}, o) = SlotsIn(L, P \ {q}, o)
  BY SlotsSame
<1>3. Occurrences(K[q], o) \in Nat /\ Occurrences(L[q], o) \in Nat
  BY OccurrencesType
<1>4. IsFiniteSet(P \ {q})
  BY FS_RemoveElement
<1>5. Cardinality(SlotsIn(K, P \ {q}, o)) \in Nat
  BY <1>4, SlotsFinite
<1> QED BY <1>1, <1>2, <1>3, <1>5

-----------------------------------------------------------------------------
(* Handlers and allocations that leave every object where it is.           *)

\* The references to o while no container is being taken apart.
Explained(o) ==
  Cardinality(SlotsIn(kids, Obj, o))
  + Occurrences(stack, o) + Occurrences(cstack, o) + Occurrences(cache, o)
  + One(dynscope, o) + One(errmb, o) + Occurrences(drops, o)

\* ExplainedCount before and after a step.
LEMMA ExplainedCount ==
  ASSUME TypeOK, NEW o
  PROVE  CountFrom(Obj, o) = Explained(o) + Occurrences(dn, o) /\ Explained(o) \in Nat
<1> DEFINE k == Cardinality(SlotsIn(kids, Obj, o))
           n1 == Occurrences(stack, o)
           n2 == Occurrences(cstack, o)
           n3 == Occurrences(cache, o)
           n4 == Occurrences(drops, o)
           n5 == Occurrences(dn, o)
           u == One(dynscope, o)
           v == One(errmb, o)
           p == Occurrences(<<dynscope, errmb>>, o)
<1>1. \A q \in Obj : kids[q] \in Seq(Ref)
  BY DEF TypeOK, HeapOK
<1>2. k \in Nat
  BY <1>1, HeapAssumption, SlotsFinite
<1>3. n1 \in Nat /\ n2 \in Nat /\ n3 \in Nat /\ n4 \in Nat /\ n5 \in Nat
  BY OccurrencesType DEF TypeOK, RootsOK, ControlOK
<1>4. u \in Nat /\ v \in Nat /\ p = u + v
  BY OneType, PairCounts
<1>5. CountFrom(Obj, o) = k + (n1 + n2 + n3 + p + n4 + n5)
  BY Zenon DEF CountFrom, KidCount, RootCount
<1>6. Explained(o) = k + n1 + n2 + n3 + u + v + n4
  BY Zenon DEF Explained
<1> HIDE DEF k, n1, n2, n3, n4, n5, u, v, p
<1>7. /\ k + (n1 + n2 + n3 + p + n4 + n5) = (k + n1 + n2 + n3 + u + v + n4) + n5
      /\ k + n1 + n2 + n3 + u + v + n4 \in Nat
  BY <1>2, <1>3, <1>4
<1> QED BY <1>5, <1>6, <1>7 DEF n5

LEMMA ExplainedCountNext ==
  ASSUME TypeOK', NEW o
  PROVE  CountFrom(Obj, o)' = Explained(o)' + Occurrences(dn', o) /\ Explained(o)' \in Nat
<1> DEFINE k == Cardinality(SlotsIn(kids', Obj, o))
           n1 == Occurrences(stack', o)
           n2 == Occurrences(cstack', o)
           n3 == Occurrences(cache', o)
           n4 == Occurrences(drops', o)
           n5 == Occurrences(dn', o)
           u == One(dynscope', o)
           v == One(errmb', o)
           p == Occurrences(<<dynscope', errmb'>>, o)
<1>1. \A q \in Obj : kids'[q] \in Seq(Ref)
  BY DEF TypeOK, HeapOK
<1>2. k \in Nat
  BY <1>1, HeapAssumption, SlotsFinite
<1>3. n1 \in Nat /\ n2 \in Nat /\ n3 \in Nat /\ n4 \in Nat /\ n5 \in Nat
  BY OccurrencesType DEF TypeOK, RootsOK, ControlOK
<1>4. u \in Nat /\ v \in Nat /\ p = u + v
  BY OneType, PairCounts
<1>5. CountFrom(Obj, o)' = k + (n1 + n2 + n3 + p + n4 + n5)
  BY Zenon DEF CountFrom, KidCount, RootCount
<1>6. Explained(o)' = k + n1 + n2 + n3 + u + v + n4
  BY Zenon DEF Explained
<1> HIDE DEF k, n1, n2, n3, n4, n5, u, v, p
<1>7. /\ k + (n1 + n2 + n3 + p + n4 + n5) = (k + n1 + n2 + n3 + u + v + n4) + n5
      /\ k + n1 + n2 + n3 + u + v + n4 \in Nat
  BY <1>2, <1>3, <1>4
<1> QED BY <1>5, <1>6, <1>7 DEF n5

LEMMA CountTypesNext ==
  ASSUME TypeInv', NEW o
  PROVE  /\ Occurrences(stack', o) \in Nat /\ Occurrences(cstack', o) \in Nat
         /\ Occurrences(cache', o) \in Nat
         /\ Occurrences(drops', o) \in Nat /\ Occurrences(dn', o) \in Nat
BY OccurrencesType DEF TypeInv, TypeOK, RootsOK, ControlOK

\* Between operations every count is explained, and nothing is in progress.
LEMMA Quiet ==
  ASSUME TypeInv, HeapInv, pc \in {"run", "alloc", "alloced", "made"}
  PROVE  /\ drops = <<>> /\ dn = <<>> /\ scratch = <<>> /\ dying = Nil /\ gray = {}
         /\ Held(Known) /\ \A o \in Obj : kids[o] \in Seq(Known)
         /\ \A o \in Objects : refcnt[o] = Explained(o)
         /\ \A o : /\ Cardinality(SlotsIn(kids, Obj, o)) \in Nat
                   /\ Occurrences(stack, o) \in Nat /\ Occurrences(cstack, o) \in Nat
                   /\ Occurrences(cache, o) \in Nat /\ Occurrences(drops, o) = 0
         /\ \A a, o : One(a, o) \in Nat
<1>1. drops = <<>> /\ dn = <<>> /\ scratch = <<>> /\ dying = Nil /\ gray = {}
  BY DEF HeapInv, Phases
<1>2. Held(Known) /\ \A o \in Obj : kids[o] \in Seq(Known)
  BY DEF HeapInv, HeldKnown, KidsKnown
<1>3. ASSUME NEW o \in Objects PROVE refcnt[o] = Explained(o)
  <2>1. refcnt[o] = CountFrom(Obj, o)
    BY DEF HeapInv, CountsExact
  <2>2. Occurrences(dn, o) = 0
    BY <1>1, OccurrencesEmpty
  <2>3. CountFrom(Obj, o) = Explained(o) + Occurrences(dn, o)
    BY ExplainedCount DEF TypeInv
  <2>4. Explained(o) \in Nat
    BY ExplainedCount DEF TypeInv
  <2> QED BY <2>1, <2>2, <2>3, <2>4
<1>4. ASSUME NEW o
      PROVE  /\ Cardinality(SlotsIn(kids, Obj, o)) \in Nat
             /\ Occurrences(stack, o) \in Nat /\ Occurrences(cstack, o) \in Nat
             /\ Occurrences(cache, o) \in Nat /\ Occurrences(drops, o) = 0
  BY <1>1, CountTypes, OccurrencesEmpty DEF KidCount, TypeInv
<1> QED BY <1>1, <1>2, <1>3, <1>4, OneType

\* A step may give a bare array its storage.
SameKinds ==
  \A o \in Obj : /\ kind'[o] \in Containers <=> kind[o] \in Containers
                 /\ kind'[o] = "scope" <=> kind[o] = "scope"
                 /\ kind'[o] = "raw" <=> kind[o] = "raw"
                 /\ kind'[o] = "free" <=> kind[o] = "free"

\* What such a step has to show.
LEMMA StorageMutation ==
  ASSUME TypeInv, TypeInv', HeapInv,
         pc \in {"run", "alloc", "alloced"}, pc' \in {"run", "drop"}, op' = "none",
         pc' = "run" => drops' = <<>>,
         UNCHANGED <<locidx, tab, scratch, cache, hand, tear, gcl>>, SameKinds,
         cap' >= cap,
         stack' \in Seq(Known), cstack' \in Seq(Known), drops' \in Seq(Known),
         dynscope' \in Known, errmb' \in Known,
         \A o \in Obj : kids'[o] \in Seq(Known),
         \A o \in Obj : kind[o] \notin Containers => kids'[o] = <<>>,
         \A o \in Objects : refcnt'[o] = Explained(o)'
  PROVE  HeapInv'
<1>1. /\ drops = <<>> /\ dn = <<>> /\ scratch = <<>> /\ dying = Nil /\ gray = {}
      /\ Held(Known)
  BY Quiet
<1>2. /\ dn' = <<>> /\ scratch' = <<>> /\ dying' = Nil /\ gray' = {}
      /\ Known' = Known /\ Objects' = Objects
  BY <1>1 DEF tear, gcl, Known, Objects, SameKinds
<1>3. Shape'
  BY <1>2 DEF HeapInv, Shape, SameKinds
<1>4. Placed'
  <2>1. /\ \A i, j \in DOMAIN tab : tab[i] = tab[j] => i = j
        /\ \A o \in Obj : o \in Objects <=> InTable(o) \/ InScratch(o) \/ o = dying
        /\ \A o \in Obj : InTable(o) => ~InScratch(o) /\ o # dying
        /\ \A o \in Obj : InScratch(o) => o # dying
        /\ \A i \in DOMAIN tab : locidx[tab[i]] = i
    BY DEF HeapInv, Placed
  <2>2. \A o \in Obj : (InTable(o) <=> InTable(o)') /\ (InScratch(o) <=> InScratch(o)')
    BY DEF InTable, InScratch
  <2>3. \A o \in Obj : ~InScratch(o)
    BY <1>1 DEF InScratch
  <2>4. \A o \in Obj : o # dying'
    BY <1>2, HeapAssumption
  <2>5. \A i, j \in DOMAIN scratch' : scratch'[i] = scratch'[j] => i = j
    BY <1>2
  <2> QED BY <1>1, <1>2, <2>1, <2>2, <2>3, <2>4, <2>5 DEF Placed, SameKinds
<1>5. Fits'
  BY DEF HeapInv, Fits, TypeInv, TypeOK, HeapOK
<1>6. Phases'
  BY <1>2 DEF Phases, Creating
<1>7. HeldKnown'
  BY <1>1, <1>2 DEF HeldKnown, Held
<1>8. KidsKnown'
  BY <1>2 DEF KidsKnown
<1>9. Pinned'
  <2>1. op # "free"
    BY DEF TypeInv, Progress, HeapInv, Phases, Creating
  <2> QED BY <2>1 DEF HeapInv, Pinned, SameKinds
<1>10. CountsExact'
  <2>1. ASSUME NEW o \in Objects PROVE refcnt'[o] = CountFrom(Obj, o)'
    <3>1. CountFrom(Obj, o)' = Explained(o)' + Occurrences(dn', o)
      BY ExplainedCountNext DEF TypeInv
    <3>2. Occurrences(dn', o) = 0
      BY <1>2, OccurrencesEmpty
    <3>3. refcnt'[o] \in Nat /\ refcnt'[o] = Explained(o)'
      BY KnownIsRef DEF TypeInv, TypeOK, HeapOK
    <3> QED BY <3>1, <3>2, <3>3
  <2> QED BY <1>2, <2>1 DEF CountsExact
<1>11. Marks'
  BY <1>2 DEF Marks
<1>12. CollectedExactly'
  BY DEF CollectedExactly
<1> QED BY <1>3, <1>4, <1>5, <1>6, <1>7, <1>8, <1>9, <1>10, <1>11, <1>12 DEF HeapInv

LEMMA Mutation ==
  ASSUME TypeInv, TypeInv', HeapInv,
         pc \in {"run", "alloc", "alloced"}, pc' \in {"run", "drop"}, op' = "none",
         pc' = "run" => drops' = <<>>,
         UNCHANGED <<kind, locidx, tab, scratch, cache, hand, tear, gcl>>,
         cap' >= cap,
         stack' \in Seq(Known), cstack' \in Seq(Known), drops' \in Seq(Known),
         dynscope' \in Known, errmb' \in Known,
         \A o \in Obj : kids'[o] \in Seq(Known),
         \A o \in Obj : kind[o] \notin Containers => kids'[o] = <<>>,
         \A o \in Objects : refcnt'[o] = Explained(o)'
  PROVE  HeapInv'
<1>1. SameKinds
  BY DEF SameKinds
<1> QED BY <1>1, StorageMutation

\* The count of one object, and that all its parts are numbers.
CountsAt(o) ==
  /\ refcnt[o] = Explained(o) /\ refcnt[o] \in Nat
  /\ Cardinality(SlotsIn(kids, Obj, o)) \in Nat
  /\ Occurrences(stack, o) \in Nat /\ Occurrences(cstack, o) \in Nat
  /\ Occurrences(cache, o) \in Nat /\ Occurrences(drops, o) = 0
  /\ One(dynscope, o) \in Nat /\ One(errmb, o) \in Nat /\ One(Nil, o) = 0

LEMMA QuietAt ==
  ASSUME TypeInv, HeapInv, pc \in {"run", "alloc", "alloced", "made"}, NEW o \in Objects
  PROVE  CountsAt(o)
<1>1. o \in Obj
  BY KnownIsRef
<1>2. refcnt[o] \in Nat
  BY <1>1 DEF TypeInv, TypeOK, HeapOK
<1> QED BY <1>1, <1>2, Quiet, OneNil DEF CountsAt

\* A step that moves references between contents, stacks and drops explains the
\* count again when it changes by what these sum up to.
LEMMA Balance ==
  ASSUME NEW o, CountsAt(o), UNCHANGED <<cache, dynscope, errmb>>, refcnt'[o] \in Nat,
         Cardinality(SlotsIn(kids', Obj, o)) \in Nat,
         Occurrences(stack', o) \in Nat, Occurrences(cstack', o) \in Nat,
         Occurrences(drops', o) \in Nat,
         refcnt'[o] + (Cardinality(SlotsIn(kids, Obj, o)) + Occurrences(stack, o) + Occurrences(cstack, o))
           = refcnt[o] + (Cardinality(SlotsIn(kids', Obj, o)) + Occurrences(stack', o)
                          + Occurrences(cstack', o) + Occurrences(drops', o))
  PROVE  refcnt'[o] = Explained(o)'
<1> DEFINE k == Cardinality(SlotsIn(kids, Obj, o))
           s == Occurrences(stack, o)
           c == Occurrences(cstack, o)
           h == Occurrences(cache, o)
           u == One(dynscope, o)
           v == One(errmb, o)
           d == Occurrences(drops, o)
           n == refcnt[o]
           k1 == Cardinality(SlotsIn(kids', Obj, o))
           s1 == Occurrences(stack', o)
           c1 == Occurrences(cstack', o)
           d1 == Occurrences(drops', o)
           n1 == refcnt'[o]
<1>1. Explained(o) = k + s + c + h + u + v + d
  BY Zenon DEF Explained
<1>2. Explained(o)' = k1 + s1 + c1 + h + u + v + d1
  BY Zenon DEF Explained, One
<1>3. /\ n = Explained(o) /\ n \in Nat /\ k \in Nat /\ s \in Nat /\ c \in Nat /\ h \in Nat
      /\ u \in Nat /\ v \in Nat /\ d = 0
  BY DEF CountsAt
<1>4. /\ k1 \in Nat /\ s1 \in Nat /\ c1 \in Nat /\ d1 \in Nat /\ n1 \in Nat
      /\ n1 + (k + s + c) = n + (k1 + s1 + c1 + d1)
  OBVIOUS
<1> HIDE DEF k, s, c, h, u, v, d, n, k1, s1, c1, d1, n1
<1>5. n1 = k1 + s1 + c1 + h + u + v + d1
  BY <1>1, <1>3, <1>4
<1> QED BY <1>2, <1>5 DEF n1

\* The same for a step that moves references on the value stack only.
LEMMA StackBalance ==
  ASSUME NEW o, CountsAt(o), UNCHANGED <<kids, cstack, cache, dynscope, errmb>>, refcnt'[o] \in Nat,
         Occurrences(stack', o) \in Nat, Occurrences(drops', o) \in Nat,
         refcnt'[o] + Occurrences(stack, o)
           = refcnt[o] + Occurrences(stack', o) + Occurrences(drops', o)
  PROVE  refcnt'[o] = Explained(o)'
<1> DEFINE k == Cardinality(SlotsIn(kids, Obj, o))
           s == Occurrences(stack, o)
           c == Occurrences(cstack, o)
           n == refcnt[o]
           s1 == Occurrences(stack', o)
           d1 == Occurrences(drops', o)
           n1 == refcnt'[o]
<1>1. /\ Cardinality(SlotsIn(kids', Obj, o)) = k /\ Occurrences(cstack', o) = c
      /\ k \in Nat /\ c \in Nat /\ s \in Nat /\ n \in Nat /\ s1 \in Nat /\ d1 \in Nat /\ n1 \in Nat
      /\ n1 + s = n + s1 + d1
  BY DEF CountsAt
<1> HIDE DEF k, s, c, n, s1, d1, n1
<1>2. n1 + (k + s + c) = n + (k + s1 + c + d1)
  BY <1>1
<1> QED BY <1>1, <1>2, Balance DEF k, s, c, n, s1, d1, n1

\* One more entry behind a sequence.
LEMMA AppendCounts ==
  ASSUME NEW S, NEW s \in Seq(S), NEW x \in S, NEW o
  PROVE  /\ Append(s, x) \in Seq(S)
         /\ Occurrences(Append(s, x), o) = Occurrences(s, o) + One(x, o)
         /\ Occurrences(s, o) \in Nat /\ One(x, o) \in Nat
BY OccurrencesAppend, OccurrencesType DEF One

\* One entry overwritten.
LEMMA ReplaceCounts ==
  ASSUME NEW S, NEW s \in Seq(S), NEW t \in Seq(S), Len(t) = Len(s), NEW o,
         NEW k \in 1 .. Len(s), \A i \in 1 .. Len(s) : i # k => t[i] = s[i]
  PROVE  Occurrences(t, o) + One(s[k], o) = Occurrences(s, o) + One(t[k], o)
BY OccurrencesReplace DEF One

\* The operand slots and what they hold.
LEMMA Operands ==
  ASSUME TypeInv, HeapInv, pc \in {"run", "alloc", "alloced", "made"}
  PROVE  /\ N \in Nat /\ N = Len(stack)
         /\ stack \in Seq(Known) /\ cstack \in Seq(Known) /\ cache \in Seq(Known)
         /\ dynscope \in Known /\ errmb \in Known /\ Nil \in Known
         /\ drops = <<>> /\ drops \in Seq(Known)
         /\ \A o \in Obj : kids[o] \in Seq(Known)
         /\ \A o \in Obj : kind[o] \notin Containers => kids[o] = <<>>
         /\ cap \in Nat
         /\ \A d \in 1 .. N : At(d) \in Known
         /\ \A d \in 0 .. N : Below(d) \in Seq(Known)
<1>1. /\ Held(Known) /\ \A o \in Obj : kids[o] \in Seq(Known)
      /\ drops = <<>>
  BY Quiet
<1>2. /\ N \in Nat /\ N = Len(stack)
      /\ \A d \in 1 .. N : At(d) \in Known
      /\ \A d \in 0 .. N : Below(d) \in Seq(Known)
  BY <1>1, StackCounts DEF Held
<1> QED BY <1>1, <1>2, KnownIsRef DEF Held, HeapInv, Shape, TypeInv, TypeOK, HeapOK

LEMMA PushNilSafe ==
  ASSUME TypeInv, TypeInv', HeapInv, PushNil
  PROVE  HeapInv'
<1>1. /\ pc = "run" /\ op = "none" /\ stack' = Append(stack, Nil)
      /\ UNCHANGED <<heap, cstack, cache, dynscope, errmb, pc, ctl, tear, gcl>>
  BY DEF PushNil, Engine, Idle, TypeInv, Progress
<1>2. stack' \in Seq(Known)
  BY <1>1, Operands
<1>3. ASSUME NEW o \in Objects PROVE refcnt'[o] = Explained(o)'
  <2>1. Occurrences(stack', o) = Occurrences(stack, o) + One(Nil, o)
    BY <1>1, Operands, AppendCounts
  <2>2. CountsAt(o)
    BY <1>1, QuietAt
  <2> QED BY <1>1, <2>1, <2>2 DEF CountsAt, Explained, heap, ctl
<1> QED BY <1>1, <1>2, <1>3, Operands, Mutation DEF heap, ctl

LEMMA PopSafe ==
  ASSUME TypeInv, TypeInv', HeapInv, Pop
  PROVE  HeapInv'
<1>1. /\ pc = "run" /\ op = "none" /\ N >= 1
      /\ stack' = Below(1) /\ drops' = <<At(1)>> /\ pc' = "drop"
      /\ UNCHANGED <<heap, cstack, cache, dynscope, errmb, op, want, hand, tear, gcl>>
  BY DEF Pop, Engine, Idle, Release, TypeInv, Progress
<1>2. /\ stack' \in Seq(Known) /\ drops' \in Seq(Known)
  BY <1>1, Operands
<1>3. ASSUME NEW o \in Objects PROVE refcnt'[o] = Explained(o)'
  <2>1. /\ Occurrences(stack, o) = Occurrences(stack', o) + One(At(1), o)
        /\ Occurrences(drops', o) = One(At(1), o) /\ One(At(1), o) \in Nat
        /\ Occurrences(stack', o) \in Nat
    BY <1>1, <1>2, Operands, StackTop, SingleCounts, OccurrencesType
  <2>2. CountsAt(o)
    BY <1>1, QuietAt
  <2> QED BY <1>1, <2>1, <2>2 DEF CountsAt, Explained, heap
<1> QED BY <1>1, <1>2, <1>3, Operands, Mutation DEF heap

LEMMA TypeErrorSafe ==
  ASSUME TypeInv, TypeInv', HeapInv, NEW d \in 1 .. 3, TypeError(d)
  PROVE  HeapInv'
<1>1. /\ pc = "run" /\ op = "none" /\ N >= d /\ errmb = Nil
      /\ errmb' = At(d) /\ refcnt' = Up(refcnt, At(d))
      /\ UNCHANGED <<kind, kids, locidx, tab, scratch, cap, stack, cstack, cache,
                     dynscope, pc, ctl, tear, gcl>>
  BY DEF TypeError, Engine, Idle, TypeInv, Progress
<1>2. At(d) \in Known /\ At(d) \in Ref
  BY <1>1, Operands, KnownIsRef
<1>3. ASSUME NEW o \in Objects PROVE refcnt'[o] = Explained(o)'
  <2>1. refcnt'[o] = refcnt[o] + One(At(d), o) /\ One(At(d), o) \in Nat
    BY <1>1, <1>2, UpCounts, KnownIsRef DEF TypeInv, TypeOK, HeapOK
  <2>2. CountsAt(o)
    BY <1>1, QuietAt
  <2> QED BY <1>1, <2>1, <2>2 DEF CountsAt, Explained, ctl
<1> QED BY <1>1, <1>2, <1>3, Operands, Mutation DEF ctl

LEMMA ErrFreeSafe ==
  ASSUME TypeInv, TypeInv', HeapInv, ErrFree
  PROVE  HeapInv'
<1>1. /\ pc = "run" /\ op = "none" /\ errmb' = Nil /\ drops' = <<errmb>> /\ pc' = "drop"
      /\ UNCHANGED <<heap, stack, cstack, cache, dynscope, op, want, hand, tear, gcl>>
  BY DEF ErrFree, Idle, Release, TypeInv, Progress
<1>2. drops' \in Seq(Known)
  BY <1>1, Operands
<1>3. ASSUME NEW o \in Objects PROVE refcnt'[o] = Explained(o)'
  <2>1. Occurrences(drops', o) = One(errmb, o)
    BY <1>1, SingleCounts
  <2>2. CountsAt(o)
    BY <1>1, QuietAt
  <2> QED BY <1>1, <2>1, <2>2 DEF CountsAt, Explained, heap
<1> QED BY <1>1, <1>2, <1>3, Operands, Mutation DEF heap

LEMMA ReplaceTopSafe ==
  ASSUME TypeInv, TypeInv', HeapInv, NEW r \in Known, ReplaceTop(r)
  PROVE  HeapInv'
<1>1. /\ pc = "run" /\ op = "none" /\ N >= 1 /\ At(1) = Nil
      /\ stack' = Append(Below(1), r) /\ refcnt' = Up(refcnt, r)
      /\ UNCHANGED <<kind, kids, locidx, tab, scratch, cap, cstack, cache,
                     dynscope, errmb, pc, ctl, tear, gcl>>
  BY DEF ReplaceTop, Engine, Idle, TypeInv, Progress
<1>2. Below(1) \in Seq(Known) /\ stack' \in Seq(Known) /\ r \in Ref
  BY <1>1, Operands, KnownIsRef
<1>3. ASSUME NEW o \in Objects PROVE refcnt'[o] = Explained(o)'
  <2>1. /\ Occurrences(stack, o) = Occurrences(Below(1), o) + One(At(1), o)
        /\ Occurrences(stack', o) = Occurrences(Below(1), o) + One(r, o)
        /\ Occurrences(Below(1), o) \in Nat
    BY <1>1, <1>2, Operands, StackTop, AppendCounts
  <2>2. refcnt'[o] = refcnt[o] + One(r, o) /\ One(r, o) \in Nat
    BY <1>1, <1>2, UpCounts, KnownIsRef DEF TypeInv, TypeOK, HeapOK
  <2>3. CountsAt(o)
    BY <1>1, QuietAt
  <2>4. One(At(1), o) = 0 /\ refcnt[o] \in Nat /\ Occurrences(drops', o) = 0
    BY <1>1, <2>3 DEF CountsAt, ctl
  <2>5. /\ refcnt'[o] \in Nat /\ Occurrences(stack', o) \in Nat
        /\ refcnt'[o] + Occurrences(stack, o)
             = refcnt[o] + Occurrences(stack', o) + Occurrences(drops', o)
    <3> DEFINE s == Occurrences(stack, o)
               s1 == Occurrences(stack', o)
               b == Occurrences(Below(1), o)
               g == One(r, o)
               n == refcnt[o]
               n1 == refcnt'[o]
    <3>1. s = b /\ s1 = b + g /\ n1 = n + g /\ b \in Nat /\ g \in Nat /\ n \in Nat
      BY <2>1, <2>2, <2>4
    <3> HIDE DEF s, s1, b, g, n, n1
    <3>2. n1 \in Nat /\ s1 \in Nat /\ n1 + s = n + s1 + 0
      BY <3>1
    <3> QED BY <2>4, <3>2 DEF s, s1, n, n1
  <2> QED BY <1>1, <2>3, <2>4, <2>5, StackBalance
<1> QED BY <1>1, <1>2, <1>3, Operands, Mutation DEF ctl

LEMMA GetScopeDynSafe ==
  ASSUME TypeInv, TypeInv', HeapInv, GetScopeDyn
  PROVE  HeapInv'
<1>1. /\ pc = "run" /\ op = "none"
      /\ stack' = Append(stack, dynscope) /\ refcnt' = Up(refcnt, dynscope)
      /\ UNCHANGED <<kind, kids, locidx, tab, scratch, cap, cstack, cache,
                     dynscope, errmb, pc, ctl, tear, gcl>>
  BY DEF GetScopeDyn, Engine, Idle, TypeInv, Progress
<1>2. stack' \in Seq(Known) /\ dynscope \in Ref
  BY <1>1, Operands, KnownIsRef
<1>3. ASSUME NEW o \in Objects PROVE refcnt'[o] = Explained(o)'
  <2>1. Occurrences(stack', o) = Occurrences(stack, o) + One(dynscope, o)
    BY <1>1, Operands, AppendCounts
  <2>2. refcnt'[o] = refcnt[o] + One(dynscope, o) /\ One(dynscope, o) \in Nat
    BY <1>1, <1>2, UpCounts, KnownIsRef DEF TypeInv, TypeOK, HeapOK
  <2>3. CountsAt(o)
    BY <1>1, QuietAt
  <2>4. /\ refcnt[o] \in Nat /\ Occurrences(drops', o) = 0 /\ Occurrences(stack, o) \in Nat
    BY <1>1, <2>3 DEF CountsAt, ctl
  <2>5. /\ refcnt'[o] \in Nat /\ Occurrences(stack', o) \in Nat
        /\ refcnt'[o] + Occurrences(stack, o)
             = refcnt[o] + Occurrences(stack', o) + Occurrences(drops', o)
    BY <2>1, <2>2, <2>4
  <2> QED BY <1>1, <2>3, <2>4, <2>5, StackBalance
<1> QED BY <1>1, <1>2, <1>3, Operands, Mutation DEF ctl

LEMMA PushCSafe ==
  ASSUME TypeInv, TypeInv', HeapInv, PushC
  PROVE  HeapInv'
<1> DEFINE x == cstack[Len(cstack)]
<1>1. /\ pc = "run" /\ op = "none" /\ cstack # <<>>
      /\ stack' = Append(stack, x) /\ refcnt' = Up(refcnt, x)
      /\ UNCHANGED <<kind, kids, locidx, tab, scratch, cap, cstack, cache,
                     dynscope, errmb, pc, ctl, tear, gcl>>
  BY DEF PushC, Idle, TypeInv, Progress
<1>2. x \in Known
  BY <1>1, Operands
<1> HIDE DEF x
<1>3. stack' \in Seq(Known) /\ x \in Ref
  BY <1>1, <1>2, Operands, KnownIsRef
<1>4. ASSUME NEW o \in Objects PROVE refcnt'[o] = Explained(o)'
  <2>1. Occurrences(stack', o) = Occurrences(stack, o) + One(x, o)
    BY <1>1, <1>2, Operands, AppendCounts
  <2>2. refcnt'[o] = refcnt[o] + One(x, o) /\ One(x, o) \in Nat
    BY <1>1, <1>3, UpCounts, KnownIsRef DEF TypeInv, TypeOK, HeapOK
  <2>3. CountsAt(o)
    BY <1>1, QuietAt
  <2> QED BY <1>1, <2>1, <2>2, <2>3, SMTT(30) DEF CountsAt, Explained, ctl
<1> QED BY <1>1, <1>3, <1>4, Operands, Mutation DEF ctl

LEMMA CPopSafe ==
  ASSUME TypeInv, TypeInv', HeapInv, CPop
  PROVE  HeapInv'
<1> DEFINE x == cstack[Len(cstack)]
<1>1. /\ pc = "run" /\ op = "none" /\ cstack # <<>> /\ pc' = "drop"
      /\ cstack' = SubSeq(cstack, 1, Len(cstack) - 1) /\ drops' = <<x>>
      /\ UNCHANGED <<heap, stack, cache, dynscope, errmb, op, want, hand, tear, gcl>>
  BY DEF CPop, Idle, Release, TypeInv, Progress
<1>2. x \in Known /\ cstack' \in Seq(Known)
  BY <1>1, Operands
<1>3. ASSUME NEW o \in Objects PROVE refcnt'[o] = Explained(o)'
  <2>1. Occurrences(cstack, o) = Occurrences(cstack', o) + One(x, o)
    BY <1>1, Operands, OccurrencesFront DEF One
  <2>2. Occurrences(drops', o) = One(x, o) /\ One(x, o) \in Nat /\ Occurrences(cstack', o) \in Nat
    BY <1>1, <1>2, SingleCounts, OccurrencesType
  <2>3. CountsAt(o)
    BY <1>1, QuietAt
  <2> DEFINE k == Cardinality(SlotsIn(kids, Obj, o))
             s == Occurrences(stack, o)
             c == Occurrences(cstack, o)
             c1 == Occurrences(cstack', o)
             d1 == Occurrences(drops', o)
             n == refcnt[o]
  <2>4. /\ refcnt'[o] = n /\ Cardinality(SlotsIn(kids', Obj, o)) = k /\ Occurrences(stack', o) = s
        /\ UNCHANGED <<cache, dynscope, errmb>>
    BY <1>1 DEF heap
  <2>5. k \in Nat /\ s \in Nat /\ n \in Nat /\ c = c1 + d1 /\ d1 \in Nat /\ c1 \in Nat
    BY <2>1, <2>2, <2>3 DEF CountsAt
  <2> HIDE DEF x, k, s, c, c1, d1, n
  <2>6. n + (k + s + c) = n + (k + s + c1 + d1)
    BY <2>5
  <2> QED BY <2>3, <2>4, <2>5, <2>6, Balance DEF k, s, c, c1, d1, n
<1>4. drops' \in Seq(Known)
  BY <1>1, <1>2
<1> QED BY <1>1, <1>2, <1>3, <1>4, Operands, Mutation DEF heap

\* The last two entries apart.
LEMMA TopTwo ==
  ASSUME NEW S, NEW s \in Seq(S), Len(s) >= 2, NEW o
  PROVE  /\ SubSeq(s, 1, Len(s) - 2) \in Seq(S)
         /\ Occurrences(SubSeq(s, 1, Len(s) - 2), o) \in Nat
         /\ Occurrences(s, o) = Occurrences(SubSeq(s, 1, Len(s) - 2), o)
                                + One(s[Len(s)], o) + One(s[Len(s) - 1], o)
<1> DEFINE n == Len(s)
           m == Len(s) - 1
<1>1. /\ n \in 1 .. Len(s) /\ m \in 1 .. Len(s) /\ n - 1 = m /\ m - 1 = Len(s) - 2
      /\ n = Len(s) /\ m = Len(s) - 1
  OBVIOUS
<1> HIDE DEF n, m
<1>2. /\ Occurrences(SubSeq(s, 1, n), o)
           = Occurrences(SubSeq(s, 1, n - 1), o) + (IF s[n] = o THEN 1 ELSE 0)
      /\ Occurrences(SubSeq(s, 1, Len(s)), o) = Occurrences(s, o)
  BY <1>1, OccurrencesCut
<1>3. /\ Occurrences(SubSeq(s, 1, m), o)
           = Occurrences(SubSeq(s, 1, m - 1), o) + (IF s[m] = o THEN 1 ELSE 0)
      /\ SubSeq(s, 1, m - 1) \in Seq(S)
  BY <1>1, OccurrencesCut
<1>4. Occurrences(SubSeq(s, 1, m - 1), o) \in Nat
  BY <1>3, OccurrencesType
<1>5. /\ Occurrences(s, o) = Occurrences(SubSeq(s, 1, m), o) + One(s[n], o)
      /\ Occurrences(SubSeq(s, 1, m), o)
           = Occurrences(SubSeq(s, 1, Len(s) - 2), o) + One(s[m], o)
  BY <1>1, <1>2, <1>3 DEF One
<1>6. One(s[n], o) \in Nat /\ One(s[m], o) \in Nat
  BY OneType
<1> QED BY <1>1, <1>3, <1>4, <1>5, <1>6

LEMMA SetStackSafe ==
  ASSUME TypeInv, TypeInv', HeapInv, SetStack
  PROVE  HeapInv'
<1>1. PICK a \in 1 .. N :
        LET s == [stack EXCEPT ![a] = At(1)]
        IN  stack' = SubSeq(s, 1, N - 2) /\ drops' = <<stack[a], s[N], s[N - 1]>>
  BY DEF SetStack, Release
<1> DEFINE s == [stack EXCEPT ![a] = At(1)]
<1>2. /\ pc = "run" /\ op = "none" /\ N >= 2 /\ At(2) = Nil /\ pc' = "drop"
      /\ stack' = SubSeq(s, 1, N - 2) /\ drops' = <<stack[a], s[N], s[N - 1]>>
      /\ refcnt' = Up(refcnt, At(1))
      /\ UNCHANGED <<kind, kids, locidx, tab, scratch, cap, cstack, cache,
                     dynscope, errmb, op, want, hand, tear, gcl>>
  BY <1>1 DEF SetStack, Release, Engine, Idle, TypeInv, Progress
<1>3. /\ N = Len(stack) /\ N \in Nat /\ stack \in Seq(Known) /\ a \in DOMAIN stack
      /\ At(1) \in Known /\ stack[a] \in Known /\ At(1) \in Ref
      /\ s \in Seq(Known) /\ Len(s) = N
  <2>1. /\ N = Len(stack) /\ N \in Nat /\ stack \in Seq(Known) /\ At(1) \in Known
        /\ At(1) \in Ref
    BY <1>2, Operands, KnownIsRef, SMTT(30)
  <2>2. a \in DOMAIN stack
    BY <2>1
  <2>3. stack[a] \in Known
    BY <2>1, <2>2
  <2> QED BY <2>1, <2>2, <2>3
<1>4. s[N] \in Known /\ s[N - 1] \in Known
  BY <1>2, <1>3
<1>5. ASSUME NEW o \in Objects
      PROVE  Occurrences(s, o) + One(stack[a], o) = Occurrences(stack, o) + One(At(1), o)
  <2>1. /\ a \in 1 .. Len(stack) /\ Len(s) = Len(stack) /\ s[a] = At(1)
        /\ \A i \in 1 .. Len(stack) : i # a => s[i] = stack[i]
    BY <1>3
  <2> HIDE DEF s
  <2> QED BY <1>3, <2>1, ReplaceCounts
<1> HIDE DEF s
<1>6. ASSUME NEW o \in Objects PROVE refcnt'[o] = Explained(o)'
  <2>1. /\ Occurrences(s, o) = Occurrences(stack', o) + One(s[N], o) + One(s[N - 1], o)
        /\ Occurrences(stack', o) \in Nat
    BY <1>2, <1>3, TopTwo
  <2>2. /\ Occurrences(drops', o) = One(stack[a], o) + One(s[N], o) + One(s[N - 1], o)
        /\ One(stack[a], o) \in Nat /\ One(s[N], o) \in Nat /\ One(s[N - 1], o) \in Nat
    <3> DEFINE p == stack[a]
               q == s[N]
               r == s[N - 1]
    <3>1. drops' = <<p, q, r>>
      BY <1>2
    <3> HIDE DEF p, q, r
    <3>2. Occurrences(<<p, q, r>>, o) = One(p, o) + One(q, o) + One(r, o)
      BY TripleCounts
    <3>3. One(p, o) \in Nat /\ One(q, o) \in Nat /\ One(r, o) \in Nat
      BY OneType
    <3> QED BY <3>1, <3>2, <3>3 DEF p, q, r
  <2>3. /\ refcnt'[o] = refcnt[o] + One(At(1), o) /\ One(At(1), o) \in Nat
    BY <1>2, <1>3, UpCounts, KnownIsRef DEF TypeInv, TypeOK, HeapOK
  <2>4. CountsAt(o)
    BY <1>2, QuietAt
  <2>5. Occurrences(stack', o) + Occurrences(drops', o) = Occurrences(stack, o) + One(At(1), o)
    BY <1>5, <2>1, <2>2, <2>3
  <2>6. Occurrences(drops', o) \in Nat
    BY <2>2
  <2>7. Occurrences(stack', o) \in Nat /\ refcnt[o] \in Nat /\ Occurrences(stack, o) \in Nat
    BY <2>4, CountTypesNext DEF CountsAt
  <2>8. /\ refcnt'[o] \in Nat
        /\ refcnt'[o] + Occurrences(stack, o)
             = refcnt[o] + Occurrences(stack', o) + Occurrences(drops', o)
    <3> DEFINE w == Occurrences(stack, o)
               w1 == Occurrences(stack', o)
               d1 == Occurrences(drops', o)
               g == One(At(1), o)
               n == refcnt[o]
               n1 == refcnt'[o]
    <3>1. /\ w1 + d1 = w + g /\ n1 = n + g /\ w \in Nat /\ w1 \in Nat /\ d1 \in Nat
          /\ g \in Nat /\ n \in Nat
      BY <2>3, <2>5, <2>6, <2>7
    <3> HIDE DEF w, w1, d1, g, n, n1
    <3>2. n1 \in Nat /\ n1 + w = n + w1 + d1
      BY <3>1
    <3> QED BY <3>2 DEF w, w1, d1, n, n1
  <2> QED BY <1>2, <2>4, <2>6, <2>7, <2>8, StackBalance
<1>7. stack' \in Seq(Known) /\ drops' \in Seq(Known)
  BY <1>2, <1>3, <1>4, TopTwo
<1> QED BY <1>2, <1>6, <1>7, Operands, Mutation

LEMMA ExchangeTopSafe ==
  ASSUME TypeInv, TypeInv', HeapInv, ExchangeTop
  PROVE  HeapInv'
<1>1. PICK a \in 1 .. N - 1 :
        stack' = [i \in 1 .. N - 1 |->
                    IF i = a THEN At(2) ELSE IF i = N - 1 THEN stack[a] ELSE stack[i]]
  BY DEF ExchangeTop
<1>2. /\ pc = "run" /\ op = "none" /\ N >= 2 /\ At(1) = Nil
      /\ UNCHANGED <<heap, cstack, cache, dynscope, errmb, pc, ctl, tear, gcl>>
  BY DEF ExchangeTop, Engine, Idle, TypeInv, Progress
<1> DEFINE t == Below(1)
           u == [t EXCEPT ![N - 1] = t[a]]
           v == [u EXCEPT ![a] = At(2)]
<1>3. /\ N \in Nat /\ N = Len(stack) /\ stack \in Seq(Known) /\ At(2) \in Known
      /\ t \in Seq(Known) /\ Len(t) = N - 1 /\ DOMAIN t = 1 .. N - 1
      /\ \A i \in 1 .. N - 1 : t[i] = stack[i]
      /\ t[N - 1] = At(2)
  <2>1. /\ N \in Nat /\ N = Len(stack) /\ stack \in Seq(Known)
        /\ At(2) \in Known /\ t \in Seq(Known)
    BY <1>2, Operands
  <2>2. At(2) = stack[N - 1] /\ t = SubSeq(stack, 1, N - 1)
    BY <1>2, <2>1 DEF At, Below
  <2> HIDE DEF t
  <2>3. Len(t) = N - 1 /\ DOMAIN t = 1 .. N - 1 /\ \A i \in 1 .. N - 1 : t[i] = stack[i]
    BY <1>2, <2>1, <2>2
  <2> QED BY <1>2, <2>1, <2>2, <2>3
<1> HIDE DEF t
<1>4. /\ u \in Seq(Known) /\ DOMAIN u = 1 .. N - 1 /\ u[a] = t[a]
      /\ a \in DOMAIN u /\ a \in DOMAIN t /\ N - 1 \in DOMAIN t /\ t[a] \in Known
  BY <1>2, <1>3
<1>5. v = stack'
  BY <1>1, <1>2, <1>3
<1>6. ASSUME NEW o PROVE Occurrences(stack', o) = Occurrences(t, o)
  <2>1. Occurrences(u, o) + One(t[N - 1], o) = Occurrences(t, o) + One(t[a], o)
    <3> DEFINE n == N - 1
    <3>1. /\ n \in 1 .. Len(t) /\ Len(u) = Len(t) /\ u[n] = t[a]
          /\ \A i \in 1 .. Len(t) : i # n => u[i] = t[i]
      BY <1>3, <1>4
    <3>0. t \in Seq(Known) /\ u \in Seq(Known)
      BY <1>3, <1>4
    <3> HIDE DEF n, u, v
    <3>2. Occurrences(u, o) + One(t[n], o) = Occurrences(t, o) + One(u[n], o)
      BY <3>0, <3>1, ReplaceCounts
    <3> QED BY <3>1, <3>2 DEF n
  <2> DEFINE y == At(2)
  <2>2. /\ a \in 1 .. Len(u) /\ Len(v) = Len(u) /\ v[a] = y
        /\ v \in Seq(Known) /\ y \in Known
        /\ \A i \in 1 .. Len(u) : i # a => v[i] = u[i]
    <3>1. Len(u) = N - 1 /\ DOMAIN u = 1 .. N - 1 /\ y \in Known /\ a \in 1 .. N - 1
      BY <1>2, <1>3, <1>4
    <3>2. u \in Seq(Known) /\ a \in DOMAIN u
      BY <1>4
    <3>3. v \in Seq(Known) /\ Len(v) = Len(u) /\ v[a] = y
          /\ \A i \in 1 .. Len(u) : i # a => v[i] = u[i]
      <4>1. v = [u EXCEPT ![a] = y]
        OBVIOUS
      <4> HIDE DEF u, y, v
      <4> QED BY <3>1, <3>2, <4>1
    <3> HIDE DEF u, v, y
    <3>4. a \in 1 .. Len(u)
      BY <3>1
    <3> QED BY <3>1, <3>3, <3>4
  <2> HIDE DEF y, u, v
  <2>3. Occurrences(v, o) + One(u[a], o) = Occurrences(u, o) + One(y, o)
    BY <1>4, <2>2, ReplaceCounts, SMTT(30)
  <2>4. Occurrences(u, o) \in Nat /\ Occurrences(t, o) \in Nat
    BY <1>3, <1>4, OccurrencesType
  <2>5. Occurrences(stack', o) = Occurrences(v, o) /\ Occurrences(v, o) \in Nat
    BY <1>5, CountTypesNext
  <2>6. u[a] = t[a] /\ t[N - 1] = y
    BY <1>3, <1>4 DEF y
  <2>7. One(t[a], o) \in Nat /\ One(y, o) \in Nat
    BY OneType
  <2> QED BY <2>1, <2>3, <2>4, <2>5, <2>6, <2>7
<1> HIDE DEF u, v
<1>7. ASSUME NEW o \in Objects PROVE refcnt'[o] = Explained(o)'
  <2>1. Occurrences(stack, o) = Occurrences(t, o) + One(Nil, o)
    BY <1>2, <1>3, StackTop DEF t
  <2>2. CountsAt(o)
    BY <1>2, QuietAt
  <2>3. Occurrences(t, o) \in Nat
    BY <1>3, OccurrencesType
  <2>4. Occurrences(stack', o) = Occurrences(stack, o)
    BY <1>6, <2>1, <2>2, <2>3 DEF CountsAt
  <2> QED BY <1>2, <2>2, <2>4 DEF CountsAt, Explained, heap, ctl
<1>8. stack' \in Seq(Known)
  BY <1>3, <1>4, <1>5 DEF v
<1> QED BY <1>2, <1>7, <1>8, Operands, Mutation DEF heap, ctl

LEMMA ListGetSafe ==
  ASSUME TypeInv, TypeInv', HeapInv, ListGet
  PROVE  HeapInv'
<1>1. PICK i \in DOMAIN kids[At(2)] :
        stack' = Append(Below(2), kids[At(2)][i]) /\ refcnt' = Up(refcnt, kids[At(2)][i])
  BY DEF ListGet, CountedKid
<1> DEFINE x == kids[At(2)][i]
<1>2. /\ pc = "run" /\ op = "none" /\ N >= 2 /\ At(1) = Nil /\ At(2) # Nil /\ pc' = "drop"
      /\ stack' = Append(Below(2), x) /\ refcnt' = Up(refcnt, x) /\ drops' = <<At(2), At(1)>>
      /\ UNCHANGED <<kind, kids, locidx, tab, scratch, cap, cstack, cache,
                     dynscope, errmb, op, want, hand, tear, gcl>>
  BY <1>1 DEF ListGet, IsA, Release, Engine, Idle, TypeInv, Progress
<1>3. /\ At(2) \in Known /\ At(1) \in Known /\ At(2) \in Obj
      /\ Below(2) \in Seq(Known) /\ stack \in Seq(Known)
  BY <1>2, Operands DEF Known, Objects
<1>4. x \in Known
  BY <1>2, <1>3, Operands
<1> HIDE DEF x
<1>5. /\ stack' \in Seq(Known) /\ drops' \in Seq(Known) /\ x \in Ref
  BY <1>2, <1>3, <1>4, KnownIsRef
<1>6. ASSUME NEW o \in Objects PROVE refcnt'[o] = Explained(o)'
  <2>1. /\ Occurrences(stack, o) = Occurrences(Below(2), o) + One(At(1), o) + One(At(2), o)
        /\ Occurrences(stack', o) = Occurrences(Below(2), o) + One(x, o)
        /\ Occurrences(drops', o) = One(At(2), o) + One(At(1), o)
        /\ Occurrences(Below(2), o) \in Nat
        /\ One(At(1), o) \in Nat /\ One(At(2), o) \in Nat
    BY <1>2, <1>3, <1>4, StackTop, AppendCounts, PairCounts, OneType
  <2>2. refcnt'[o] = refcnt[o] + One(x, o) /\ One(x, o) \in Nat
    BY <1>2, <1>5, UpCounts, KnownIsRef DEF TypeInv, TypeOK, HeapOK
  <2>3. CountsAt(o)
    BY <1>2, QuietAt
  <2>4. /\ Occurrences(stack', o) + Occurrences(drops', o) = Occurrences(stack, o) + One(x, o)
        /\ Occurrences(stack', o) \in Nat /\ Occurrences(drops', o) \in Nat
    BY <2>1, <2>2
  <2>5. /\ refcnt'[o] \in Nat
        /\ refcnt'[o] + Occurrences(stack, o)
             = refcnt[o] + Occurrences(stack', o) + Occurrences(drops', o)
    <3> DEFINE s == Occurrences(stack, o)
               s1 == Occurrences(stack', o)
               d1 == Occurrences(drops', o)
               g == One(x, o)
               n == refcnt[o]
               n1 == refcnt'[o]
    <3>1. /\ s1 + d1 = s + g /\ n1 = n + g /\ s \in Nat /\ s1 \in Nat /\ d1 \in Nat
          /\ g \in Nat /\ n \in Nat
      BY <2>2, <2>3, <2>4 DEF CountsAt
    <3> HIDE DEF s, s1, d1, g, n, n1
    <3>2. n1 \in Nat /\ n1 + s = n + s1 + d1
      BY <3>1
    <3> QED BY <3>2 DEF s, s1, d1, n, n1
  <2> QED BY <1>2, <2>3, <2>4, <2>5, StackBalance
<1> QED BY <1>2, <1>5, <1>6, Operands, Mutation

LEMMA ListPopOverflowSafe ==
  ASSUME TypeInv, TypeInv', HeapInv, ListPopOverflow
  PROVE  HeapInv'
<1> DEFINE x == LastKid(At(1))
<1>1. /\ pc = "run" /\ op = "none" /\ N >= 1 /\ errmb = Nil
      /\ At(1) # Nil /\ kids[At(1)] # <<>>
      /\ errmb' = x /\ refcnt' = Up(refcnt, x)
      /\ UNCHANGED <<kind, kids, locidx, tab, scratch, cap, stack, cstack, cache,
                     dynscope, pc, ctl, tear, gcl>>
  BY DEF ListPopOverflow, IsA, Engine, Idle, TypeInv, Progress
<1>2. At(1) \in Known /\ At(1) \in Obj
  BY <1>1, Operands DEF Known, Objects
<1>3. kids[At(1)] \in Seq(Known)
  BY <1>1, <1>2, Operands
<1>4. x \in Known /\ x \in Ref
  BY <1>1, <1>3, KnownIsRef DEF LastKid
<1> HIDE DEF x
<1>5. ASSUME NEW o \in Objects PROVE refcnt'[o] = Explained(o)'
  <2>1. refcnt'[o] = refcnt[o] + One(x, o) /\ One(x, o) \in Nat
    BY <1>1, <1>4, UpCounts, KnownIsRef DEF TypeInv, TypeOK, HeapOK
  <2>2. CountsAt(o)
    BY <1>1, QuietAt
  <2> QED BY <1>1, <2>1, <2>2, SMTT(30) DEF CountsAt, Explained, ctl
<1> QED BY <1>1, <1>4, <1>5, Operands, Mutation DEF ctl

\* One object's references are replaced by others.
LEMMA KidsChanged ==
  ASSUME TypeInv, TypeInv', NEW q \in Obj,
         \A p \in Obj : p # q => kids'[p] = kids[p], NEW o
  PROVE  /\ Cardinality(SlotsIn(kids', Obj, o)) + Occurrences(kids[q], o)
              = Cardinality(SlotsIn(kids, Obj, o)) + Occurrences(kids'[q], o)
         /\ Cardinality(SlotsIn(kids', Obj, o)) \in Nat
         /\ Occurrences(kids[q], o) \in Nat /\ Occurrences(kids'[q], o) \in Nat
<1>1. (\A p \in Obj : kids[p] \in Seq(Ref)) /\ (\A p \in Obj : kids'[p] \in Seq(Ref))
  BY DEF TypeInv, TypeOK, HeapOK
<1>2. \A p \in Obj \ {q} : kids[p] = kids'[p]
  OBVIOUS
<1>3. Cardinality(SlotsIn(kids', Obj, o)) + Occurrences(kids[q], o)
        = Cardinality(SlotsIn(kids, Obj, o)) + Occurrences(kids'[q], o)
  <2>1. IsFiniteSet(Obj)
    BY HeapAssumption
  <2>2. ASSUME NEW L, \A p \in Obj : L[p] \in Seq(Ref), \A p \in Obj \ {q} : kids[p] = L[p]
        PROVE  Cardinality(SlotsIn(L, Obj, o)) + Occurrences(kids[q], o)
                 = Cardinality(SlotsIn(kids, Obj, o)) + Occurrences(L[q], o)
    BY <1>1, <2>1, <2>2, KidsChange
  <2> QED BY <1>1, <1>2, <2>2
<1> QED BY <1>1, <1>3, HeapAssumption, SlotsFinite, OccurrencesType

LEMMA ListSetSafe ==
  ASSUME TypeInv, TypeInv', HeapInv, ListSet
  PROVE  HeapInv'
<1> DEFINE q == At(3)
           x == At(1)
<1>1. PICK i \in DOMAIN kids[q] :
        kids' = [kids EXCEPT ![q][i] = x] /\ drops' = <<kids[q][i], x, At(2), q>>
  BY DEF ListSet, Release
<1> DEFINE y == kids[q][i]
<1>2. /\ pc = "run" /\ op = "none" /\ N >= 3 /\ At(2) = Nil /\ pc' = "drop"
      /\ q # Nil /\ kind[q] = "array"
      /\ stack' = Below(3) /\ refcnt' = Up(refcnt, x) /\ drops' = <<y, x, At(2), q>>
      /\ UNCHANGED <<kind, locidx, tab, scratch, cap, cstack, cache, dynscope,
                     errmb, op, want, hand, tear, gcl>>
  BY <1>1 DEF ListSet, IsA, Release, Engine, Idle, TypeInv, Progress
<1>3. /\ q \in Known /\ x \in Known /\ q \in Obj /\ x \in Ref /\ stack \in Seq(Known)
      /\ stack' \in Seq(Known) /\ Nil \in Known
  BY <1>2, Operands, KnownIsRef DEF Known, Objects
<1>4. /\ kids[q] \in Seq(Known) /\ y \in Known /\ i \in 1 .. Len(kids[q])
      /\ \A p \in Obj : p # q => kids'[p] = kids[p]
      /\ Len(kids'[q]) = Len(kids[q]) /\ kids'[q][i] = x /\ kids'[q] \in Seq(Known)
      /\ \A j \in 1 .. Len(kids[q]) : j # i => kids'[q][j] = kids[q][j]
  <2>1. kids[q] \in Seq(Known) /\ kids \in [Obj -> Seq(Ref)]
    BY <1>2, <1>3, Operands DEF TypeInv, TypeOK, HeapOK
  <2>2. kids'[q] = [kids[q] EXCEPT ![i] = x] /\ \A p \in Obj : p # q => kids'[p] = kids[p]
    BY <1>1, <1>3, <2>1
  <2> QED BY <1>1, <1>3, <2>1, <2>2
<1> HIDE DEF q, x, y
<1>5. ASSUME NEW o \in Objects PROVE refcnt'[o] = Explained(o)'
  <2>1. /\ Occurrences(stack, o)
             = Occurrences(stack', o) + One(x, o) + One(At(2), o) + One(q, o)
        /\ Occurrences(stack', o) \in Nat
    BY <1>2, <1>3, StackTop, OccurrencesType DEF q, x
  <2>2. Occurrences(kids'[q], o) + One(y, o) = Occurrences(kids[q], o) + One(x, o)
    <3>1. Occurrences(kids'[q], o) + One(kids[q][i], o)
            = Occurrences(kids[q], o) + One(kids'[q][i], o)
      BY <1>4, ReplaceCounts
    <3> QED BY <1>4, <3>1 DEF y
  <2>3. /\ Cardinality(SlotsIn(kids', Obj, o)) + Occurrences(kids[q], o)
             = Cardinality(SlotsIn(kids, Obj, o)) + Occurrences(kids'[q], o)
        /\ Cardinality(SlotsIn(kids', Obj, o)) \in Nat
        /\ Occurrences(kids[q], o) \in Nat /\ Occurrences(kids'[q], o) \in Nat
    BY <1>3, <1>4, KidsChanged
  <2>4. /\ Occurrences(drops', o) = One(y, o) + One(x, o) + One(At(2), o) + One(q, o)
        /\ One(y, o) \in Nat /\ One(At(2), o) \in Nat /\ One(q, o) \in Nat
    <3> DEFINE z == At(2)
    <3>1. drops' = <<y, x, z, q>>
      BY <1>2
    <3> HIDE DEF z
    <3>2. Occurrences(<<y, x, z, q>>, o) = One(y, o) + One(x, o) + One(z, o) + One(q, o)
      BY FourCounts
    <3> QED BY <3>1, <3>2, OneType DEF z
  <2>5. refcnt'[o] = refcnt[o] + One(x, o) /\ One(x, o) \in Nat
    BY <1>2, <1>3, UpCounts, KnownIsRef DEF TypeInv, TypeOK, HeapOK
  <2>6. CountsAt(o)
    BY <1>2, QuietAt
  <2> DEFINE k1 == Cardinality(SlotsIn(kids', Obj, o))
             k0 == Cardinality(SlotsIn(kids, Obj, o))
             c1 == Occurrences(kids'[q], o)
             c0 == Occurrences(kids[q], o)
             s1 == Occurrences(stack', o)
             s0 == Occurrences(stack, o)
             d1 == Occurrences(drops', o)
             nx == One(x, o)
             ny == One(y, o)
             nz == One(At(2), o)
             nq == One(q, o)
  <2>7. /\ k1 + c0 = k0 + c1 /\ c1 + ny = c0 + nx
        /\ s0 = s1 + nx + nz + nq /\ d1 = ny + nx + nz + nq
        /\ k1 \in Nat /\ k0 \in Nat /\ c1 \in Nat /\ c0 \in Nat
        /\ s1 \in Nat /\ nx \in Nat /\ ny \in Nat /\ nz \in Nat /\ nq \in Nat
    BY <2>1, <2>2, <2>3, <2>4, <2>5, <2>6 DEF CountsAt
  <2> HIDE DEF k1, k0, c1, c0, s1, s0, d1, nx, ny, nz, nq
  <2>8. k1 + s1 + d1 = k0 + s0 + nx
    BY <2>7
  <2>9. Cardinality(SlotsIn(kids', Obj, o)) + Occurrences(stack', o) + Occurrences(drops', o)
          = Cardinality(SlotsIn(kids, Obj, o)) + Occurrences(stack, o) + One(x, o)
    BY <2>8 DEF k1, k0, s1, s0, d1, nx
  <2>10. Occurrences(drops', o) \in Nat
    BY <2>4, <2>5
  <2> QED BY <1>2, <2>1, <2>3, <2>5, <2>6, <2>9, <2>10, SMTT(30) DEF CountsAt, Explained
<1>6. drops' \in Seq(Known)
  BY <1>2, <1>3, <1>4
<1>7. /\ \A o \in Obj : kids'[o] \in Seq(Known)
      /\ \A o \in Obj : kind[o] \notin Containers => kids'[o] = <<>>
  BY <1>2, <1>4, Operands DEF Containers, Arrays
<1> QED BY <1>2, <1>3, <1>5, <1>6, <1>7, Operands, Mutation

LEMMA ListPopSafe ==
  ASSUME TypeInv, TypeInv', HeapInv, ListPop
  PROVE  HeapInv'
<1> DEFINE q == At(1)
           x == LastKid(q)
<1>1. /\ pc = "run" /\ op = "none" /\ N >= 1 /\ pc' = "drop"
      /\ q # Nil /\ kind[q] = "array" /\ kids[q] # <<>>
      /\ stack' = Append(Below(1), x) /\ refcnt' = refcnt /\ drops' = <<q>>
      /\ kids' = [kids EXCEPT ![q] = SubSeq(@, 1, Len(@) - 1)]
      /\ UNCHANGED <<kind, locidx, tab, scratch, cap, cstack, cache, dynscope,
                     errmb, op, want, hand, tear, gcl>>
  BY DEF ListPop, IsA, PoppedCount, Release, Engine, Idle, TypeInv, Progress
<1>2. /\ q \in Known /\ q \in Obj /\ stack \in Seq(Known) /\ Below(1) \in Seq(Known)
  BY <1>1, Operands DEF Known, Objects
<1>3. /\ kids[q] \in Seq(Known) /\ x = kids[q][Len(kids[q])] /\ x \in Known
      /\ \A p \in Obj : p # q => kids'[p] = kids[p]
      /\ kids'[q] = SubSeq(kids[q], 1, Len(kids[q]) - 1) /\ kids'[q] \in Seq(Known)
  <2>1. kids[q] \in Seq(Known) /\ kids \in [Obj -> Seq(Ref)]
    BY <1>1, <1>2, Operands DEF TypeInv, TypeOK, HeapOK
  <2>2. /\ kids'[q] = SubSeq(kids[q], 1, Len(kids[q]) - 1)
        /\ \A p \in Obj : p # q => kids'[p] = kids[p]
    BY <1>1, <1>2, <2>1
  <2> QED BY <1>1, <1>2, <2>1, <2>2 DEF LastKid
<1> HIDE DEF q, x
<1>4. ASSUME NEW o \in Objects PROVE refcnt'[o] = Explained(o)'
  <2>1. /\ Occurrences(stack, o) = Occurrences(Below(1), o) + One(q, o)
        /\ Occurrences(stack', o) = Occurrences(Below(1), o) + One(x, o)
        /\ Occurrences(Below(1), o) \in Nat /\ One(x, o) \in Nat
    BY <1>1, <1>2, <1>3, StackTop, AppendCounts DEF q
  <2>2. Occurrences(kids[q], o) = Occurrences(kids'[q], o) + One(x, o)
    BY <1>1, <1>3, OccurrencesFront DEF One
  <2>3. /\ Cardinality(SlotsIn(kids', Obj, o)) + Occurrences(kids[q], o)
             = Cardinality(SlotsIn(kids, Obj, o)) + Occurrences(kids'[q], o)
        /\ Cardinality(SlotsIn(kids', Obj, o)) \in Nat
        /\ Occurrences(kids[q], o) \in Nat /\ Occurrences(kids'[q], o) \in Nat
    BY <1>2, <1>3, KidsChanged
  <2>4. Occurrences(drops', o) = One(q, o) /\ One(q, o) \in Nat
    BY <1>1, SingleCounts
  <2>5. CountsAt(o)
    BY <1>1, QuietAt
  <2> DEFINE k1 == Cardinality(SlotsIn(kids', Obj, o))
             k0 == Cardinality(SlotsIn(kids, Obj, o))
             c1 == Occurrences(kids'[q], o)
             c0 == Occurrences(kids[q], o)
             b == Occurrences(Below(1), o)
             s1 == Occurrences(stack', o)
             s0 == Occurrences(stack, o)
             d1 == Occurrences(drops', o)
             nx == One(x, o)
             nq == One(q, o)
  <2>6. /\ k1 + c0 = k0 + c1 /\ c0 = c1 + nx
        /\ s0 = b + nq /\ s1 = b + nx /\ d1 = nq
        /\ k1 \in Nat /\ k0 \in Nat /\ c1 \in Nat /\ c0 \in Nat
        /\ b \in Nat /\ nx \in Nat /\ nq \in Nat
    BY <2>1, <2>2, <2>3, <2>4, <2>5 DEF CountsAt
  <2> HIDE DEF k1, k0, c1, c0, b, s1, s0, d1, nx, nq
  <2>7. k1 + s1 + d1 = k0 + s0
    BY <2>6
  <2> DEFINE c == Occurrences(cstack, o)
             n == refcnt[o]
  <2>8. c \in Nat /\ n \in Nat
    BY <2>5 DEF CountsAt
  <2>9. /\ refcnt'[o] = n /\ Occurrences(cstack', o) = c
        /\ UNCHANGED <<cache, dynscope, errmb>>
    BY <1>1
  <2>10. /\ k1 \in Nat /\ s1 \in Nat /\ d1 \in Nat
         /\ n + (k0 + s0 + c) = n + (k1 + s1 + c + d1)
    <3> HIDE DEF c, n
    <3> QED BY <2>6, <2>7, <2>8
  <2> HIDE DEF c, n
  <2> QED BY <2>5, <2>8, <2>9, <2>10, Balance DEF k1, k0, s1, s0, d1, c, n
<1>5. drops' \in Seq(Known) /\ stack' \in Seq(Known)
  BY <1>1, <1>2, <1>3
<1>6. /\ \A o \in Obj : kids'[o] \in Seq(Known)
      /\ \A o \in Obj : kind[o] \notin Containers => kids'[o] = <<>>
  BY <1>1, <1>3, Operands DEF Containers, Arrays
<1> QED BY <1>1, <1>4, <1>5, <1>6, Operands, Mutation

\* What APPEND_MAINTAIN does once there is room, at once or behind the allocator.
LEMMA StoreItemSafe ==
  ASSUME TypeInv, TypeInv', HeapInv, pc \in {"run", "alloc", "alloced"},
         N >= 2, At(2) # Nil, kind[At(2)] \in Arrays, StoreItem, SameKinds,
         op' = "none", hand' = hand, cap' >= cap,
         UNCHANGED <<locidx, tab, scratch, cstack, cache, dynscope, errmb, tear, gcl>>
  PROVE  HeapInv'
<1> DEFINE q == At(2)
           x == At(1)
<1>1. /\ pc' = "drop" /\ q # Nil /\ kind[q] \in Arrays
      /\ stack' = Below(1) /\ refcnt' = Up(refcnt, x) /\ drops' = <<x>>
      /\ kids' = [kids EXCEPT ![q] = Append(@, x)]
  BY DEF StoreItem, Release
<1>2. /\ q \in Known /\ q \in Obj /\ x \in Known /\ x \in Ref
      /\ stack \in Seq(Known) /\ stack' \in Seq(Known)
  <2>1. /\ At(2) \in Known /\ At(1) \in Known /\ stack \in Seq(Known)
        /\ Below(1) \in Seq(Known)
    BY Operands
  <2>2. q \in Known /\ x \in Known /\ stack \in Seq(Known) /\ stack' \in Seq(Known)
    BY <1>1, <2>1
  <2> HIDE DEF q, x
  <2>3. q \in Obj /\ x \in Ref
    BY <1>1, <2>2, KnownIsRef DEF Known
  <2> QED BY <2>2, <2>3
<1>3. /\ kids[q] \in Seq(Known)
      /\ \A p \in Obj : p # q => kids'[p] = kids[p]
      /\ kids'[q] = Append(kids[q], x)
  <2>1. kids[q] \in Seq(Known) /\ kids \in [Obj -> Seq(Ref)]
    BY <1>1, <1>2, Operands DEF TypeInv, TypeOK, HeapOK
  <2> QED BY <1>1, <1>2, <2>1
<1> HIDE DEF q, x
<1>4. ASSUME NEW o \in Objects PROVE refcnt'[o] = Explained(o)'
  <2>1. /\ Occurrences(stack, o) = Occurrences(stack', o) + One(x, o)
        /\ Occurrences(stack', o) \in Nat
    BY <1>1, <1>2, Operands, StackTop, OccurrencesType DEF x
  <2>2. Occurrences(kids'[q], o) = Occurrences(kids[q], o) + One(x, o)
    BY <1>2, <1>3, AppendCounts
  <2>3. /\ Cardinality(SlotsIn(kids', Obj, o)) + Occurrences(kids[q], o)
             = Cardinality(SlotsIn(kids, Obj, o)) + Occurrences(kids'[q], o)
        /\ Cardinality(SlotsIn(kids', Obj, o)) \in Nat
        /\ Occurrences(kids[q], o) \in Nat /\ Occurrences(kids'[q], o) \in Nat
    BY <1>2, <1>3, KidsChanged
  <2>4. Occurrences(drops', o) = One(x, o)
    BY <1>1, SingleCounts
  <2>5. refcnt'[o] = refcnt[o] + One(x, o) /\ One(x, o) \in Nat
    <3>1. refcnt \in [Obj -> Nat] /\ o \in Obj
      BY KnownIsRef DEF TypeInv, TypeOK, HeapOK, Objects
    <3> QED BY <1>1, <1>2, <3>1, UpCounts
  <2>6. CountsAt(o)
    BY QuietAt
  <2>7. /\ Cardinality(SlotsIn(kids', Obj, o)) = Cardinality(SlotsIn(kids, Obj, o)) + One(x, o)
    BY <2>2, <2>3, <2>5, <2>6 DEF CountsAt
  <2> QED BY <2>1, <2>4, <2>5, <2>6, <2>7, SMTT(30) DEF CountsAt, Explained
<1>5. drops' \in Seq(Known)
  BY <1>1, <1>2
<1>6. /\ \A o \in Obj : kids'[o] \in Seq(Known)
      /\ \A o \in Obj : kind[o] \notin Containers => kids'[o] = <<>>
  <2>1. kids'[q] \in Seq(Known)
    BY <1>2, <1>3
  <2> QED BY <1>1, <1>3, <2>1, Operands DEF Containers, Arrays
<1> QED BY <1>1, <1>2, <1>4, <1>5, <1>6, Operands, StorageMutation

LEMMA AppendRoomSafe ==
  ASSUME TypeInv, TypeInv', HeapInv, AppendRoom
  PROVE  HeapInv'
<1>1. /\ pc = "run" /\ N >= 2 /\ At(2) # Nil /\ kind[At(2)] = "array" /\ StoreItem
      /\ op = "none"
      /\ UNCHANGED <<kind, locidx, tab, scratch, cap, cstack, cache, dynscope,
                     errmb, op, want, hand, tear, gcl>>
  BY DEF AppendRoom, Appendable, IsA, Engine, Idle, TypeInv, Progress
<1>2. SameKinds /\ kind[At(2)] \in Arrays
  BY <1>1 DEF SameKinds, Arrays
<1> QED BY <1>1, <1>2, StoreItemSafe, Operands

\* The table's block never shrinks.
LEMMA GrownCapBigger ==
  ASSUME TypeInv, HeapInv
  PROVE  GrownCap \in Nat /\ GrownCap >= cap /\ GrownCap > 0
         /\ (scratch = <<>> => Len(tab) + 1 <= GrownCap)
<1>1. cap \in Nat /\ Len(tab) \in Nat /\ cap > 0 /\ Len(tab) + Len(scratch) <= cap
      /\ Len(scratch) \in Nat
  BY DEF TypeInv, TypeOK, HeapOK, HeapInv, Fits
<1>2. scratch = <<>> => Len(scratch) = 0
  OBVIOUS
<1> QED BY <1>1, <1>2 DEF GrownCap

LEMMA GrowAppendSafe ==
  ASSUME TypeInv, TypeInv', HeapInv, GrowAppend
  PROVE  HeapInv'
<1>1. /\ pc \in {"run", "alloc", "alloced"} /\ op = "append" /\ StoreItem
      /\ op' = "none" /\ hand' = Nil /\ cap' \in {cap, GrownCap}
      /\ kind' = [kind EXCEPT ![At(2)] = "array"]
      /\ UNCHANGED <<locidx, tab, scratch, cstack, cache, dynscope, errmb, tear, gcl>>
  BY DEF GrowAppend, Allocating, Finish
<1>2. N >= 2 /\ At(2) # Nil /\ kind[At(2)] \in Arrays /\ hand = Nil
  <2>1. N >= 2
    BY <1>1 DEF TypeInv, Progress, N
  <2>2. At(2) # Nil /\ kind[At(2)] \in Arrays
    BY <1>1 DEF HeapInv, Phases
  <2>3. hand = Nil
    BY <1>1 DEF TypeInv, Progress, Creating
  <2> QED BY <2>1, <2>2, <2>3
<1>3. cap' >= cap
  <2>1. cap \in Nat
    BY DEF TypeInv, TypeOK, HeapOK
  <2> QED BY <1>1, <2>1, GrownCapBigger
<1>4. SameKinds
  <2>1. kind \in [Obj -> {"free", "raw", "leaf", "bare_leaf", "array", "bare_array", "scope"}]
    BY DEF TypeInv, TypeOK, HeapOK
  <2> QED BY <1>1, <1>2, <2>1 DEF SameKinds, Containers, Arrays
<1> QED BY <1>1, <1>2, <1>3, <1>4, StoreItemSafe

LEMMA GrowFailSafe ==
  ASSUME TypeInv, TypeInv', HeapInv, GrowFail
  PROVE  HeapInv'
<1> DEFINE q == At(2)
           x == At(1)
<1>1. /\ pc \in {"run", "alloc", "alloced"} /\ op = "append" /\ pc' = "drop"
      /\ errmb' = q /\ refcnt' = Up(refcnt, q) /\ stack' = Below(1)
      /\ drops' = <<errmb, x>>
      /\ op' = "none" /\ hand' = Nil /\ cap' \in {cap, GrownCap}
      /\ UNCHANGED <<kind, kids, locidx, tab, scratch, cstack, cache, dynscope, tear, gcl>>
  BY DEF GrowFail, Allocating, Finish, Release
<1>2. N >= 2 /\ hand = Nil
  BY <1>1 DEF TypeInv, Progress, N, Creating
<1>3. cap' >= cap
  <2>1. cap \in Nat
    BY DEF TypeInv, TypeOK, HeapOK
  <2> QED BY <1>1, <2>1, GrownCapBigger
<1>4. /\ q \in Known /\ x \in Known /\ q \in Ref /\ errmb \in Known
      /\ stack \in Seq(Known) /\ stack' \in Seq(Known)
  BY <1>1, <1>2, Operands, KnownIsRef
<1>5. drops' \in Seq(Known)
  BY <1>1, <1>4
<1> HIDE DEF q, x
<1>6. ASSUME NEW o \in Objects PROVE refcnt'[o] = Explained(o)'
  <2>1. /\ Occurrences(stack, o) = Occurrences(stack', o) + One(x, o)
        /\ Occurrences(stack', o) \in Nat
    BY <1>1, <1>2, <1>4, Operands, StackTop, OccurrencesType DEF x
  <2>2. Occurrences(drops', o) = One(errmb, o) + One(x, o) /\ One(x, o) \in Nat
    BY <1>1, PairCounts, OneType
  <2>3. refcnt'[o] = refcnt[o] + One(q, o) /\ One(q, o) \in Nat
    BY <1>1, <1>4, UpCounts, KnownIsRef DEF TypeInv, TypeOK, HeapOK
  <2>4. CountsAt(o)
    BY <1>1, QuietAt
  <2>5. Occurrences(stack', o) + Occurrences(drops', o) = Occurrences(stack, o) + One(errmb, o)
    BY <2>1, <2>2, <2>4 DEF CountsAt
  <2>6. Occurrences(drops', o) \in Nat
    BY <2>2, <2>4 DEF CountsAt
  <2> QED BY <1>1, <2>1, <2>3, <2>4, <2>5, <2>6, SMTT(30) DEF CountsAt, Explained
<1> QED BY <1>1, <1>2, <1>3, <1>4, <1>5, <1>6, Operands, Mutation

\* Steps of the C code on the way from an operation's start to its end.
LEMMA Carried ==
  ASSUME TypeInv, TypeInv', HeapInv,
         pc \in {"run", "alloc", "alloced"}, pc' \in {"run", "alloc", "made"},
         UNCHANGED <<kids, refcnt, locidx, tab, scratch, roots, drops, tear, gcl>>,
         cap' >= cap, Objects' = Objects,
         \A o \in Obj : kind'[o] \in Containers <=> kind[o] \in Containers,
         \A o \in Obj : kind'[o] = "scope" <=> kind[o] = "scope",
         \A o \in Obj : kind'[o] \in Arrays <=> kind[o] \in Arrays,
         \A o \in Obj : kind'[o] = "raw" <=> o = hand',
         pc' # "run" => op' \in Creating \cup {"append"},
         op' \in {"create", "new"} => want' \in Simple,
         op' = "scope" => want' = "scope",
         op' = "append" => At(2) \in Obj /\ kind[At(2)] \in Arrays
  PROVE  HeapInv'
<1>1. /\ drops = <<>> /\ dn = <<>> /\ scratch = <<>> /\ dying = Nil /\ gray = {}
      /\ Held(Known) /\ \A o \in Obj : kids[o] \in Seq(Known)
  BY Quiet
<1>2. /\ drops' = <<>> /\ dn' = <<>> /\ scratch' = <<>> /\ dying' = Nil /\ gray' = {}
      /\ Known' = Known /\ op # "free" /\ op' # "free"
  <2>1. op # "free"
    BY DEF TypeInv, Progress, HeapInv, Phases, Creating
  <2>2. op' # "free"
    BY DEF TypeInv, Progress, Creating
  <2> QED BY <1>1, <2>1, <2>2 DEF tear, gcl, Known
<1>3. Shape'
  BY <1>2 DEF HeapInv, Shape
<1>4. Placed'
  <2>1. /\ \A i, j \in DOMAIN tab : tab[i] = tab[j] => i = j
        /\ \A o \in Obj : o \in Objects <=> InTable(o) \/ InScratch(o) \/ o = dying
        /\ \A i \in DOMAIN tab : locidx[tab[i]] = i
    BY DEF HeapInv, Placed
  <2>2. \A o \in Obj : (InTable(o) <=> InTable(o)') /\ ~InScratch(o) /\ ~InScratch(o)'
    BY <1>1, <1>2 DEF InTable, InScratch
  <2>3. \A o \in Obj : o # dying /\ o # dying'
    BY <1>1, <1>2, HeapAssumption
  <2>4. \A i, j \in DOMAIN scratch' : scratch'[i] = scratch'[j] => i = j
    BY <1>2
  <2> QED BY <2>1, <2>2, <2>3, <2>4 DEF Placed
<1>5. Fits'
  BY DEF HeapInv, Fits, TypeInv, TypeOK, HeapOK
<1>6. Phases'
  <2>1. At(2)' = At(2)
    BY DEF At, N, roots
  <2>2. op' = "append" => At(2) # Nil /\ kind'[At(2)] \in Arrays
    BY HeapAssumption
  <2> QED BY <1>2, <2>1, <2>2 DEF Phases, Creating
<1>7. HeldKnown'
  BY <1>1, <1>2 DEF HeldKnown, Held, roots
<1>8. KidsKnown'
  BY <1>1, <1>2 DEF KidsKnown
<1>9. Pinned'
  BY <1>2 DEF HeapInv, Pinned, roots
<1>10. CountsExact'
  <2>1. ASSUME NEW o \in Objects PROVE refcnt'[o] = CountFrom(Obj, o)'
    <3>1. refcnt[o] = CountFrom(Obj, o)
      BY DEF HeapInv, CountsExact
    <3> QED BY <3>1 DEF CountFrom, KidCount, RootCount, roots, tear
  <2> QED BY <2>1 DEF CountsExact
<1>11. Marks'
  BY <1>2 DEF Marks
<1>12. CollectedExactly'
  BY DEF CollectedExactly
<1> QED BY <1>3, <1>4, <1>5, <1>6, <1>7, <1>8, <1>9, <1>10, <1>11, <1>12 DEF HeapInv

\* An operation that needs memory begins.
LEMMA BeginSafe ==
  ASSUME TypeInv, TypeInv', HeapInv, pc = "run", NEW n, NEW k, Begin(n, k),
         \/ n \in {"create", "new"} /\ k \in {"leaf", "array"}
         \/ n = "scope" /\ k = "scope"
         \/ n = "append" /\ N >= 2 /\ At(2) # Nil /\ kind[At(2)] \in Arrays
  PROVE  HeapInv'
<1>1. /\ pc' = "alloc" /\ op' = n /\ want' = k
      /\ UNCHANGED <<heap, roots, hand, drops, tear, gcl>>
  BY DEF Begin
<1>2. /\ UNCHANGED <<kids, refcnt, locidx, tab, scratch, kind>> /\ cap' = cap /\ Objects' = Objects
  BY <1>1 DEF heap, Objects
<1>3. \A o \in Obj : kind'[o] = "raw" <=> o = hand'
  BY <1>1, <1>2 DEF HeapInv, Shape
<1>4. n = "append" => At(2) \in Obj
  BY Operands DEF Known, Objects
<1>5. cap' >= cap
  BY <1>2 DEF TypeInv, TypeOK, HeapOK
<1> QED BY <1>1, <1>2, <1>3, <1>4, <1>5, Carried DEF Creating, Simple

LEMMA NoMemSafe ==
  ASSUME TypeInv, TypeInv', HeapInv, NoMem
  PROVE  HeapInv'
<1>1. /\ pc \in {"run", "alloc", "alloced"} /\ hand = Nil /\ cap' \in {cap, GrownCap}
      /\ pc' = "run" /\ op' = "none" /\ want' = "none" /\ hand' = Nil
      /\ UNCHANGED <<kind, kids, refcnt, locidx, tab, scratch, roots, drops, tear, gcl>>
  BY DEF NoMem, Allocating, Finish
<1>2. Objects' = Objects
  BY <1>1 DEF Objects
<1>3. \A o \in Obj : kind'[o] = "raw" <=> o = hand'
  BY <1>1 DEF HeapInv, Shape
<1>4. cap' >= cap
  BY <1>1, GrownCapBigger DEF TypeInv, TypeOK, HeapOK
<1> QED BY <1>1, <1>2, <1>3, <1>4, Carried

LEMMA AllocAreaSafe ==
  ASSUME TypeInv, TypeInv', HeapInv, AllocArea
  PROVE  HeapInv'
<1>1. PICK a \in Free : hand' = a /\ kind' = [kind EXCEPT ![a] = "raw"]
  BY DEF AllocArea
<1>2. /\ pc \in {"run", "alloc", "alloced"} /\ hand = Nil /\ cap' = GrownCap
      /\ op \in Creating /\ pc' \in {"alloc", "made"}
      /\ UNCHANGED <<kids, refcnt, locidx, tab, scratch, roots, op, want, drops, tear, gcl>>
  BY DEF AllocArea, Allocating, Creating
<1>3. /\ a \in Obj /\ kind[a] = "free" /\ kind'[a] = "raw"
      /\ \A o \in Obj : o # a => kind'[o] = kind[o]
  BY <1>1 DEF Free, TypeInv, TypeOK, HeapOK
<1>4. Objects' = Objects
  BY <1>3 DEF Objects
<1>5. \A o \in Obj : kind[o] # "raw"
  BY <1>2, HeapAssumption DEF HeapInv, Shape
<1>6. \A o \in Obj : kind'[o] = "raw" <=> o = hand'
  BY <1>1, <1>3, <1>5
<1>7. /\ op \in {"create", "new"} => want \in Simple
      /\ op = "scope" => want = "scope"
  BY DEF HeapInv, Phases
<1>8. cap' >= cap
  BY <1>2, GrownCapBigger
<1>9. \A o \in Obj : /\ kind'[o] \in Containers <=> kind[o] \in Containers
                     /\ kind'[o] = "scope" <=> kind[o] = "scope"
                     /\ kind'[o] \in Arrays <=> kind[o] \in Arrays
  BY <1>3 DEF Containers, Arrays
<1> QED BY <1>2, <1>4, <1>6, <1>7, <1>8, <1>9, Carried DEF Creating

LEMMA AllocStorageSafe ==
  ASSUME TypeInv, TypeInv', HeapInv, AllocStorage
  PROVE  HeapInv'
<1>1. /\ pc \in {"run", "alloc", "alloced"} /\ hand # Nil /\ cap' \in {cap, GrownCap}
      /\ pc' = "made" /\ op \in Creating
      /\ UNCHANGED <<kind, kids, refcnt, locidx, tab, scratch, roots, ctl, tear, gcl>>
  BY DEF AllocStorage, Allocating, TypeInv, Progress
<1>2. Objects' = Objects
  BY <1>1 DEF Objects
<1>3. \A o \in Obj : kind'[o] = "raw" <=> o = hand'
  BY <1>1 DEF HeapInv, Shape, ctl
<1>4. cap' >= cap
  BY <1>1, GrownCapBigger DEF TypeInv, TypeOK, HeapOK
<1>5. /\ op' = op /\ want' = want /\ drops' = drops
      /\ op \in {"create", "new"} => want \in Simple
      /\ op = "scope" => want = "scope"
  BY <1>1 DEF HeapInv, Phases, ctl
<1> QED BY <1>1, <1>2, <1>3, <1>4, <1>5, Carried DEF Creating

LEMMA StorageFailsSafe ==
  ASSUME TypeInv, TypeInv', HeapInv, StorageFails
  PROVE  HeapInv'
<1>1. /\ pc \in {"run", "alloc", "alloced"} /\ hand # Nil /\ cap' \in {cap, GrownCap}
      /\ pc' = "made" /\ op \in Creating /\ want \in {"leaf", "array"} /\ want' \in Simple
      /\ UNCHANGED <<kind, kids, refcnt, locidx, tab, scratch, roots, op, hand, drops, tear, gcl>>
  BY DEF StorageFails, Allocating, TypeInv, Progress, Simple, Bare
<1>2. Objects' = Objects
  BY <1>1 DEF Objects
<1>3. \A o \in Obj : kind'[o] = "raw" <=> o = hand'
  BY <1>1 DEF HeapInv, Shape
<1>4. cap' >= cap
  BY <1>1, GrownCapBigger DEF TypeInv, TypeOK, HeapOK
<1>5. op # "scope"
  BY <1>1 DEF HeapInv, Phases
<1> QED BY <1>1, <1>2, <1>3, <1>4, <1>5, Carried DEF Creating

\* The places of a sequence that is one longer.
LEMMA OneFurther ==
  \A n \in Nat : \A i \in 1 .. n + 1 : i = n + 1 \/ i \in 1 .. n
OBVIOUS

\* What is not in the set a sequence is over does not occur in it.
LEMMA Absent ==
  ASSUME NEW S, NEW s \in Seq(S), NEW o, o \notin S
  PROVE  Occurrences(s, o) = 0
<1>1. \A i \in DOMAIN s : s[i] # o
  BY LenProperties, ElementOfSeq
<1> QED BY <1>1, OccurrencesPositive

\* Nothing refers to the area in hand: with its count taken as 0 it is
\* explained like the objects are.
BaseCount(o) == IF o = hand THEN 0 ELSE refcnt[o]
BaseAt(o) ==
  /\ BaseCount(o) = Explained(o) /\ BaseCount(o) \in Nat
  /\ Cardinality(SlotsIn(kids, Obj, o)) \in Nat
  /\ Occurrences(stack, o) \in Nat /\ Occurrences(cstack, o) \in Nat
  /\ Occurrences(cache, o) \in Nat /\ Occurrences(drops, o) = 0
  /\ One(dynscope, o) \in Nat /\ One(errmb, o) \in Nat /\ One(Nil, o) = 0
  /\ One(hand, o) \in Nat

LEMMA InHand ==
  ASSUME TypeInv, HeapInv, pc = "made"
  PROVE  /\ hand \in Obj /\ kind[hand] = "raw" /\ hand \notin Objects /\ hand \notin Known
         /\ kids[hand] = <<>> /\ want \in Simple \cup {"scope"}
         /\ \A o \in Objects \cup {hand} : BaseAt(o)
<1>1. hand \in Obj
  BY DEF TypeInv, Progress, TypeOK, ControlOK, Ref
<1>2. kind[hand] = "raw" /\ kids[hand] = <<>>
  BY <1>1 DEF HeapInv, Shape, Containers, Arrays
<1>3. hand \notin Objects /\ hand \notin Known
  BY <1>1, <1>2, HeapAssumption DEF Objects, Known
<1>4. want \in Simple \cup {"scope"}
  BY <1>1, HeapAssumption DEF TypeInv, Progress, TypeOK, ControlOK, Simple, Bare
<1>5. ASSUME NEW o \in Objects PROVE BaseAt(o)
  BY <1>3, QuietAt, OneType DEF CountsAt, BaseAt, BaseCount
<1>6. BaseAt(hand)
  <2>1. /\ stack \in Seq(Known) /\ cstack \in Seq(Known) /\ cache \in Seq(Known)
        /\ dynscope \in Known /\ errmb \in Known /\ drops = <<>>
        /\ \A p \in Obj : kids[p] \in Seq(Known)
    BY Operands
  <2>2. /\ Occurrences(stack, hand) = 0 /\ Occurrences(cstack, hand) = 0
        /\ Occurrences(cache, hand) = 0 /\ Occurrences(drops, hand) = 0
    BY <1>3, <2>1, Absent, OccurrencesEmpty
  <2>3. One(dynscope, hand) = 0 /\ One(errmb, hand) = 0 /\ One(Nil, hand) = 0
    BY <1>1, <1>3, <2>1, HeapAssumption DEF One
  <2>4. \A p \in Obj : Occurrences(kids[p], hand) = 0
    BY <1>3, <2>1, Absent
  <2>5. Cardinality(SlotsIn(kids, Obj, hand)) = 0
    BY <2>1, <2>4, HeapAssumption, SlotsNone
  <2> QED BY <2>2, <2>3, <2>5, OneType DEF BaseAt, BaseCount, Explained
<1> QED BY <1>1, <1>2, <1>3, <1>4, <1>5, <1>6

\* The area in hand becomes an object and enters the table.
LEMMA Enrolled ==
  ASSUME TypeInv, TypeInv', HeapInv, pc = "made", pc' \in {"run", "drop"},
         SetupForGc(hand), kind' = [kind EXCEPT ![hand] = want], Finish,
         UNCHANGED <<scratch, dynscope, tear, gcl>>,
         pc' = "run" => drops' = <<>>,
         stack' \in Seq(Known \cup {hand}), cstack' \in Seq(Known \cup {hand}),
         cache' \in Seq(Known \cup {hand}), errmb' \in Known \cup {hand},
         drops' \in Seq(Known \cup {hand}),
         \A p \in Obj : p # hand => kids'[p] = kids[p],
         kids'[hand] \in Seq(Known), want \notin Containers => kids'[hand] = <<>>,
         want = "scope" => \E i \in DOMAIN cache' : cache'[i] = hand,
         \A i \in DOMAIN cache : \E j \in DOMAIN cache' : cache'[j] = cache[i],
         \A o \in Objects \cup {hand} : refcnt'[o] = Explained(o)'
  PROVE  HeapInv'
<1>1. /\ drops = <<>> /\ dn = <<>> /\ scratch = <<>> /\ dying = Nil /\ gray = {}
      /\ \A o \in Obj : kids[o] \in Seq(Known)
      /\ dynscope \in Known
  BY Quiet DEF Held
<1>2. /\ hand \in Obj /\ kind[hand] = "raw" /\ hand \notin Objects /\ hand \notin Known
      /\ kids[hand] = <<>> /\ want \in Simple \cup {"scope"}
  BY InHand
<1>3. /\ kind'[hand] = want /\ \A o \in Obj : o # hand => kind'[o] = kind[o]
      /\ hand' = Nil /\ op' = "none" /\ want' = "none"
  BY <1>2 DEF Finish, TypeInv, TypeOK, HeapOK
<1>4. Objects' = Objects \cup {hand} /\ Known' = Known \cup {hand} /\ Objects \subseteq Obj
  <2>1. \A o \in Obj : o \in Objects' <=> o \in Objects \/ o = hand
    BY <1>2, <1>3 DEF Objects, Simple, Bare
  <2>2. Objects' \subseteq Obj /\ Objects \subseteq Obj
    BY DEF Objects
  <2>3. Objects' = Objects \cup {hand}
    BY <1>2, <2>1, <2>2
  <2> QED BY <2>2, <2>3 DEF Known
<1>5. /\ dn' = <<>> /\ scratch' = <<>> /\ dying' = Nil /\ gray' = {}
  BY <1>1 DEF tear, gcl
<1>6. Shape'
  <2>1. \A o \in Obj : kind'[o] # "raw"
    BY <1>2, <1>3 DEF HeapInv, Shape, Simple, Bare
  <2>2. \A o \in Obj : kind'[o] \notin Containers => kids'[o] = <<>>
    BY <1>2, <1>3 DEF HeapInv, Shape
  <2> QED BY <1>3, <1>5, <2>1, <2>2, HeapAssumption DEF Shape
<1>7. Placed'
  <2>1. /\ \A i, j \in DOMAIN tab : tab[i] = tab[j] => i = j
        /\ \A o \in Obj : o \in Objects <=> InTable(o) \/ InScratch(o) \/ o = dying
        /\ \A i \in DOMAIN tab : locidx[tab[i]] = i
    BY DEF HeapInv, Placed
  <2>2. /\ Len(tab) \in Nat /\ DOMAIN tab = 1 .. Len(tab) /\ tab \in Seq(Obj)
        /\ DOMAIN tab' = 1 .. Len(tab) + 1 /\ tab'[Len(tab) + 1] = hand
        /\ \A i \in 1 .. Len(tab) : tab'[i] = tab[i]
    <3>1. tab \in Seq(Obj)
      BY DEF TypeInv, TypeOK, HeapOK
    <3>2. tab' = Append(tab, hand)
      BY DEF SetupForGc
    <3> QED BY <1>2, <3>1, <3>2
  <2>3. \A o \in Obj : ~InScratch(o) /\ ~InScratch(o)' /\ o # dying /\ o # dying'
    BY <1>1, <1>5, HeapAssumption DEF InScratch
  <2>4. \A i \in DOMAIN tab : tab[i] # hand
    BY <1>2, <2>1 DEF InTable
  <2>5. ASSUME NEW o \in Obj PROVE InTable(o)' <=> InTable(o) \/ o = hand
    <3>1. ASSUME NEW i \in DOMAIN tab' PROVE tab'[i] = o => InTable(o) \/ o = hand
      <4>1. i = Len(tab) + 1 \/ i \in 1 .. Len(tab)
        BY <2>2, OneFurther
      <4> QED BY <2>2, <4>1 DEF InTable
    <3>2. ASSUME NEW i \in DOMAIN tab PROVE tab[i] = o => \E j \in DOMAIN tab' : tab'[j] = o
      <4>1. i \in DOMAIN tab' /\ tab'[i] = tab[i]
        BY <2>2
      <4> QED BY <4>1
    <3>3. o = hand => \E j \in DOMAIN tab' : tab'[j] = o
      <4>1. Len(tab) + 1 \in DOMAIN tab'
        BY <2>2
      <4> QED BY <2>2, <4>1
    <3> QED BY <3>1, <3>2, <3>3 DEF InTable
  <2>6. \A i, j \in DOMAIN tab' : tab'[i] = tab'[j] => i = j
    <3>1. ASSUME NEW i \in DOMAIN tab', NEW j \in DOMAIN tab', tab'[i] = tab'[j]
          PROVE  i = j
      <4>1. \A k \in DOMAIN tab' : k = Len(tab) + 1 \/ k \in DOMAIN tab
        BY <2>2, OneFurther
      <4>2. \A k \in DOMAIN tab : tab'[k] = tab[k] /\ tab'[k] # hand
        BY <2>2, <2>4
      <4>3. CASE i = Len(tab) + 1 /\ j \in DOMAIN tab
        BY <2>2, <3>1, <4>2, <4>3
      <4>4. CASE j = Len(tab) + 1 /\ i \in DOMAIN tab
        BY <2>2, <3>1, <4>2, <4>4
      <4>5. CASE i \in DOMAIN tab /\ j \in DOMAIN tab
        BY <2>1, <3>1, <4>2, <4>5
      <4>6. CASE i = Len(tab) + 1 /\ j = Len(tab) + 1
        BY <4>6
      <4> QED BY <4>1, <4>3, <4>4, <4>5, <4>6
    <3> QED BY <3>1
  <2>7. locidx'[hand] = Len(tab) + 1 /\ \A o \in Obj : o # hand => locidx'[o] = locidx[o]
    BY <1>2 DEF SetupForGc, TypeInv, TypeOK, HeapOK
  <2>8. \A i \in DOMAIN tab' : locidx'[tab'[i]] = i
    <3>1. ASSUME NEW i \in DOMAIN tab' PROVE locidx'[tab'[i]] = i
      <4>1. CASE i = Len(tab) + 1
        BY <2>2, <2>7, <4>1
      <4>2. CASE i # Len(tab) + 1
        <5>1. i \in DOMAIN tab /\ tab'[i] = tab[i] /\ tab[i] \in Obj /\ tab[i] # hand
          BY <2>2, <2>4, <4>2
        <5> QED BY <2>1, <2>7, <5>1
      <4> QED BY <4>1, <4>2
    <3> QED BY <3>1
  <2>9. \A i, j \in DOMAIN scratch' : scratch'[i] = scratch'[j] => i = j
    BY <1>5
  <2> QED BY <1>4, <2>1, <2>3, <2>5, <2>6, <2>8, <2>9 DEF Placed
<1>8. Fits'
  <2>1. Len(tab') = Len(tab) + 1 /\ cap' = GrownCap /\ Len(scratch') = 0 /\ Len(tab) \in Nat
    BY <1>2, <1>5 DEF SetupForGc, TypeInv, TypeOK, HeapOK
  <2> QED BY <1>1, <2>1, GrownCapBigger DEF Fits
<1>9. Phases'
  BY <1>3, <1>5 DEF Phases, Creating
<1>10. HeldKnown'
  BY <1>1, <1>4, <1>5 DEF HeldKnown, Held
<1>11. KidsKnown'
  <2>1. Known \subseteq Known'
    BY <1>4
  <2>2. ASSUME NEW p \in Obj PROVE kids'[p] \in Seq(Known)
    BY <1>1
  <2>3. ASSUME NEW p \in Obj PROVE kids'[p] \in Seq(Known')
    BY <2>1, <2>2, SeqWider
  <2> QED BY <2>3 DEF KidsKnown
<1>12. Pinned'
  <2>1. op # "free"
    BY DEF HeapInv, Phases, Creating
  <2>2. \A o \in Obj : kind[o] = "scope" => \E i \in DOMAIN cache : cache[i] = o
    BY <2>1 DEF HeapInv, Pinned
  <2>3. ASSUME NEW o \in Obj, kind'[o] = "scope" PROVE \E i \in DOMAIN cache' : cache'[i] = o
    <3>1. CASE o = hand
      BY <1>3, <2>3, <3>1
    <3>2. CASE o # hand
      BY <1>3, <2>2, <2>3, <3>2
    <3> QED BY <3>1, <3>2
  <2> QED BY <2>3 DEF Pinned
<1>13. CountsExact'
  <2>1. ASSUME NEW o \in Objects' PROVE refcnt'[o] = CountFrom(Obj, o)'
    <3>1. CountFrom(Obj, o)' = Explained(o)' + Occurrences(dn', o) /\ Explained(o)' \in Nat
      BY ExplainedCountNext DEF TypeInv
    <3>2. Occurrences(dn', o) = 0
      BY <1>5, OccurrencesEmpty
    <3> QED BY <1>4, <3>1, <3>2
  <2> QED BY <2>1 DEF CountsExact
<1>14. Marks'
  BY <1>5 DEF Marks
<1>15. CollectedExactly'
  BY DEF CollectedExactly
<1> QED BY <1>6, <1>7, <1>8, <1>9, <1>10, <1>11, <1>12, <1>13, <1>14, <1>15 DEF HeapInv

\* The references of the state and the new one are over the wider set.
LEMMA WithHand ==
  ASSUME TypeInv, HeapInv, pc = "made"
  PROVE  LET W == Known \cup {hand}
         IN  /\ stack \in Seq(W) /\ cstack \in Seq(W) /\ cache \in Seq(W)
             /\ dynscope \in W /\ errmb \in W /\ hand \in W /\ Nil \in W
             /\ drops = <<>> /\ drops \in Seq(W) /\ N \in Nat
             /\ \A d \in 1 .. N : At(d) \in W
             /\ \A d \in 0 .. N : Below(d) \in Seq(W)
<1> DEFINE W == Known \cup {hand}
<1>1. Known \subseteq W /\ hand \in W
  OBVIOUS
<1> HIDE DEF W
<1>2. /\ stack \in Seq(W) /\ cstack \in Seq(W) /\ cache \in Seq(W)
      /\ \A d \in 0 .. N : Below(d) \in Seq(W)
  BY <1>1, Operands, SeqWider
<1>3. /\ dynscope \in W /\ errmb \in W /\ Nil \in W /\ N \in Nat /\ drops = <<>>
      /\ \A d \in 1 .. N : At(d) \in W
  BY <1>1, Operands
<1> QED BY <1>1, <1>2, <1>3 DEF W

\* The count the new object starts with.
LEMMA CountedCounts ==
  ASSUME TypeInv, HeapInv, pc = "made", NEW o \in Obj
  PROVE  /\ Counted(1) \in [Obj -> Nat] /\ Counted(2) \in [Obj -> Nat]
         /\ Counted(1)[o] = BaseCount(o) + One(hand, o)
         /\ Counted(2)[o] = BaseCount(o) + One(hand, o) + One(hand, o)
<1>1. hand \in Obj
  BY InHand
<1>2. refcnt \in [Obj -> Nat]
  BY DEF TypeInv, TypeOK, HeapOK
<1>3. CASE o = hand
  BY <1>1, <1>2, <1>3 DEF Counted, BaseCount, One
<1>4. CASE o # hand
  BY <1>1, <1>2, <1>4 DEF Counted, BaseCount, One
<1> QED BY <1>1, <1>2, <1>3, <1>4 DEF Counted

LEMMA CreateDoneSafe ==
  ASSUME TypeInv, TypeInv', HeapInv, CreateDone
  PROVE  HeapInv'
<1>1. /\ pc = "made" /\ op = "create" /\ pc' = "run"
      /\ SetupForGc(hand) /\ kind' = [kind EXCEPT ![hand] = want] /\ Finish
      /\ refcnt' = Counted(1) /\ cstack' = Append(cstack, hand)
      /\ UNCHANGED <<scratch, dynscope, tear, gcl>>
      /\ UNCHANGED <<kids, stack, cache, errmb, drops>>
  BY DEF CreateDone, Making, Made
<1>2. want \in Simple
  BY <1>1 DEF HeapInv, Phases
<1> DEFINE W == Known \cup {hand}
<1>3. /\ stack' \in Seq(W) /\ cache' \in Seq(W) /\ errmb' \in W /\ drops' \in Seq(W)
      /\ drops' = <<>> /\ cstack \in Seq(W) /\ hand \in W
  BY <1>1, WithHand
<1>4. ASSUME NEW o
      PROVE  /\ Occurrences(cstack', o) = Occurrences(cstack, o) + One(hand, o)
             /\ cstack' \in Seq(W)
  <2> HIDE DEF W
  <2> QED BY <1>1, <1>3, AppendCounts
<1>5. /\ hand \in Obj /\ kids[hand] = <<>> /\ \A o \in Objects \cup {hand} : BaseAt(o)
  BY <1>1, InHand
<1>6. ASSUME NEW o \in Objects \cup {hand} PROVE refcnt'[o] = Explained(o)'
  <2>1. refcnt'[o] = BaseCount(o) + One(hand, o)
    BY <1>1, <1>5, CountedCounts, KnownIsRef
  <2>2. BaseAt(o)
    BY <1>5
  <2>3. Occurrences(cstack', o) = Occurrences(cstack, o) + One(hand, o)
    BY <1>4
  <2> HIDE DEF W
  <2> QED BY <1>1, <2>1, <2>2, <2>3, SMTT(30) DEF BaseAt, Explained
<1>7. /\ \A p \in Obj : p # hand => kids'[p] = kids[p]
      /\ kids'[hand] \in Seq(Known) /\ kids'[hand] = <<>>
      /\ \A i \in DOMAIN cache : \E j \in DOMAIN cache' : cache'[j] = cache[i]
  BY <1>1, <1>5, Operands
<1> QED BY <1>1, <1>2, <1>3, <1>4, <1>6, <1>7, Enrolled DEF Simple, Bare

LEMMA NewDoneSafe ==
  ASSUME TypeInv, TypeInv', HeapInv, NewDone
  PROVE  HeapInv'
<1>1. /\ pc = "made" /\ op = "new" /\ pc' = "run"
      /\ SetupForGc(hand) /\ kind' = [kind EXCEPT ![hand] = want] /\ Finish
      /\ refcnt' = Counted(1) /\ stack' = Append(stack, hand)
      /\ UNCHANGED <<scratch, dynscope, tear, gcl>>
      /\ UNCHANGED <<kids, cstack, cache, errmb, drops>>
  BY DEF NewDone, Making, Made
<1>2. want \in Simple
  BY <1>1 DEF HeapInv, Phases
<1> DEFINE W == Known \cup {hand}
<1>3. /\ cstack' \in Seq(W) /\ cache' \in Seq(W) /\ errmb' \in W /\ drops' \in Seq(W)
      /\ drops' = <<>> /\ stack \in Seq(W) /\ hand \in W
  BY <1>1, WithHand
<1>4. ASSUME NEW o
      PROVE  /\ Occurrences(stack', o) = Occurrences(stack, o) + One(hand, o)
             /\ stack' \in Seq(W)
  <2> HIDE DEF W
  <2> QED BY <1>1, <1>3, AppendCounts
<1>5. /\ hand \in Obj /\ kids[hand] = <<>> /\ \A o \in Objects \cup {hand} : BaseAt(o)
  BY <1>1, InHand
<1>6. ASSUME NEW o \in Objects \cup {hand} PROVE refcnt'[o] = Explained(o)'
  <2>1. refcnt'[o] = BaseCount(o) + One(hand, o)
    BY <1>1, <1>5, CountedCounts, KnownIsRef
  <2>2. BaseAt(o)
    BY <1>5
  <2>3. Occurrences(stack', o) = Occurrences(stack, o) + One(hand, o)
    BY <1>4
  <2> HIDE DEF W
  <2> QED BY <1>1, <2>1, <2>2, <2>3, SMTT(30) DEF BaseAt, Explained
<1>7. /\ \A p \in Obj : p # hand => kids'[p] = kids[p]
      /\ kids'[hand] \in Seq(Known) /\ kids'[hand] = <<>>
      /\ \A i \in DOMAIN cache : \E j \in DOMAIN cache' : cache'[j] = cache[i]
  BY <1>1, <1>5, Operands
<1> QED BY <1>1, <1>2, <1>3, <1>4, <1>6, <1>7, Enrolled DEF Simple, Bare

LEMMA CreateOverflowSafe ==
  ASSUME TypeInv, TypeInv', HeapInv, CreateOverflow
  PROVE  HeapInv'
<1>1. /\ pc = "made" /\ op \in {"create", "new"} /\ pc' = "drop"
      /\ SetupForGc(hand) /\ kind' = [kind EXCEPT ![hand] = want] /\ Finish
      /\ refcnt' = Counted(1) /\ errmb' = hand /\ drops' = <<errmb>>
      /\ UNCHANGED <<scratch, dynscope, tear, gcl>>
      /\ UNCHANGED <<kids, stack, cstack, cache>>
  BY DEF CreateOverflow, Making, Made, Release
<1>2. want \in Simple
  BY <1>1 DEF HeapInv, Phases
<1> DEFINE W == Known \cup {hand}
<1>3. /\ stack' \in Seq(W) /\ cstack' \in Seq(W) /\ cache' \in Seq(W) /\ errmb' \in W
      /\ drops' \in Seq(W)
  BY <1>1, WithHand
<1>5. /\ hand \in Obj /\ kids[hand] = <<>> /\ \A o \in Objects \cup {hand} : BaseAt(o)
  BY <1>1, InHand
<1>6. ASSUME NEW o \in Objects \cup {hand} PROVE refcnt'[o] = Explained(o)'
  <2>1. refcnt'[o] = BaseCount(o) + One(hand, o)
    BY <1>1, <1>5, CountedCounts, KnownIsRef
  <2>2. BaseAt(o)
    BY <1>5
  <2>3. Occurrences(drops', o) = One(errmb, o)
    BY <1>1, SingleCounts
  <2> HIDE DEF W
  <2> QED BY <1>1, <2>1, <2>2, <2>3, SMTT(30) DEF BaseAt, Explained
<1>7. /\ \A p \in Obj : p # hand => kids'[p] = kids[p]
      /\ kids'[hand] \in Seq(Known) /\ kids'[hand] = <<>>
      /\ \A i \in DOMAIN cache : \E j \in DOMAIN cache' : cache'[j] = cache[i]
  BY <1>1, <1>5, Operands
<1> QED BY <1>1, <1>2, <1>3, <1>6, <1>7, Enrolled DEF Simple, Bare

\* A new scope refers to its parent and the cache to the scope.
LEMMA ScopeMade ==
  ASSUME TypeInv, TypeInv', HeapInv, pc = "made", op = "scope", NEW n \in {1, 2}, MadeScope(n)
  PROVE  LET W == Known \cup {hand}
         IN  /\ N >= 2 /\ want = "scope" /\ hand \in Obj
             /\ At(1) \in Known /\ At(2) \in Known
             /\ SetupForGc(hand) /\ kind' = [kind EXCEPT ![hand] = want] /\ Finish
             /\ UNCHANGED <<scratch, dynscope, tear, gcl>> /\ cstack' = cstack
             /\ cstack' \in Seq(W) /\ cache' \in Seq(W)
             /\ \A p \in Obj : p # hand => kids'[p] = kids[p]
             /\ kids'[hand] \in Seq(Known)
             /\ \E i \in DOMAIN cache' : cache'[i] = hand
             /\ \A i \in DOMAIN cache : \E j \in DOMAIN cache' : cache'[j] = cache[i]
             /\ \A o \in Objects \cup {hand} :
                  /\ Occurrences(cache', o) = Occurrences(cache, o) + One(hand, o)
                  /\ Cardinality(SlotsIn(kids', Obj, o))
                       = Cardinality(SlotsIn(kids, Obj, o)) + One(At(2), o)
                  /\ refcnt'[o] = BaseCount(o) + One(hand, o)
                                  + (IF n = 2 THEN One(hand, o) ELSE 0) + One(At(2), o)
                  /\ One(At(2), o) \in Nat /\ One(At(1), o) \in Nat
<1> DEFINE W == Known \cup {hand}
           x == At(2)
<1>1. /\ SetupForGc(hand) /\ kind' = [kind EXCEPT ![hand] = want] /\ Finish
      /\ refcnt' = Up(Counted(n), x)
      /\ UNCHANGED <<scratch, dynscope, tear, gcl>> /\ cstack' = cstack
      /\ kids' = [kids EXCEPT ![hand] = <<x>>] /\ cache' = Append(cache, hand)
  BY DEF MadeScope, Made, ParentCounted
<1>2. N >= 2 /\ want = "scope" /\ hand \in Obj /\ kids[hand] = <<>> /\ N \in Nat
  BY InHand, Operands DEF TypeInv, Progress, HeapInv, Phases
<1>3. At(1) \in Known /\ x \in Known /\ x \in Ref
  <2>1. \A d \in 1 .. N : At(d) \in Known
    BY Operands
  <2>2. At(1) \in Known /\ At(2) \in Known
    BY <1>2, <2>1
  <2> QED BY <2>2, KnownIsRef
<1>4. kids'[hand] = <<x>> /\ \A p \in Obj : p # hand => kids'[p] = kids[p]
  BY <1>1, <1>2 DEF TypeInv, TypeOK, HeapOK
<1>5. cstack \in Seq(W) /\ cache \in Seq(W) /\ hand \in W /\ cstack' \in Seq(W)
  BY <1>1, WithHand
<1> HIDE DEF W, x
<1>6. ASSUME NEW o
      PROVE  cache' \in Seq(W) /\ Occurrences(cache', o) = Occurrences(cache, o) + One(hand, o)
  BY <1>1, <1>5, AppendCounts
<1>7. /\ \E i \in DOMAIN cache' : cache'[i] = hand
      /\ \A i \in DOMAIN cache : \E j \in DOMAIN cache' : cache'[j] = cache[i]
  <2>1. /\ Len(cache) \in Nat /\ DOMAIN cache = 1 .. Len(cache)
        /\ DOMAIN cache' = 1 .. Len(cache) + 1 /\ cache'[Len(cache) + 1] = hand
        /\ \A i \in 1 .. Len(cache) : cache'[i] = cache[i]
    BY <1>1, <1>5
  <2>2. \A i \in DOMAIN cache : i \in DOMAIN cache'
    BY <2>1
  <2>3. Len(cache) + 1 \in DOMAIN cache'
    BY <2>1
  <2> QED BY <2>1, <2>2, <2>3
<1>8. kids'[hand] \in Seq(Known)
  BY <1>3, <1>4
<1>9. ASSUME NEW o \in Objects \cup {hand}
      PROVE  /\ Cardinality(SlotsIn(kids', Obj, o))
                  = Cardinality(SlotsIn(kids, Obj, o)) + One(x, o)
             /\ refcnt'[o] = BaseCount(o) + One(hand, o)
                             + (IF n = 2 THEN One(hand, o) ELSE 0) + One(x, o)
             /\ One(x, o) \in Nat /\ One(At(1), o) \in Nat
  <2>1. o \in Obj /\ IsFiniteSet(Obj)
    BY <1>2, KnownIsRef, HeapAssumption
  <2>3. /\ Cardinality(SlotsIn(kids', Obj, o)) + Occurrences(kids[hand], o)
             = Cardinality(SlotsIn(kids, Obj, o)) + Occurrences(kids'[hand], o)
        /\ Cardinality(SlotsIn(kids', Obj, o)) \in Nat
    BY <1>2, <1>4, KidsChanged
  <2>4. Occurrences(kids[hand], o) = 0 /\ Occurrences(kids'[hand], o) = One(x, o)
    BY <1>2, <1>4, OccurrencesEmpty, SingleCounts
  <2>5. One(x, o) \in Nat /\ One(At(1), o) \in Nat
    BY OneType
  <2>6. Cardinality(SlotsIn(kids, Obj, o)) \in Nat
    BY InHand DEF BaseAt
  <2>7. refcnt'[o] = Counted(n)[o] + One(x, o)
    BY <1>1, <1>3, <2>1, UpCounts, CountedCounts
  <2>8. Counted(n)[o] = BaseCount(o) + One(hand, o) + (IF n = 2 THEN One(hand, o) ELSE 0)
    <3>1. One(hand, o) \in Nat /\ BaseCount(o) \in Nat
      BY InHand DEF BaseAt
    <3>2. CASE n = 1
      BY <2>1, <3>1, <3>2, CountedCounts
    <3>3. CASE n = 2
      BY <2>1, <3>1, <3>3, CountedCounts
    <3> QED BY <3>2, <3>3
  <2> QED BY <2>3, <2>4, <2>5, <2>6, <2>7, <2>8
<1> QED BY <1>1, <1>2, <1>3, <1>4, <1>5, <1>6, <1>7, <1>8, <1>9 DEF W, x

LEMMA ScopeDoneSafe ==
  ASSUME TypeInv, TypeInv', HeapInv, ScopeDone
  PROVE  HeapInv'
<1>1. /\ pc = "made" /\ op = "scope" /\ pc' = "drop" /\ MadeScope(1)
      /\ stack' = Append(Below(2), Nil) /\ drops' = <<At(2), At(1)>> /\ errmb' = errmb
  BY DEF ScopeDone, Making, Release
<1> DEFINE W == Known \cup {hand}
<1>2. /\ N >= 2 /\ want = "scope" /\ hand \in Obj
      /\ At(1) \in Known /\ At(2) \in Known
      /\ SetupForGc(hand) /\ kind' = [kind EXCEPT ![hand] = want] /\ Finish
      /\ UNCHANGED <<scratch, dynscope, tear, gcl>> /\ cstack' = cstack
      /\ cstack' \in Seq(W) /\ cache' \in Seq(W)
      /\ \A p \in Obj : p # hand => kids'[p] = kids[p]
      /\ kids'[hand] \in Seq(Known)
      /\ \E i \in DOMAIN cache' : cache'[i] = hand
      /\ \A i \in DOMAIN cache : \E j \in DOMAIN cache' : cache'[j] = cache[i]
  BY <1>1, ScopeMade
<1>3. \A o \in Objects \cup {hand} :
        /\ Occurrences(cache', o) = Occurrences(cache, o) + One(hand, o)
        /\ Cardinality(SlotsIn(kids', Obj, o))
             = Cardinality(SlotsIn(kids, Obj, o)) + One(At(2), o)
        /\ refcnt'[o] = BaseCount(o) + One(hand, o)
                        + (IF 1 = 2 THEN One(hand, o) ELSE 0) + One(At(2), o)
        /\ One(At(2), o) \in Nat /\ One(At(1), o) \in Nat
  BY <1>1, ScopeMade
<1>4. Below(2) \in Seq(W) /\ Nil \in W /\ errmb' \in W /\ drops' \in Seq(W)
  BY <1>1, <1>2, WithHand
<1>5. ASSUME NEW o
      PROVE  /\ stack' \in Seq(W)
             /\ Occurrences(stack', o) = Occurrences(Below(2), o) + One(Nil, o)
             /\ Occurrences(Below(2), o) \in Nat
  <2> HIDE DEF W
  <2> QED BY <1>1, <1>4, AppendCounts
<1>6. ASSUME NEW o \in Objects \cup {hand} PROVE refcnt'[o] = Explained(o)'
  <2>1. Occurrences(stack, o) = Occurrences(Below(2), o) + One(At(1), o) + One(At(2), o)
    <3>1. stack \in Seq(Known)
      BY <1>1, Operands
    <3> QED BY <1>2, <3>1, StackTop
  <2>2. BaseAt(o)
    BY <1>1, InHand
  <2>3. Occurrences(drops', o) = One(At(2), o) + One(At(1), o)
    BY <1>1, PairCounts
  <2>4. refcnt'[o] = BaseCount(o) + One(hand, o) + One(At(2), o)
    BY <1>3, <2>2 DEF BaseAt
  <2> DEFINE k1 == Cardinality(SlotsIn(kids', Obj, o))
             k0 == Cardinality(SlotsIn(kids, Obj, o))
             s1 == Occurrences(stack', o)
             s0 == Occurrences(stack, o)
             b == Occurrences(Below(2), o)
             c == Occurrences(cstack, o)
             e1 == Occurrences(cache', o)
             e0 == Occurrences(cache, o)
             f == Occurrences(drops', o)
             d == One(dynscope, o)
             g == One(errmb, o)
             h == One(hand, o)
             x == One(At(1), o)
             y == One(At(2), o)
             r == BaseCount(o)
  <2>5. Explained(o)' = k1 + s1 + c + e1 + d + g + f
    BY <1>1, <1>2 DEF Explained
  <2>6. r = k0 + s0 + c + e0 + d + g + 0
    BY <2>2 DEF BaseAt, Explained
  <2>7. /\ k1 = k0 + y /\ s1 = b + 0 /\ e1 = e0 + h /\ f = y + x /\ s0 = b + x + y
        /\ refcnt'[o] = r + h + y
    BY <1>3, <1>5, <2>1, <2>2, <2>3, <2>4 DEF BaseAt
  <2>8. /\ k0 \in Nat /\ b \in Nat /\ c \in Nat /\ e0 \in Nat /\ d \in Nat /\ g \in Nat
        /\ h \in Nat /\ x \in Nat /\ y \in Nat
    BY <1>3, <1>5, <2>2 DEF BaseAt
  <2> HIDE DEF k1, k0, s1, s0, b, c, e1, e0, f, d, g, h, x, y, r
  <2> QED BY <2>5, <2>6, <2>7, <2>8
<1> QED BY <1>1, <1>2, <1>4, <1>5, <1>6, Enrolled DEF Containers, Arrays

LEMMA ScopeOverflowSafe ==
  ASSUME TypeInv, TypeInv', HeapInv, ScopeOverflow
  PROVE  HeapInv'
<1>1. /\ pc = "made" /\ op = "scope" /\ pc' = "drop" /\ MadeScope(2)
      /\ stack' = stack /\ drops' = <<errmb>> /\ errmb' = hand
  BY DEF ScopeOverflow, Making, Release
<1> DEFINE W == Known \cup {hand}
<1>2. /\ N >= 2 /\ want = "scope" /\ hand \in Obj
      /\ At(1) \in Known /\ At(2) \in Known
      /\ SetupForGc(hand) /\ kind' = [kind EXCEPT ![hand] = want] /\ Finish
      /\ UNCHANGED <<scratch, dynscope, tear, gcl>> /\ cstack' = cstack
      /\ cstack' \in Seq(W) /\ cache' \in Seq(W)
      /\ \A p \in Obj : p # hand => kids'[p] = kids[p]
      /\ kids'[hand] \in Seq(Known)
      /\ \E i \in DOMAIN cache' : cache'[i] = hand
      /\ \A i \in DOMAIN cache : \E j \in DOMAIN cache' : cache'[j] = cache[i]
  BY <1>1, ScopeMade
<1>3. \A o \in Objects \cup {hand} :
        /\ Occurrences(cache', o) = Occurrences(cache, o) + One(hand, o)
        /\ Cardinality(SlotsIn(kids', Obj, o))
             = Cardinality(SlotsIn(kids, Obj, o)) + One(At(2), o)
        /\ refcnt'[o] = BaseCount(o) + One(hand, o)
                        + (IF 2 = 2 THEN One(hand, o) ELSE 0) + One(At(2), o)
        /\ One(At(2), o) \in Nat /\ One(At(1), o) \in Nat
  BY <1>1, ScopeMade
<1>4. stack' \in Seq(W) /\ errmb' \in W /\ drops' \in Seq(W)
  BY <1>1, <1>2, WithHand
<1>6. ASSUME NEW o \in Objects \cup {hand} PROVE refcnt'[o] = Explained(o)'
  <2>2. BaseAt(o)
    BY <1>1, InHand
  <2>3. Occurrences(drops', o) = One(errmb, o)
    BY <1>1, SingleCounts
  <2>4. refcnt'[o] = BaseCount(o) + One(hand, o) + One(hand, o) + One(At(2), o)
    BY <1>3
  <2> DEFINE k1 == Cardinality(SlotsIn(kids', Obj, o))
             k0 == Cardinality(SlotsIn(kids, Obj, o))
             s == Occurrences(stack, o)
             c == Occurrences(cstack, o)
             e1 == Occurrences(cache', o)
             e0 == Occurrences(cache, o)
             f == Occurrences(drops', o)
             d == One(dynscope, o)
             g == One(errmb, o)
             h == One(hand, o)
             y == One(At(2), o)
             r == BaseCount(o)
  <2>5. Explained(o)' = k1 + s + c + e1 + d + h + f
    BY <1>1, <1>2 DEF Explained
  <2>6. r = k0 + s + c + e0 + d + g + 0
    BY <2>2 DEF BaseAt, Explained
  <2>7. k1 = k0 + y /\ e1 = e0 + h /\ f = g /\ refcnt'[o] = r + h + h + y
    BY <1>3, <2>3, <2>4
  <2>8. /\ k0 \in Nat /\ s \in Nat /\ c \in Nat /\ e0 \in Nat /\ d \in Nat /\ g \in Nat
        /\ h \in Nat /\ y \in Nat
    BY <1>3, <2>2 DEF BaseAt
  <2> HIDE DEF k1, k0, s, c, e1, e0, f, d, g, h, y, r
  <2> QED BY <2>5, <2>6, <2>7, <2>8
<1> QED BY <1>1, <1>2, <1>4, <1>6, Enrolled DEF Containers, Arrays

\* abce_free takes over every reference the roots hold.
LEMMA RootRefsCounts ==
  ASSUME TypeInv, HeapInv, pc = "run", NEW o
  PROVE  /\ RootRefs \in Seq(Known)
         /\ Occurrences(RootRefs, o)
              = One(dynscope, o) + Occurrences(cache, o) + Occurrences(stack, o)
                + Occurrences(cstack, o) + One(errmb, o)
<1> DEFINE a == <<dynscope>>
           b == a \o cache
           c == b \o stack
           d == c \o cstack
           e == <<errmb>>
<1>1. /\ a \in Seq(Known) /\ e \in Seq(Known) /\ cache \in Seq(Known)
      /\ stack \in Seq(Known) /\ cstack \in Seq(Known)
  BY Operands
<1>2. Occurrences(a, o) = One(dynscope, o) /\ Occurrences(e, o) = One(errmb, o)
  BY SingleCounts
<1>3. RootRefs = d \o e
  BY Zenon DEF RootRefs
<1>4. b = a \o cache /\ c = b \o stack /\ d = c \o cstack
  OBVIOUS
<1> HIDE DEF a, b, c, d, e
<1>5. b \in Seq(Known) /\ Occurrences(b, o) = Occurrences(a, o) + Occurrences(cache, o)
  <2>1. b = a \o cache
    BY <1>4
  <2>2. a \in Seq(Known) /\ cache \in Seq(Known)
    BY <1>1
  <2>3. Occurrences(a \o cache, o) = Occurrences(a, o) + Occurrences(cache, o)
    BY <2>2, OccurrencesConcat
  <2>4. a \o cache \in Seq(Known)
    BY <2>2
  <2> QED BY <2>1, <2>3, <2>4
<1>6. c \in Seq(Known) /\ Occurrences(c, o) = Occurrences(b, o) + Occurrences(stack, o)
  <2>1. c = b \o stack
    BY <1>4
  <2>2. b \in Seq(Known) /\ stack \in Seq(Known)
    BY <1>1, <1>5
  <2>3. Occurrences(b \o stack, o) = Occurrences(b, o) + Occurrences(stack, o)
    BY <2>2, OccurrencesConcat
  <2>4. b \o stack \in Seq(Known)
    BY <2>2
  <2> QED BY <2>1, <2>3, <2>4
<1>7. d \in Seq(Known) /\ Occurrences(d, o) = Occurrences(c, o) + Occurrences(cstack, o)
  <2>1. d = c \o cstack
    BY <1>4
  <2>2. c \in Seq(Known) /\ cstack \in Seq(Known)
    BY <1>1, <1>6
  <2>3. Occurrences(c \o cstack, o) = Occurrences(c, o) + Occurrences(cstack, o)
    BY <2>2, OccurrencesConcat
  <2>4. c \o cstack \in Seq(Known)
    BY <2>2
  <2> QED BY <2>1, <2>3, <2>4
<1>8. d \o e \in Seq(Known) /\ Occurrences(d \o e, o) = Occurrences(d, o) + Occurrences(e, o)
  BY <1>1, <1>7, OccurrencesConcat
<1> QED BY <1>2, <1>3, <1>5, <1>6, <1>7, <1>8

LEMMA AbceFreeSafe ==
  ASSUME TypeInv, TypeInv', HeapInv, AbceFree
  PROVE  HeapInv'
<1>1. /\ pc = "run" /\ op = "none" /\ op' = "free" /\ pc' = "drop" /\ drops' = RootRefs
      /\ stack' = <<>> /\ cstack' = <<>> /\ cache' = <<>> /\ dynscope' = Nil /\ errmb' = Nil
      /\ UNCHANGED <<kind, kids, refcnt, locidx, tab, scratch, cap, want, hand, tear, gcl>>
  BY DEF AbceFree, Idle, Release, TypeInv, Progress, heap
<1>2. /\ drops = <<>> /\ dn = <<>> /\ scratch = <<>> /\ dying = Nil /\ gray = {}
      /\ \A o \in Obj : kids[o] \in Seq(Known) /\ kids'[o] = kids[o]
  BY <1>1, Quiet
<1>3. /\ dn' = <<>> /\ scratch' = <<>> /\ dying' = Nil /\ gray' = {}
      /\ Objects' = Objects /\ Known' = Known
  BY <1>1, <1>2 DEF tear, gcl, Objects, Known
<1>4. Shape'
  BY <1>1, <1>3 DEF HeapInv, Shape
<1>5. Placed'
  <2>1. /\ \A i, j \in DOMAIN tab : tab[i] = tab[j] => i = j
        /\ \A o \in Obj : o \in Objects <=> InTable(o) \/ InScratch(o) \/ o = dying
        /\ \A i \in DOMAIN tab : locidx[tab[i]] = i
    BY <1>1 DEF HeapInv, Placed
  <2>2. \A o \in Obj : (InTable(o) <=> InTable(o)') /\ ~InScratch(o) /\ ~InScratch(o)'
    BY <1>1, <1>2, <1>3 DEF InTable, InScratch
  <2>3. \A o \in Obj : o # dying /\ o # dying'
    BY <1>2, <1>3, HeapAssumption
  <2>4. \A i, j \in DOMAIN scratch' : scratch'[i] = scratch'[j] => i = j
    BY <1>3
  <2> QED BY <1>1, <1>3, <2>1, <2>2, <2>3, <2>4 DEF Placed
<1>6. Fits'
  BY <1>1 DEF HeapInv, Fits
<1>7. Phases'
  BY <1>1, <1>3 DEF Phases, Creating
<1>8. HeldKnown'
  <2>1. drops' \in Seq(Known')
    BY <1>1, <1>3, RootRefsCounts
  <2>2. Nil \in Known' /\ \A S : <<>> \in Seq(S)
    BY DEF Known
  <2> QED BY <1>1, <1>3, <2>1, <2>2 DEF HeldKnown, Held
<1>9. KidsKnown'
  BY <1>1, <1>2, <1>3 DEF KidsKnown
<1>10. Pinned'
  BY <1>1 DEF Pinned
<1>11. CountsExact'
  <2>1. ASSUME NEW o \in Objects PROVE refcnt'[o] = CountFrom(Obj, o)'
    <3>1. CountFrom(Obj, o)' = Explained(o)' + Occurrences(dn', o) /\ Explained(o)' \in Nat
      BY ExplainedCountNext DEF TypeInv
    <3>2. Occurrences(dn', o) = 0
      BY <1>3, OccurrencesEmpty
    <3>3. /\ Occurrences(stack', o) = 0 /\ Occurrences(cstack', o) = 0
          /\ Occurrences(cache', o) = 0
      BY <1>1, OccurrencesEmpty
    <3>4. CountsAt(o)
      BY <1>1, QuietAt
    <3> DEFINE k == Cardinality(SlotsIn(kids, Obj, o))
               s == Occurrences(stack, o)
               c == Occurrences(cstack, o)
               e == Occurrences(cache, o)
               d == One(dynscope, o)
               g == One(errmb, o)
               z == One(Nil, o)
               f == Occurrences(drops', o)
    <3>5. Explained(o)' = k + 0 + 0 + 0 + z + z + f
      BY <1>1, <3>3 DEF Explained
    <3>6. f = d + e + s + c + g
      BY <1>1, RootRefsCounts
    <3>7. refcnt'[o] = k + s + c + e + d + g + 0 /\ z = 0
      BY <1>1, <3>4 DEF CountsAt, Explained
    <3>8. /\ k \in Nat /\ s \in Nat /\ c \in Nat /\ e \in Nat /\ d \in Nat /\ g \in Nat
      BY <3>4 DEF CountsAt
    <3> HIDE DEF k, s, c, e, d, g, z, f
    <3> QED BY <3>1, <3>2, <3>5, <3>6, <3>7, <3>8
  <2> QED BY <1>1, <1>3, <2>1 DEF CountsExact
<1>12. Marks'
  BY <1>1, <1>3 DEF Marks
<1>13. CollectedExactly'
  BY <1>1 DEF CollectedExactly
<1> QED BY <1>4, <1>5, <1>6, <1>7, <1>8, <1>9, <1>10, <1>11, <1>12, <1>13 DEF HeapInv

-----------------------------------------------------------------------------
(* The cascade.                                                            *)

\* The references outside the objects, after a step.
LEMMA RootCountNext ==
  ASSUME TypeInv', NEW o
  PROVE  /\ Occurrences(stack', o) \in Nat /\ Occurrences(cstack', o) \in Nat
         /\ Occurrences(cache', o) \in Nat /\ Occurrences(<<dynscope', errmb'>>, o) \in Nat
         /\ Occurrences(drops', o) \in Nat /\ Occurrences(dn', o) \in Nat
         /\ RootCount(o)' = Occurrences(stack', o) + Occurrences(cstack', o)
                            + Occurrences(cache', o) + Occurrences(<<dynscope', errmb'>>, o)
                            + Occurrences(drops', o) + Occurrences(dn', o)
         /\ RootCount(o)' \in Nat
         /\ \A P \in SUBSET Obj : KidCount(P, o)' \in Nat
<1>1. /\ Occurrences(stack', o) \in Nat /\ Occurrences(cstack', o) \in Nat
      /\ Occurrences(cache', o) \in Nat
      /\ Occurrences(drops', o) \in Nat /\ Occurrences(dn', o) \in Nat
  BY CountTypesNext
<1>2. <<dynscope', errmb'>> \in Seq(Ref)
  BY DEF TypeInv, TypeOK, RootsOK
<1>3. Occurrences(<<dynscope', errmb'>>, o) \in Nat
  BY <1>2, OccurrencesType
<1>4. RootCount(o)' = Occurrences(stack', o) + Occurrences(cstack', o)
                      + Occurrences(cache', o) + Occurrences(<<dynscope', errmb'>>, o)
                      + Occurrences(drops', o) + Occurrences(dn', o)
  BY DEF RootCount
<1>5. ASSUME NEW P \in SUBSET Obj PROVE KidCount(P, o)' \in Nat
  <2>1. IsFiniteSet(P)
    BY HeapAssumption, FS_Subset
  <2>2. \A p \in P : kids'[p] \in Seq(Ref)
    BY DEF TypeInv, TypeOK, HeapOK
  <2> QED BY <2>1, <2>2, SlotsFinite DEF KidCount
<1> QED BY <1>1, <1>3, <1>4, <1>5

\* What no root refers to is not needed in their range.
LEMMA UnheldNext ==
  ASSUME TypeInv', NEW S, Held(S)', NEW x, RootCount(x)' = 0
  PROVE  Held(S \ {x})'
<1> DEFINE a == Occurrences(stack', x)
           b == Occurrences(cstack', x)
           c == Occurrences(cache', x)
           d == Occurrences(<<dynscope', errmb'>>, x)
           e == Occurrences(drops', x)
           f == Occurrences(dn', x)
<1>1. /\ a \in Nat /\ b \in Nat /\ c \in Nat /\ d \in Nat /\ e \in Nat /\ f \in Nat
      /\ a + b + c + d + e + f = 0
  BY RootCountNext
<1> HIDE DEF a, b, c, d, e, f
<1>2. a = 0 /\ b = 0 /\ c = 0 /\ d = 0 /\ e = 0 /\ f = 0
  BY <1>1
<1>3. One(dynscope', x) = 0 /\ One(errmb', x) = 0
  <2>1. d = One(dynscope', x) + One(errmb', x)
    BY PairCounts DEF d
  <2> QED BY <1>2, <2>1, OneType
<1>4. dynscope' # x /\ errmb' # x
  BY <1>3 DEF One
<1>5. /\ stack' \in Seq(S) /\ cstack' \in Seq(S) /\ cache' \in Seq(S)
      /\ dynscope' \in S /\ errmb' \in S /\ drops' \in Seq(S) /\ dn' \in Seq(S)
  BY DEF Held
<1>6. /\ stack' \in Seq(S \ {x}) /\ cstack' \in Seq(S \ {x}) /\ cache' \in Seq(S \ {x})
      /\ drops' \in Seq(S \ {x}) /\ dn' \in Seq(S \ {x})
  BY <1>2, <1>5, SeqWithout DEF a, b, c, e, f
<1> QED BY <1>4, <1>5, <1>6 DEF Held

\* What no object refers to is not needed in the range of their references.
LEMMA UnheldKids ==
  ASSUME NEW K, NEW S, \A p \in Obj : K[p] \in Seq(S), NEW x,
         Cardinality(SlotsIn(K, Obj, x)) = 0
  PROVE  \A p \in Obj : K[p] \in Seq(S \ {x})
<1>1. \A p \in Obj : Occurrences(K[p], x) = 0
  BY HeapAssumption, SlotsNone
<1> QED BY <1>1, SeqWithout

\* What a dropped reference has to leave behind.
LEMMA DropSafe ==
  ASSUME TypeInv, TypeInv', HeapInv, pc = "drop", pc' = "drop",
         UNCHANGED <<kids, cap, roots, op, want, hand, dying, gcl>>,
         NEW x \in Known, Objects' \subseteq Objects,
         \A o \in Obj : kind'[o] = kind[o] \/ (kind'[o] = "free" /\ kind[o] \notin Containers /\ o # hand),
         Placed', Len(tab') + Len(scratch') <= Len(tab) + Len(scratch),
         HeldKnown', \A o \in Obj : kids'[o] \in Seq(Known'),
         \A o \in Objects' : refcnt'[o] + One(x, o) = refcnt[o],
         \A o \in Objects' : RootCount(o)' + One(x, o) = RootCount(o),
         dn' # <<>> => dying # Nil
  PROVE  HeapInv'
<1>1. gray = {} /\ gray' = {} /\ op \in {"none", "free"}
  BY DEF HeapInv, Phases, gcl, TypeInv, Progress
<1>2. Shape'
  <2>1. \A o \in Obj : kind'[o] \notin Containers => kids'[o] = <<>>
    BY DEF HeapInv, Shape, Containers, Arrays
  <2>2. \A o \in Obj : kind'[o] = "raw" <=> o = hand'
    BY DEF HeapInv, Shape
  <2>3. dying' # Nil => kids'[dying'] = <<>>
    BY DEF HeapInv, Shape
  <2> QED BY <2>1, <2>2, <2>3 DEF Shape
<1>3. Fits'
  <2>1. /\ Len(tab) \in Nat /\ Len(scratch) \in Nat /\ Len(tab') \in Nat /\ Len(scratch') \in Nat
        /\ cap \in Nat
    BY DEF TypeInv, TypeOK, HeapOK
  <2> QED BY <2>1 DEF HeapInv, Fits
<1>4. Phases'
  BY <1>1 DEF HeapInv, Phases, roots
<1>5. KidsKnown'
  BY DEF KidsKnown
<1>6. Pinned'
  BY DEF HeapInv, Pinned, roots
<1>7. CountsExact'
  <2>1. ASSUME NEW o \in Objects' PROVE refcnt'[o] = CountFrom(Obj, o)'
    <3>1. o \in Objects /\ o \in Obj
      BY KnownIsRef
    <3>2. refcnt[o] = CountFrom(Obj, o)
      BY <3>1 DEF HeapInv, CountsExact
    <3>3. CountFrom(Obj, o) = KidCount(Obj, o) + RootCount(o)
      BY Zenon DEF CountFrom
    <3>4. CountFrom(Obj, o)' = KidCount(Obj, o) + RootCount(o)'
      BY DEF CountFrom, KidCount
    <3>5. KidCount(Obj, o) \in Nat /\ RootCount(o) \in Nat /\ One(x, o) \in Nat
      BY CountTypes, OneType DEF TypeInv
    <3>6. RootCount(o)' \in Nat /\ refcnt'[o] \in Nat
      BY <3>1, RootCountNext DEF TypeInv, TypeOK, HeapOK
    <3>7. refcnt'[o] + One(x, o) = refcnt[o] /\ RootCount(o)' + One(x, o) = RootCount(o)
      OBVIOUS
    <3> DEFINE k == KidCount(Obj, o)
               r0 == RootCount(o)
               r1 == RootCount(o)'
               u == One(x, o)
    <3> HIDE DEF k, r0, r1, u
    <3> QED BY <3>2, <3>3, <3>4, <3>5, <3>6, <3>7 DEF k, r0, r1, u
  <2> QED BY <2>1 DEF CountsExact
<1>8. Marks'
  BY <1>1 DEF Marks
<1>9. CollectedExactly'
  BY DEF CollectedExactly
<1> QED BY <1>2, <1>3, <1>4, <1>5, <1>6, <1>7, <1>8, <1>9 DEF HeapInv

\* Taking an object out of the table keeps every index that is left right.
LEMMA TableWithout ==
  ASSUME TypeInv, HeapInv, pc = "drop", NEW x \in Obj, InTable(x),
         tab' = SwapRemove(tab, locidx[x]), locidx' = MovedIndex(x)
  PROVE  /\ Len(tab) \in Nat /\ Len(tab) >= 1 /\ Len(tab') = Len(tab) - 1
         /\ \A i, j \in DOMAIN tab' : tab'[i] = tab'[j] => i = j
         /\ \A o \in Obj : InTable(o)' <=> InTable(o) /\ o # x
         /\ \A i \in DOMAIN tab' : locidx'[tab'[i]] = i
<1>1. /\ \A i, j \in DOMAIN tab : tab[i] = tab[j] => i = j
      /\ \A i \in DOMAIN tab : locidx[tab[i]] = i
  BY DEF HeapInv, Placed
<1>2. PICK k \in DOMAIN tab : tab[k] = x
  BY DEF InTable
<1>3. locidx[x] = k /\ tab' = SwapRemove(tab, k)
  BY <1>1, <1>2
<1>4. /\ tab \in Seq(Obj) /\ locidx \in [Obj -> Nat]
      /\ Len(tab) \in Nat /\ DOMAIN tab = 1 .. Len(tab) /\ Len(tab) >= 1
      /\ Len(tab) \in DOMAIN tab /\ tab[Len(tab)] \in Obj
  BY <1>2 DEF TypeInv, TypeOK, HeapOK
<1>5. /\ Len(tab') = Len(tab) - 1
      /\ \A i, j \in DOMAIN tab' : tab'[i] = tab'[j] => i = j
      /\ \A i \in DOMAIN tab' : /\ i \in DOMAIN tab /\ i # Len(tab)
                                /\ tab'[i] = IF i = k THEN tab[Len(tab)] ELSE tab[i]
      /\ \A y : (\E i \in DOMAIN tab' : tab'[i] = y)
                  <=> (\E i \in DOMAIN tab : tab[i] = y) /\ y # tab[k]
  <2> DEFINE u == SwapRemove(tab, k)
  <2>1. /\ u \in Seq(Obj) /\ Len(u) = Len(tab) - 1
        /\ \A i, j \in DOMAIN u : u[i] = u[j] => i = j
        /\ \A i \in DOMAIN u : /\ i \in DOMAIN tab /\ i # Len(tab)
                               /\ u[i] = IF i = k THEN tab[Len(tab)] ELSE tab[i]
        /\ \A y : (\E i \in DOMAIN u : u[i] = y)
                    <=> (\E i \in DOMAIN tab : tab[i] = y) /\ y # tab[k]
    BY <1>1, <1>4, SwapRemoveTable
  <2>2. tab' = u
    BY <1>3
  <2> HIDE DEF u
  <2> QED BY <2>1, <2>2
<1>6. \A o \in Obj : InTable(o)' <=> InTable(o) /\ o # x
  BY <1>2, <1>5 DEF InTable
<1> DEFINE last == tab[Len(tab)]
<1>7. /\ locidx'[last] = IF last = x THEN 0 ELSE k
      /\ \A o \in Obj : o # x /\ o # last => locidx'[o] = locidx[o]
  BY <1>3, <1>4 DEF MovedIndex
<1>8. ASSUME NEW i \in DOMAIN tab' PROVE locidx'[tab'[i]] = i
  <2>1. i \in DOMAIN tab /\ i # Len(tab) /\ tab'[i] = IF i = k THEN last ELSE tab[i]
    BY <1>5
  <2>2. tab'[i] # x
    BY <1>2, <1>5
  <2>3. CASE i = k
    BY <1>7, <2>1, <2>2, <2>3
  <2>4. CASE i # k
    <3>1. tab'[i] = tab[i] /\ tab[i] \in Obj /\ tab[i] # last
      BY <1>1, <1>4, <2>1, <2>4
    <3> QED BY <1>1, <1>7, <2>1, <2>2, <3>1
  <2> QED BY <2>3, <2>4
<1> QED BY <1>4, <1>5, <1>6, <1>8

\* The counts of a drop: x loses one.
LEMMA Lowered ==
  ASSUME TypeInv, NEW x \in Obj, NEW n \in Nat, refcnt[x] = n + 1,
         refcnt' = [refcnt EXCEPT ![x] = n], NEW o \in Obj
  PROVE  refcnt'[o] + One(x, o) = refcnt[o] /\ refcnt'[x] = n
<1>1. refcnt'[x] = n /\ (o # x => refcnt'[o] = refcnt[o])
  BY DEF TypeInv, TypeOK, HeapOK
<1>2. refcnt[o] \in Nat
  BY DEF TypeInv, TypeOK, HeapOK
<1>3. CASE o = x
  BY <1>1, <1>3 DEF One
<1>4. CASE o # x
  BY <1>1, <1>2, <1>4 DEF One
<1> QED BY <1>1, <1>3, <1>4

\* A dropped reference that was not the last one.
LEMMA DropShared ==
  ASSUME TypeInv, TypeInv', HeapInv, pc = "drop", pc' = "drop",
         NEW x \in Known, RefDnStatic(x) \/ RefDnShared(x),
         UNCHANGED <<roots, op, want, hand, dying, gcl>>,
         drops' \in Seq(Known), dn' \in Seq(Known),
         \A o \in Obj : RootCount(o)' + One(x, o) = RootCount(o),
         dn' # <<>> => dying # Nil
  PROVE  HeapInv'
<1>1. UNCHANGED <<kind, kids, locidx, tab, scratch, cap>>
  BY DEF RefDnStatic, RefDnShared, heap
<1>2. Objects' = Objects /\ Known' = Known
  BY <1>1 DEF Objects, Known
<1>3. ASSUME NEW o \in Obj
      PROVE  refcnt'[o] + One(x, o) = refcnt[o]
  <2>1. refcnt[o] \in Nat
    BY DEF TypeInv, TypeOK, HeapOK
  <2>2. CASE RefDnStatic(x)
    BY <2>1, <2>2, OneNil DEF RefDnStatic, heap
  <2>3. CASE RefDnShared(x)
    <3>1. x \in Obj /\ refcnt[x] \in Nat
      BY <2>3 DEF RefDnShared, Known, Objects, TypeInv, TypeOK, HeapOK
    <3> DEFINE n == refcnt[x] - 1
    <3>2. n \in Nat /\ refcnt[x] = n + 1 /\ refcnt' = [refcnt EXCEPT ![x] = n]
      BY <2>3, <3>1 DEF RefDnShared
    <3> HIDE DEF n
    <3> QED BY <3>1, <3>2, Lowered
  <2> QED BY <2>2, <2>3
<1>4. \A o \in Obj : refcnt[o] = 0 => refcnt'[o] = 0
  <2>1. \A o \in Obj : refcnt[o] \in Nat /\ refcnt'[o] \in Nat
    BY DEF TypeInv, TypeOK, HeapOK
  <2> QED BY <1>3, <2>1, OneType
<1>5. Placed'
  <2>1. \A o \in Obj : (InTable(o)' <=> InTable(o)) /\ (InScratch(o)' <=> InScratch(o))
    BY <1>1 DEF InTable, InScratch
  <2>2. \A i \in DOMAIN tab : locidx[tab[i]] = i
    BY DEF HeapInv, Placed
  <2> QED BY <1>1, <1>2, <1>4, <2>1, <2>2 DEF HeapInv, Placed
<1>6. HeldKnown' /\ \A o \in Obj : kids'[o] \in Seq(Known')
  BY <1>1, <1>2 DEF HeapInv, HeldKnown, Held, KidsKnown, roots
<1>7. Objects \subseteq Obj
  BY KnownIsRef
<1>8. Len(tab') + Len(scratch') <= Len(tab) + Len(scratch)
  BY <1>1 DEF TypeInv, TypeOK, HeapOK
<1> QED BY <1>1, <1>2, <1>3, <1>5, <1>6, <1>7, <1>8, DropSafe

\* The last reference to a container: it goes to the scratch area.
LEMMA DropContainer ==
  ASSUME TypeInv, TypeInv', HeapInv, pc = "drop", pc' = "drop",
         NEW x \in Known, RefDnLast(x), kind[x] \in Containers,
         UNCHANGED <<roots, op, want, hand, dying, gcl>>,
         drops' \in Seq(Known), dn' \in Seq(Known),
         \A o \in Obj : RootCount(o)' + One(x, o) = RootCount(o),
         dn' # <<>> => dying # Nil
  PROVE  HeapInv'
<1>1. /\ x # Nil /\ refcnt[x] = 1 /\ refcnt' = [refcnt EXCEPT ![x] = 0]
      /\ tab' = SwapRemove(tab, locidx[x]) /\ locidx' = MovedIndex(x)
      /\ scratch' = <<x>> \o scratch /\ kind' = kind /\ kids' = kids /\ cap' = cap
  BY DEF RefDnLast, LastRef, Retire
<1>2. x \in Obj /\ x \in Objects
  BY <1>1 DEF Known, Objects
<1>3. Objects' = Objects /\ Known' = Known /\ Objects \subseteq Obj
  BY <1>1 DEF Objects, Known
<1>4. InTable(x) /\ ~InScratch(x) /\ x # dying
  BY <1>1, <1>2 DEF HeapInv, Placed
<1>5. /\ Len(tab) \in Nat /\ Len(tab) >= 1 /\ Len(tab') = Len(tab) - 1
      /\ \A i, j \in DOMAIN tab' : tab'[i] = tab'[j] => i = j
      /\ \A o \in Obj : InTable(o)' <=> InTable(o) /\ o # x
      /\ \A i \in DOMAIN tab' : locidx'[tab'[i]] = i
  BY <1>1, <1>2, <1>4, TableWithout
<1>6. \A o \in Obj : refcnt'[o] + One(x, o) = refcnt[o] /\ refcnt'[x] = 0
  <2> DEFINE n == 0
  <2>1. n \in Nat /\ refcnt[x] = n + 1 /\ refcnt' = [refcnt EXCEPT ![x] = n]
    BY <1>1
  <2>2. n = 0
    OBVIOUS
  <2> HIDE DEF n
  <2>3. \A o \in Obj : refcnt'[o] + One(x, o) = refcnt[o] /\ refcnt'[x] = n
    BY <1>2, <2>1, Lowered
  <2> QED BY <2>2, <2>3
<1>7. /\ scratch \in Seq(Obj) /\ Len(scratch) \in Nat /\ Len(scratch') = Len(scratch) + 1
      /\ DOMAIN scratch = 1 .. Len(scratch) /\ DOMAIN scratch' = 1 .. Len(scratch) + 1
      /\ scratch'[1] = x /\ \A i \in 1 .. Len(scratch) : scratch'[i + 1] = scratch[i]
  BY <1>1, <1>2 DEF TypeInv, TypeOK, HeapOK
<1>8. ASSUME NEW i \in DOMAIN scratch'
      PROVE  i = 1 \/ (i # 1 /\ i - 1 \in DOMAIN scratch /\ scratch'[i] = scratch[i - 1])
  <2>1. CASE i = 1
    BY <2>1
  <2>2. CASE i # 1
    <3> DEFINE j == i - 1
    <3>1. j \in 1 .. Len(scratch) /\ i = j + 1
      BY <1>7, <2>2
    <3> HIDE DEF j
    <3>2. scratch'[i] = scratch[j]
      BY <1>7, <3>1
    <3> QED BY <1>7, <2>2, <3>1, <3>2 DEF j
  <2> QED BY <2>1, <2>2
<1>9. ASSUME NEW o \in Obj PROVE InScratch(o)' <=> InScratch(o) \/ o = x
  <2>1. ASSUME NEW i \in DOMAIN scratch', scratch'[i] = o PROVE InScratch(o) \/ o = x
    BY <1>7, <1>8, <2>1 DEF InScratch
  <2>2. ASSUME NEW i \in DOMAIN scratch, scratch[i] = o
        PROVE  \E j \in DOMAIN scratch' : scratch'[j] = o
    <3>1. i + 1 \in DOMAIN scratch' /\ scratch'[i + 1] = o
      BY <1>7, <2>2
    <3> QED BY <3>1
  <2>3. o = x => \E j \in DOMAIN scratch' : scratch'[j] = o
    <3>1. 1 \in DOMAIN scratch'
      BY <1>7
    <3> QED BY <1>7, <3>1
  <2> QED BY <2>1, <2>2, <2>3 DEF InScratch
<1>10. ASSUME NEW i \in DOMAIN scratch', NEW j \in DOMAIN scratch', scratch'[i] = scratch'[j]
       PROVE  i = j
  <2>1. \A k, l \in DOMAIN scratch : scratch[k] = scratch[l] => k = l
    BY DEF HeapInv, Placed
  <2>2. \A k \in DOMAIN scratch : scratch[k] # x
    BY <1>4 DEF InScratch
  <2>3. CASE i = 1 /\ j = 1
    BY <2>3
  <2>4. CASE i = 1 /\ j # 1
    BY <1>7, <1>8, <1>10, <2>2, <2>4
  <2>5. CASE i # 1 /\ j = 1
    BY <1>7, <1>8, <1>10, <2>2, <2>5
  <2>6. CASE i # 1 /\ j # 1
    <3>1. i - 1 = j - 1
      BY <1>8, <1>10, <2>1, <2>6
    <3> QED BY <1>7, <3>1
  <2> QED BY <2>3, <2>4, <2>5, <2>6
<1>11. Placed'
  <2>1. /\ \A o \in Obj : o \in Objects <=> InTable(o) \/ InScratch(o) \/ o = dying
        /\ \A o \in Obj : InTable(o) => ~InScratch(o) /\ o # dying
        /\ \A o \in Obj : InScratch(o) => o # dying
        /\ \A o \in Obj : InScratch(o) \/ o = dying => kind[o] \in Containers /\ refcnt[o] = 0
    BY DEF HeapInv, Placed
  <2>2. \A o \in Obj : refcnt[o] = 0 => refcnt'[o] = 0
    <3>1. \A o \in Obj : refcnt[o] \in Nat /\ refcnt'[o] \in Nat
      BY DEF TypeInv, TypeOK, HeapOK
    <3> QED BY <1>6, <3>1, OneType
  <2>3. \A o \in Obj : o \in Objects' <=> InTable(o)' \/ InScratch(o)' \/ o = dying'
    BY <1>2, <1>3, <1>4, <1>5, <1>9, <2>1
  <2>4. \A o \in Obj : InTable(o)' => ~InScratch(o)' /\ o # dying'
    BY <1>5, <1>9, <2>1
  <2>5. \A o \in Obj : InScratch(o)' => o # dying'
    BY <1>4, <1>9, <2>1
  <2>6. \A o \in Obj : InScratch(o)' \/ o = dying' => kind'[o] \in Containers /\ refcnt'[o] = 0
    BY <1>1, <1>6, <1>9, <2>1, <2>2
  <2> QED BY <1>5, <1>10, <2>3, <2>4, <2>5, <2>6 DEF Placed
<1>12. HeldKnown' /\ \A o \in Obj : kids'[o] \in Seq(Known')
  BY <1>1, <1>3 DEF HeapInv, HeldKnown, Held, KidsKnown, roots
<1>13. Len(tab') + Len(scratch') <= Len(tab) + Len(scratch)
  BY <1>5, <1>7
<1> QED BY <1>1, <1>3, <1>6, <1>11, <1>12, <1>13, DropSafe

\* The last reference to a leaf: it is given back.
LEMMA DropLeaf ==
  ASSUME TypeInv, TypeInv', HeapInv, pc = "drop", pc' = "drop",
         NEW x \in Known, RefDnLast(x), kind[x] \notin Containers,
         UNCHANGED <<roots, op, want, hand, dying, gcl>>,
         drops' \in Seq(Known), dn' \in Seq(Known),
         \A o \in Obj : RootCount(o)' + One(x, o) = RootCount(o),
         dn' # <<>> => dying # Nil
  PROVE  HeapInv'
<1>1. /\ x # Nil /\ refcnt[x] = 1 /\ refcnt' = [refcnt EXCEPT ![x] = 0]
      /\ tab' = SwapRemove(tab, locidx[x]) /\ locidx' = MovedIndex(x)
      /\ kind' = [kind EXCEPT ![x] = "free"]
      /\ scratch' = scratch /\ kids' = kids /\ cap' = cap
  BY DEF RefDnLast, LastRef, Retire
<1>2. x \in Obj /\ x \in Objects /\ x # hand
  BY <1>1 DEF Known, Objects, HeapInv, Shape
<1>3. /\ kind'[x] = "free" /\ \A o \in Obj : o # x => kind'[o] = kind[o]
  BY <1>1, <1>2 DEF TypeInv, TypeOK, HeapOK
<1>4. Objects' = Objects \ {x} /\ Known' = Known \ {x} /\ Objects \subseteq Obj
  <2>1. Objects' = Objects \ {x} /\ Objects \subseteq Obj
    BY <1>2, <1>3 DEF Objects
  <2> QED BY <1>1, <2>1 DEF Known
<1>5. InTable(x) /\ ~InScratch(x) /\ x # dying
  BY <1>1, <1>2 DEF HeapInv, Placed
<1>6. /\ Len(tab) \in Nat /\ Len(tab) >= 1 /\ Len(tab') = Len(tab) - 1
      /\ \A i, j \in DOMAIN tab' : tab'[i] = tab'[j] => i = j
      /\ \A o \in Obj : InTable(o)' <=> InTable(o) /\ o # x
      /\ \A i \in DOMAIN tab' : locidx'[tab'[i]] = i
  BY <1>1, <1>2, <1>5, TableWithout
<1>7. \A o \in Obj : refcnt'[o] + One(x, o) = refcnt[o] /\ refcnt'[x] = 0
  <2> DEFINE n == 0
  <2>1. n \in Nat /\ refcnt[x] = n + 1 /\ refcnt' = [refcnt EXCEPT ![x] = n]
    BY <1>1
  <2>2. n = 0
    OBVIOUS
  <2> HIDE DEF n
  <2>3. \A o \in Obj : refcnt'[o] + One(x, o) = refcnt[o] /\ refcnt'[x] = n
    BY <1>2, <2>1, Lowered
  <2> QED BY <2>2, <2>3
<1>8. Placed'
  <2>1. /\ \A o \in Obj : o \in Objects <=> InTable(o) \/ InScratch(o) \/ o = dying
        /\ \A o \in Obj : InTable(o) => ~InScratch(o) /\ o # dying
        /\ \A o \in Obj : InScratch(o) => o # dying
        /\ \A o \in Obj : InScratch(o) \/ o = dying => kind[o] \in Containers /\ refcnt[o] = 0
        /\ \A i, j \in DOMAIN scratch : scratch[i] = scratch[j] => i = j
    BY DEF HeapInv, Placed
  <2>2. \A o \in Obj : refcnt[o] = 0 => refcnt'[o] = 0
    <3>1. \A o \in Obj : refcnt[o] \in Nat /\ refcnt'[o] \in Nat
      BY DEF TypeInv, TypeOK, HeapOK
    <3> QED BY <1>7, <3>1, OneType
  <2>3. \A o \in Obj : InScratch(o)' <=> InScratch(o)
    BY <1>1 DEF InScratch
  <2>4. \A o \in Obj : o \in Objects' <=> InTable(o)' \/ InScratch(o)' \/ o = dying'
    BY <1>4, <1>5, <1>6, <2>1, <2>3
  <2>5. \A o \in Obj : InScratch(o)' \/ o = dying' => kind'[o] \in Containers /\ refcnt'[o] = 0
    BY <1>3, <1>5, <2>1, <2>2, <2>3
  <2> QED BY <1>1, <1>6, <2>1, <2>3, <2>4, <2>5 DEF Placed
<1>9. RootCount(x)' = 0 /\ KidCount(Obj, x) = 0
  <2>1. refcnt[x] = CountFrom(Obj, x)
    BY <1>2 DEF HeapInv, CountsExact
  <2>2. CountFrom(Obj, x) = KidCount(Obj, x) + RootCount(x)
    BY Zenon DEF CountFrom
  <2>3. RootCount(x)' + One(x, x) = RootCount(x) /\ One(x, x) = 1
    BY <1>2 DEF One
  <2>4. KidCount(Obj, x) \in Nat /\ RootCount(x) \in Nat
    BY CountTypes DEF TypeInv
  <2>5. RootCount(x)' \in Nat
    BY RootCountNext
  <2> DEFINE k == KidCount(Obj, x)
             r0 == RootCount(x)
             r1 == RootCount(x)'
  <2>6. 1 = k + r0 /\ r1 + 1 = r0
    BY <1>1, <2>1, <2>2, <2>3
  <2> HIDE DEF k, r0, r1
  <2>7. k = 0 /\ r1 = 0
    BY <2>4, <2>5, <2>6 DEF k, r0, r1
  <2> QED BY <2>7 DEF k, r1
<1>10. HeldKnown'
  <2>1. PICK S : S = Known
    OBVIOUS
  <2>2. Held(S)'
    <3>1. Held(Known)
      BY DEF HeapInv, HeldKnown
    <3> QED BY <2>1, <3>1 DEF Held, roots
  <2>3. Held(S \ {x})'
    BY <1>9, <2>2, UnheldNext
  <2>4. S \ {x} = Known'
    BY <1>4, <2>1
  <2> QED BY <2>3, <2>4 DEF HeldKnown, Held
<1>11. \A o \in Obj : kids'[o] \in Seq(Known')
  <2>1. \A o \in Obj : kids[o] \in Seq(Known)
    BY DEF HeapInv, KidsKnown
  <2>2. Cardinality(SlotsIn(kids, Obj, x)) = 0
    BY <1>9 DEF KidCount
  <2> QED BY <1>1, <1>4, <2>1, <2>2, UnheldKids
<1>12. Len(tab') + Len(scratch') <= Len(tab) + Len(scratch)
  BY <1>1, <1>6 DEF TypeInv, TypeOK, HeapOK
<1> QED BY <1>1, <1>2, <1>3, <1>4, <1>7, <1>8, <1>10, <1>11, <1>12, DropSafe

\* Dropping one reference, whatever becomes of the object.
LEMMA RefDnSafe ==
  ASSUME TypeInv, TypeInv', HeapInv, pc = "drop", pc' = "drop",
         NEW x \in Known, RefDn(x),
         UNCHANGED <<roots, op, want, hand, dying, gcl>>,
         drops' \in Seq(Known), dn' \in Seq(Known),
         \A o \in Obj : RootCount(o)' + One(x, o) = RootCount(o),
         dn' # <<>> => dying # Nil
  PROVE  HeapInv'
<1>1. CASE RefDnStatic(x) \/ RefDnShared(x)
  BY <1>1, DropShared
<1>2. CASE RefDnLast(x) /\ kind[x] \in Containers
  BY <1>2, DropContainer
<1>3. CASE RefDnLast(x) /\ kind[x] \notin Containers
  BY <1>3, DropLeaf
<1> QED BY <1>1, <1>2, <1>3 DEF RefDn

\* The count of an entry taken off the front of a sequence.
LEMMA TailCounts ==
  ASSUME NEW S, NEW s \in Seq(S), s # <<>>, NEW o
  PROVE  /\ Head(s) \in S /\ Tail(s) \in Seq(S)
         /\ Occurrences(s, o) = Occurrences(Tail(s), o) + One(Head(s), o)
<1>1. Head(s) \in S /\ Tail(s) \in Seq(S)
  BY HeadTailProperties
<1> QED BY <1>1, OccurrencesTail DEF One

LEMMA DropNextSafe ==
  ASSUME TypeInv, TypeInv', HeapInv, DropNext
  PROVE  HeapInv'
<1>1. /\ pc = "drop" /\ pc' = "drop" /\ dn = <<>> /\ drops # <<>> /\ RefDn(Head(drops))
      /\ drops' = Tail(drops)
      /\ UNCHANGED <<roots, op, want, hand, dying, dn, gcl>>
  BY DEF DropNext, Dropping, tear
<1>2. drops \in Seq(Known) /\ dn' \in Seq(Known)
  BY <1>1 DEF HeapInv, HeldKnown, Held
<1> DEFINE x == Head(drops)
<1>3. x \in Known /\ drops' \in Seq(Known)
  BY <1>1, <1>2, TailCounts
<1>4. ASSUME NEW o \in Obj PROVE RootCount(o)' + One(x, o) = RootCount(o)
  <2>1. Occurrences(drops, o) = Occurrences(drops', o) + One(x, o)
    BY <1>1, <1>2, TailCounts
  <2>2. One(x, o) \in Nat
    BY OneType
  <2>3. /\ Occurrences(stack, o) \in Nat /\ Occurrences(cstack, o) \in Nat
        /\ Occurrences(cache, o) \in Nat /\ Occurrences(<<dynscope, errmb>>, o) \in Nat
        /\ Occurrences(dn, o) \in Nat /\ Occurrences(drops', o) \in Nat
    BY CountTypes, RootCountNext DEF TypeInv
  <2> DEFINE a == Occurrences(stack, o)
             b == Occurrences(cstack, o)
             c == Occurrences(cache, o)
             d == Occurrences(<<dynscope, errmb>>, o)
             e == Occurrences(dn, o)
             f0 == Occurrences(drops, o)
             f1 == Occurrences(drops', o)
             u == One(x, o)
  <2>4. RootCount(o) = a + b + c + d + f0 + e
    BY Zenon DEF RootCount
  <2>5. RootCount(o)' = a + b + c + d + f1 + e
    BY <1>1 DEF RootCount, roots
  <2> HIDE DEF a, b, c, d, e, f0, f1, u
  <2>6. (a + b + c + d + f1 + e) + u = a + b + c + d + f0 + e
    BY <2>1, <2>2, <2>3 DEF a, b, c, d, e, f0, f1, u
  <2> QED BY <2>4, <2>5, <2>6 DEF u
<1> HIDE DEF x
<1>5. RefDn(x)
  BY <1>1 DEF x
<1>6. UNCHANGED <<roots, op, want, hand, dying, gcl>> /\ dn' = <<>>
  BY <1>1
<1> QED BY <1>1, <1>2, <1>3, <1>4, <1>5, <1>6, RefDnSafe

LEMMA DropKidSafe ==
  ASSUME TypeInv, TypeInv', HeapInv, DropKid
  PROVE  HeapInv'
<1>1. /\ pc = "drop" /\ pc' = "drop" /\ dn # <<>> /\ RefDn(Head(dn))
      /\ dn' = Tail(dn)
      /\ UNCHANGED <<roots, op, want, hand, drops, dying, gcl>>
  BY DEF DropKid, Dropping, ctl
<1>2. dn \in Seq(Known) /\ drops' \in Seq(Known) /\ dying # Nil
  BY <1>1 DEF HeapInv, HeldKnown, Held, Phases
<1> DEFINE x == Head(dn)
<1>3. x \in Known /\ dn' \in Seq(Known)
  BY <1>1, <1>2, TailCounts
<1>4. ASSUME NEW o \in Obj PROVE RootCount(o)' + One(x, o) = RootCount(o)
  <2>1. Occurrences(dn, o) = Occurrences(dn', o) + One(x, o)
    BY <1>1, <1>2, TailCounts
  <2>2. One(x, o) \in Nat
    BY OneType
  <2>3. /\ Occurrences(stack, o) \in Nat /\ Occurrences(cstack, o) \in Nat
        /\ Occurrences(cache, o) \in Nat /\ Occurrences(<<dynscope, errmb>>, o) \in Nat
        /\ Occurrences(drops, o) \in Nat /\ Occurrences(dn', o) \in Nat
    BY CountTypes, RootCountNext DEF TypeInv
  <2> DEFINE a == Occurrences(stack, o)
             b == Occurrences(cstack, o)
             c == Occurrences(cache, o)
             d == Occurrences(<<dynscope, errmb>>, o)
             e == Occurrences(drops, o)
             f0 == Occurrences(dn, o)
             f1 == Occurrences(dn', o)
             u == One(x, o)
  <2>4. RootCount(o) = a + b + c + d + e + f0
    BY Zenon DEF RootCount
  <2>5. RootCount(o)' = a + b + c + d + e + f1
    BY <1>1 DEF RootCount, roots
  <2> HIDE DEF a, b, c, d, e, f0, f1, u
  <2>6. (a + b + c + d + e + f1) + u = a + b + c + d + e + f0
    BY <2>1, <2>2, <2>3 DEF a, b, c, d, e, f0, f1, u
  <2> QED BY <2>4, <2>5, <2>6 DEF u
<1> HIDE DEF x
<1>5. RefDn(x)
  BY <1>1 DEF x
<1>6. UNCHANGED <<roots, op, want, hand, dying, gcl>>
  BY <1>1
<1> QED BY <1>1, <1>2, <1>3, <1>4, <1>5, <1>6, RefDnSafe

LEMMA DropDoneSafe ==
  ASSUME TypeInv, TypeInv', HeapInv, DropDone, op # "free"
  PROVE  HeapInv'
<1>1. /\ pc = "drop" /\ pc' = "run" /\ dn = <<>> /\ dying = Nil /\ scratch = <<>> /\ drops = <<>>
      /\ UNCHANGED <<heap, roots, ctl, tear, gcl>>
  BY DEF DropDone, Dropping
<1>2. op = "none"
  BY <1>1 DEF TypeInv, Progress
<1>3. UNCHANGED <<kind, kids, refcnt, locidx, tab, scratch, cap, stack, cstack, cache,
                  dynscope, errmb, op, want, hand, drops, dying, dn, gray, gci>>
  BY <1>1 DEF heap, roots, ctl, tear, gcl
<1>4. Objects' = Objects /\ Known' = Known
  BY <1>3 DEF Objects, Known
<1>5. Shape' /\ Fits' /\ HeldKnown' /\ KidsKnown' /\ Pinned'
  BY <1>1, <1>3, <1>4 DEF HeapInv, Shape, Fits, HeldKnown, Held, KidsKnown, Pinned
<1>6. Placed'
  <2>1. \A o : (InTable(o)' <=> InTable(o)) /\ (InScratch(o)' <=> InScratch(o))
    BY <1>3 DEF InTable, InScratch
  <2> QED BY <1>1, <1>3, <1>4, <2>1 DEF HeapInv, Placed
<1>7. Phases'
  BY <1>1, <1>2, <1>3 DEF HeapInv, Phases, Creating
<1>8. CountsExact'
  <2>1. \A o : CountFrom(Obj, o)' = CountFrom(Obj, o)
    BY <1>3 DEF CountFrom, KidCount, RootCount
  <2> QED BY <1>1, <1>3, <1>4, <2>1 DEF HeapInv, CountsExact
<1>9. Marks' /\ CollectedExactly'
  BY <1>1, <1>3 DEF HeapInv, Phases, Marks, CollectedExactly
<1> QED BY <1>5, <1>6, <1>7, <1>8, <1>9 DEF HeapInv

\* A collection begins with nothing marked.
LEMMA MarkStart ==
  ASSUME TypeInv, TypeInv', HeapInv, pc \in {"drop", "alloc"}, pc' = "mark",
         dn = <<>>, dying = Nil, scratch = <<>>, drops = <<>>, op # "none",
         UNCHANGED <<heap, roots, ctl, tear, gcl>>
  PROVE  HeapInv'
<1>1. UNCHANGED <<kind, kids, refcnt, locidx, tab, scratch, cap, stack, cstack, cache,
                  dynscope, errmb, op, want, hand, drops, dying, dn, gray, gci>>
  BY DEF heap, roots, ctl, tear, gcl
<1>2. Objects' = Objects /\ Known' = Known
  BY <1>1 DEF Objects, Known
<1>3. Shape' /\ Fits' /\ HeldKnown' /\ KidsKnown' /\ Pinned'
  BY <1>1, <1>2 DEF HeapInv, Shape, Fits, HeldKnown, Held, KidsKnown, Pinned
<1>4. Placed'
  <2>1. \A o : (InTable(o)' <=> InTable(o)) /\ (InScratch(o)' <=> InScratch(o))
    BY <1>1 DEF InTable, InScratch
  <2> QED BY <1>1, <1>2, <2>1 DEF HeapInv, Placed
<1>5. Phases'
  <2>1. At(2)' = At(2)
    BY <1>1 DEF At, N
  <2> QED BY <1>1, <2>1 DEF HeapInv, Phases, Creating
<1>6. CountsExact'
  <2>1. \A o : CountFrom(Obj, o)' = CountFrom(Obj, o)
    BY <1>1 DEF CountFrom, KidCount, RootCount
  <2> QED BY <1>1, <1>2, <2>1 DEF HeapInv, CountsExact
<1>7. MarkedObjects' = {} /\ gray' = {}
  <2>1. ASSUME NEW o \in Objects PROVE locidx[o] # MARK
    <3>1. InTable(o)
      <4>1. o \in Obj /\ ~InScratch(o) /\ o # dying
        BY HeapAssumption DEF Objects, InScratch
      <4> QED BY <4>1 DEF HeapInv, Placed
    <3>2. PICK i \in DOMAIN tab : tab[i] = o
      BY <3>1 DEF InTable
    <3>3. locidx[o] = i
      BY <3>2 DEF HeapInv, Placed
    <3>4. i >= 1
      BY <3>2 DEF TypeInv, TypeOK, HeapOK
    <3> QED BY <3>3, <3>4 DEF MARK
  <2>2. MarkedObjects' = {}
    BY <1>1, <1>2, <2>1 DEF MarkedObjects, Marked
  <2> QED BY <1>1, <2>2 DEF HeapInv, Phases
<1>8. Marks' /\ CollectedExactly'
  BY <1>7 DEF Marks, CollectedExactly
<1> QED BY <1>3, <1>4, <1>5, <1>6, <1>8 DEF HeapInv

LEMMA GcBeginSafe ==
  ASSUME TypeInv, TypeInv', HeapInv, GcBegin
  PROVE  HeapInv'
<1>1. pc = "alloc" /\ pc' = "mark" /\ UNCHANGED <<heap, roots, ctl, tear, gcl>>
  BY DEF GcBegin
<1>2. op # "none" /\ dn = <<>> /\ dying = Nil /\ scratch = <<>> /\ drops = <<>>
  BY <1>1 DEF HeapInv, Phases, Creating
<1> QED BY <1>1, <1>2, MarkStart

LEMMA DropFinished ==
  ASSUME TypeInv, TypeInv', HeapInv, DropDone
  PROVE  HeapInv'
<1>1. CASE op # "free"
  BY <1>1, DropDoneSafe
<1>2. CASE op = "free"
  BY <1>2, MarkStart DEF DropDone, Dropping
<1> QED BY <1>1, <1>2

\* A container is taken off the scratch area to be torn down.
LEMMA PopScratchSafe ==
  ASSUME TypeInv, TypeInv', HeapInv, PopScratch
  PROVE  HeapInv'
<1> DEFINE h == Head(scratch)
<1>1. /\ pc = "drop" /\ pc' = "drop" /\ dn = <<>> /\ dying = Nil /\ scratch # <<>>
      /\ dying' = h /\ scratch' = Tail(scratch) /\ dn' = kids[h]
      /\ kids' = [kids EXCEPT ![h] = <<>>]
      /\ UNCHANGED <<kind, refcnt, locidx, tab, cap, stack, cstack, cache, dynscope, errmb,
                     op, want, hand, drops, gray, gci>>
  BY DEF PopScratch, ScratchPopped, Dropping, roots, ctl, gcl
<1>2. /\ scratch \in Seq(Obj) /\ Len(scratch) \in Nat /\ Len(scratch) >= 1
      /\ DOMAIN scratch = 1 .. Len(scratch) /\ DOMAIN scratch' = 1 .. Len(scratch) - 1
      /\ scratch[1] = h /\ \A i \in 1 .. Len(scratch) - 1 : scratch'[i] = scratch[i + 1]
      /\ Len(scratch') = Len(scratch) - 1 /\ h \in Obj
  BY <1>1 DEF TypeInv, TypeOK, HeapOK
<1>3. kids'[h] = <<>> /\ \A p \in Obj : p # h => kids'[p] = kids[p]
  BY <1>1, <1>2 DEF TypeInv, TypeOK, HeapOK
<1> HIDE DEF h
<1>4. /\ 1 \in DOMAIN scratch /\ InScratch(h) /\ h # Nil
      /\ \A i, j \in DOMAIN scratch : scratch[i] = scratch[j] => i = j
  BY <1>2, HeapAssumption DEF InScratch, HeapInv, Placed
<1>5. ASSUME NEW o \in Obj PROVE InScratch(o)' <=> InScratch(o) /\ o # h
  <2>1. ASSUME NEW i \in DOMAIN scratch', scratch'[i] = o PROVE InScratch(o) /\ o # h
    <3>1. i + 1 \in DOMAIN scratch /\ scratch[i + 1] = o /\ i + 1 # 1
      BY <1>2, <2>1
    <3> QED BY <1>2, <1>4, <3>1 DEF InScratch
  <2>2. ASSUME NEW i \in DOMAIN scratch, scratch[i] = o, o # h
        PROVE  \E j \in DOMAIN scratch' : scratch'[j] = o
    <3> DEFINE j == i - 1
    <3>1. j \in 1 .. Len(scratch) - 1 /\ i = j + 1
      BY <1>2, <2>2
    <3> HIDE DEF j
    <3>2. j \in DOMAIN scratch' /\ scratch'[j] = o
      BY <1>2, <2>2, <3>1
    <3> QED BY <3>2
  <2> QED BY <2>1, <2>2 DEF InScratch
<1>6. ASSUME NEW i \in DOMAIN scratch', NEW j \in DOMAIN scratch', scratch'[i] = scratch'[j]
      PROVE  i = j
  <2>1. /\ i + 1 \in DOMAIN scratch /\ j + 1 \in DOMAIN scratch
        /\ scratch[i + 1] = scratch[j + 1] /\ i \in Nat /\ j \in Nat
    BY <1>2, <1>6
  <2>2. i + 1 = j + 1
    BY <1>4, <2>1
  <2> QED BY <2>1, <2>2
<1>7. Objects' = Objects /\ Known' = Known /\ h \in Objects
  BY <1>1, <1>2, <1>4 DEF Objects, Known, HeapInv, Placed
<1>8. Shape'
  <2>1. \A o \in Obj : kind'[o] \notin Containers => kids'[o] = <<>>
    BY <1>1, <1>3 DEF HeapInv, Shape
  <2> QED BY <1>1, <1>3, <2>1 DEF HeapInv, Shape
<1>9. Placed'
  <2>1. /\ \A i, j \in DOMAIN tab : tab[i] = tab[j] => i = j
        /\ \A o \in Obj : o \in Objects <=> InTable(o) \/ InScratch(o) \/ o = dying
        /\ \A o \in Obj : InTable(o) => ~InScratch(o) /\ o # dying
        /\ \A o \in Obj : InScratch(o) \/ o = dying => kind[o] \in Containers /\ refcnt[o] = 0
        /\ \A i \in DOMAIN tab : locidx[tab[i]] = i
    BY <1>1 DEF HeapInv, Placed
  <2>2. \A o \in Obj : InTable(o)' <=> InTable(o)
    BY <1>1 DEF InTable
  <2>3. \A o \in Obj : o # dying
    BY <1>1, HeapAssumption
  <2>4. \A o \in Obj : o \in Objects' <=> InTable(o)' \/ InScratch(o)' \/ o = dying'
    BY <1>1, <1>4, <1>5, <1>7, <2>1, <2>2, <2>3
  <2>5. \A o \in Obj : InTable(o)' => ~InScratch(o)' /\ o # dying'
    BY <1>1, <1>4, <1>5, <2>1, <2>2
  <2>6. \A o \in Obj : InScratch(o)' => o # dying'
    BY <1>1, <1>5
  <2>7. \A o \in Obj : InScratch(o)' \/ o = dying' => kind'[o] \in Containers /\ refcnt'[o] = 0
    BY <1>1, <1>4, <1>5, <2>1
  <2>8. /\ \A i, j \in DOMAIN tab' : tab'[i] = tab'[j] => i = j
        /\ \A i \in DOMAIN tab' : locidx'[tab'[i]] = i
    BY <1>1, <2>1
  <2> QED BY <1>6, <2>4, <2>5, <2>6, <2>7, <2>8 DEF Placed
<1>10. Fits'
  <2>1. Len(tab) \in Nat /\ cap \in Nat
    BY DEF TypeInv, TypeOK, HeapOK
  <2> QED BY <1>1, <1>2, <2>1 DEF HeapInv, Fits
<1>11. op \in {"none", "free"}
  BY <1>1 DEF TypeInv, Progress
<1>12. Phases'
  BY <1>1, <1>4, <1>11 DEF HeapInv, Phases
<1>13. \A p \in Obj : kids[p] \in Seq(Known) /\ kids'[p] \in Seq(Known)
  <2>1. \A p \in Obj : kids[p] \in Seq(Known)
    BY <1>1 DEF HeapInv, KidsKnown
  <2>2. <<>> \in Seq(Known)
    OBVIOUS
  <2> QED BY <1>3, <2>1, <2>2
<1>14. HeldKnown'
  BY <1>1, <1>2, <1>7, <1>13 DEF HeapInv, HeldKnown, Held
<1>15. KidsKnown'
  BY <1>7, <1>13 DEF KidsKnown
<1>16. Pinned'
  BY <1>1 DEF HeapInv, Pinned
<1>17. CountsExact'
  <2>1. ASSUME NEW o \in Objects PROVE refcnt'[o] = CountFrom(Obj, o)'
    <3> DEFINE k0 == Cardinality(SlotsIn(kids, Obj, o))
               k1 == Cardinality(SlotsIn(kids', Obj, o))
               c0 == Occurrences(kids[h], o)
               c1 == Occurrences(kids'[h], o)
               a == Occurrences(stack, o)
               b == Occurrences(cstack, o)
               c == Occurrences(cache, o)
               d == Occurrences(<<dynscope, errmb>>, o)
               e == Occurrences(drops, o)
               f0 == Occurrences(dn, o)
               f1 == Occurrences(dn', o)
    <3>1. k1 + c0 = k0 + c1 /\ k1 \in Nat /\ c0 \in Nat
      BY <1>2, <1>3, KidsChanged
    <3>2. c1 = 0 /\ f0 = 0
      BY <1>1, <1>3, OccurrencesEmpty
    <3>3. f1 = c0
      BY <1>1
    <3>4. refcnt[o] = CountFrom(Obj, o)
      BY <1>1 DEF HeapInv, CountsExact
    <3>5. CountFrom(Obj, o) = k0 + (a + b + c + d + e + f0)
      BY Zenon DEF CountFrom, KidCount, RootCount
    <3>6. CountFrom(Obj, o)' = k1 + (a + b + c + d + e + f1)
      BY <1>1 DEF CountFrom, KidCount, RootCount
    <3>7. a \in Nat /\ b \in Nat /\ c \in Nat /\ d \in Nat /\ e \in Nat /\ k0 \in Nat
      <4>1. KidCount(Obj, o) \in Nat
        BY CountTypes DEF TypeInv
      <4> QED BY <4>1, CountTypes DEF TypeInv, KidCount
    <3> HIDE DEF k0, k1, c0, c1, a, b, c, d, e, f0, f1
    <3> QED BY <1>1, <3>1, <3>2, <3>3, <3>4, <3>5, <3>6, <3>7
  <2> QED BY <1>1, <1>7, <2>1 DEF CountsExact
<1>18. Marks' /\ CollectedExactly'
  BY <1>1 DEF HeapInv, Phases, Marks, CollectedExactly
<1> QED BY <1>8, <1>9, <1>10, <1>12, <1>14, <1>15, <1>16, <1>17, <1>18 DEF HeapInv

\* Nothing refers to a container that is torn down: it can be given back.
LEMMA FreeDyingSafe ==
  ASSUME TypeInv, TypeInv', HeapInv, FreeDying
  PROVE  HeapInv'
<1> DEFINE x == dying
<1>1. /\ pc = "drop" /\ pc' = "drop" /\ dn = <<>> /\ x # Nil
      /\ kind' = [kind EXCEPT ![x] = "free"] /\ dying' = Nil
      /\ UNCHANGED <<kids, refcnt, locidx, tab, scratch, cap, stack, cstack, cache, dynscope,
                     errmb, op, want, hand, drops, dn, gray, gci>>
  BY DEF FreeDying, Dropping, roots, ctl, gcl
<1>2. x \in Obj
  BY <1>1 DEF TypeInv, TypeOK, ControlOK, Ref
<1>3. kind'[x] = "free" /\ \A o \in Obj : o # x => kind'[o] = kind[o]
  BY <1>1, <1>2 DEF TypeInv, TypeOK, HeapOK
<1>4. /\ x \in Objects /\ kind[x] \in Containers /\ refcnt[x] = 0 /\ kids[x] = <<>> /\ x # hand
      /\ ~InTable(x) /\ ~InScratch(x)
  <2>1. /\ \A o \in Obj : o \in Objects <=> InTable(o) \/ InScratch(o) \/ o = dying
        /\ \A o \in Obj : InTable(o) => ~InScratch(o) /\ o # dying
        /\ \A o \in Obj : InScratch(o) => o # dying
        /\ \A o \in Obj : InScratch(o) \/ o = dying => kind[o] \in Containers /\ refcnt[o] = 0
    BY DEF HeapInv, Placed
  <2>2. kids[x] = <<>>
    BY <1>1 DEF HeapInv, Shape
  <2>3. kind[x] = "raw" <=> x = hand
    BY <1>2 DEF HeapInv, Shape
  <2>4. x \in Objects /\ kind[x] \in Containers /\ refcnt[x] = 0 /\ ~InTable(x) /\ ~InScratch(x)
    BY <1>2, <2>1
  <2> QED BY <2>2, <2>3, <2>4 DEF Containers, Arrays, Bare
<1>5. Objects' = Objects \ {x} /\ Known' = Known \ {x}
  <2>1. Objects' = Objects \ {x}
    BY <1>2, <1>3 DEF Objects
  <2> QED BY <1>1, <2>1 DEF Known
<1>6. RootCount(x) = 0 /\ KidCount(Obj, x) = 0
  <2>1. refcnt[x] = CountFrom(Obj, x)
    BY <1>1, <1>4 DEF HeapInv, CountsExact
  <2>2. CountFrom(Obj, x) = KidCount(Obj, x) + RootCount(x)
    BY Zenon DEF CountFrom
  <2>3. KidCount(Obj, x) \in Nat /\ RootCount(x) \in Nat
    BY CountTypes DEF TypeInv
  <2> DEFINE k == KidCount(Obj, x)
             r == RootCount(x)
  <2>4. 0 = k + r
    BY <1>4, <2>1, <2>2
  <2> HIDE DEF k, r
  <2>5. k = 0 /\ r = 0
    BY <2>3, <2>4 DEF k, r
  <2> QED BY <2>5 DEF k, r
<1>7. PICK y, S : y = x /\ S = Known
  OBVIOUS
<1>8. HeldKnown'
  <2>1. RootCount(y)' = 0
    BY <1>1, <1>6, <1>7 DEF RootCount
  <2>2. Held(S)'
    BY <1>1, <1>7 DEF HeapInv, HeldKnown, Held
  <2>3. Held(S \ {y})'
    BY <2>1, <2>2, UnheldNext
  <2>4. S \ {y} = Known'
    BY <1>5, <1>7
  <2> QED BY <2>3, <2>4 DEF HeldKnown, Held
<1>9. KidsKnown'
  <2>1. \A o \in Obj : kids[o] \in Seq(Known)
    BY <1>1 DEF HeapInv, KidsKnown
  <2>2. Cardinality(SlotsIn(kids, Obj, x)) = 0
    BY <1>6 DEF KidCount
  <2>3. \A o \in Obj : kids[o] \in Seq(Known \ {x})
    BY <2>1, <2>2, UnheldKids
  <2> QED BY <1>1, <1>5, <2>3 DEF KidsKnown
<1> HIDE DEF x
<1>10. Shape'
  <2>1. \A o \in Obj : kind'[o] \notin Containers => kids'[o] = <<>>
    BY <1>1, <1>3, <1>4 DEF HeapInv, Shape
  <2>2. \A o \in Obj : kind'[o] = "raw" <=> o = hand'
    BY <1>1, <1>3, <1>4 DEF HeapInv, Shape
  <2> QED BY <1>1, <2>1, <2>2 DEF Shape
<1>11. Placed'
  <2>1. \A o \in Obj : (InTable(o)' <=> InTable(o)) /\ (InScratch(o)' <=> InScratch(o))
    BY <1>1 DEF InTable, InScratch
  <2>2. \A o \in Obj : o # dying'
    BY <1>1, HeapAssumption
  <2>3. /\ \A o \in Obj : o \in Objects <=> InTable(o) \/ InScratch(o) \/ o = x
        /\ \A o \in Obj : InScratch(o) => kind[o] \in Containers /\ refcnt[o] = 0
    BY DEF HeapInv, Placed, x
  <2>4. \A o \in Obj : o \in Objects' <=> InTable(o)' \/ InScratch(o)' \/ o = dying'
    BY <1>4, <1>5, <2>1, <2>2, <2>3
  <2>5. \A o \in Obj : InScratch(o)' \/ o = dying' => kind'[o] \in Containers /\ refcnt'[o] = 0
    BY <1>1, <1>3, <1>4, <2>1, <2>2, <2>3
  <2> QED BY <1>1, <2>1, <2>2, <2>4, <2>5 DEF HeapInv, Placed
<1>12. Fits'
  BY <1>1 DEF HeapInv, Fits
<1>13. op \in {"none", "free"}
  BY <1>1 DEF TypeInv, Progress
<1>14. Phases'
  BY <1>1, <1>13 DEF HeapInv, Phases
<1>15. Pinned'
  BY <1>1, <1>3 DEF HeapInv, Pinned
<1>16. CountsExact'
  <2>1. \A o : CountFrom(Obj, o)' = CountFrom(Obj, o)
    BY <1>1 DEF CountFrom, KidCount, RootCount
  <2> QED BY <1>1, <1>5, <2>1 DEF HeapInv, CountsExact
<1>17. Marks' /\ CollectedExactly'
  BY <1>1 DEF HeapInv, Phases, Marks, CollectedExactly
<1> QED BY <1>8, <1>9, <1>10, <1>11, <1>12, <1>14, <1>15, <1>16, <1>17 DEF HeapInv

-----------------------------------------------------------------------------
(* The collector.                                                          *)

\* What the references in the hands of the program lead to while the collector runs.
LEMMA RootSetKnown ==
  ASSUME TypeInv, HeapInv
  PROVE  /\ RootSet \subseteq Objects /\ RootSet \subseteq Reachable
         /\ \A i \in DOMAIN stack : stack[i] = Nil \/ stack[i] \in RootSet
         /\ \A i \in DOMAIN cstack : cstack[i] = Nil \/ cstack[i] \in RootSet
         /\ \A i \in DOMAIN cache : cache[i] = Nil \/ cache[i] \in RootSet
         /\ dynscope = Nil \/ dynscope \in RootSet
         /\ errmb = Nil \/ errmb \in RootSet
<1>1. /\ stack \in Seq(Known) /\ cstack \in Seq(Known) /\ cache \in Seq(Known)
      /\ dynscope \in Known /\ errmb \in Known
  BY DEF HeapInv, HeldKnown, Held
<1>2. /\ \A i \in DOMAIN stack : stack[i] \in Known
      /\ \A i \in DOMAIN cstack : cstack[i] \in Known
      /\ \A i \in DOMAIN cache : cache[i] \in Known
  BY <1>1
<1>3. /\ \A x : x \in Range(stack) <=> \E i \in DOMAIN stack : x = stack[i]
      /\ \A x : x \in Range(cstack) <=> \E i \in DOMAIN cstack : x = cstack[i]
      /\ \A x : x \in Range(cache) <=> \E i \in DOMAIN cache : x = cache[i]
  BY DEF Range
<1>4. \A x : x \in RootSet <=> /\ x # Nil
                               /\ x \in Range(stack) \/ x \in Range(cstack) \/ x \in Range(cache)
                                  \/ x = dynscope \/ x = errmb
  BY DEF RootSet
<1>5. RootSet \subseteq Objects
  BY <1>1, <1>2, <1>3, <1>4 DEF Known
<1>6. RootSet \subseteq Reachable
  BY <1>5, KnownIsRef DEF Reachable
<1> QED BY <1>3, <1>4, <1>5, <1>6

\* The parts of the invariant a step of the collector leaves alone as long as it
\* frees nothing.
LEMMA CollectorKeeps ==
  ASSUME TypeInv, TypeInv', HeapInv, pc \in {"mark", "refdn", "sweep"},
         pc' \in {"mark", "refdn", "sweep"}, pc = "sweep" => pc' = "sweep",
         UNCHANGED <<kind, kids, tab, scratch, cap, roots, ctl, tear>>,
         \A o \in Obj : locidx'[o] = locidx[o] \/ locidx'[o] = MARK,
         pc' # "mark" => gray' = {}
  PROVE  /\ Shape' /\ Placed' /\ Fits' /\ Phases' /\ HeldKnown' /\ KidsKnown'
         /\ Pinned' /\ CollectedExactly'
         /\ Objects' = Objects /\ RootSet' = RootSet /\ Reachable' = Reachable
         /\ \A P, o : CountFrom(P, o) = KidCount(P, o) + RootCount(o)
         /\ \A o : RootCount(o)' = RootCount(o)
<1>1. UNCHANGED <<kind, kids, tab, scratch, cap, stack, cstack, cache,
                  dynscope, errmb, op, want, hand, drops, dying, dn>>
  BY DEF roots, ctl, tear
<1>2. Objects' = Objects /\ Known' = Known
  BY <1>1 DEF Objects, Known
<1>3. /\ scratch = <<>> /\ dying = Nil /\ dn = <<>> /\ drops = <<>> /\ op # "none"
  BY DEF HeapInv, Phases
<1>4. Shape' /\ Fits' /\ HeldKnown' /\ Pinned'
  BY <1>1, <1>2 DEF HeapInv, Shape, Fits, HeldKnown, Held, Pinned
<1>5. KidsKnown'
  BY <1>1, <1>2 DEF HeapInv, KidsKnown
<1>6. Placed'
  <2>1. \A o : (InTable(o)' <=> InTable(o)) /\ ~InScratch(o) /\ ~InScratch(o)'
    BY <1>1, <1>3 DEF InTable, InScratch
  <2>2. \A o \in Obj : o # dying'
    BY <1>1, <1>3, HeapAssumption
  <2>3. \A i \in DOMAIN tab' : locidx'[tab'[i]] = i \/ locidx'[tab'[i]] = MARK
    <3>1. \A i \in DOMAIN tab : tab[i] \in Obj /\ (locidx[tab[i]] = i \/ locidx[tab[i]] = MARK)
      BY DEF HeapInv, Placed, TypeInv, TypeOK, HeapOK
    <3> QED BY <1>1, <3>1
  <2> QED BY <1>1, <1>2, <2>1, <2>2, <2>3 DEF HeapInv, Placed
<1>7. Phases'
  <2>1. At(2)' = At(2)
    BY <1>1 DEF At, N
  <2> QED BY <1>1, <1>3, <2>1 DEF HeapInv, Phases, Creating
<1>8. CollectedExactly'
  BY DEF CollectedExactly
<1>9. RootSet' = RootSet
  BY <1>1 DEF RootSet
<1>10. Reachable' = Reachable
  <2>1. \A S : Closed(S)' <=> Closed(S)
    BY <1>1 DEF Closed
  <2> QED BY <1>9, <2>1 DEF Reachable
<1>11. \A o : RootCount(o)' = RootCount(o)
  BY <1>1 DEF RootCount
<1>12. \A P, o : CountFrom(P, o) = KidCount(P, o) + RootCount(o)
  BY Zenon DEF CountFrom
<1> QED BY <1>2, <1>4, <1>5, <1>6, <1>7, <1>8, <1>9, <1>10, <1>11, <1>12

\* Marking a set of objects that can be reached, and letting go of some of the queue.
LEMMA Enqueued ==
  ASSUME TypeInv, TypeInv', HeapInv, pc = "mark", pc' = "mark",
         UNCHANGED <<kind, kids, refcnt, tab, scratch, cap, roots, ctl, tear, gci>>,
         NEW S \in SUBSET Objects, NEW D, Enqueue(S, D), S \subseteq Reachable,
         \A o \in D : \A i \in DOMAIN kids[o] : kids[o][i] \in S \cup {Nil}
  PROVE  HeapInv'
<1>1. /\ locidx' = [o \in Obj |-> IF o \in S THEN MARK ELSE locidx[o]]
      /\ gray' = (gray \ D) \cup NewlyGray(S)
  BY DEF Enqueue
<1>2. \A o \in Obj : locidx'[o] = IF o \in S THEN MARK ELSE locidx[o]
  BY <1>1
<1>3. \A o \in Obj : locidx'[o] = locidx[o] \/ locidx'[o] = MARK
  BY <1>2
<1>4. /\ Shape' /\ Placed' /\ Fits' /\ Phases' /\ HeldKnown' /\ KidsKnown'
      /\ Pinned' /\ CollectedExactly'
      /\ Objects' = Objects /\ Reachable' = Reachable
  BY <1>3, CollectorKeeps
<1>5. CountsExact'
  <2>1. \A o : CountFrom(Obj, o)' = CountFrom(Obj, o)
    BY DEF CountFrom, KidCount, RootCount, roots, ctl, tear
  <2> QED BY <1>4, <2>1 DEF HeapInv, CountsExact
<1>6. MarkedObjects' = MarkedObjects \cup S
  BY <1>2, <1>4, KnownIsRef DEF MarkedObjects, Marked
<1>7. gray \subseteq MarkedObjects /\ MarkedObjects \subseteq Reachable
  BY DEF HeapInv, Marks
<1>8. gray' \subseteq MarkedObjects'
  BY <1>1, <1>6, <1>7 DEF NewlyGray
<1>9. MarkedObjects' \subseteq Reachable'
  BY <1>4, <1>6, <1>7
<1>10. ASSUME NEW o \in MarkedObjects' \ gray' PROVE kids'[o] \in Seq(KnownMarked')
  <2>1. o \in Objects /\ o \in Obj /\ kids'[o] = kids[o]
    BY <1>4, KnownIsRef DEF MarkedObjects
  <2>2. KnownMarked' = MarkedObjects \cup S \cup {Nil}
    BY <1>6 DEF KnownMarked
  <2>3. CASE o \in MarkedObjects /\ o \notin gray
    <3>1. kids[o] \in Seq(KnownMarked)
      BY <2>3 DEF HeapInv, Marks
    <3>2. KnownMarked \subseteq KnownMarked'
      BY <2>2 DEF KnownMarked
    <3>3. kids[o] \in Seq(KnownMarked')
      BY <3>1, <3>2, SeqWider
    <3> QED BY <2>1, <3>3
  <2>4. CASE o \in gray
    <3>1. o \in D
      BY <1>1, <2>4
    <3>2. \A i \in DOMAIN kids[o] : kids[o][i] \in KnownMarked'
      BY <2>2, <3>1
    <3>3. kids[o] \in Seq(Known)
      BY <2>1 DEF HeapInv, KidsKnown
    <3>4. kids[o] \in Seq(KnownMarked')
      BY <3>2, <3>3, SeqInto
    <3> QED BY <2>1, <3>4
  <2>5. CASE o \notin MarkedObjects
    <3>1. o \in S /\ Unmarked(o)
      BY <1>6, <2>1, <2>5 DEF MarkedObjects, Marked, Unmarked
    <3>2. kind[o] \notin Containers
      BY <1>1, <3>1 DEF NewlyGray
    <3>3. kids[o] = <<>>
      BY <2>1, <3>2 DEF HeapInv, Shape
    <3> QED BY <2>1, <3>3
  <2> QED BY <2>3, <2>4, <2>5
<1>11. Marks'
  BY <1>8, <1>9, <1>10 DEF Marks
<1> QED BY <1>4, <1>5, <1>11 DEF HeapInv

LEMMA MarkRootsSafe ==
  ASSUME TypeInv, TypeInv', HeapInv, MarkRoots
  PROVE  HeapInv'
<1>1. /\ pc = "mark" /\ pc' = "mark" /\ Enqueue(RootSet, {})
      /\ UNCHANGED <<kind, kids, refcnt, tab, scratch, cap, roots, ctl, tear, gci>>
  BY DEF MarkRoots
<1>2. RootSet \in SUBSET Objects /\ RootSet \subseteq Reachable
  BY RootSetKnown
<1> QED BY <1>1, <1>2, Enqueued

LEMMA MarkKidsSafe ==
  ASSUME TypeInv, TypeInv', HeapInv, MarkKids
  PROVE  HeapInv'
<1>1. PICK q \in gray : Enqueue(Range(kids[q]) \ {Nil}, {q})
  BY DEF MarkKids
<1>2. /\ pc = "mark" /\ pc' = "mark"
      /\ UNCHANGED <<kind, kids, refcnt, tab, scratch, cap, roots, ctl, tear, gci>>
  BY DEF MarkKids
<1> DEFINE S == Range(kids[q]) \ {Nil}
<1>3. q \in MarkedObjects /\ q \in Reachable /\ q \in Obj
  BY <1>2, KnownIsRef DEF HeapInv, Marks, MarkedObjects
<1>4. kids[q] \in Seq(Known)
  BY <1>2, <1>3 DEF HeapInv, KidsKnown
<1>5. \A x : x \in Range(kids[q]) <=> \E i \in DOMAIN kids[q] : x = kids[q][i]
  BY DEF Range
<1>6. S \in SUBSET Objects /\ \A i \in DOMAIN kids[q] : kids[q][i] \in S \cup {Nil}
  BY <1>4, <1>5 DEF Known
<1>7. S \subseteq Reachable
  <2>1. ASSUME NEW x \in S, NEW T \in SUBSET Obj, RootSet \subseteq T, Closed(T) PROVE x \in T
    <3>1. q \in T
      BY <1>3, <2>1 DEF Reachable
    <3> QED BY <2>1, <3>1 DEF Closed
  <2> QED BY <1>6, <2>1, KnownIsRef DEF Reachable
<1>8. Enqueue(S, {q})
  BY <1>1
<1> HIDE DEF S
<1>9. \A o \in {q} : \A i \in DOMAIN kids[o] : kids[o][i] \in S \cup {Nil}
  BY <1>6
<1> QED BY <1>2, <1>6, <1>7, <1>8, <1>9, Enqueued

LEMMA MarkDoneSafe ==
  ASSUME TypeInv, TypeInv', HeapInv, MarkDone
  PROVE  HeapInv'
<1>1. /\ pc = "mark" /\ pc' = "refdn" /\ gray = {} /\ gray' = {} /\ gci' = 1
      /\ \A o \in RootSet : Marked(o)
      /\ UNCHANGED <<kind, kids, refcnt, locidx, tab, scratch, cap, roots, ctl, tear>>
  BY DEF MarkDone, heap
<1>2. /\ Shape' /\ Placed' /\ Fits' /\ Phases' /\ HeldKnown' /\ KidsKnown'
      /\ Pinned' /\ CollectedExactly'
      /\ Objects' = Objects /\ RootSet' = RootSet /\ Reachable' = Reachable
  BY <1>1, CollectorKeeps
<1>3. MarkedObjects' = MarkedObjects /\ KnownMarked' = KnownMarked
  BY <1>1, <1>2 DEF MarkedObjects, Marked, KnownMarked
<1>4. RootSet \subseteq MarkedObjects
  BY <1>1, RootSetKnown DEF MarkedObjects
<1>5. Marks'
  BY <1>1, <1>2, <1>3, <1>4 DEF HeapInv, Marks
<1>6. CountsExact'
  <2>1. Done' = {}
    <3>1. \A i \in DOMAIN tab' : ~(i < gci')
      BY <1>1 DEF TypeInv, TypeOK, HeapOK
    <3> QED BY <3>1 DEF Done
  <2>2. (Obj \ Done)' = Obj
    BY <2>1
  <2>3. ASSUME NEW o \in Objects PROVE refcnt'[o] = CountFrom(Obj \ Done, o)'
    <3>1. CountFrom(Obj \ Done, o)' = CountFrom(Obj, o)
      BY <1>1, <2>2 DEF CountFrom, KidCount, RootCount, roots, ctl, tear
    <3> QED BY <1>1, <3>1 DEF HeapInv, CountsExact
  <2> QED BY <1>1, <1>2, <2>3 DEF CountsExact
<1> QED BY <1>2, <1>5, <1>6 DEF HeapInv

LEMMA RefsSplit ==
  ASSUME NEW P, IsFiniteSet(P), NEW K, \A p \in P : K[p] \in Seq(Ref), NEW o, NEW q \in P
  PROVE  /\ Cardinality(SlotsIn(K, P, o))
              = Occurrences(K[q], o) + Cardinality(SlotsIn(K, P \ {q}, o))
         /\ Occurrences(K[q], o) \in Nat /\ Cardinality(SlotsIn(K, P \ {q}, o)) \in Nat
<1>1. Cardinality(SlotsIn(K, P, o))
        = Occurrences(K[q], o) + Cardinality(SlotsIn(K, P \ {q}, o))
  BY SlotsSplit, Z3
<1>2. IsFiniteSet(P \ {q}) /\ \A p \in P \ {q} : K[p] \in Seq(Ref)
  BY FS_Subset
<1>3. Cardinality(SlotsIn(K, P \ {q}, o)) \in Nat
  BY <1>2, SlotsFinite
<1> QED BY <1>1, <1>3, OccurrencesType

\* One object less refers to o.
LEMMA OneLess ==
  ASSUME TypeInv, NEW P \in SUBSET Obj, NEW q \in P, NEW o
  PROVE  /\ KidCount(P, o) = Occurrences(kids[q], o) + KidCount(P \ {q}, o)
         /\ Occurrences(kids[q], o) \in Nat /\ KidCount(P \ {q}, o) \in Nat
<1>1. IsFiniteSet(P)
  BY HeapAssumption, FS_Subset
<1>2. \A p \in P : kids[p] \in Seq(Ref)
  BY DEF TypeInv, TypeOK, HeapOK
<1>3. /\ Cardinality(SlotsIn(kids, P, o))
           = Occurrences(kids[q], o) + Cardinality(SlotsIn(kids, P \ {q}, o))
      /\ Occurrences(kids[q], o) \in Nat /\ Cardinality(SlotsIn(kids, P \ {q}, o)) \in Nat
  BY <1>1, <1>2, RefsSplit
<1> QED BY <1>3 DEF KidCount

\* The loop looks at one more object; the references of an unmarked one come off.
LEMMA GcRefDnSafe ==
  ASSUME TypeInv, TypeInv', HeapInv, GcRefDn
  PROVE  HeapInv'
<1> DEFINE q == tab[gci]
           R == Obj \ Done
<1>1. /\ pc = "refdn" /\ pc' = "refdn" /\ gci <= Len(tab) /\ gci' = gci + 1
      /\ Unmarked(q) => \A o \in Obj : refcnt[o] >= Occurrences(kids[q], o)
      /\ refcnt' = CountsOff(q)
      /\ UNCHANGED <<kind, kids, locidx, tab, scratch, cap, roots, pc, ctl, tear, gray>>
  BY DEF GcRefDn
<1>2. gray' = {}
  BY <1>1 DEF HeapInv, Phases
<1>3. /\ Shape' /\ Placed' /\ Fits' /\ Phases' /\ HeldKnown' /\ KidsKnown'
      /\ Pinned' /\ CollectedExactly'
      /\ Objects' = Objects /\ RootSet' = RootSet /\ Reachable' = Reachable
      /\ \A o : RootCount(o)' = RootCount(o)
  BY <1>1, <1>2, CollectorKeeps
<1>4. MarkedObjects' = MarkedObjects /\ KnownMarked' = KnownMarked
  BY <1>1, <1>3 DEF MarkedObjects, Marked, KnownMarked
<1>5. Marks'
  BY <1>1, <1>2, <1>3, <1>4 DEF HeapInv, Marks
<1>6. /\ gci \in DOMAIN tab /\ gci \in Nat /\ q \in Obj
      /\ DOMAIN tab = 1 .. Len(tab) /\ Len(tab) \in Nat
  <2>1. tab \in Seq(Obj) /\ gci \in Nat /\ gci # 0
    BY DEF TypeInv, TypeOK, HeapOK, ControlOK
  <2>2. gci \in 1 .. Len(tab) /\ DOMAIN tab = 1 .. Len(tab) /\ Len(tab) \in Nat
    BY <1>1, <2>1
  <2>3. q \in Obj
    BY <2>1, <2>2
  <2> QED BY <2>1, <2>2, <2>3
<1>7. \A i, j \in DOMAIN tab : tab[i] = tab[j] => i = j
  BY DEF HeapInv, Placed
<1>8. Done' = IF Unmarked(q) THEN Done \cup {q} ELSE Done
  <2>1. \A o \in Obj : Unmarked(o)' <=> Unmarked(o)
    BY <1>1 DEF Unmarked
  <2>2. ASSUME NEW o \in Obj
        PROVE  (\E i \in DOMAIN tab' : i < gci' /\ tab'[i] = o)
                 <=> (\E i \in DOMAIN tab : i < gci /\ tab[i] = o) \/ o = q
    <3>1. \A i \in DOMAIN tab : i < gci + 1 <=> i < gci \/ i = gci
      BY <1>6
    <3> QED BY <1>1, <1>6, <3>1
  <2>3. \A o : o \in Done' <=> o \in Done \/ (o = q /\ Unmarked(q))
    BY <1>6, <2>1, <2>2 DEF Done
  <2> QED BY <2>3
<1>9. q \notin Done
  BY <1>6, <1>7 DEF Done
<1>10. CountsExact'
  <2>1. ASSUME NEW o \in Objects PROVE refcnt'[o] = CountFrom(Obj \ Done, o)'
    <3>1. refcnt[o] = CountFrom(R, o) /\ CountFrom(R, o) = KidCount(R, o) + RootCount(o)
      BY <1>1 DEF HeapInv, CountsExact, CountFrom
    <3>2. o \in Obj /\ RootCount(o)' = RootCount(o) /\ R \in SUBSET Obj
      BY <1>3, KnownIsRef
    <3>3. RootCount(o) \in Nat /\ KidCount(R, o) \in Nat /\ refcnt[o] \in Nat
      BY <3>2, CountTypes DEF TypeInv, TypeOK, HeapOK
    <3>4. CASE Marked(q)
      <4>1. Done' = Done
        BY <1>8, <3>4 DEF Marked, Unmarked
      <4>2. CountFrom(Obj \ Done, o)' = KidCount(R, o) + RootCount(o)
        BY <1>1, <3>2, <4>1 DEF CountFrom, KidCount
      <4>3. refcnt' = refcnt
        BY <1>1, <3>4 DEF CountsOff
      <4> QED BY <3>1, <4>2, <4>3
    <3>5. CASE ~Marked(q)
      <4>1. Unmarked(q)
        BY <3>5 DEF Marked, Unmarked
      <4>2. q \in R
        BY <1>6, <1>9
      <4>3. (Obj \ Done)' = R \ {q}
        BY <1>8, <4>1
      <4>4. CountFrom(Obj \ Done, o)' = KidCount(R \ {q}, o) + RootCount(o)
        BY <1>1, <3>2, <4>3 DEF CountFrom, KidCount
      <4>7. /\ KidCount(R, o) = Occurrences(kids[q], o) + KidCount(R \ {q}, o)
            /\ Occurrences(kids[q], o) \in Nat /\ KidCount(R \ {q}, o) \in Nat
        <5> HIDE DEF R, q
        <5> QED BY <3>2, <4>2, OneLess
      <4>8. refcnt'[o] = refcnt[o] - Occurrences(kids[q], o)
        BY <1>1, <3>2, <3>5 DEF CountsOff
      <4> DEFINE k == KidCount(R, o)
                 k1 == KidCount(R \ {q}, o)
                 c == Occurrences(kids[q], o)
                 r == RootCount(o)
      <4> HIDE DEF k, k1, c, r
      <4>9. (k + r) - c = k1 + r
        BY <3>3, <4>7 DEF k, k1, c, r
      <4> QED BY <3>1, <4>4, <4>8, <4>9 DEF k, k1, c, r
    <3> QED BY <3>4, <3>5
  <2> QED BY <1>1, <1>3, <2>1 DEF CountsExact
<1> QED BY <1>3, <1>5, <1>10 DEF HeapInv

\* Behind the loop every count is that of the references of marked objects.
LEMMA GcRefDnDoneSafe ==
  ASSUME TypeInv, TypeInv', HeapInv, GcRefDnDone
  PROVE  HeapInv'
<1>1. /\ pc = "refdn" /\ pc' = "sweep" /\ gci > Len(tab) /\ gci' = 1
      /\ UNCHANGED <<kind, kids, refcnt, locidx, tab, scratch, cap, roots, ctl, tear, gray>>
  BY DEF GcRefDnDone, heap
<1>2. gray' = {} /\ scratch = <<>> /\ dying = Nil
  BY <1>1 DEF HeapInv, Phases
<1>3. /\ Shape' /\ Placed' /\ Fits' /\ Phases' /\ HeldKnown' /\ KidsKnown'
      /\ Pinned' /\ CollectedExactly'
      /\ Objects' = Objects /\ RootSet' = RootSet /\ Reachable' = Reachable
      /\ \A o : RootCount(o)' = RootCount(o)
  BY <1>1, <1>2, CollectorKeeps
<1>4. MarkedObjects' = MarkedObjects /\ KnownMarked' = KnownMarked
  BY <1>1, <1>3 DEF MarkedObjects, Marked, KnownMarked
<1>5. Marks'
  <2>1. \A i \in DOMAIN tab' : ~(i < gci')
    BY <1>1 DEF TypeInv, TypeOK, HeapOK
  <2> QED BY <1>1, <1>2, <1>3, <1>4, <2>1 DEF HeapInv, Marks
<1>6. \A i \in DOMAIN tab : i < gci
  BY <1>1 DEF TypeInv, TypeOK, HeapOK, ControlOK
<1>7. MarkedObjects \subseteq Obj \ Done
  BY KnownIsRef DEF MarkedObjects, Marked, Done, Unmarked
<1>8. ASSUME NEW p \in (Obj \ Done) \ MarkedObjects PROVE kids[p] = <<>>
  <2>1. CASE p \notin Objects
    BY <2>1 DEF Objects, HeapInv, Shape, Containers, Arrays
  <2>2. CASE p \in Objects
    <3>1. Unmarked(p)
      BY <2>2 DEF MarkedObjects, Marked, Unmarked
    <3>2. ~InScratch(p) /\ p # dying
      BY <1>2, HeapAssumption DEF InScratch
    <3>3. InTable(p)
      BY <2>2, <3>2 DEF HeapInv, Placed
    <3>4. p \in Done
      BY <1>6, <3>1, <3>3 DEF Done, InTable
    <3> QED BY <3>4
  <2> QED BY <2>1, <2>2
<1>9. CountsExact'
  <2>1. ASSUME NEW o \in Objects PROVE refcnt'[o] = CountFrom(MarkedObjects, o)'
    <3>1. refcnt[o] = CountFrom(Obj \ Done, o)
      BY <1>1 DEF HeapInv, CountsExact
    <3>2. SlotsIn(kids, Obj \ Done, o) = SlotsIn(kids, MarkedObjects, o)
      <4>1. \A p \in (Obj \ Done) \ MarkedObjects : \A i \in DOMAIN kids[p] : kids[p][i] # o
        BY <1>8
      <4> QED BY <1>7, <4>1, SlotsOnly
    <3>3. CountFrom(MarkedObjects, o)' = CountFrom(MarkedObjects, o)
      BY <1>1, <1>3, <1>4 DEF CountFrom, KidCount
    <3>4. CountFrom(Obj \ Done, o) = CountFrom(MarkedObjects, o)
      BY <3>2 DEF CountFrom, KidCount
    <3> QED BY <1>1, <3>1, <3>3, <3>4
  <2> QED BY <1>1, <1>3, <2>1 DEF CountsExact
<1> QED BY <1>3, <1>5, <1>9 DEF HeapInv

LEMMA SweepMarkedSafe ==
  ASSUME TypeInv, TypeInv', HeapInv, SweepMarked
  PROVE  HeapInv'
<1>1. /\ pc = "sweep" /\ pc' = "sweep" /\ gci <= Len(tab) /\ Marked(tab[gci]) /\ gci' = gci + 1
      /\ UNCHANGED <<kind, kids, refcnt, locidx, tab, scratch, cap, roots, ctl, tear, gray>>
  BY DEF SweepMarked, heap
<1>2. gray' = {}
  BY <1>1 DEF HeapInv, Phases
<1>3. /\ Shape' /\ Placed' /\ Fits' /\ Phases' /\ HeldKnown' /\ KidsKnown'
      /\ Pinned' /\ CollectedExactly'
      /\ Objects' = Objects /\ RootSet' = RootSet /\ Reachable' = Reachable
      /\ \A o : RootCount(o)' = RootCount(o)
  BY <1>1, <1>2, CollectorKeeps
<1>4. MarkedObjects' = MarkedObjects /\ KnownMarked' = KnownMarked
  BY <1>1, <1>3 DEF MarkedObjects, Marked, KnownMarked
<1>5. Marks'
  <2>1. op' # "free" => \A i \in DOMAIN tab' : i < gci' => Marked(tab[i])'
    <3>1. tab \in Seq(Obj) /\ gci \in Nat
      BY DEF TypeInv, TypeOK, HeapOK, ControlOK
    <3>2. \A i \in DOMAIN tab : i < gci + 1 => i < gci \/ i = gci
      BY <3>1
    <3>3. op' = op /\ tab' = tab /\ locidx' = locidx
      BY <1>1 DEF ctl
    <3>4. op # "free" => \A i \in DOMAIN tab : i < gci => locidx[tab[i]] = MARK
      BY <1>1 DEF HeapInv, Marks, Marked
    <3>5. op # "free" => \A i \in DOMAIN tab : i < gci + 1 => locidx[tab[i]] = MARK
      BY <1>1, <3>2, <3>4 DEF Marked
    <3> QED BY <1>1, <3>3, <3>5 DEF Marked
  <2>2. /\ gray' \subseteq MarkedObjects' /\ RootSet' \subseteq MarkedObjects'
        /\ MarkedObjects' \subseteq Reachable'
        /\ \A o \in MarkedObjects' : kids'[o] \in Seq(KnownMarked')
    BY <1>1, <1>2, <1>3, <1>4 DEF HeapInv, Marks
  <2> QED BY <1>1, <2>1, <2>2 DEF Marks
<1>6. CountsExact'
  <2>1. ASSUME NEW o \in Objects PROVE refcnt'[o] = CountFrom(MarkedObjects, o)'
    <3>1. CountFrom(MarkedObjects, o)' = CountFrom(MarkedObjects, o)
      BY <1>1, <1>3, <1>4 DEF CountFrom, KidCount
    <3> QED BY <1>1, <3>1 DEF HeapInv, CountsExact
  <2> QED BY <1>1, <1>3, <2>1 DEF CountsExact
<1> QED BY <1>3, <1>5, <1>6 DEF HeapInv

\* The table without a swept object: an index is right or a mark.
LEMMA SweptTable ==
  ASSUME TypeInv, HeapInv, pc = "sweep", NEW k \in DOMAIN tab, Unmarked(tab[k]),
         tab' = SwapRemove(tab, k),
         locidx' = [locidx EXCEPT ![tab[Len(tab)]] = IF Marked(tab[Len(tab)]) THEN MARK ELSE k,
                                  ![tab[k]] = 0]
  PROVE  /\ Len(tab) \in Nat /\ Len(tab) >= 1 /\ Len(tab') = Len(tab) - 1
         /\ \A i, j \in DOMAIN tab' : tab'[i] = tab'[j] => i = j
         /\ \A o \in Obj : InTable(o)' <=> InTable(o) /\ o # tab[k]
         /\ \A i \in DOMAIN tab' : locidx'[tab'[i]] = i \/ locidx'[tab'[i]] = MARK
         /\ \A i \in DOMAIN tab' : i < k => tab'[i] = tab[i] /\ i \in DOMAIN tab
         /\ \A o \in Obj : o # tab[k] => (locidx'[o] = MARK <=> locidx[o] = MARK)
<1> DEFINE q == tab[k]
           last == tab[Len(tab)]
<1>1. /\ \A i, j \in DOMAIN tab : tab[i] = tab[j] => i = j
      /\ \A i \in DOMAIN tab : locidx[tab[i]] = i \/ locidx[tab[i]] = MARK
  BY DEF HeapInv, Placed
<1>2. /\ tab \in Seq(Obj) /\ locidx \in [Obj -> Nat]
      /\ Len(tab) \in Nat /\ DOMAIN tab = 1 .. Len(tab) /\ Len(tab) >= 1
      /\ Len(tab) \in DOMAIN tab /\ last \in Obj /\ q \in Obj /\ k \in Nat /\ k # 0
  BY DEF TypeInv, TypeOK, HeapOK
<1>3. /\ Len(tab') = Len(tab) - 1
      /\ \A i, j \in DOMAIN tab' : tab'[i] = tab'[j] => i = j
      /\ \A i \in DOMAIN tab' : /\ i \in DOMAIN tab /\ i # Len(tab)
                                /\ tab'[i] = IF i = k THEN last ELSE tab[i]
      /\ \A y : (\E i \in DOMAIN tab' : tab'[i] = y)
                  <=> (\E i \in DOMAIN tab : tab[i] = y) /\ y # q
  <2> DEFINE u == SwapRemove(tab, k)
  <2>1. /\ u \in Seq(Obj) /\ Len(u) = Len(tab) - 1
        /\ \A i, j \in DOMAIN u : u[i] = u[j] => i = j
        /\ \A i \in DOMAIN u : /\ i \in DOMAIN tab /\ i # Len(tab)
                               /\ u[i] = IF i = k THEN tab[Len(tab)] ELSE tab[i]
        /\ \A y : (\E i \in DOMAIN u : u[i] = y)
                    <=> (\E i \in DOMAIN tab : tab[i] = y) /\ y # tab[k]
    BY <1>1, <1>2, SwapRemoveTable
  <2>2. tab' = u
    OBVIOUS
  <2> HIDE DEF u
  <2> QED BY <2>1, <2>2
<1>4. \A o \in Obj : InTable(o)' <=> InTable(o) /\ o # q
  BY <1>3 DEF InTable
<1>5. /\ last # q => locidx'[last] = IF locidx[last] = MARK THEN MARK ELSE k
      /\ \A o \in Obj : o # q /\ o # last => locidx'[o] = locidx[o]
  BY <1>2 DEF Marked
<1>6. ASSUME NEW o \in Obj, o # q PROVE locidx'[o] = MARK <=> locidx[o] = MARK
  <2>1. CASE o = last
    BY <1>2, <1>5, <1>6, <2>1 DEF MARK
  <2>2. CASE o # last
    BY <1>5, <1>6, <2>2
  <2> QED BY <2>1, <2>2
<1>7. ASSUME NEW i \in DOMAIN tab' PROVE locidx'[tab'[i]] = i \/ locidx'[tab'[i]] = MARK
  <2>1. i \in DOMAIN tab /\ i # Len(tab) /\ tab'[i] = IF i = k THEN last ELSE tab[i]
    BY <1>3
  <2>2. tab'[i] # q
    BY <1>3
  <2>3. CASE i = k
    BY <1>5, <2>1, <2>2, <2>3
  <2>4. CASE i # k
    <3>1. tab'[i] = tab[i] /\ tab[i] \in Obj /\ tab[i] # last
      BY <1>1, <1>2, <2>1, <2>4
    <3> QED BY <1>1, <1>5, <2>1, <2>2, <3>1
  <2> QED BY <2>3, <2>4
<1>8. \A i \in DOMAIN tab' : i < k => tab'[i] = tab[i] /\ i \in DOMAIN tab
  BY <1>2, <1>3
<1> QED BY <1>2, <1>3, <1>4, <1>6, <1>7, <1>8

\* The sweep gives an unmarked object back: no marked object and no root refers
\* to it, so every marked one stays within reach.
LEMMA SweepFreeSafe ==
  ASSUME TypeInv, TypeInv', HeapInv, SweepFree
  PROVE  HeapInv'
<1> DEFINE q == tab[gci]
           last == tab[Len(tab)]
<1>1. /\ pc = "sweep" /\ pc' = "sweep" /\ gci <= Len(tab) /\ Unmarked(q)
      /\ tab' = SwapRemove(tab, gci)
      /\ locidx' = [locidx EXCEPT ![last] = IF Marked(last) THEN MARK ELSE gci, ![q] = 0]
      /\ kind' = [kind EXCEPT ![q] = "free"] /\ kids' = [kids EXCEPT ![q] = <<>>]
      /\ gci' = IF kind[q] = "scope" THEN ScSize + 1 ELSE gci
      /\ UNCHANGED <<refcnt, scratch, cap, stack, cstack, cache, dynscope, errmb,
                     op, want, hand, drops, dying, dn, gray>>
  BY DEF SweepFree, Sweepable, Swept, SweptIndex, roots, ctl, tear
<1>2. /\ gray = {} /\ scratch = <<>> /\ dying = Nil /\ dn = <<>> /\ drops = <<>> /\ op # "none"
  BY <1>1 DEF HeapInv, Phases
<1>3. gci \in DOMAIN tab /\ q \in Obj /\ InTable(q) /\ gci \in Nat
  <2>1. tab \in Seq(Obj) /\ gci \in Nat /\ gci # 0
    BY DEF TypeInv, TypeOK, HeapOK, ControlOK
  <2>2. gci \in DOMAIN tab
    BY <1>1, <2>1
  <2> QED BY <2>1, <2>2 DEF InTable
<1>4. /\ Len(tab) \in Nat /\ Len(tab) >= 1 /\ Len(tab') = Len(tab) - 1
      /\ \A i, j \in DOMAIN tab' : tab'[i] = tab'[j] => i = j
      /\ \A o \in Obj : InTable(o)' <=> InTable(o) /\ o # q
      /\ \A i \in DOMAIN tab' : locidx'[tab'[i]] = i \/ locidx'[tab'[i]] = MARK
      /\ \A i \in DOMAIN tab' : i < gci => tab'[i] = tab[i] /\ i \in DOMAIN tab
      /\ \A o \in Obj : o # q => (locidx'[o] = MARK <=> locidx[o] = MARK)
  BY <1>1, <1>3, SweptTable
<1>5. /\ kind'[q] = "free" /\ \A o \in Obj : o # q => kind'[o] = kind[o]
      /\ kids'[q] = <<>> /\ \A o \in Obj : o # q => kids'[o] = kids[o]
  BY <1>1, <1>3 DEF TypeInv, TypeOK, HeapOK
<1> HIDE DEF q, last
<1>6. q \in Objects /\ q # hand /\ q # Nil
  BY <1>3, HeapAssumption DEF HeapInv, Placed, Shape, Objects
<1>7. Objects' = Objects \ {q} /\ Known' = Known \ {q} /\ Objects \subseteq Obj
  <2>1. Objects' = Objects \ {q} /\ Objects \subseteq Obj
    BY <1>3, <1>5 DEF Objects
  <2> QED BY <1>6, <2>1 DEF Known
<1>8. q \notin MarkedObjects /\ MarkedObjects' = MarkedObjects /\ KnownMarked' = KnownMarked
  <2>1. q \notin MarkedObjects
    BY <1>1 DEF MarkedObjects, Marked, Unmarked
  <2>2. \A o : o \in MarkedObjects' <=> o \in MarkedObjects
    BY <1>1, <1>4, <1>7 DEF MarkedObjects, Marked, Unmarked
  <2>3. MarkedObjects' = MarkedObjects
    BY <2>2
  <2> QED BY <2>1, <2>3 DEF KnownMarked
<1>9. /\ RootSet \subseteq MarkedObjects /\ MarkedObjects \subseteq Reachable
      /\ \A o \in MarkedObjects : kids[o] \in Seq(KnownMarked)
      /\ op # "free" => \A i \in DOMAIN tab : i < gci => Marked(tab[i])
  BY <1>1 DEF HeapInv, Marks
<1>10. RootSet' = RootSet
  BY <1>1 DEF RootSet
<1>11. \A o \in MarkedObjects : o \in Obj /\ o # q /\ kids'[o] = kids[o]
  BY <1>5, <1>7, <1>8 DEF MarkedObjects
<1>12. KnownMarked \subseteq Known' /\ Nil \in KnownMarked
  BY <1>7, <1>8 DEF KnownMarked, MarkedObjects, Known
<1>13. Held(KnownMarked)
  <2>1. /\ stack \in Seq(Known) /\ cstack \in Seq(Known) /\ cache \in Seq(Known)
    BY DEF HeapInv, HeldKnown, Held
  <2>2. /\ \A i \in DOMAIN stack : stack[i] \in KnownMarked
        /\ \A i \in DOMAIN cstack : cstack[i] \in KnownMarked
        /\ \A i \in DOMAIN cache : cache[i] \in KnownMarked
        /\ dynscope \in KnownMarked /\ errmb \in KnownMarked
    BY <1>9, RootSetKnown DEF KnownMarked
  <2>3. stack \in Seq(KnownMarked) /\ cstack \in Seq(KnownMarked) /\ cache \in Seq(KnownMarked)
    BY <2>1, <2>2, SeqInto
  <2>4. drops \in Seq(KnownMarked) /\ dn \in Seq(KnownMarked)
    BY <1>2
  <2> QED BY <2>2, <2>3, <2>4 DEF Held
<1>14. HeldKnown'
  <2>1. /\ stack \in Seq(Known') /\ cstack \in Seq(Known') /\ cache \in Seq(Known')
        /\ drops \in Seq(Known') /\ dn \in Seq(Known')
    BY <1>12, <1>13, SeqWider DEF Held
  <2>2. dynscope \in Known' /\ errmb \in Known'
    BY <1>12, <1>13 DEF Held
  <2> QED BY <1>1, <2>1, <2>2 DEF HeldKnown, Held
<1>15. Shape'
  <2>1. \A o \in Obj : kind'[o] \notin Containers => kids'[o] = <<>>
    BY <1>5 DEF HeapInv, Shape
  <2>2. \A o \in Obj : kind'[o] = "raw" <=> o = hand'
    BY <1>1, <1>5, <1>6 DEF HeapInv, Shape
  <2> QED BY <1>1, <1>2, <2>1, <2>2 DEF Shape
<1>16. Placed'
  <2>1. \A o : ~InScratch(o) /\ ~InScratch(o)'
    BY <1>1, <1>2 DEF InScratch
  <2>2. \A o \in Obj : o # dying /\ o # dying'
    BY <1>1, <1>2, HeapAssumption
  <2>3. \A o \in Obj : o \in Objects <=> InTable(o)
    BY <2>1, <2>2 DEF HeapInv, Placed
  <2>4. \A o \in Obj : o \in Objects' <=> InTable(o)' \/ InScratch(o)' \/ o = dying'
    BY <1>4, <1>7, <2>1, <2>2, <2>3
  <2>5. \A i, j \in DOMAIN scratch' : scratch'[i] = scratch'[j] => i = j
    BY <1>1, <1>2
  <2> QED BY <1>1, <1>4, <2>1, <2>2, <2>4, <2>5 DEF Placed
<1>17. Fits'
  BY <1>1, <1>2, <1>4 DEF HeapInv, Fits, TypeInv, TypeOK, HeapOK
<1>18. Phases'
  <2>1. At(2)' = At(2)
    BY <1>1 DEF At, N
  <2>2. op = "append" => At(2) # Nil /\ kind[At(2)] \in Arrays /\ At(2) \in MarkedObjects
    <3>1. op = "append" => N \in Nat /\ N = Len(stack) /\ N >= 2 /\ N - 2 + 1 \in 1 .. N
      BY DEF TypeInv, TypeOK, RootsOK, Progress, N
    <3>2. op = "append" => N - 2 + 1 \in DOMAIN stack
      BY <3>1 DEF TypeInv, TypeOK, RootsOK
    <3>3. op = "append" => At(2) # Nil /\ kind[At(2)] \in Arrays
      BY DEF HeapInv, Phases
    <3>4. op = "append" => At(2) \in RootSet
      BY <3>2, <3>3, RootSetKnown DEF At
    <3> QED BY <1>9, <3>3, <3>4
  <2>3. op = "append" => kind'[At(2)] \in Arrays
    BY <1>5, <1>11, <2>2
  <2> QED BY <1>1, <1>2, <2>1, <2>2, <2>3 DEF HeapInv, Phases
<1>19. KidsKnown' /\ CollectedExactly'
  BY <1>1 DEF KidsKnown, CollectedExactly
<1>20. Pinned'
  BY <1>1, <1>5 DEF HeapInv, Pinned
<1>21. CountsExact'
  <2>1. ASSUME NEW o \in Objects' PROVE refcnt'[o] = CountFrom(MarkedObjects, o)'
    <3>1. o \in Objects
      BY <1>7
    <3>2. refcnt[o] = CountFrom(MarkedObjects, o)
      BY <1>1, <3>1 DEF HeapInv, CountsExact
    <3>3. SlotsIn(kids, MarkedObjects, o) = SlotsIn(kids', MarkedObjects, o)
      BY <1>11, SlotsSame
    <3>4. CountFrom(MarkedObjects, o)' = CountFrom(MarkedObjects, o)
      BY <1>1, <1>8, <3>3 DEF CountFrom, KidCount, RootCount
    <3> QED BY <1>1, <3>2, <3>4
  <2> QED BY <1>1, <2>1 DEF CountsExact
<1>22. MarkedObjects' \subseteq Reachable'
  <2>1. ASSUME NEW o \in MarkedObjects, NEW S \in SUBSET Obj, RootSet' \subseteq S,
               \A p \in S : Range(kids'[p]) \subseteq S \cup {Nil}
        PROVE  o \in S
    <3> DEFINE T == S \cap MarkedObjects
    <3>1. RootSet \subseteq T /\ T \in SUBSET Obj
      BY <1>9, <1>10, <2>1
    <3>2. ASSUME NEW p \in T PROVE Range(kids[p]) \subseteq T \cup {Nil}
      <4>1. kids'[p] = kids[p] /\ kids[p] \in Seq(KnownMarked)
        BY <1>9, <1>11
      <4>2. Range(kids[p]) \subseteq KnownMarked
        BY <4>1 DEF Range
      <4>3. Range(kids[p]) \subseteq S \cup {Nil}
        BY <2>1, <4>1
      <4> QED BY <4>2, <4>3 DEF KnownMarked
    <3>3. Closed(T)
      BY <3>2 DEF Closed
    <3>4. o \in Reachable
      BY <1>9
    <3> HIDE DEF T
    <3>5. o \in T
      BY <3>1, <3>3, <3>4 DEF Reachable
    <3> QED BY <3>5 DEF T
  <2>2. ASSUME NEW o \in MarkedObjects, NEW S \in SUBSET Obj, RootSet' \subseteq S, Closed(S)'
        PROVE  o \in S
    <3>1. \A p \in S : Range(kids'[p]) \subseteq S \cup {Nil}
      BY <2>2 DEF Closed
    <3> QED BY <2>1, <2>2, <3>1
  <2> QED BY <1>8, <1>11, <2>2 DEF Reachable
<1>23. op' # "free" => \A i \in DOMAIN tab' : i < gci' => Marked(tab[i])'
  <2>1. CASE op = "free"
    BY <1>1, <2>1
  <2>2. CASE op # "free"
    <3>1. kind[q] # "scope"
      <4>1. ASSUME kind[q] = "scope" PROVE FALSE
        <5>1. PICK i \in DOMAIN cache : cache[i] = q
          BY <1>3, <2>2, <4>1 DEF HeapInv, Pinned
        <5>2. q \in RootSet
          BY <1>6, <5>1, RootSetKnown
        <5> QED BY <1>8, <1>9, <5>2
      <4> QED BY <4>1
    <3>2. gci' = gci
      BY <1>1, <3>1
    <3>3. ASSUME NEW i \in DOMAIN tab', i < gci PROVE locidx'[tab'[i]] = MARK
      <4>1. tab'[i] = tab[i] /\ i \in DOMAIN tab /\ locidx[tab[i]] = MARK
        BY <1>4, <1>9, <2>2, <3>3 DEF Marked
      <4>2. tab[i] \in Obj
        BY <4>1 DEF TypeInv, TypeOK, HeapOK
      <4>3. tab[i] # q
        BY <1>1, <4>1 DEF Unmarked
      <4> QED BY <1>4, <4>1, <4>2, <4>3
    <3> QED BY <3>2, <3>3 DEF Marked
  <2> QED BY <2>1, <2>2
<1>24. Marks'
  <2>1. /\ gray' \subseteq MarkedObjects' /\ RootSet' \subseteq MarkedObjects'
        /\ \A o \in MarkedObjects' : kids'[o] \in Seq(KnownMarked')
    BY <1>1, <1>2, <1>8, <1>9, <1>10, <1>11
  <2> QED BY <1>1, <1>22, <1>23, <2>1 DEF Marks
<1> QED BY <1>14, <1>15, <1>16, <1>17, <1>18, <1>19, <1>20, <1>21, <1>24 DEF HeapInv

\* Behind the sweep every object that is left is marked, and only what is within
\* reach is (abce_free, whose sweep may stop early, has no use for it any more).
LEMMA UnmarkSafe ==
  ASSUME TypeInv, TypeInv', HeapInv, Unmark
  PROVE  HeapInv'
<1>1. /\ pc = "sweep" /\ gci > Len(tab) /\ locidx' = Indices
      /\ pc' = (IF op = "free" THEN "down" ELSE "alloced") /\ gci' = 1
      /\ UNCHANGED <<kind, kids, refcnt, tab, scratch, cap, stack, cstack, cache,
                     dynscope, errmb, op, want, hand, drops, dying, dn, gray>>
  BY DEF Unmark, roots, ctl, tear
<1>2. /\ gray = {} /\ scratch = <<>> /\ dying = Nil /\ dn = <<>> /\ drops = <<>> /\ op # "none"
  BY <1>1 DEF HeapInv, Phases
<1>3. Objects' = Objects /\ Known' = Known /\ RootSet' = RootSet
  BY <1>1 DEF Objects, Known, RootSet
<1>4. Reachable' = Reachable
  <2>1. \A S : Closed(S)' <=> Closed(S)
    BY <1>1 DEF Closed
  <2> QED BY <1>3, <2>1 DEF Reachable
<1>5. Shape' /\ Fits' /\ HeldKnown' /\ Pinned'
  BY <1>1, <1>3 DEF HeapInv, Shape, Fits, HeldKnown, Held, Pinned
<1>6. \A i, j \in DOMAIN tab : tab[i] = tab[j] => i = j
  BY DEF HeapInv, Placed
<1>7. \A i \in DOMAIN tab : locidx'[tab[i]] = i
  <2>1. ASSUME NEW i \in DOMAIN tab PROVE locidx'[tab[i]] = i
    <3>1. tab[i] \in Obj
      BY DEF TypeInv, TypeOK, HeapOK
    <3>2. locidx'[tab[i]] = CHOOSE j \in DOMAIN tab : tab[j] = tab[i]
      BY <1>1, <3>1 DEF Indices
    <3>3. \A j \in DOMAIN tab : tab[j] = tab[i] <=> j = i
      BY <1>6
    <3> QED BY <3>2, <3>3
  <2> QED BY <2>1
<1>8. \A o : ~InScratch(o)
  BY <1>2 DEF InScratch
<1>9. \A o \in Obj : o # dying
  BY <1>2, HeapAssumption
<1>10. Placed'
  <2>1. \A o : (InTable(o)' <=> InTable(o)) /\ (InScratch(o)' <=> InScratch(o))
    BY <1>1 DEF InTable, InScratch
  <2> QED BY <1>1, <1>3, <1>6, <1>7, <1>8, <1>9, <2>1 DEF HeapInv, Placed
<1>11. Phases'
  <2>1. At(2)' = At(2)
    BY <1>1 DEF At, N
  <2>2. op \in {"none", "create", "new", "scope", "append", "free"}
    BY DEF TypeInv, TypeOK, ControlOK
  <2> QED BY <1>1, <1>2, <2>1, <2>2 DEF HeapInv, Phases, Creating
<1>12. Marks'
  BY <1>1, <1>2 DEF Marks
<1>13. /\ RootSet \subseteq MarkedObjects /\ MarkedObjects \subseteq Reachable
       /\ \A o \in MarkedObjects : kids[o] \in Seq(KnownMarked)
       /\ op # "free" => \A i \in DOMAIN tab : i < gci => Marked(tab[i])
  BY <1>1 DEF HeapInv, Marks
<1>14. op # "free" => Objects = MarkedObjects
  <2>1. ASSUME op # "free", NEW o \in Objects PROVE Marked(o)
    <3>1. InTable(o)
      BY <1>8, <1>9, KnownIsRef DEF HeapInv, Placed
    <3>2. PICK i \in DOMAIN tab : tab[i] = o
      BY <3>1 DEF InTable
    <3>3. i < gci
      BY <1>1, <3>2 DEF TypeInv, TypeOK, HeapOK, ControlOK
    <3> QED BY <1>13, <2>1, <3>2, <3>3
  <2> QED BY <2>1 DEF MarkedObjects
<1>15. \A o \in Obj \ Objects : kids[o] = <<>>
  BY DEF Objects, HeapInv, Shape, Containers, Arrays
<1>16. KidsKnown'
  <2>1. ASSUME op # "free", NEW o \in Obj PROVE kids[o] \in Seq(Known)
    <3>1. CASE o \in Objects
      <4>1. kids[o] \in Seq(KnownMarked) /\ KnownMarked = Known
        BY <1>13, <1>14, <2>1, <3>1 DEF KnownMarked, Known
      <4> QED BY <4>1
    <3>2. CASE o \notin Objects
      <4>1. kids[o] = <<>>
        BY <1>15, <3>2
      <4>2. <<>> \in Seq(Known)
        OBVIOUS
      <4> QED BY <4>1, <4>2
    <3> QED BY <3>1, <3>2
  <2> QED BY <1>1, <1>3, <2>1 DEF KidsKnown
<1>17. CountsExact'
  <2>1. ASSUME op # "free", NEW o \in Objects PROVE refcnt'[o] = CountFrom(Obj, o)'
    <3>1. refcnt[o] = CountFrom(MarkedObjects, o)
      BY <1>1 DEF HeapInv, CountsExact
    <3>2. SlotsIn(kids, Obj, o) = SlotsIn(kids, MarkedObjects, o)
      <4>1. \A p \in Obj \ MarkedObjects : \A i \in DOMAIN kids[p] : kids[p][i] # o
        BY <1>14, <1>15, <2>1
      <4>2. MarkedObjects \subseteq Obj
        BY KnownIsRef DEF MarkedObjects
      <4> QED BY <4>1, <4>2, SlotsOnly
    <3>3. CountFrom(Obj, o)' = CountFrom(Obj, o)
      BY <1>1 DEF CountFrom, KidCount, RootCount
    <3>4. CountFrom(Obj, o) = CountFrom(MarkedObjects, o)
      BY <3>2 DEF CountFrom, KidCount
    <3> QED BY <1>1, <3>1, <3>3, <3>4
  <2> QED BY <1>1, <1>3, <2>1 DEF CountsExact
<1>18. CollectedExactly'
  <2>1. ASSUME op # "free" PROVE Reachable \subseteq Objects
    <3>1. ASSUME NEW p \in MarkedObjects PROVE Range(kids[p]) \subseteq MarkedObjects \cup {Nil}
      <4>1. kids[p] \in Seq(KnownMarked)
        BY <1>13
      <4> QED BY <4>1 DEF Range, KnownMarked
    <3>2. Closed(MarkedObjects) /\ MarkedObjects \in SUBSET Obj
      BY <3>1, KnownIsRef DEF Closed, MarkedObjects
    <3>3. Reachable \subseteq MarkedObjects
      BY <1>13, <3>2 DEF Reachable
    <3> QED BY <3>3 DEF MarkedObjects
  <2>2. op # "free" => Objects = Reachable
    BY <1>13, <1>14, <2>1
  <2> QED BY <1>1, <1>3, <1>4, <2>2 DEF CollectedExactly
<1> QED BY <1>5, <1>10, <1>11, <1>12, <1>16, <1>17, <1>18 DEF HeapInv

-----------------------------------------------------------------------------
(* The invariant holds.                                                    *)

LEMMA HeapStutter ==
  ASSUME HeapInv, UNCHANGED vars
  PROVE  HeapInv'
<1>1. UNCHANGED <<kind, kids, refcnt, locidx, tab, scratch, cap, stack, cstack, cache,
                  dynscope, errmb, pc, op, want, hand, drops, dying, dn, gray, gci>>
  BY DEF vars, heap, roots, ctl, tear, gcl
<1>2. Objects' = Objects /\ Known' = Known /\ RootSet' = RootSet
  BY <1>1 DEF Objects, Known, RootSet
<1>3. MarkedObjects' = MarkedObjects /\ KnownMarked' = KnownMarked /\ Done' = Done
  BY <1>1, <1>2 DEF MarkedObjects, KnownMarked, Done, Marked, Unmarked
<1>4. Reachable' = Reachable
  <2>1. \A S : Closed(S)' <=> Closed(S)
    BY <1>1 DEF Closed
  <2> QED BY <1>2, <2>1 DEF Reachable
<1>5. Shape' /\ Fits' /\ HeldKnown' /\ KidsKnown' /\ Pinned'
  BY <1>1, <1>2 DEF HeapInv, Shape, Fits, HeldKnown, Held, KidsKnown, Pinned
<1>6. Placed'
  <2>1. \A o : (InTable(o)' <=> InTable(o)) /\ (InScratch(o)' <=> InScratch(o))
    BY <1>1 DEF InTable, InScratch
  <2> QED BY <1>1, <1>2, <2>1 DEF HeapInv, Placed
<1>7. Phases'
  <2>1. At(2)' = At(2)
    BY <1>1 DEF At, N
  <2> QED BY <1>1, <2>1 DEF HeapInv, Phases
<1>8. CountsExact'
  <2>1. \A o : /\ CountFrom(Obj, o)' = CountFrom(Obj, o)
               /\ CountFrom(Obj \ Done, o)' = CountFrom(Obj \ Done, o)
               /\ CountFrom(MarkedObjects, o)' = CountFrom(MarkedObjects, o)
    BY <1>1, <1>3 DEF CountFrom, KidCount, RootCount
  <2> QED BY <1>1, <1>2, <2>1 DEF HeapInv, CountsExact
<1>9. Marks'
  <2>1. pc' = "sweep" /\ op' # "free" => \A i \in DOMAIN tab' : i < gci' => Marked(tab[i])'
    BY <1>1 DEF HeapInv, Marks, Marked
  <2>2. /\ gray' \subseteq MarkedObjects'
        /\ pc' = "mark" => \A o \in MarkedObjects' \ gray' : kids'[o] \in Seq(KnownMarked')
        /\ pc' \in {"refdn", "sweep"} =>
             /\ RootSet' \subseteq MarkedObjects'
             /\ \A o \in MarkedObjects' : kids'[o] \in Seq(KnownMarked')
        /\ pc' \in {"mark", "refdn", "sweep"} => MarkedObjects' \subseteq Reachable'
    BY <1>1, <1>2, <1>3, <1>4 DEF HeapInv, Marks
  <2> QED BY <2>1, <2>2 DEF Marks
<1>10. CollectedExactly'
  BY <1>1, <1>2, <1>4 DEF HeapInv, CollectedExactly
<1> QED BY <1>5, <1>6, <1>7, <1>8, <1>9, <1>10 DEF HeapInv

\* abce_init: the dynamic scope is there, counted for the register and the cache.
LEMMA HeapStart == Init => HeapInv
<1> SUFFICES ASSUME Init PROVE HeapInv
  OBVIOUS
<1>1. /\ \A o \in Obj : kind[o] = IF o = DynScope THEN "scope" ELSE "free"
      /\ \A o \in Obj : kids[o] = <<>>
      /\ \A o \in Obj : refcnt[o] = IF o = DynScope THEN 2 ELSE 0
      /\ \A o \in Obj : locidx[o] = IF o = DynScope THEN 1 ELSE 0
      /\ tab = <<DynScope>> /\ scratch = <<>> /\ cap = InitCap
      /\ stack = <<>> /\ cstack = <<>> /\ cache = <<DynScope>>
      /\ dynscope = DynScope /\ errmb = Nil
      /\ pc = "run" /\ op = "none" /\ want = "none" /\ hand = Nil
      /\ drops = <<>> /\ dying = Nil /\ dn = <<>>
      /\ gray = {} /\ gci = 1
  BY DEF Init
<1>2. TypeOK
  BY TypeInit DEF TypeInv
<1>3. Objects = {DynScope} /\ Known = {DynScope, Nil} /\ DynScope \in Obj /\ DynScope # Nil
  BY <1>1, HeapAssumption DEF Objects, Known
<1>4. \A o \in Obj : o # Nil
  BY HeapAssumption
<1>5. Shape
  BY <1>1, <1>4 DEF Shape
<1>6. Placed
  <2>1. \A o : (InTable(o) <=> o = DynScope) /\ ~InScratch(o)
    BY <1>1 DEF InTable, InScratch
  <2> QED BY <1>1, <1>3, <1>4, <2>1 DEF Placed
<1>7. Fits
  BY <1>1, HeapAssumption DEF Fits
<1>8. Phases
  BY <1>1 DEF Phases
<1>9. HeldKnown /\ KidsKnown
  <2>1. <<>> \in Seq(Known)
    OBVIOUS
  <2>2. <<DynScope>> \in Seq(Known)
    BY <1>3
  <2>3. \A o \in Obj : kids[o] \in Seq(Known)
    BY <1>1, <2>1
  <2> QED BY <1>1, <1>3, <2>1, <2>2, <2>3 DEF HeldKnown, Held, KidsKnown
<1>10. Pinned
  BY <1>1 DEF Pinned
<1>11. CountsExact
  <2> DEFINE o == DynScope
  <2>1. KidCount(Obj, o) = 0
    <3>1. ASSUME NEW p \in Obj PROVE kids[p] \in Seq(Ref) /\ Occurrences(kids[p], o) = 0
      <4>1. kids[p] = <<>>
        BY <1>1
      <4>2. <<>> \in Seq(Ref)
        OBVIOUS
      <4>3. Occurrences(<<>>, o) = 0
        BY OccurrencesEmpty
      <4> QED BY <4>1, <4>2, <4>3
    <3> QED BY <3>1, HeapAssumption, SlotsNone DEF KidCount
  <2>2. /\ Occurrences(stack, o) = 0 /\ Occurrences(cstack, o) = 0
        /\ Occurrences(drops, o) = 0 /\ Occurrences(dn, o) = 0
    BY <1>1, OccurrencesEmpty
  <2>3. One(o, o) = 1 /\ One(errmb, o) = 0
    BY <1>1, <1>3 DEF One
  <2>4. Occurrences(cache, o) = 1
    BY <1>1, <2>3, SingleCounts
  <2>5. Occurrences(<<dynscope, errmb>>, o) = 1
    <3>1. Occurrences(<<dynscope, errmb>>, o) = One(dynscope, o) + One(errmb, o)
      BY PairCounts
    <3> QED BY <1>1, <2>3, <3>1
  <2>6. CountFrom(Obj, o) = KidCount(Obj, o) + (Occurrences(stack, o) + Occurrences(cstack, o)
          + Occurrences(cache, o) + Occurrences(<<dynscope, errmb>>, o)
          + Occurrences(drops, o) + Occurrences(dn, o))
    BY Zenon DEF CountFrom, RootCount
  <2>7. CountFrom(Obj, o) = 2 /\ refcnt[o] = 2
    BY <1>1, <1>3, <2>1, <2>2, <2>4, <2>5, <2>6
  <2> QED BY <1>1, <1>3, <2>7 DEF CountsExact
<1>12. Marks /\ CollectedExactly
  BY <1>1 DEF Marks, CollectedExactly
<1> QED BY <1>5, <1>6, <1>7, <1>8, <1>9, <1>10, <1>11, <1>12 DEF HeapInv


\* The program is never so short of memory that freeing storage which was never
\* there runs the collector: none is begun inside a cascade or a sweep.
Roomy == ret = <<>>

LEMMA RoomyStep ==
  ASSUME "tight" \notin Features
  PROVE  Roomy /\ [Next]_vars => Roomy' /\ Returns /\ ~Inside
<1> SUFFICES ASSUME Roomy, [Next]_vars PROVE Roomy' /\ Returns /\ ~Inside
  OBVIOUS
<1>1. Returns
  BY DEF Roomy, Returns
<1>2. ~Inside
  BY DEF Inside, FreeBareArray, DropBareKid, DropBareNext, SweepBare, UnmarkInner, Tight, Roomy
<1> SUFFICES Roomy'
  BY <1>1, <1>2
<1>3. CASE Handler
  BY <1>3 DEF Handler, PushNil, Pop, PushStack, PushFromCache, ReplaceTop, GetScopeDyn, SetStack,
     ExchangeTop, ListGet, ListSet, ListPop, ListPopOverflow, ScopeNew, AppendRoom, AppendFull,
     TypeError, PushNew, Begin, gcl, Roomy
<1>4. CASE Api
  BY <1>4 DEF Api, PushC, CPop, ErrFree, AbceFree, CPushCreate, Begin, gcl, Roomy
<1>5. CASE Alloc
  BY <1>5 DEF Alloc, GcBegin, NoMem, AllocArea, AllocStorage, StorageFails, GrowAppend, GrowFail,
     CreateDone, NewDone, CreateOverflow, ScopeDone, ScopeOverflow, MadeScope, Made, gcl, Roomy
<1>6. CASE Cascade
  BY <1>6 DEF Cascade, DropNext, PopScratch, DropKid, FreeDying, DropDone, gcl, Roomy
<1>7. CASE Collect
  BY <1>7 DEF Collect, MarkRoots, MarkKids, MarkDone, GcRefDn, GcRefDnDone, SweepMarked, SweepFree,
     Unmark, Roomy
<1>8. CASE UNCHANGED vars
  BY <1>8 DEF vars, gcl, Roomy
<1> QED BY <1>2, <1>3, <1>4, <1>5, <1>6, <1>7, <1>8 DEF Next

\* Every step preserves the invariant.
LEMMA HeapStep ==
  ASSUME "tight" \notin Features
  PROVE  TypeInv /\ HeapInv /\ Roomy /\ [Next]_vars => TypeInv' /\ HeapInv' /\ Roomy'
<1> SUFFICES ASSUME TypeInv, HeapInv, Roomy, [Next]_vars PROVE TypeInv' /\ HeapInv' /\ Roomy'
  OBVIOUS
<1>r. Roomy' /\ Returns /\ ~Inside
  BY RoomyStep
<1>1. TypeInv'
  BY <1>r, TypeStep
<1> SUFFICES HeapInv'
  BY <1>r, <1>1
<1>2. CASE Handler
  <2>1. CASE PushNil
    BY <1>1, <2>1, PushNilSafe
  <2>2. CASE Pop
    BY <1>1, <2>2, PopSafe
  <2>3. CASE GetScopeDyn
    BY <1>1, <2>3, GetScopeDynSafe
  <2>4. CASE SetStack
    BY <1>1, <2>4, SetStackSafe
  <2>5. CASE ExchangeTop
    BY <1>1, <2>5, ExchangeTopSafe
  <2>6. CASE ListGet
    BY <1>1, <2>6, ListGetSafe
  <2>7. CASE ListSet
    BY <1>1, <2>7, ListSetSafe
  <2>8. CASE ListPop
    BY <1>1, <2>8, ListPopSafe
  <2>9. CASE ListPopOverflow
    BY <1>1, <2>9, ListPopOverflowSafe
  <2>10. CASE AppendRoom
    BY <1>1, <2>10, AppendRoomSafe
  <2>11. CASE PushStack
    <3>1. PICK a \in 1 .. N - 1 : ReplaceTop(stack[a])
      BY <2>11 DEF PushStack
    <3>2. pc = "run"
      BY <3>1 DEF ReplaceTop, Engine, Idle
    <3>3. stack[a] \in Known
      BY <3>2, Operands
    <3> QED BY <1>1, <3>1, <3>3, ReplaceTopSafe
  <2>12. CASE PushFromCache
    <3>1. PICK i \in 1 .. Len(cache) : ReplaceTop(cache[i])
      BY <2>12 DEF PushFromCache
    <3>2. pc = "run"
      BY <3>1 DEF ReplaceTop, Engine, Idle
    <3>3. cache[i] \in Known
      BY <3>2, Operands
    <3> QED BY <1>1, <3>1, <3>3, ReplaceTopSafe
  <2>13. CASE ScopeNew
    BY <1>1, <2>13, BeginSafe DEF ScopeNew, Engine, Idle
  <2>14. CASE AppendFull
    BY <1>1, <2>14, BeginSafe DEF AppendFull, Appendable, Engine, Idle
  <2>15. ASSUME NEW d \in 1 .. 3, TypeError(d) PROVE HeapInv'
    BY <1>1, <2>15, TypeErrorSafe
  <2>16. ASSUME NEW k \in {"leaf", "array"}, PushNew(k) PROVE HeapInv'
    BY <1>1, <2>16, BeginSafe DEF PushNew, Engine, Idle
  <2> QED BY <1>2, <2>1, <2>2, <2>3, <2>4, <2>5, <2>6, <2>7, <2>8, <2>9, <2>10, <2>11, <2>12, <2>13, <2>14, <2>15, <2>16 DEF Handler
<1>3. CASE Api
  <2>1. CASE PushC
    BY <1>1, <2>1, PushCSafe
  <2>2. CASE CPop
    BY <1>1, <2>2, CPopSafe
  <2>3. CASE ErrFree
    BY <1>1, <2>3, ErrFreeSafe
  <2>4. CASE AbceFree
    BY <1>1, <2>4, AbceFreeSafe
  <2>5. ASSUME NEW k \in {"leaf", "array"}, CPushCreate(k) PROVE HeapInv'
    BY <1>1, <2>5, BeginSafe DEF CPushCreate, Idle
  <2> QED BY <1>3, <2>1, <2>2, <2>3, <2>4, <2>5 DEF Api
<1>4. CASE Alloc
  <2>1. CASE GcBegin
    BY <1>1, <2>1, GcBeginSafe
  <2>2. CASE NoMem
    BY <1>1, <2>2, NoMemSafe
  <2>3. CASE AllocArea
    BY <1>1, <2>3, AllocAreaSafe
  <2>4. CASE AllocStorage
    BY <1>1, <2>4, AllocStorageSafe
  <2>5. CASE GrowAppend
    BY <1>1, <2>5, GrowAppendSafe
  <2>6. CASE GrowFail
    BY <1>1, <2>6, GrowFailSafe
  <2>7. CASE CreateDone
    BY <1>1, <2>7, CreateDoneSafe
  <2>8. CASE NewDone
    BY <1>1, <2>8, NewDoneSafe
  <2>9. CASE CreateOverflow
    BY <1>1, <2>9, CreateOverflowSafe
  <2>10. CASE ScopeDone
    BY <1>1, <2>10, ScopeDoneSafe
  <2>11. CASE ScopeOverflow
    BY <1>1, <2>11, ScopeOverflowSafe
  <2>12. CASE StorageFails
    BY <1>1, <2>12, StorageFailsSafe
  <2> QED BY <1>4, <2>1, <2>2, <2>3, <2>4, <2>5, <2>6, <2>7, <2>8, <2>9, <2>10, <2>11, <2>12 DEF Alloc
<1>5. CASE Cascade
  <2>1. CASE DropNext
    BY <1>1, <2>1, DropNextSafe
  <2>2. CASE PopScratch
    BY <1>1, <2>2, PopScratchSafe
  <2>3. CASE DropKid
    BY <1>1, <2>3, DropKidSafe
  <2>4. CASE FreeDying
    BY <1>1, <2>4, FreeDyingSafe
  <2>5. CASE DropDone
    BY <1>1, <2>5, DropFinished
  <2> QED BY <1>5, <2>1, <2>2, <2>3, <2>4, <2>5 DEF Cascade
<1>6. CASE Collect
  <2>1. CASE MarkRoots
    BY <1>1, <2>1, MarkRootsSafe
  <2>2. CASE MarkKids
    BY <1>1, <2>2, MarkKidsSafe
  <2>3. CASE MarkDone
    BY <1>1, <2>3, MarkDoneSafe
  <2>4. CASE GcRefDn
    BY <1>1, <2>4, GcRefDnSafe
  <2>5. CASE GcRefDnDone
    BY <1>1, <2>5, GcRefDnDoneSafe
  <2>6. CASE SweepMarked
    BY <1>1, <2>6, SweepMarkedSafe
  <2>7. CASE SweepFree
    BY <1>1, <2>7, SweepFreeSafe
  <2>8. CASE Unmark
    BY <1>1, <2>8, UnmarkSafe
  <2> QED BY <1>6, <2>1, <2>2, <2>3, <2>4, <2>5, <2>6, <2>7, <2>8 DEF Collect
<1>7. CASE UNCHANGED vars
  BY <1>7, HeapStutter
<1> QED BY <1>r, <1>1, <1>2, <1>3, <1>4, <1>5, <1>6, <1>7 DEF Next

\* Counts, table, scratch area and marks are in step at every point of every
\* handler, cascade and collection, for any set of addresses and any bounds.
THEOREM HeapInvariance ==
  ASSUME "tight" \notin Features
  PROVE  Spec => [](TypeInv /\ HeapInv /\ Roomy)
<1>1. Init => TypeInv /\ HeapInv /\ Roomy
  <2>1. Init => Roomy
    BY DEF Init, Roomy
  <2> QED BY <2>1, TypeInit, HeapStart
<1>2. TypeInv /\ HeapInv /\ Roomy /\ [Next]_vars => (TypeInv /\ HeapInv /\ Roomy)'
  BY HeapStep
<1> QED BY <1>1, <1>2, PTL DEF Spec

-----------------------------------------------------------------------------
(* What the invariant says of the properties of the model.                 *)

LEMMA InvExplained == TypeInv /\ HeapInv => RefcntExplained
<1> SUFFICES ASSUME TypeInv, HeapInv, pc \notin {"refdn", "sweep", "down"}, NEW o \in Objects
             PROVE  refcnt[o] = References(o)
  BY DEF RefcntExplained
<1>1. refcnt[o] = CountFrom(Obj, o) /\ o \in Obj
  BY KnownIsRef DEF HeapInv, CountsExact
<1>2. KidSlots(o) = SlotsIn(kids, Obj, o)
  BY DEF KidSlots, SlotsIn
<1> DEFINE k == Cardinality(SlotsIn(kids, Obj, o))
           a == Occurrences(stack, o)
           b == Occurrences(cstack, o)
           c == Occurrences(cache, o)
           d == Occurrences(<<dynscope, errmb>>, o)
           e == Occurrences(drops, o)
           f == Occurrences(dn, o)
<1>3. CountFrom(Obj, o) = k + (a + b + c + d + e + f)
  BY Zenon DEF CountFrom, KidCount, RootCount
<1>4. References(o) = k + a + b + c + d + e + f
  BY <1>2, Zenon DEF References
<1>5. /\ k \in Nat /\ a \in Nat /\ b \in Nat /\ c \in Nat /\ d \in Nat /\ e \in Nat
      /\ f \in Nat
  BY <1>1, CountTypes DEF TypeInv, KidCount
<1> HIDE DEF k, a, b, c, d, e, f
<1> QED BY <1>1, <1>3, <1>4, <1>5

LEMMA InvTable == HeapInv => TableConsistent
BY DEF HeapInv, Placed, TableConsistent, Collecting

LEMMA InvScratch == HeapInv => ScratchFits
BY DEF HeapInv, Fits, ScratchFits

LEMMA InvPlaced == TypeInv /\ HeapInv => PlacedOnce
<1> SUFFICES ASSUME TypeInv, HeapInv, NEW o \in Objects
             PROVE  Occurrences(tab, o) + Occurrences(scratch, o) + Occurrences(<<dying>>, o) = 1
  BY DEF PlacedOnce
<1>1. tab \in Seq(Obj) /\ scratch \in Seq(Obj) /\ o \in Obj
  BY KnownIsRef DEF TypeInv, TypeOK, HeapOK
<1>2. Occurrences(tab, o) = IF InTable(o) THEN 1 ELSE 0
  BY <1>1, OccurrencesOnce DEF HeapInv, Placed, InTable
<1>3. Occurrences(scratch, o) = IF InScratch(o) THEN 1 ELSE 0
  BY <1>1, OccurrencesOnce DEF HeapInv, Placed, InScratch
<1>4. Occurrences(<<dying>>, o) = IF o = dying THEN 1 ELSE 0
  BY SingleCounts DEF One
<1>5. /\ InTable(o) \/ InScratch(o) \/ o = dying
      /\ InTable(o) => ~InScratch(o) /\ o # dying
      /\ InScratch(o) => o # dying
  BY <1>1 DEF HeapInv, Placed
<1> QED BY <1>2, <1>3, <1>4, <1>5

\* The range of a sequence of references.
LEMMA RangeIn ==
  ASSUME NEW S, NEW s \in Seq(S) PROVE Range(s) \subseteq S
BY LenProperties, ElementOfSeq DEF Range

LEMMA InvDangling == TypeInv /\ HeapInv => NoDangling
<1> SUFFICES ASSUME TypeInv, HeapInv PROVE NoDangling
  OBVIOUS
<1>1. RootSet \cup Range(drops) \cup Range(dn) \subseteq Known
  <2>1. RootSet \subseteq Known
    BY RootSetKnown DEF Known
  <2>2. drops \in Seq(Known) /\ dn \in Seq(Known)
    BY DEF HeapInv, HeldKnown, Held
  <2>3. Range(drops) \subseteq Known /\ Range(dn) \subseteq Known
    BY <2>2, RangeIn
  <2> QED BY <2>1, <2>3
<1>2. ASSUME NEW o \in Objects, pc # "down", pc = "sweep" => Marked(o)
      PROVE  Range(kids[o]) \subseteq Known
  <2>1. CASE pc = "sweep"
    <3>1. o \in MarkedObjects
      BY <1>2, <2>1 DEF MarkedObjects
    <3>2. kids[o] \in Seq(KnownMarked)
      BY <2>1, <3>1 DEF HeapInv, Marks
    <3>3. KnownMarked \subseteq Known
      BY DEF KnownMarked, Known, MarkedObjects
    <3> QED BY <3>2, <3>3, RangeIn
  <2>2. CASE pc # "sweep"
    <3>1. kids[o] \in Seq(Known)
      BY <1>2, <2>2, KnownIsRef DEF HeapInv, KidsKnown
    <3> QED BY <3>1, RangeIn
  <2> QED BY <2>1, <2>2
<1> QED BY <1>1, <1>2 DEF NoDangling, Known

\* A reference that is about to be dropped is counted.
LEMMA TargetCounted ==
  ASSUME TypeInv, HeapInv, pc = "drop", Target # Nil
  PROVE  refcnt[Target] # 0
<1>1. drops \in Seq(Known) /\ dn \in Seq(Known)
  BY DEF HeapInv, HeldKnown, Held
<1> DEFINE o == Target
<1>2. /\ o \in Objects
      /\ \/ o = Head(dn) /\ dn # <<>>
         \/ o = Head(drops) /\ drops # <<>>
  <2>1. CASE dn # <<>>
    BY <1>1, <2>1, HeadTailProperties DEF Target, Known
  <2>2. CASE dn = <<>>
    <3>1. o = Head(drops) /\ drops # <<>>
      BY <2>2 DEF Target
    <3> QED BY <1>1, <3>1, HeadTailProperties DEF Known
  <2> QED BY <2>1, <2>2
<1> HIDE DEF o
<1>3. One(o, o) = 1
  BY DEF One
<1>4. o \in Obj /\ refcnt[o] = CountFrom(Obj, o)
  BY <1>2, KnownIsRef DEF HeapInv, CountsExact
<1>5. /\ KidCount(Obj, o) \in Nat
      /\ Occurrences(stack, o) \in Nat /\ Occurrences(cstack, o) \in Nat
      /\ Occurrences(cache, o) \in Nat /\ Occurrences(<<dynscope, errmb>>, o) \in Nat
      /\ Occurrences(drops, o) \in Nat /\ Occurrences(dn, o) \in Nat
  BY <1>4, CountTypes DEF TypeInv
<1>6. Occurrences(dn, o) # 0 \/ Occurrences(drops, o) # 0
  <2>1. ASSUME NEW s \in Seq(Known), s # <<>>, o = Head(s) PROVE Occurrences(s, o) # 0
    <3>1. Occurrences(s, o) = Occurrences(Tail(s), o) + 1 /\ Tail(s) \in Seq(Known)
      BY <1>3, <2>1, TailCounts
    <3>2. Occurrences(Tail(s), o) \in Nat
      BY <3>1, OccurrencesType
    <3> QED BY <3>1, <3>2
  <2> QED BY <1>1, <1>2, <2>1
<1> DEFINE k == KidCount(Obj, o)
           a == Occurrences(stack, o)
           b == Occurrences(cstack, o)
           c == Occurrences(cache, o)
           d == Occurrences(<<dynscope, errmb>>, o)
           e == Occurrences(drops, o)
           f == Occurrences(dn, o)
<1>7. CountFrom(Obj, o) = k + (a + b + c + d + e + f)
  BY Zenon DEF CountFrom, RootCount
<1> HIDE DEF k, a, b, c, d, e, f
<1>t. /\ k \in Nat /\ a \in Nat /\ b \in Nat /\ c \in Nat /\ d \in Nat
      /\ e \in Nat /\ f \in Nat /\ (e # 0 \/ f # 0)
  BY <1>5, <1>6 DEF k, a, b, c, d, e, f
<1> DEFINE m == a + b + c + d
<1>8. m \in Nat
  BY <1>t
<1> HIDE DEF m
<1>9. k + (m + e + f) # 0
  BY <1>t, <1>8
<1>10. CountFrom(Obj, o) # 0
  BY <1>7, <1>9 DEF m
<1> QED BY <1>4, <1>10 DEF o

\* The references of an unmarked object whose turn it is are counted.
LEMMA TurnCounted ==
  ASSUME TypeInv, HeapInv, pc = "refdn", gci <= Len(tab), Unmarked(tab[gci]), NEW o \in Obj
  PROVE  refcnt[o] >= Occurrences(kids[tab[gci]], o)
<1> DEFINE q == tab[gci]
<1>1. /\ gci \in DOMAIN tab /\ q \in Obj /\ refcnt[o] \in Nat
      /\ DOMAIN tab = 1 .. Len(tab) /\ Len(tab) \in Nat
  <2>1. tab \in Seq(Obj) /\ refcnt \in [Obj -> Nat] /\ gci \in Nat \ {0}
    BY DEF TypeInv, TypeOK, HeapOK, ControlOK
  <2>2. gci \in DOMAIN tab
    BY <2>1
  <2> QED BY <2>1, <2>2
<1>2. \A i, j \in DOMAIN tab : tab[i] = tab[j] => i = j
  BY DEF HeapInv, Placed
<1>3. q \in Obj \ Done
  BY <1>1, <1>2 DEF Done
<1> HIDE DEF q
<1>4. CASE o \in Objects
  <2> DEFINE R == Obj \ Done
  <2>1. refcnt[o] = KidCount(R, o) + RootCount(o)
    BY <1>4 DEF HeapInv, CountsExact, CountFrom
  <2>2. R \in SUBSET Obj /\ q \in R
    BY <1>3
  <2> HIDE DEF R
  <2>3. /\ KidCount(R, o) = Occurrences(kids[q], o) + KidCount(R \ {q}, o)
        /\ Occurrences(kids[q], o) \in Nat /\ KidCount(R \ {q}, o) \in Nat
    BY <2>2, OneLess
  <2>4. RootCount(o) \in Nat
    BY CountTypes DEF TypeInv
  <2> DEFINE k == KidCount(R, o)
             k1 == KidCount(R \ {q}, o)
             c == Occurrences(kids[q], o)
             r == RootCount(o)
  <2> HIDE DEF k, k1, c, r
  <2>5. k + r >= c
    BY <2>3, <2>4 DEF k, k1, c, r
  <2> QED BY <2>1, <2>5 DEF k, c, r, q
<1>5. CASE o \notin Objects
  <2>1. kids[q] \in Seq(Known)
    BY <1>1 DEF HeapInv, KidsKnown
  <2>2. o \notin Known
    BY <1>5, HeapAssumption DEF Known
  <2>3. Occurrences(kids[q], o) = 0
    BY <2>1, <2>2, Absent
  <2> QED BY <1>1, <2>3 DEF q
<1> QED BY <1>4, <1>5

\* Nothing that counts refers to an unmarked object of the table.
LEMMA SweptUncounted ==
  ASSUME TypeInv, HeapInv, pc = "sweep", gci <= Len(tab), Unmarked(tab[gci])
  PROVE  refcnt[tab[gci]] = 0 /\ locidx[tab[gci]] = gci
<1> DEFINE q == tab[gci]
<1>1. gci \in DOMAIN tab /\ q \in Obj
  BY DEF TypeInv, TypeOK, HeapOK, ControlOK
<1>2. locidx[q] = gci
  BY <1>1 DEF HeapInv, Placed, Unmarked
<1>3. InTable(q)
  BY <1>1 DEF InTable
<1>4. q \in Objects
  BY <1>1, <1>3 DEF HeapInv, Placed
<1>5. ~Marked(q)
  BY DEF Marked, Unmarked
<1> HIDE DEF q
<1>6. q \notin KnownMarked
  BY <1>1, <1>5, HeapAssumption DEF KnownMarked, MarkedObjects
<1>7. /\ RootSet \subseteq MarkedObjects
      /\ \A o \in MarkedObjects : kids[o] \in Seq(KnownMarked)
  BY DEF HeapInv, Marks
<1>8. Held(KnownMarked)
  <2>1. stack \in Seq(Known) /\ cstack \in Seq(Known) /\ cache \in Seq(Known)
    BY DEF HeapInv, HeldKnown, Held
  <2>2. /\ \A i \in DOMAIN stack : stack[i] \in KnownMarked
        /\ \A i \in DOMAIN cstack : cstack[i] \in KnownMarked
        /\ \A i \in DOMAIN cache : cache[i] \in KnownMarked
        /\ dynscope \in KnownMarked /\ errmb \in KnownMarked
    BY <1>7, RootSetKnown DEF KnownMarked
  <2>3. stack \in Seq(KnownMarked) /\ cstack \in Seq(KnownMarked) /\ cache \in Seq(KnownMarked)
    BY <2>1, <2>2, SeqInto
  <2>4. drops = <<>> /\ dn = <<>>
    BY DEF HeapInv, Phases
  <2>5. drops \in Seq(KnownMarked) /\ dn \in Seq(KnownMarked)
    BY <2>4
  <2> QED BY <2>2, <2>3, <2>5 DEF Held
<1>9. KidCount(MarkedObjects, q) = 0
  <2>1. IsFiniteSet(MarkedObjects)
    <3>1. MarkedObjects \subseteq Obj
      BY KnownIsRef DEF MarkedObjects
    <3> QED BY <3>1, HeapAssumption, FS_Subset
  <2>2. \A p \in MarkedObjects : Occurrences(kids[p], q) = 0
    BY <1>6, <1>7, Absent
  <2> QED BY <1>7, <2>1, <2>2, SlotsNone DEF KidCount
<1>10. /\ Occurrences(stack, q) = 0 /\ Occurrences(cstack, q) = 0
       /\ Occurrences(cache, q) = 0
       /\ Occurrences(drops, q) = 0 /\ Occurrences(dn, q) = 0
  BY <1>6, <1>8, Absent DEF Held
<1>11. Occurrences(<<dynscope, errmb>>, q) = 0
  <2>1. One(dynscope, q) = 0 /\ One(errmb, q) = 0
    BY <1>6, <1>8 DEF Held, One
  <2>2. Occurrences(<<dynscope, errmb>>, q) = One(dynscope, q) + One(errmb, q)
    BY PairCounts
  <2> QED BY <2>1, <2>2
<1>12. CountFrom(MarkedObjects, q) = KidCount(MarkedObjects, q) + (Occurrences(stack, q)
         + Occurrences(cstack, q) + Occurrences(cache, q) + Occurrences(<<dynscope, errmb>>, q)
         + Occurrences(drops, q) + Occurrences(dn, q))
  BY Zenon DEF CountFrom, RootCount
<1>13. CountFrom(MarkedObjects, q) = 0
  BY <1>9, <1>10, <1>11, <1>12
<1>14. refcnt[q] = CountFrom(MarkedObjects, q)
  BY <1>4 DEF HeapInv, CountsExact
<1> QED BY <1>2, <1>13, <1>14 DEF q

LEMMA InvNoAbort == TypeInv /\ HeapInv => NoAbort
<1> SUFFICES ASSUME TypeInv, HeapInv PROVE ~Aborts
  BY DEF NoAbort
<1>1. ~(Dropping /\ Target # Nil /\ refcnt[Target] = 0)
  BY TargetCounted DEF Dropping
<1>2. ASSUME pc = "refdn", gci <= Len(tab), Unmarked(tab[gci]), NEW o \in Obj
      PROVE  ~(refcnt[o] < Occurrences(kids[tab[gci]], o))
  <2>1. refcnt[o] >= Occurrences(kids[tab[gci]], o)
    BY <1>2, TurnCounted
  <2>2. refcnt[o] \in Nat
    BY DEF TypeInv, TypeOK, HeapOK
  <2>3. gci \in DOMAIN tab /\ tab[gci] \in Obj
    BY <1>2 DEF TypeInv, TypeOK, HeapOK, ControlOK
  <2>4. kids[tab[gci]] \in Seq(Ref)
    BY <2>3 DEF TypeInv, TypeOK, HeapOK
  <2>5. Occurrences(kids[tab[gci]], o) \in Nat
    BY <2>4, OccurrencesType
  <2> QED BY <2>1, <2>2, <2>5
<1>3. ASSUME pc = "sweep", gci <= Len(tab), Unmarked(tab[gci])
      PROVE  ~(refcnt[tab[gci]] # 0 \/ locidx[tab[gci]] # gci)
  BY <1>3, SweptUncounted
<1> QED BY <1>1, <1>2, <1>3 DEF Aborts

LEMMA InvCollected == HeapInv => CollectedExactly
BY DEF HeapInv

\* As long as no collection is begun inside a cascade or a sweep, no sequence
\* of handlers, cascades and collections, of any length and over any set of
\* addresses, makes the memory manager call abort().  The hypothesis cannot be
\* dropped: where memory is tight freeing the storage that an array or a buffer
\* never got begins one, and the run heap_tight shows the abort.
THEOREM NeverAborts ==
  ASSUME "tight" \notin Features
  PROVE  Spec => []NoAbort
<1> QED BY HeapInvariance, InvNoAbort, PTL

\* Outside the loops of the collector every count is the number of places that
\* refer to the object, those a running cascade still holds included.
THEOREM CountsExplained ==
  ASSUME "tight" \notin Features
  PROVE  Spec => []RefcntExplained
<1> QED BY HeapInvariance, InvExplained, PTL

\* An object of the table knows its index through every swap-removal, unless
\* the collector has marked it.
THEOREM TableStaysConsistent ==
  ASSUME "tight" \notin Features
  PROVE  Spec => []TableConsistent
<1> QED BY HeapInvariance, InvTable, PTL

\* The scratch area never meets the table, however deep a cascade goes and
\* whenever the table grows.
THEOREM ScratchStaysApart ==
  ASSUME "tight" \notin Features
  PROVE  Spec => []ScratchFits
<1> QED BY HeapInvariance, InvScratch, PTL

\* Every object is once in the table, or once in the scratch area, or in the
\* hands of the cascade that tears it down.
THEOREM EveryObjectPlaced ==
  ASSUME "tight" \notin Features
  PROVE  Spec => []PlacedOnce
<1> QED BY HeapInvariance, InvPlaced, PTL

\* No reference a program can follow leads to freed memory.
THEOREM NeverDangling ==
  ASSUME "tight" \notin Features
  PROVE  Spec => []NoDangling
<1> QED BY HeapInvariance, InvDangling, PTL

\* A finished collection keeps exactly what the program can reach, although the
\* sweep of a scope jumps the index of its loop.
THEOREM CollectionExact ==
  ASSUME "tight" \notin Features
  PROVE  Spec => []CollectedExactly
<1> QED BY HeapInvariance, InvCollected, PTL


-----------------------------------------------------------------------------
(* What abce_free leaves.                                                  *)

Plain == Ref \ {DynScope}

\* A program that makes no scopes has the dynamic scope alone, and only the
\* interpreter and its cache refer to it; so abce_free drops its last reference,
\* the collection at the end meets no scope, and its sweep goes on at the first
\* entry until the table is empty.
ExitInv ==
  /\ op # "scope"
  /\ \A o \in Obj : kind[o] = "scope" => o = DynScope
  /\ stack \in Seq(Plain) /\ cstack \in Seq(Plain) /\ errmb \in Plain /\ dn \in Seq(Plain)
  /\ \A o \in Obj : kids[o] \in Seq(Plain)
  /\ op # "free" => dynscope = DynScope /\ drops \in Seq(Plain)
  /\ op = "free" /\ pc = "drop" /\ InTable(DynScope) => refcnt[DynScope] >= 1
  /\ op = "free" /\ pc # "drop" => kind[DynScope] # "scope"
  /\ op = "free" /\ pc = "sweep" => gci = 1
  /\ AllFreedAtExit

LEMMA PlainRefs ==
  /\ Nil \in Plain /\ Plain \subseteq Ref
  /\ \A o \in Ref : o # DynScope => o \in Plain
  /\ <<>> \in Seq(Plain)
<1>1. <<>> \in Seq(Plain)
  OBVIOUS
<1> QED BY <1>1, HeapAssumption DEF Plain, Ref

LEMMA PlainSlots ==
  ASSUME TypeInv, stack \in Seq(Plain)
  PROVE  /\ N \in Nat /\ N = Len(stack)
         /\ \A d \in 1 .. N : At(d) \in Plain
         /\ \A d \in 0 .. N : Below(d) \in Seq(Plain)
<1>1. N \in Nat /\ N = Len(stack) /\ \A i \in 1 .. N : stack[i] \in Plain
  BY DEF N
<1>2. ASSUME NEW d \in 1 .. N PROVE At(d) \in Plain
  <2>1. N - d + 1 \in 1 .. N
    BY <1>1
  <2> QED BY <1>1, <2>1 DEF At
<1>3. ASSUME NEW d \in 0 .. N PROVE Below(d) \in Seq(Plain)
  <2>1. N - d \in 0 .. N
    BY <1>1
  <2> QED BY <1>1, <2>1 DEF Below
<1> QED BY <1>1, <1>2, <1>3

\* A step before abce_free that does not put the dynamic scope anywhere.
LEMMA PlainStep ==
  ASSUME TypeInv', HeapInv', ExitInv, op # "free", op' \notin {"free", "scope"},
         dynscope' = dynscope, \A o \in Obj : kind'[o] = "scope" => kind[o] = "scope",
         stack' \in Seq(Plain), cstack' \in Seq(Plain), errmb' \in Plain,
         dn' \in Seq(Plain), drops' \in Seq(Plain), \A o \in Obj : kids'[o] \in Seq(Plain)
  PROVE  ExitInv'
<1>1. pc' # "down"
  BY DEF HeapInv, Phases
<1>2. AllFreedAtExit'
  BY <1>1 DEF AllFreedAtExit
<1> QED BY <1>2 DEF ExitInv

\* The same for a step of a handler that leaves kinds and contents alone.
LEMMA PlainRoots ==
  ASSUME TypeInv', HeapInv', ExitInv, op # "free", op' \notin {"free", "scope"},
         UNCHANGED <<kind, kids, dynscope, dn>>,
         stack' \in Seq(Plain), cstack' \in Seq(Plain), errmb' \in Plain, drops' \in Seq(Plain)
  PROVE  ExitInv'
<1>1. dn' \in Seq(Plain) /\ \A o \in Obj : kids'[o] \in Seq(Plain)
  BY DEF ExitInv
<1> QED BY <1>1, PlainStep

\* Handlers that move references between the roots.
LEMMA RootMoves ==
  ASSUME TypeInv, TypeInv', HeapInv', ExitInv, "scope" \notin Features,
         \/ PushNil \/ Pop \/ PushStack \/ PushFromCache \/ GetScopeDyn
         \/ SetStack \/ ExchangeTop \/ \E d \in 1 .. 3 : TypeError(d)
         \/ PushC \/ CPop \/ ErrFree
  PROVE  ExitInv'
<1>1. /\ stack \in Seq(Plain) /\ cstack \in Seq(Plain) /\ errmb \in Plain /\ Nil \in Plain
      /\ op # "free" => drops \in Seq(Plain)
  BY PlainRefs DEF ExitInv
<1>2. /\ N \in Nat /\ N = Len(stack) /\ \A d \in 1 .. N : At(d) \in Plain
      /\ \A d \in 0 .. N : Below(d) \in Seq(Plain)
  BY <1>1, PlainSlots
<1>3. pc = "run" => op = "none"
  BY DEF TypeInv, Progress
<1>4. CASE PushNil
  <2>1. /\ op = "none" /\ op' = op /\ UNCHANGED <<kind, kids, dynscope, dn, cstack, errmb, drops>>
        /\ stack' = Append(stack, Nil)
    BY <1>3, <1>4 DEF PushNil, Engine, Idle, heap, ctl, tear
  <2>2. stack' \in Seq(Plain)
    BY <1>1, <2>1
  <2> QED BY <1>1, <2>1, <2>2, PlainRoots
<1>5. CASE Pop
  <2>1. /\ op = "none" /\ op' = op /\ UNCHANGED <<kind, kids, dynscope, dn, cstack, errmb>>
        /\ stack' = Below(1) /\ drops' = <<At(1)>> /\ N >= 1
    BY <1>3, <1>5 DEF Pop, Engine, Idle, Release, heap, tear
  <2>2. stack' \in Seq(Plain) /\ drops' \in Seq(Plain)
    BY <1>2, <2>1
  <2> QED BY <1>1, <2>1, <2>2, PlainRoots
<1>6. CASE PushStack
  <2>1. PICK a \in 1 .. N - 1 : ReplaceTop(stack[a])
    BY <1>6 DEF PushStack
  <2>2. /\ op = "none" /\ op' = op /\ UNCHANGED <<kind, kids, dynscope, dn, cstack, errmb, drops>>
        /\ stack' = Append(Below(1), stack[a]) /\ N >= 1
    BY <1>3, <2>1 DEF ReplaceTop, Engine, Idle, ctl, tear
  <2>3. Below(1) \in Seq(Plain) /\ stack[a] \in Plain
    BY <1>1, <1>2, <2>2
  <2>4. stack' \in Seq(Plain)
    BY <2>2, <2>3
  <2> QED BY <1>1, <2>2, <2>4, PlainRoots
<1>7. CASE SetStack
  <2>1. PICK a \in 1 .. N :
          LET s == [stack EXCEPT ![a] = At(1)]
          IN  stack' = SubSeq(s, 1, N - 2) /\ drops' = <<stack[a], s[N], s[N - 1]>>
    BY <1>7 DEF SetStack, Release
  <2> DEFINE s == [stack EXCEPT ![a] = At(1)]
  <2>2. /\ op = "none" /\ op' = op /\ UNCHANGED <<kind, kids, dynscope, dn, cstack, errmb>>
        /\ stack' = SubSeq(s, 1, N - 2) /\ drops' = <<stack[a], s[N], s[N - 1]>> /\ N >= 2
    BY <1>3, <1>7, <2>1 DEF SetStack, Engine, Idle, Release, tear
  <2>3. At(1) \in Plain /\ stack[a] \in Plain
    BY <1>1, <1>2, <2>2
  <2>4. s \in Seq(Plain) /\ Len(s) = N
    <3> DEFINE x == At(1)
    <3>1. x \in Plain
      BY <2>3
    <3> HIDE DEF x
    <3>2. [stack EXCEPT ![a] = x] \in Seq(Plain) /\ Len([stack EXCEPT ![a] = x]) = N
      BY <1>1, <1>2, <3>1
    <3> QED BY <3>2 DEF x
  <2> HIDE DEF s
  <2>5. s[N] \in Plain /\ s[N - 1] \in Plain /\ SubSeq(s, 1, N - 2) \in Seq(Plain)
    BY <1>2, <2>2, <2>4
  <2>6. stack' \in Seq(Plain) /\ drops' \in Seq(Plain)
    BY <2>2, <2>3, <2>5
  <2> QED BY <1>1, <2>2, <2>6, PlainRoots
<1>8. CASE ExchangeTop
  <2>1. PICK a \in 1 .. N - 1 :
          stack' = [i \in 1 .. N - 1 |->
                      IF i = a THEN At(2) ELSE IF i = N - 1 THEN stack[a] ELSE stack[i]]
    BY <1>8 DEF ExchangeTop
  <2>2. /\ op = "none" /\ op' = op /\ UNCHANGED <<kind, kids, dynscope, dn, cstack, errmb, drops>>
        /\ N >= 2
    BY <1>3, <1>8 DEF ExchangeTop, Engine, Idle, heap, ctl, tear
  <2>3. At(2) \in Plain /\ N - 1 \in Nat /\ \A i \in 1 .. N - 1 : stack[i] \in Plain
    BY <1>1, <1>2, <2>2
  <2>4. stack' \in Seq(Plain)
    BY <2>1, <2>3
  <2> QED BY <1>1, <2>2, <2>4, PlainRoots
<1>9. ASSUME NEW d \in 1 .. 3, TypeError(d) PROVE ExitInv'
  <2>1. /\ op = "none" /\ op' = op /\ UNCHANGED <<kind, kids, dynscope, dn, cstack, stack, drops>>
        /\ errmb' = At(d) /\ N >= d
    BY <1>3, <1>9 DEF TypeError, Engine, Idle, ctl, tear
  <2>2. errmb' \in Plain
    BY <1>2, <2>1
  <2> QED BY <1>1, <2>1, <2>2, PlainRoots
<1>10. CASE PushC
  <2>1. /\ op = "none" /\ op' = op /\ UNCHANGED <<kind, kids, dynscope, dn, cstack, errmb, drops>>
        /\ stack' = Append(stack, cstack[Len(cstack)]) /\ cstack # <<>>
    BY <1>3, <1>10 DEF PushC, Idle, ctl, tear
  <2>2. cstack[Len(cstack)] \in Plain
    BY <1>1, <2>1
  <2>3. stack' \in Seq(Plain)
    BY <1>1, <2>1, <2>2
  <2> QED BY <1>1, <2>1, <2>3, PlainRoots
<1>11. CASE CPop
  <2>1. /\ op = "none" /\ op' = op /\ UNCHANGED <<kind, kids, dynscope, dn, stack, errmb>>
        /\ cstack' = SubSeq(cstack, 1, Len(cstack) - 1) /\ drops' = <<cstack[Len(cstack)]>>
        /\ cstack # <<>>
    BY <1>3, <1>11 DEF CPop, Idle, Release, heap, tear
  <2>2. cstack[Len(cstack)] \in Plain /\ SubSeq(cstack, 1, Len(cstack) - 1) \in Seq(Plain)
    BY <1>1, <2>1
  <2>3. cstack' \in Seq(Plain) /\ drops' \in Seq(Plain)
    BY <2>1, <2>2
  <2> QED BY <1>1, <2>1, <2>3, PlainRoots
<1>12. CASE ErrFree
  <2>1. /\ op = "none" /\ op' = op /\ UNCHANGED <<kind, kids, dynscope, dn, stack, cstack>>
        /\ errmb' = Nil /\ drops' = <<errmb>>
    BY <1>3, <1>12 DEF ErrFree, Idle, Release, heap, tear
  <2>2. drops' \in Seq(Plain)
    BY <1>1, <2>1
  <2> QED BY <1>1, <2>1, <2>2, PlainRoots
<1>13. ~PushFromCache /\ ~GetScopeDyn
  BY DEF PushFromCache, GetScopeDyn
<1> QED BY <1>4, <1>5, <1>6, <1>7, <1>8, <1>9, <1>10, <1>11, <1>12, <1>13


\* Handlers that change the contents of arrays.
LEMMA ArrayMoves ==
  ASSUME TypeInv, TypeInv', HeapInv, HeapInv', ExitInv,
         ListGet \/ ListSet \/ ListPop \/ ListPopOverflow \/ AppendRoom \/ GrowAppend \/ GrowFail
  PROVE  ExitInv'
<1>1. /\ stack \in Seq(Plain) /\ cstack \in Seq(Plain) /\ errmb \in Plain /\ Nil \in Plain
      /\ dn \in Seq(Plain) /\ kids \in [Obj -> Seq(Ref)] /\ \A o \in Obj : kids[o] \in Seq(Plain)
  BY PlainRefs DEF ExitInv, TypeInv, TypeOK, HeapOK
<1>2. /\ N \in Nat /\ N = Len(stack) /\ \A d \in 1 .. N : At(d) \in Plain
      /\ \A d \in 0 .. N : Below(d) \in Seq(Plain)
  BY <1>1, PlainSlots
<1>3. /\ pc = "run" => op = "none"
      /\ op = "append" => N >= 2
  BY DEF TypeInv, Progress, N
<1>4. \A d \in 1 .. N : At(d) # Nil => At(d) \in Obj /\ kids[At(d)] \in Seq(Plain)
  <2>1. \A x \in Plain : x # Nil => x \in Obj
    BY DEF Plain, Ref
  <2> QED BY <1>1, <1>2, <2>1
<1>5. CASE ListGet
  <2>1. PICK i \in DOMAIN kids[At(2)] : stack' = Append(Below(2), kids[At(2)][i])
    BY <1>5 DEF ListGet
  <2>2. /\ op = "none" /\ op' = op /\ UNCHANGED <<kind, kids, dynscope, dn, cstack, errmb>>
        /\ drops' = <<At(2), At(1)>> /\ N >= 2 /\ At(2) # Nil
    BY <1>3, <1>5 DEF ListGet, IsA, Engine, Idle, Release, tear
  <2>3. At(1) \in Plain /\ At(2) \in Plain /\ kids[At(2)][i] \in Plain /\ Below(2) \in Seq(Plain)
    <3>1. 1 \in 1 .. N /\ 2 \in 1 .. N /\ 2 \in 0 .. N
      BY <1>2, <2>2
    <3>2. kids[At(2)] \in Seq(Plain)
      BY <1>4, <2>2, <3>1
    <3> QED BY <1>2, <2>1, <3>1, <3>2
  <2>4. stack' \in Seq(Plain) /\ drops' \in Seq(Plain)
    BY <2>1, <2>2, <2>3
  <2> QED BY <1>1, <2>2, <2>4, PlainRoots
<1>6. CASE ListSet
  <2> DEFINE q == At(3)
             x == At(1)
  <2>1. PICK i \in DOMAIN kids[q] :
          kids' = [kids EXCEPT ![q][i] = x] /\ drops' = <<kids[q][i], x, At(2), q>>
    BY <1>6 DEF ListSet, Release
  <2>2. /\ op = "none" /\ op' = op /\ UNCHANGED <<kind, dynscope, dn, cstack, errmb>>
        /\ stack' = Below(3) /\ N >= 3 /\ q # Nil
    BY <1>3, <1>6 DEF ListSet, IsA, Engine, Idle, Release, tear
  <2>3. /\ x \in Plain /\ At(2) \in Plain /\ q \in Plain /\ Below(3) \in Seq(Plain)
        /\ q \in Obj /\ kids[q] \in Seq(Plain)
    <3>1. 1 \in 1 .. N /\ 2 \in 1 .. N /\ 3 \in 1 .. N /\ 3 \in 0 .. N
      BY <1>2, <2>2
    <3> QED BY <1>2, <1>4, <2>2, <3>1
  <2> HIDE DEF q, x
  <2>4. \A o \in Obj : kids'[o] \in Seq(Plain)
    <3>1. kids'[q] = [kids[q] EXCEPT ![i] = x] /\ \A o \in Obj : o # q => kids'[o] = kids[o]
      BY <1>1, <2>1, <2>3
    <3>2. [kids[q] EXCEPT ![i] = x] \in Seq(Plain)
      BY <2>3
    <3> QED BY <1>1, <3>1, <3>2
  <2>5. stack' \in Seq(Plain) /\ drops' \in Seq(Plain)
    BY <2>1, <2>2, <2>3
  <2>6. op' \notin {"free", "scope"} /\ op # "free" /\ dynscope' = dynscope
        /\ cstack' \in Seq(Plain) /\ errmb' \in Plain /\ dn' \in Seq(Plain)
        /\ \A o \in Obj : kind'[o] = "scope" => kind[o] = "scope"
    BY <1>1, <2>2
  <2> QED BY <2>4, <2>5, <2>6, PlainStep
<1>7. CASE ListPop
  <2> DEFINE q == At(1)
             y == LastKid(q)
  <2>1. /\ op = "none" /\ op' = op /\ UNCHANGED <<kind, dynscope, dn, cstack, errmb>>
        /\ stack' = Append(Below(1), y) /\ drops' = <<q>> /\ N >= 1 /\ q # Nil
        /\ kids[q] # <<>> /\ kids' = [kids EXCEPT ![q] = SubSeq(@, 1, Len(@) - 1)]
    BY <1>3, <1>7 DEF ListPop, IsA, Engine, Idle, Release, tear
  <2>2. /\ q \in Plain /\ Below(1) \in Seq(Plain) /\ q \in Obj /\ kids[q] \in Seq(Plain)
    <3>1. 1 \in 1 .. N /\ 1 \in 0 .. N
      BY <1>2, <2>1
    <3> QED BY <1>2, <1>4, <2>1, <3>1
  <2>3. y \in Plain /\ SubSeq(kids[q], 1, Len(kids[q]) - 1) \in Seq(Plain)
    <3>1. y = kids[q][Len(kids[q])]
      BY DEF LastKid
    <3> HIDE DEF q, y
    <3> QED BY <2>1, <2>2, <3>1
  <2> HIDE DEF q, y
  <2>4. \A o \in Obj : kids'[o] \in Seq(Plain)
    <3>1. /\ kids'[q] = SubSeq(kids[q], 1, Len(kids[q]) - 1)
          /\ \A o \in Obj : o # q => kids'[o] = kids[o]
      BY <1>1, <2>1, <2>2
    <3> QED BY <1>1, <2>3, <3>1
  <2>5. stack' \in Seq(Plain) /\ drops' \in Seq(Plain)
    BY <2>1, <2>2, <2>3
  <2>6. op' \notin {"free", "scope"} /\ op # "free" /\ dynscope' = dynscope
        /\ cstack' \in Seq(Plain) /\ errmb' \in Plain /\ dn' \in Seq(Plain)
        /\ \A o \in Obj : kind'[o] = "scope" => kind[o] = "scope"
    BY <1>1, <2>1
  <2> QED BY <2>4, <2>5, <2>6, PlainStep
<1>8. CASE ListPopOverflow
  <2>1. /\ op = "none" /\ op' = op /\ UNCHANGED <<kind, kids, dynscope, dn, stack, cstack, drops>>
        /\ errmb' = LastKid(At(1)) /\ N >= 1 /\ At(1) # Nil /\ kids[At(1)] # <<>>
    BY <1>3, <1>8 DEF ListPopOverflow, IsA, Engine, Idle, ctl, tear
  <2>2. kids[At(1)] \in Seq(Plain)
    <3>1. 1 \in 1 .. N
      BY <1>2, <2>1
    <3> QED BY <1>4, <2>1, <3>1
  <2>3. errmb' \in Plain
    BY <2>1, <2>2 DEF LastKid
  <2>4. drops' \in Seq(Plain)
    BY <2>1 DEF ExitInv
  <2> QED BY <1>1, <2>1, <2>3, <2>4, PlainRoots
<1>9. ASSUME StoreItem, N >= 2, At(2) # Nil, op \in {"none", "append"}, op' = "none",
             \A o \in Obj : kind'[o] = "scope" => kind[o] = "scope",
             UNCHANGED <<dynscope, dn, cstack, errmb>>
      PROVE  ExitInv'
  <2> DEFINE q == At(2)
             x == At(1)
  <2>1. /\ stack' = Below(1) /\ drops' = <<x>> /\ kids' = [kids EXCEPT ![q] = Append(@, x)]
    BY <1>9 DEF StoreItem, Release
  <2>2. /\ q \in Plain /\ x \in Plain /\ Below(1) \in Seq(Plain) /\ q \in Obj
        /\ kids[q] \in Seq(Plain)
    <3>1. 1 \in 1 .. N /\ 2 \in 1 .. N /\ 1 \in 0 .. N
      BY <1>2, <1>9
    <3> QED BY <1>2, <1>4, <1>9, <3>1
  <2> HIDE DEF q, x
  <2>3. \A o \in Obj : kids'[o] \in Seq(Plain)
    <3>1. kids'[q] = Append(kids[q], x) /\ \A o \in Obj : o # q => kids'[o] = kids[o]
      BY <1>1, <2>1, <2>2
    <3>2. Append(kids[q], x) \in Seq(Plain)
      BY <2>2
    <3> QED BY <1>1, <3>1, <3>2
  <2>4. stack' \in Seq(Plain) /\ drops' \in Seq(Plain)
    BY <2>1, <2>2
  <2>5. op' \notin {"free", "scope"} /\ op # "free" /\ dynscope' = dynscope
        /\ cstack' \in Seq(Plain) /\ errmb' \in Plain /\ dn' \in Seq(Plain)
        /\ \A o \in Obj : kind'[o] = "scope" => kind[o] = "scope"
    BY <1>1, <1>9
  <2> QED BY <2>3, <2>4, <2>5, PlainStep
<1>10. CASE AppendRoom
  <2>1. /\ StoreItem /\ N >= 2 /\ At(2) # Nil /\ op = "none" /\ op' = "none"
        /\ UNCHANGED <<kind, dynscope, dn, cstack, errmb>>
    BY <1>3, <1>10 DEF AppendRoom, Appendable, IsA, Engine, Idle, tear
  <2> QED BY <1>9, <2>1
<1>11. CASE GrowAppend
  <2>1. /\ StoreItem /\ op = "append" /\ op' = "none"
        /\ UNCHANGED <<dynscope, dn, cstack, errmb>>
        /\ kind' = [kind EXCEPT ![At(2)] = "array"]
    BY <1>11 DEF GrowAppend, Finish, tear
  <2>2. N >= 2 /\ At(2) # Nil
    BY <1>3, <1>11, <2>1 DEF HeapInv, Phases
  <2>3. \A o \in Obj : kind'[o] = "scope" => kind[o] = "scope"
    BY <2>1 DEF TypeInv, TypeOK, HeapOK
  <2> QED BY <1>9, <2>1, <2>2, <2>3
<1>12. CASE GrowFail
  <2>1. /\ op = "append" /\ op' = "none" /\ UNCHANGED <<kind, kids, dynscope, dn, cstack>>
        /\ errmb' = At(2) /\ stack' = Below(1) /\ drops' = <<errmb, At(1)>>
    BY <1>12 DEF GrowFail, Finish, Release, tear
  <2>2. At(1) \in Plain /\ At(2) \in Plain /\ Below(1) \in Seq(Plain)
    <3>1. 1 \in 1 .. N /\ 2 \in 1 .. N /\ 1 \in 0 .. N
      BY <1>2, <1>3, <2>1
    <3> QED BY <1>2, <3>1
  <2>3. stack' \in Seq(Plain) /\ drops' \in Seq(Plain) /\ errmb' \in Plain
    BY <1>1, <2>1, <2>2
  <2> QED BY <1>1, <2>1, <2>3, PlainRoots
<1> QED BY <1>5, <1>6, <1>7, <1>8, <1>10, <1>11, <1>12


\* Steps of the operations that allocate.
LEMMA AllocMoves ==
  ASSUME TypeInv, TypeInv', HeapInv, HeapInv', ExitInv, "scope" \notin Features,
         \/ \E k \in {"leaf", "array"} : CPushCreate(k)
         \/ \E k \in {"leaf", "array"} : PushNew(k)
         \/ ScopeNew \/ AppendFull \/ GcBegin \/ NoMem \/ AllocArea
         \/ AllocStorage \/ StorageFails
         \/ CreateDone \/ NewDone \/ CreateOverflow \/ ScopeDone \/ ScopeOverflow
  PROVE  ExitInv'
<1>1. /\ stack \in Seq(Plain) /\ cstack \in Seq(Plain) /\ errmb \in Plain
      /\ op # "free" => drops \in Seq(Plain)
  BY DEF ExitInv
<1>2. /\ pc = "run" => op = "none"
      /\ pc \in {"alloc", "made", "alloced"} => op \in {"create", "new", "append"}
  BY DEF TypeInv, Progress, HeapInv, Phases, ExitInv, Creating
<1>3. ASSUME UNCHANGED <<kind, kids, dynscope, dn, drops, stack, cstack, errmb>>,
             op # "free", op' \notin {"free", "scope"}
      PROVE  ExitInv'
  BY <1>1, <1>3, PlainRoots
<1>4. ASSUME NEW k \in {"leaf", "array"}, CPushCreate(k) PROVE ExitInv'
  <2>1. /\ UNCHANGED <<kind, kids, dynscope, dn, drops, stack, cstack, errmb>>
        /\ op = "none" /\ op' = "create"
    BY <1>2, <1>4 DEF CPushCreate, Begin, Idle, heap, roots, tear
  <2> QED BY <1>3, <2>1
<1>5. ASSUME NEW k \in {"leaf", "array"}, PushNew(k) PROVE ExitInv'
  <2>1. /\ UNCHANGED <<kind, kids, dynscope, dn, drops, stack, cstack, errmb>>
        /\ op = "none" /\ op' = "new"
    BY <1>2, <1>5 DEF PushNew, Begin, Engine, Idle, heap, roots, tear
  <2> QED BY <1>3, <2>1
<1>6. CASE AppendFull
  <2>1. /\ UNCHANGED <<kind, kids, dynscope, dn, drops, stack, cstack, errmb>>
        /\ op = "none" /\ op' = "append"
    BY <1>2, <1>6 DEF AppendFull, Begin, Engine, Idle, heap, roots, tear
  <2> QED BY <1>3, <2>1
<1>7. CASE GcBegin
  <2>1. /\ UNCHANGED <<kind, kids, dynscope, dn, drops, stack, cstack, errmb>>
        /\ op \in {"create", "new", "append"} /\ op' = op
    BY <1>2, <1>7 DEF GcBegin, heap, roots, ctl, tear
  <2> QED BY <1>3, <2>1
<1>8. CASE NoMem
  <2>1. /\ UNCHANGED <<kind, kids, dynscope, dn, drops, stack, cstack, errmb>>
        /\ op \in {"create", "new", "append"} /\ op' = "none"
    BY <1>2, <1>8 DEF NoMem, Allocating, Finish, roots, tear
  <2> QED BY <1>3, <2>1
<1>9. CASE AllocStorage \/ StorageFails
  <2>1. /\ UNCHANGED <<kind, kids, dynscope, dn, drops, stack, cstack, errmb>>
        /\ op \in {"create", "new", "append"} /\ op' = op
    BY <1>2, <1>9 DEF AllocStorage, StorageFails, Allocating, roots, ctl, tear
  <2> QED BY <1>3, <2>1
<1>10. CASE AllocArea
  <2>1. PICK a \in Free : kind' = [kind EXCEPT ![a] = "raw"]
    BY <1>10 DEF AllocArea
  <2>2. /\ UNCHANGED <<kids, dynscope, dn, drops, stack, cstack, errmb>>
        /\ op \in {"create", "new", "append"} /\ op' = op
    BY <1>2, <1>10 DEF AllocArea, Allocating, roots, tear
  <2>3. \A o \in Obj : kind'[o] = "scope" => kind[o] = "scope"
    BY <2>1 DEF TypeInv, TypeOK, HeapOK
  <2>4. dn' \in Seq(Plain) /\ \A o \in Obj : kids'[o] \in Seq(Plain)
    BY <2>2 DEF ExitInv
  <2> QED BY <1>1, <2>2, <2>3, <2>4, PlainStep
<1>11. ASSUME pc = "made" PROVE hand \in Plain
  <2>1. hand \in Obj /\ hand \notin Known
    BY <1>11, InHand
  <2>2. DynScope \in Known
    BY <1>2, <1>11 DEF ExitInv, HeapInv, HeldKnown, Held
  <2> QED BY <2>1, <2>2 DEF Plain, Ref
<1>12. ASSUME CreateDone \/ NewDone \/ CreateOverflow
       PROVE  /\ \A o \in Obj : kind'[o] = "scope" => kind[o] = "scope"
              /\ hand \in Plain /\ op # "free" /\ op' = "none"
              /\ UNCHANGED <<kids, dynscope, dn>>
              /\ dn' \in Seq(Plain) /\ \A o \in Obj : kids'[o] \in Seq(Plain)
  <2>1. /\ pc = "made" /\ op \in {"create", "new"} /\ kind' = [kind EXCEPT ![hand] = want]
        /\ UNCHANGED <<kids, dynscope, dn>> /\ op' = "none"
    BY <1>12 DEF CreateDone, NewDone, CreateOverflow, Making, Made, Finish, tear
  <2>2. want \in Simple
    BY <2>1 DEF HeapInv, Phases
  <2>3. \A o \in Obj : kind'[o] = "scope" => kind[o] = "scope"
    BY <2>1, <2>2 DEF TypeInv, TypeOK, HeapOK, Simple, Bare
  <2> QED BY <1>11, <2>1, <2>3 DEF ExitInv
<1>13. CASE CreateDone
  <2>1. cstack' = Append(cstack, hand) /\ UNCHANGED <<stack, errmb, drops>>
    BY <1>13 DEF CreateDone
  <2>2. cstack' \in Seq(Plain)
    BY <1>1, <1>12, <1>13, <2>1
  <2> QED BY <1>1, <1>12, <1>13, <2>1, <2>2, PlainStep
<1>14. CASE NewDone
  <2>1. stack' = Append(stack, hand) /\ UNCHANGED <<cstack, errmb, drops>>
    BY <1>14 DEF NewDone
  <2>2. stack' \in Seq(Plain)
    BY <1>1, <1>12, <1>14, <2>1
  <2> QED BY <1>1, <1>12, <1>14, <2>1, <2>2, PlainStep
<1>15. CASE CreateOverflow
  <2>1. errmb' = hand /\ drops' = <<errmb>> /\ UNCHANGED <<stack, cstack>>
    BY <1>15 DEF CreateOverflow, Release
  <2>2. drops' \in Seq(Plain)
    BY <1>1, <2>1
  <2> QED BY <1>1, <1>12, <1>15, <2>1, <2>2, PlainStep
<1>16. ~ScopeNew /\ ~ScopeDone /\ ~ScopeOverflow
  BY DEF ScopeNew, ScopeDone, ScopeOverflow, Making, ExitInv
<1> QED BY <1>4, <1>5, <1>6, <1>7, <1>8, <1>9, <1>10, <1>13, <1>14, <1>15, <1>16

\* What a step of a cascade does to an object, and to the dynamic scope.
KindsKept == \A o \in Obj : kind'[o] = kind[o] \/ kind'[o] = "free"

DynScopeKept ==
  /\ InTable(DynScope)' => InTable(DynScope)
  /\ InTable(DynScope)' /\ refcnt[DynScope] >= 1 => refcnt'[DynScope] >= 1

PlainKids == \A o \in Obj : kids[o] \in Seq(Plain)

LEMMA ExitDrop ==
  ASSUME TypeInv, HeapInv, pc = "drop", NEW x \in Known, RefDn(x)
  PROVE  KindsKept /\ kids' = kids /\ DynScopeKept
<1> USE DEF KindsKept, DynScopeKept
<1>1. /\ DynScope \in Obj /\ refcnt \in [Obj -> Nat] /\ x \in Ref
      /\ kind \in [Obj -> {"free", "raw", "leaf", "bare_leaf", "array", "bare_array", "scope"}]
  BY HeapAssumption, KnownIsRef DEF TypeInv, TypeOK, HeapOK
<1>2. CASE RefDnStatic(x)
  <2>1. UNCHANGED <<kind, kids, refcnt, tab>>
    BY <1>2 DEF RefDnStatic, heap
  <2> QED BY <2>1 DEF InTable
<1>3. CASE RefDnShared(x)
  <2>1. /\ x # Nil /\ refcnt[x] > 1 /\ refcnt' = [refcnt EXCEPT ![x] = @ - 1]
        /\ UNCHANGED <<kind, kids, tab>>
    BY <1>3 DEF RefDnShared
  <2>2. x \in Obj
    BY <1>1, <2>1 DEF Ref
  <2>3. refcnt'[DynScope] = IF x = DynScope THEN refcnt[DynScope] - 1 ELSE refcnt[DynScope]
    BY <1>1, <2>1, <2>2
  <2>4. refcnt[DynScope] >= 1 => refcnt'[DynScope] >= 1
    BY <1>1, <2>1, <2>3
  <2> QED BY <2>1, <2>4 DEF InTable
<1>4. CASE RefDnLast(x)
  <2>1. /\ x # Nil /\ refcnt[x] = 1 /\ refcnt' = [refcnt EXCEPT ![x] = 0]
        /\ tab' = SwapRemove(tab, locidx[x]) /\ locidx' = MovedIndex(x) /\ Retire(x)
        /\ UNCHANGED kids
    BY <1>4 DEF RefDnLast, LastRef
  <2>2. x \in Obj /\ x \in Objects
    BY <1>1, <2>1 DEF Ref, Known
  <2>3. InTable(x)
    <3>1. InTable(x) \/ InScratch(x) \/ x = dying
      BY <2>2 DEF HeapInv, Placed
    <3>2. InScratch(x) \/ x = dying => refcnt[x] = 0
      BY <2>2 DEF HeapInv, Placed
    <3> QED BY <2>1, <3>1, <3>2
  <2>4. \A o \in Obj : InTable(o)' <=> InTable(o) /\ o # x
    BY <2>1, <2>2, <2>3, TableWithout
  <2>5. \A o \in Obj : kind'[o] = kind[o] \/ kind'[o] = "free"
    BY <1>1, <2>1, <2>2 DEF Retire
  <2>6. DynScope # x => refcnt'[DynScope] = refcnt[DynScope]
    BY <1>1, <2>1, <2>2
  <2> QED BY <1>1, <2>1, <2>4, <2>5, <2>6
<1> QED BY <1>2, <1>3, <1>4 DEF RefDn


\* A step of a cascade.
LEMMA ExitCascade ==
  ASSUME ExitInv, pc = "drop", pc' = "drop", UNCHANGED <<roots, op>>,
         KindsKept, PlainKids', dn' \in Seq(Plain), op # "free" => drops' \in Seq(Plain),
         DynScopeKept
  PROVE  ExitInv'
<1>1. UNCHANGED <<stack, cstack, errmb, dynscope>>
  BY DEF roots
<1>2. \A o \in Obj : kind'[o] = "scope" => o = DynScope
  BY DEF ExitInv, KindsKept
<1>3. AllFreedAtExit'
  BY DEF AllFreedAtExit
<1> QED BY <1>1, <1>2, <1>3 DEF ExitInv, DynScopeKept, PlainKids

LEMMA CascadeMoves ==
  ASSUME TypeInv, TypeInv', HeapInv, HeapInv', ExitInv, Cascade
  PROVE  ExitInv'
<1>1. /\ \A o \in Obj : kids[o] \in Seq(Plain)
      /\ dn \in Seq(Plain) /\ drops \in Seq(Known) /\ dn \in Seq(Known)
      /\ scratch \in Seq(Obj) /\ kids \in [Obj -> Seq(Ref)]
      /\ kind \in [Obj -> {"free", "raw", "leaf", "bare_leaf", "array", "bare_array", "scope"}]
      /\ op # "free" => drops \in Seq(Plain)
  BY DEF ExitInv, HeapInv, HeldKnown, Held, TypeInv, TypeOK, HeapOK
<1>plain. PlainKids
  BY <1>1 DEF PlainKids
<1>2. CASE DropNext
  <2>1. /\ pc = "drop" /\ pc' = "drop" /\ UNCHANGED <<roots, op>> /\ dn' = dn /\ drops # <<>>
        /\ RefDn(Head(drops)) /\ drops' = Tail(drops)
    BY <1>2 DEF DropNext, Dropping, tear
  <2>2. Head(drops) \in Known
    BY <1>1, <2>1
  <2>3. KindsKept /\ kids' = kids /\ DynScopeKept
    BY <2>1, <2>2, ExitDrop
  <2>4. op # "free" => drops' \in Seq(Plain)
    BY <1>1, <2>1
  <2>5. dn' \in Seq(Plain)
    BY <1>1, <2>1
  <2>6. PlainKids'
    BY <1>plain, <2>3 DEF PlainKids
  <2> QED BY <2>1, <2>3, <2>4, <2>5, <2>6, ExitCascade
<1>3. CASE DropKid
  <2>1. /\ pc = "drop" /\ pc' = "drop" /\ UNCHANGED <<roots, op>> /\ drops' = drops /\ dn # <<>>
        /\ RefDn(Head(dn)) /\ dn' = Tail(dn)
    BY <1>3 DEF DropKid, Dropping, ctl
  <2>2. Head(dn) \in Known
    BY <1>1, <2>1
  <2>3. KindsKept /\ kids' = kids /\ DynScopeKept
    BY <2>1, <2>2, ExitDrop
  <2>4. dn' \in Seq(Plain)
    BY <1>1, <2>1
  <2>5. op # "free" => drops' \in Seq(Plain)
    BY <1>1, <2>1
  <2>6. PlainKids'
    BY <1>plain, <2>3 DEF PlainKids
  <2> QED BY <2>1, <2>3, <2>4, <2>5, <2>6, ExitCascade
<1>4. CASE PopScratch
  <2>1. /\ pc = "drop" /\ pc' = "drop" /\ UNCHANGED <<roots, op>> /\ drops' = drops
        /\ UNCHANGED <<kind, refcnt, tab>> /\ scratch # <<>> /\ dn' = kids[Head(scratch)]
        /\ kids' = [kids EXCEPT ![Head(scratch)] = <<>>]
    BY <1>4 DEF PopScratch, Dropping, ctl
  <2>2. Head(scratch) \in Obj
    BY <1>1, <2>1
  <2>3. dn' \in Seq(Plain)
    BY <1>1, <2>1, <2>2
  <2>4. PlainKids'
    <3>1. \A o \in Obj : kids'[o] = IF o = Head(scratch) THEN <<>> ELSE kids[o]
      BY <1>1, <2>1, <2>2
    <3> QED BY <1>1, <3>1, PlainRefs DEF PlainKids
  <2>5. KindsKept /\ DynScopeKept
    BY <2>1 DEF InTable, KindsKept, DynScopeKept
  <2>6. op # "free" => drops' \in Seq(Plain)
    BY <1>1, <2>1
  <2> QED BY <2>1, <2>3, <2>4, <2>5, <2>6, ExitCascade
<1>5. CASE FreeDying
  <2>1. /\ pc = "drop" /\ pc' = "drop" /\ UNCHANGED <<roots, op>>
        /\ UNCHANGED <<drops, kids, refcnt, tab, dn>>
        /\ kind' = [kind EXCEPT ![dying] = "free"]
    BY <1>5 DEF FreeDying, Dropping, ctl
  <2>2. KindsKept
    BY <1>1, <2>1 DEF KindsKept
  <2>3. DynScopeKept
    BY <2>1 DEF InTable, DynScopeKept
  <2>4. dn' \in Seq(Plain) /\ (op # "free" => drops' \in Seq(Plain))
    BY <1>1, <2>1
  <2>5. PlainKids'
    BY <1>plain, <2>1 DEF PlainKids
  <2> QED BY <2>1, <2>2, <2>3, <2>4, <2>5, ExitCascade
<1>6. CASE DropDone
  <2>1. /\ pc = "drop" /\ dn = <<>> /\ dying = Nil /\ scratch = <<>> /\ drops = <<>>
        /\ pc' = IF op = "free" THEN "mark" ELSE "run"
        /\ UNCHANGED <<kind, kids, refcnt, tab, stack, cstack, errmb, dynscope, op, dn, drops>>
    BY <1>6 DEF DropDone, Dropping, heap, roots, ctl, tear
  <2>2. ASSUME op = "free" PROVE kind[DynScope] # "scope"
    <3> SUFFICES ASSUME kind[DynScope] = "scope" PROVE FALSE
      OBVIOUS
    <3>1. DynScope \in Obj /\ DynScope \in Objects
      BY HeapAssumption DEF Objects
    <3>2. InTable(DynScope)
      <4>1. ~InScratch(DynScope) /\ DynScope # dying
        BY <2>1, HeapAssumption DEF InScratch
      <4> QED BY <3>1, <4>1 DEF HeapInv, Placed
    <3>3. refcnt[DynScope] >= 1
      BY <2>1, <2>2, <3>2 DEF ExitInv
    <3>4. refcnt[DynScope] = CountFrom(Obj, DynScope)
      BY <2>1, <3>1 DEF HeapInv, CountsExact
    <3>5. KidCount(Obj, DynScope) = 0
      <4>1. \A p \in Obj : Occurrences(kids[p], DynScope) = 0
        BY <1>1, Absent DEF Plain
      <4> QED BY <1>1, <4>1, HeapAssumption, SlotsNone DEF KidCount
    <3>6. RootCount(DynScope) = 0
      <4>1. /\ stack = <<>> /\ cstack = <<>> /\ cache = <<>> /\ dynscope = Nil /\ errmb = Nil
        BY <2>2 DEF HeapInv, Phases
      <4>2. Occurrences(<<>>, DynScope) = 0
        BY OccurrencesEmpty
      <4>3. Occurrences(<<Nil, Nil>>, DynScope) = 0
        <5>1. One(Nil, DynScope) = 0
          BY HeapAssumption DEF One
        <5>2. Occurrences(<<Nil, Nil>>, DynScope) = One(Nil, DynScope) + One(Nil, DynScope)
          BY PairCounts
        <5> QED BY <5>1, <5>2
      <4> QED BY <2>1, <4>1, <4>2, <4>3 DEF RootCount
    <3>7. CountFrom(Obj, DynScope) = 0
      BY <3>5, <3>6 DEF CountFrom
    <3> QED BY <3>3, <3>4, <3>7
  <2>3. AllFreedAtExit'
    BY <2>1 DEF AllFreedAtExit
  <2> QED BY <1>1, <2>1, <2>2, <2>3 DEF ExitInv
<1> QED BY <1>2, <1>3, <1>4, <1>5, <1>6 DEF Cascade

\* abce_free lets go of every root; the dynamic scope is still counted.
LEMMA FreeMoves ==
  ASSUME TypeInv, HeapInv, ExitInv, AbceFree
  PROVE  ExitInv'
<1>1. /\ pc = "run" /\ op = "none" /\ op' = "free" /\ pc' = "drop"
      /\ stack' = <<>> /\ cstack' = <<>> /\ errmb' = Nil
      /\ UNCHANGED <<kind, kids, refcnt, tab, dn>>
  BY DEF AbceFree, Release, Idle, heap, tear, TypeInv, Progress
<1>2. DynScope = dynscope /\ DynScope \in Objects
  BY <1>1, HeapAssumption DEF ExitInv, HeapInv, HeldKnown, Held, Known
<1>3. refcnt[DynScope] >= 1
  <2> DEFINE k == Cardinality(SlotsIn(kids, Obj, DynScope))
             s == Occurrences(stack, DynScope)
             c == Occurrences(cstack, DynScope)
             h == Occurrences(cache, DynScope)
             u == One(dynscope, DynScope)
             v == One(errmb, DynScope)
             d == Occurrences(drops, DynScope)
  <2>1. /\ refcnt[DynScope] = Explained(DynScope) /\ k \in Nat /\ s \in Nat /\ c \in Nat
        /\ h \in Nat /\ v \in Nat /\ d = 0
    BY <1>1, <1>2, QuietAt DEF CountsAt
  <2>2. u = 1
    BY <1>2 DEF One
  <2>3. Explained(DynScope) = k + s + c + h + u + v + d
    BY Zenon DEF Explained
  <2> HIDE DEF k, s, c, h, u, v, d
  <2> QED BY <2>1, <2>2, <2>3
<1>4. AllFreedAtExit'
  BY <1>1 DEF AllFreedAtExit
<1>5. stack' \in Seq(Plain) /\ cstack' \in Seq(Plain) /\ errmb' \in Plain
  BY <1>1, PlainRefs
<1>6. dn' \in Seq(Plain) /\ \A o \in Obj : kids'[o] \in Seq(Plain) /\ (kind'[o] = "scope" => o = DynScope)
  BY <1>1 DEF ExitInv
<1> QED BY <1>1, <1>3, <1>4, <1>5, <1>6 DEF ExitInv

\* Without roots nothing is reachable, so nothing is marked.
LEMMA NothingMarked ==
  ASSUME TypeInv, HeapInv, op = "free", pc \in {"mark", "refdn", "sweep"}
  PROVE  \A o \in Objects : Unmarked(o)
<1>1. RootSet = {}
  <2>1. /\ stack = <<>> /\ cstack = <<>> /\ cache = <<>> /\ dynscope = Nil /\ errmb = Nil
    BY DEF HeapInv, Phases
  <2>2. Range(<<>>) = {}
    BY DEF Range
  <2> QED BY <2>1, <2>2 DEF RootSet
<1>2. Reachable = {}
  <2>1. {} \in SUBSET Obj /\ RootSet \subseteq {} /\ Closed({})
    BY <1>1 DEF Closed
  <2> QED BY <2>1 DEF Reachable
<1>3. MarkedObjects \subseteq Reachable
  BY DEF HeapInv, Marks
<1> QED BY <1>2, <1>3 DEF MarkedObjects, Marked, Unmarked


\* A step of the collector.
LEMMA ExitCollect ==
  ASSUME TypeInv', HeapInv', HeapInv, ExitInv,
         pc \in {"mark", "refdn", "sweep"}, pc' # "drop", UNCHANGED <<roots, ctl, tear>>,
         \A o \in Obj : kind'[o] = kind[o] \/ kind'[o] = "free",
         \A o \in Obj : kids'[o] \in Seq(Plain),
         op = "free" /\ pc' = "sweep" => gci' = 1,
         op = "free" /\ pc' = "down" => tab' = <<>>
  PROVE  ExitInv'
<1>1. UNCHANGED <<stack, cstack, errmb, dynscope, op, drops, dn>>
  BY DEF roots, ctl, tear
<1>2. CASE op # "free"
  <2>1. /\ op' \notin {"free", "scope"} /\ dynscope' = dynscope
        /\ \A o \in Obj : kind'[o] = "scope" => kind[o] = "scope"
        /\ stack' \in Seq(Plain) /\ cstack' \in Seq(Plain) /\ errmb' \in Plain
        /\ dn' \in Seq(Plain) /\ drops' \in Seq(Plain)
    BY <1>1, <1>2 DEF ExitInv
  <2> QED BY <1>2, <2>1, PlainStep
<1>3. CASE op = "free"
  <2>1. kind'[DynScope] # "scope" /\ \A o \in Obj : kind'[o] = "scope" => o = DynScope
    BY <1>3, HeapAssumption DEF ExitInv
  <2>2. AllFreedAtExit'
    BY <1>3 DEF AllFreedAtExit
  <2> QED BY <1>1, <1>3, <2>1, <2>2 DEF ExitInv
<1> QED BY <1>2, <1>3

LEMMA CollectMoves ==
  ASSUME TypeInv, TypeInv', HeapInv, HeapInv', ExitInv, Collect
  PROVE  ExitInv'
<1>1. /\ \A o \in Obj : kids[o] \in Seq(Plain)
      /\ kids \in [Obj -> Seq(Ref)] /\ tab \in Seq(Obj) /\ gci \in Nat \ {0}
      /\ kind \in [Obj -> {"free", "raw", "leaf", "bare_leaf", "array", "bare_array", "scope"}]
  BY DEF ExitInv, TypeInv, TypeOK, HeapOK, ControlOK
<1>2. CASE MarkRoots
  <2>1. pc = "mark" /\ pc' = "mark" /\ UNCHANGED <<roots, ctl, tear, kind, kids>>
    BY <1>2 DEF MarkRoots
  <2> QED BY <1>1, <2>1, ExitCollect
<1>3. CASE MarkKids
  <2>1. pc = "mark" /\ pc' = "mark" /\ UNCHANGED <<roots, ctl, tear, kind, kids>>
    BY <1>3 DEF MarkKids
  <2> QED BY <1>1, <2>1, ExitCollect
<1>4. CASE MarkDone
  <2>1. pc = "mark" /\ pc' = "refdn" /\ UNCHANGED <<roots, ctl, tear, kind, kids>>
    BY <1>4 DEF MarkDone, heap
  <2> QED BY <1>1, <2>1, ExitCollect
<1>5. CASE GcRefDn
  <2>1. pc = "refdn" /\ pc' = "refdn" /\ UNCHANGED <<roots, ctl, tear, kind, kids>>
    BY <1>5 DEF GcRefDn
  <2> QED BY <1>1, <2>1, ExitCollect
<1>6. CASE GcRefDnDone
  <2>1. /\ pc = "refdn" /\ pc' = "sweep" /\ gci' = 1
        /\ UNCHANGED <<roots, ctl, tear, kind, kids>>
    BY <1>6 DEF GcRefDnDone, heap
  <2> QED BY <1>1, <2>1, ExitCollect
<1>7. CASE SweepMarked
  <2>1. /\ pc = "sweep" /\ pc' = "sweep" /\ gci <= Len(tab) /\ Marked(tab[gci])
        /\ UNCHANGED <<roots, ctl, tear, kind, kids>>
    BY <1>7 DEF SweepMarked, heap
  <2>2. op # "free"
    <3>1. gci \in DOMAIN tab /\ tab[gci] \in Obj
      BY <1>1, <2>1
    <3>2. InTable(tab[gci])
      BY <3>1 DEF InTable
    <3>3. tab[gci] \in Objects
      BY <3>1, <3>2 DEF HeapInv, Placed
    <3> QED BY <2>1, <3>3, NothingMarked DEF Marked, Unmarked
  <2> QED BY <1>1, <2>1, <2>2, ExitCollect
<1>8. CASE SweepFree
  <2> DEFINE o == tab[gci]
  <2>1. /\ pc = "sweep" /\ pc' = "sweep" /\ gci <= Len(tab)
        /\ kind' = [kind EXCEPT ![o] = "free"] /\ kids' = [kids EXCEPT ![o] = <<>>]
        /\ gci' = SweptIndex(o) /\ UNCHANGED <<roots, ctl, tear>>
    BY <1>8 DEF SweepFree, Sweepable, Swept
  <2>2. o \in Obj
    BY <1>1, <2>1
  <2>3. op = "free" => gci' = 1
    <3>1. op = "free" => gci = 1 /\ kind[o] # "scope"
      BY <2>1, <2>2 DEF ExitInv
    <3> QED BY <2>1, <3>1 DEF SweptIndex
  <2> HIDE DEF o
  <2>4. /\ \A p \in Obj : kind'[p] = kind[p] \/ kind'[p] = "free"
        /\ \A p \in Obj : kids'[p] = kids[p] \/ kids'[p] = <<>>
    BY <1>1, <2>1, <2>2
  <2>5. \A p \in Obj : kids'[p] \in Seq(Plain)
    BY <1>1, <2>4, PlainRefs
  <2> QED BY <2>1, <2>3, <2>4, <2>5, ExitCollect
<1>9. CASE Unmark
  <2>1. /\ pc = "sweep" /\ gci > Len(tab) /\ pc' = (IF op = "free" THEN "down" ELSE "alloced")
        /\ UNCHANGED <<roots, ctl, tear, kind, kids, tab>>
    BY <1>9 DEF Unmark
  <2>2. op = "free" => tab = <<>>
    <3>1. op = "free" => gci = 1
      BY <2>1 DEF ExitInv
    <3>2. op = "free" => Len(tab) = 0
      BY <1>1, <2>1, <3>1
    <3> QED BY <1>1, <3>2, EmptySeq
  <2> QED BY <1>1, <2>1, <2>2, ExitCollect
<1> QED BY <1>2, <1>3, <1>4, <1>5, <1>6, <1>7, <1>8, <1>9 DEF Collect

LEMMA ExitStart == Init => ExitInv
<1> SUFFICES ASSUME Init PROVE ExitInv
  OBVIOUS
<1>1. /\ stack = <<>> /\ cstack = <<>> /\ dn = <<>> /\ drops = <<>> /\ errmb = Nil
      /\ dynscope = DynScope /\ op = "none" /\ pc = "run"
      /\ \A o \in Obj : kids[o] = <<>> /\ (kind[o] = "scope" => o = DynScope)
  BY DEF Init
<1> QED BY <1>1, PlainRefs DEF ExitInv, AllFreedAtExit

LEMMA ExitStep ==
  ASSUME "scope" \notin Features, "tight" \notin Features
  PROVE  TypeInv /\ HeapInv /\ Roomy /\ ExitInv /\ [Next]_vars => ExitInv'
<1> SUFFICES ASSUME TypeInv, HeapInv, Roomy, ExitInv, [Next]_vars PROVE ExitInv'
  OBVIOUS
<1>1. TypeInv' /\ HeapInv' /\ ~Inside
  BY HeapStep, RoomyStep
<1>2. CASE Handler
  BY <1>1, <1>2, RootMoves, ArrayMoves, AllocMoves DEF Handler
<1>3. CASE Api
  BY <1>1, <1>3, RootMoves, FreeMoves, AllocMoves DEF Api
<1>4. CASE Alloc
  BY <1>1, <1>4, ArrayMoves, AllocMoves DEF Alloc
<1>5. CASE Cascade
  BY <1>1, <1>5, CascadeMoves
<1>6. CASE Collect
  BY <1>1, <1>6, CollectMoves
<1>7. CASE UNCHANGED vars
  <2>1. UNCHANGED <<kind, kids, refcnt, tab, stack, cstack, dynscope, errmb, pc, op, drops, dn, gci>>
    BY <1>7 DEF vars, heap, roots, ctl, tear, gcl
  <2> QED BY <2>1 DEF ExitInv, InTable, AllFreedAtExit
<1> QED BY <1>1, <1>2, <1>3, <1>4, <1>5, <1>6, <1>7 DEF Next

\* After abce_free the table is empty, whatever cycles the program left among
\* its arrays -- unless it has made scopes (see the run heap_exit).
THEOREM EverythingFreed ==
  ASSUME "scope" \notin Features, "tight" \notin Features
  PROVE  Spec => []AllFreedAtExit
<1>1. Init => ExitInv
  BY ExitStart
<1>2. TypeInv /\ HeapInv /\ Roomy /\ ExitInv /\ [Next]_vars => ExitInv'
  BY ExitStep
<1>3. ExitInv => AllFreedAtExit
  BY DEF ExitInv
<1>4. Spec => [](TypeInv /\ HeapInv /\ Roomy)
  BY HeapInvariance
<1> QED BY <1>1, <1>2, <1>3, <1>4, PTL DEF Spec

-----------------------------------------------------------------------------
(***************************************************************************)
(* The memory manager implements AbceStore: handlers move only what the    *)
(* program can reach, and cascades and collections reclaim only what it    *)
(* cannot.                                                                 *)
(***************************************************************************)

(* What the program can reach.                                             *)

Within == Reachable \cup {Nil}
\* A step of the store, or one that it does not see.
Implements == [Store!Next]_(Store!storevars)

LEMMA StoreReach == Store!Reach = Reachable
<1>1. \A S \in SUBSET Obj : Store!ClosedUnder(S) <=> Closed(S)
  BY DEF Store!ClosedUnder, Closed
<1> QED BY <1>1 DEF Store!Reach, Reachable

\* The roots are within reach, and what an object within reach refers to.
LEMMA ReachClosed ==
  ASSUME TypeInv, HeapInv
  PROVE  /\ RootSet \subseteq Reachable /\ Reachable \subseteq Obj
         /\ stack \in Seq(Within) /\ cstack \in Seq(Within) /\ cache \in Seq(Within)
         /\ dynscope \in Within /\ errmb \in Within /\ Nil \in Within
         /\ \A o \in Reachable : kids[o] \in Seq(Within)
<1>1. RootSet \subseteq Reachable /\ Reachable \subseteq Obj
  BY RootSetKnown DEF Reachable
<1>2. /\ \A i \in DOMAIN stack : stack[i] \in Within
      /\ \A i \in DOMAIN cstack : cstack[i] \in Within
      /\ \A i \in DOMAIN cache : cache[i] \in Within
      /\ dynscope \in Within /\ errmb \in Within
  BY <1>1, RootSetKnown DEF Within
<1>3. stack \in Seq(Within) /\ cstack \in Seq(Within) /\ cache \in Seq(Within)
  <2>1. stack \in Seq(Ref) /\ cstack \in Seq(Ref) /\ cache \in Seq(Ref)
    BY DEF TypeInv, TypeOK, RootsOK
  <2> QED BY <1>2, <2>1, SeqInto
<1>4. ASSUME NEW o \in Reachable PROVE kids[o] \in Seq(Within)
  <2>1. o \in Obj /\ kids[o] \in Seq(Ref)
    BY <1>1 DEF TypeInv, TypeOK, HeapOK
  <2>2. ASSUME NEW i \in DOMAIN kids[o] PROVE kids[o][i] \in Within
    <3> DEFINE x == kids[o][i]
    <3>1. x \in Ref /\ x \in Range(kids[o])
      BY <2>1 DEF Range
    <3> HIDE DEF x
    <3>2. ASSUME x # Nil, NEW S \in SUBSET Obj, RootSet \subseteq S, Closed(S) PROVE x \in S
      <4>1. o \in S
        BY <3>2 DEF Reachable
      <4>2. Range(kids[o]) \subseteq S \cup {Nil}
        BY <3>2, <4>1 DEF Closed
      <4> QED BY <3>1, <3>2, <4>2
    <3> QED BY <3>1, <3>2 DEF Reachable, Within, Ref, x
  <2> QED BY <2>1, <2>2, SeqInto
<1> QED BY <1>1, <1>2, <1>3, <1>4 DEF Within

\* The slots of the value stack hold what is within reach.
LEMMA SlotsWithin ==
  ASSUME TypeInv, HeapInv
  PROVE  /\ N \in Nat /\ N = Len(stack)
         /\ \A d \in 1 .. N : At(d) \in Within
         /\ \A d \in 0 .. N : Below(d) \in Seq(Within) /\ Len(Below(d)) = N - d
BY ReachClosed, StackCounts

-----------------------------------------------------------------------------
(* The ways a step maps to the store.                                      *)

LEMMA Stutters ==
  ASSUME UNCHANGED <<kids, stack, cstack, cache, dynscope, errmb>>, Objects' = Objects
  PROVE  Implements
<1>1. RootSet' = RootSet
  BY DEF RootSet
<1>2. UNCHANGED Store!storevars
  BY <1>1 DEF Store!storevars
<1> QED BY <1>2 DEF Implements

LEMMA RangeOfNone == Range(<<>>) = {}
BY DEF Range

\* A handler that creates at most the objects of new and moves references that
\* are within reach.
LEMMA Operates ==
  ASSUME TypeInv, HeapInv, NEW new \in SUBSET Obj, Cardinality(new) <= 1,
         new \cap Objects = {}, Objects' = Objects \cup new,
         NEW W, W = Reachable \cup new \cup {Nil},
         stack' \in Seq(W), cstack' \in Seq(W), cache' \in Seq(W),
         dynscope' \in W, errmb' \in W,
         \A o \in Obj : \/ o \in Reachable \cup new /\ kids'[o] \in Seq(W)
                        \/ kids'[o] = kids[o]
                        \/ kids'[o] = <<>>
  PROVE  Implements
<1>1. Range(stack') \subseteq W /\ Range(cstack') \subseteq W /\ Range(cache') \subseteq W
  BY RangeIn
<1>2. RootSet' \subseteq Reachable \cup new
  BY <1>1 DEF RootSet
<1>3. ASSUME NEW o \in Obj
      PROVE  Range(kids'[o]) \ {Nil} \subseteq
               IF o \in Reachable \cup new THEN Reachable \cup new ELSE Range(kids[o]) \ {Nil}
  <2>1. CASE o \in Reachable \cup new /\ kids'[o] \in Seq(W)
    <3>1. Range(kids'[o]) \subseteq W
      BY <2>1, RangeIn
    <3> QED BY <2>1, <3>1
  <2>2. CASE kids'[o] = kids[o]
    <3>1. CASE o \in Reachable
      <4>1. kids[o] \in Seq(Within)
        BY <3>1, ReachClosed
      <4>2. Range(kids[o]) \subseteq Within
        BY <4>1, RangeIn
      <4> QED BY <2>2, <3>1, <4>2 DEF Within
    <3>2. CASE o \in new \ Reachable
      <4>1. o \notin Objects
        BY <3>2
      <4>2. kids[o] = <<>>
        BY <4>1 DEF HeapInv, Shape, Objects, Containers, Arrays
      <4> QED BY <2>2, <4>2, RangeOfNone
    <3>3. CASE o \notin Reachable \cup new
      BY <2>2, <3>3
    <3> QED BY <3>1, <3>2, <3>3
  <2>3. CASE kids'[o] = <<>>
    BY <2>3, RangeOfNone
  <2> QED BY <2>1, <2>2, <2>3
<1>4. new \in SUBSET (Obj \ Objects)
  OBVIOUS
<1>5. Store!Operate(new)
  BY <1>2, <1>3, StoreReach DEF Store!Operate
<1>6. Store!Cardinality(new) = Cardinality(new)
  BY Zenon DEF Store!Cardinality, Cardinality, Store!IsFiniteSet, IsFiniteSet
<1>7. Store!Next
  BY <1>4, <1>5, <1>6 DEF Store!Next
<1> QED BY <1>7 DEF Implements

\* A handler that creates nothing.
LEMMA Moves ==
  ASSUME TypeInv, HeapInv, Objects' = Objects,
         stack' \in Seq(Within), cstack' \in Seq(Within), cache' \in Seq(Within),
         dynscope' \in Within, errmb' \in Within,
         \A o \in Obj : \/ o \in Reachable /\ kids'[o] \in Seq(Within)
                        \/ kids'[o] = kids[o]
                        \/ kids'[o] = <<>>
  PROVE  Implements
<1> DEFINE new == {}
<1>1. new \in SUBSET Obj /\ Cardinality(new) <= 1 /\ new \cap Objects = {}
  BY FS_EmptySet
<1>2. Objects' = Objects \cup new
  OBVIOUS
<1>3. Within = Reachable \cup new \cup {Nil}
  BY DEF Within
<1> DEFINE W == Within
<1>4. /\ stack' \in Seq(W) /\ cstack' \in Seq(W) /\ cache' \in Seq(W)
      /\ dynscope' \in W /\ errmb' \in W /\ W = Reachable \cup new \cup {Nil}
      /\ \A o \in Obj : \/ o \in Reachable \cup new /\ kids'[o] \in Seq(W)
                        \/ kids'[o] = kids[o]
                        \/ kids'[o] = <<>>
  BY <1>3
<1> HIDE DEF new, W
<1> QED BY <1>1, <1>2, <1>4, Operates

\* A handler that leaves the contents of objects alone.
LEMMA MovesRoots ==
  ASSUME TypeInv, HeapInv, kind' = kind, kids' = kids,
         stack' \in Seq(Within), cstack' \in Seq(Within), cache' \in Seq(Within),
         dynscope' \in Within, errmb' \in Within
  PROVE  Implements
<1>1. Objects' = Objects
  BY DEF Objects
<1> QED BY <1>1, Moves

\* A step that reclaims an object the program cannot reach.
LEMMA Reclaims ==
  ASSUME NEW o \in Objects, o \notin Reachable, Objects' = Objects \ {o},
         UNCHANGED <<stack, cstack, cache, dynscope, errmb>>,
         kids'[o] = <<>>, \A p \in Obj : p # o => kids'[p] = kids[p]
  PROVE  Implements
<1> DEFINE dead == {o}
<1>1. dead \in SUBSET Objects /\ dead \subseteq Objects \ Store!Reach
  BY StoreReach
<1>2. RootSet' = RootSet
  BY DEF RootSet
<1>3. \A p \in Obj : Range(kids'[p]) \ {Nil} = IF p \in dead THEN {} ELSE Range(kids[p]) \ {Nil}
  BY RangeOfNone
<1> HIDE DEF dead
<1>4. Store!Reclaim(dead)
  BY <1>1, <1>2, <1>3 DEF Store!Reclaim, dead
<1>5. Store!Next
  BY <1>1, <1>4 DEF Store!Next
<1> QED BY <1>5 DEF Implements

\* An object whose count is not more than what a cascade is about to drop is out
\* of reach.
LEMMA OutOfReach ==
  ASSUME TypeInv, HeapInv, pc = "drop", NEW o \in Objects,
         refcnt[o] <= Occurrences(drops, o) + Occurrences(dn, o)
  PROVE  o \notin Reachable
<1>1. o \in Obj /\ o # Nil /\ refcnt[o] = CountFrom(Obj, o)
  BY KnownIsRef DEF HeapInv, CountsExact
<1>2. /\ KidCount(Obj, o) \in Nat
      /\ Occurrences(stack, o) \in Nat /\ Occurrences(cstack, o) \in Nat
      /\ Occurrences(cache, o) \in Nat /\ Occurrences(<<dynscope, errmb>>, o) \in Nat
      /\ Occurrences(drops, o) \in Nat /\ Occurrences(dn, o) \in Nat
  BY <1>1, CountTypes DEF TypeInv
<1> DEFINE k == KidCount(Obj, o)
           a == Occurrences(stack, o)
           b == Occurrences(cstack, o)
           c == Occurrences(cache, o)
           d == Occurrences(<<dynscope, errmb>>, o)
           e == Occurrences(drops, o)
           f == Occurrences(dn, o)
<1>3. CountFrom(Obj, o) = k + (a + b + c + d + e + f)
  BY Zenon DEF CountFrom, RootCount
<1> HIDE DEF k, a, b, c, d, e, f
<1>4. k + (a + b + c + d + e + f) <= e + f
  BY <1>1, <1>3 DEF e, f
<1>t. /\ k \in Nat /\ a \in Nat /\ b \in Nat /\ c \in Nat /\ d \in Nat
      /\ e \in Nat /\ f \in Nat
  BY <1>2 DEF k, a, b, c, d, e, f
<1>5. k = 0 /\ a = 0 /\ b = 0 /\ c = 0 /\ d = 0
  BY <1>4, <1>t
<1>6. /\ \A i \in DOMAIN stack : stack[i] # o
      /\ \A i \in DOMAIN cstack : cstack[i] # o
      /\ \A i \in DOMAIN cache : cache[i] # o
  <2>1. stack \in Seq(Ref) /\ cstack \in Seq(Ref) /\ cache \in Seq(Ref)
    BY DEF TypeInv, TypeOK, RootsOK
  <2> QED BY <1>5, <2>1, OccurrencesPositive DEF a, b, c
<1>7. dynscope # o /\ errmb # o
  <2>1. d = One(dynscope, o) + One(errmb, o)
    BY PairCounts DEF d
  <2>2. One(dynscope, o) \in Nat /\ One(errmb, o) \in Nat
    BY OneType
  <2>3. One(dynscope, o) = 0 /\ One(errmb, o) = 0
    BY <1>5, <2>1, <2>2
  <2> QED BY <2>3 DEF One
<1>8. o \notin RootSet
  BY <1>6, <1>7 DEF RootSet, Range
<1>9. \A p \in Obj : kids[p] \in Seq(Ref)
  BY DEF TypeInv, TypeOK, HeapOK
<1>10. \A p \in Obj : Occurrences(kids[p], o) = 0
  BY <1>5, <1>9, HeapAssumption, SlotsNone DEF KidCount, k
<1>11. \A p \in Obj : Range(kids[p]) \subseteq Ref \ {o}
  BY <1>9, <1>10, SeqWithout, RangeIn
<1>12. Closed(Obj \ {o})
  BY <1>11 DEF Closed, Ref
<1>13. RootSet \subseteq Obj \ {o}
  BY <1>8, RootSetKnown, KnownIsRef
<1> QED BY <1>12, <1>13 DEF Reachable

-----------------------------------------------------------------------------
(* The handlers.                                                           *)

\* The array takes the item on top of the stack.
LEMMA StoreItemImplements ==
  ASSUME TypeInv, HeapInv, N >= 2, At(2) # Nil, StoreItem, Objects' = Objects,
         UNCHANGED <<cstack, cache, dynscope, errmb>>
  PROVE  Implements
<1> DEFINE q == At(2)
<1>1. /\ stack' = Below(1) /\ kids' = [kids EXCEPT ![q] = Append(@, At(1))]
      /\ kids \in [Obj -> Seq(Ref)]
  BY DEF StoreItem, TypeInv, TypeOK, HeapOK
<1>2. q \in Reachable /\ At(1) \in Within /\ Below(1) \in Seq(Within)
  BY SlotsWithin DEF Within
<1>3. q \in Obj /\ kids[q] \in Seq(Within)
  BY <1>2, ReachClosed
<1> HIDE DEF q
<1>4. \A o \in Obj : \/ o \in Reachable /\ kids'[o] \in Seq(Within)
                     \/ kids'[o] = kids[o]
                     \/ kids'[o] = <<>>
  BY <1>1, <1>2, <1>3
<1> QED BY <1>1, <1>2, <1>4, ReachClosed, Moves

LEMMA HandlersImplement ==
  ASSUME TypeInv, HeapInv, Handler
  PROVE  Implements
<1>r. /\ stack \in Seq(Within) /\ cstack \in Seq(Within) /\ cache \in Seq(Within)
      /\ dynscope \in Within /\ errmb \in Within /\ Nil \in Within
      /\ \A o \in Reachable : kids[o] \in Seq(Within)
  BY ReachClosed
<1>s. /\ N \in Nat /\ N = Len(stack)
      /\ \A d \in 1 .. N : At(d) \in Within
      /\ \A d \in 0 .. N : Below(d) \in Seq(Within)
  BY SlotsWithin
<1>h. /\ UNCHANGED heap => kind' = kind /\ kids' = kids
      /\ UNCHANGED roots => UNCHANGED <<stack, cstack, cache, dynscope, errmb>>
  BY DEF heap, roots
<1>b. UNCHANGED <<kind, kids, stack, cstack, cache, dynscope, errmb>> => Implements
  <2>1. kind' = kind => Objects' = Objects
    BY DEF Objects
  <2> QED BY <2>1, Stutters
<1>1. CASE PushNil
  BY <1>1, <1>r, <1>h, MovesRoots DEF PushNil
<1>2. CASE Pop
  BY <1>2, <1>r, <1>s, <1>h, MovesRoots DEF Pop
<1>3. ASSUME NEW r \in Within, ReplaceTop(r) PROVE Implements
  BY <1>3, <1>r, <1>s, MovesRoots DEF ReplaceTop
<1>4. CASE PushStack
  <2>1. PICK a \in 1 .. N - 1 : ReplaceTop(stack[a])
    BY <1>4 DEF PushStack
  <2>2. stack[a] \in Within
    BY <1>r, <1>s
  <2> QED BY <1>3, <2>1, <2>2
<1>5. CASE PushFromCache
  <2>1. PICK i \in 1 .. Len(cache) : ReplaceTop(cache[i])
    BY <1>5 DEF PushFromCache
  <2>2. cache[i] \in Within
    BY <1>r
  <2> QED BY <1>3, <2>1, <2>2
<1>6. CASE GetScopeDyn
  BY <1>6, <1>r, MovesRoots DEF GetScopeDyn
<1>7. CASE SetStack
  <2>1. N >= 2
    BY <1>7 DEF SetStack
  <2>2. PICK a \in 1 .. N : stack' = SubSeq([stack EXCEPT ![a] = At(1)], 1, N - 2)
    BY <1>7 DEF SetStack
  <2> DEFINE s == [stack EXCEPT ![a] = At(1)]
  <2>3. s \in Seq(Within) /\ Len(s) = N
    BY <1>r, <1>s, <2>1
  <2> HIDE DEF s
  <2>4. SubSeq(s, 1, N - 2) \in Seq(Within)
    BY <1>s, <2>1, <2>3
  <2>5. stack' = SubSeq(s, 1, N - 2)
    BY <2>2 DEF s
  <2> QED BY <1>7, <1>r, <2>4, <2>5, MovesRoots DEF SetStack
<1>8. CASE ExchangeTop
  <2>1. N >= 2
    BY <1>8 DEF ExchangeTop
  <2>2. PICK a \in 1 .. N - 1 :
          stack' = [i \in 1 .. N - 1 |->
                      IF i = a THEN At(2) ELSE IF i = N - 1 THEN stack[a] ELSE stack[i]]
    BY <1>8 DEF ExchangeTop
  <2>3. stack' \in Seq(Within)
    <3>1. At(2) \in Within /\ \A i \in 1 .. N - 1 : stack[i] \in Within
      BY <1>r, <1>s, <2>1
    <3> QED BY <1>s, <2>1, <2>2, <3>1
  <2> QED BY <1>8, <1>r, <1>h, <2>3, MovesRoots DEF ExchangeTop
<1>9. CASE ListGet
  <2>1. N >= 2 /\ At(2) # Nil
    BY <1>9 DEF ListGet, IsA
  <2>2. kids[At(2)] \in Seq(Within)
    BY <1>r, <1>s, <2>1 DEF Within
  <2>3. PICK i \in DOMAIN kids[At(2)] : stack' = Append(Below(2), kids[At(2)][i])
    BY <1>9 DEF ListGet
  <2>4. stack' \in Seq(Within)
    BY <1>s, <2>1, <2>2, <2>3
  <2> QED BY <1>9, <1>r, <2>4, MovesRoots DEF ListGet
<1>10. CASE ListSet
  <2>1. N >= 3 /\ At(3) # Nil
    BY <1>10 DEF ListSet, IsA
  <2> DEFINE q == At(3)
  <2>2. q \in Reachable /\ At(1) \in Within /\ Below(3) \in Seq(Within)
    BY <1>s, <2>1 DEF Within
  <2>3. q \in Obj /\ kids \in [Obj -> Seq(Ref)]
    BY <2>2 DEF Reachable, TypeInv, TypeOK, HeapOK
  <2>4. PICK i \in DOMAIN kids[q] : kids' = [kids EXCEPT ![q][i] = At(1)]
    BY <1>10 DEF ListSet
  <2> HIDE DEF q
  <2>5. kids'[q] = [kids[q] EXCEPT ![i] = At(1)] /\ \A o \in Obj : o # q => kids'[o] = kids[o]
    BY <2>3, <2>4
  <2>6. kids'[q] \in Seq(Within)
    BY <1>r, <2>2, <2>5
  <2>7. \A o \in Obj : \/ o \in Reachable /\ kids'[o] \in Seq(Within)
                       \/ kids'[o] = kids[o]
                       \/ kids'[o] = <<>>
    BY <2>2, <2>5, <2>6
  <2>8. UNCHANGED <<kind, cstack, cache, dynscope, errmb>> /\ stack' = Below(3)
    BY <1>10 DEF ListSet
  <2>9. Objects' = Objects
    BY <2>8 DEF Objects
  <2> QED BY <1>r, <2>2, <2>7, <2>8, <2>9, Moves
<1>11. ASSUME N >= 1, IsA(At(1), "array"), kids[At(1)] # <<>>
       PROVE  /\ At(1) \in Reachable /\ At(1) \in Obj /\ LastKid(At(1)) \in Within
              /\ SubSeq(kids[At(1)], 1, Len(kids[At(1)]) - 1) \in Seq(Within)
  <2>1. At(1) \in Reachable
    BY <1>11, <1>s DEF Within, IsA
  <2>2. kids[At(1)] \in Seq(Within)
    BY <1>r, <2>1
  <2>3. Len(kids[At(1)]) \in 1 .. Len(kids[At(1)])
    BY <1>11, <2>2
  <2> QED BY <2>1, <2>2, <2>3 DEF LastKid, Reachable
<1>12. CASE ListPop
  <2> DEFINE q == At(1)
  <2>1. /\ N >= 1 /\ IsA(q, "array") /\ kids[q] # <<>>
        /\ stack' = Append(Below(1), LastKid(q))
        /\ kids' = [kids EXCEPT ![q] = SubSeq(@, 1, Len(@) - 1)]
        /\ UNCHANGED <<kind, cstack, cache, dynscope, errmb>>
    BY <1>12 DEF ListPop
  <2>2. /\ q \in Reachable /\ q \in Obj /\ LastKid(q) \in Within
        /\ SubSeq(kids[q], 1, Len(kids[q]) - 1) \in Seq(Within)
    BY <1>11, <2>1
  <2>3. stack' \in Seq(Within)
    BY <1>s, <2>1, <2>2
  <2>4. kids \in [Obj -> Seq(Ref)]
    BY DEF TypeInv, TypeOK, HeapOK
  <2> HIDE DEF q
  <2>5. \A o \in Obj : \/ o \in Reachable /\ kids'[o] \in Seq(Within)
                       \/ kids'[o] = kids[o]
                       \/ kids'[o] = <<>>
    BY <2>1, <2>2, <2>4
  <2>6. Objects' = Objects
    BY <2>1 DEF Objects
  <2> QED BY <1>r, <2>1, <2>3, <2>5, <2>6, Moves
<1>13. CASE ListPopOverflow
  BY <1>13, <1>11, <1>r, MovesRoots DEF ListPopOverflow
<1>14. CASE AppendRoom
  BY <1>14, StoreItemImplements DEF AppendRoom, Appendable, IsA, Objects
<1>15. CASE ScopeNew \/ AppendFull \/ \E k \in {"leaf", "array"} : PushNew(k)
  BY <1>15, <1>h, <1>b DEF ScopeNew, AppendFull, PushNew, Begin
<1>16. ASSUME NEW d \in 1 .. 3, TypeError(d) PROVE Implements
  <2>1. At(d) \in Within
    BY <1>16, <1>s DEF TypeError
  <2> QED BY <1>16, <1>r, <2>1, MovesRoots DEF TypeError
<1> QED BY <1>1, <1>2, <1>4, <1>5, <1>6, <1>7, <1>8, <1>9, <1>10, <1>12, <1>13, <1>14,
           <1>15, <1>16 DEF Handler

-----------------------------------------------------------------------------
(* The C API, and the steps of an operation that allocates.                *)

LEMMA ApiImplements ==
  ASSUME TypeInv, HeapInv, Api
  PROVE  Implements
<1>r. /\ stack \in Seq(Within) /\ cstack \in Seq(Within) /\ cache \in Seq(Within)
      /\ dynscope \in Within /\ errmb \in Within /\ Nil \in Within
  BY ReachClosed
<1>h. /\ UNCHANGED heap => kind' = kind /\ kids' = kids
      /\ UNCHANGED roots => UNCHANGED <<stack, cstack, cache, dynscope, errmb>>
  BY DEF heap, roots
<1>1. CASE PushC
  <2>1. cstack[Len(cstack)] \in Within
    BY <1>1, <1>r DEF PushC
  <2> QED BY <1>1, <1>r, <2>1, MovesRoots DEF PushC
<1>2. CASE CPop
  <2>1. SubSeq(cstack, 1, Len(cstack) - 1) \in Seq(Within)
    BY <1>2, <1>r DEF CPop
  <2> QED BY <1>2, <1>r, <1>h, <2>1, MovesRoots DEF CPop
<1>3. CASE ErrFree
  BY <1>3, <1>r, <1>h, MovesRoots DEF ErrFree
<1>4. CASE AbceFree
  <2>1. <<>> \in Seq(Within)
    OBVIOUS
  <2> QED BY <1>4, <1>r, <1>h, <2>1, MovesRoots DEF AbceFree
<1>5. CASE \E k \in {"leaf", "array"} : CPushCreate(k)
  BY <1>5, <1>r, <1>h, MovesRoots DEF CPushCreate, Begin
<1> QED BY <1>1, <1>2, <1>3, <1>4, <1>5 DEF Api

\* The new object joins the store in the step that makes it an object.
LEMMA MadeImplements ==
  ASSUME TypeInv, HeapInv, pc = "made", kind' = [kind EXCEPT ![hand] = want],
         NEW W, W = Within \cup {hand},
         stack' \in Seq(W), cstack' \in Seq(W), cache' \in Seq(W),
         dynscope' \in W, errmb' \in W,
         kids'[hand] \in Seq(W), \A o \in Obj : o # hand => kids'[o] = kids[o]
  PROVE  Implements
<1> DEFINE new == {hand}
<1>1. /\ hand \in Obj /\ hand \notin Objects /\ want \in Simple \cup {"scope"}
  BY InHand
<1>2. kind \in [Obj -> {"free", "raw", "leaf", "bare_leaf", "array", "bare_array", "scope"}]
  BY DEF TypeInv, TypeOK, HeapOK
<1>3. Objects' = Objects \cup new
  BY <1>1, <1>2 DEF Objects, Simple, Bare
<1>4. new \in SUBSET Obj /\ Cardinality(new) <= 1 /\ new \cap Objects = {}
  <2>1. Cardinality(new) = 1
    BY FS_Singleton
  <2> QED BY <1>1, <2>1
<1>5. W = Reachable \cup new \cup {Nil}
  BY DEF Within
<1>6. \A o \in Obj : \/ o \in Reachable \cup new /\ kids'[o] \in Seq(W)
                     \/ kids'[o] = kids[o]
                     \/ kids'[o] = <<>>
  OBVIOUS
<1> HIDE DEF new
<1> QED BY <1>3, <1>4, <1>5, <1>6, Operates

LEMMA AllocImplements ==
  ASSUME TypeInv, HeapInv, Alloc
  PROVE  Implements
<1>r. /\ stack \in Seq(Within) /\ cstack \in Seq(Within) /\ cache \in Seq(Within)
      /\ dynscope \in Within /\ errmb \in Within /\ Nil \in Within
  BY ReachClosed
<1>s. /\ N \in Nat /\ N = Len(stack)
      /\ \A d \in 1 .. N : At(d) \in Within
      /\ \A d \in 0 .. N : Below(d) \in Seq(Within)
  BY SlotsWithin
<1>h. /\ UNCHANGED heap => kind' = kind /\ kids' = kids
      /\ UNCHANGED roots => UNCHANGED <<stack, cstack, cache, dynscope, errmb>>
  BY DEF heap, roots
<1>1. CASE GcBegin \/ NoMem \/ AllocStorage \/ StorageFails
  BY <1>1, <1>r, <1>h, MovesRoots DEF GcBegin, NoMem, AllocStorage, StorageFails
<1>2. CASE AllocArea
  <2>1. PICK o \in Free : kind' = [kind EXCEPT ![o] = "raw"]
    BY <1>2 DEF AllocArea
  <2>2. kind \in [Obj -> {"free", "raw", "leaf", "bare_leaf", "array", "bare_array", "scope"}]
    BY DEF TypeInv, TypeOK, HeapOK
  <2>3. Objects' = Objects
    BY <2>1, <2>2 DEF Objects, Free
  <2> QED BY <1>2, <1>h, <2>3, Stutters DEF AllocArea
<1>3. ASSUME pc \in {"alloc", "alloced"}, op = "append"
      PROVE  N >= 2 /\ At(2) # Nil
  BY <1>3 DEF HeapInv, Phases, TypeInv, Progress, N
<1>4. CASE GrowAppend
  <2>1. /\ kind' = [kind EXCEPT ![At(2)] = "array"] /\ StoreItem
        /\ UNCHANGED <<cstack, cache, dynscope, errmb>>
        /\ op = "append" /\ pc \in {"alloc", "alloced"}
    BY <1>4 DEF GrowAppend, Allocating
  <2>2. N >= 2 /\ At(2) # Nil /\ kind[At(2)] \in Arrays
    BY <1>3, <2>1 DEF HeapInv, Phases
  <2>3. kind \in [Obj -> {"free", "raw", "leaf", "bare_leaf", "array", "bare_array", "scope"}]
    BY DEF TypeInv, TypeOK, HeapOK
  <2>4. Objects' = Objects
    BY <2>1, <2>2, <2>3 DEF Objects, Arrays
  <2> QED BY <2>1, <2>2, <2>4, StoreItemImplements
<1>5. CASE GrowFail
  <2>1. N >= 2
    BY <1>3, <1>5 DEF GrowFail, Allocating
  <2>2. Below(1) \in Seq(Within) /\ At(2) \in Within
    BY <1>s, <2>1
  <2> QED BY <1>5, <1>r, <2>2, MovesRoots DEF GrowFail
<1>6. CASE CreateDone \/ NewDone \/ CreateOverflow
  <2> DEFINE W == Within \cup {hand}
  <2>1. /\ pc = "made" /\ kind' = [kind EXCEPT ![hand] = want]
        /\ UNCHANGED <<kids, cache, dynscope>>
        /\ cstack' \in {cstack, Append(cstack, hand)} /\ stack' \in {stack, Append(stack, hand)}
        /\ errmb' \in {errmb, hand}
    BY <1>6 DEF CreateDone, NewDone, CreateOverflow, Making, Made
  <2>2. stack \in Seq(W) /\ cstack \in Seq(W) /\ cache \in Seq(W) /\ hand \in W
    BY <1>r, SeqWider
  <2> HIDE DEF W
  <2>3. stack' \in Seq(W) /\ cstack' \in Seq(W) /\ cache' \in Seq(W)
    <3>1. Append(stack, hand) \in Seq(W) /\ Append(cstack, hand) \in Seq(W)
      BY <2>2
    <3> QED BY <2>1, <2>2, <3>1
  <2>4. dynscope' \in W /\ errmb' \in W
    BY <1>r, <2>1 DEF W
  <2>5. kids'[hand] \in Seq(W)
    <3>1. kids[hand] = <<>>
      BY <2>1, InHand
    <3>2. <<>> \in Seq(W)
      OBVIOUS
    <3> QED BY <2>1, <3>1, <3>2
  <2>6. W = Within \cup {hand}
    BY DEF W
  <2> QED BY <2>1, <2>3, <2>4, <2>5, <2>6, MadeImplements
<1>7. CASE ScopeDone \/ ScopeOverflow
  <2> DEFINE W == Within \cup {hand}
  <2>1. /\ pc = "made" /\ op = "scope" /\ kind' = [kind EXCEPT ![hand] = want]
        /\ kids' = [kids EXCEPT ![hand] = <<At(2)>>]
        /\ UNCHANGED <<cstack, dynscope>> /\ cache' = Append(cache, hand)
        /\ stack' \in {stack, Append(Below(2), Nil)} /\ errmb' \in {errmb, hand}
    BY <1>7 DEF ScopeDone, ScopeOverflow, Making, MadeScope, Made
  <2>2. N >= 2
    BY <1>s, <2>1 DEF TypeInv, Progress
  <2>3. At(2) \in W /\ Below(2) \in Seq(W) /\ Nil \in W /\ hand \in W
    BY <1>r, <1>s, <2>2, SeqWider
  <2>4. stack \in Seq(W) /\ cstack \in Seq(W) /\ cache \in Seq(W)
    BY <1>r, SeqWider
  <2> HIDE DEF W
  <2>5. stack' \in Seq(W) /\ cstack' \in Seq(W) /\ cache' \in Seq(W)
    <3>1. Append(Below(2), Nil) \in Seq(W) /\ Append(cache, hand) \in Seq(W)
      BY <2>3, <2>4
    <3> QED BY <2>1, <2>4, <3>1
  <2>6. dynscope' \in W /\ errmb' \in W
    BY <1>r, <2>1 DEF W
  <2>7. hand \in Obj /\ kids \in [Obj -> Seq(Ref)]
    BY <2>1, InHand DEF TypeInv, TypeOK, HeapOK
  <2>8. <<At(2)>> \in Seq(W)
    BY <2>3
  <2>9. kids'[hand] \in Seq(W) /\ \A o \in Obj : o # hand => kids'[o] = kids[o]
    BY <2>1, <2>7, <2>8
  <2>10. W = Within \cup {hand}
    BY DEF W
  <2> QED BY <2>1, <2>5, <2>6, <2>9, <2>10, MadeImplements
<1> QED BY <1>1, <1>2, <1>4, <1>5, <1>6, <1>7 DEF Alloc

-----------------------------------------------------------------------------
(* Cascades and collections.                                               *)

\* Dropping a reference reclaims at most a leaf that nothing else refers to.
LEMMA RefDnImplements ==
  ASSUME TypeInv, HeapInv, pc = "drop", NEW x \in Known, RefDn(x),
         x # Nil => Occurrences(drops, x) + Occurrences(dn, x) >= 1,
         UNCHANGED roots
  PROVE  Implements
<1>1. UNCHANGED <<stack, cstack, cache, dynscope, errmb>>
  BY DEF roots
<1>2. kids' = kids
  BY DEF RefDn, RefDnStatic, RefDnShared, RefDnLast, heap
<1>3. kind \in [Obj -> {"free", "raw", "leaf", "bare_leaf", "array", "bare_array", "scope"}]
  BY DEF TypeInv, TypeOK, HeapOK
<1>4. CASE kind' = kind
  <2>1. Objects' = Objects
    BY <1>4 DEF Objects
  <2> QED BY <1>1, <1>2, <2>1, Stutters
<1>5. CASE kind' # kind
  <2>1. /\ x # Nil /\ refcnt[x] = 1 /\ kind[x] \notin Containers
        /\ kind' = [kind EXCEPT ![x] = "free"]
    BY <1>5 DEF RefDn, RefDnStatic, RefDnShared, RefDnLast, LastRef, Retire, heap
  <2>2. x \in Objects /\ x \in Obj
    BY <2>1, KnownIsRef DEF Known
  <2>3. x \notin Reachable
    <3>1. Occurrences(drops, x) \in Nat /\ Occurrences(dn, x) \in Nat
      BY <2>2, CountTypes DEF TypeInv
    <3>2. refcnt[x] <= Occurrences(drops, x) + Occurrences(dn, x)
      BY <2>1, <3>1
    <3> QED BY <2>2, <3>2, OutOfReach
  <2>4. Objects' = Objects \ {x}
    BY <1>3, <2>1, <2>2 DEF Objects
  <2>5. kids'[x] = <<>>
    BY <1>2, <2>1, <2>2 DEF HeapInv, Shape
  <2> QED BY <1>1, <1>2, <2>2, <2>3, <2>4, <2>5, Reclaims
<1> QED BY <1>4, <1>5

LEMMA CascadeImplements ==
  ASSUME TypeInv, HeapInv, Cascade
  PROVE  Implements
<1>r. pc = "drop" /\ drops \in Seq(Known) /\ dn \in Seq(Known)
  BY DEF Cascade, DropNext, PopScratch, DropKid, FreeDying, DropDone, Dropping, HeapInv, HeldKnown, Held
<1>h. /\ UNCHANGED heap => kind' = kind /\ kids' = kids
      /\ UNCHANGED roots => UNCHANGED <<stack, cstack, cache, dynscope, errmb>>
  BY DEF heap, roots
<1>n. \A o : Occurrences(drops, o) \in Nat /\ Occurrences(dn, o) \in Nat
  BY <1>r, OccurrencesType
<1>d. ASSUME NEW s \in Seq(Known), s # <<>>
      PROVE  Head(s) \in Known /\ Occurrences(s, Head(s)) >= 1
  <2> DEFINE x == Head(s)
  <2> HIDE DEF x
  <2>1. Head(s) \in Known /\ Tail(s) \in Seq(Known)
    BY <1>d, HeadTailProperties
  <2>2. Occurrences(s, x) = Occurrences(Tail(s), x) + One(Head(s), x)
    BY <1>d, TailCounts
  <2>3. Occurrences(Tail(s), x) \in Nat
    BY <2>1, OccurrencesType
  <2>4. One(Head(s), x) = 1
    BY DEF One, x
  <2> QED BY <2>1, <2>2, <2>3, <2>4 DEF x
<1>1. CASE DropNext
  <2> DEFINE x == Head(drops)
  <2>1. x \in Known /\ Occurrences(drops, x) + Occurrences(dn, x) >= 1
    <3>1. x \in Known /\ Occurrences(drops, x) >= 1
      BY <1>1, <1>d, <1>r DEF DropNext
    <3> HIDE DEF x
    <3> QED BY <1>n, <3>1
  <2>2. RefDn(x) /\ UNCHANGED roots
    BY <1>1 DEF DropNext
  <2> HIDE DEF x
  <2> QED BY <1>r, <2>1, <2>2, RefDnImplements
<1>2. CASE DropKid
  <2> DEFINE x == Head(dn)
  <2>1. x \in Known /\ Occurrences(drops, x) + Occurrences(dn, x) >= 1
    <3>1. x \in Known /\ Occurrences(dn, x) >= 1
      BY <1>2, <1>d, <1>r DEF DropKid
    <3> HIDE DEF x
    <3> QED BY <1>n, <3>1
  <2>2. RefDn(x) /\ UNCHANGED roots
    BY <1>2 DEF DropKid
  <2> HIDE DEF x
  <2> QED BY <1>r, <2>1, <2>2, RefDnImplements
<1>3. CASE PopScratch
  <2>1. /\ kids' = [kids EXCEPT ![Head(scratch)] = <<>>]
        /\ UNCHANGED <<kind, stack, cstack, cache, dynscope, errmb>>
    BY <1>3, <1>h DEF PopScratch, roots
  <2>2. kids \in [Obj -> Seq(Ref)]
    BY DEF TypeInv, TypeOK, HeapOK
  <2>3. \A o \in Obj : kids'[o] = kids[o] \/ kids'[o] = <<>>
    BY <2>1, <2>2
  <2>4. Objects' = Objects
    BY <2>1 DEF Objects
  <2> QED BY <2>1, <2>3, <2>4, ReachClosed, Moves
<1>4. CASE FreeDying
  <2>1. /\ dying # Nil /\ kind' = [kind EXCEPT ![dying] = "free"]
        /\ UNCHANGED <<kids, stack, cstack, cache, dynscope, errmb>>
    BY <1>4, <1>h DEF FreeDying, roots
  <2>2. dying \in Obj /\ dying \in Objects /\ refcnt[dying] = 0 /\ kids[dying] = <<>>
    <3>1. dying \in Obj
      BY <2>1 DEF TypeInv, TypeOK, ControlOK, Ref
    <3> QED BY <2>1, <3>1 DEF HeapInv, Placed, Shape
  <2>3. dying \notin Reachable
    <3>1. refcnt[dying] <= Occurrences(drops, dying) + Occurrences(dn, dying)
      BY <1>n, <2>2
    <3> QED BY <1>r, <2>2, <3>1, OutOfReach
  <2>4. kind \in [Obj -> {"free", "raw", "leaf", "bare_leaf", "array", "bare_array", "scope"}]
    BY DEF TypeInv, TypeOK, HeapOK
  <2>5. Objects' = Objects \ {dying}
    BY <2>1, <2>2, <2>4 DEF Objects
  <2> QED BY <2>1, <2>2, <2>3, <2>5, Reclaims
<1>5. CASE DropDone
  <2>1. Objects' = Objects
    BY <1>5, <1>h DEF DropDone, Objects
  <2> QED BY <1>5, <1>h, <2>1, Stutters DEF DropDone
<1> QED BY <1>1, <1>2, <1>3, <1>4, <1>5 DEF Cascade

LEMMA CollectImplements ==
  ASSUME TypeInv, HeapInv, Collect
  PROVE  Implements
<1>h. /\ UNCHANGED heap => kind' = kind /\ kids' = kids
      /\ UNCHANGED roots => UNCHANGED <<stack, cstack, cache, dynscope, errmb>>
  BY DEF heap, roots
<1>1. CASE MarkRoots \/ MarkKids \/ MarkDone \/ GcRefDn \/ GcRefDnDone \/ SweepMarked \/ Unmark
  <2>1. UNCHANGED <<kind, kids, stack, cstack, cache, dynscope, errmb>>
    BY <1>1, <1>h DEF MarkRoots, MarkKids, MarkDone, GcRefDn, GcRefDnDone, SweepMarked, Unmark
  <2>2. Objects' = Objects
    BY <2>1 DEF Objects
  <2> QED BY <2>1, <2>2, Stutters
<1>2. CASE SweepFree
  <2> DEFINE q == tab[gci]
  <2>1. /\ pc = "sweep" /\ gci <= Len(tab) /\ Unmarked(q)
        /\ kind' = [kind EXCEPT ![q] = "free"] /\ kids' = [kids EXCEPT ![q] = <<>>]
        /\ UNCHANGED <<stack, cstack, cache, dynscope, errmb>>
    BY <1>2, <1>h DEF SweepFree, Sweepable, Swept
  <2>2. q \in Obj /\ InTable(q)
    BY <2>1 DEF TypeInv, TypeOK, HeapOK, ControlOK, InTable
  <2>3. q \in Objects /\ q \notin MarkedObjects
    BY <2>1, <2>2 DEF HeapInv, Placed, MarkedObjects, Marked, Unmarked
  <2> HIDE DEF q
  <2>4. /\ RootSet \subseteq MarkedObjects
        /\ \A o \in MarkedObjects : kids[o] \in Seq(KnownMarked)
    BY <2>1 DEF HeapInv, Marks
  <2>5. \A o \in MarkedObjects : Range(kids[o]) \subseteq MarkedObjects \cup {Nil}
    BY <2>4, RangeIn DEF KnownMarked
  <2>6. q \notin Reachable
    <3>1. MarkedObjects \in SUBSET Obj /\ Closed(MarkedObjects)
      BY <2>5, KnownIsRef DEF MarkedObjects, Closed
    <3> QED BY <2>3, <2>4, <3>1 DEF Reachable
  <2>7. /\ kind \in [Obj -> {"free", "raw", "leaf", "bare_leaf", "array", "bare_array", "scope"}]
        /\ kids \in [Obj -> Seq(Ref)]
    BY DEF TypeInv, TypeOK, HeapOK
  <2>8. Objects' = Objects \ {q}
    BY <2>1, <2>2, <2>7 DEF Objects
  <2>9. kids'[q] = <<>> /\ \A p \in Obj : p # q => kids'[p] = kids[p]
    BY <2>1, <2>2, <2>7
  <2> QED BY <2>1, <2>3, <2>6, <2>8, <2>9, Reclaims
<1> QED BY <1>1, <1>2 DEF Collect

-----------------------------------------------------------------------------
(* The refinement.                                                         *)

LEMMA StoreInit == Init => Store!Init
<1> SUFFICES ASSUME Init PROVE Store!Init
  OBVIOUS
<1>1. /\ \A o \in Obj : kind[o] = IF o = DynScope THEN "scope" ELSE "free"
      /\ \A o \in Obj : kids[o] = <<>>
      /\ stack = <<>> /\ cstack = <<>> /\ cache = <<DynScope>>
      /\ dynscope = DynScope /\ errmb = Nil
  BY DEF Init
<1>2. Objects = {DynScope}
  BY <1>1, HeapAssumption DEF Objects
<1>3. Range(stack) = {} /\ Range(cstack) = {} /\ Range(cache) = {DynScope}
  BY <1>1 DEF Range
<1>4. RootSet = {DynScope}
  BY <1>1, <1>3, HeapAssumption DEF RootSet
<1>5. [o \in Obj |-> Range(kids[o]) \ {Nil}] = [o \in Obj |-> {}]
  BY <1>1, RangeOfNone
<1> QED BY <1>2, <1>4, <1>5 DEF Store!Init

LEMMA StoreStep ==
  ASSUME "tight" \notin Features
  PROVE  TypeInv /\ HeapInv /\ Roomy /\ [Next]_vars => Implements
<1> SUFFICES ASSUME TypeInv, HeapInv, Roomy, [Next]_vars PROVE Implements
  OBVIOUS
<1>2. ~Inside
  BY RoomyStep
<1>1. CASE UNCHANGED vars
  <2>1. UNCHANGED <<kind, kids, stack, cstack, cache, dynscope, errmb>>
    BY <1>1 DEF vars, heap, roots
  <2>2. Objects' = Objects
    BY <2>1 DEF Objects
  <2> QED BY <2>1, <2>2, Stutters
<1> QED BY <1>1, <1>2, HandlersImplement, ApiImplements, AllocImplements, CascadeImplements,
           CollectImplements DEF Next

\* Every run of the memory manager is a run of the store it promises: an
\* operation moves references within reach of the program and adds at most one
\* object, and whatever a cascade or a sweep frees is out of its reach.
THEOREM ImplementsStore ==
  ASSUME "tight" \notin Features
  PROVE  Spec => StoreSpec
<1>1. TypeInv /\ HeapInv /\ Roomy /\ [Next]_vars => [Store!Next]_(Store!storevars)
  BY StoreStep DEF Implements
<1> QED BY <1>1, StoreInit, HeapInvariance, PTL DEF Spec, StoreSpec, Store!Spec
=============================================================================
