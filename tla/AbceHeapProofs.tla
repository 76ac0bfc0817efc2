--------------------------- MODULE AbceHeapProofs ---------------------------
(***************************************************************************)
(* Theorems about AbceHeap for every set of addresses and every bound:     *)
(* what the operators of RefSeqs do, for sequences over any set, and the   *)
(* types of the heap.                                                      *)
(***************************************************************************)
EXTENDS AbceHeap, FiniteSetTheorems, FunctionTheorems, SequenceTheorems, TLAPS

-----------------------------------------------------------------------------
(* Sequences of references.                                                *)

\* The slots of the objects of P that hold o.
SlotsIn(K, P, o) == UNION {{p} \X {i \in DOMAIN K[p] : K[p][i] = o} : p \in P}

\* Swap-removal is one entry shorter and puts the last entry in the hole.
LEMMA SwapRemoveFacts ==
  ASSUME NEW S, NEW t \in Seq(S), t # <<>>, NEW i
  PROVE  /\ SwapRemove(t, i) \in Seq(S)
         /\ Len(SwapRemove(t, i)) = Len(t) - 1
         /\ \A j \in 1 .. Len(t) - 1 :
              SwapRemove(t, i)[j] = IF j = i THEN t[Len(t)] ELSE t[j]
<1> DEFINE e(j) == IF j = i THEN t[Len(t)] ELSE t[j]
<1>1. Len(t) \in Nat \ {0} /\ DOMAIN t = 1 .. Len(t)
  BY EmptySeq, LenProperties
<1>2. \A j \in 1 .. Len(t) - 1 : e(j) \in S
  BY <1>1, ElementOfSeq
<1>3. SwapRemove(t, i) = [j \in 1 .. Len(t) - 1 |-> e(j)]
  BY DEF SwapRemove
<1> HIDE DEF e
<1>4. [j \in 1 .. Len(t) - 1 |-> e(j)] \in Seq(S)
  BY <1>1, <1>2, IsASeq
<1>5. Len([j \in 1 .. Len(t) - 1 |-> e(j)]) = Len(t) - 1
  BY <1>1, <1>4, LenProperties
<1> QED BY <1>1, <1>3, <1>4, <1>5 DEF e

\* The places an entry occurs at form a finite set.
LEMMA PlacesFinite ==
  ASSUME NEW S, NEW s \in Seq(S), NEW o
  PROVE  IsFiniteSet({i \in DOMAIN s : s[i] = o})
<1>1. DOMAIN s = 1 .. Len(s) /\ Len(s) \in Nat
  BY LenProperties
<1>2. IsFiniteSet(1 .. Len(s))
  BY <1>1, FS_Interval
<1> QED BY <1>1, <1>2, FS_Subset

LEMMA OccurrencesType ==
  ASSUME NEW S, NEW s \in Seq(S), NEW o
  PROVE  Occurrences(s, o) \in Nat
BY PlacesFinite, FS_CardinalityType DEF Occurrences

\* An entry occurs exactly when it is in the range.
LEMMA OccurrencesPositive ==
  ASSUME NEW S, NEW s \in Seq(S), NEW o
  PROVE  Occurrences(s, o) = 0 <=> \A i \in DOMAIN s : s[i] # o
<1>1. IsFiniteSet({i \in DOMAIN s : s[i] = o})
  BY PlacesFinite
<1>2. Occurrences(s, o) = 0 <=> {i \in DOMAIN s : s[i] = o} = {}
  BY <1>1, FS_EmptySet DEF Occurrences
<1> QED BY <1>2

LEMMA OccurrencesEmpty ==
  ASSUME NEW o PROVE Occurrences(<<>>, o) = 0
<1>1. {i \in DOMAIN <<>> : <<>>[i] = o} = {}
  OBVIOUS
<1> QED BY <1>1, FS_EmptySet DEF Occurrences

\* One more entry at the end.
LEMMA OccurrencesExtend ==
  ASSUME NEW S, NEW s \in Seq(S), NEW t \in Seq(S), NEW o,
         Len(t) = Len(s) + 1, \A i \in 1 .. Len(s) : t[i] = s[i]
  PROVE  Occurrences(t, o)
           = Occurrences(s, o) + (IF t[Len(t)] = o THEN 1 ELSE 0)
<1> DEFINE P == {i \in DOMAIN s : s[i] = o}
           n == Len(s) + 1
<1>1. /\ Len(s) \in Nat /\ DOMAIN s = 1 .. Len(s)
      /\ DOMAIN t = 1 .. n
  BY LenProperties
<1>2. n \notin P
  BY <1>1
<1>3. {i \in DOMAIN t : t[i] = o} = IF t[n] = o THEN P \cup {n} ELSE P
  BY <1>1
<1>4. IsFiniteSet(P) /\ Cardinality(P) \in Nat
  BY PlacesFinite, FS_CardinalityType
<1>5. Cardinality(P \cup {n}) = Cardinality(P) + 1
  BY <1>2, <1>4, FS_AddElement
<1>6. Occurrences(t, o) = Cardinality(IF t[n] = o THEN P \cup {n} ELSE P)
  BY <1>3 DEF Occurrences
<1>7. Occurrences(s, o) = Cardinality(P)
  BY DEF Occurrences
<1> HIDE DEF P
<1> QED BY <1>4, <1>5, <1>6, <1>7

LEMMA OccurrencesAppend ==
  ASSUME NEW S, NEW s \in Seq(S), NEW x \in S, NEW o
  PROVE  Occurrences(Append(s, x), o)
           = Occurrences(s, o) + (IF x = o THEN 1 ELSE 0)
<1> DEFINE t == Append(s, x)
<1>1. /\ t \in Seq(S) /\ Len(t) = Len(s) + 1 /\ t[Len(t)] = x
      /\ \A i \in 1 .. Len(s) : t[i] = s[i]
  BY AppendProperties
<1> HIDE DEF t
<1>2. Occurrences(t, o) = Occurrences(s, o) + (IF t[Len(t)] = o THEN 1 ELSE 0)
  BY <1>1, OccurrencesExtend
<1> QED BY <1>1, <1>2 DEF t

\* Dropping the last entry.
LEMMA OccurrencesFront ==
  ASSUME NEW S, NEW s \in Seq(S), s # <<>>, NEW o
  PROVE  Occurrences(s, o)
           = Occurrences(SubSeq(s, 1, Len(s) - 1), o)
             + (IF s[Len(s)] = o THEN 1 ELSE 0)
<1> DEFINE t == SubSeq(s, 1, Len(s) - 1)
<1>1. Len(s) \in Nat \ {0}
  BY EmptySeq
<1>2. /\ t \in Seq(S) /\ Len(s) = Len(t) + 1
      /\ \A i \in 1 .. Len(t) : s[i] = t[i]
  <2>1. Len(s) - 1 \in Int /\ \A i \in 1 .. Len(s) - 1 : s[i] \in S
    BY <1>1, ElementOfSeq
  <2>2. /\ t \in Seq(S)
        /\ Len(t) = IF 1 <= Len(s) - 1 THEN (Len(s) - 1) - 1 + 1 ELSE 0
        /\ \A i \in 1 .. (Len(s) - 1) - 1 + 1 : t[i] = s[1 + i - 1]
    BY <2>1, SubSeqProperties
  <2> HIDE DEF t
  <2>3. Len(t) = Len(s) - 1
    <3>1. Len(t) = IF 1 <= Len(s) - 1 THEN (Len(s) - 1) - 1 + 1 ELSE 0
      BY <2>2
    <3>2. ASSUME NEW n \in Nat, n # 0, NEW m, m = IF 1 <= n - 1 THEN (n - 1) - 1 + 1 ELSE 0
          PROVE m = n - 1
      BY <3>2
    <3> QED BY <1>1, <3>1, <3>2
  <2>4. \A i \in 1 .. Len(s) - 1 : 1 + i - 1 = i /\ i \in 1 .. (Len(s) - 1) - 1 + 1
    BY <1>1
  <2>5. \A i \in 1 .. Len(s) - 1 : s[i] = t[i]
    BY <2>2, <2>4
  <2> QED BY <1>1, <2>2, <2>3, <2>5
<1> HIDE DEF t
<1>3. Occurrences(s, o) = Occurrences(t, o) + (IF s[Len(s)] = o THEN 1 ELSE 0)
  BY <1>2, OccurrencesExtend
<1> QED BY <1>3 DEF t

\* Cutting the sequence off before an entry or behind it.
LEMMA OccurrencesCut ==
  ASSUME NEW S, NEW s \in Seq(S), NEW n \in 1 .. Len(s), NEW o
  PROVE  /\ SubSeq(s, 1, n) \in Seq(S) /\ SubSeq(s, 1, n - 1) \in Seq(S)
         /\ Len(SubSeq(s, 1, n)) = n
         /\ Occurrences(SubSeq(s, 1, n), o)
              = Occurrences(SubSeq(s, 1, n - 1), o) + (IF s[n] = o THEN 1 ELSE 0)
         /\ Occurrences(SubSeq(s, 1, Len(s)), o) = Occurrences(s, o)
<1> DEFINE t == SubSeq(s, 1, n)
           u == SubSeq(s, 1, n - 1)
<1>1. Len(s) \in Nat /\ n \in Nat /\ 1 <= n /\ n <= Len(s)
  OBVIOUS
<1>2. /\ t \in Seq(S) /\ Len(t) = n /\ \A i \in 1 .. n : t[i] = s[i]
      /\ u \in Seq(S) /\ Len(u) = n - 1 /\ \A i \in 1 .. n - 1 : u[i] = s[i]
  <2>1. t \in Seq(S) /\ Len(t) = n /\ \A i \in 1 .. n : t[i] = s[i]
    BY <1>1
  <2>2. u \in Seq(S) /\ Len(u) = n - 1 /\ \A i \in 1 .. n - 1 : u[i] = s[i]
    BY <1>1
  <2> QED BY <2>1, <2>2
<1>3. SubSeq(s, 1, Len(s)) = s
  OBVIOUS
<1> HIDE DEF t, u
<1>4. Len(t) = Len(u) + 1 /\ \A i \in 1 .. Len(u) : t[i] = u[i]
  BY <1>1, <1>2
<1>5. Occurrences(t, o) = Occurrences(u, o) + (IF t[Len(t)] = o THEN 1 ELSE 0)
  BY <1>2, <1>4, OccurrencesExtend, SMTT(30)
<1>6. t[Len(t)] = s[n]
  <2>1. n \in 1 .. n
    BY <1>1
  <2> QED BY <1>2, <2>1
<1> QED BY <1>2, <1>3, <1>5, <1>6 DEF t, u

\* Overwriting one entry.
LEMMA OccurrencesReplace ==
  ASSUME NEW S, NEW s \in Seq(S), NEW T, NEW t \in Seq(T), Len(t) = Len(s),
         NEW k \in 1 .. Len(s), \A i \in 1 .. Len(s) : i # k => t[i] = s[i], NEW o
  PROVE  Occurrences(t, o) + (IF s[k] = o THEN 1 ELSE 0)
           = Occurrences(s, o) + (IF t[k] = o THEN 1 ELSE 0)
<1> DEFINE P == {i \in DOMAIN s : s[i] = o}
           Q == {i \in DOMAIN t : t[i] = o}
           R == P \ {k}
<1>0. DOMAIN s = 1 .. Len(s) /\ DOMAIN t = 1 .. Len(s)
  BY LenProperties
<1>1. Q = IF t[k] = o THEN R \cup {k} ELSE R
  BY <1>0
<1>2. IsFiniteSet(P) /\ Cardinality(P) \in Nat
  BY PlacesFinite, FS_CardinalityType
<1>3. /\ IsFiniteSet(R) /\ Cardinality(R) \in Nat
      /\ Cardinality(R) = IF k \in P THEN Cardinality(P) - 1 ELSE Cardinality(P)
  BY <1>2, FS_RemoveElement, FS_CardinalityType
<1>4. Cardinality(R \cup {k}) = Cardinality(R) + 1
  BY <1>3, FS_AddElement
<1>5. k \in P <=> s[k] = o
  BY <1>0
<1>6. Cardinality(Q) = IF t[k] = o THEN Cardinality(R) + 1 ELSE Cardinality(R)
  BY <1>1, <1>4
<1>7. Occurrences(s, o) = Cardinality(P) /\ Occurrences(t, o) = Cardinality(Q)
  BY DEF Occurrences
<1> HIDE DEF P, Q, R
<1> QED BY <1>2, <1>3, <1>5, <1>6, <1>7

\* Dropping the first entry.
LEMMA OccurrencesTail ==
  ASSUME NEW S, NEW s \in Seq(S), s # <<>>, NEW o
  PROVE  Occurrences(s, o)
           = Occurrences(Tail(s), o) + (IF Head(s) = o THEN 1 ELSE 0)
<1> DEFINE P == {i \in DOMAIN s : s[i] = o}
           T == {i \in DOMAIN Tail(s) : Tail(s)[i] = o}
           R == P \ {1}
           f == [i \in T |-> i + 1]
<1>1. /\ Len(s) \in Nat \ {0} /\ DOMAIN s = 1 .. Len(s) /\ Head(s) = s[1]
      /\ DOMAIN Tail(s) = 1 .. Len(s) - 1
      /\ \A i \in 1 .. Len(s) - 1 : Tail(s)[i] = s[i + 1]
  BY EmptySeq, LenProperties, HeadTailProperties
<1>2. IsFiniteSet(P) /\ Cardinality(P) \in Nat
  BY PlacesFinite, FS_CardinalityType
<1>3. IsFiniteSet(T)
  <2>1. Tail(s) \in Seq(S)
    BY HeadTailProperties
  <2> QED BY <2>1, PlacesFinite
<1>4. f \in Bijection(T, R)
  <2>1. \A i \in T : f[i] \in R
    BY <1>1
  <2>2. \A i, j \in T : f[i] = f[j] => i = j
    BY <1>1
  <2>3. \A j \in R : j - 1 \in T /\ f[j - 1] = j
    BY <1>1
  <2>4. f \in [T -> R]
    BY <2>1
  <2>5. \A j \in R : \E i \in T : f[i] = j
    BY <2>3
  <2> HIDE DEF T, R, f
  <2> QED BY <2>2, <2>4, <2>5 DEF Bijection, Injection, Surjection, IsInjective
<1>5. Cardinality(R) = Cardinality(T)
  BY <1>3, <1>4, FS_Bijection DEF ExistsBijection
<1>6. Cardinality(R) = IF 1 \in P THEN Cardinality(P) - 1 ELSE Cardinality(P)
  BY <1>2, FS_RemoveElement
<1>7. 1 \in P <=> Head(s) = o
  BY <1>1
<1>8. Occurrences(s, o) = Cardinality(P) /\ Occurrences(Tail(s), o) = Cardinality(T)
  BY DEF Occurrences
<1> HIDE DEF P, T
<1> QED BY <1>2, <1>5, <1>6, <1>7, <1>8

\* Short sequences.
LEMMA OccurrencesShort ==
  ASSUME NEW S, NEW a \in S, NEW b \in S, NEW c \in S, NEW d \in S, NEW o
  PROVE  /\ Occurrences(<<a>>, o) = IF a = o THEN 1 ELSE 0
         /\ Occurrences(<<a, b>>, o)
              = (IF a = o THEN 1 ELSE 0) + (IF b = o THEN 1 ELSE 0)
         /\ Occurrences(<<a, b, c>>, o)
              = (IF a = o THEN 1 ELSE 0) + (IF b = o THEN 1 ELSE 0)
                + (IF c = o THEN 1 ELSE 0)
         /\ Occurrences(<<a, b, c, d>>, o)
              = (IF a = o THEN 1 ELSE 0) + (IF b = o THEN 1 ELSE 0)
                + (IF c = o THEN 1 ELSE 0) + (IF d = o THEN 1 ELSE 0)
<1> DEFINE s0 == <<>>
           s1 == <<a>>
           s2 == <<a, b>>
           s3 == <<a, b, c>>
           s4 == <<a, b, c, d>>
<1>1. /\ s0 \in Seq(S) /\ s1 \in Seq(S) /\ Len(s1) = Len(s0) + 1
      /\ s1[Len(s1)] = a
      /\ \A i \in 1 .. Len(s0) : s1[i] = s0[i]
  OBVIOUS
<1>2. /\ s1 \in Seq(S) /\ s2 \in Seq(S) /\ Len(s2) = Len(s1) + 1
      /\ s2[Len(s2)] = b
      /\ \A i \in 1 .. Len(s1) : s2[i] = s1[i]
  OBVIOUS
<1>3. /\ s2 \in Seq(S) /\ s3 \in Seq(S) /\ Len(s3) = Len(s2) + 1
      /\ s3[Len(s3)] = c
      /\ \A i \in 1 .. Len(s2) : s3[i] = s2[i]
  OBVIOUS
<1>4. /\ s3 \in Seq(S) /\ s4 \in Seq(S) /\ Len(s4) = Len(s3) + 1
      /\ s4[Len(s4)] = d
      /\ \A i \in 1 .. Len(s3) : s4[i] = s3[i]
  OBVIOUS
<1>5. Occurrences(s0, o) = 0
  BY OccurrencesEmpty
<1> HIDE DEF s0, s1, s2, s3, s4
<1>6. Occurrences(s1, o) = Occurrences(s0, o) + (IF a = o THEN 1 ELSE 0)
  <2>1. Occurrences(s1, o)
          = Occurrences(s0, o) + (IF s1[Len(s1)] = o THEN 1 ELSE 0)
    BY <1>1, OccurrencesExtend
  <2> QED BY <1>1, <2>1
<1>7. Occurrences(s2, o) = Occurrences(s1, o) + (IF b = o THEN 1 ELSE 0)
  <2>1. Occurrences(s2, o)
          = Occurrences(s1, o) + (IF s2[Len(s2)] = o THEN 1 ELSE 0)
    BY <1>2, OccurrencesExtend
  <2> QED BY <1>2, <2>1
<1>8. Occurrences(s3, o) = Occurrences(s2, o) + (IF c = o THEN 1 ELSE 0)
  <2>1. Occurrences(s3, o)
          = Occurrences(s2, o) + (IF s3[Len(s3)] = o THEN 1 ELSE 0)
    BY <1>3, OccurrencesExtend
  <2> QED BY <1>3, <2>1
<1>9. Occurrences(s4, o) = Occurrences(s3, o) + (IF d = o THEN 1 ELSE 0)
  <2>1. Occurrences(s4, o)
          = Occurrences(s3, o) + (IF s4[Len(s4)] = o THEN 1 ELSE 0)
    BY <1>4, OccurrencesExtend
  <2> QED BY <1>4, <2>1
<1> QED BY <1>5, <1>6, <1>7, <1>8, <1>9 DEF s1, s2, s3, s4

-----------------------------------------------------------------------------
(* Which set a sequence is over.                                           *)

\* A sequence over a set is one over any larger set.
LEMMA SeqWider ==
  ASSUME NEW S, NEW T, S \subseteq T, NEW s \in Seq(S)
  PROVE  s \in Seq(T)
<1>1. Len(s) \in Nat /\ \A i \in 1 .. Len(s) : s[i] \in T
  BY ElementOfSeq
<1>2. s = [i \in 1 .. Len(s) |-> s[i]]
  OBVIOUS
<1> QED BY <1>1, <1>2, IsASeq

\* A sequence over a set is one over every set its entries are in.
LEMMA SeqInto ==
  ASSUME NEW S, NEW T, NEW s \in Seq(S), \A i \in DOMAIN s : s[i] \in T
  PROVE  s \in Seq(T)
<1>1. Len(s) \in Nat /\ DOMAIN s = 1 .. Len(s)
  BY LenProperties
<1>2. s = [i \in 1 .. Len(s) |-> s[i]] /\ \A i \in 1 .. Len(s) : s[i] \in T
  BY <1>1
<1> QED BY <1>1, <1>2, IsASeq

\* What does not occur is not needed in the set.
LEMMA SeqWithout ==
  ASSUME NEW S, NEW s \in Seq(S), NEW o, Occurrences(s, o) = 0
  PROVE  s \in Seq(S \ {o})
<1>1. \A i \in DOMAIN s : s[i] # o
  BY OccurrencesPositive
<1>2. \A i \in DOMAIN s : s[i] \in S \ {o}
  BY <1>1, LenProperties, ElementOfSeq
<1> QED BY <1>2, SeqInto

\* Putting one sequence behind another.
LEMMA OccurrencesConcat ==
  ASSUME NEW S, NEW s \in Seq(S), NEW t \in Seq(S), NEW o
  PROVE  Occurrences(s \o t, o) = Occurrences(s, o) + Occurrences(t, o)
<1> DEFINE m == Len(s)
           P == {i \in DOMAIN s : s[i] = o}
           Q == {i \in DOMAIN t : t[i] = o}
           R == {i \in DOMAIN (s \o t) : (s \o t)[i] = o}
           Q2 == R \ P
           f == [i \in Q |-> i + m]
<1>1. /\ m \in Nat /\ Len(t) \in Nat
      /\ DOMAIN s = 1 .. m /\ DOMAIN t = 1 .. Len(t)
      /\ s \o t \in Seq(S) /\ DOMAIN (s \o t) = 1 .. m + Len(t)
      /\ \A i \in 1 .. m + Len(t) : (s \o t)[i] = IF i <= m THEN s[i] ELSE t[i - m]
  BY ConcatProperties, LenProperties
<1>2. IsFiniteSet(P) /\ IsFiniteSet(Q) /\ IsFiniteSet(R)
  BY <1>1, PlacesFinite
<1>3. P \subseteq R /\ \A i \in Q2 : i > m
  BY <1>1
<1>4. f \in Bijection(Q, Q2)
  <2>1. \A i \in Q : f[i] \in Q2
    BY <1>1
  <2>2. \A i, j \in Q : f[i] = f[j] => i = j
    BY <1>1
  <2>3. \A j \in Q2 : j - m \in Q /\ f[j - m] = j
    BY <1>1
  <2>4. f \in [Q -> Q2]
    BY <2>1
  <2>5. \A j \in Q2 : \E i \in Q : f[i] = j
    BY <2>3
  <2> HIDE DEF Q, Q2, f
  <2> QED BY <2>2, <2>4, <2>5 DEF Bijection, Injection, Surjection, IsInjective
<1>5. Cardinality(Q2) = Cardinality(Q) /\ IsFiniteSet(Q2)
  BY <1>2, <1>4, FS_Bijection DEF ExistsBijection
<1>6. Cardinality(Q2) = Cardinality(R) - Cardinality(R \cap P)
  BY <1>2, FS_Difference
<1>7. R \cap P = P
  BY <1>3
<1>8. Cardinality(P) \in Nat /\ Cardinality(Q) \in Nat /\ Cardinality(R) \in Nat
  BY <1>2, FS_CardinalityType
<1>9. /\ Occurrences(s, o) = Cardinality(P) /\ Occurrences(t, o) = Cardinality(Q)
      /\ Occurrences(s \o t, o) = Cardinality(R)
  BY DEF Occurrences
<1> HIDE DEF m, f, P, Q, R, Q2
<1>10. Cardinality(R \cap P) = Cardinality(P)
  BY <1>7
<1>11. ASSUME NEW p \in Nat, NEW q \in Nat, NEW r \in Nat, q = r - p
       PROVE  r = p + q
  BY <1>11
<1>12. Cardinality(R) = Cardinality(P) + Cardinality(Q)
  BY <1>5, <1>6, <1>8, <1>10, <1>11
<1> QED BY <1>9, <1>12

\* In a table without repetitions swap-removal takes out exactly one entry.
LEMMA SwapRemoveTable ==
  ASSUME NEW S, NEW t \in Seq(S), NEW k \in DOMAIN t,
         \A i, j \in DOMAIN t : t[i] = t[j] => i = j
  PROVE  LET u == SwapRemove(t, k)
         IN  /\ u \in Seq(S) /\ Len(u) = Len(t) - 1
             /\ \A i, j \in DOMAIN u : u[i] = u[j] => i = j
             /\ \A i \in DOMAIN u : /\ i \in DOMAIN t /\ i # Len(t)
                                    /\ u[i] = IF i = k THEN t[Len(t)] ELSE t[i]
             /\ \A x : (\E i \in DOMAIN u : u[i] = x)
                         <=> (\E i \in DOMAIN t : t[i] = x) /\ x # t[k]
<1>1. Len(t) \in Nat /\ DOMAIN t = 1 .. Len(t) /\ t # <<>>
  BY LenProperties
<1>0. /\ SwapRemove(t, k) \in Seq(S)
      /\ Len(SwapRemove(t, k)) = Len(t) - 1
      /\ \A j \in 1 .. Len(t) - 1 :
           SwapRemove(t, k)[j] = IF j = k THEN t[Len(t)] ELSE t[j]
  <2>1. \A x : /\ SwapRemove(t, x) \in Seq(S)
               /\ Len(SwapRemove(t, x)) = Len(t) - 1
               /\ \A j \in 1 .. Len(t) - 1 :
                    SwapRemove(t, x)[j] = IF j = x THEN t[Len(t)] ELSE t[j]
    BY <1>1, SwapRemoveFacts
  <2> QED BY <2>1
<1> DEFINE u == SwapRemove(t, k)
<1>2. /\ u \in Seq(S) /\ Len(u) = Len(t) - 1
      /\ \A j \in 1 .. Len(t) - 1 : u[j] = IF j = k THEN t[Len(t)] ELSE t[j]
  BY <1>0
<1> HIDE DEF u
<1>3. DOMAIN u = 1 .. Len(t) - 1
  BY <1>2, LenProperties
<1>4. \A i, j \in DOMAIN u : u[i] = u[j] => i = j
  BY <1>1, <1>2, <1>3
<1>5. \A i \in DOMAIN u : i \in DOMAIN t /\ i # Len(t) /\ u[i] = IF i = k THEN t[Len(t)] ELSE t[i]
  BY <1>1, <1>2, <1>3
<1>6. ASSUME NEW x PROVE (\E i \in DOMAIN u : u[i] = x)
                         <=> (\E i \in DOMAIN t : t[i] = x) /\ x # t[k]
  <2>1. ASSUME NEW i \in DOMAIN u, u[i] = x
        PROVE  (\E j \in DOMAIN t : t[j] = x) /\ x # t[k]
    BY <2>1, <1>1, <1>5
  <2>2. ASSUME NEW i \in DOMAIN t, t[i] = x, x # t[k]
        PROVE  \E j \in DOMAIN u : u[j] = x
    <3>1. CASE i = Len(t)
      <4>1. k \in DOMAIN u /\ u[k] = x
        BY <3>1, <2>2, <1>1, <1>2, <1>3
      <4> QED BY <4>1
    <3>2. CASE i # Len(t)
      <4>1. i \in DOMAIN u /\ u[i] = x
        BY <3>2, <2>2, <1>1, <1>2, <1>3
      <4> QED BY <4>1
    <3> QED BY <3>1, <3>2
  <2> QED BY <2>1, <2>2
<1> QED BY <1>2, <1>4, <1>5, <1>6 DEF u

\* A sequence in which an entry occurs at most once has it at one place.
LEMMA OccurrencesOnce ==
  ASSUME NEW S, NEW s \in Seq(S), NEW o,
         \A i, j \in DOMAIN s : s[i] = s[j] => i = j
  PROVE  Occurrences(s, o) = IF \E i \in DOMAIN s : s[i] = o THEN 1 ELSE 0
<1>1. CASE \E i \in DOMAIN s : s[i] = o
  <2>1. PICK i \in DOMAIN s : s[i] = o
    BY <1>1
  <2>2. {j \in DOMAIN s : s[j] = o} = {i}
    BY <2>1
  <2> QED BY <1>1, <2>2, FS_Singleton DEF Occurrences
<1>2. CASE ~\E i \in DOMAIN s : s[i] = o
  <2>1. Occurrences(s, o) = 0
    BY <1>2, OccurrencesPositive
  <2> QED BY <1>2, <2>1
<1> QED BY <1>1, <1>2

-----------------------------------------------------------------------------
(* The slots of a set of objects that hold a reference.                    *)

LEMMA PairsOf ==
  ASSUME NEW p, NEW T, IsFiniteSet(T)
  PROVE  IsFiniteSet({p} \X T) /\ Cardinality({p} \X T) = Cardinality(T)
<1>1. IsFiniteSet({p}) /\ Cardinality({p}) = 1
  BY FS_Singleton
<1>2. IsFiniteSet({p} \X T) /\ Cardinality({p} \X T) = Cardinality({p}) * Cardinality(T)
  BY <1>1, FS_Product
<1>3. Cardinality(T) \in Nat
  BY FS_CardinalityType
<1>4. \A n \in Nat : 1 * n = n
  OBVIOUS
<1> QED BY <1>1, <1>2, <1>3, <1>4

LEMMA SlotsFinite ==
  ASSUME NEW P, IsFiniteSet(P), NEW S, NEW K, \A p \in P : K[p] \in Seq(S), NEW o
  PROVE  IsFiniteSet(SlotsIn(K, P, o)) /\ Cardinality(SlotsIn(K, P, o)) \in Nat
<1> DEFINE D(p) == {i \in DOMAIN K[p] : K[p][i] = o}
           F(p) == {p} \X D(p)
           f == [p \in P |-> F(p)]
           T == {F(p) : p \in P}
<1>1. ASSUME NEW p \in P PROVE IsFiniteSet(F(p))
  <2>1. IsFiniteSet(D(p))
    BY PlacesFinite
  <2> HIDE DEF D
  <2> QED BY <2>1, PairsOf
<1>2. f \in Surjection(P, T)
  BY Zenon DEF Surjection
<1>3. IsFiniteSet(T)
  BY <1>2, FS_Surjection
<1>4. IsFiniteSet(UNION T)
  <2>1. \A x \in T : IsFiniteSet(x)
    BY <1>1
  <2> HIDE DEF T
  <2> QED BY <1>3, <2>1, FS_UNION
<1>5. SlotsIn(K, P, o) = UNION T
  BY DEF SlotsIn
<1> HIDE DEF T
<1> QED BY <1>4, <1>5, FS_CardinalityType

\* The slots of one object apart.
LEMMA SlotsSplit ==
  ASSUME NEW P, IsFiniteSet(P), NEW S, NEW K, \A p \in P : K[p] \in Seq(S), NEW o, NEW q \in P
  PROVE  Cardinality(SlotsIn(K, P, o))
           = Occurrences(K[q], o) + Cardinality(SlotsIn(K, P \ {q}, o))
<1> DEFINE A == {q} \X {i \in DOMAIN K[q] : K[q][i] = o}
           B == SlotsIn(K, P \ {q}, o)
<1>1. SlotsIn(K, P, o) = A \cup B
  <2>1. ASSUME NEW x \in SlotsIn(K, P, o) PROVE x \in A \cup B
    <3>1. PICK p \in P : x \in {p} \X {i \in DOMAIN K[p] : K[p][i] = o}
      BY DEF SlotsIn
    <3>2. CASE p = q
      BY <3>1, <3>2
    <3>3. CASE p # q
      BY <3>1, <3>3 DEF SlotsIn
    <3> QED BY <3>2, <3>3
  <2>2. A \subseteq SlotsIn(K, P, o) /\ B \subseteq SlotsIn(K, P, o)
    BY DEF SlotsIn
  <2> QED BY <2>1, <2>2
<1>2. A \cap B = {}
  BY DEF SlotsIn
<1>3. IsFiniteSet(A) /\ Cardinality(A) = Occurrences(K[q], o)
  <2> DEFINE D == {i \in DOMAIN K[q] : K[q][i] = o}
  <2>1. IsFiniteSet(D)
    BY PlacesFinite
  <2>2. Occurrences(K[q], o) = Cardinality(D)
    BY DEF Occurrences
  <2> HIDE DEF D
  <2>3. IsFiniteSet({q} \X D) /\ Cardinality({q} \X D) = Cardinality(D)
    BY <2>1, PairsOf
  <2> QED BY <2>2, <2>3 DEF D
<1>4. IsFiniteSet(B)
  BY SlotsFinite, FS_RemoveElement
<1> HIDE DEF A, B
<1>5. Cardinality(A \cup B) = Cardinality(A) + Cardinality(B) - Cardinality(A \cap B)
  BY <1>3, <1>4, FS_Union
<1>6. Cardinality(A) \in Nat /\ Cardinality(B) \in Nat /\ Cardinality(A \cap B) = 0
  BY <1>2, <1>3, <1>4, FS_CardinalityType, FS_EmptySet
<1> QED BY <1>1, <1>3, <1>5, <1>6 DEF B

\* Objects that have the same contents have the same slots.
LEMMA SlotsSame ==
  ASSUME NEW P, NEW K, NEW L, \A p \in P : K[p] = L[p], NEW o
  PROVE  SlotsIn(K, P, o) = SlotsIn(L, P, o)
BY DEF SlotsIn

\* Objects that do not hold o do not matter.
LEMMA SlotsOnly ==
  ASSUME NEW P, NEW Q, Q \subseteq P, NEW K, NEW o,
         \A p \in P \ Q : \A i \in DOMAIN K[p] : K[p][i] # o
  PROVE  SlotsIn(K, P, o) = SlotsIn(K, Q, o)
BY DEF SlotsIn

\* No slots at all.
LEMMA SlotsNone ==
  ASSUME NEW P, IsFiniteSet(P), NEW S, NEW K, \A p \in P : K[p] \in Seq(S), NEW o
  PROVE  Cardinality(SlotsIn(K, P, o)) = 0
           <=> \A p \in P : Occurrences(K[p], o) = 0
<1>1. IsFiniteSet(SlotsIn(K, P, o))
  BY SlotsFinite
<1>2. Cardinality(SlotsIn(K, P, o)) = 0 <=> SlotsIn(K, P, o) = {}
  BY <1>1, FS_EmptySet
<1>3. SlotsIn(K, P, o) = {} <=> \A p \in P : \A i \in DOMAIN K[p] : K[p][i] # o
  <2>1. ASSUME NEW p \in P, NEW i \in DOMAIN K[p], K[p][i] = o
        PROVE  <<p, i>> \in SlotsIn(K, P, o)
    BY <2>1 DEF SlotsIn
  <2>2. ASSUME NEW x \in SlotsIn(K, P, o)
        PROVE  \E p \in P : \E i \in DOMAIN K[p] : K[p][i] = o
    BY DEF SlotsIn
  <2> QED BY <2>1, <2>2
<1>4. \A p \in P : Occurrences(K[p], o) = 0 <=> \A i \in DOMAIN K[p] : K[p][i] # o
  BY OccurrencesPositive
<1> QED BY <1>2, <1>3, <1>4

-----------------------------------------------------------------------------
(***************************************************************************)
(* Typing is inductive once it is known which operation is in progress at  *)
(* which point of the C code, and what that operation has found there.     *)
(***************************************************************************)
Creating == {"create", "new", "scope"}
Progress ==
  /\ pc = "run" => op = "none"
  /\ pc = "drop" => op \in {"none", "free"}
  /\ pc = "made" => hand # Nil
  /\ hand # Nil => op \in Creating
  /\ op \in Creating => want # "none"
  /\ op \in {"append", "scope"} => Len(stack) >= 2
TypeInv == TypeOK /\ Progress

\* A collection begun inside a free runs to its end before anything else does;
\* at most the first was begun by a cascade, and that of no abce_free.
Returns ==
  /\ ret # <<>> => pc \in {"mark", "refdn", "sweep"}
  /\ \A i \in DOMAIN ret : ret[i].pc = "drop" => i = Len(ret) /\ op = "none"

\* Counting one more reference keeps the counts natural numbers.
LEMMA UpType ==
  ASSUME NEW rc \in [Obj -> Nat], NEW o \in Ref
  PROVE  Up(rc, o) \in [Obj -> Nat]
BY DEF Up, Ref

\* The slots of the value stack hold references.
LEMMA StackSlots ==
  ASSUME TypeOK
  PROVE  /\ N \in Nat /\ N = Len(stack)
         /\ \A d \in 1 .. N : At(d) \in Ref
         /\ \A d \in 0 .. N : Below(d) \in Seq(Ref) /\ Len(Below(d)) = N - d
<1>1. stack \in Seq(Ref) /\ N \in Nat /\ \A i \in 1 .. N : stack[i] \in Ref
  BY DEF TypeOK, RootsOK, N
<1>2. \A d \in 1 .. N : At(d) \in Ref
  BY <1>1 DEF At
<1>3. \A d \in 0 .. N : Below(d) \in Seq(Ref) /\ Len(Below(d)) = N - d
  BY <1>1 DEF Below
<1> QED BY <1>1, <1>2, <1>3 DEF N

\* The table after a swap-removal, the scratch area one deeper.
LEMMA ShorterTable ==
  ASSUME HeapOK, NEW i \in Nat
  PROVE  SwapRemove(tab, i) \in Seq(Obj)
<1>1. CASE tab = <<>>
  <2>1. Len(tab) = 0
    BY <1>1
  <2>2. SwapRemove(tab, i) = [j \in 1 .. -1 |-> IF j = i THEN tab[0] ELSE tab[j]]
    BY <2>1 DEF SwapRemove
  <2> QED BY <2>2
<1>2. CASE tab # <<>>
  BY <1>2, SwapRemoveFacts DEF HeapOK
<1> QED BY <1>1, <1>2

\* The table behind abce_setup_mb_for_gc.
LEMMA SetupTypes ==
  ASSUME HeapOK, NEW o \in Obj, SetupForGc(o)
  PROVE  tab' \in Seq(Obj) /\ locidx' \in [Obj -> Nat] /\ cap' \in Nat
<1>1. tab \in Seq(Obj) /\ locidx \in [Obj -> Nat] /\ cap \in Nat
  BY DEF HeapOK
<1>2. tab' = Append(tab, o) /\ locidx' = [locidx EXCEPT ![o] = Len(tab) + 1] /\ cap' \in {cap, 2 * cap}
  BY DEF SetupForGc, GrownCap
<1>3. tab' \in Seq(Obj)
  BY <1>1, <1>2
<1>4. locidx' \in [Obj -> Nat]
  <2>1. Len(tab) + 1 \in Nat
    BY <1>1
  <2> QED BY <1>1, <1>2, <2>1
<1> QED BY <1>1, <1>2, <1>3, <1>4

\* Dropping a reference keeps the types of the heap.
LEMMA RefDnTypes ==
  ASSUME HeapOK, NEW o \in Ref, RefDn(o)
  PROVE  HeapOK'
<1>1. CASE RefDnStatic(o)
  BY <1>1 DEF RefDnStatic, heap, HeapOK
<1>2. CASE RefDnShared(o)
  BY <1>2 DEF RefDnShared, HeapOK, Ref
<1>3. CASE RefDnLast(o)
  <2>1. o \in Obj
    BY <1>3 DEF RefDnLast, Ref
  <2>2. refcnt' \in [Obj -> Nat] /\ kids' = kids /\ cap' = cap
    BY <1>3, <2>1 DEF RefDnLast, HeapOK
  <2>3. locidx' \in [Obj -> Nat]
    BY <1>3, <2>1 DEF RefDnLast, MovedIndex, HeapOK
  <2>4. tab' \in Seq(Obj)
    BY <1>3, <2>1, ShorterTable DEF RefDnLast, HeapOK
  <2>5. CASE kind[o] \in Containers
    <3>1. scratch' = <<o>> \o scratch /\ kind' = kind
      BY <1>3, <2>5 DEF RefDnLast, Retire
    <3> QED BY <2>1, <2>2, <2>3, <2>4, <3>1 DEF HeapOK
  <2>6. CASE kind[o] \notin Containers
    <3>1. kind' = [kind EXCEPT ![o] = "free"] /\ scratch' = scratch
      BY <1>3, <2>6 DEF RefDnLast, Retire
    <3> QED BY <2>1, <2>2, <2>3, <2>4, <3>1 DEF HeapOK
  <2> QED BY <2>5, <2>6
<1> QED BY <1>1, <1>2, <1>3 DEF RefDn

-----------------------------------------------------------------------------
\* What is left of a sequence behind its first entry.
LEMMA HeadAndTail ==
  ASSUME NEW S, NEW s \in Seq(S), s # <<>>
  PROVE  /\ Len(s) \in Nat \ {0} /\ 1 \in DOMAIN s /\ Head(s) = s[1] /\ Head(s) \in S
         /\ Tail(s) \in Seq(S) /\ Len(Tail(s)) = Len(s) - 1
         /\ DOMAIN Tail(s) = 1 .. Len(s) - 1
         /\ \A i \in 1 .. Len(s) - 1 : Tail(s)[i] = s[i + 1] /\ i + 1 \in DOMAIN s
OBVIOUS

\* Every step keeps the types.
LEMMA TypeStep ==
  TypeInv /\ Returns /\ [Next]_vars => TypeInv'
<1> SUFFICES ASSUME HeapOK, RootsOK, ControlOK, Progress, Returns, [Next]_vars
             PROVE  TypeInv'
  BY DEF TypeInv, TypeOK
<1>h. UNCHANGED heap => HeapOK'
  BY DEF heap, HeapOK
<1>r. UNCHANGED roots => RootsOK'
  BY DEF roots, RootsOK
<1>s. /\ N \in Nat /\ N = Len(stack)
      /\ \A d \in 1 .. N : At(d) \in Ref
      /\ \A d \in 0 .. N : Below(d) \in Seq(Ref) /\ Len(Below(d)) = N - d
  BY StackSlots DEF TypeOK
<1>n. Nil \in Ref
  BY DEF Ref
<1>1. CASE PushNil
  <2>1. HeapOK'
    BY <1>1, <1>h DEF PushNil, Engine, Idle
  <2>2. RootsOK'
    BY <1>1, <1>s, <1>n
    DEF PushNil, Engine, Idle, HeapOK, RootsOK, ControlOK
  <2>3. ControlOK'
    BY <1>1 DEF PushNil, Engine, Idle, ctl, tear, gcl, ControlOK
  <2>4. Progress'
    BY <1>1, <1>s
    DEF PushNil, Engine, Idle, ctl, Creating, Progress, ControlOK
  <2> QED BY <2>1, <2>2, <2>3, <2>4 DEF TypeInv, TypeOK
<1>2. CASE Pop
  <2>1. HeapOK'
    BY <1>2, <1>h DEF Pop, Engine, Idle, Release
  <2>2. RootsOK'
    BY <1>2, <1>s DEF Pop, Engine, Idle, Release, HeapOK, RootsOK, ControlOK
  <2>3. ControlOK'
    BY <1>2, <1>s
    DEF Pop, Engine, Idle, Release, ctl, tear, gcl, ControlOK, RootsOK
  <2>4. Progress'
    BY <1>2, <1>s
    DEF Pop, Engine, Idle, Release, ctl, Creating, Progress, ControlOK
  <2> QED BY <2>1, <2>2, <2>3, <2>4 DEF TypeInv, TypeOK
<1>3. CASE \E d \in 1 .. 3 : TypeError(d)
  <2>1. HeapOK'
    <3>1. \E x \in Ref : refcnt' = Up(refcnt, x)
      BY <1>3, <1>n, <1>s DEF TypeError
    <3>2. refcnt' \in [Obj -> Nat]
      BY <3>1, UpType DEF HeapOK
    <3> QED BY <1>3, <3>2 DEF TypeError, HeapOK
  <2>2. RootsOK'
    BY <1>3, <1>s DEF TypeError, Engine, Idle, HeapOK, RootsOK, ControlOK
  <2>3. ControlOK'
    BY <1>3 DEF TypeError, Engine, Idle, ctl, tear, gcl, ControlOK
  <2>4. Progress'
    BY <1>3 DEF TypeError, Engine, Idle, ctl, Creating, Progress, ControlOK
  <2> QED BY <2>1, <2>2, <2>3, <2>4 DEF TypeInv, TypeOK
<1>4. CASE ErrFree
  <2>1. HeapOK'
    BY <1>4, <1>h DEF ErrFree, Idle, Release
  <2>2. RootsOK'
    BY <1>4, <1>n DEF ErrFree, Idle, Release, HeapOK, RootsOK, ControlOK
  <2>3. ControlOK'
    BY <1>4 DEF ErrFree, Idle, Release, ctl, tear, gcl, ControlOK, RootsOK
  <2>4. Progress'
    BY <1>4 DEF ErrFree, Idle, Release, ctl, Creating, Progress, ControlOK
  <2> QED BY <2>1, <2>2, <2>3, <2>4 DEF TypeInv, TypeOK
<1>5. CASE PushStack
  <2>1. HeapOK'
    <3>1. \E x \in Ref : refcnt' = Up(refcnt, x)
      BY <1>5, <1>n, <1>s DEF PushStack, ReplaceTop, RootsOK
    <3>2. refcnt' \in [Obj -> Nat]
      BY <3>1, UpType DEF HeapOK
    <3> QED BY <1>5, <3>2 DEF PushStack, ReplaceTop, HeapOK
  <2>2. RootsOK'
    BY <1>5, <1>s
    DEF PushStack, ReplaceTop, Engine, Idle, HeapOK, RootsOK, ControlOK
  <2>3. ControlOK'
    BY <1>5
    DEF PushStack, ReplaceTop, Engine, Idle, ctl, tear, gcl, ControlOK
  <2>4. Progress'
    BY <1>5, <1>s
    DEF PushStack, ReplaceTop, Engine, Idle, ctl, Creating, Progress, ControlOK
  <2> QED BY <2>1, <2>2, <2>3, <2>4 DEF TypeInv, TypeOK
<1>6. CASE PushFromCache
  <2>1. HeapOK'
    <3>1. \E x \in Ref : refcnt' = Up(refcnt, x)
      BY <1>6, <1>n, <1>s DEF PushFromCache, ReplaceTop, RootsOK
    <3>2. refcnt' \in [Obj -> Nat]
      BY <3>1, UpType DEF HeapOK
    <3> QED BY <1>6, <3>2 DEF PushFromCache, ReplaceTop, HeapOK
  <2>2. RootsOK'
    BY <1>6, <1>s
    DEF PushFromCache, ReplaceTop, Engine, Idle, HeapOK, RootsOK, ControlOK
  <2>3. ControlOK'
    BY <1>6
    DEF PushFromCache, ReplaceTop, Engine, Idle, ctl, tear, gcl, ControlOK
  <2>4. Progress'
    BY <1>6, <1>s
    DEF PushFromCache, ReplaceTop, Engine, Idle, ctl, Creating, Progress, ControlOK
  <2> QED BY <2>1, <2>2, <2>3, <2>4 DEF TypeInv, TypeOK
<1>7. CASE GetScopeDyn
  <2>1. HeapOK'
    BY <1>7, UpType, <1>s DEF GetScopeDyn, Engine, Idle, HeapOK, RootsOK
  <2>2. RootsOK'
    BY <1>7, <1>s DEF GetScopeDyn, Engine, Idle, HeapOK, RootsOK, ControlOK
  <2>3. ControlOK'
    BY <1>7 DEF GetScopeDyn, Engine, Idle, ctl, tear, gcl, ControlOK
  <2>4. Progress'
    BY <1>7, <1>s
    DEF GetScopeDyn, Engine, Idle, ctl, Creating, Progress, ControlOK
  <2> QED BY <2>1, <2>2, <2>3, <2>4 DEF TypeInv, TypeOK
<1>8. CASE SetStack
  <2>1. HeapOK'
    <3>1. \E x \in Ref : refcnt' = Up(refcnt, x)
      BY <1>8, <1>n, <1>s DEF SetStack
    <3>2. refcnt' \in [Obj -> Nat]
      BY <3>1, UpType DEF HeapOK
    <3> QED BY <1>8, <3>2 DEF SetStack, HeapOK
  <2>2. RootsOK'
    <3>1. PICK a \in 1 .. N : stack' = SubSeq([stack EXCEPT ![a] = At(1)], 1, N - 2)
      BY <1>8 DEF SetStack
    <3>2. [stack EXCEPT ![a] = At(1)] \in Seq(Ref) /\ N >= 2
          /\ Len([stack EXCEPT ![a] = At(1)]) = N
      BY <1>8, <1>s DEF SetStack, RootsOK
    <3>3. \A s \in Seq(Ref) : Len(s) = N => SubSeq(s, 1, N - 2) \in Seq(Ref)
      BY <1>s, <3>2
    <3>4. stack' \in Seq(Ref)
      BY <3>1, <3>2, <3>3
    <3> QED BY <1>8, <3>4 DEF SetStack, RootsOK
  <2>3. ControlOK'
    <3>1. PICK a \in 1 .. N :
            LET s == [stack EXCEPT ![a] = At(1)]
            IN  drops' = <<stack[a], s[N], s[N - 1]>>
      BY <1>8 DEF SetStack, Release
    <3>2. /\ [stack EXCEPT ![a] = At(1)] \in Seq(Ref) /\ N >= 2
          /\ Len([stack EXCEPT ![a] = At(1)]) = N /\ stack[a] \in Ref
      BY <1>8, <1>s DEF SetStack, RootsOK
    <3>3. \A s \in Seq(Ref) : Len(s) = N => s[N] \in Ref /\ s[N - 1] \in Ref
      BY <1>s, <3>2
    <3>4. drops' \in Seq(Ref)
      BY <3>1, <3>2, <3>3
    <3> QED BY <1>8, <3>4 DEF SetStack, Release, tear, gcl, ControlOK
  <2>4. Progress'
    BY <1>8
    DEF SetStack, Engine, Idle, Release, ctl, Creating, Progress, ControlOK
  <2> QED BY <2>1, <2>2, <2>3, <2>4 DEF TypeInv, TypeOK
<1>9. CASE ExchangeTop
  <2>1. HeapOK'
    BY <1>9, <1>h DEF ExchangeTop, Engine, Idle
  <2>2. RootsOK'
    <3>1. PICK a \in 1 .. N - 1 :
            stack' = [i \in 1 .. N - 1 |->
                        IF i = a THEN At(2) ELSE IF i = N - 1 THEN stack[a] ELSE stack[i]]
      BY <1>9 DEF ExchangeTop
    <3>2. N >= 2 /\ UNCHANGED <<cstack, cache, dynscope, errmb>>
      BY <1>9 DEF ExchangeTop
    <3>3. /\ \A i \in 1 .. N - 1 : stack[i] \in Ref
          /\ At(2) \in Ref /\ N - 1 \in Nat
      BY <1>s, <3>2 DEF RootsOK
    <3>4. stack' \in Seq(Ref)
      BY <3>1, <3>3
    <3> QED BY <3>2, <3>4 DEF RootsOK
  <2>3. ControlOK'
    BY <1>9 DEF ExchangeTop, Engine, Idle, ctl, tear, gcl, ControlOK
  <2>4. Progress'
    BY <1>9
    DEF ExchangeTop, Engine, Idle, ctl, Creating, Progress, ControlOK
  <2> QED BY <2>1, <2>2, <2>3, <2>4 DEF TypeInv, TypeOK
<1>10. CASE ListGet
  <2>1. HeapOK'
    <3>1. \E x \in Ref : refcnt' = Up(refcnt, x)
      BY <1>10, <1>n, <1>s DEF ListGet, CountedKid, IsA, HeapOK, Ref
    <3>2. refcnt' \in [Obj -> Nat]
      BY <3>1, UpType DEF HeapOK
    <3> QED BY <1>10, <3>2 DEF ListGet, HeapOK
  <2>2. RootsOK'
    <3>1. At(2) \in Obj /\ N >= 2
      BY <1>10, <1>s DEF ListGet, IsA, Ref
    <3>2. PICK i \in DOMAIN kids[At(2)] : stack' = Append(Below(2), kids[At(2)][i])
      BY <1>10 DEF ListGet
    <3>3. kids[At(2)][i] \in Ref
      BY <3>1 DEF HeapOK
    <3>4. stack' \in Seq(Ref)
      BY <3>1, <3>2, <3>3, <1>s
    <3> QED BY <1>10, <3>4 DEF ListGet, RootsOK
  <2>3. ControlOK'
    BY <1>10, <1>s
    DEF ListGet, Engine, Idle, Release, IsA, CountedKid, ctl, tear, gcl, ControlOK, RootsOK
  <2>4. Progress'
    BY <1>10
    DEF ListGet, Engine, Idle, Release, IsA, CountedKid, ctl, Creating, Progress, ControlOK
  <2> QED BY <2>1, <2>2, <2>3, <2>4 DEF TypeInv, TypeOK
<1>11. CASE ListSet
  <2>1. HeapOK'
    <3>1. \E x \in Ref : refcnt' = Up(refcnt, x)
      BY <1>11, <1>n, <1>s DEF ListSet
    <3>2. refcnt' \in [Obj -> Nat]
      BY <3>1, UpType DEF HeapOK
    <3>3. kids' \in [Obj -> Seq(Ref)]
      <4>1. At(3) \in Obj /\ At(1) \in Ref
        BY <1>11, <1>s DEF ListSet, IsA, Ref
      <4>2. PICK i \in DOMAIN kids[At(3)] : kids' = [kids EXCEPT ![At(3)][i] = At(1)]
        BY <1>11 DEF ListSet
      <4>3. [kids[At(3)] EXCEPT ![i] = At(1)] \in Seq(Ref)
        BY <4>1 DEF HeapOK
      <4> QED BY <4>1, <4>2, <4>3 DEF HeapOK
    <3> QED BY <1>11, <3>2, <3>3 DEF ListSet, HeapOK
  <2>2. RootsOK'
    BY <1>11, <1>s DEF ListSet, RootsOK
  <2>3. ControlOK'
    <3>1. At(3) \in Obj /\ At(1) \in Ref /\ At(2) \in Ref
      BY <1>11, <1>s DEF ListSet, IsA, Ref
    <3>2. PICK i \in DOMAIN kids[At(3)] :
            drops' = <<kids[At(3)][i], At(1), At(2), At(3)>>
      BY <1>11 DEF ListSet, Release
    <3>3. drops' \in Seq(Ref)
      BY <3>1, <3>2 DEF HeapOK, Ref
    <3> QED BY <1>11, <3>3 DEF ListSet, Release, tear, gcl, ControlOK
  <2>4. Progress'
    BY <1>11
    DEF ListSet, Engine, Idle, Release, IsA, ctl, Creating, Progress, ControlOK
  <2> QED BY <2>1, <2>2, <2>3, <2>4 DEF TypeInv, TypeOK
<1>12. CASE ListPop
  <2>1. HeapOK'
    <3>1. /\ At(1) \in Obj /\ N >= 1 /\ kids[At(1)] \in Seq(Ref)
          /\ LastKid(At(1)) \in Ref
      BY <1>12, <1>s DEF ListPop, IsA, Ref, HeapOK, LastKid
    <3>2. SubSeq(kids[At(1)], 1, Len(kids[At(1)]) - 1) \in Seq(Ref)
      BY <1>12, <3>1 DEF ListPop
    <3> QED BY <1>12, <3>1, <3>2 DEF ListPop, PoppedCount, HeapOK
  <2>2. RootsOK'
    <3>1. /\ At(1) \in Obj /\ N >= 1 /\ kids[At(1)] \in Seq(Ref)
          /\ LastKid(At(1)) \in Ref
      BY <1>12, <1>s DEF ListPop, IsA, Ref, HeapOK, LastKid
    <3> QED BY <1>12, <1>s, <3>1 DEF ListPop, RootsOK
  <2>3. ControlOK'
    BY <1>12, <1>s
    DEF ListPop, Engine, Idle, Release, IsA, PoppedCount, LastKid, ctl, tear, gcl, ControlOK, RootsOK
  <2>4. Progress'
    BY <1>12
    DEF ListPop, Engine, Idle, Release, IsA, PoppedCount, LastKid, ctl, Creating, Progress, ControlOK
  <2> QED BY <2>1, <2>2, <2>3, <2>4 DEF TypeInv, TypeOK
<1>13. CASE ListPopOverflow
  <2>1. HeapOK'
    <3>1. /\ At(1) \in Obj /\ N >= 1 /\ kids[At(1)] \in Seq(Ref)
          /\ LastKid(At(1)) \in Ref
      BY <1>13, <1>s DEF ListPopOverflow, IsA, Ref, HeapOK, LastKid
    <3>2. refcnt' \in [Obj -> Nat]
      BY <1>13, <3>1, UpType DEF ListPopOverflow, HeapOK
    <3> QED BY <1>13, <3>2 DEF ListPopOverflow, HeapOK
  <2>2. RootsOK'
    <3>1. /\ At(1) \in Obj /\ N >= 1 /\ kids[At(1)] \in Seq(Ref)
          /\ LastKid(At(1)) \in Ref
      BY <1>13, <1>s DEF ListPopOverflow, IsA, Ref, HeapOK, LastKid
    <3> QED BY <1>13, <3>1 DEF ListPopOverflow, RootsOK
  <2>3. ControlOK'
    BY <1>13
    DEF ListPopOverflow, Engine, Idle, IsA, LastKid, ctl, tear, gcl, ControlOK
  <2>4. Progress'
    BY <1>13
    DEF ListPopOverflow, Engine, Idle, IsA, LastKid, ctl, Creating, Progress, ControlOK
  <2> QED BY <2>1, <2>2, <2>3, <2>4 DEF TypeInv, TypeOK
<1>14. CASE ScopeNew
  <2>1. HeapOK'
    BY <1>14, <1>h DEF ScopeNew, Engine, Idle, Begin
  <2>2. RootsOK'
    BY <1>14, <1>r DEF ScopeNew, Engine, Idle, Begin
  <2>3. ControlOK'
    BY <1>14 DEF ScopeNew, Engine, Idle, Begin, ctl, tear, gcl, ControlOK
  <2>4. Progress'
    BY <1>14, <1>s
    DEF ScopeNew, Engine, Idle, Begin, roots, ctl, Creating, Progress, ControlOK
  <2> QED BY <2>1, <2>2, <2>3, <2>4 DEF TypeInv, TypeOK
<1>15. CASE AppendRoom
  <2>1. HeapOK'
    <3>1. \E x \in Ref : refcnt' = Up(refcnt, x)
      BY <1>15, <1>n, <1>s DEF AppendRoom, StoreItem, Appendable
    <3>2. refcnt' \in [Obj -> Nat]
      BY <3>1, UpType DEF HeapOK
    <3>3. kids' \in [Obj -> Seq(Ref)]
      <4>1. At(1) \in Ref
        BY <1>15, <1>s DEF AppendRoom, Appendable
      <4>2. kids' = [kids EXCEPT ![At(2)] = Append(@, At(1))]
        BY <1>15 DEF AppendRoom, StoreItem
      <4>3. \A o \in Obj : Append(kids[o], At(1)) \in Seq(Ref)
        BY <4>1 DEF HeapOK
      <4> QED BY <4>2, <4>3 DEF HeapOK
    <3> QED BY <1>15, <3>2, <3>3 DEF AppendRoom, HeapOK
  <2>2. RootsOK'
    BY <1>15, <1>s
    DEF AppendRoom, Engine, Idle, Appendable, StoreItem, Release, IsA, HeapOK, RootsOK, ControlOK
  <2>3. ControlOK'
    BY <1>15, <1>s
    DEF AppendRoom, Engine, Idle, Appendable, StoreItem, Release, IsA, ctl, tear, gcl, ControlOK, RootsOK
  <2>4. Progress'
    BY <1>15
    DEF AppendRoom, Engine, Idle, Appendable, StoreItem, Release, IsA, ctl, Creating, Progress, ControlOK
  <2> QED BY <2>1, <2>2, <2>3, <2>4 DEF TypeInv, TypeOK
<1>16. CASE AppendFull
  <2>1. HeapOK'
    BY <1>16, <1>h DEF AppendFull, Engine, Idle, Appendable, Begin
  <2>2. RootsOK'
    BY <1>16, <1>r DEF AppendFull, Engine, Idle, Appendable, Begin
  <2>3. ControlOK'
    BY <1>16
    DEF AppendFull, Engine, Idle, Appendable, Begin, ctl, tear, gcl, ControlOK
  <2>4. Progress'
    BY <1>16, <1>s
    DEF AppendFull, Engine, Idle, Appendable, Begin, roots, ctl, Creating, Progress, ControlOK
  <2> QED BY <2>1, <2>2, <2>3, <2>4 DEF TypeInv, TypeOK
<1>17. CASE \E k \in {"leaf", "array"} : PushNew(k)
  <2>1. HeapOK'
    BY <1>17, <1>h DEF PushNew, Engine, Idle, Begin
  <2>2. RootsOK'
    BY <1>17, <1>r DEF PushNew, Engine, Idle, Begin
  <2>3. ControlOK'
    BY <1>17 DEF PushNew, Engine, Idle, Begin, ctl, tear, gcl, ControlOK
  <2>4. Progress'
    BY <1>17, <1>s
    DEF PushNew, Engine, Idle, Begin, roots, ctl, Creating, Progress, ControlOK
  <2> QED BY <2>1, <2>2, <2>3, <2>4 DEF TypeInv, TypeOK
<1>18. CASE PushC
  <2>1. HeapOK'
    <3>1. \E x \in Ref : refcnt' = Up(refcnt, x)
      BY <1>18, <1>n, <1>s DEF PushC, RootsOK
    <3>2. refcnt' \in [Obj -> Nat]
      BY <3>1, UpType DEF HeapOK
    <3> QED BY <1>18, <3>2 DEF PushC, HeapOK
  <2>2. RootsOK'
    BY <1>18 DEF PushC, Idle, HeapOK, RootsOK, ControlOK
  <2>3. ControlOK'
    BY <1>18 DEF PushC, Idle, ctl, tear, gcl, ControlOK
  <2>4. Progress'
    BY <1>18, <1>s DEF PushC, Idle, ctl, Creating, Progress, ControlOK
  <2> QED BY <2>1, <2>2, <2>3, <2>4 DEF TypeInv, TypeOK
<1>19. CASE CPop
  <2>1. HeapOK'
    BY <1>19, <1>h DEF CPop, Idle, Release
  <2>2. RootsOK'
    BY <1>19 DEF CPop, Idle, Release, HeapOK, RootsOK, ControlOK
  <2>3. ControlOK'
    BY <1>19 DEF CPop, Idle, Release, ctl, tear, gcl, ControlOK, RootsOK
  <2>4. Progress'
    BY <1>19 DEF CPop, Idle, Release, ctl, Creating, Progress, ControlOK
  <2> QED BY <2>1, <2>2, <2>3, <2>4 DEF TypeInv, TypeOK
<1>20. CASE AbceFree
  <2>1. HeapOK'
    BY <1>20, <1>h DEF AbceFree, Idle, Release, RootRefs
  <2>2. RootsOK'
    BY <1>20, <1>n
    DEF AbceFree, Idle, Release, RootRefs, HeapOK, RootsOK, ControlOK
  <2>3. ControlOK'
    BY <1>20
    DEF AbceFree, Idle, Release, RootRefs, ctl, tear, gcl, roots, ControlOK, RootsOK
  <2>4. Progress'
    BY <1>20
    DEF AbceFree, Idle, Release, RootRefs, ctl, Creating, Progress, ControlOK
  <2> QED BY <2>1, <2>2, <2>3, <2>4 DEF TypeInv, TypeOK
<1>21. CASE \E k \in {"leaf", "array"} : CPushCreate(k)
  <2>1. HeapOK'
    BY <1>21, <1>h DEF CPushCreate, Idle, Begin
  <2>2. RootsOK'
    BY <1>21, <1>r DEF CPushCreate, Idle, Begin
  <2>3. ControlOK'
    BY <1>21 DEF CPushCreate, Idle, Begin, ctl, tear, gcl, ControlOK
  <2>4. Progress'
    BY <1>21
    DEF CPushCreate, Idle, Begin, ctl, Creating, Progress, ControlOK
  <2> QED BY <2>1, <2>2, <2>3, <2>4 DEF TypeInv, TypeOK
<1>22. CASE GcBegin
  <2>1. HeapOK'
    BY <1>22, <1>h DEF GcBegin
  <2>2. RootsOK'
    BY <1>22, <1>r DEF GcBegin
  <2>3. ControlOK'
    BY <1>22 DEF GcBegin, ctl, tear, gcl, ControlOK
  <2>4. Progress'
    BY <1>22 DEF GcBegin, roots, ctl, Creating, Progress, ControlOK
  <2> QED BY <2>1, <2>2, <2>3, <2>4 DEF TypeInv, TypeOK
<1>23. CASE NoMem
  <2>1. HeapOK'
    BY <1>23
    DEF NoMem, Allocating, GrownCap, Finish, HeapOK, RootsOK, ControlOK, Progress
  <2>2. RootsOK'
    BY <1>23, <1>r DEF NoMem, Allocating, GrownCap, Finish
  <2>3. ControlOK'
    BY <1>23
    DEF NoMem, Allocating, GrownCap, Finish, ctl, tear, gcl, ControlOK
  <2>4. Progress'
    BY <1>23
    DEF NoMem, Allocating, GrownCap, Finish, roots, ctl, Creating, Progress, ControlOK
  <2> QED BY <2>1, <2>2, <2>3, <2>4 DEF TypeInv, TypeOK
<1>24. CASE AllocArea
  <2>1. HeapOK'
    <3>1. kind' \in [Obj -> {"free", "raw", "leaf", "bare_leaf", "array", "bare_array", "scope"}]
      BY <1>24 DEF AllocArea, Free, HeapOK
    <3>2. cap' \in Nat
      BY <1>24 DEF AllocArea, GrownCap, HeapOK
    <3> QED BY <1>24, <3>1, <3>2 DEF AllocArea, HeapOK
  <2>2. RootsOK'
    BY <1>24, <1>r DEF AllocArea, Allocating, GrownCap, Free
  <2>3. ControlOK'
    BY <1>24
    DEF AllocArea, Allocating, GrownCap, Free, Ref, ctl, tear, gcl, ControlOK
  <2>4. Progress'
    <3>1. hand' # Nil
      BY <1>24, HeapAssumption DEF AllocArea, Free
    <3> QED BY <1>24, <3>1 DEF AllocArea, Allocating, roots, Creating, Progress
  <2> QED BY <2>1, <2>2, <2>3, <2>4 DEF TypeInv, TypeOK
<1>25. CASE AllocStorage
  <2>1. HeapOK'
    BY <1>25
    DEF AllocStorage, Allocating, GrownCap, HeapOK, RootsOK, ControlOK, Progress
  <2>2. RootsOK'
    BY <1>25, <1>r DEF AllocStorage, Allocating, GrownCap
  <2>3. ControlOK'
    BY <1>25
    DEF AllocStorage, Allocating, GrownCap, ctl, tear, gcl, ControlOK
  <2>4. Progress'
    BY <1>25
    DEF AllocStorage, Allocating, GrownCap, roots, ctl, Creating, Progress, ControlOK
  <2> QED BY <2>1, <2>2, <2>3, <2>4 DEF TypeInv, TypeOK
<1>26. CASE GrowAppend
  <2>1. HeapOK'
    <3>1. \E x \in Ref : refcnt' = Up(refcnt, x)
      BY <1>26, <1>n, <1>s DEF GrowAppend, StoreItem, Progress
    <3>2. refcnt' \in [Obj -> Nat]
      BY <3>1, UpType DEF HeapOK
    <3>3. kids' \in [Obj -> Seq(Ref)]
      <4>1. At(1) \in Ref
        BY <1>26, <1>s DEF GrowAppend, Progress
      <4>2. kids' = [kids EXCEPT ![At(2)] = Append(@, At(1))]
        BY <1>26 DEF GrowAppend, StoreItem
      <4>3. \A o \in Obj : Append(kids[o], At(1)) \in Seq(Ref)
        BY <4>1 DEF HeapOK
      <4> QED BY <4>2, <4>3 DEF HeapOK
    <3>4. kind' \in [Obj -> {"free", "raw", "leaf", "bare_leaf", "array", "bare_array", "scope"}]
      BY <1>26 DEF GrowAppend, HeapOK
    <3> QED BY <1>26, <3>2, <3>3, <3>4 DEF GrowAppend, GrownCap, HeapOK
  <2>2. RootsOK'
    BY <1>26, <1>s DEF GrowAppend, StoreItem, RootsOK, Progress
  <2>3. ControlOK'
    <3>1. At(1) \in Ref
      BY <1>26, <1>s DEF GrowAppend, Progress
    <3> QED BY <1>26, <1>n, <3>1
        DEF GrowAppend, StoreItem, Release, Finish, tear, gcl, ControlOK
  <2>4. Progress'
    BY <1>26
    DEF GrowAppend, Allocating, GrownCap, StoreItem, Release, Finish, ctl, Creating, Progress, ControlOK
  <2> QED BY <2>1, <2>2, <2>3, <2>4 DEF TypeInv, TypeOK
<1>27. CASE GrowFail
  <2>1. HeapOK'
    <3>1. \E x \in Ref : refcnt' = Up(refcnt, x)
      BY <1>27, <1>n, <1>s DEF GrowFail, Progress
    <3>2. refcnt' \in [Obj -> Nat]
      BY <3>1, UpType DEF HeapOK
    <3> QED BY <1>27, <3>2 DEF GrowFail, GrownCap, HeapOK
  <2>2. RootsOK'
    BY <1>27, <1>s DEF GrowFail, RootsOK, Progress
  <2>3. ControlOK'
    <3>1. At(1) \in Ref
      BY <1>27, <1>s DEF GrowFail, Progress
    <3> QED BY <1>27, <1>n, <3>1
        DEF GrowFail, Release, Finish, tear, gcl, ControlOK, RootsOK
  <2>4. Progress'
    BY <1>27
    DEF GrowFail, Allocating, GrownCap, Release, Finish, ctl, Creating, Progress, ControlOK
  <2> QED BY <2>1, <2>2, <2>3, <2>4 DEF TypeInv, TypeOK
<1>28. CASE CreateDone
  <2>1. HeapOK'
    <3>1. hand \in Obj
      BY <1>28 DEF CreateDone, Making, Progress, ControlOK, Ref
    <3>2. refcnt' \in [Obj -> Nat]
      BY <1>28, <3>1 DEF CreateDone, Made, Counted, HeapOK
    <3>3. kind' \in [Obj -> {"free", "raw", "leaf", "bare_leaf", "array", "bare_array", "scope"}]
      BY <1>28, <3>1 DEF CreateDone, Made, HeapOK, ControlOK, Making, Progress, Creating
    <3>4. tab' \in Seq(Obj) /\ locidx' \in [Obj -> Nat] /\ cap' \in Nat
      <4>1. SetupForGc(hand)
        BY <1>28 DEF CreateDone, Made
      <4> QED BY <3>1, <4>1, SetupTypes
    <3>5. kids' \in [Obj -> Seq(Ref)]
      BY <1>28, <3>1 DEF CreateDone, HeapOK
    <3> QED BY <1>28, <3>2, <3>3, <3>4, <3>5 DEF CreateDone, Made, HeapOK
  <2>2. RootsOK'
    BY <1>28
    DEF CreateDone, Making, Made, SetupForGc, GrownCap, Counted, Finish, HeapOK, RootsOK, ControlOK
  <2>3. ControlOK'
    BY <1>28, <1>n
    DEF CreateDone, Making, Made, SetupForGc, GrownCap, Counted, Finish, ctl, tear, gcl, ControlOK
  <2>4. Progress'
    BY <1>28
    DEF CreateDone, Making, Made, SetupForGc, GrownCap, Counted, Finish, ctl, Creating, Progress, ControlOK
  <2> QED BY <2>1, <2>2, <2>3, <2>4 DEF TypeInv, TypeOK
<1>29. CASE NewDone
  <2>1. HeapOK'
    <3>1. hand \in Obj
      BY <1>29 DEF NewDone, Making, Progress, ControlOK, Ref
    <3>2. refcnt' \in [Obj -> Nat]
      BY <1>29, <3>1 DEF NewDone, Made, Counted, HeapOK
    <3>3. kind' \in [Obj -> {"free", "raw", "leaf", "bare_leaf", "array", "bare_array", "scope"}]
      BY <1>29, <3>1 DEF NewDone, Made, HeapOK, ControlOK, Making, Progress, Creating
    <3>4. tab' \in Seq(Obj) /\ locidx' \in [Obj -> Nat] /\ cap' \in Nat
      <4>1. SetupForGc(hand)
        BY <1>29 DEF NewDone, Made
      <4> QED BY <3>1, <4>1, SetupTypes
    <3>5. kids' \in [Obj -> Seq(Ref)]
      BY <1>29, <3>1 DEF NewDone, HeapOK
    <3> QED BY <1>29, <3>2, <3>3, <3>4, <3>5 DEF NewDone, Made, HeapOK
  <2>2. RootsOK'
    BY <1>29
    DEF NewDone, Making, Made, SetupForGc, GrownCap, Counted, Finish, HeapOK, RootsOK, ControlOK
  <2>3. ControlOK'
    BY <1>29, <1>n
    DEF NewDone, Making, Made, SetupForGc, GrownCap, Counted, Finish, ctl, tear, gcl, ControlOK
  <2>4. Progress'
    BY <1>29
    DEF NewDone, Making, Made, SetupForGc, GrownCap, Counted, Finish, ctl, Creating, Progress, ControlOK
  <2> QED BY <2>1, <2>2, <2>3, <2>4 DEF TypeInv, TypeOK
<1>30. CASE CreateOverflow
  <2>1. HeapOK'
    <3>1. hand \in Obj
      BY <1>30 DEF CreateOverflow, Making, Progress, ControlOK, Ref
    <3>2. refcnt' \in [Obj -> Nat]
      BY <1>30, <3>1 DEF CreateOverflow, Made, Counted, HeapOK
    <3>3. kind' \in [Obj -> {"free", "raw", "leaf", "bare_leaf", "array", "bare_array", "scope"}]
      BY <1>30, <3>1 DEF CreateOverflow, Made, HeapOK, ControlOK, Making, Progress, Creating
    <3>4. tab' \in Seq(Obj) /\ locidx' \in [Obj -> Nat] /\ cap' \in Nat
      <4>1. SetupForGc(hand)
        BY <1>30 DEF CreateOverflow, Made
      <4> QED BY <3>1, <4>1, SetupTypes
    <3>5. kids' \in [Obj -> Seq(Ref)]
      BY <1>30, <3>1 DEF CreateOverflow, HeapOK
    <3> QED BY <1>30, <3>2, <3>3, <3>4, <3>5 DEF CreateOverflow, Made, HeapOK
  <2>2. RootsOK'
    BY <1>30
    DEF CreateOverflow, Making, Made, SetupForGc, GrownCap, Counted, Finish, Release, HeapOK, RootsOK, ControlOK
  <2>3. ControlOK'
    BY <1>30, <1>n
    DEF CreateOverflow, Making, Made, SetupForGc, GrownCap, Counted, Finish, Release, RootsOK, ctl, tear, gcl, ControlOK
  <2>4. Progress'
    BY <1>30
    DEF CreateOverflow, Making, Made, SetupForGc, GrownCap, Counted, Finish, Release, ctl, Creating, Progress, ControlOK
  <2> QED BY <2>1, <2>2, <2>3, <2>4 DEF TypeInv, TypeOK
<1>31. CASE ScopeDone
  <2>1. HeapOK'
    <3>1. hand \in Obj
      BY <1>31 DEF ScopeDone, Making, Progress, ControlOK, Ref
    <3>2. refcnt' \in [Obj -> Nat]
      <4>1. At(2) \in Ref
        BY <1>31, <1>s DEF ScopeDone, Making, Progress
      <4>2. Counted(1) \in [Obj -> Nat]
        BY <3>1 DEF Counted, HeapOK
      <4>3. refcnt' = Up(Counted(1), At(2))
        BY <1>31 DEF ScopeDone, MadeScope, Made, ParentCounted
      <4> QED BY <4>1, <4>2, <4>3, UpType
    <3>3. kind' \in [Obj -> {"free", "raw", "leaf", "bare_leaf", "array", "bare_array", "scope"}]
      BY <1>31, <3>1 DEF ScopeDone, MadeScope, Made, HeapOK, ControlOK, Making, Progress, Creating
    <3>4. tab' \in Seq(Obj) /\ locidx' \in [Obj -> Nat] /\ cap' \in Nat
      <4>1. SetupForGc(hand)
        BY <1>31 DEF ScopeDone, MadeScope, Made
      <4> QED BY <3>1, <4>1, SetupTypes
    <3>5. kids' \in [Obj -> Seq(Ref)]
      BY <1>31, <3>1, <1>s DEF ScopeDone, MadeScope, HeapOK, Making, Progress
    <3> QED BY <1>31, <3>2, <3>3, <3>4, <3>5 DEF ScopeDone, MadeScope, Made, HeapOK
  <2>2. RootsOK'
    BY <1>31, <1>s, <1>n DEF ScopeDone, MadeScope, Made, Making, RootsOK, ControlOK, Progress
  <2>3. ControlOK'
    <3>1. At(1) \in Ref /\ At(2) \in Ref
      BY <1>31, <1>s DEF ScopeDone, Making, Progress
    <3> QED BY <1>31, <1>n, <3>1
        DEF ScopeDone, MadeScope, Made, Release, Finish, tear, gcl, ControlOK
  <2>4. Progress'
    BY <1>31
    DEF ScopeDone, Making, MadeScope, ParentCounted, Made, SetupForGc, GrownCap, Counted, Finish, Release, ctl, Creating, Progress, ControlOK
  <2> QED BY <2>1, <2>2, <2>3, <2>4 DEF TypeInv, TypeOK
<1>32. CASE ScopeOverflow
  <2>1. HeapOK'
    <3>1. hand \in Obj
      BY <1>32 DEF ScopeOverflow, Making, Progress, ControlOK, Ref
    <3>2. refcnt' \in [Obj -> Nat]
      <4>1. At(2) \in Ref
        BY <1>32, <1>s DEF ScopeOverflow, Making, Progress
      <4>2. Counted(2) \in [Obj -> Nat]
        BY <3>1 DEF Counted, HeapOK
      <4>3. refcnt' = Up(Counted(2), At(2))
        BY <1>32 DEF ScopeOverflow, MadeScope, Made, ParentCounted
      <4> QED BY <4>1, <4>2, <4>3, UpType
    <3>3. kind' \in [Obj -> {"free", "raw", "leaf", "bare_leaf", "array", "bare_array", "scope"}]
      BY <1>32, <3>1 DEF ScopeOverflow, MadeScope, Made, HeapOK, ControlOK, Making, Progress, Creating
    <3>4. tab' \in Seq(Obj) /\ locidx' \in [Obj -> Nat] /\ cap' \in Nat
      <4>1. SetupForGc(hand)
        BY <1>32 DEF ScopeOverflow, MadeScope, Made
      <4> QED BY <3>1, <4>1, SetupTypes
    <3>5. kids' \in [Obj -> Seq(Ref)]
      BY <1>32, <3>1, <1>s DEF ScopeOverflow, MadeScope, HeapOK, Making, Progress
    <3> QED BY <1>32, <3>2, <3>3, <3>4, <3>5 DEF ScopeOverflow, MadeScope, Made, HeapOK
  <2>2. RootsOK'
    BY <1>32, <1>s, <1>n
    DEF ScopeOverflow, Making, MadeScope, ParentCounted, Made, SetupForGc, GrownCap, Counted, Finish, Release, HeapOK, RootsOK, ControlOK
  <2>3. ControlOK'
    BY <1>32, <1>s, <1>n
    DEF ScopeOverflow, Making, MadeScope, ParentCounted, Made, SetupForGc, GrownCap, Counted, Finish, Release, RootsOK, ctl, tear, gcl, ControlOK
  <2>4. Progress'
    BY <1>32
    DEF ScopeOverflow, Making, MadeScope, ParentCounted, Made, SetupForGc, GrownCap, Counted, Finish, Release, ctl, Creating, Progress, ControlOK
  <2> QED BY <2>1, <2>2, <2>3, <2>4 DEF TypeInv, TypeOK
<1>33. CASE DropNext
  <2>1. HeapOK'
    BY <1>33, RefDnTypes DEF DropNext, Dropping, ControlOK
  <2>2. RootsOK'
    BY <1>33, <1>r DEF DropNext, Dropping
  <2>3. ControlOK'
    BY <1>33 DEF DropNext, Dropping, tear, gcl, ctl, ControlOK
  <2>4. Progress'
    BY <1>33
    DEF DropNext, Dropping, roots, ctl, Creating, Progress, ControlOK
  <2> QED BY <2>1, <2>2, <2>3, <2>4 DEF TypeInv, TypeOK
<1>34. CASE PopScratch
  <2>1. HeapOK'
    BY <1>34
    DEF PopScratch, Dropping, ScratchPopped, HeapOK, RootsOK, ControlOK, Progress
  <2>2. RootsOK'
    BY <1>34, <1>r DEF PopScratch, Dropping, ScratchPopped
  <2>3. ControlOK'
    <3>1. Head(scratch) \in Obj /\ Head(scratch) \in Ref
      BY <1>34 DEF PopScratch, HeapOK, Ref
    <3> QED BY <1>34, <3>1 DEF PopScratch, ctl, gcl, HeapOK, ControlOK
  <2>4. Progress'
    BY <1>34
    DEF PopScratch, Dropping, ScratchPopped, roots, ctl, Creating, Progress, ControlOK
  <2> QED BY <2>1, <2>2, <2>3, <2>4 DEF TypeInv, TypeOK
<1>35. CASE DropKid
  <2>1. HeapOK'
    BY <1>35, RefDnTypes DEF DropKid, Dropping, ControlOK
  <2>2. RootsOK'
    BY <1>35, <1>r DEF DropKid, Dropping
  <2>3. ControlOK'
    BY <1>35 DEF DropKid, Dropping, ctl, gcl, tear, ControlOK
  <2>4. Progress'
    BY <1>35
    DEF DropKid, Dropping, roots, ctl, Creating, Progress, ControlOK
  <2> QED BY <2>1, <2>2, <2>3, <2>4 DEF TypeInv, TypeOK
<1>36. CASE FreeDying
  <2>1. HeapOK'
    BY <1>36
    DEF FreeDying, Dropping, Ref, HeapOK, RootsOK, ControlOK, Progress
  <2>2. RootsOK'
    BY <1>36, <1>r DEF FreeDying, Dropping
  <2>3. ControlOK'
    BY <1>36, <1>n DEF FreeDying, Dropping, ctl, gcl, tear, ControlOK
  <2>4. Progress'
    BY <1>36
    DEF FreeDying, Dropping, roots, ctl, Creating, Progress, ControlOK
  <2> QED BY <2>1, <2>2, <2>3, <2>4 DEF TypeInv, TypeOK
<1>37. CASE DropDone
  <2>1. HeapOK'
    BY <1>37, <1>h DEF DropDone, Dropping
  <2>2. RootsOK'
    BY <1>37, <1>r DEF DropDone, Dropping
  <2>3. ControlOK'
    BY <1>37 DEF DropDone, Dropping, ctl, tear, gcl, ControlOK
  <2>4. Progress'
    BY <1>37
    DEF DropDone, Dropping, roots, ctl, Creating, Progress, ControlOK
  <2> QED BY <2>1, <2>2, <2>3, <2>4 DEF TypeInv, TypeOK
<1>38. CASE MarkRoots
  <2>1. HeapOK'
    BY <1>38
    DEF MarkRoots, Enqueue, MARK, HeapOK, RootsOK, ControlOK, Progress
  <2>2. RootsOK'
    BY <1>38, <1>r DEF MarkRoots, Enqueue, MARK
  <2>3. ControlOK'
    <3>1. RootSet \subseteq Obj
      BY DEF RootSet, Range, RootsOK, Ref
    <3>2. gray' \subseteq Obj
      BY <1>38, <3>1 DEF MarkRoots, Enqueue, NewlyGray, ControlOK
    <3> QED BY <1>38, <3>2 DEF MarkRoots, ctl, tear, ControlOK
  <2>4. Progress'
    BY <1>38
    DEF MarkRoots, Enqueue, MARK, roots, ctl, Creating, Progress, ControlOK
  <2> QED BY <2>1, <2>2, <2>3, <2>4 DEF TypeInv, TypeOK
<1>39. CASE MarkKids
  <2>1. HeapOK'
    BY <1>39
    DEF MarkKids, Enqueue, MARK, HeapOK, RootsOK, ControlOK, Progress
  <2>2. RootsOK'
    BY <1>39, <1>r DEF MarkKids, Enqueue, MARK
  <2>3. ControlOK'
    <3>1. PICK o \in gray : gray' = (gray \ {o}) \cup NewlyGray(Range(kids[o]) \ {Nil})
      BY <1>39 DEF MarkKids, Enqueue
    <3>2. kids[o] \in Seq(Ref)
      BY DEF ControlOK, HeapOK
    <3>3. Range(kids[o]) \ {Nil} \subseteq Obj
      BY <3>2 DEF Range, Ref
    <3>4. gray' \subseteq Obj
      BY <3>1, <3>3 DEF NewlyGray, ControlOK
    <3> QED BY <1>39, <3>4 DEF MarkKids, ctl, tear, ControlOK
  <2>4. Progress'
    BY <1>39
    DEF MarkKids, Enqueue, MARK, roots, ctl, Creating, Progress, ControlOK
  <2> QED BY <2>1, <2>2, <2>3, <2>4 DEF TypeInv, TypeOK
<1>40. CASE MarkDone
  <2>1. HeapOK'
    BY <1>40, <1>h DEF MarkDone
  <2>2. RootsOK'
    BY <1>40, <1>r DEF MarkDone
  <2>3. ControlOK'
    BY <1>40 DEF MarkDone, ctl, tear, gcl, ControlOK
  <2>4. Progress'
    BY <1>40 DEF MarkDone, roots, ctl, Creating, Progress, ControlOK
  <2> QED BY <2>1, <2>2, <2>3, <2>4 DEF TypeInv, TypeOK
<1>41. CASE GcRefDn
  <2>1. HeapOK'
    <3>1. tab[gci] \in Obj
      BY <1>41 DEF GcRefDn, HeapOK, ControlOK
    <3>2. \A o \in Obj : Occurrences(kids[tab[gci]], o) \in Nat
      BY <3>1, OccurrencesType DEF HeapOK
    <3>3. refcnt' \in [Obj -> Nat]
      <4>1. CASE Marked(tab[gci])
        BY <1>41, <4>1 DEF GcRefDn, CountsOff, HeapOK
      <4>2. CASE Unmarked(tab[gci])
        <5>1. \A o \in Obj : refcnt[o] - Occurrences(kids[tab[gci]], o) \in Nat
          BY <1>41, <3>2, <4>2 DEF GcRefDn, HeapOK
        <5>2. refcnt' = [p \in Obj |-> refcnt[p] - Occurrences(kids[tab[gci]], p)]
          BY <1>41, <4>2 DEF GcRefDn, CountsOff, Marked, Unmarked
        <5> QED BY <5>1, <5>2
      <4> QED BY <4>1, <4>2 DEF Marked, Unmarked
    <3> QED BY <1>41, <3>3 DEF GcRefDn, HeapOK
  <2>2. RootsOK'
    BY <1>41, <1>r DEF GcRefDn
  <2>3. ControlOK'
    BY <1>41 DEF GcRefDn, ctl, tear, gcl, ControlOK
  <2>4. Progress'
    BY <1>41 DEF GcRefDn, roots, ctl, Creating, Progress, ControlOK
  <2> QED BY <2>1, <2>2, <2>3, <2>4 DEF TypeInv, TypeOK
<1>42. CASE GcRefDnDone
  <2>1. HeapOK'
    BY <1>42, <1>h DEF GcRefDnDone
  <2>2. RootsOK'
    BY <1>42, <1>r DEF GcRefDnDone
  <2>3. ControlOK'
    BY <1>42 DEF GcRefDnDone, ctl, tear, gcl, ControlOK
  <2>4. Progress'
    BY <1>42 DEF GcRefDnDone, roots, ctl, Creating, Progress, ControlOK
  <2> QED BY <2>1, <2>2, <2>3, <2>4 DEF TypeInv, TypeOK
<1>43. CASE SweepMarked
  <2>1. HeapOK'
    BY <1>43, <1>h DEF SweepMarked
  <2>2. RootsOK'
    BY <1>43, <1>r DEF SweepMarked
  <2>3. ControlOK'
    BY <1>43 DEF SweepMarked, ctl, tear, gcl, ControlOK
  <2>4. Progress'
    BY <1>43 DEF SweepMarked, roots, ctl, Creating, Progress, ControlOK
  <2> QED BY <2>1, <2>2, <2>3, <2>4 DEF TypeInv, TypeOK
<1>44. CASE SweepFree
  <2>1. HeapOK'
    <3>1. tab[gci] \in Obj /\ tab[Len(tab)] \in Obj
      <4>1. gci <= Len(tab)
        BY <1>44 DEF SweepFree, Sweepable, Swept
      <4>2. tab \in Seq(Obj) /\ gci \in Nat \ {0}
        BY DEF HeapOK, ControlOK
      <4> QED BY <4>1, <4>2
    <3>2. tab' \in Seq(Obj)
      BY <1>44, ShorterTable DEF SweepFree, Sweepable, Swept, ControlOK
    <3>3. locidx' \in [Obj -> Nat]
      BY <1>44, <3>1 DEF SweepFree, Sweepable, Swept, MARK, HeapOK, ControlOK
    <3>4. kids' \in [Obj -> Seq(Ref)]
      BY <1>44, <3>1 DEF SweepFree, Sweepable, Swept, HeapOK
    <3>5. kind' \in [Obj -> {"free", "raw", "leaf", "bare_leaf", "array", "bare_array", "scope"}]
      BY <1>44, <3>1 DEF SweepFree, Sweepable, Swept, HeapOK
    <3> QED BY <1>44, <3>2, <3>3, <3>4, <3>5 DEF SweepFree, Sweepable, Swept, HeapOK
  <2>2. RootsOK'
    BY <1>44, <1>r DEF SweepFree, Sweepable, Swept
  <2>3. ControlOK'
    <3>1. gci' \in Nat \ {0}
      BY <1>44, HeapAssumption DEF SweepFree, Sweepable, Swept, SweptIndex, ControlOK
    <3> QED BY <1>44, <3>1 DEF SweepFree, Sweepable, Swept, gcl, ctl, tear, ControlOK
  <2>4. Progress'
    BY <1>44 DEF SweepFree, Sweepable, Swept, roots, ctl, Creating, Progress, ControlOK
  <2> QED BY <2>1, <2>2, <2>3, <2>4 DEF TypeInv, TypeOK
<1>45. CASE Unmark
  <2>1. HeapOK'
    <3>1. \A i \in DOMAIN tab : i \in Nat
      BY DEF HeapOK
    <3>2. \A o \in Obj : (\E i \in DOMAIN tab : tab[i] = o)
            => (CHOOSE i \in DOMAIN tab : tab[i] = o) \in DOMAIN tab
      OBVIOUS
    <3>3. locidx' \in [Obj -> Nat]
      BY <1>45, <3>1, <3>2 DEF Unmark, Indices, HeapOK
    <3> QED BY <1>45, <3>3 DEF Unmark, HeapOK
  <2>2. RootsOK'
    BY <1>45, <1>r DEF Unmark, Indices
  <2>3. ControlOK'
    BY <1>45 DEF Unmark, Indices, ctl, tear, gcl, ControlOK
  <2>4. Progress'
    BY <1>45 DEF Unmark, Indices, roots, ctl, Creating, Progress, ControlOK
  <2> QED BY <2>1, <2>2, <2>3, <2>4 DEF TypeInv, TypeOK
<1>47. CASE StorageFails
  <2>1. HeapOK'
    BY <1>47 DEF StorageFails, Allocating, GrownCap, HeapOK
  <2>2. RootsOK'
    BY <1>47, <1>r DEF StorageFails
  <2>3. ControlOK'
    BY <1>47 DEF StorageFails, tear, gcl, ControlOK
  <2>4. Progress'
    BY <1>47 DEF StorageFails, Allocating, roots, Creating, Progress
  <2> QED BY <2>1, <2>2, <2>3, <2>4 DEF TypeInv, TypeOK
<1>e. ASSUME NEW place \in {"drop", "sweep"}, NEW i \in Nat \ {0}, Reenter(place, i)
      PROVE  pc' = "mark" /\ ret' \in Seq([pc : {"drop", "sweep"}, gci : Nat \ {0}])
  <2>1. [pc |-> place, gci |-> i] \in [pc : {"drop", "sweep"}, gci : Nat \ {0}]
    OBVIOUS
  <2>2. ret \in Seq([pc : {"drop", "sweep"}, gci : Nat \ {0}])
    BY DEF ControlOK
  <2> QED BY <1>e, <2>1, <2>2 DEF Reenter
<1>48. CASE FreeBareArray
  <2>1. HeapOK'
    BY <1>48 DEF FreeBareArray, HeapOK
  <2>2. RootsOK'
    BY <1>48, <1>r DEF FreeBareArray
  <2>3. ControlOK'
    <3>1. Reenter("drop", gci) /\ gci \in Nat \ {0} /\ dying' = Nil
      BY <1>48 DEF FreeBareArray, ControlOK
    <3>2. pc' = "mark" /\ ret' \in Seq([pc : {"drop", "sweep"}, gci : Nat \ {0}])
      BY <3>1, <1>e
    <3> QED BY <1>48, <1>n, <3>1, <3>2 DEF FreeBareArray, ctl, ControlOK
  <2>4. Progress'
    BY <1>48 DEF FreeBareArray, Reenter, roots, ctl, Progress
  <2> QED BY <2>1, <2>2, <2>3, <2>4 DEF TypeInv, TypeOK
<1>49. CASE DropBareKid
  <2>h. dn # <<>> /\ Head(dn) \in Ref /\ Tail(dn) \in Seq(Ref)
    BY <1>49 DEF DropBareKid, ControlOK
  <2>1. HeapOK'
    <3>1. RefDn(Head(dn))
      BY <1>49 DEF DropBareKid, RefDn
    <3> QED BY <3>1, <2>h, RefDnTypes
  <2>2. RootsOK'
    BY <1>49, <1>r DEF DropBareKid
  <2>3. ControlOK'
    <3>1. Reenter("drop", gci) /\ gci \in Nat \ {0} /\ dn' \in Seq(Ref)
      BY <1>49, <2>h DEF DropBareKid, ControlOK
    <3>2. pc' = "mark" /\ ret' \in Seq([pc : {"drop", "sweep"}, gci : Nat \ {0}])
      BY <3>1, <1>e
    <3> QED BY <1>49, <3>1, <3>2 DEF DropBareKid, ctl, ControlOK
  <2>4. Progress'
    BY <1>49 DEF DropBareKid, Reenter, roots, ctl, Progress
  <2> QED BY <2>1, <2>2, <2>3, <2>4 DEF TypeInv, TypeOK
<1>50. CASE DropBareNext
  <2>h. drops # <<>> /\ Head(drops) \in Ref /\ <<>> \in Seq(Ref)
    <3>1. drops \in Seq(Ref) /\ Len(drops) = 1
      BY <1>50 DEF DropBareNext, ControlOK
    <3> QED BY <3>1
  <2>1. HeapOK'
    <3>1. RefDn(Head(drops))
      BY <1>50 DEF DropBareNext, RefDn
    <3> QED BY <3>1, <2>h, RefDnTypes
  <2>2. RootsOK'
    BY <1>50, <1>r DEF DropBareNext
  <2>3. ControlOK'
    <3>1. Reenter("drop", gci) /\ gci \in Nat \ {0} /\ drops' \in Seq(Ref)
      BY <1>50, <2>h DEF DropBareNext, ControlOK
    <3>2. pc' = "mark" /\ ret' \in Seq([pc : {"drop", "sweep"}, gci : Nat \ {0}])
      BY <3>1, <1>e
    <3> QED BY <1>50, <3>1, <3>2 DEF DropBareNext, tear, ControlOK
  <2>4. Progress'
    BY <1>50 DEF DropBareNext, Reenter, roots, Progress
  <2> QED BY <2>1, <2>2, <2>3, <2>4 DEF TypeInv, TypeOK
<1>51. CASE SweepBare
  <2>1. HeapOK'
    <3>1. tab[gci] \in Obj /\ tab[Len(tab)] \in Obj
      <4>1. gci <= Len(tab)
        BY <1>51 DEF SweepBare, Sweepable, Swept
      <4>2. tab \in Seq(Obj) /\ gci \in Nat \ {0}
        BY DEF HeapOK, ControlOK
      <4> QED BY <4>1, <4>2
    <3>2. tab' \in Seq(Obj)
      BY <1>51, ShorterTable DEF SweepBare, Sweepable, Swept, ControlOK
    <3>3. locidx' \in [Obj -> Nat]
      BY <1>51, <3>1 DEF SweepBare, Sweepable, Swept, MARK, HeapOK, ControlOK
    <3>4. kids' \in [Obj -> Seq(Ref)]
      BY <1>51, <3>1 DEF SweepBare, Sweepable, Swept, HeapOK
    <3>5. kind' \in [Obj -> {"free", "raw", "leaf", "bare_leaf", "array", "bare_array", "scope"}]
      BY <1>51, <3>1 DEF SweepBare, Sweepable, Swept, HeapOK
    <3> QED BY <1>51, <3>2, <3>3, <3>4, <3>5 DEF SweepBare, Sweepable, Swept, HeapOK
  <2>2. RootsOK'
    BY <1>51, <1>r DEF SweepBare, Sweepable, Swept
  <2>3. ControlOK'
    <3>1. Reenter("sweep", gci) /\ gci \in Nat \ {0}
      BY <1>51 DEF SweepBare, ControlOK
    <3>2. pc' = "mark" /\ ret' \in Seq([pc : {"drop", "sweep"}, gci : Nat \ {0}])
      BY <3>1, <1>e
    <3> QED BY <1>51, <3>1, <3>2 DEF SweepBare, ctl, tear, ControlOK
  <2>4. Progress'
    BY <1>51 DEF SweepBare, Sweepable, Reenter, roots, ctl, Creating, Progress, ControlOK
  <2> QED BY <2>1, <2>2, <2>3, <2>4 DEF TypeInv, TypeOK
<1>52. CASE UnmarkInner
  <2>1. HeapOK'
    <3>1. \A i \in DOMAIN tab : i \in Nat
      BY DEF HeapOK
    <3>2. \A o \in Obj : (\E i \in DOMAIN tab : tab[i] = o)
            => (CHOOSE i \in DOMAIN tab : tab[i] = o) \in DOMAIN tab
      OBVIOUS
    <3>3. locidx' \in [Obj -> Nat]
      BY <1>52, <3>1, <3>2 DEF UnmarkInner, Indices, HeapOK
    <3> QED BY <1>52, <3>3 DEF UnmarkInner, HeapOK
  <2>2. RootsOK'
    BY <1>52, <1>r DEF UnmarkInner, Indices
  <2>p. /\ ret # <<>> /\ ret[1] = Head(ret) /\ 1 \in DOMAIN ret
        /\ Head(ret).pc \in {"drop", "sweep"} /\ Head(ret).gci \in Nat \ {0}
        /\ Tail(ret) \in Seq([pc : {"drop", "sweep"}, gci : Nat \ {0}])
    <3> DEFINE E == [pc : {"drop", "sweep"}, gci : Nat \ {0}]
    <3>1. ret \in Seq(E) /\ ret # <<>>
      BY <1>52 DEF UnmarkInner, ControlOK
    <3>2. /\ 1 \in DOMAIN ret /\ Head(ret) = ret[1] /\ Head(ret) \in E /\ Tail(ret) \in Seq(E)
      <4> HIDE DEF E
      <4> QED BY <3>1, HeadAndTail
    <3> QED BY <3>1, <3>2
  <2>3. ControlOK'
    BY <1>52, <2>p DEF UnmarkInner, ctl, tear, ControlOK
  <2>4. Progress'
    <3>1. Head(ret).pc = "drop" => op = "none"
      BY <2>p DEF Returns
    <3> QED BY <1>52, <2>p, <3>1 DEF UnmarkInner, roots, ctl, Progress
  <2> QED BY <2>1, <2>2, <2>3, <2>4 DEF TypeInv, TypeOK
<1>46. CASE UNCHANGED vars
  BY <1>46, <1>h, <1>r DEF vars, heap, roots, ctl, tear, gcl, TypeInv, TypeOK, ControlOK, Progress
<1> QED BY <1>1, <1>2, <1>3, <1>4, <1>5, <1>6, <1>7, <1>8, <1>9, <1>10, <1>11, <1>12, <1>13, <1>14, <1>15, <1>16, <1>17, <1>18, <1>19, <1>20, <1>21, <1>22, <1>23, <1>24, <1>25, <1>26, <1>27, <1>28, <1>29, <1>30, <1>31, <1>32, <1>33, <1>34, <1>35, <1>36, <1>37, <1>38, <1>39, <1>40, <1>41, <1>42, <1>43, <1>44, <1>45, <1>46, <1>47, <1>48, <1>49, <1>50, <1>51, <1>52
   DEF Next, Handler, Api, Alloc, Cascade, Collect, Inside

\* Every step keeps the collections begun inside a free in order.
LEMMA ReturnsStep ==
  TypeInv /\ Returns /\ [Next]_vars => Returns'
<1> SUFFICES ASSUME TypeInv, Returns, [Next]_vars PROVE Returns'
  OBVIOUS
<1>1. ret \in Seq([pc : {"drop", "sweep"}, gci : Nat \ {0}])
  BY DEF TypeInv, TypeOK, ControlOK
<1>2. CASE pc \notin {"mark", "refdn", "sweep"} /\ UNCHANGED ret
  BY <1>2 DEF Returns
<1>3. CASE UNCHANGED <<ret, op>> /\ (pc' = pc \/ pc' \in {"refdn", "sweep"} \/ ret = <<>>)
  BY <1>3 DEF Returns
<1>4. ASSUME NEW e, Len(ret) \in Nat, ret' = <<e>> \o ret,
             pc' = "mark", op' = op,
             e.pc = "drop" => op = "none" /\ ret = <<>>
      PROVE  Returns'
  <2>1. DOMAIN ret' = 1 .. Len(ret) + 1 /\ Len(ret') = Len(ret) + 1 /\ ret'[1] = e
        /\ \A i \in 2 .. Len(ret) + 1 : ret'[i] = ret[i - 1] /\ i - 1 \in DOMAIN ret
    BY <1>1, <1>4
  <2>2. ASSUME NEW i \in DOMAIN ret', ret'[i].pc = "drop"
        PROVE  i = Len(ret') /\ op' = "none"
    <3>1. CASE i = 1
      <4>1. ret = <<>> /\ op = "none"
        BY <1>4, <2>1, <2>2, <3>1
      <4>2. Len(ret) = 0
        BY <4>1
      <4> QED BY <1>4, <2>1, <3>1, <4>1, <4>2
    <3>2. CASE i # 1
      <4>1. i \in 2 .. Len(ret) + 1
        BY <2>1, <3>2
      <4>2. ret[i - 1].pc = "drop" /\ i - 1 \in DOMAIN ret
        BY <2>1, <2>2, <4>1
      <4>3. i - 1 = Len(ret) /\ op = "none"
        BY <4>2 DEF Returns
      <4> QED BY <1>4, <2>1, <4>1, <4>3
    <3> QED BY <3>1, <3>2
  <2> QED BY <1>4, <2>2 DEF Returns
<1>5. ASSUME Dropping, op # "free" PROVE ret = <<>> /\ op = "none"
  BY <1>5 DEF Dropping, Returns, TypeInv, Progress
<1>6. CASE Handler
  <2>1. pc = "run" /\ UNCHANGED ret
    BY <1>6 DEF Handler, PushNil, Pop, PushStack, PushFromCache, ReplaceTop, GetScopeDyn, SetStack,
       ExchangeTop, ListGet, ListSet, ListPop, ListPopOverflow, ScopeNew, AppendRoom, AppendFull,
       TypeError, PushNew, Begin, Engine, Idle, gcl
  <2> QED BY <1>2, <2>1
<1>7. CASE Api
  <2>1. pc = "run" /\ UNCHANGED ret
    BY <1>7 DEF Api, PushC, CPop, ErrFree, AbceFree, CPushCreate, Begin, Idle, gcl
  <2> QED BY <1>2, <2>1
<1>8. CASE Alloc
  <2>1. pc \in {"alloc", "alloced", "made"} /\ UNCHANGED ret
    BY <1>8 DEF Alloc, GcBegin, NoMem, AllocArea, AllocStorage, StorageFails, GrowAppend, GrowFail,
       CreateDone, NewDone, CreateOverflow, ScopeDone, ScopeOverflow, MadeScope, Made, Making, Allocating, gcl
  <2> QED BY <1>2, <2>1
<1>9. CASE Cascade
  <2>1. pc = "drop" /\ UNCHANGED ret
    BY <1>9 DEF Cascade, DropNext, PopScratch, DropKid, FreeDying, DropDone, Dropping, gcl
  <2> QED BY <1>2, <2>1
<1>10. CASE Collect
  <2>1. CASE MarkRoots \/ MarkKids \/ MarkDone \/ GcRefDn \/ GcRefDnDone
    BY <1>3, <2>1 DEF MarkRoots, MarkKids, MarkDone, GcRefDn, GcRefDnDone, ctl
  <2>2. CASE SweepMarked \/ SweepFree \/ Unmark
    BY <1>3, <2>2 DEF SweepMarked, SweepFree, Unmark, ctl
  <2> QED BY <1>10, <2>1, <2>2 DEF Collect
<1>11. CASE Inside
  <2>1. CASE FreeBareArray
    <3>1. ret' = <<[pc |-> "drop", gci |-> gci]>> \o ret /\ pc' = "mark" /\ op' = op /\ op = "none" /\ ret = <<>>
      BY <1>5, <2>1 DEF FreeBareArray, LastDrop, Reenter, ctl
    <3> QED BY <1>1, <1>4, <3>1
  <2>2. CASE DropBareKid
    <3>1. ret' = <<[pc |-> "drop", gci |-> gci]>> \o ret /\ pc' = "mark" /\ op' = op /\ op = "none" /\ ret = <<>>
      BY <1>5, <2>2 DEF DropBareKid, LastDrop, Reenter, ctl
    <3> QED BY <1>1, <1>4, <3>1
  <2>3. CASE DropBareNext
    <3>1. ret' = <<[pc |-> "drop", gci |-> gci]>> \o ret /\ pc' = "mark" /\ op' = op /\ op = "none" /\ ret = <<>>
      BY <1>5, <2>3 DEF DropBareNext, Reenter
    <3> QED BY <1>1, <1>4, <3>1
  <2>4. CASE SweepBare
    <3>1. PICK e \in [pc : {"sweep"}, gci : {gci}] : e = [pc |-> "sweep", gci |-> gci]
      OBVIOUS
    <3>2. ret' = <<e>> \o ret /\ pc' = "mark" /\ op' = op
      BY <2>4, <3>1 DEF SweepBare, Reenter, ctl
    <3>3. e.pc # "drop"
      BY <3>1
    <3> QED BY <1>1, <1>4, <3>2, <3>3
  <2>5. CASE UnmarkInner
    <3>1. ret # <<>> /\ pc' = Head(ret).pc /\ ret' = Tail(ret) /\ op' = op
      BY <2>5 DEF UnmarkInner, ctl
    <3>2. /\ Len(ret) \in Nat \ {0} /\ Head(ret) = ret[1] /\ 1 \in DOMAIN ret
          /\ Len(ret') = Len(ret) - 1 /\ DOMAIN ret' = 1 .. Len(ret) - 1
          /\ Head(ret).pc \in {"drop", "sweep"}
          /\ \A i \in 1 .. Len(ret) - 1 : ret'[i] = ret[i + 1] /\ i + 1 \in DOMAIN ret
      <4> DEFINE E == [pc : {"drop", "sweep"}, gci : Nat \ {0}]
      <4>1. ret \in Seq(E)
        BY <1>1
      <4>2. /\ Len(ret) \in Nat \ {0} /\ 1 \in DOMAIN ret /\ Head(ret) = ret[1] /\ Head(ret) \in E
            /\ Len(Tail(ret)) = Len(ret) - 1 /\ DOMAIN Tail(ret) = 1 .. Len(ret) - 1
            /\ \A i \in 1 .. Len(ret) - 1 : Tail(ret)[i] = ret[i + 1] /\ i + 1 \in DOMAIN ret
        <5> HIDE DEF E
        <5> QED BY <3>1, <4>1, HeadAndTail
      <4>3. Head(ret).pc \in {"drop", "sweep"}
        BY <4>2
      <4> QED BY <3>1, <4>2, <4>3
    <3>3. ret' # <<>> => pc' = "sweep"
      <4>1. CASE Head(ret).pc = "drop"
        <5>1. 1 = Len(ret)
          BY <3>2, <4>1 DEF Returns
        <5> QED BY <1>1, <3>1, <5>1
      <4> QED BY <3>1, <3>2, <4>1
    <3>4. ASSUME NEW i \in DOMAIN ret', ret'[i].pc = "drop"
          PROVE  i = Len(ret') /\ op' = "none"
      <4>1. ret[i + 1].pc = "drop" /\ i + 1 \in DOMAIN ret /\ i \in Nat
        BY <3>2, <3>4
      <4>2. i + 1 = Len(ret) /\ op = "none"
        BY <4>1 DEF Returns
      <4> QED BY <3>1, <3>2, <4>1, <4>2
    <3> QED BY <3>3, <3>4 DEF Returns
  <2> QED BY <1>11, <2>1, <2>2, <2>3, <2>4, <2>5 DEF Inside
<1>12. CASE UNCHANGED vars
  BY <1>3, <1>12 DEF vars, ctl, gcl
<1> QED BY <1>6, <1>7, <1>8, <1>9, <1>10, <1>11, <1>12 DEF Next

LEMMA TypeInit == Init => TypeInv /\ Returns
<1> SUFFICES ASSUME Init PROVE TypeInv /\ Returns
  OBVIOUS
<1>1. HeapOK
  BY HeapAssumption DEF Init, HeapOK
<1>2. RootsOK
  BY HeapAssumption DEF Init, RootsOK, Ref
<1>3. ControlOK
  BY DEF Init, ControlOK, Ref
<1>4. Progress
  BY DEF Init, Progress, Creating
<1>5. Returns
  BY DEF Init, Returns
<1> QED BY <1>1, <1>2, <1>3, <1>4, <1>5 DEF TypeInv, TypeOK

\* At every point of every run the variables have their types and the
\* operation in progress has found what its remaining steps rely on.
THEOREM TypeInvariance == Spec => [](TypeInv /\ Returns)
<1> QED BY TypeInit, TypeStep, ReturnsStep, PTL DEF Spec

\* In particular no reference count goes below zero, whatever handlers,
\* cascades and collections do, for any set of addresses and any bounds.
THEOREM TypeCorrect == Spec => []TypeOK
<1>1. TypeInv => TypeOK
  BY DEF TypeInv
<1> QED BY <1>1, TypeInvariance, PTL
=============================================================================
