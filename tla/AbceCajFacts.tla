---------------------------- MODULE AbceCajFacts ----------------------------
(***************************************************************************)
(* What the proofs about the push and the pull parser share: the key stack *)
(* and the containers it stands for.                                       *)
(***************************************************************************)
EXTENDS AbceCajCore, SequenceTheorems, TLAPS

-----------------------------------------------------------------------------
(* Sequences of anything.                                                  *)

IsSeq(s) == \E S : s \in Seq(S)
Front(s) == SubSeq(s, 1, Len(s) - 1)

LEMMA EmptyIsSeq == IsSeq(<<>>)
<1>1. <<>> \in Seq(BOOLEAN) OBVIOUS
<1> QED BY <1>1, Zenon DEF IsSeq

LEMMA SeqLength == ASSUME NEW s, IsSeq(s) PROVE Len(s) \in Nat /\ (s = <<>> <=> Len(s) = 0)
BY DEF IsSeq

LEMMA AppendSeq ==
  ASSUME NEW s, NEW e, IsSeq(s)
  PROVE  /\ IsSeq(Append(s, e))
         /\ Len(Append(s, e)) = Len(s) + 1
         /\ Append(s, e)[Len(s) + 1] = e
         /\ \A i \in 1 .. Len(s) : Append(s, e)[i] = s[i]
<1>1. PICK S : s \in Seq(S) BY DEF IsSeq
<1> DEFINE T == S \cup {e}
<1>2. s \in Seq(T) /\ e \in T BY <1>1
<1> HIDE DEF T
<1>3. Append(s, e) \in Seq(T) BY <1>2
<1> QED BY <1>2, <1>3 DEF IsSeq

LEMMA FrontSeq ==
  ASSUME NEW s, IsSeq(s), s # <<>>
  PROVE  /\ IsSeq(Front(s))
         /\ Len(Front(s)) = Len(s) - 1
         /\ \A i \in 1 .. Len(s) - 1 : Front(s)[i] = s[i]
<1>1. PICK S : s \in Seq(S) BY DEF IsSeq
<1>2. Len(s) \in Nat /\ Len(s) > 0 BY <1>1
<1> DEFINE n == Len(s) - 1
<1>3. n \in Nat /\ \A i \in 1 .. n : s[i] \in S BY <1>1, <1>2
<1> HIDE DEF n
<1>4. /\ SubSeq(s, 1, n) \in Seq(S)
      /\ Len(SubSeq(s, 1, n)) = IF 1 <= n THEN n - 1 + 1 ELSE 0
      /\ \A i \in 1 .. n - 1 + 1 : SubSeq(s, 1, n)[i] = s[1 + i - 1]
  BY <1>3, SubSeqProperties
<1>5. Len(SubSeq(s, 1, n)) = n /\ \A i \in 1 .. n : SubSeq(s, 1, n)[i] = s[i] BY <1>3, <1>4
<1> QED BY <1>4, <1>5 DEF IsSeq, Front, n

-----------------------------------------------------------------------------
(* The key stack.                                                          *)

\* A value is being read, or due after a colon or a comma.
RootModes == {"VAL", "NUMBER"} \cup InString \cup InWord
ValueModes == RootModes \cup {"FIRSTVAL"}

IsKey(k) == k = NoKey \/ \E key : k = [present |-> TRUE, key |-> key]

\* The key stack holds keys, and the root has none.
KeysGood(keystack) ==
  /\ IsSeq(keystack)
  /\ \A i \in 1 .. Len(keystack) : IsKey(keystack[i])
  /\ keystack # <<>> => keystack[1] = NoKey

LEMMA KeyOfIsKey ==
  ASSUME NEW c, c.keypresent \in BOOLEAN
  PROVE  IsKey(KeyOf(c)) /\ KeyOf(c).present = c.keypresent
BY DEF IsKey, KeyOf, NoKey

LEMMA KeyPresent == ASSUME NEW k, IsKey(k) PROVE k.present \in BOOLEAN /\ (k = NoKey <=> ~k.present)
<1>1. CASE k = NoKey BY <1>1 DEF NoKey
<1>2. ASSUME NEW key, k = [present |-> TRUE, key |-> key] PROVE k.present = TRUE /\ NoKey.present = FALSE
  BY <1>2 DEF NoKey
<1> QED BY <1>1, <1>2 DEF IsKey

\* The innermost container has its kind and the key on top of the stack.
LEMMA TopOpen ==
  ASSUME NEW c, NEW dict, KeysGood(c.keystack), c.keystack # <<>>
  PROVE  LET open == OpenWith(c, dict) IN
         /\ open # <<>>
         /\ Len(open) = Len(c.keystack)
         /\ open[Len(open)].dict = dict
         /\ open[Len(open)].key = c.keystack[Len(c.keystack)]
<1>1. Len(c.keystack) \in Nat /\ Len(c.keystack) # 0 BY SeqLength DEF KeysGood
<1>2. Len(OpenWith(c, dict)) = Len(c.keystack) BY <1>1 DEF OpenWith
<1>3. OpenWith(c, dict)[Len(c.keystack)] = [dict |-> dict, key |-> c.keystack[Len(c.keystack)]]
  BY <1>1 DEF OpenWith
<1> QED BY <1>1, <1>2, <1>3

LEMMA PushedKeysGood ==
  ASSUME NEW ks, KeysGood(ks), NEW k, IsKey(k), ks = <<>> => k = NoKey
  PROVE  KeysGood(Append(ks, k))
<1> DEFINE ks2 == Append(ks, k)
<1>1. /\ IsSeq(ks2) /\ Len(ks) \in Nat /\ Len(ks2) = Len(ks) + 1 /\ ks2[Len(ks) + 1] = k
      /\ \A i \in 1 .. Len(ks) : ks2[i] = ks[i]
  BY AppendSeq, SeqLength DEF KeysGood
<1> HIDE DEF ks2
<1>2. ASSUME NEW i \in 1 .. Len(ks2) PROVE IsKey(ks2[i])
  <2>1. CASE i = Len(ks) + 1 BY <1>1, <2>1
  <2>2. CASE i \in 1 .. Len(ks) BY <1>1, <2>2 DEF KeysGood
  <2> QED BY <1>1, <2>1, <2>2
<1>3. ks2[1] = NoKey
  <2>1. CASE ks = <<>> BY <1>1, <2>1, SeqLength DEF KeysGood
  <2>2. CASE ks # <<>>
    <3>1. 1 \in 1 .. Len(ks) BY <1>1, <2>2, SeqLength DEF KeysGood
    <3> QED BY <1>1, <2>2, <3>1 DEF KeysGood
  <2> QED BY <2>1, <2>2
<1> QED BY <1>1, <1>2, <1>3 DEF KeysGood, ks2

LEMMA PoppedKeysGood ==
  ASSUME NEW ks, KeysGood(ks), ks # <<>>
  PROVE  KeysGood(Front(ks))
<1>1. /\ IsSeq(Front(ks)) /\ Len(ks) \in Nat /\ Len(ks) # 0 /\ Len(Front(ks)) = Len(ks) - 1
      /\ \A i \in 1 .. Len(ks) - 1 : Front(ks)[i] = ks[i]
  BY FrontSeq, SeqLength DEF KeysGood
<1>2. ASSUME NEW i \in 1 .. Len(Front(ks)) PROVE IsKey(Front(ks)[i])
  BY <1>1 DEF KeysGood
<1>3. ASSUME Front(ks) # <<>> PROVE Front(ks)[1] = NoKey
  <2>1. 1 \in 1 .. Len(ks) - 1 BY <1>1, <1>3, SeqLength
  <2> QED BY <1>1, <2>1 DEF KeysGood
<1> QED BY <1>1, <1>2, <1>3 DEF KeysGood

\* A container opens inside those that are open.
LEMMA StartOpen ==
  ASSUME NEW c, NEW d, NEW dict, NEW inner, KeysGood(c.keystack), dict = KeyOf(c).present,
         d.keystack = PutKeystack(c)
  PROVE  OpenWith(d, inner) = Append(OpenWith(c, dict), [dict |-> inner, key |-> KeyOf(c)])
<1> DEFINE n == Len(c.keystack)
<1>1. /\ n \in Nat /\ Len(d.keystack) = n + 1 /\ d.keystack[n + 1] = KeyOf(c)
      /\ \A i \in 1 .. n : d.keystack[i] = c.keystack[i]
  BY AppendSeq, SeqLength DEF KeysGood, PutKeystack
<1>2. OpenWith(c, dict) = [i \in 1 .. n |->
        [dict |-> IF i = n THEN dict ELSE c.keystack[i + 1].present, key |-> c.keystack[i]]]
  BY DEF OpenWith
<1>3. OpenWith(d, inner) = [i \in 1 .. n + 1 |->
        [dict |-> IF i = n + 1 THEN inner ELSE d.keystack[i + 1].present,
         key |-> d.keystack[i]]]
  BY <1>1 DEF OpenWith
<1> DEFINE last == [dict |-> inner, key |-> KeyOf(c)]
<1> HIDE DEF n
<1>4. Len(OpenWith(c, dict)) = n BY <1>1, <1>2
<1>5. Append(OpenWith(c, dict), last) = [i \in 1 .. n + 1 |-> IF i = n + 1 THEN last ELSE OpenWith(c, dict)[i]]
  BY <1>1, <1>4
<1>6. ASSUME NEW i \in 1 .. n + 1
      PROVE  OpenWith(d, inner)[i] = IF i = n + 1 THEN last ELSE OpenWith(c, dict)[i]
  <2>1. CASE i = n + 1 BY <1>1, <1>3, <2>1
  <2>2. CASE i = n /\ n # 0
    <3>1. d.keystack[i + 1].present = dict /\ d.keystack[i] = c.keystack[i] BY <1>1, <2>2
    <3> QED BY <1>1, <1>2, <1>3, <2>2, <3>1
  <2>3. CASE i \in 1 .. n - 1
    <3>1. d.keystack[i + 1] = c.keystack[i + 1] /\ d.keystack[i] = c.keystack[i] BY <1>1, <2>3
    <3> QED BY <1>1, <1>2, <1>3, <2>3, <3>1
  <2> QED BY <1>1, <2>1, <2>2, <2>3
<1> QED BY <1>3, <1>5, <1>6

\* The innermost container ends; its key is the one it was started with.
LEMMA EndOpen ==
  ASSUME NEW c, NEW d, NEW dict, NEW F, DOMAIN c = F,
         {"mode", "keypresent", "key", "keystack"} \subseteq F,
         KeysGood(c.keystack), c.keystack # <<>>, d = GetKeystack(c)
  PROVE  /\ OpenWith(d, d.keypresent)
               = SubSeq(OpenWith(c, dict), 1, Len(OpenWith(c, dict)) - 1)
         /\ KeyOf(d) = c.keystack[Len(c.keystack)]
         /\ DOMAIN d = F /\ d.mode = "COMMA" /\ d.keystack = Front(c.keystack)
         /\ d.keypresent \in BOOLEAN
         /\ d.keystack = <<>> => ~d.keypresent
<1> DEFINE n == Len(c.keystack)
           top == c.keystack[n]
<1>1. /\ n \in Nat \ {0} /\ Len(Front(c.keystack)) = n - 1
      /\ \A i \in 1 .. n - 1 : Front(c.keystack)[i] = c.keystack[i]
  BY FrontSeq, SeqLength DEF KeysGood
<1>2. IsKey(top) BY <1>1 DEF KeysGood
<1>3. /\ DOMAIN d = F /\ d.mode = "COMMA" /\ d.keystack = Front(c.keystack)
      /\ d.keypresent = top.present
      /\ d.key = IF top.present THEN top.key ELSE c.key
  BY DEF GetKeystack, Front
<1>4. KeyOf(d) = top
  <2>1. CASE top = NoKey BY <1>3, <2>1 DEF KeyOf, NoKey
  <2>2. ASSUME NEW key, top = [present |-> TRUE, key |-> key] PROVE KeyOf(d) = top
    <3>1. d.keypresent = TRUE /\ d.key = key BY <1>3, <2>2
    <3> QED BY <2>2, <3>1 DEF KeyOf
  <2> QED BY <1>2, <2>1, <2>2 DEF IsKey
<1>5. d.keystack = <<>> => ~d.keypresent
  <2> SUFFICES ASSUME d.keystack = <<>> PROVE ~d.keypresent OBVIOUS
  <2>1. n = 1
    <3>1. Len(Front(c.keystack)) = 0 BY <1>3
    <3>2. n - 1 = 0 BY <1>1, <3>1
    <3>3. n \in Nat BY <1>1
    <3> HIDE DEF n
    <3> QED BY <3>2, <3>3
  <2>2. top = NoKey BY <2>1 DEF KeysGood
  <2> QED BY <1>3, <2>2 DEF NoKey
<1>6. top.present \in BOOLEAN BY <1>2, KeyPresent
<1>8. OpenWith(c, dict) = [i \in 1 .. n |->
        [dict |-> IF i = n THEN dict ELSE c.keystack[i + 1].present, key |-> c.keystack[i]]]
  BY DEF OpenWith
<1>9. OpenWith(d, d.keypresent) = [i \in 1 .. n - 1 |->
        [dict |-> IF i = n - 1 THEN top.present ELSE d.keystack[i + 1].present,
         key |-> d.keystack[i]]]
  BY <1>1, <1>3 DEF OpenWith
<1>10. OpenWith(d, d.keypresent) = SubSeq(OpenWith(c, dict), 1, Len(OpenWith(c, dict)) - 1)
  <2> HIDE DEF n
  <2>1. Len(OpenWith(c, dict)) = n BY <1>1, <1>8
  <2>2. SubSeq(OpenWith(c, dict), 1, n - 1) = [i \in 1 .. n - 1 |-> OpenWith(c, dict)[i]] BY <1>1, <2>1
  <2>3. ASSUME NEW i \in 1 .. n - 1 PROVE OpenWith(d, d.keypresent)[i] = OpenWith(c, dict)[i]
    <3>1. d.keystack[i] = c.keystack[i] BY <1>1, <1>3
    <3>2. CASE i = n - 1 BY <1>1, <1>8, <1>9, <3>1, <3>2
    <3>3. CASE i \in 1 .. n - 2
      <4>1. d.keystack[i + 1] = c.keystack[i + 1] BY <1>1, <1>3, <3>3
      <4> QED BY <1>1, <1>8, <1>9, <3>1, <3>3, <4>1
    <3> QED BY <1>1, <3>2, <3>3
  <2> QED BY <1>9, <2>1, <2>2, <2>3
<1> QED BY <1>3, <1>4, <1>5, <1>6, <1>10

=============================================================================
