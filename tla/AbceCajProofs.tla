--------------------------- MODULE AbceCajProofs ---------------------------
(***************************************************************************)
(* The push parser walks one tree, whatever it reads, wherever the chunks  *)
(* are cut and whatever memory and the handler do: PushSpec implements     *)
(* AbceSax.                                                                *)
(*                                                                         *)
(* The parser forgets what kind of container it is in. The invariant says  *)
(* why it can: keypresent is TRUE exactly where a dictionary waits for a   *)
(* colon or a value, so between values it tells dictionaries from arrays,  *)
(* and the key stack remembers of each container whether it had a key,     *)
(* which is to say the kind of the one around it.                          *)
(***************************************************************************)
EXTENDS AbceCaj, AbceCajFacts

-----------------------------------------------------------------------------
(* The invariant.                                                          *)

Fields == {"mode", "sz", "uescape", "keypresent", "key", "keystack", "val", "num", "isinteger"}

\* No key is present where the first value or the next key is awaited.
ModesGood(c) ==
  /\ c.keypresent \in BOOLEAN
  /\ c.mode \in InKey \cup {"FIRSTKEY", "KEY", "FIRSTVAL"} => ~c.keypresent
  /\ c.mode = "COLON" => c.keypresent

Good(c) == DOMAIN c = Fields /\ KeysGood(c.keystack) /\ ModesGood(c)

\* Before the root nothing is said; it has neither key nor container.
AtRoot(c) == said = <<>> /\ c.mode \in RootModes /\ ~c.keypresent

Inv ==
  /\ fed \in Fed
  /\ IsSeq(said)
  /\ ~Broken => Good(caj)
  /\ fed \in {"loop", "more"} /\ caj.keystack = <<>> => AtRoot(caj)

-----------------------------------------------------------------------------
(* Steps that say nothing.                                                 *)

LEMMA SameOpen ==
  ASSUME NEW c, NEW d, d.keystack = c.keystack, DictIn(d) = DictIn(c)
  PROVE  OpenOf(d) = OpenOf(c)
BY DEF OpenOf, OpenWith

\* A byte is taken, and the containers stay as they are.
LEMMA Quiet ==
  ASSUME Inv, fed = "loop", NEW c, caj' = c, UNCHANGED <<fed, said>>,
         DOMAIN c = Fields, c.keystack = caj.keystack, ModesGood(c),
         DictIn(c) = DictIn(caj),
         AtRoot(caj) => c.mode \in RootModes /\ ~c.keypresent
  PROVE  Inv' /\ UNCHANGED Sax!saxvars
<1>1. ~Broken /\ ~Broken' BY DEF Broken, Errors
<1>2. Good(c) BY <1>1 DEF Inv, Good
<1>3. OpenOf(c) = OpenOf(caj) BY SameOpen
<1>4. UNCHANGED Sax!saxvars BY <1>1, <1>3 DEF Sax!saxvars, Opened, Broken
<1>5. (fed \in {"loop", "more"} /\ caj.keystack = <<>> => AtRoot(caj))' BY DEF Inv, AtRoot
<1> QED BY <1>1, <1>2, <1>4, <1>5 DEF Inv, Broken

\* The parser gives up.
LEMMA GivesUp ==
  ASSUME Inv, fed = "loop" \/ fed = "tail", fed' \in Errors, UNCHANGED said
  PROVE  Inv' /\ Sax!Next
<1>1. ~Broken /\ Broken' BY DEF Broken, Errors
<1>2. Opened' = <<>> BY <1>1 DEF Opened
<1>3. Sax!Next BY <1>1, <1>2 DEF Sax!Next, Sax!GiveUp
<1>4. fed' \in Fed /\ fed' \notin {"loop", "more"} BY DEF Fed, Errors
<1> QED BY <1>1, <1>3, <1>4 DEF Inv

-----------------------------------------------------------------------------
(* Steps that say an event.                                                *)

\* A value that is read has a place and the key that belongs there.
LEMMA ValuePlaced ==
  ASSUME Inv, fed = "loop", caj.mode \in ValueModes
  PROVE  Sax!Placed(KeyOf(caj))
<1>1. ~Broken BY DEF Broken, Errors
<1>2. KeyOf(caj).present = caj.keypresent BY <1>1, KeyOfIsKey DEF Inv, Good, ModesGood
<1>3. Opened = OpenOf(caj) BY <1>1 DEF Opened
<1>4. CASE caj.keystack = <<>>
  <2>1. AtRoot(caj) BY <1>4 DEF Inv
  <2>2. OpenOf(caj) = <<>> BY <1>4 DEF OpenOf, OpenWith
  <2> QED BY <1>2, <1>3, <2>1, <2>2 DEF AtRoot, Sax!Placed
<1>5. CASE caj.keystack # <<>>
  <2>1. DictIn(caj) = caj.keypresent
    BY <1>1 DEF DictIn, ValueModes, RootModes, InKey, InString, InWord, Word, Inv, Good, ModesGood
  <2> QED BY <1>1, <1>2, <1>3, <1>5, <2>1, TopOpen DEF Inv, Good, Sax!Placed, Sax!Top, OpenOf
<1> QED BY <1>4, <1>5

LEMMA LeafSaid ==
  ASSUME Inv, fed = "loop", caj.mode \in ValueModes,
         NEW c, NEW e, caj' = c, said' = Append(said, e),
         e.ev = "leaf", e.key = KeyOf(caj),
         DOMAIN c = Fields, c.keystack = caj.keystack, c.keypresent = caj.keypresent,
         c.mode = "COMMA",
         \/ fed' = IF c.keystack = <<>> THEN "tail" ELSE "loop"
         \/ fed' = IF c.keystack = <<>> THEN "end" ELSE "short"
         \/ fed' = "REFUSED"
  PROVE  Inv' /\ Sax!Next
<1>1. ~Broken BY DEF Broken, Errors
<1>2. Good(c) BY <1>1 DEF Inv, Good, ModesGood, InKey
<1>3. DictIn(c) = DictIn(caj)
  BY <1>1 DEF DictIn, ValueModes, RootModes, InKey, InString, InWord, Word, Inv, Good, ModesGood
<1>4. OpenOf(c) = OpenOf(caj) BY <1>3, SameOpen
<1>5. Sax!Goes(Opened)
  <2>1. CASE fed' = "REFUSED" BY <2>1 DEF Sax!Goes, Opened, Broken, Errors
  <2>2. CASE fed' # "REFUSED"
    BY <1>1, <1>4, <2>2 DEF Sax!Goes, Opened, Broken, Errors
  <2> QED BY <2>1, <2>2
<1>6. Sax!Leaf(e) BY <1>5, ValuePlaced DEF Sax!Leaf
<1>7. IsSeq(said') /\ Len(said') = Len(said) + 1 /\ said'[Len(said) + 1] = e
  BY AppendSeq DEF Inv
<1>8. Sax!Next BY <1>1, <1>6, <1>7 DEF Sax!Next, Sax!Say
<1>9. fed' \in Fed /\ ~(fed' \in {"loop", "more"} /\ caj'.keystack = <<>>) BY DEF Fed, Errors
<1> QED BY <1>2, <1>7, <1>8, <1>9 DEF Inv


LEMMA StartSaid ==
  ASSUME Inv, fed = "loop", caj.mode \in ValueModes,
         NEW c, NEW dict \in BOOLEAN, caj' = c, said' = Append(said, StartEvent(caj, dict)),
         DOMAIN c = Fields, c.keystack = PutKeystack(caj), c.keypresent = FALSE,
         c.mode = IF dict THEN "FIRSTKEY" ELSE "FIRSTVAL",
         fed' \in {"tail", "loop", "REFUSED"}
  PROVE  Inv' /\ Sax!Next
<1> DEFINE e == StartEvent(caj, dict)
<1>1. ~Broken /\ Good(caj) BY DEF Broken, Errors, Inv
<1>2. IsKey(KeyOf(caj)) /\ KeyOf(caj).present = caj.keypresent
  BY <1>1, KeyOfIsKey DEF Good, ModesGood
<1>3. DictIn(caj) = caj.keypresent
  BY <1>1 DEF DictIn, ValueModes, RootModes, InKey, InString, InWord, Word, Good, ModesGood
<1>4. DictIn(c) = dict BY DEF DictIn, InKey
<1>5. OpenOf(c) = Append(OpenOf(caj), [dict |-> dict, key |-> KeyOf(caj)])
  BY <1>1, <1>2, <1>3, <1>4, StartOpen DEF Good, OpenOf
<1>6. e.ev = "start" /\ e.key = KeyOf(caj) /\ e.dict = dict BY DEF StartEvent
<1>7. Sax!Goes(Append(Opened, [dict |-> e.dict, key |-> e.key]))
  <2>1. CASE fed' = "REFUSED" BY <2>1 DEF Sax!Goes, Opened, Broken, Errors
  <2>2. CASE fed' # "REFUSED"
    BY <1>1, <1>5, <1>6, <2>2 DEF Sax!Goes, Opened, Broken, Errors
  <2> QED BY <2>1, <2>2
<1>8. Sax!Start(e) BY <1>6, <1>7, ValuePlaced DEF Sax!Start
<1>9. IsSeq(said') /\ Len(said') = Len(said) + 1 /\ said'[Len(said) + 1] = e
  BY AppendSeq DEF Inv
<1>10. Sax!Next BY <1>1, <1>8, <1>9 DEF Sax!Next, Sax!Say
<1>11. caj.keystack = <<>> => KeyOf(caj) = NoKey BY DEF Inv, AtRoot, KeyOf
<1>12. KeysGood(c.keystack) /\ c.keystack # <<>>
  <2>1. KeysGood(c.keystack) BY <1>1, <1>2, <1>11, PushedKeysGood DEF Good, PutKeystack
  <2>2. Len(c.keystack) = Len(caj.keystack) + 1 /\ Len(caj.keystack) \in Nat
    BY <1>1, AppendSeq, SeqLength DEF Good, KeysGood, PutKeystack
  <2>3. Len(c.keystack) # 0 BY <2>2
  <2> QED BY <2>1, <2>3, SeqLength DEF KeysGood
<1>13. Good(c) BY <1>12 DEF Good, ModesGood, InKey
<1> QED BY <1>9, <1>10, <1>12, <1>13 DEF Inv, Fed, Errors

LEMMA EndSaid ==
  ASSUME Inv, fed = "loop", caj.keystack # <<>>,
         NEW c, NEW dict \in BOOLEAN, dict = DictIn(caj), c = GetKeystack(caj),
         caj' = c, said' = Append(said, EndEvent(c, dict)),
         \/ fed' = IF c.keystack = <<>> THEN "tail" ELSE "loop"
         \/ fed' = "REFUSED"
  PROVE  Inv' /\ Sax!Next
<1> DEFINE e == EndEvent(c, dict)
<1>1. ~Broken /\ Good(caj) BY DEF Broken, Errors, Inv
<1>2. /\ OpenOf(c) = SubSeq(OpenOf(caj), 1, Len(OpenOf(caj)) - 1)
      /\ KeyOf(c) = caj.keystack[Len(caj.keystack)]
      /\ DOMAIN c = Fields /\ c.mode = "COMMA" /\ c.keystack = Front(caj.keystack)
      /\ c.keypresent \in BOOLEAN
  <2>1. {"mode", "keypresent", "key", "keystack"} \subseteq Fields BY DEF Fields
  <2>2. /\ OpenWith(c, c.keypresent)
              = SubSeq(OpenWith(caj, dict), 1, Len(OpenWith(caj, dict)) - 1)
        /\ KeyOf(c) = caj.keystack[Len(caj.keystack)]
        /\ DOMAIN c = Fields /\ c.mode = "COMMA" /\ c.keystack = Front(caj.keystack)
        /\ c.keypresent \in BOOLEAN
    <3>1. DOMAIN caj = Fields /\ KeysGood(caj.keystack)
      BY <1>1 DEF Good
    <3> QED BY <2>1, <3>1, EndOpen, SMTT(30)
  <2>3. DictIn(c) = c.keypresent BY <2>2 DEF DictIn, InKey
  <2> QED BY <2>2, <2>3 DEF OpenOf
<1>3. Good(c) BY <1>1, <1>2, PoppedKeysGood DEF Good, ModesGood, InKey
<1>4. e.ev = "end" /\ e.key = KeyOf(c) /\ e.dict = dict BY DEF EndEvent
<1>5. Opened = OpenOf(caj) BY <1>1 DEF Opened
<1>6. Opened # <<>> /\ e.dict = Sax!Top.dict /\ e.key = Sax!Top.key
  BY <1>1, <1>2, <1>4, <1>5, TopOpen DEF Good, Sax!Top, OpenOf
<1>7. Sax!Goes(SubSeq(Opened, 1, Len(Opened) - 1))
  <2>1. CASE fed' = "REFUSED" BY <2>1 DEF Sax!Goes, Opened, Broken, Errors
  <2>2. CASE fed' # "REFUSED"
    BY <1>2, <1>5, <2>2 DEF Sax!Goes, Opened, Broken, Errors
  <2> QED BY <2>1, <2>2
<1>8. Sax!End(e) BY <1>4, <1>6, <1>7 DEF Sax!End
<1>9. IsSeq(said') /\ Len(said') = Len(said) + 1 /\ said'[Len(said) + 1] = e
  BY AppendSeq DEF Inv
<1>10. Sax!Next BY <1>1, <1>8, <1>9 DEF Sax!Next, Sax!Say
<1>11. fed' \in Fed /\ ~(fed' \in {"loop", "more"} /\ caj'.keystack = <<>>) BY DEF Fed, Errors
<1> QED BY <1>3, <1>9, <1>10, <1>11 DEF Inv

-----------------------------------------------------------------------------
(* The steps of the parser.                                                *)

Walks == Inv' /\ [Sax!Next]_(Sax!saxvars)

\* What the cases of a step share.
LEMMA InLoop ==
  ASSUME Inv, fed = "loop"
  PROVE  /\ DOMAIN caj = Fields /\ KeysGood(caj.keystack) /\ ModesGood(caj)
         /\ caj.keystack = <<>> => AtRoot(caj)
BY DEF Inv, Broken, Errors, Good

\* A byte moves the mode on, within a place that keypresent does not change.
LEMMA ModeMoves ==
  ASSUME Inv, fed = "loop", NEW c, Go(c),
         DOMAIN c = Fields, c.keystack = caj.keystack, c.keypresent = caj.keypresent,
         \/ caj.mode \in ValueModes /\ c.mode \in RootModes
         \/ caj.mode \in InKey \cup {"FIRSTKEY", "KEY"} /\ c.mode \in InKey
         \/ c.mode = caj.mode
  PROVE  Walks
<1>1. ModesGood(caj) BY InLoop
<1>2. ModesGood(c) /\ DictIn(c) = DictIn(caj)
  BY <1>1 DEF ModesGood, DictIn, ValueModes, RootModes, InKey, InString, InWord, Word
<1>3. AtRoot(caj) => c.mode \in RootModes /\ ~c.keypresent
  BY DEF AtRoot, RootModes, InKey, InString, InWord, Word
<1> QED BY <1>2, <1>3, Quiet DEF Go, Walks

LEMMA Fails == ASSUME Inv, fed = "loop", NEW err \in Errors, Fail(err) PROVE Walks
BY GivesUp DEF Fail, Walks

LEMMA NoMemory == ASSUME Inv, fed = "loop", NoMem PROVE Walks
BY Fails DEF NoMem, Errors

LEMMA KeystringByteWalks ==
  ASSUME Inv, NEW b \in Byte, KeystringByte(b) PROVE Walks
<1>1. fed = "loop" /\ caj.mode = "KEYSTRING" BY DEF KeystringByte, Reads
<1>2. DOMAIN caj = Fields /\ ModesGood(caj) /\ ~AtRoot(caj)
  BY <1>1, InLoop DEF AtRoot, RootModes, InString, InWord, Word
<1>3. CASE Go([caj EXCEPT !.mode = "KEYSTRING_ESCAPE"])
  BY <1>1, <1>2, <1>3, ModeMoves DEF Fields, InKey
<1>4. CASE Go([caj EXCEPT !.mode = "COLON", !.keypresent = TRUE])
  <2> DEFINE c == [caj EXCEPT !.mode = "COLON", !.keypresent = TRUE]
  <2>1. /\ DOMAIN c = Fields /\ c.keystack = caj.keystack /\ c.mode = "COLON"
        /\ c.keypresent = TRUE
    BY <1>2 DEF Fields
  <2> HIDE DEF c
  <2>2. ModesGood(c) /\ DictIn(c) = DictIn(caj) BY <1>1, <2>1 DEF ModesGood, DictIn, InKey
  <2> QED BY <1>1, <1>2, <1>4, <2>1, <2>2, Quiet DEF Go, Walks, c
<1>5. CASE Go([caj EXCEPT !.key = Append(@, b)])
  BY <1>1, <1>2, <1>5, ModeMoves DEF Fields, InKey
<1>6. CASE NoMem BY <1>1, <1>6, NoMemory
<1> QED BY <1>3, <1>4, <1>5, <1>6 DEF KeystringByte

LEMMA LeafDelivered ==
  ASSUME Inv, fed = "loop", caj.mode \in ValueModes,
         NEW c, NEW e, Deliver(c, e), e.ev = "leaf", e.key = KeyOf(caj),
         DOMAIN c = Fields, c.keystack = caj.keystack, c.keypresent = caj.keypresent,
         c.mode = "COMMA"
  PROVE  Walks
BY LeafSaid DEF Deliver, Walks

LEMMA StringByteWalks == ASSUME Inv, NEW b \in Byte, StringByte(b) PROVE Walks
<1>1. fed = "loop" /\ caj.mode = "STRING" BY DEF StringByte, Reads
<1>2. DOMAIN caj = Fields /\ "STRING" \in ValueModes
  BY <1>1, InLoop DEF ValueModes, RootModes, InString
<1>3. CASE Go([caj EXCEPT !.mode = "STRING_ESCAPE"])
  BY <1>1, <1>2, <1>3, ModeMoves DEF Fields, RootModes, InString
<1>4. CASE Deliver([caj EXCEPT !.mode = "COMMA"], LeafEvent(caj, "string", caj.val))
  BY <1>1, <1>2, <1>4, LeafDelivered DEF Fields, LeafEvent
<1>5. CASE Go([caj EXCEPT !.val = Append(@, b)])
  BY <1>1, <1>2, <1>5, ModeMoves DEF Fields
<1>6. CASE NoMem BY <1>1, <1>6, NoMemory
<1> QED BY <1>3, <1>4, <1>5, <1>6 DEF StringByte

LEMMA KeyEscapeWalks == ASSUME Inv, NEW b \in Byte, KeyEscape(b) PROVE Walks
<1>1. fed = "loop" /\ caj.mode = "KEYSTRING_ESCAPE" BY DEF KeyEscape, Reads
<1>2. DOMAIN caj = Fields BY <1>1, InLoop
<1>3. CASE Go([caj EXCEPT !.key = Append(@, Escaped[b])])
  BY <1>1, <1>2, <1>3, ModeMoves DEF Fields
<1>4. CASE Go([caj EXCEPT !.mode = "KEYSTRING_UESCAPE", !.sz = 0, !.uescape = <<>>])
  BY <1>1, <1>2, <1>4, ModeMoves DEF Fields, InKey
<1>5. CASE Fail("EILSEQ") BY <1>1, <1>5, Fails DEF Errors
<1>6. CASE NoMem BY <1>1, <1>6, NoMemory
<1> QED BY <1>3, <1>4, <1>5, <1>6 DEF KeyEscape

LEMMA KeyUescapeWalks == ASSUME Inv, NEW b \in Byte, KeyUescape(b) PROVE Walks
<1> DEFINE c == HexRead(caj, b)
           d == [c EXCEPT !.mode = "KEYSTRING", !.key = @ \o Utf8(c.uescape)]
<1>1. fed = "loop" /\ caj.mode = "KEYSTRING_UESCAPE" BY DEF KeyUescape, Reads
<1>2. DOMAIN caj = Fields BY <1>1, InLoop
<1>3. /\ DOMAIN c = Fields /\ c.keystack = caj.keystack /\ c.keypresent = caj.keypresent
      /\ c.mode = caj.mode
  BY <1>2 DEF HexRead, Fields
<1> HIDE DEF c
<1>4. /\ DOMAIN d = Fields /\ d.keystack = caj.keystack /\ d.keypresent = caj.keypresent
      /\ d.mode = "KEYSTRING"
  BY <1>3 DEF Fields
<1>5. CASE Fail("EILSEQ") BY <1>1, <1>5, Fails DEF Errors
<1>6. CASE Go(c) BY <1>1, <1>3, <1>6, ModeMoves
<1>7. CASE NoMem BY <1>1, <1>7, NoMemory
<1>8. CASE Go(d)
  <2> HIDE DEF d
  <2> QED BY <1>1, <1>4, <1>8, ModeMoves DEF InKey
<1> QED BY <1>5, <1>6, <1>7, <1>8 DEF KeyUescape, c

LEMMA StringEscapeWalks == ASSUME Inv, NEW b \in Byte, StringEscape(b) PROVE Walks
<1>1. fed = "loop" /\ caj.mode = "STRING_ESCAPE" BY DEF StringEscape, Reads
<1>2. DOMAIN caj = Fields BY <1>1, InLoop
<1>3. CASE Go([caj EXCEPT !.val = Append(@, Escaped[b])])
  BY <1>1, <1>2, <1>3, ModeMoves DEF Fields
<1>4. CASE Go([caj EXCEPT !.mode = "STRING_UESCAPE", !.sz = 0, !.uescape = <<>>])
  BY <1>1, <1>2, <1>4, ModeMoves DEF Fields, ValueModes, RootModes, InString
<1>5. CASE Fail("EILSEQ") BY <1>1, <1>5, Fails DEF Errors
<1>6. CASE NoMem BY <1>1, <1>6, NoMemory
<1> QED BY <1>3, <1>4, <1>5, <1>6 DEF StringEscape

LEMMA StringUescapeWalks == ASSUME Inv, NEW b \in Byte, StringUescape(b) PROVE Walks
<1> DEFINE c == HexRead(caj, b)
           d == [c EXCEPT !.mode = "STRING", !.val = @ \o Utf8(c.uescape)]
<1>1. fed = "loop" /\ caj.mode = "STRING_UESCAPE" BY DEF StringUescape, Reads
<1>2. DOMAIN caj = Fields BY <1>1, InLoop
<1>3. /\ DOMAIN c = Fields /\ c.keystack = caj.keystack /\ c.keypresent = caj.keypresent
      /\ c.mode = caj.mode
  BY <1>2 DEF HexRead, Fields
<1> HIDE DEF c
<1>4. /\ DOMAIN d = Fields /\ d.keystack = caj.keystack /\ d.keypresent = caj.keypresent
      /\ d.mode = "STRING"
  BY <1>3 DEF Fields
<1>5. CASE Fail("EILSEQ") BY <1>1, <1>5, Fails DEF Errors
<1>6. CASE Go(c) BY <1>1, <1>3, <1>6, ModeMoves
<1>7. CASE NoMem BY <1>1, <1>7, NoMemory
<1>8. CASE Go(d)
  <2> HIDE DEF d
  <2> QED BY <1>1, <1>4, <1>8, ModeMoves DEF ValueModes, RootModes, InString
<1> QED BY <1>5, <1>6, <1>7, <1>8 DEF StringUescape, c

LEMMA WhiteSpaceWalks == ASSUME Inv, NEW b \in Byte, WhiteSpace(b) PROVE Walks
<1>1. fed = "loop" /\ Go(caj) BY DEF WhiteSpace, Reads
<1> QED BY <1>1, InLoop, ModeMoves

LEMMA ColonWalks == ASSUME Inv, NEW b \in Byte, Colon(b) PROVE Walks
<1> DEFINE c == [caj EXCEPT !.mode = "VAL"]
<1>1. fed = "loop" /\ caj.mode = "COLON" BY DEF Colon, Reads
<1>2. DOMAIN caj = Fields /\ ModesGood(caj) /\ caj.keypresent /\ ~AtRoot(caj)
  BY <1>1, InLoop DEF ModesGood, AtRoot, RootModes, InString, InWord, Word
<1>3. CASE Fail("EINVAL") BY <1>1, <1>3, Fails DEF Errors
<1>4. CASE Go(c)
  <2>1. /\ DOMAIN c = Fields /\ c.keystack = caj.keystack /\ c.mode = "VAL"
        /\ c.keypresent = caj.keypresent
    BY <1>2 DEF Fields
  <2> HIDE DEF c
  <2>2. ModesGood(c) /\ DictIn(c) = DictIn(caj) BY <1>2, <2>1 DEF ModesGood, DictIn, InKey
  <2> QED BY <1>1, <1>2, <1>4, <2>1, <2>2, Quiet DEF Go, Walks
<1> QED BY <1>3, <1>4 DEF Colon

LEMMA CommaWalks == ASSUME Inv, NEW b \in Byte, Comma(b) PROVE Walks
<1> DEFINE m == IF caj.keypresent THEN "KEY" ELSE "VAL"
           c == [caj EXCEPT !.mode = m, !.keypresent = FALSE]
<1>1. fed = "loop" /\ caj.mode = "COMMA" /\ Go(c) BY DEF Comma, Reads
<1>2. DOMAIN caj = Fields /\ ModesGood(caj) /\ ~AtRoot(caj)
  BY <1>1, InLoop DEF AtRoot, RootModes, InString, InWord, Word
<1>3. /\ DOMAIN c = Fields /\ c.keystack = caj.keystack /\ c.mode = m
      /\ c.keypresent = FALSE
  BY <1>2 DEF Fields
<1> HIDE DEF c
<1>4. ModesGood(c) BY <1>3 DEF ModesGood
<1>5. DictIn(c) = DictIn(caj)
  <2>1. CASE caj.keypresent = TRUE BY <1>3, <2>1 DEF DictIn
  <2>2. CASE caj.keypresent = FALSE BY <1>1, <1>3, <2>2 DEF DictIn, InKey
  <2> QED BY <1>2, <2>1, <2>2 DEF ModesGood
<1> QED BY <1>1, <1>2, <1>3, <1>4, <1>5, Quiet DEF Go, Walks

\* A container ends only where one is open, of the kind that is open.
LEMMA EndDelivered ==
  ASSUME Inv, fed = "loop", NEW dict \in BOOLEAN, ~AtRoot(caj), dict = DictIn(caj),
         Deliver(GetKeystack(caj), EndEvent(GetKeystack(caj), dict))
  PROVE  Walks
<1> DEFINE c == GetKeystack(caj)
<1>1. caj.keystack # <<>> BY InLoop
<1>2. /\ caj' = c /\ said' = Append(said, EndEvent(c, dict))
      /\ (fed' = IF c.keystack = <<>> THEN "tail" ELSE "loop") \/ fed' = "REFUSED"
  BY DEF Deliver
<1> HIDE DEF c
<1> QED BY <1>1, <1>2, EndSaid DEF Walks, c

LEMMA EndDictWalks == ASSUME Inv, NEW b \in Byte, EndDict(b) PROVE Walks
<1>1. fed = "loop" /\ caj.mode \in {"COMMA", "FIRSTKEY"} BY DEF EndDict, Reads
<1>2. ~AtRoot(caj) BY <1>1 DEF AtRoot, RootModes, InString, InWord, Word
<1>3. CASE Fail("EINVAL") BY <1>1, <1>3, Fails DEF Errors
<1>4. CASE fed' = "ENOMEM" /\ UNCHANGED said BY <1>1, <1>4, GivesUp DEF Walks, Errors
<1>5. CASE /\ ~(caj.mode = "COMMA" /\ ~caj.keypresent)
           /\ Deliver(GetKeystack(caj), EndEvent(GetKeystack(caj), TRUE))
  <2>1. DictIn(caj) = TRUE BY <1>1, <1>5, InLoop DEF DictIn, ModesGood
  <2> QED BY <1>1, <1>2, <1>5, <2>1, EndDelivered
<1> QED BY <1>3, <1>4, <1>5 DEF EndDict

LEMMA EndArrayWalks == ASSUME Inv, NEW b \in Byte, EndArray(b) PROVE Walks
<1>1. fed = "loop" /\ caj.mode \in {"COMMA", "FIRSTVAL"} BY DEF EndArray, Reads
<1>2. ~AtRoot(caj) BY <1>1 DEF AtRoot, RootModes, InString, InWord, Word
<1>3. CASE Fail("EINVAL") BY <1>1, <1>3, Fails DEF Errors
<1>4. CASE fed' = "ENOMEM" /\ UNCHANGED said BY <1>1, <1>4, GivesUp DEF Walks, Errors
<1>5. CASE /\ ~(caj.mode = "COMMA" /\ caj.keypresent)
           /\ Deliver(GetKeystack(caj), EndEvent(GetKeystack(caj), FALSE))
  <2>1. DictIn(caj) = FALSE BY <1>1, <1>5, InLoop DEF DictIn, ModesGood, InKey
  <2> QED BY <1>1, <1>2, <1>5, <2>1, EndDelivered
<1> QED BY <1>3, <1>4, <1>5 DEF EndArray

LEMMA StartDictWalks == ASSUME Inv, NEW b \in Byte, StartDict(b) PROVE Walks
<1> DEFINE c == [caj EXCEPT !.keystack = PutKeystack(caj), !.mode = "FIRSTKEY",
                            !.keypresent = FALSE]
<1>1. fed = "loop" /\ caj.mode \in ValueModes
  BY DEF StartDict, Reads, ValueDue, ValueModes, RootModes
<1>2. DOMAIN caj = Fields BY <1>1, InLoop
<1>3. /\ DOMAIN c = Fields /\ c.keystack = PutKeystack(caj) /\ c.mode = "FIRSTKEY"
      /\ c.keypresent = FALSE
  BY <1>2 DEF Fields
<1>4. CASE Deliver(c, StartEvent(caj, TRUE))
  <2> HIDE DEF c
  <2>1. /\ caj' = c /\ said' = Append(said, StartEvent(caj, TRUE))
        /\ fed' \in {"tail", "loop", "REFUSED"}
    BY <1>4 DEF Deliver
  <2> QED BY <1>1, <1>3, <2>1, StartSaid DEF Walks
<1>5. CASE NoMem BY <1>1, <1>5, NoMemory
<1> QED BY <1>4, <1>5 DEF StartDict

LEMMA StartArrayWalks == ASSUME Inv, NEW b \in Byte, StartArray(b) PROVE Walks
<1> DEFINE c == [caj EXCEPT !.keystack = PutKeystack(caj), !.mode = "FIRSTVAL",
                            !.keypresent = FALSE]
<1>1. fed = "loop" /\ caj.mode \in ValueModes
  BY DEF StartArray, Reads, ValueDue, ValueModes, RootModes
<1>2. DOMAIN caj = Fields BY <1>1, InLoop
<1>3. /\ DOMAIN c = Fields /\ c.keystack = PutKeystack(caj) /\ c.mode = "FIRSTVAL"
      /\ c.keypresent = FALSE
  BY <1>2 DEF Fields
<1>4. CASE Deliver(c, StartEvent(caj, FALSE))
  <2> HIDE DEF c
  <2>1. /\ caj' = c /\ said' = Append(said, StartEvent(caj, FALSE))
        /\ fed' \in {"tail", "loop", "REFUSED"}
    BY <1>4 DEF Deliver
  <2> QED BY <1>1, <1>3, <2>1, StartSaid DEF Walks
<1>5. CASE NoMem BY <1>1, <1>5, NoMemory
<1> QED BY <1>4, <1>5 DEF StartArray

LEMMA LetterWalks ==
  ASSUME Inv, NEW b \in Byte, NEW mode \in InWord, NEW typ, NEW val, Letter(b, mode, typ, val)
  PROVE  Walks
<1> DEFINE c == [caj EXCEPT !.sz = @ + 1]
           d == [c EXCEPT !.mode = "COMMA"]
<1>1. fed = "loop" /\ caj.mode = mode /\ caj.mode \in ValueModes
  BY DEF Letter, Reads, ValueModes, RootModes
<1>2. DOMAIN caj = Fields BY <1>1, InLoop
<1>3. /\ DOMAIN c = Fields /\ c.keystack = caj.keystack /\ c.keypresent = caj.keypresent
      /\ c.mode = caj.mode
  BY <1>2 DEF Fields
<1> HIDE DEF c
<1>4. /\ DOMAIN d = Fields /\ d.keystack = caj.keystack /\ d.keypresent = caj.keypresent
      /\ d.mode = "COMMA"
  BY <1>3 DEF Fields
<1>5. CASE Fail("EINVAL") BY <1>1, <1>5, Fails DEF Errors
<1>6. CASE Go(c) BY <1>1, <1>3, <1>6, ModeMoves
<1>7. CASE Deliver(d, LeafEvent(caj, typ, val))
  <2> DEFINE e == LeafEvent(caj, typ, val)
  <2>1. e.ev = "leaf" /\ e.key = KeyOf(caj) BY DEF LeafEvent
  <2> HIDE DEF d, e
  <2> QED BY <1>1, <1>4, <1>7, <2>1, LeafDelivered DEF e
<1> QED BY <1>5, <1>6, <1>7 DEF Letter, c

LEMMA StartWordWalks == ASSUME Inv, NEW b \in Byte, StartWord(b) PROVE Walks
<1>1. fed = "loop" /\ caj.mode \in ValueModes
  BY DEF StartWord, Reads, ValueDue, ValueModes, RootModes
<1>2. DOMAIN caj = Fields BY <1>1, InLoop
<1>3. PICK m \in InWord : Go([caj EXCEPT !.mode = m, !.sz = 1]) BY DEF StartWord
<1> QED BY <1>1, <1>2, <1>3, ModeMoves DEF Fields, RootModes

LEMMA StartStringWalks == ASSUME Inv, NEW b \in Byte, StartString(b) PROVE Walks
<1>1. fed = "loop" BY DEF StartString, Reads
<1>2. DOMAIN caj = Fields BY <1>1, InLoop
<1>3. CASE /\ caj.mode \in {"KEY", "FIRSTKEY"}
           /\ Go([caj EXCEPT !.mode = "KEYSTRING", !.key = <<>>])
  BY <1>1, <1>2, <1>3, ModeMoves DEF Fields, InKey
<1>4. CASE ValueDue /\ Go([caj EXCEPT !.mode = "STRING", !.val = <<>>])
  BY <1>1, <1>2, <1>4, ModeMoves DEF Fields, ValueDue, ValueModes, RootModes, InString
<1> QED BY <1>3, <1>4 DEF StartString

LEMMA NumberReadSame ==
  ASSUME NEW c, DOMAIN c = Fields, NEW b, NEW num
  PROVE  LET d == NumberRead(c, b, num)
         IN  /\ DOMAIN d = Fields /\ d.keystack = c.keystack /\ d.keypresent = c.keypresent
             /\ d.mode = c.mode
BY DEF NumberRead, Fields

LEMMA StartNumberWalks == ASSUME Inv, NEW b \in Byte, StartNumber(b) PROVE Walks
<1> DEFINE c == [caj EXCEPT !.mode = "NUMBER", !.isinteger = TRUE]
           num == AtofFeed(AtofInit(TRUE), b).ctx
           d == NumberRead(c, b, num)
<1>1. fed = "loop" /\ caj.mode \in ValueModes
  BY DEF StartNumber, Reads, ValueDue, ValueModes, RootModes
<1>2. DOMAIN caj = Fields BY <1>1, InLoop
<1>3. /\ DOMAIN c = Fields /\ c.keystack = caj.keystack /\ c.keypresent = caj.keypresent
      /\ c.mode = "NUMBER"
  BY <1>2 DEF Fields
<1>4. Go(d) BY DEF StartNumber
<1> HIDE DEF c, num
<1>5. /\ DOMAIN d = Fields /\ d.keystack = caj.keystack /\ d.keypresent = caj.keypresent
      /\ d.mode = "NUMBER"
  BY <1>3, NumberReadSame
<1> HIDE DEF d
<1> QED BY <1>1, <1>4, <1>5, ModeMoves DEF RootModes

LEMMA NumberByteWalks == ASSUME Inv, NEW b \in Byte, NumberByte(b) PROVE Walks
<1> DEFINE f == AtofFeed(caj.num, b)
           c == [caj EXCEPT !.num = f.ctx, !.mode = "COMMA"]
           d == NumberRead(caj, b, f.ctx)
<1>1. fed = "loop" /\ caj.mode = "NUMBER" BY DEF NumberByte, Reads
<1>2. DOMAIN caj = Fields /\ caj.mode \in ValueModes
  BY <1>1, InLoop DEF ValueModes, RootModes
<1>3. Go(d) \/ Fail("EINVAL") \/ Deliver(c, NumberEvent(c)) BY DEF NumberByte
<1> HIDE DEF f
<1>4. /\ DOMAIN d = Fields /\ d.keystack = caj.keystack /\ d.keypresent = caj.keypresent
      /\ d.mode = caj.mode
  BY <1>2, NumberReadSame
<1>5. /\ DOMAIN c = Fields /\ c.keystack = caj.keystack /\ c.keypresent = caj.keypresent
      /\ c.mode = "COMMA" /\ c.key = caj.key
  BY <1>2 DEF Fields
<1> DEFINE e == NumberEvent(c)
<1>6. e.ev = "leaf" /\ e.key = KeyOf(caj) BY <1>5 DEF NumberEvent, LeafEvent, KeyOf
<1> HIDE DEF c, d, e
<1>7. CASE Go(d) BY <1>1, <1>4, <1>7, ModeMoves
<1>8. CASE Fail("EINVAL") BY <1>1, <1>8, Fails DEF Errors
<1>9. CASE Deliver(c, e) BY <1>1, <1>2, <1>5, <1>6, <1>9, LeafDelivered
<1> QED BY <1>3, <1>7, <1>8, <1>9 DEF e

LEMMA IllegalWalks == ASSUME Inv, NEW b \in Byte, Illegal(b) PROVE Walks
BY Fails DEF Illegal, Reads, Errors

-----------------------------------------------------------------------------
(* Calls, chunks and the end of the text.                                  *)

\* A step that leaves the context and the events as they are.
LEMMA Stands ==
  ASSUME Inv, ~Broken, ~Broken', UNCHANGED <<caj, said>>, fed' \in Fed,
         fed' \in {"loop", "more"} => fed \in {"loop", "more"}
  PROVE  Walks
<1>1. UNCHANGED Sax!saxvars
  <2>1. (Broken = FALSE) /\ (Broken' = FALSE) BY DEF Broken
  <2>2. Opened' = Opened BY DEF Opened
  <2> QED BY <2>1, <2>2 DEF Sax!saxvars
<1>2. Inv' BY DEF Inv, AtRoot
<1> QED BY <1>1, <1>2 DEF Walks

LEMMA ChunkEndWalks == ASSUME Inv, NEW eof \in BOOLEAN, ChunkEnd(eof) PROVE Walks
<1> DEFINE c == [caj EXCEPT !.mode = "COMMA"]
           e == NumberEvent(c)
<1>1. fed = "loop" BY DEF ChunkEnd
<1>2. CASE caj.mode = "NUMBER" /\ eof
  <2>1. DOMAIN caj = Fields /\ caj.mode \in ValueModes
    BY <1>1, <1>2, InLoop DEF ValueModes, RootModes
  <2>2. /\ DOMAIN c = Fields /\ c.keystack = caj.keystack /\ c.keypresent = caj.keypresent
        /\ c.mode = "COMMA" /\ c.key = caj.key
    BY <2>1 DEF Fields
  <2>3. e.ev = "leaf" /\ e.key = KeyOf(caj) BY <2>2 DEF NumberEvent, LeafEvent, KeyOf
  <2>4. /\ caj' = c /\ said' = Append(said, e)
        /\ (fed' = IF c.keystack = <<>> THEN "end" ELSE "short") \/ fed' = "REFUSED"
    BY <1>2 DEF ChunkEnd
  <2> HIDE DEF c, e
  <2> QED BY <1>1, <2>1, <2>2, <2>3, <2>4, LeafSaid DEF Walks
<1>3. CASE ~(caj.mode = "NUMBER" /\ eof)
  <2>1. fed' \in {"short", "more"} /\ UNCHANGED <<caj, said>> BY <1>3 DEF ChunkEnd
  <2> QED BY <1>1, <2>1, Stands DEF Broken, Errors, Fed
<1> QED BY <1>2, <1>3

LEMMA TailByteWalks == ASSUME Inv, NEW b \in Byte, TailByte(b) PROVE Walks
<1>1. fed = "tail" /\ UNCHANGED <<caj, said>> BY DEF TailByte
<1>2. CASE fed' = "tail" BY <1>1, <1>2, Stands DEF Broken, Errors, Fed
<1>3. CASE fed' = "EOVERFLOW" BY <1>1, <1>3, GivesUp DEF Errors, Walks
<1> QED BY <1>2, <1>3 DEF TailByte

LEMMA CallsWalk ==
  ASSUME Inv, Feed \/ TailEnd \/ (\E b \in Byte : Arrive(b)) \/ UNCHANGED cajvars
  PROVE  Walks
<1>1. CASE Feed BY <1>1, Stands DEF Feed, Broken, Errors, Fed
<1>2. CASE TailEnd BY <1>2, Stands DEF TailEnd, Broken, Errors, Fed
<1>3. CASE \E b \in Byte : Arrive(b) BY <1>3, Stands DEF Arrive, Broken, Errors, Fed
<1>4. CASE UNCHANGED cajvars
  <2>1. UNCHANGED Sax!saxvars BY <1>4 DEF cajvars, Sax!saxvars, Opened, Broken
  <2>2. Inv' BY <1>4 DEF cajvars, Inv, AtRoot, Broken
  <2> QED BY <2>1, <2>2 DEF Walks
<1> QED BY <1>1, <1>2, <1>3, <1>4

-----------------------------------------------------------------------------

LEMMA InitGood == PushInit => Inv /\ Sax!Init
<1> SUFFICES ASSUME PushInit PROVE Inv /\ Sax!Init OBVIOUS
<1>1. ~Broken BY DEF PushInit, Broken, Errors
<1>2. /\ DOMAIN caj = Fields /\ caj.mode = "VAL" /\ caj.keypresent = FALSE
      /\ caj.keystack = <<>> /\ said = <<>>
  BY DEF PushInit, ContextInit, Fields
<1>3. KeysGood(caj.keystack) BY <1>2, EmptyIsSeq DEF KeysGood
<1>4. ModesGood(caj) BY <1>2 DEF ModesGood, InKey
<1>5. Opened = <<>> BY <1>1, <1>2 DEF Opened, OpenOf, OpenWith
<1>6. Inv BY <1>1, <1>2, <1>3, <1>4, EmptyIsSeq DEF PushInit, Inv, Fed, Good, AtRoot, RootModes
<1> QED BY <1>1, <1>2, <1>5, <1>6 DEF Sax!Init

LEMMA Step == Inv /\ [PushNext]_cajvars => Inv' /\ [Sax!Next]_(Sax!saxvars)
<1> SUFFICES ASSUME Inv, [PushNext]_cajvars PROVE Walks BY DEF Walks
<1>1. ASSUME NEW b \in Byte, PushByte(b) PROVE Walks
  BY <1>1, KeystringByteWalks, StringByteWalks, KeyEscapeWalks, StringEscapeWalks,
     KeyUescapeWalks, StringUescapeWalks, WhiteSpaceWalks, ColonWalks, CommaWalks,
     EndDictWalks, EndArrayWalks, StartDictWalks, StartArrayWalks, LetterWalks,
     StartWordWalks, StartStringWalks, StartNumberWalks, NumberByteWalks,
     IllegalWalks, TailByteWalks
  DEF PushByte, TrueByte, FalseByte, NullByte, InWord, Word
<1>2. ASSUME NEW eof \in BOOLEAN, ChunkEnd(eof) PROVE Walks BY <1>2, ChunkEndWalks
<1> QED BY <1>1, <1>2, CallsWalk DEF PushNext

\* Whatever bytes arrive, wherever the chunks are cut, whichever events the
\* handler refuses and whenever memory runs out, the events of abce_caj_feed
\* walk one tree: a value has a key exactly inside a dictionary, and a container
\* ends with its own kind and its own key, though the context keeps no kinds.
THEOREM PushWalks == PushSpec => PushWalksATree
<1>1. PushSpec => []Inv
  <2>1. PushInit => Inv BY InitGood
  <2>2. Inv /\ [PushNext]_cajvars => Inv' BY Step
  <2> QED BY <2>1, <2>2, PTL DEF PushSpec
<1>2. PushInit => Sax!Init BY InitGood
<1>3. Inv /\ [PushNext]_cajvars => [Sax!Next]_(Sax!saxvars) BY Step
<1> QED BY <1>1, <1>2, <1>3, PTL DEF PushSpec, PushWalksATree, Sax!SaxSpec
=============================================================================
