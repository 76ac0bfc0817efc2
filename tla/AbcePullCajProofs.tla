------------------------- MODULE AbcePullCajProofs --------------------------
(***************************************************************************)
(* The pull parser walks one tree, though it is left and entered again     *)
(* between any two events: PullSpec implements AbceSax.                    *)
(*                                                                         *)
(* The argument is the push parser's, with one thing more: after the event *)
(* of a new container the key is still present, until the next call comes  *)
(* back to where state says and clears it.                                 *)
(***************************************************************************)
EXTENDS AbcePullCaj, AbceCajFacts

-----------------------------------------------------------------------------
(* The invariant.                                                          *)

Fields == {"mode", "sz", "uescape", "keypresent", "key", "keystack", "val", "num",
           "isinteger", "i", "state"}

\* No key is present where the first value or the next key is awaited.
ModesGood(c) ==
  /\ c.mode \in InKey \cup {"FIRSTKEY", "KEY", "FIRSTVAL"} => ~c.keypresent
  /\ c.mode = "COLON" => c.keypresent

Good(c) == DOMAIN c = Fields /\ KeysGood(c.keystack) /\ c.keypresent \in BOOLEAN

\* Before the root nothing is said; it has neither key nor container.
AtRoot(c) == told = <<>> /\ c.mode \in RootModes /\ ~c.keypresent

\* Where the next call comes back to, after an event.
EventGood(c) ==
  IF c.state \in {4, 5} THEN c.mode \in {"FIRSTKEY", "FIRSTVAL"} /\ c.keystack # <<>>
  ELSE c.mode = "COMMA"

Inv ==
  /\ got \in Got
  /\ IsSeq(told)
  /\ ~PullBroken => Good(pc)
  /\ got = "event" => EventGood(pc)
  /\ got \in {"loop", "more"} => ModesGood(pc)
  /\ got \in {"loop", "more"} /\ pc.keystack = <<>> => AtRoot(pc)

Walks == Inv' /\ [PullSax!Next]_(PullSax!saxvars)

-----------------------------------------------------------------------------
(* Steps that say nothing.                                                 *)

\* What the cases of a step share.
LEMMA InLoop ==
  ASSUME Inv, got = "loop"
  PROVE  /\ DOMAIN pc = Fields /\ KeysGood(pc.keystack) /\ pc.keypresent \in BOOLEAN
         /\ ModesGood(pc)
         /\ pc.keystack = <<>> => AtRoot(pc)
BY DEF Inv, PullBroken, Errors, Good

LEMMA SameOpened ==
  ASSUME ~PullBroken, ~PullBroken', UNCHANGED told, pc'.keystack = pc.keystack,
         PullDictIn(pc') = PullDictIn(pc)
  PROVE  UNCHANGED PullSax!saxvars
<1>1. (PullBroken = FALSE) /\ (PullBroken' = FALSE) BY DEF PullBroken
<1>2. PullOpenOf(pc') = PullOpenOf(pc) BY DEF PullOpenOf, OpenWith
<1>3. PullOpened' = PullOpened BY <1>1, <1>2 DEF PullOpened
<1> QED BY <1>1, <1>3 DEF PullSax!saxvars

\* A byte is taken, and the containers stay as they are.
LEMMA Quiet ==
  ASSUME Inv, got = "loop", NEW c, On(c),
         DOMAIN c = Fields, c.keystack = pc.keystack, c.keypresent \in BOOLEAN, ModesGood(c),
         PullDictIn(c) = PullDictIn(pc),
         AtRoot(pc) => c.mode \in RootModes /\ ~c.keypresent
  PROVE  Walks
<1>1. ~PullBroken /\ ~PullBroken' BY DEF PullBroken, Errors, On
<1>2. /\ DOMAIN pc' = Fields /\ pc'.keystack = pc.keystack /\ pc'.mode = c.mode
      /\ pc'.keypresent = c.keypresent
  BY DEF On, Fields
<1>3. Good(pc') BY <1>1, <1>2 DEF Inv, Good
<1>4. ModesGood(pc') /\ PullDictIn(pc') = PullDictIn(pc)
  BY <1>2 DEF ModesGood, PullDictIn
<1>5. got' = got /\ told' = told BY DEF On
<1>6. UNCHANGED PullSax!saxvars BY <1>1, <1>2, <1>4, <1>5, SameOpened
<1>7. (got \in {"loop", "more"} /\ pc.keystack = <<>> => AtRoot(pc))'
  BY <1>2, <1>5 DEF Inv, AtRoot
<1> QED BY <1>3, <1>4, <1>5, <1>6, <1>7 DEF Inv, Walks

\* The parser gives up.
LEMMA GivesUp ==
  ASSUME Inv, got \in {"loop", "tail", "tail3"}, got' \in Errors \ {"REFUSED"}, UNCHANGED told
  PROVE  Walks
<1>1. ~PullBroken /\ PullBroken' BY DEF PullBroken, Errors
<1>2. PullOpened' = <<>> BY <1>1 DEF PullOpened
<1>3. PullSax!Next BY <1>1, <1>2 DEF PullSax!Next, PullSax!GiveUp
<1>4. got' \in Got /\ got' \notin {"loop", "more", "event"} BY DEF Got, Errors
<1> QED BY <1>1, <1>3, <1>4 DEF Inv, Walks

LEMMA Throws ==
  ASSUME Inv, got \in {"loop", "tail", "tail3"}, NEW err \in Errors \ {"REFUSED"}, Throw(err)
  PROVE  Walks
BY GivesUp DEF Throw

LEMMA NoRoomThrows == ASSUME Inv, got = "loop", NoRoom PROVE Walks
BY Throws DEF NoRoom, Errors

\* A byte moves the mode on, within a place that keypresent does not change.
LEMMA ModeMoves ==
  ASSUME Inv, got = "loop", NEW c, On(c),
         DOMAIN c = Fields, c.keystack = pc.keystack, c.keypresent = pc.keypresent,
         \/ pc.mode \in ValueModes /\ c.mode \in RootModes
         \/ pc.mode \in InKey \cup {"FIRSTKEY", "KEY"} /\ c.mode \in InKey
         \/ c.mode = pc.mode
  PROVE  Walks
<1>1. ModesGood(pc) /\ pc.keypresent \in BOOLEAN BY InLoop
<1>2. ModesGood(c) /\ PullDictIn(c) = PullDictIn(pc)
  BY <1>1 DEF ModesGood, PullDictIn, ValueModes, RootModes, InKey, InString, InWord, Word
<1>3. AtRoot(pc) => c.mode \in RootModes /\ ~c.keypresent
  BY DEF AtRoot, RootModes, InKey, InString, InWord, Word
<1> QED BY <1>1, <1>2, <1>3, Quiet

-----------------------------------------------------------------------------
(* Steps that return an event.                                             *)

\* What the return of an event leaves.
LEMMA Returned ==
  ASSUME NEW c, NEW e, NEW state, Return(c, e, state), DOMAIN c = Fields, IsSeq(told)
  PROVE  /\ DOMAIN pc' = Fields /\ pc'.keystack = c.keystack /\ pc'.mode = c.mode
         /\ pc'.keypresent = c.keypresent /\ pc'.state = state
         /\ got' = "event" /\ ~PullBroken'
         /\ told' = Append(told, e) /\ IsSeq(told')
         /\ Len(told') = Len(told) + 1 /\ told'[Len(told) + 1] = e
<1>1. told' = Append(told, e) /\ got' = "event" /\ pc' = [c EXCEPT !.state = state]
  BY DEF Return
<1>2. ~PullBroken' BY <1>1 DEF PullBroken, Errors
<1> QED BY <1>1, <1>2, AppendSeq DEF Fields

\* A value that is read has a place and the key that belongs there.
LEMMA ValuePlaced ==
  ASSUME Inv, got = "loop", pc.mode \in ValueModes
  PROVE  PullSax!Placed(KeyOf(pc)) /\ PullDictIn(pc) = pc.keypresent
<1>1. ~PullBroken BY DEF PullBroken, Errors
<1>2. KeyOf(pc).present = pc.keypresent BY InLoop, KeyOfIsKey
<1>3. PullOpened = PullOpenOf(pc) BY <1>1 DEF PullOpened
<1>4. PullDictIn(pc) = pc.keypresent
  BY InLoop DEF PullDictIn, ValueModes, RootModes, InKey, InString, InWord, Word, ModesGood
<1>5. CASE pc.keystack = <<>>
  <2>1. AtRoot(pc) BY <1>5, InLoop
  <2>2. PullOpenOf(pc) = <<>> BY <1>5 DEF PullOpenOf, OpenWith
  <2> QED BY <1>2, <1>3, <1>4, <2>1, <2>2 DEF AtRoot, PullSax!Placed
<1>6. CASE pc.keystack # <<>>
  BY <1>2, <1>3, <1>4, <1>6, InLoop, TopOpen DEF PullSax!Placed, PullSax!Top, PullOpenOf
<1> QED BY <1>5, <1>6

LEMMA LeafTold ==
  ASSUME Inv, got = "loop", pc.mode \in ValueModes,
         NEW c, NEW e, NEW state \in {1, 6, 7, 8, 9, 10}, Return(c, e, state),
         e.ev = "leaf", e.key = KeyOf(pc),
         DOMAIN c = Fields, c.keystack = pc.keystack, c.keypresent = pc.keypresent,
         c.mode = "COMMA"
  PROVE  Walks
<1>1. ~PullBroken BY DEF PullBroken, Errors
<1>2. IsSeq(told) BY DEF Inv
<1>3. /\ DOMAIN pc' = Fields /\ pc'.keystack = pc.keystack /\ pc'.mode = "COMMA"
      /\ pc'.keypresent = pc.keypresent /\ pc'.state = state
      /\ got' = "event" /\ ~PullBroken'
      /\ told' = Append(told, e) /\ IsSeq(told')
      /\ Len(told') = Len(told) + 1 /\ told'[Len(told) + 1] = e
  BY <1>2, Returned
<1>4. Good(pc') /\ EventGood(pc') BY <1>3, InLoop DEF Good, EventGood
<1>5. PullDictIn(pc') = PullDictIn(pc)
  BY <1>3, InLoop, ValuePlaced DEF PullDictIn, InKey
<1>6. PullOpened' = PullOpened /\ PullBroken' = FALSE
  <2>1. PullOpenOf(pc') = PullOpenOf(pc) BY <1>3, <1>5 DEF PullOpenOf, OpenWith
  <2>2. (PullBroken = FALSE) /\ (PullBroken' = FALSE) BY <1>1, <1>3 DEF PullBroken
  <2> QED BY <2>1, <2>2 DEF PullOpened
<1>7. PullSax!Leaf(e) BY <1>6, ValuePlaced DEF PullSax!Leaf, PullSax!Goes
<1>8. PullSax!Next BY <1>1, <1>3, <1>7 DEF PullSax!Next, PullSax!Say
<1> QED BY <1>3, <1>4, <1>8 DEF Inv, Walks, Got

LEMMA StartTold ==
  ASSUME Inv, got = "loop", pc.mode \in ValueModes,
         NEW c, NEW dict \in BOOLEAN, NEW state \in {4, 5},
         Return(c, StartEvent(pc, dict), state),
         DOMAIN c = Fields, c.keystack = PutKeystack(pc), c.keypresent = pc.keypresent,
         c.mode = IF dict THEN "FIRSTKEY" ELSE "FIRSTVAL"
  PROVE  Walks
<1> DEFINE e == StartEvent(pc, dict)
<1>1. ~PullBroken BY DEF PullBroken, Errors
<1>2. IsSeq(told) BY DEF Inv
<1>3. /\ DOMAIN pc' = Fields /\ pc'.keystack = PutKeystack(pc)
      /\ pc'.mode = IF dict THEN "FIRSTKEY" ELSE "FIRSTVAL"
      /\ pc'.keypresent = pc.keypresent /\ pc'.state = state
      /\ got' = "event" /\ ~PullBroken'
      /\ told' = Append(told, e) /\ IsSeq(told')
      /\ Len(told') = Len(told) + 1 /\ told'[Len(told) + 1] = e
  <2> HIDE DEF e
  <2> QED BY <1>2, Returned DEF e
<1>4. IsKey(KeyOf(pc)) /\ KeyOf(pc).present = pc.keypresent BY InLoop, KeyOfIsKey
<1>5. PullDictIn(pc) = pc.keypresent BY ValuePlaced
<1>6. PullDictIn(pc') = dict BY <1>3 DEF PullDictIn, InKey
<1>7. PullOpenOf(pc') = Append(PullOpenOf(pc), [dict |-> dict, key |-> KeyOf(pc)])
  BY <1>3, <1>4, <1>5, <1>6, InLoop, StartOpen DEF PullOpenOf
<1>8. e.ev = "start" /\ e.key = KeyOf(pc) /\ e.dict = dict BY DEF StartEvent
<1>9. PullOpened' = Append(PullOpened, [dict |-> e.dict, key |-> e.key]) /\ PullBroken' = FALSE
  <2>1. (PullBroken = FALSE) /\ (PullBroken' = FALSE) BY <1>1, <1>3 DEF PullBroken
  <2> QED BY <1>7, <1>8, <2>1 DEF PullOpened
<1>10. PullSax!Start(e) BY <1>8, <1>9, ValuePlaced DEF PullSax!Start, PullSax!Goes
<1>11. PullSax!Next BY <1>1, <1>3, <1>10 DEF PullSax!Next, PullSax!Say
<1>12. pc.keystack = <<>> => KeyOf(pc) = NoKey BY InLoop DEF AtRoot, KeyOf
<1>13. KeysGood(pc'.keystack) /\ pc'.keystack # <<>>
  <2>1. KeysGood(pc'.keystack) BY <1>3, <1>4, <1>12, InLoop, PushedKeysGood DEF PutKeystack
  <2>2. Len(pc'.keystack) = Len(pc.keystack) + 1 /\ Len(pc.keystack) \in Nat
    BY <1>3, InLoop, AppendSeq, SeqLength DEF KeysGood, PutKeystack
  <2>3. Len(pc'.keystack) # 0 BY <2>2
  <2> QED BY <2>1, <2>3, SeqLength DEF KeysGood
<1>14. Good(pc') /\ EventGood(pc') BY <1>3, <1>13, InLoop DEF Good, EventGood
<1> QED BY <1>3, <1>11, <1>14 DEF Inv, Walks, Got

LEMMA EndTold ==
  ASSUME Inv, got = "loop", pc.keystack # <<>>,
         NEW dict \in BOOLEAN, dict = PullDictIn(pc), NEW state \in {2, 3},
         Return(GetKeystack(pc), EndEvent(GetKeystack(pc), dict), state)
  PROVE  Walks
<1> DEFINE c == GetKeystack(pc)
           e == EndEvent(c, dict)
<1>1. ~PullBroken BY DEF PullBroken, Errors
<1>2. IsSeq(told) BY DEF Inv
<1>3. /\ OpenWith(c, c.keypresent)
           = SubSeq(OpenWith(pc, dict), 1, Len(OpenWith(pc, dict)) - 1)
      /\ KeyOf(c) = pc.keystack[Len(pc.keystack)]
      /\ DOMAIN c = Fields /\ c.mode = "COMMA" /\ c.keystack = Front(pc.keystack)
      /\ c.keypresent \in BOOLEAN
  <2>1. {"mode", "keypresent", "key", "keystack"} \subseteq Fields BY DEF Fields
  <2> QED BY <2>1, InLoop, EndOpen
<1>4. e.ev = "end" /\ e.key = KeyOf(c) /\ e.dict = dict BY DEF EndEvent
<1>5. Return(c, e, state) OBVIOUS
<1> HIDE DEF c, e
<1>6. /\ DOMAIN pc' = Fields /\ pc'.keystack = Front(pc.keystack) /\ pc'.mode = "COMMA"
      /\ pc'.keypresent = c.keypresent /\ pc'.state = state
      /\ got' = "event" /\ ~PullBroken'
      /\ told' = Append(told, e) /\ IsSeq(told')
      /\ Len(told') = Len(told) + 1 /\ told'[Len(told) + 1] = e
  BY <1>2, <1>3, <1>5, Returned
<1>7. Good(pc') /\ EventGood(pc')
  BY <1>3, <1>6, InLoop, PoppedKeysGood DEF Good, EventGood
<1>8. PullOpened = OpenWith(pc, dict) BY <1>1 DEF PullOpened, PullOpenOf
<1>9. PullOpened' = SubSeq(PullOpened, 1, Len(PullOpened) - 1) /\ PullBroken' = FALSE
  <2>1. PullDictIn(pc') = c.keypresent BY <1>3, <1>6 DEF PullDictIn, InKey
  <2>2. PullOpenOf(pc') = OpenWith(c, c.keypresent)
    BY <1>3, <1>6, <2>1 DEF PullOpenOf, OpenWith
  <2>3. PullBroken' = FALSE BY <1>6 DEF PullBroken
  <2> QED BY <1>3, <1>8, <2>2, <2>3 DEF PullOpened
<1>10. PullOpened # <<>> /\ e.dict = PullSax!Top.dict /\ e.key = PullSax!Top.key
  BY <1>3, <1>4, <1>8, InLoop, TopOpen DEF PullSax!Top
<1>11. PullSax!End(e) BY <1>4, <1>9, <1>10 DEF PullSax!End, PullSax!Goes
<1>12. PullSax!Next BY <1>1, <1>6, <1>11 DEF PullSax!Next, PullSax!Say
<1> QED BY <1>6, <1>7, <1>12 DEF Inv, Walks, Got

-----------------------------------------------------------------------------
(* The steps of the parser.                                                *)

LEMMA PullKeystringWalks == ASSUME Inv, NEW b \in Byte, PullKeystring(b) PROVE Walks
<1>1. got = "loop" /\ pc.mode = "KEYSTRING" BY DEF PullKeystring, Sees
<1>2. DOMAIN pc = Fields /\ ~AtRoot(pc)
  BY <1>1, InLoop DEF AtRoot, RootModes, InString, InWord, Word
<1>3. CASE On([pc EXCEPT !.mode = "KEYSTRING_ESCAPE"])
  BY <1>1, <1>2, <1>3, ModeMoves DEF Fields, InKey
<1>4. CASE On([pc EXCEPT !.mode = "COLON", !.keypresent = TRUE])
  <2> DEFINE c == [pc EXCEPT !.mode = "COLON", !.keypresent = TRUE]
  <2>1. /\ DOMAIN c = Fields /\ c.keystack = pc.keystack /\ c.mode = "COLON"
        /\ c.keypresent = TRUE
    BY <1>2 DEF Fields
  <2> HIDE DEF c
  <2>2. ModesGood(c) /\ PullDictIn(c) = PullDictIn(pc)
    BY <1>1, <2>1 DEF ModesGood, PullDictIn, InKey
  <2> QED BY <1>1, <1>2, <1>4, <2>1, <2>2, Quiet DEF c
<1>5. CASE On([pc EXCEPT !.key = Append(@, b)])
  BY <1>1, <1>2, <1>5, ModeMoves DEF Fields, InKey
<1>6. CASE NoRoom BY <1>1, <1>6, NoRoomThrows
<1> QED BY <1>3, <1>4, <1>5, <1>6 DEF PullKeystring

LEMMA PullStringWalks == ASSUME Inv, NEW b \in Byte, PullString(b) PROVE Walks
<1>1. got = "loop" /\ pc.mode = "STRING" BY DEF PullString, Sees
<1>2. DOMAIN pc = Fields /\ "STRING" \in ValueModes
  BY <1>1, InLoop DEF ValueModes, RootModes, InString
<1>3. CASE On([pc EXCEPT !.mode = "STRING_ESCAPE"])
  BY <1>1, <1>2, <1>3, ModeMoves DEF Fields, RootModes, InString
<1>4. CASE Return([pc EXCEPT !.mode = "COMMA"], LeafEvent(pc, "string", pc.val), 1)
  <2> DEFINE c == [pc EXCEPT !.mode = "COMMA"]
             e == LeafEvent(pc, "string", pc.val)
  <2>1. /\ DOMAIN c = Fields /\ c.keystack = pc.keystack /\ c.keypresent = pc.keypresent
        /\ c.mode = "COMMA"
    BY <1>2 DEF Fields
  <2>2. e.ev = "leaf" /\ e.key = KeyOf(pc) BY DEF LeafEvent
  <2> HIDE DEF c, e
  <2> QED BY <1>1, <1>2, <1>4, <2>1, <2>2, LeafTold DEF c, e
<1>5. CASE On([pc EXCEPT !.val = Append(@, b)])
  BY <1>1, <1>2, <1>5, ModeMoves DEF Fields
<1>6. CASE NoRoom BY <1>1, <1>6, NoRoomThrows
<1> QED BY <1>3, <1>4, <1>5, <1>6 DEF PullString

LEMMA PullKeyEscapeWalks == ASSUME Inv, NEW b \in Byte, PullKeyEscape(b) PROVE Walks
<1>1. got = "loop" /\ pc.mode = "KEYSTRING_ESCAPE" BY DEF PullKeyEscape, Sees
<1>2. DOMAIN pc = Fields BY <1>1, InLoop
<1>3. CASE On([pc EXCEPT !.mode = "KEYSTRING", !.key = Append(@, Unescaped[b])])
  BY <1>1, <1>2, <1>3, ModeMoves DEF Fields, InKey
<1>4. CASE On([pc EXCEPT !.mode = "KEYSTRING_UESCAPE", !.sz = 0, !.uescape = <<>>])
  BY <1>1, <1>2, <1>4, ModeMoves DEF Fields, InKey
<1>5. CASE Throw("EILSEQ") BY <1>1, <1>5, Throws DEF Errors
<1>6. CASE NoRoom BY <1>1, <1>6, NoRoomThrows
<1> QED BY <1>3, <1>4, <1>5, <1>6 DEF PullKeyEscape

LEMMA PullKeyUescapeWalks == ASSUME Inv, NEW b \in Byte, PullKeyUescape(b) PROVE Walks
<1> DEFINE c == HexRead(pc, b)
           d == [c EXCEPT !.mode = "KEYSTRING", !.key = @ \o Utf8(c.uescape)]
<1>1. got = "loop" /\ pc.mode = "KEYSTRING_UESCAPE" BY DEF PullKeyUescape, Sees
<1>2. DOMAIN pc = Fields BY <1>1, InLoop
<1>3. /\ DOMAIN c = Fields /\ c.keystack = pc.keystack /\ c.keypresent = pc.keypresent
      /\ c.mode = pc.mode
  BY <1>2 DEF HexRead, Fields
<1> HIDE DEF c
<1>4. /\ DOMAIN d = Fields /\ d.keystack = pc.keystack /\ d.keypresent = pc.keypresent
      /\ d.mode = "KEYSTRING"
  BY <1>3 DEF Fields
<1>5. CASE Throw("EILSEQ") BY <1>1, <1>5, Throws DEF Errors
<1>6. CASE On(c) BY <1>1, <1>3, <1>6, ModeMoves
<1>7. CASE NoRoom BY <1>1, <1>7, NoRoomThrows
<1>8. CASE On(d)
  <2> HIDE DEF d
  <2> QED BY <1>1, <1>4, <1>8, ModeMoves DEF InKey
<1> QED BY <1>5, <1>6, <1>7, <1>8 DEF PullKeyUescape, c

LEMMA PullStringEscapeWalks == ASSUME Inv, NEW b \in Byte, PullStringEscape(b) PROVE Walks
<1>1. got = "loop" /\ pc.mode = "STRING_ESCAPE" BY DEF PullStringEscape, Sees
<1>2. DOMAIN pc = Fields BY <1>1, InLoop
<1>3. CASE On([pc EXCEPT !.mode = "STRING", !.val = Append(@, Unescaped[b])])
  BY <1>1, <1>2, <1>3, ModeMoves DEF Fields, ValueModes, RootModes, InString
<1>4. CASE On([pc EXCEPT !.mode = "STRING_UESCAPE", !.sz = 0, !.uescape = <<>>])
  BY <1>1, <1>2, <1>4, ModeMoves DEF Fields, ValueModes, RootModes, InString
<1>5. CASE Throw("EILSEQ") BY <1>1, <1>5, Throws DEF Errors
<1>6. CASE NoRoom BY <1>1, <1>6, NoRoomThrows
<1> QED BY <1>3, <1>4, <1>5, <1>6 DEF PullStringEscape

LEMMA PullStringUescapeWalks == ASSUME Inv, NEW b \in Byte, PullStringUescape(b) PROVE Walks
<1> DEFINE c == HexRead(pc, b)
           d == [c EXCEPT !.mode = "STRING", !.val = @ \o Utf8(c.uescape)]
<1>1. got = "loop" /\ pc.mode = "STRING_UESCAPE" BY DEF PullStringUescape, Sees
<1>2. DOMAIN pc = Fields BY <1>1, InLoop
<1>3. /\ DOMAIN c = Fields /\ c.keystack = pc.keystack /\ c.keypresent = pc.keypresent
      /\ c.mode = pc.mode
  BY <1>2 DEF HexRead, Fields
<1> HIDE DEF c
<1>4. /\ DOMAIN d = Fields /\ d.keystack = pc.keystack /\ d.keypresent = pc.keypresent
      /\ d.mode = "STRING"
  BY <1>3 DEF Fields
<1>5. CASE Throw("EILSEQ") BY <1>1, <1>5, Throws DEF Errors
<1>6. CASE On(c) BY <1>1, <1>3, <1>6, ModeMoves
<1>7. CASE NoRoom BY <1>1, <1>7, NoRoomThrows
<1>8. CASE On(d)
  <2> HIDE DEF d
  <2> QED BY <1>1, <1>4, <1>8, ModeMoves DEF ValueModes, RootModes, InString
<1> QED BY <1>5, <1>6, <1>7, <1>8 DEF PullStringUescape, c

LEMMA PullSpaceWalks == ASSUME Inv, NEW b \in Byte, PullSpace(b) PROVE Walks
<1>1. got = "loop" /\ On(pc) BY DEF PullSpace, Sees
<1> QED BY <1>1, InLoop, ModeMoves

LEMMA PullColonWalks == ASSUME Inv, NEW b \in Byte, PullColon(b) PROVE Walks
<1> DEFINE c == [pc EXCEPT !.mode = "VAL"]
<1>1. got = "loop" /\ pc.mode = "COLON" BY DEF PullColon, Sees
<1>2. DOMAIN pc = Fields /\ pc.keypresent = TRUE /\ ~AtRoot(pc)
  BY <1>1, InLoop DEF ModesGood, AtRoot, RootModes, InString, InWord, Word
<1>3. CASE Throw("EINVAL") BY <1>1, <1>3, Throws DEF Errors
<1>4. CASE On(c)
  <2>1. /\ DOMAIN c = Fields /\ c.keystack = pc.keystack /\ c.mode = "VAL"
        /\ c.keypresent = TRUE
    BY <1>2 DEF Fields
  <2> HIDE DEF c
  <2>2. ModesGood(c) /\ PullDictIn(c) = PullDictIn(pc)
    BY <1>1, <1>2, <2>1 DEF ModesGood, PullDictIn, InKey
  <2> QED BY <1>1, <1>2, <1>4, <2>1, <2>2, Quiet
<1> QED BY <1>3, <1>4 DEF PullColon

LEMMA PullCommaWalks == ASSUME Inv, NEW b \in Byte, PullComma(b) PROVE Walks
<1> DEFINE m == IF pc.keypresent THEN "KEY" ELSE "VAL"
           c == [pc EXCEPT !.mode = m, !.keypresent = FALSE]
<1>1. got = "loop" /\ pc.mode = "COMMA" /\ On(c) BY DEF PullComma, Sees
<1>2. DOMAIN pc = Fields /\ pc.keypresent \in BOOLEAN /\ ~AtRoot(pc)
  BY <1>1, InLoop DEF AtRoot, RootModes, InString, InWord, Word
<1>3. /\ DOMAIN c = Fields /\ c.keystack = pc.keystack /\ c.mode = m
      /\ c.keypresent = FALSE
  BY <1>2 DEF Fields
<1> HIDE DEF c
<1>4. ModesGood(c) BY <1>3 DEF ModesGood
<1>5. PullDictIn(c) = PullDictIn(pc)
  <2>1. CASE pc.keypresent = TRUE BY <1>1, <1>3, <2>1 DEF PullDictIn
  <2>2. CASE pc.keypresent = FALSE BY <1>1, <1>3, <2>2 DEF PullDictIn, InKey
  <2> QED BY <1>2, <2>1, <2>2
<1> QED BY <1>1, <1>2, <1>3, <1>4, <1>5, Quiet

LEMMA PullEndDictWalks == ASSUME Inv, NEW b \in Byte, PullEndDict(b) PROVE Walks
<1>1. got = "loop" /\ pc.mode \in {"COMMA", "FIRSTKEY"} BY DEF PullEndDict, Sees
<1>2. pc.keystack # <<>> BY <1>1, InLoop DEF AtRoot, RootModes, InString, InWord, Word
<1>3. CASE Throw("EINVAL") BY <1>1, <1>3, Throws DEF Errors
<1>4. CASE got' = "ENOMEM" /\ UNCHANGED told BY <1>1, <1>4, GivesUp DEF Errors
<1>5. CASE /\ ~(pc.mode = "COMMA" /\ ~pc.keypresent)
           /\ Return(GetKeystack(pc), EndEvent(GetKeystack(pc), TRUE), 2)
  <2>1. PullDictIn(pc) = TRUE BY <1>1, <1>5, InLoop DEF PullDictIn, ModesGood, InKey
  <2> QED BY <1>1, <1>2, <1>5, <2>1, EndTold
<1> QED BY <1>3, <1>4, <1>5 DEF PullEndDict

LEMMA PullEndArrayWalks == ASSUME Inv, NEW b \in Byte, PullEndArray(b) PROVE Walks
<1>1. got = "loop" /\ pc.mode \in {"COMMA", "FIRSTVAL"} BY DEF PullEndArray, Sees
<1>2. pc.keystack # <<>> BY <1>1, InLoop DEF AtRoot, RootModes, InString, InWord, Word
<1>3. CASE Throw("EINVAL") BY <1>1, <1>3, Throws DEF Errors
<1>4. CASE got' = "ENOMEM" /\ UNCHANGED told BY <1>1, <1>4, GivesUp DEF Errors
<1>5. CASE /\ ~(pc.mode = "COMMA" /\ pc.keypresent)
           /\ Return(GetKeystack(pc), EndEvent(GetKeystack(pc), FALSE), 3)
  <2>1. PullDictIn(pc) = FALSE BY <1>1, <1>5, InLoop DEF PullDictIn, ModesGood, InKey
  <2> QED BY <1>1, <1>2, <1>5, <2>1, EndTold
<1> QED BY <1>3, <1>4, <1>5 DEF PullEndArray

LEMMA PullStartDictWalks == ASSUME Inv, NEW b \in Byte, PullStartDict(b) PROVE Walks
<1> DEFINE c == [pc EXCEPT !.keystack = PutKeystack(pc), !.mode = "FIRSTKEY"]
<1>1. got = "loop" /\ pc.mode \in ValueModes
  BY DEF PullStartDict, Sees, PullValueDue, ValueModes, RootModes
<1>2. DOMAIN pc = Fields BY <1>1, InLoop
<1>3. /\ DOMAIN c = Fields /\ c.keystack = PutKeystack(pc) /\ c.mode = "FIRSTKEY"
      /\ c.keypresent = pc.keypresent
  BY <1>2 DEF Fields
<1>4. CASE Return(c, StartEvent(pc, TRUE), 4)
  <2> HIDE DEF c
  <2> QED BY <1>1, <1>3, <1>4, StartTold
<1>5. CASE NoRoom BY <1>1, <1>5, NoRoomThrows
<1> QED BY <1>4, <1>5 DEF PullStartDict

LEMMA PullStartArrayWalks == ASSUME Inv, NEW b \in Byte, PullStartArray(b) PROVE Walks
<1> DEFINE c == [pc EXCEPT !.keystack = PutKeystack(pc), !.mode = "FIRSTVAL"]
<1>1. got = "loop" /\ pc.mode \in ValueModes
  BY DEF PullStartArray, Sees, PullValueDue, ValueModes, RootModes
<1>2. DOMAIN pc = Fields BY <1>1, InLoop
<1>3. /\ DOMAIN c = Fields /\ c.keystack = PutKeystack(pc) /\ c.mode = "FIRSTVAL"
      /\ c.keypresent = pc.keypresent
  BY <1>2 DEF Fields
<1>4. CASE Return(c, StartEvent(pc, FALSE), 5)
  <2> HIDE DEF c
  <2> QED BY <1>1, <1>3, <1>4, StartTold
<1>5. CASE NoRoom BY <1>1, <1>5, NoRoomThrows
<1> QED BY <1>4, <1>5 DEF PullStartArray

LEMMA PullLetterWalks ==
  ASSUME Inv, NEW b \in Byte, NEW mode \in InWord, NEW typ, NEW val, NEW state \in {6, 7, 8},
         PullLetter(b, mode, typ, val, state)
  PROVE  Walks
<1> DEFINE c == [pc EXCEPT !.sz = @ + 1]
           d == [c EXCEPT !.mode = "COMMA"]
<1>1. got = "loop" /\ pc.mode = mode /\ pc.mode \in ValueModes
  BY DEF PullLetter, Sees, ValueModes, RootModes
<1>2. DOMAIN pc = Fields BY <1>1, InLoop
<1>3. /\ DOMAIN c = Fields /\ c.keystack = pc.keystack /\ c.keypresent = pc.keypresent
      /\ c.mode = pc.mode
  BY <1>2 DEF Fields
<1> HIDE DEF c
<1>4. /\ DOMAIN d = Fields /\ d.keystack = pc.keystack /\ d.keypresent = pc.keypresent
      /\ d.mode = "COMMA"
  BY <1>3 DEF Fields
<1>5. CASE Throw("EINVAL") BY <1>1, <1>5, Throws DEF Errors
<1>6. CASE On(c) BY <1>1, <1>3, <1>6, ModeMoves
<1>7. CASE Return(d, LeafEvent(pc, typ, val), state)
  <2> DEFINE e == LeafEvent(pc, typ, val)
  <2>1. e.ev = "leaf" /\ e.key = KeyOf(pc) BY DEF LeafEvent
  <2> HIDE DEF d, e
  <2> QED BY <1>1, <1>4, <1>7, <2>1, LeafTold DEF e
<1> QED BY <1>5, <1>6, <1>7 DEF PullLetter, c

LEMMA PullStartWordWalks == ASSUME Inv, NEW b \in Byte, PullStartWord(b) PROVE Walks
<1>1. got = "loop" /\ pc.mode \in ValueModes
  BY DEF PullStartWord, Sees, PullValueDue, ValueModes, RootModes
<1>2. DOMAIN pc = Fields BY <1>1, InLoop
<1>3. PICK m \in InWord : On([pc EXCEPT !.mode = m, !.sz = 1]) BY DEF PullStartWord
<1> QED BY <1>1, <1>2, <1>3, ModeMoves DEF Fields, RootModes

LEMMA PullStartStringWalks == ASSUME Inv, NEW b \in Byte, PullStartString(b) PROVE Walks
<1>1. got = "loop" BY DEF PullStartString, Sees
<1>2. DOMAIN pc = Fields BY <1>1, InLoop
<1>3. CASE /\ pc.mode \in {"KEY", "FIRSTKEY"}
           /\ On([pc EXCEPT !.mode = "KEYSTRING", !.key = <<>>])
  BY <1>1, <1>2, <1>3, ModeMoves DEF Fields, InKey
<1>4. CASE PullValueDue /\ On([pc EXCEPT !.mode = "STRING", !.val = <<>>])
  BY <1>1, <1>2, <1>4, ModeMoves DEF Fields, PullValueDue, ValueModes, RootModes, InString
<1> QED BY <1>3, <1>4 DEF PullStartString

LEMMA NumberReadSame ==
  ASSUME NEW c, DOMAIN c = Fields, NEW b, NEW num
  PROVE  LET d == NumberRead(c, b, num)
         IN  /\ DOMAIN d = Fields /\ d.keystack = c.keystack /\ d.keypresent = c.keypresent
             /\ d.mode = c.mode
BY DEF NumberRead, Fields

LEMMA PullStartNumberWalks == ASSUME Inv, NEW b \in Byte, PullStartNumber(b) PROVE Walks
<1> DEFINE c == [pc EXCEPT !.mode = "NUMBER", !.isinteger = TRUE]
           num == AtofFeed(AtofInit(TRUE), b).ctx
           d == NumberRead(c, b, num)
<1>1. got = "loop" /\ pc.mode \in ValueModes
  BY DEF PullStartNumber, Sees, PullValueDue, ValueModes, RootModes
<1>2. DOMAIN pc = Fields BY <1>1, InLoop
<1>3. /\ DOMAIN c = Fields /\ c.keystack = pc.keystack /\ c.keypresent = pc.keypresent
      /\ c.mode = "NUMBER"
  BY <1>2 DEF Fields
<1>4. On(d) BY DEF PullStartNumber
<1> HIDE DEF c, num
<1>5. /\ DOMAIN d = Fields /\ d.keystack = pc.keystack /\ d.keypresent = pc.keypresent
      /\ d.mode = "NUMBER"
  BY <1>3, NumberReadSame
<1> HIDE DEF d
<1> QED BY <1>1, <1>4, <1>5, ModeMoves DEF RootModes

LEMMA PullNumberWalks == ASSUME Inv, NEW b \in Byte, PullNumber(b) PROVE Walks
<1> DEFINE f == AtofFeed(pc.num, b)
           c == [pc EXCEPT !.num = f.ctx, !.mode = "COMMA", !.i = @ - 1]
           d == NumberRead(pc, b, f.ctx)
<1>1. got = "loop" /\ pc.mode = "NUMBER" BY DEF PullNumber, Sees
<1>2. DOMAIN pc = Fields /\ pc.mode \in ValueModes
  BY <1>1, InLoop DEF ValueModes, RootModes
<1>3. On(d) \/ Throw("EINVAL") \/ Return(c, NumberEvent(c), 9) BY DEF PullNumber
<1> HIDE DEF f
<1>4. /\ DOMAIN d = Fields /\ d.keystack = pc.keystack /\ d.keypresent = pc.keypresent
      /\ d.mode = pc.mode
  BY <1>2, NumberReadSame
<1>5. /\ DOMAIN c = Fields /\ c.keystack = pc.keystack /\ c.keypresent = pc.keypresent
      /\ c.mode = "COMMA" /\ c.key = pc.key
  BY <1>2 DEF Fields
<1> DEFINE e == NumberEvent(c)
<1>6. e.ev = "leaf" /\ e.key = KeyOf(pc) BY <1>5 DEF NumberEvent, LeafEvent, KeyOf
<1> HIDE DEF c, d, e
<1>7. CASE On(d) BY <1>1, <1>4, <1>7, ModeMoves
<1>8. CASE Throw("EINVAL") BY <1>1, <1>8, Throws DEF Errors
<1>9. CASE Return(c, e, 9) BY <1>1, <1>2, <1>5, <1>6, <1>9, LeafTold
<1> QED BY <1>3, <1>7, <1>8, <1>9 DEF e

LEMMA PullIllegalWalks == ASSUME Inv, NEW b \in Byte, PullIllegal(b) PROVE Walks
BY Throws DEF PullIllegal, Sees, Errors

-----------------------------------------------------------------------------
(* Calls, buffers and the end of the text.                                 *)

\* A step that leaves the containers and the events as they are.
LEMMA Stands ==
  ASSUME Inv, ~PullBroken, ~PullBroken', UNCHANGED told, got' \in Got, got' # "event",
         DOMAIN pc' = Fields, pc'.mode = pc.mode, pc'.keypresent = pc.keypresent,
         pc'.keystack = pc.keystack,
         got' \in {"loop", "more"}
           => got \in {"loop", "more"} \/ (ModesGood(pc) /\ pc.keystack # <<>>)
  PROVE  Walks
<1>1. PullDictIn(pc') = PullDictIn(pc) BY DEF PullDictIn
<1>2. UNCHANGED PullSax!saxvars BY <1>1, SameOpened
<1>3. Good(pc') BY DEF Inv, Good
<1>4. (got \in {"loop", "more"} => ModesGood(pc))' BY DEF Inv, ModesGood
<1>5. (got \in {"loop", "more"} /\ pc.keystack = <<>> => AtRoot(pc))' BY DEF Inv, AtRoot
<1> QED BY <1>2, <1>3, <1>4, <1>5 DEF Inv, Walks

LEMMA ResumeWalks == ASSUME Inv, Resume PROVE Walks
<1>1. got = "event" BY DEF Resume, ResumeValue, ResumeArray, ResumeStart, ResumeAtEnd
<1>2. ~PullBroken /\ Good(pc) /\ EventGood(pc) BY <1>1 DEF PullBroken, Errors, Inv
<1>3. DOMAIN pc = Fields BY <1>2 DEF Good
<1>4. CASE ResumeValue \/ ResumeArray
  <2>1. /\ pc' = [pc EXCEPT !.i = @ + 1] /\ told' = told /\ pc.mode = "COMMA"
        /\ got' \in {"tail", "tail3", "loop"} /\ (got' = "loop" => pc.keystack # <<>>)
    BY <1>2, <1>4 DEF ResumeValue, ResumeArray, EventGood
  <2>2. /\ DOMAIN pc' = Fields /\ pc'.mode = pc.mode /\ pc'.keypresent = pc.keypresent
        /\ pc'.keystack = pc.keystack
    BY <1>3, <2>1 DEF Fields
  <2>3. ModesGood(pc) BY <2>1 DEF ModesGood, InKey
  <2>4. ~PullBroken' /\ got' \in Got BY <2>1 DEF PullBroken, Errors, Got
  <2> QED BY <1>2, <2>1, <2>2, <2>3, <2>4, Stands
<1>5. CASE ResumeStart
  <2>1. /\ pc' = [pc EXCEPT !.keypresent = FALSE, !.i = @ + 1] /\ told' = told /\ got' = "loop"
        /\ pc.mode \in {"FIRSTKEY", "FIRSTVAL"} /\ pc.keystack # <<>>
    BY <1>2, <1>5 DEF ResumeStart, EventGood
  <2>2. /\ DOMAIN pc' = Fields /\ pc'.mode = pc.mode /\ pc'.keypresent = FALSE
        /\ pc'.keystack = pc.keystack
    BY <1>3, <2>1 DEF Fields
  <2>3. ~PullBroken' /\ got' \in Got BY <2>1 DEF PullBroken, Errors, Got
  <2>4. PullDictIn(pc') = PullDictIn(pc) BY <2>1, <2>2 DEF PullDictIn, InKey
  <2>5. UNCHANGED PullSax!saxvars BY <1>2, <2>1, <2>2, <2>3, <2>4, SameOpened
  <2>6. Good(pc') /\ ModesGood(pc') BY <1>2, <2>1, <2>2 DEF Good, ModesGood
  <2> QED BY <2>1, <2>2, <2>3, <2>5, <2>6 DEF Inv, Walks
<1>6. CASE ResumeAtEnd
  <2>1. /\ pc' = pc \/ pc' = [pc EXCEPT !.state = 0]
        /\ told' = told /\ got' \in {"end", "short"}
    BY <1>6 DEF ResumeAtEnd
  <2>2. /\ DOMAIN pc' = Fields /\ pc'.mode = pc.mode /\ pc'.keypresent = pc.keypresent
        /\ pc'.keystack = pc.keystack
    BY <1>3, <2>1 DEF Fields
  <2>3. ~PullBroken' /\ got' \in Got BY <2>1 DEF PullBroken, Errors, Got
  <2> QED BY <1>2, <2>1, <2>2, <2>3, Stands
<1> QED BY <1>4, <1>5, <1>6 DEF Resume

LEMMA BufEndWalks == ASSUME Inv, NEW eof \in BOOLEAN, BufEnd(eof) PROVE Walks
<1> DEFINE c == [pc EXCEPT !.mode = "COMMA"]
           e == NumberEvent(c)
<1>1. got = "loop" BY DEF BufEnd
<1>2. DOMAIN pc = Fields BY <1>1, InLoop
<1>3. CASE pc.mode = "NUMBER" /\ eof
  <2>1. pc.mode \in ValueModes BY <1>3 DEF ValueModes, RootModes
  <2>2. /\ DOMAIN c = Fields /\ c.keystack = pc.keystack /\ c.keypresent = pc.keypresent
        /\ c.mode = "COMMA" /\ c.key = pc.key
    BY <1>2 DEF Fields
  <2>3. e.ev = "leaf" /\ e.key = KeyOf(pc) BY <2>2 DEF NumberEvent, LeafEvent, KeyOf
  <2>4. Return(c, e, 10) BY <1>3 DEF BufEnd
  <2> HIDE DEF c, e
  <2> QED BY <1>1, <2>1, <2>2, <2>3, <2>4, LeafTold
<1>4. CASE ~(pc.mode = "NUMBER" /\ eof)
  <2>1. pc' = [pc EXCEPT !.state = 0] /\ told' = told /\ got' \in {"short", "more"}
    BY <1>4 DEF BufEnd
  <2>2. /\ DOMAIN pc' = Fields /\ pc'.mode = pc.mode /\ pc'.keypresent = pc.keypresent
        /\ pc'.keystack = pc.keystack
    BY <1>2, <2>1 DEF Fields
  <2>3. ~PullBroken /\ ~PullBroken' /\ got' \in Got
    BY <1>1, <2>1 DEF PullBroken, Errors, Got
  <2> QED BY <1>1, <2>1, <2>2, <2>3, Stands
<1> QED BY <1>3, <1>4

LEMMA TailByteWalks ==
  ASSUME Inv, NEW b \in Byte, PullTailByte(b) \/ PullTail3Byte(b) PROVE Walks
<1>1. /\ got \in {"tail", "tail3"} /\ told' = told /\ got' \in {"tail", "tail3", "EOVERFLOW"}
      /\ pc' = [pc EXCEPT !.i = IF b \in Space THEN @ + 1 ELSE @]
  BY DEF PullTailByte, PullTail3Byte
<1>2. CASE got' \in {"tail", "tail3"}
  <2>1. ~PullBroken /\ ~PullBroken' /\ got' \in Got
    BY <1>1, <1>2 DEF PullBroken, Errors, Got
  <2>2. DOMAIN pc = Fields BY <2>1 DEF Inv, Good
  <2>3. /\ DOMAIN pc' = Fields /\ pc'.mode = pc.mode /\ pc'.keypresent = pc.keypresent
        /\ pc'.keystack = pc.keystack
    BY <1>1, <2>2 DEF Fields
  <2> QED BY <1>1, <1>2, <2>1, <2>3, Stands
<1>3. CASE got' = "EOVERFLOW" BY <1>1, <1>3, GivesUp DEF Errors
<1> QED BY <1>1, <1>2, <1>3

LEMMA TailsWalk == ASSUME Inv, PullTails PROVE Walks
<1>1. got \in {"tail", "tail3"} /\ UNCHANGED <<pc, told>> /\ got' \in {"end", "EOVERFLOW"}
  BY DEF PullTails, PullTailEnd, PullTail3Beyond, PullTail3End
<1>2. CASE got' = "end"
  <2>1. ~PullBroken /\ ~PullBroken' /\ got' \in Got
    BY <1>1, <1>2 DEF PullBroken, Errors, Got
  <2>2. DOMAIN pc = Fields BY <2>1 DEF Inv, Good
  <2> QED BY <1>1, <1>2, <2>1, <2>2, Stands
<1>3. CASE got' = "EOVERFLOW" BY <1>1, <1>3, GivesUp DEF Errors
<1> QED BY <1>1, <1>2, <1>3

LEMMA CallsWalk ==
  ASSUME Inv, SetBuf \/ (\E b \in Byte : Extend(b)) \/ UNCHANGED pullvars
  PROVE  Walks
<1>1. CASE SetBuf
  <2>1. got = "more" /\ got' = "loop" /\ told' = told /\ pc' = [pc EXCEPT !.i = 0]
    BY <1>1 DEF SetBuf
  <2>2. ~PullBroken /\ ~PullBroken' /\ got' \in Got BY <2>1 DEF PullBroken, Errors, Got
  <2>3. DOMAIN pc = Fields BY <2>2 DEF Inv, Good
  <2>4. /\ DOMAIN pc' = Fields /\ pc'.mode = pc.mode /\ pc'.keypresent = pc.keypresent
        /\ pc'.keystack = pc.keystack
    BY <2>1, <2>3 DEF Fields
  <2> QED BY <2>1, <2>2, <2>4, Stands
<1>2. CASE \E b \in Byte : Extend(b)
  <2>1. got \in {"loop", "tail", "tail3"} /\ UNCHANGED <<pc, got, told>> BY <1>2 DEF Extend
  <2>2. ~PullBroken /\ ~PullBroken' /\ got' \in Got BY <2>1 DEF PullBroken, Errors, Got
  <2>3. DOMAIN pc = Fields BY <2>2 DEF Inv, Good
  <2> QED BY <2>1, <2>2, <2>3, Stands
<1>3. CASE UNCHANGED pullvars
  <2>1. UNCHANGED PullSax!saxvars
    BY <1>3 DEF pullvars, PullSax!saxvars, PullOpened, PullBroken
  <2>2. Inv' BY <1>3 DEF pullvars, Inv, AtRoot, PullBroken
  <2> QED BY <2>1, <2>2 DEF Walks
<1> QED BY <1>1, <1>2, <1>3

-----------------------------------------------------------------------------

LEMMA InitGood == PullInit => Inv /\ PullSax!Init
<1> SUFFICES ASSUME PullInit PROVE Inv /\ PullSax!Init OBVIOUS
<1>1. (PullBroken = FALSE) /\ got = "more" BY DEF PullInit, PullBroken, Errors
<1>2. /\ DOMAIN pc = Fields /\ pc.mode = "VAL" /\ pc.keypresent = FALSE
      /\ pc.keystack = <<>> /\ told = <<>>
  BY DEF PullInit, PullContextInit, Fields
<1>3. KeysGood(pc.keystack) BY <1>2, EmptyIsSeq DEF KeysGood
<1>4. ModesGood(pc) BY <1>2 DEF ModesGood, InKey
<1>5. PullOpened = <<>> BY <1>1, <1>2 DEF PullOpened, PullOpenOf, OpenWith
<1>6. Inv BY <1>1, <1>2, <1>3, <1>4, EmptyIsSeq DEF Inv, Got, Good, AtRoot, RootModes
<1> QED BY <1>1, <1>2, <1>5, <1>6 DEF PullSax!Init

LEMMA Step == Inv /\ [PullNext]_pullvars => Inv' /\ [PullSax!Next]_(PullSax!saxvars)
<1> SUFFICES ASSUME Inv, [PullNext]_pullvars PROVE Walks BY DEF Walks
<1>1. ASSUME NEW b \in Byte, PullByte(b) PROVE Walks
  BY <1>1, PullKeystringWalks, PullStringWalks, PullKeyEscapeWalks, PullStringEscapeWalks,
     PullKeyUescapeWalks, PullStringUescapeWalks, PullSpaceWalks, PullColonWalks,
     PullCommaWalks, PullEndDictWalks, PullEndArrayWalks, PullStartDictWalks,
     PullStartArrayWalks, PullLetterWalks, PullStartWordWalks, PullStartStringWalks,
     PullStartNumberWalks, PullNumberWalks, PullIllegalWalks, TailByteWalks
  DEF PullByte, PullTrue, PullFalse, PullNull, InWord, Word
<1>2. ASSUME NEW eof \in BOOLEAN, BufEnd(eof) PROVE Walks BY <1>2, BufEndWalks
<1> QED BY <1>1, <1>2, CallsWalk, ResumeWalks, TailsWalk DEF PullNext

\* Whatever the buffers hold and whenever memory runs out, the events that
\* abce_pullcaj_get_event returns walk one tree: the key it leaves present when
\* it returns a new container is cleared before anything reads it.
THEOREM PullWalks == PullSpec => PullWalksATree
<1>1. PullSpec => []Inv
  <2>1. PullInit => Inv BY InitGood
  <2>2. Inv /\ [PullNext]_pullvars => Inv' BY Step
  <2> QED BY <2>1, <2>2, PTL DEF PullSpec
<1>2. PullInit => PullSax!Init BY InitGood
<1>3. Inv /\ [PullNext]_pullvars => [PullSax!Next]_(PullSax!saxvars) BY Step
<1> QED BY <1>1, <1>2, <1>3, PTL DEF PullSpec, PullWalksATree, PullSax!SaxSpec
=============================================================================
