------------------------------ MODULE AbceCaj ------------------------------
(***************************************************************************)
(* The push parser (abce_caj_feed of abce_caj.c): the caller hands it the  *)
(* text in chunks cut anywhere, it calls a handler for every event.        *)
(*                                                                         *)
(* One action per section of the loop body. The bytes of a chunk are       *)
(* chosen when the loop reaches them (Arrive); a chunk ends where the      *)
(* model says (ChunkEnd, TailEnd).                                         *)
(***************************************************************************)
EXTENDS AbceCajCore

CONSTANT Handled   \* the events the handler's table has a function for

VARIABLES
  caj,     \* struct abce_caj_ctx
  buf,     \* what the loop has not consumed of the chunk
  fed,     \* the running call, or what the last one returned
  said     \* history: the events, delivered or not

cajvars == <<caj, buf, fed, said>>

\* "loop" and "tail" are places in the running call: the loop over the chunk,
\* and the one that lets only white space follow the root. "more" is
\* -EINPROGRESS, "short" the same at the end of the input, "end" is 0.
Fed == {"loop", "tail", "more", "short", "end"} \cup Errors

-----------------------------------------------------------------------------
(* Steps of the loop. A step consumes the byte in buf unless it says so.   *)

Reads(b) == fed = "loop" /\ buf = <<b>>
Consumed == buf' = <<>>
Go(c) == caj' = c /\ Consumed /\ UNCHANGED <<fed, said>>
Fail(err) == fed' = err /\ Consumed /\ UNCHANGED <<caj, said>>

\* A buffer that must grow may not.
NoMem == Fail("ENOMEM")

\* The handler hears an event, and may refuse it; after the root only white
\* space may follow in this chunk.
Deliver(c, e) ==
  /\ caj' = c /\ said' = Append(said, e)
  /\ \/ fed' = IF c.keystack = <<>> THEN "tail" ELSE "loop"
     \/ e.ev \in Handled /\ fed' = "REFUSED"

KeystringByte(b) ==
  /\ Reads(b) /\ caj.mode = "KEYSTRING"
  /\ \/ b = "esc" /\ Go([caj EXCEPT !.mode = "KEYSTRING_ESCAPE"])
     \/ b = "quote" /\ Go([caj EXCEPT !.mode = "COLON", !.keypresent = TRUE])
     \/ b \notin {"esc", "quote"} /\ Go([caj EXCEPT !.key = Append(@, b)])
     \/ b # "esc" /\ NoMem

StringByte(b) ==
  /\ Reads(b) /\ caj.mode = "STRING"
  /\ \/ b = "esc" /\ Go([caj EXCEPT !.mode = "STRING_ESCAPE"])
     \/ b = "quote" /\ Consumed
        /\ Deliver([caj EXCEPT !.mode = "COMMA"], LeafEvent(caj, "string", caj.val))
     \/ b \notin {"esc", "quote"} /\ Go([caj EXCEPT !.val = Append(@, b)])
     \/ b # "esc" /\ NoMem

\* The mode stays as it is after a control character.
KeyEscape(b) ==
  /\ Reads(b) /\ caj.mode = "KEYSTRING_ESCAPE"
  /\ \/ b \in DOMAIN Escaped /\ (NoMem \/ Go([caj EXCEPT !.key = Append(@, Escaped[b])]))
     \/ b = "u" /\ Go([caj EXCEPT !.mode = "KEYSTRING_UESCAPE", !.sz = 0, !.uescape = <<>>])
     \/ b \notin DOMAIN Escaped \cup {"u"} /\ Fail("EILSEQ")

StringEscape(b) ==
  /\ Reads(b) /\ caj.mode = "STRING_ESCAPE"
  /\ \/ b \in DOMAIN Escaped /\ (NoMem \/ Go([caj EXCEPT !.val = Append(@, Escaped[b])]))
     \/ b = "u" /\ Go([caj EXCEPT !.mode = "STRING_UESCAPE", !.sz = 0, !.uescape = <<>>])
     \/ b \notin DOMAIN Escaped \cup {"u"} /\ Fail("EILSEQ")

KeyUescape(b) ==
  /\ Reads(b) /\ caj.mode = "KEYSTRING_UESCAPE"
  /\ LET c == HexRead(caj, b) IN
     \/ b \notin Hex /\ Fail("EILSEQ")
     \/ b \in Hex /\ c.sz < 4 /\ Go(c)
     \/ b \in Hex /\ c.sz = 4
        /\ (NoMem \/ Go([c EXCEPT !.mode = "KEYSTRING", !.key = @ \o Utf8(c.uescape)]))

StringUescape(b) ==
  /\ Reads(b) /\ caj.mode = "STRING_UESCAPE"
  /\ LET c == HexRead(caj, b) IN
     \/ b \notin Hex /\ Fail("EILSEQ")
     \/ b \in Hex /\ c.sz < 4 /\ Go(c)
     \/ b \in Hex /\ c.sz = 4
        /\ (NoMem \/ Go([c EXCEPT !.mode = "STRING", !.val = @ \o Utf8(c.uescape)]))

WhiteSpace(b) == Reads(b) /\ caj.mode \in Structural /\ b \in Space /\ Go(caj)

Colon(b) ==
  /\ Reads(b) /\ caj.mode = "COLON" /\ b \notin Space
  /\ IF b = ":" THEN Go([caj EXCEPT !.mode = "VAL"]) ELSE Fail("EINVAL")

\* *mutant* of Comma: an array goes on with a value that may be its end.
CommaFirst(b) ==
  /\ Reads(b) /\ caj.mode = "COMMA" /\ b = ","
  /\ Go([caj EXCEPT !.mode = IF caj.keypresent THEN "KEY" ELSE "FIRSTVAL", !.keypresent = FALSE])

Comma(b) ==
  /\ Reads(b) /\ caj.mode = "COMMA" /\ b = ","
  /\ Go([caj EXCEPT !.mode = IF caj.keypresent THEN "KEY" ELSE "VAL", !.keypresent = FALSE])

\* A value has ended, so keypresent tells what it was in.
EndDict(b) ==
  /\ Reads(b) /\ caj.mode \in {"COMMA", "FIRSTKEY"} /\ b = "}"
  /\ IF caj.mode = "COMMA" /\ ~caj.keypresent THEN Fail("EINVAL")
     ELSE \/ LET c == GetKeystack(caj) IN Deliver(c, EndEvent(c, TRUE)) /\ Consumed
          \/ caj' = [caj EXCEPT !.mode = "COMMA"] /\ fed' = "ENOMEM" /\ Consumed /\ UNCHANGED said

EndArray(b) ==
  /\ Reads(b) /\ caj.mode \in {"COMMA", "FIRSTVAL"} /\ b = "]"
  /\ IF caj.mode = "COMMA" /\ caj.keypresent THEN Fail("EINVAL")
     ELSE \/ LET c == GetKeystack(caj) IN Deliver(c, EndEvent(c, FALSE)) /\ Consumed
          \/ caj' = [caj EXCEPT !.mode = "COMMA"] /\ fed' = "ENOMEM" /\ Consumed /\ UNCHANGED said

ValueDue == caj.mode \in {"FIRSTVAL", "VAL"}

StartDict(b) ==
  /\ Reads(b) /\ ValueDue /\ b = "{"
  /\ \/ Consumed /\ Deliver([caj EXCEPT !.keystack = PutKeystack(caj), !.mode = "FIRSTKEY",
                                        !.keypresent = FALSE], StartEvent(caj, TRUE))
     \/ NoMem

StartArray(b) ==
  /\ Reads(b) /\ ValueDue /\ b = "["
  /\ \/ Consumed /\ Deliver([caj EXCEPT !.keystack = PutKeystack(caj), !.mode = "FIRSTVAL",
                                        !.keypresent = FALSE], StartEvent(caj, FALSE))
     \/ NoMem

\* The next letter of a literal; the last one makes it a value.
Letter(b, mode, typ, val) ==
  /\ Reads(b) /\ caj.mode = mode
  /\ LET c == [caj EXCEPT !.sz = @ + 1] IN
     \/ b # Word[mode][caj.sz + 1] /\ Fail("EINVAL")
     \/ b = Word[mode][caj.sz + 1] /\ c.sz < Len(Word[mode]) /\ Go(c)
     \/ b = Word[mode][caj.sz + 1] /\ c.sz = Len(Word[mode]) /\ Consumed
        /\ Deliver([c EXCEPT !.mode = "COMMA"], LeafEvent(caj, typ, val))

TrueByte(b) == Letter(b, "TRUE_", "boolean", TRUE)
FalseByte(b) == Letter(b, "FALSE_", "boolean", FALSE)
NullByte(b) == Letter(b, "NULL_", "null", FALSE)

\* The first byte of a literal or a string.
StartWord(b) ==
  /\ Reads(b) /\ ValueDue
  /\ \E m \in InWord : b = Word[m][1] /\ Go([caj EXCEPT !.mode = m, !.sz = 1])
StartString(b) ==
  /\ Reads(b) /\ b = "quote"
  /\ \/ caj.mode \in {"KEY", "FIRSTKEY"} /\ Go([caj EXCEPT !.mode = "KEYSTRING", !.key = <<>>])
     \/ ValueDue /\ Go([caj EXCEPT !.mode = "STRING", !.val = <<>>])

StartNumber(b) ==
  /\ Reads(b) /\ ValueDue /\ b \in Digit \cup {"-"}
  /\ LET c == [caj EXCEPT !.mode = "NUMBER", !.isinteger = TRUE]
     IN Go(NumberRead(c, b, AtofFeed(AtofInit(TRUE), b).ctx))

\* The byte after a number is not consumed: the loop sees it again.
NumberByte(b) ==
  /\ Reads(b) /\ caj.mode = "NUMBER"
  /\ LET f == AtofFeed(caj.num, b)
         c == [caj EXCEPT !.num = f.ctx, !.mode = "COMMA"] IN
     \/ f.took /\ Go(NumberRead(caj, b, f.ctx))
     \/ ~f.took /\ AtofIsError(f.ctx) /\ Fail("EINVAL")
     \/ ~f.took /\ ~AtofIsError(f.ctx) /\ Deliver(c, NumberEvent(c)) /\ UNCHANGED buf

Illegal(b) ==
  /\ Reads(b) /\ caj.mode \in Structural \ {"COLON"}
  /\ b \notin Allowed(caj.mode) \cup Space /\ Fail("EINVAL")

-----------------------------------------------------------------------------
(* Calls and chunks.                                                       *)

Feed == fed = "more" /\ fed' = "loop" /\ UNCHANGED <<caj, buf, said>>

Arrive(b) == fed \in {"loop", "tail"} /\ buf = <<>> /\ buf' = <<b>> /\ UNCHANGED <<caj, fed, said>>

\* The chunk ends inside the loop. The lexer is not asked whether the number
\* that the end of the input ends is one.
ChunkEnd(eof) ==
  /\ fed = "loop" /\ buf = <<>> /\ UNCHANGED buf
  /\ IF caj.mode = "NUMBER" /\ eof
     THEN LET c == [caj EXCEPT !.mode = "COMMA"] IN
          /\ caj' = c /\ said' = Append(said, NumberEvent(c))
          /\ \/ fed' = IF c.keystack = <<>> THEN "end" ELSE "short"
             \/ "leaf" \in Handled /\ fed' = "REFUSED"
     ELSE fed' = (IF eof THEN "short" ELSE "more") /\ UNCHANGED <<caj, said>>

TailByte(b) ==
  /\ fed = "tail" /\ buf = <<b>> /\ UNCHANGED <<caj, said>>
  /\ Consumed /\ fed' = IF b \in Space THEN "tail" ELSE "EOVERFLOW"

TailEnd == fed = "tail" /\ buf = <<>> /\ fed' = "end" /\ UNCHANGED <<caj, buf, said>>

PushInit == caj = ContextInit /\ buf = <<>> /\ fed = "more" /\ said = <<>>

PushByte(b) ==
  \/ KeystringByte(b) \/ StringByte(b) \/ KeyEscape(b) \/ StringEscape(b)
  \/ KeyUescape(b) \/ StringUescape(b) \/ WhiteSpace(b) \/ Colon(b) \/ Comma(b)
  \/ EndDict(b) \/ EndArray(b) \/ StartDict(b) \/ StartArray(b)
  \/ TrueByte(b) \/ FalseByte(b) \/ NullByte(b)
  \/ StartWord(b) \/ StartString(b) \/ StartNumber(b) \/ NumberByte(b)
  \/ Illegal(b) \/ TailByte(b)

PushNext ==
  \/ \E b \in Byte : Arrive(b) \/ PushByte(b)
  \/ \E eof \in BOOLEAN : ChunkEnd(eof)
  \/ Feed \/ TailEnd

PushSpec == PushInit /\ [][PushNext]_cajvars

-----------------------------------------------------------------------------
(* What the listener sees.                                                 *)

\* The innermost container is a dictionary.
DictIn(c) == c.mode \in InKey \cup {"FIRSTKEY", "KEY", "COLON"} \/ c.keypresent

OpenOf(c) == OpenWith(c, DictIn(c))

Broken == fed \in Errors
Opened == IF Broken THEN <<>> ELSE OpenOf(caj)

Sax == INSTANCE AbceSax WITH open <- Opened, broken <- Broken

\* Whatever the bytes, the chunks and the answers of the handler, the events the
\* push parser delivers walk one tree: it never forgets or confuses a key or the
\* kind of a container, though it keeps neither kinds nor the tree.
PushWalksATree == Sax!SaxSpec
=============================================================================
