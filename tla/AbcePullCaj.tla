---------------------------- MODULE AbcePullCaj -----------------------------
(***************************************************************************)
(* The pull parser (abce_pullcaj_set_buf and abce_pullcaj_get_event of     *)
(* abce_caj.c): the same machine as the push parser, turned inside out.    *)
(* The caller asks for one event at a time; get_event returns from the     *)
(* middle of its loop, notes in state where it was, and jumps back there   *)
(* when it is called again. The engine decodes JSON with it.               *)
(*                                                                         *)
(* data is the buffer that was set, as far as it is known: bytes come to   *)
(* it when the loop looks for them, or behind a root nobody looks behind   *)
(* (Extend), or all at once when the caller of this module fixes it. i     *)
(* counts the bytes of data that are consumed, except between an event and *)
(* the next call, when it still points to the event's last byte.           *)
(***************************************************************************)
EXTENDS AbceCajCore

VARIABLES
  pc,    \* struct abce_pullcaj_ctx
  data,  \* its buffer
  got,   \* the running call, or what the last one returned
  told   \* history: the events returned

pullvars == <<pc, data, got, told>>

\* "event" is 1; "tail3" is the copy of the tail loop behind an array.
Got == {"loop", "tail", "tail3", "event", "more", "short", "end"} \cup (Errors \ {"REFUSED"})

PullContextInit ==
  [mode |-> "VAL", sz |-> 0, uescape |-> <<>>, keypresent |-> FALSE, key |-> <<>>,
   keystack |-> <<>>, val |-> <<>>, num |-> AtofInit(TRUE), isinteger |-> TRUE,
   i |-> 0, state |-> 0]

-----------------------------------------------------------------------------
(* Steps of the loop.                                                      *)

Sees(b) == got = "loop" /\ pc.i < Len(data) /\ data[pc.i + 1] = b
On(c) == pc' = [c EXCEPT !.i = @ + 1] /\ UNCHANGED <<data, got, told>>
Throw(err) == got' = err /\ UNCHANGED <<pc, data, told>>
NoRoom == Throw("ENOMEM")

\* Return 1; the next call goes to the given state.
Return(c, e, state) ==
  pc' = [c EXCEPT !.state = state] /\ told' = Append(told, e) /\ got' = "event" /\ UNCHANGED data

PullKeystring(b) ==
  /\ Sees(b) /\ pc.mode = "KEYSTRING"
  /\ \/ b = "esc" /\ On([pc EXCEPT !.mode = "KEYSTRING_ESCAPE"])
     \/ b = "quote" /\ On([pc EXCEPT !.mode = "COLON", !.keypresent = TRUE])
     \/ b \notin {"esc", "quote"} /\ On([pc EXCEPT !.key = Append(@, b)])
     \/ b # "esc" /\ NoRoom

PullString(b) ==
  /\ Sees(b) /\ pc.mode = "STRING"
  /\ \/ b = "esc" /\ On([pc EXCEPT !.mode = "STRING_ESCAPE"])
     \/ b = "quote" /\ Return([pc EXCEPT !.mode = "COMMA"], LeafEvent(pc, "string", pc.val), 1)
     \/ b \notin {"esc", "quote"} /\ On([pc EXCEPT !.val = Append(@, b)])
     \/ b # "esc" /\ NoRoom

\* What a character after a backslash stands for: every one but \u is over.
Unescaped == [n |-> "LF", t |-> "TAB", r |-> "CTL", f |-> "CTL", esc |-> "esc", quote |-> "quote"]

PullKeyEscape(b) ==
  /\ Sees(b) /\ pc.mode = "KEYSTRING_ESCAPE"
  /\ \/ b \in DOMAIN Unescaped
        /\ (NoRoom \/ On([pc EXCEPT !.mode = "KEYSTRING", !.key = Append(@, Unescaped[b])]))
     \/ b = "u" /\ On([pc EXCEPT !.mode = "KEYSTRING_UESCAPE", !.sz = 0, !.uescape = <<>>])
     \/ b \notin DOMAIN Unescaped \cup {"u"} /\ Throw("EILSEQ")

PullStringEscape(b) ==
  /\ Sees(b) /\ pc.mode = "STRING_ESCAPE"
  /\ \/ b \in DOMAIN Unescaped
        /\ (NoRoom \/ On([pc EXCEPT !.mode = "STRING", !.val = Append(@, Unescaped[b])]))
     \/ b = "u" /\ On([pc EXCEPT !.mode = "STRING_UESCAPE", !.sz = 0, !.uescape = <<>>])
     \/ b \notin DOMAIN Unescaped \cup {"u"} /\ Throw("EILSEQ")

PullKeyUescape(b) ==
  /\ Sees(b) /\ pc.mode = "KEYSTRING_UESCAPE"
  /\ LET c == HexRead(pc, b) IN
     \/ b \notin Hex /\ Throw("EILSEQ")
     \/ b \in Hex /\ c.sz < 4 /\ On(c)
     \/ b \in Hex /\ c.sz = 4
        /\ (NoRoom \/ On([c EXCEPT !.mode = "KEYSTRING", !.key = @ \o Utf8(c.uescape)]))

PullStringUescape(b) ==
  /\ Sees(b) /\ pc.mode = "STRING_UESCAPE"
  /\ LET c == HexRead(pc, b) IN
     \/ b \notin Hex /\ Throw("EILSEQ")
     \/ b \in Hex /\ c.sz < 4 /\ On(c)
     \/ b \in Hex /\ c.sz = 4
        /\ (NoRoom \/ On([c EXCEPT !.mode = "STRING", !.val = @ \o Utf8(c.uescape)]))

PullSpace(b) == Sees(b) /\ pc.mode \in Structural /\ b \in Space /\ On(pc)

PullColon(b) ==
  /\ Sees(b) /\ pc.mode = "COLON" /\ b \notin Space
  /\ IF b = ":" THEN On([pc EXCEPT !.mode = "VAL"]) ELSE Throw("EINVAL")

PullComma(b) ==
  /\ Sees(b) /\ pc.mode = "COMMA" /\ b = ","
  /\ On([pc EXCEPT !.mode = IF pc.keypresent THEN "KEY" ELSE "VAL", !.keypresent = FALSE])

PullEndDict(b) ==
  /\ Sees(b) /\ pc.mode \in {"COMMA", "FIRSTKEY"} /\ b = "}"
  /\ IF pc.mode = "COMMA" /\ ~pc.keypresent THEN Throw("EINVAL")
     ELSE \/ LET c == GetKeystack(pc) IN Return(c, EndEvent(c, TRUE), 2)
          \/ pc' = [pc EXCEPT !.mode = "COMMA"] /\ got' = "ENOMEM" /\ UNCHANGED <<data, told>>

PullEndArray(b) ==
  /\ Sees(b) /\ pc.mode \in {"COMMA", "FIRSTVAL"} /\ b = "]"
  /\ IF pc.mode = "COMMA" /\ pc.keypresent THEN Throw("EINVAL")
     ELSE \/ LET c == GetKeystack(pc) IN Return(c, EndEvent(c, FALSE), 3)
          \/ pc' = [pc EXCEPT !.mode = "COMMA"] /\ got' = "ENOMEM" /\ UNCHANGED <<data, told>>

PullValueDue == pc.mode \in {"FIRSTVAL", "VAL"}

\* The key is still present when the event is returned.
PullStartDict(b) ==
  /\ Sees(b) /\ PullValueDue /\ b = "{"
  /\ \/ Return([pc EXCEPT !.keystack = PutKeystack(pc), !.mode = "FIRSTKEY"],
               StartEvent(pc, TRUE), 4)
     \/ NoRoom

PullStartArray(b) ==
  /\ Sees(b) /\ PullValueDue /\ b = "["
  /\ \/ Return([pc EXCEPT !.keystack = PutKeystack(pc), !.mode = "FIRSTVAL"],
               StartEvent(pc, FALSE), 5)
     \/ NoRoom

PullLetter(b, mode, typ, val, state) ==
  /\ Sees(b) /\ pc.mode = mode
  /\ LET c == [pc EXCEPT !.sz = @ + 1] IN
     \/ b # Word[mode][pc.sz + 1] /\ Throw("EINVAL")
     \/ b = Word[mode][pc.sz + 1] /\ c.sz < Len(Word[mode]) /\ On(c)
     \/ b = Word[mode][pc.sz + 1] /\ c.sz = Len(Word[mode])
        /\ Return([c EXCEPT !.mode = "COMMA"], LeafEvent(pc, typ, val), state)

PullTrue(b) == PullLetter(b, "TRUE_", "boolean", TRUE, 6)
PullFalse(b) == PullLetter(b, "FALSE_", "boolean", FALSE, 7)
PullNull(b) == PullLetter(b, "NULL_", "null", FALSE, 8)

PullStartWord(b) ==
  /\ Sees(b) /\ PullValueDue
  /\ \E m \in InWord : b = Word[m][1] /\ On([pc EXCEPT !.mode = m, !.sz = 1])
PullStartString(b) ==
  /\ Sees(b) /\ b = "quote"
  /\ \/ pc.mode \in {"KEY", "FIRSTKEY"} /\ On([pc EXCEPT !.mode = "KEYSTRING", !.key = <<>>])
     \/ PullValueDue /\ On([pc EXCEPT !.mode = "STRING", !.val = <<>>])

PullStartNumber(b) ==
  /\ Sees(b) /\ PullValueDue /\ b \in Digit \cup {"-"}
  /\ LET c == [pc EXCEPT !.mode = "NUMBER", !.isinteger = TRUE]
     IN On(NumberRead(c, b, AtofFeed(AtofInit(TRUE), b).ctx))

\* i is set back to before the byte that ended the number (it may wrap below 0).
PullNumber(b) ==
  /\ Sees(b) /\ pc.mode = "NUMBER"
  /\ LET f == AtofFeed(pc.num, b)
         c == [pc EXCEPT !.num = f.ctx, !.mode = "COMMA", !.i = @ - 1] IN
     \/ f.took /\ On(NumberRead(pc, b, f.ctx))
     \/ ~f.took /\ AtofIsError(f.ctx) /\ Throw("EINVAL")
     \/ ~f.took /\ ~AtofIsError(f.ctx) /\ Return(c, NumberEvent(c), 9)

PullIllegal(b) ==
  /\ Sees(b) /\ pc.mode \in Structural \ {"COLON"}
  /\ b \notin Allowed(pc.mode) \cup Space /\ Throw("EINVAL")

-----------------------------------------------------------------------------
(* Calls and buffers.                                                      *)

SetBuf == got = "more" /\ got' = "loop" /\ data' = <<>>
          /\ pc' = [pc EXCEPT !.i = 0] /\ UNCHANGED told

\* The buffer has one byte more. Behind an array it may have any number that the
\* loop does not look at.
Extend(b) ==
  /\ \/ got \in {"loop", "tail", "tail3"} /\ pc.i = Len(data)
     \/ got = "tail3" /\ pc.i >= pc.sz
  /\ data' = Append(data, b) /\ UNCHANGED <<pc, got, told>>

\* The next call, after an event.
ResumeValue ==
  /\ got = "event" /\ pc.state \in {1, 2, 6, 7, 8, 9} /\ UNCHANGED <<data, told>>
  /\ pc' = [pc EXCEPT !.i = @ + 1]
  /\ got' = IF pc.keystack = <<>> THEN "tail" ELSE "loop"

ResumeArray ==
  /\ got = "event" /\ pc.state = 3 /\ UNCHANGED <<data, told>>
  /\ pc' = [pc EXCEPT !.i = @ + 1]
  /\ got' = IF pc.keystack = <<>> THEN "tail3" ELSE "loop"

\* *mutant* of ResumeStart: keypresent stays as it was for the event.
ResumeStartKey ==
  /\ got = "event" /\ pc.state \in {4, 5} /\ UNCHANGED <<data, told>>
  /\ pc' = [pc EXCEPT !.i = @ + 1] /\ got' = "loop"

ResumeStart ==
  /\ got = "event" /\ pc.state \in {4, 5} /\ UNCHANGED <<data, told>>
  /\ pc' = [pc EXCEPT !.keypresent = FALSE, !.i = @ + 1] /\ got' = "loop"

ResumeAtEnd ==
  /\ got = "event" /\ pc.state = 10 /\ UNCHANGED <<data, told>>
  /\ \/ pc.keystack = <<>> /\ got' = "end" /\ UNCHANGED pc
     \/ pc.keystack # <<>> /\ got' = "short" /\ pc' = [pc EXCEPT !.state = 0]

BufEnd(eof) ==
  /\ got = "loop" /\ pc.i = Len(data) /\ UNCHANGED data
  /\ IF pc.mode = "NUMBER" /\ eof
     THEN LET c == [pc EXCEPT !.mode = "COMMA"] IN Return(c, NumberEvent(c), 10)
     ELSE /\ got' = (IF eof THEN "short" ELSE "more")
          /\ pc' = [pc EXCEPT !.state = 0] /\ UNCHANGED told

\* *mutant* of PullTailByte: anything may follow the root.
PullTailByteAny(b) ==
  /\ got = "tail" /\ pc.i < Len(data) /\ data[pc.i + 1] = b /\ UNCHANGED <<data, told>>
  /\ pc' = [pc EXCEPT !.i = @ + 1] /\ UNCHANGED got

PullTailByte(b) ==
  /\ got = "tail" /\ pc.i < Len(data) /\ data[pc.i + 1] = b /\ UNCHANGED <<data, told>>
  /\ pc' = [pc EXCEPT !.i = IF b \in Space THEN @ + 1 ELSE @]
  /\ got' = IF b \in Space THEN "tail" ELSE "EOVERFLOW"

PullTailEnd == got = "tail" /\ pc.i = Len(data) /\ got' = "end" /\ UNCHANGED <<pc, data, told>>

\* Behind an array the loop runs to sz, the letters read of the last literal,
\* instead of usz: it may stop early, and it may read past the buffer.
PullTail3Byte(b) ==
  /\ got = "tail3" /\ pc.i < pc.sz /\ pc.i < Len(data) /\ data[pc.i + 1] = b
  /\ UNCHANGED <<data, told>>
  /\ pc' = [pc EXCEPT !.i = IF b \in Space THEN @ + 1 ELSE @]
  /\ got' = IF b \in Space THEN "tail3" ELSE "EOVERFLOW"

PullTail3Beyond ==
  /\ got = "tail3" /\ pc.i < pc.sz /\ pc.i = Len(data)
  /\ got' \in {"end", "EOVERFLOW"} /\ UNCHANGED <<pc, data, told>>

PullTail3End == got = "tail3" /\ pc.i >= pc.sz /\ got' = "end" /\ UNCHANGED <<pc, data, told>>

PullInit == pc = PullContextInit /\ data = <<>> /\ got = "more" /\ told = <<>>

PullByte(b) ==
  \/ PullKeystring(b) \/ PullString(b) \/ PullKeyEscape(b) \/ PullStringEscape(b)
  \/ PullKeyUescape(b) \/ PullStringUescape(b) \/ PullSpace(b) \/ PullColon(b)
  \/ PullComma(b) \/ PullEndDict(b) \/ PullEndArray(b) \/ PullStartDict(b)
  \/ PullStartArray(b) \/ PullTrue(b) \/ PullFalse(b) \/ PullNull(b) \/ PullStartWord(b)
  \/ PullStartString(b) \/ PullStartNumber(b) \/ PullNumber(b) \/ PullIllegal(b)
  \/ PullTailByte(b) \/ PullTail3Byte(b)

Resume == ResumeValue \/ ResumeArray \/ ResumeStart \/ ResumeAtEnd
PullTails == PullTailEnd \/ PullTail3Beyond \/ PullTail3End

PullNext ==
  \/ \E b \in Byte : Extend(b) \/ PullByte(b)
  \/ \E eof \in BOOLEAN : BufEnd(eof)
  \/ SetBuf \/ Resume \/ PullTails

PullSpec == PullInit /\ [][PullNext]_pullvars

-----------------------------------------------------------------------------
PullDictIn(c) ==
  c.mode \in InKey \cup {"FIRSTKEY", "KEY", "COLON"} \/ (c.keypresent /\ c.mode # "FIRSTVAL")

PullOpenOf(c) == OpenWith(c, PullDictIn(c))

PullBroken == got \in Errors
PullOpened == IF PullBroken THEN <<>> ELSE PullOpenOf(pc)

PullSax == INSTANCE AbceSax WITH said <- told, open <- PullOpened, broken <- PullBroken

\* The events the pull parser returns walk one tree too, though it is left and
\* entered again between any two of them.
PullWalksATree == PullSax!SaxSpec
=============================================================================
