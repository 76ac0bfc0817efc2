----------------------------- MODULE AbceJsonText -----------------------------
(***************************************************************************)
(* The two JSON parsers of abce_caj.c on the same text, byte by byte: each *)
(* has its own buffer, cut where it likes (the callers of both choose      *)
(* their chunks freely), and both are told when the text ends. The parsers *)
(* share no state, so the order in which they take a byte is fixed. A cut  *)
(* behind the root is the end of the text: the parser answers there.       *)
(*                                                                         *)
(* MaxText bounds the bytes of the text; strings, words and escapes go on  *)
(* in the few ways the parsers tell apart.                                 *)
(***************************************************************************)
EXTENDS AbceCaj, AbcePullCaj, SequencesExt

CONSTANTS
  Typed,    \* the bytes that are typed
  MaxText,  \* how many of them
  MaxBuf    \* the longest buffer the pull parser is given

VARIABLES
  text,   \* history: the bytes typed
  room,   \* how many more may be
  ended   \* the text is complete

textvars == <<cajvars, pullvars, text, room, ended>>

PushWaits == fed \in {"loop", "tail"} /\ buf = <<>>
PushStops == fed \in Fed \ {"loop", "tail", "more"}
\* Behind an array at the root the pull parser looks no further than sz.
Unlooked == got = "tail3" /\ pc.i >= pc.sz
PullWaits == Unlooked \/ (got \in {"loop", "tail", "tail3"} /\ pc.i = Len(data))
PullStops == got \in Got \ {"loop", "tail", "tail3", "event", "more"}
\* Nothing to do until the next byte; the end of the text is something to do.
PushRests == PushStops \/ (PushWaits /\ ~ended)
PullRests == PullStops \/ (PullWaits /\ ~ended)
\* Neither parser was let down by memory or by its handler.
Served == {fed, got} \cap {"ENOMEM", "REFUSED"} = {}

\* How the text goes on: a parser treats the bytes it takes nowhere alike.
Offered ==
  CASE got \in {"tail", "tail3"} -> {"x"} \cup (Typed \cap Space)
    [] pc.mode \in {"STRING", "KEYSTRING"} -> {"quote", "esc", "x"}
    [] pc.mode \in {"STRING_ESCAPE", "KEYSTRING_ESCAPE"} -> {"quote", "n", "r", "u", "x"}
    [] pc.mode \in {"STRING_UESCAPE", "KEYSTRING_UESCAPE"} -> {"0", "x"}
    [] pc.mode \in InWord -> {Word[pc.mode][pc.sz + 1], "x"}
    [] pc.mode = "NUMBER" -> Typed \cap (Digit \cup Space \cup {"-", ".", "e", "+", ",", "]", "}"})
    [] pc.mode = "COLON" -> {":", "x"} \cup (Typed \cap Space)
    [] OTHER -> Typed \cap (Allowed(pc.mode) \cup Space \cup {"}", "]", "x"})

\* The letters of a word and the digits of an escape cost no room.
Forced == pc.mode \in InWord \cup {"STRING_UESCAPE", "KEYSTRING_UESCAPE"}

Type(b) ==
  /\ ~ended /\ Served /\ PullWaits /\ PushRests /\ Len(data) < MaxBuf
  /\ b \in Offered /\ text' = Append(text, b) /\ UNCHANGED ended
  /\ IF Forced THEN UNCHANGED room ELSE room > 0 /\ room' = room - 1
  /\ Extend(b)
  /\ IF PushWaits THEN Arrive(b) ELSE UNCHANGED cajvars

Finish == ~ended /\ Served /\ PullRests /\ PushRests /\ ended' = TRUE
          /\ UNCHANGED <<cajvars, pullvars, text, room>>

PullSteps ==
  /\ \/ pc.i < Len(data) /\ PullByte(data[pc.i + 1])
     \/ SetBuf \/ Resume \/ (ended /\ PullTailEnd) \/ PullTail3Beyond \/ PullTail3End
     \/ BufEnd(ended)
  /\ UNCHANGED <<cajvars, text, room, ended>>

PushSteps ==
  /\ PullRests \/ got = "more"
  /\ \/ buf # <<>> /\ PushByte(buf[1])
     \/ Feed \/ ((ended \/ PullStops) /\ TailEnd) \/ ChunkEnd(ended)
  /\ UNCHANGED <<pullvars, text, room, ended>>

TextInit == PushInit /\ PullInit /\ text = <<>> /\ room = MaxText /\ ended = FALSE
TextNext == (\E b \in Byte : Type(b)) \/ Finish \/ PullSteps \/ PushSteps
TextSpec == TextInit /\ [][TextNext]_textvars

-----------------------------------------------------------------------------
(* A reference grammar, of JSON or, when loose, of JSON with the number    *)
(* that the parsers take besides. A part of it takes the places where it   *)
(* may begin and gives those where it may end (behind its last byte).      *)

At(i) == IF i <= Len(text) THEN text[i] ELSE "none"
Over(from, bytes) == {i + 1 : i \in {j \in from : At(j) \in bytes}}
Run(from, bytes) ==
  {j \in 1 .. Len(text) + 1 :
     \E i \in from : i < j /\ \A k \in i .. j - 1 : text[k] \in bytes}
Blank(from) == from \cup Run(from, Space)
Exactly(from, word) ==
  {i + Len(word) : i \in {j \in from : \A k \in 1 .. Len(word) : At(j + k - 1) = word[k]}}

Whole(from) == Over(from, {"0"}) \cup Run({i \in from : At(i) # "0"}, Digit)
Fraction(from) == Run(Over(from, {"."}), Digit)
Signed(from) == from \cup Over(from, {"+", "-"})
\* The parsers take -.5 for a number, which JSON does not, though not .5.
Mantissa(from, loose) ==
  LET sign == Over(from, {"-"})
      whole == Whole(from \cup sign)
  IN whole \cup Fraction(whole \cup IF loose THEN sign ELSE {})
NumberText(from, loose) ==
  LET mantissa == Mantissa(from, loose)
  IN mantissa \cup Run(Signed(Over(mantissa, Expo)), Digit)
\* A number that lacks the digits it should end with.
CutNumber(from) ==
  LET sign == Over(from, {"-"})
  IN sign \cup Over(Whole(from \cup sign) \cup sign, {"."})
     \cup Signed(Over(Mantissa(from, TRUE), Expo))

RECURSIVE Characters(_)
Characters(from) ==
  LET escape == Over(from, {"esc"})
      four == Over(Over(Over(Over(Over(escape, {"u"}), Hex), Hex), Hex), Hex)
  IN IF from = {} THEN {}
     ELSE from \cup Characters(Over(from, Byte \ {"quote", "esc"})
                               \cup Over(escape, DOMAIN Unescaped) \cup four)
StringText(from) == Over(Characters(Over(from, {"quote"})), {"quote"})

RECURSIVE ValueText(_, _), Items(_, _, _)
\* Items up to the closing byte; those of a dictionary have a key.
Items(from, dict, loose) ==
  LET key == Over(Blank(StringText(Blank(from))), {":"})
      one == Blank(ValueText(Blank(IF dict THEN key ELSE from), loose))
  IN IF from = {} THEN {}
     ELSE Over(one, {IF dict THEN "}" ELSE "]"}) \cup Items(Over(one, {","}), dict, loose)
Container(from, dict, loose) ==
  LET inside == Over(from, {IF dict THEN "{" ELSE "["})
  IN Over(Blank(inside), {IF dict THEN "}" ELSE "]"}) \cup Items(inside, dict, loose)
ValueText(from, loose) ==
  IF from = {} THEN {}
  ELSE UNION {Exactly(from, Word[m]) : m \in InWord} \cup StringText(from)
       \cup NumberText(from, loose) \cup Container(from, FALSE, loose) \cup Container(from, TRUE, loose)

\* The text up to this place is JSON.
JsonUpTo(place, loose) == place \in Blank(ValueText(Blank({1}), loose))
Json == JsonUpTo(Len(text) + 1, FALSE)
\* It is no JSON, but would be one without a number like -.5, or if the number at
\* the root that the end of the text cuts, as in -, 1. or 1e, went on.
LooseNumber ==
  /\ \/ (\E k \in 1 .. Len(text) : text[k] = "-" /\ At(k + 1) = ".") /\ JsonUpTo(Len(text) + 1, TRUE)
     \/ Len(text) + 1 \in CutNumber(Blank({1}))
  /\ ~Json

\* The answer was found behind the end of an array at the root.
BehindArray == PullStops /\ pc.state = 3 /\ pc.keystack = <<>>
\* get_event has left bytes of its buffer unread, and may have read a byte
\* that was not in it.
LeavesUnread == BehindArray /\ pc.sz <= pc.i /\ pc.i < Len(data)
ReadsBeyond == BehindArray /\ pc.sz > pc.i /\ pc.i = Len(data)

-----------------------------------------------------------------------------
(* The value of a number as its text says it.                              *)

\* How many zeros digits begin with.
Leading(s) == Max({n \in 0 .. Len(s) : \A k \in 1 .. n : s[k] = "0"})

\* The first number in the text: its bytes, and the places of its parts.
NumberThere ==
  LET start == Min({k \in 1 .. Len(text) : text[k] \notin Space})
  IN SubSeq(text, start, Max({start} \cup NumberText({start}, TRUE) \cup CutNumber({start})) - 1)
Place(s, bytes, default) == Min({k \in DOMAIN s : s[k] \in bytes} \cup {default})
NumberSays(s) ==
  LET neg == s[1] = "-"
      mark == Place(s, Expo, Len(s) + 1)
      point == Place(s, {"."}, mark)
      whole == SubSeq(s, IF neg THEN 2 ELSE 1, point - 1)
      digits == whole \o SubSeq(s, point + 1, mark - 1)
      exponent == SubSeq(s, mark + 1, Len(s))
      power == SelectSeq(exponent, LAMBDA b : b \in Digit)
      sign == IF "-" \in Range(exponent) THEN -1 ELSE 1
      zeros == Leading(digits)
      ten == FoldLeft(LAMBDA n, d : 10 * n + DigitValue[d], 0, power)
  IN [neg |-> neg,
      dig |-> Significant(SubSeq(digits, zeros + 1, Min({Len(digits), zeros + DigitMax - (IF neg THEN 1 ELSE 0)}))),
      exp |-> Clamp(Len(whole) - 1 - zeros + sign * ten)]

-----------------------------------------------------------------------------
(* Properties.                                                             *)

\* On a text without escapes the two parsers report the same events and end in
\* the same way, wherever the buffers of either are cut: inside a word, a string
\* or a number, before or after the byte that ends a number. They may end in
\* different ways only behind an array at the root: when the push parser answers
\* that something follows the array, and the pull parser has not read it; or when
\* the pull parser answers so of a byte that is not in its buffer.
PushPullAgree ==
  PushRests /\ PullRests /\ Served /\ (\A k \in 1 .. Len(text) : text[k] # "esc")
    => /\ said = told
       /\ PushStops /\ PullStops =>
            \/ fed = got
            \/ fed = "EOVERFLOW" /\ got = "end" /\ LeavesUnread
            \/ fed = "end" /\ got = "EOVERFLOW" /\ ReadsBeyond

\* get_event answers "end" exactly for the JSON texts and for those with a number
\* like -.5 or a number cut at the root, though its header promises an error for
\* what is no JSON. Behind an array at the root it may answer by less than the text
\* or more: when it leaves bytes unread it always answers "end", and what it read
\* is such a text; when it reads beyond its buffer the whole text is one, whichever
\* answer it finds there.
AcceptedExactly ==
  PullStops /\ Served =>
    /\ LeavesUnread => got = "end" /\ JsonUpTo(Len(text) + 1 - (Len(data) - pc.i), TRUE)
    /\ ReadsBeyond => Json \/ LooseNumber
    /\ ~LeavesUnread /\ ~ReadsBeyond => (got = "end" <=> Json \/ LooseNumber)

\* A number at the root is reported with the value its text has to as many
\* digits as the lexer keeps, and as an integer exactly when it has no period and
\* no exponent.
NumberExact ==
  Len(told) = 1 /\ told[1].ev = "leaf" /\ told[1].typ = "number" =>
    LET v == told[1].val.value
        number == NumberThere
        says == NumberSays(number)
    IN /\ v.neg = says.neg /\ Significant(v.dig) = says.dig
       /\ (says.dig # <<>> => v.exp = says.exp)
       /\ told[1].val.isinteger = (Range(number) \cap (Expo \cup {"."}) = {})
=============================================================================
