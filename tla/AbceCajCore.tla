------------------------------ MODULE AbceCajCore -----------------------------
(***************************************************************************)
(* What the push and the pull parser of abce_caj.c have in common: bytes,  *)
(* modes, events, and the part of a context both keep. Of the open         *)
(* containers a context keeps only the key each was started with: whether  *)
(* the one it is in is an array or a dictionary shows in keypresent alone. *)
(*                                                                         *)
(* A byte is a string of its name; what \u stands for is kept up to the    *)
(* number of bytes of its UTF-8 form.                                      *)
(***************************************************************************)
EXTENDS AbceAtof

Space == {" ", "LF"}
Hex == {"0", "1", "a", "e", "f"}
Byte == {"{", "}", "[", "]", ",", ":", "quote", "esc", "t", "r", "u", "l", "s", "n",
         "-", ".", "+", "x"} \cup Space \cup Hex
Cooked == Byte \cup {"TAB", "CTL", "u2", "u3", "cont"}

InKey == {"KEYSTRING", "KEYSTRING_ESCAPE", "KEYSTRING_UESCAPE"}
InString == {"STRING", "STRING_ESCAPE", "STRING_UESCAPE"}
Word == [TRUE_ |-> <<"t", "r", "u", "e">>, FALSE_ |-> <<"f", "a", "l", "s", "e">>,
         NULL_ |-> <<"n", "u", "l", "l">>]
InWord == DOMAIN Word
Structural == {"FIRSTKEY", "KEY", "FIRSTVAL", "VAL", "COLON", "COMMA"}
Mode == InKey \cup InString \cup InWord \cup Structural \cup {"NUMBER"}

Errors == {"EINVAL", "EILSEQ", "EOVERFLOW", "ENOMEM", "REFUSED"}

NoKey == [present |-> FALSE, key |-> <<>>]
ContextInit ==
  [mode |-> "VAL", sz |-> 0, uescape |-> <<>>, keypresent |-> FALSE, key |-> <<>>,
   keystack |-> <<>>, val |-> <<>>, num |-> AtofInit(TRUE), isinteger |-> TRUE]

\* abce_caj_get_key and abce_caj_get_keysz.
KeyOf(c) == IF c.keypresent THEN [present |-> TRUE, key |-> c.key] ELSE NoKey

StartEvent(c, dict) == [ev |-> "start", dict |-> dict, key |-> KeyOf(c)]
EndEvent(c, dict) == [ev |-> "end", dict |-> dict, key |-> KeyOf(c)]
LeafEvent(c, typ, val) == [ev |-> "leaf", typ |-> typ, key |-> KeyOf(c), val |-> val]
NumberEvent(c) ==
  LeafEvent(c, "number", [isinteger |-> c.isinteger, value |-> AtofEnd(c.num)])

PutKeystack(c) == Append(c.keystack, KeyOf(c))

\* The open containers, as the keys imply them: a container is a dictionary when
\* the one inside it has a key; dict tells what the innermost is.
OpenWith(c, dict) ==
  [i \in 1 .. Len(c.keystack) |->
     [dict |-> IF i = Len(c.keystack) THEN dict ELSE c.keystack[i + 1].present,
      key |-> c.keystack[i]]]

\* *mutant* of GetKeystack: the container had a key, but its place forgets it.
GetKeystackKeyLost(c) ==
  [c EXCEPT !.mode = "COMMA", !.keystack = SubSeq(@, 1, Len(@) - 1)]

\* The context after its innermost container is closed.
GetKeystack(c) ==
  LET top == c.keystack[Len(c.keystack)]
  IN [c EXCEPT !.mode = "COMMA", !.keypresent = top.present,
               !.key = IF top.present THEN top.key ELSE @,
               !.keystack = SubSeq(@, 1, Len(@) - 1)]

\* The UTF-8 form of the code point with these four digits.
Utf8(h) ==
  CASE h[1] = "0" /\ h[2] = "0" /\ h[3] \in {"0", "1"} -> <<"CTL">>
    [] h[1] = "0" /\ h[2] \in {"0", "1"} /\ ~(h[2] = "0" /\ h[3] \in {"0", "1"}) -> <<"u2", "cont">>
    [] OTHER -> <<"u3", "cont", "cont">>

\* caj with one more digit of \u read.
HexRead(c, b) == [c EXCEPT !.sz = @ + 1, !.uescape = Append(@, b)]

\* caj with byte b, which belongs to its number.
NumberRead(c, b, num) == [c EXCEPT !.num = num, !.isinteger = @ /\ b \notin {".", "e"}]

\* Bytes no section of the loop takes.
Allowed(mode) ==
  CASE mode = "FIRSTKEY" -> {"quote", "}"}
    [] mode = "KEY" -> {"quote"}
    [] mode = "COMMA" -> {",", "}", "]"}
    [] mode = "VAL" -> {"quote", "{", "[", "t", "f", "n", "-"} \cup Digit
    [] mode = "FIRSTVAL" -> {"quote", "{", "[", "t", "f", "n", "-", "]"} \cup Digit

\* The control characters the parsers know after a backslash; \b, for which
\* there is no byte here, goes the way of \f and \r.
Escaped == [n |-> "LF", t |-> "TAB", r |-> "CTL", f |-> "CTL"]
=============================================================================
