------------------------------ MODULE AbceCajOut -----------------------------
(***************************************************************************)
(* The JSON writer (abce_caj_out.c) and the shortest decimal text of a     *)
(* double (abceprettyftoa.c), as operators on the writer's context: each   *)
(* function of the writer is one operator. The text goes to a sink that    *)
(* takes everything. A key is a record as in AbceCajCore: a value without  *)
(* a key is written by the add functions, with one by the put functions.   *)
(*                                                                         *)
(* A number is a sign, its significant digits and the power of ten of the  *)
(* first of them; what is not finite has the digit "inf". An operation     *)
(* that aborts leaves aborted set.                                         *)
(***************************************************************************)
EXTENDS AbceCajCore, SequencesExt

CONSTANT IndentAmount   \* spaces per level

Infinite == [neg |-> FALSE, dig |-> <<"inf">>, exp |-> 0]
IsFinite(n) == n.dig # <<"inf">>

Pad(n, char) == [k \in 1 .. n |-> char]
NatText(n) ==
  LET f[k \in 0 .. n] == LET d == <<CHOOSE c \in Digit : DigitValue[c] = k % 10>>
                         IN IF k < 10 THEN d ELSE f[k \div 10] \o d
  IN f[n]
Sign(n) == IF n.neg THEN <<"-">> ELSE <<>>
Zeros(k) == Pad(IF k > 0 THEN k ELSE 0, "0")

\* %lld of an integral number.
IntText(n) == Sign(n) \o (IF n.dig = <<>> THEN <<"0">> ELSE n.dig \o Zeros(n.exp + 1 - Len(n.dig)))

\* The text without an exponent: always with a digit on both sides of the period.
FixedText(n) ==
  LET whole == IF n.exp < 0 \/ n.dig = <<>> THEN <<"0">>
               ELSE SubSeq(n.dig \o Zeros(n.exp + 1 - Len(n.dig)), 1, n.exp + 1)
      frac == IF n.exp < 0 THEN Zeros(-n.exp - 1) \o n.dig
              ELSE SubSeq(n.dig, n.exp + 2, Len(n.dig))
  IN Sign(n) \o whole \o <<".">> \o (IF frac = <<>> THEN <<"0">> ELSE frac)
\* The text of %g with an exponent, without its plus sign and its zeros.
ExpoText(n) ==
  Sign(n) \o <<n.dig[1]>>
  \o (IF Len(n.dig) = 1 THEN <<>> ELSE <<".">> \o Tail(n.dig))
  \o <<"e">> \o (IF n.exp < 0 THEN <<"-">> ELSE <<>>) \o NatText(IF n.exp < 0 THEN -n.exp ELSE n.exp)
\* %.17g has no exponent; %g with the digits of n has one.
HasFixed(n) == n.dig = <<>> \/ n.exp \in -4 .. 16
HasExpo(n) == n.dig # <<>> /\ (n.exp < -4 \/ n.exp >= Len(n.dig))

PrettyFtoa(n) ==
  IF HasFixed(n) /\ (~HasExpo(n) \/ Len(FixedText(n)) <= Len(ExpoText(n)))
  THEN FixedText(n) ELSE ExpoText(n)

-----------------------------------------------------------------------------
(* struct abce_caj_out_ctx and the pieces every value is written with.     *)

OutInit == [level |-> 0, first |-> TRUE, veryfirst |-> TRUE, out |-> <<>>, aborted |-> FALSE]

Sink(o, bytes) == IF o.aborted THEN o ELSE [o EXCEPT !.out = @ \o bytes]
Abort(o) == [o EXCEPT !.aborted = TRUE]

\* At level 0 there is no comma either.
Indent(o, comma) ==
  IF o.level = 0 THEN Sink(o, <<"LF">>)
  ELSE Sink(o, (IF comma THEN <<",">> ELSE <<>>) \o <<"LF">> \o Pad(o.level * IndentAmount, " "))

Escape == [quote |-> <<"esc", "quote">>, esc |-> <<"esc", "esc">>, LF |-> <<"esc", "n">>,
           TAB |-> <<"esc", "t">>, CTL |-> <<"esc", "u", "0", "0", "1", "f">>]

Quoted(s) ==
  LET quoted == [k \in 1 .. Len(s) |-> IF s[k] \in DOMAIN Escape THEN Escape[s[k]] ELSE <<s[k]>>]
  IN <<"quote">> \o FlattenSeq(quoted) \o <<"quote">>

\* What goes before a value: the separator, and its key.
Lead(o, key) ==
  IF key.present
  THEN IF o.veryfirst THEN Abort(o)
       ELSE Sink(Indent(o, ~o.first), Quoted(key.key) \o <<":", " ">>)
  ELSE [IF o.veryfirst THEN o ELSE Indent(o, ~o.first) EXCEPT !.veryfirst = FALSE]

Leaf(o, key, bytes) == [Sink(Lead(o, key), bytes) EXCEPT !.first = FALSE]

PutString(o, key, s) == Leaf(o, key, Quoted(s))
\* *mutant* of PutFlop: what is not finite is written as null.
PutFlopNull(o, key, n) ==
  Leaf(o, key, IF IsFinite(n) THEN PrettyFtoa(n) ELSE Word.NULL_)

PutFlop(o, key, n) == IF IsFinite(n) THEN Leaf(o, key, PrettyFtoa(n)) ELSE Abort(Lead(o, key))
PutI64(o, key, n) == Leaf(o, key, IntText(n))
PutBoolean(o, key, b) ==
  Leaf(o, key, IF b THEN Word.TRUE_ ELSE Word.FALSE_)
PutNull(o, key) == Leaf(o, key, Word.NULL_)

Started(o) == [o EXCEPT !.first = TRUE, !.level = @ + 1]
PutStartDict(o, key) == Sink(Started(Lead(o, key)), <<"{">>)
PutStartArray(o, key) == Sink(Started(Lead(o, key)), <<"[">>)


Ended(o, byte) ==
  IF o.level = 0 THEN Abort(o)
  ELSE LET up == [o EXCEPT !.level = @ - 1]
       IN [Sink(IF up.first THEN up ELSE Indent(up, FALSE), <<byte>>) EXCEPT !.first = FALSE]
EndDict(o) == Ended(o, "}")
EndArray(o) == Ended(o, "]")
=============================================================================
