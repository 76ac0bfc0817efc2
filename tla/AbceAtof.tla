----------------------------- MODULE AbceAtof ------------------------------
(***************************************************************************)
(* The streaming number lexer (abcestreamingatof.c), which reads a decimal *)
(* number byte by byte: a mode, the significant digits with the period     *)
(* always after the first, and the power of ten that goes with them.       *)
(* A context holds buf (without the sign and the period) in dig.           *)
(***************************************************************************)
EXTENDS Integers, Sequences

CONSTANTS
  DigitMax,  \* significant digits that fit in buf without a sign, 57 in the code
  ExpMax,    \* the clamp on the exponent in get_number, 999 in the code
  IntMax     \* INT64_MAX

ASSUME AtofAssumption ==
  DigitMax \in Nat \ {0} /\ ExpMax \in Nat /\ IntMax \in Nat /\ IntMax >= 19

Digit == {"0", "1", "2", "3", "4", "5", "6", "7", "8", "9"}
Expo == {"e", "E"}
DigitValue == [d \in Digit |->
  CASE d = "0" -> 0 [] d = "1" -> 1 [] d = "2" -> 2 [] d = "3" -> 3 [] d = "4" -> 4
    [] d = "5" -> 5 [] d = "6" -> 6 [] d = "7" -> 7 [] d = "8" -> 8 [] OTHER -> 9]

AtofMode == {"SIGN", "FIRST", "MANTISSA", "FRAC_FIRST", "FRAC", "PERIOD_OR_EXP",
             "EXP_CHAR", "EXP_SIGN", "EXP_FIRST", "EXP", "DONE", "ERROR"}

AtofInit(strict) ==
  [mode |-> "SIGN", neg |-> FALSE, dig |-> <<>>, offset |-> 0, offsetset |-> FALSE,
   skip |-> 0, exponent |-> 0, expneg |-> FALSE, strict |-> strict]

EmitDigit(c, d) ==
  CASE d = "0" /\ c.dig = <<>> ->
         [c EXCEPT !.offset = IF c.offsetset /\ @ < 0 THEN @ - 1 ELSE @]
    [] ~(d = "0" /\ c.dig = <<>>) /\ Len(c.dig) + (IF c.neg THEN 1 ELSE 0) >= DigitMax ->
         [c EXCEPT !.skip = IF c.offsetset THEN @ ELSE @ + 1]
    [] OTHER -> [c EXCEPT !.dig = Append(@, d)]

\* *mutant* of StorePeriod: the digits that did not fit are forgotten.
StorePeriodShort(c) ==
  [c EXCEPT !.offset = IF c.dig = <<>> THEN -1 ELSE Len(c.dig) - 1, !.offsetset = TRUE]

StorePeriod(c) ==
  [c EXCEPT !.offset = IF c.dig = <<>> THEN -1 ELSE Len(c.dig) - 1 + c.skip,
            !.offsetset = TRUE]

\* An integer ends: its period is stored, and a zero follows it.
WithPeriod(c) == IF c.offsetset THEN c ELSE EmitDigit(StorePeriod(c), "0")

ExponentDigit(c, d) ==
  IF c.exponent > (IntMax - 9) \div 10 THEN c
  ELSE [c EXCEPT !.exponent = 10 * @ + DigitValue[d], !.mode = "EXP"]

\* The mode in which byte b is looked at: the first byte after the sign, and
\* the byte after a leading zero, are classified before anything reads them.
ModeFor(c, b) ==
  CASE c.mode = "SIGN" /\ (b \in Digit \/ (b = "." /\ ~c.strict)) -> "FIRST"
    [] c.mode = "PERIOD_OR_EXP" /\ b \in Expo -> "EXP_CHAR"
    [] c.mode = "PERIOD_OR_EXP" /\ b = "." -> "MANTISSA"
    [] OTHER -> c.mode

Goto(c, mode) == [c EXCEPT !.mode = mode]
Take(c) == [ctx |-> c, took |-> TRUE]
Stop(c, mode) == [ctx |-> Goto(c, mode), took |-> FALSE]

\* One byte of abce_streaming_atof_feed: the new context, and whether the byte
\* belongs to the number.
AtofFeed(c, b) ==
  LET m == ModeFor(c, b)
      mantissa == {"FIRST", "MANTISSA"}
      fraction == {"FRAC_FIRST", "FRAC"}
      lenient == m = "FRAC_FIRST" /\ ~c.strict
      integer == m \in {"EXP_CHAR", "MANTISSA", "FRAC"} \/ lenient
  IN CASE m = "SIGN" /\ b = "+" /\ ~c.strict -> Take(Goto(c, "FIRST"))
       [] m = "SIGN" /\ b = "-" -> Take([Goto(c, "FIRST") EXCEPT !.neg = TRUE])
       [] m = "FIRST" /\ b = "0" -> Take(Goto(EmitDigit(c, b), "PERIOD_OR_EXP"))
       [] m \in mantissa /\ b \in Digit /\ ~(m = "FIRST" /\ b = "0") ->
            Take(Goto(EmitDigit(c, b), "MANTISSA"))
       [] m \in mantissa /\ b = "." -> Take(Goto(StorePeriod(c), "FRAC_FIRST"))
       [] m \in fraction /\ b \in Digit -> Take(Goto(EmitDigit(c, b), "FRAC"))
       [] integer /\ b \in Expo -> Take(Goto(WithPeriod(c), "EXP_SIGN"))
       [] m = "EXP_SIGN" /\ b \in {"+", "-"} ->
            Take([Goto(c, "EXP_FIRST") EXCEPT !.expneg = (b = "-")])
       [] m \in {"EXP_SIGN", "EXP_FIRST", "EXP"} /\ b \in Digit ->
            Take(ExponentDigit(c, b))
       [] \/ m = "PERIOD_OR_EXP" /\ b \notin Digit
          \/ m = "MANTISSA" /\ b \notin Digit \cup Expo \cup {"."}
          \/ (m = "FRAC" \/ lenient) /\ b \notin Digit \cup Expo
          \/ m = "EXP" /\ b \notin Digit -> Stop(c, "DONE")
       [] OTHER -> Stop(c, "ERROR")

AtofIsError(c) == c.mode = "ERROR"

Clamp(x) == IF x > ExpMax THEN ExpMax ELSE IF x < -ExpMax THEN -ExpMax ELSE x

\* abce_streaming_atof_end: the text handed to atof(), as a sign, the digits
\* d.ddd and the power of ten.
AtofEnd(c) ==
  LET shifted == [c EXCEPT !.offset = @ + (IF c.expneg THEN -c.exponent ELSE c.exponent)]
      done == WithPeriod(Goto(shifted, "DONE"))
  IN [neg |-> done.neg, dig |-> IF done.dig = <<>> THEN <<"0", "0">> ELSE done.dig,
      exp |-> Clamp(done.offset)]

\* Digits without trailing zeros.
Significant(s) ==
  SubSeq(s, 1, CHOOSE n \in 0 .. Len(s) : (\A k \in n + 1 .. Len(s) : s[k] = "0")
                                         /\ (n = 0 \/ s[n] # "0"))
=============================================================================
