---------------------------- MODULE AmyplanFlow ----------------------------
(***************************************************************************)
(* What the statements of an Amyplan function mean (README.md): the order  *)
(* in which conditions are evaluated and simple statements executed.       *)
(*                                                                         *)
(* src is the text of the function, one token per line.  A point is a      *)
(* place of the text at which something is evaluated; trace holds, for     *)
(* each call in progress, the point reached last and its outcome.          *)
(***************************************************************************)
EXTENDS Integers, Sequences, FiniteSets

VARIABLES src, trace

flowvars == <<src, trace>>

-----------------------------------------------------------------------------
(* The structure of the text.                                              *)

Loops   == {"while", "once", "for", "fordict"}
Openers == Loops \cup {"if"}
Closers == {"endwhile", "endonce", "endfor", "endif"}
Middles == {"elseif", "else"}
Simples == {"expr", "call", "var", "return", "break", "continue"}
Token   == [k : Openers \cup Closers \cup Middles \cup Simples, n : Nat]

LeastOf(S) == CHOOSE m \in S : \A x \in S : m <= x
GreatestOf(S) == CHOOSE m \in S : \A x \in S : m >= x

\* How many constructs are open before line p.
Nesting(p) == Cardinality({q \in 1..(p - 1) : src[q].k \in Openers})
              - Cardinality({q \in 1..(p - 1) : src[q].k \in Closers})
\* The line that ends the construct open at line p.
Closer(p) == LeastOf({q \in p..Len(src) :
                        /\ src[q].k \in Closers /\ Nesting(q) = Nesting(p)})
\* The line that opened it.
Opener(p) == GreatestOf({q \in 1..(p - 1) :
                           /\ src[q].k \in Openers /\ Nesting(q) = Nesting(p) - 1})
\* The line that ends the loop opened at line p, and the lines it encloses.
End(p) == Closer(p + 1)
Around(p) == {q \in 1..(p - 1) : src[q].k \in Loops /\ p <= End(q)}
\* The nth loop around line p, from the inside.
Levels(p, n) == {q \in Around(p) : Cardinality({r \in Around(p) : r >= q}) = n}
\* The next branch of the if whose branch at line p is not taken.
Branch(p) == LeastOf({q \in (p + 1)..Len(src) :
                        /\ src[q].k \in Middles \cup {"endif"} /\ Nesting(q) = Nesting(p + 1)})

-----------------------------------------------------------------------------
(* Control.                                                                *)

Point(p, part) == [p |-> p, part |-> part]

\* The first point reached from line p.
Reached ==
  LET At[p \in 1..(Len(src) + 1)] ==
        IF p > Len(src) THEN Point(p, "act")
        ELSE LET k == src[p].k IN
             IF k \in Simples \cup {"once"} THEN Point(p, "act")
             ELSE IF k \in {"if", "while"} THEN Point(p, "cond")
             ELSE IF k \in {"for", "fordict"} THEN Point(p, "init")
             ELSE IF k \in Middles THEN At[Closer(p) + 1]
             ELSE IF k \in {"endif", "endonce"} THEN At[p + 1]
             ELSE IF src[Opener(p)].k = "while" THEN Point(Opener(p), "cond")
             ELSE Point(Opener(p), "step")
  IN At

\* Where a loop goes on with its next iteration.
Again(q) == Point(q, CASE src[q].k = "while" -> "cond"
                       [] src[q].k = "once"  -> "act"
                       [] OTHER -> "step")

\* The points that may follow x.  A break or continue out of more loops than
\* there are has none, the function stops there.
After(x) ==
  LET p == x.p
      k == IF p \in DOMAIN src THEN src[p].k ELSE "start"
  IN IF p = 0 THEN {Reached[1]}
     ELSE IF k = "break" THEN {Reached[End(q) + 1] : q \in Levels(p, src[p].n)}
     ELSE IF k = "continue" THEN {Again(q) : q \in Levels(p, src[p].n)}
     ELSE IF k = "for" /\ x.part \in {"init", "step"} THEN {Point(p, "cond")}
     ELSE IF k = "fordict" /\ x.part = "init" THEN {Point(p, "step")}
     ELSE IF x.yes THEN {Reached[p + 1]}
     ELSE IF k \in Loops THEN {Reached[End(p) + 1]}
     ELSE LET b == Branch(p)
          IN IF src[b].k = "elseif" THEN {Point(b, "cond")} ELSE {Reached[b + 1]}

\* A condition has two outcomes, and so has the search for the next entry of a
\* dictionary.
Decides(x) == x.part = "cond" \/ (x.part = "step" /\ src[x.p].k = "fordict")
Outcome(x, b) == [p |-> x.p, part |-> x.part, yes |-> b]

-----------------------------------------------------------------------------
Top == trace[Len(trace)]
Below == SubSeq(trace, 1, Len(trace) - 1)
Start(part) == Outcome(Point(0, part), TRUE)
Kind == IF Top.p \in DOMAIN src THEN src[Top.p].k ELSE "end"

Returning ==
  \/ Top.part = "var"
  \/ Top.part = "act" /\ Kind \in {"return", "end"} /\ Top.p # 0

Init == src = <<>> /\ trace = <<>>

Write == trace = <<>> /\ src' \in Seq(Token) /\ UNCHANGED trace

Enter == trace = <<>> /\ trace' = <<Start("act")>> /\ UNCHANGED src

Proceed ==
  /\ trace # <<>> /\ ~Returning
  /\ ~(Top.part = "act" /\ Kind = "call")
  /\ \E x \in After(Top), b \in BOOLEAN :
       /\ Decides(x) \/ b
       /\ trace' = Append(Below, Outcome(x, b))
  /\ UNCHANGED src

\* A call, or the evaluation of a variable that turns out to be a function.
Call ==
  /\ trace # <<>> /\ Top.part = "act" /\ Kind \in {"call", "var"}
  /\ trace' = Append(trace, Start(IF Kind = "call" THEN "act" ELSE "var"))
  /\ UNCHANGED src

\* The caller goes on after its call.
Return ==
  /\ trace # <<>> /\ Returning
  /\ trace' = IF Below = <<>> THEN <<>>
              ELSE [Below EXCEPT ![Len(Below)] = [@ EXCEPT !.part = "done"]]
  /\ UNCHANGED src

Next == Write \/ Enter \/ Proceed \/ Call \/ Return

Spec == Init /\ [][Next]_flowvars
=============================================================================
