---------------------------- MODULE AmyplanStmt ----------------------------
(***************************************************************************)
(* The code the Amyplan grammar (amyplanyy.y, amyplanlocvarctx.c) emits    *)
(* for the statements of a function, in one pass, and its execution.       *)
(*                                                                         *)
(* A line of the source is one action: it appends its instructions and     *)
(* patches the operands whose target is now known.  open is the parser's   *)
(* stack: what the actions of a construct keep for later ($<d>n), and for  *)
(* a loop its local variable context.  The function has Args parameters    *)
(* and Locals local variables, the first two of them the key and the value *)
(* of its @fordict loops.                                                  *)
(***************************************************************************)
EXTENDS AbceEngine

CONSTANTS
  MaxLines,   \* lines in the body of the function
  Kinds,      \* the statements it may use
  Reach,      \* the arguments @break and @continue may have
  Counts,     \* the argument counts a call may pass
  Args, Locals

ASSUME StmtAssumption ==
  /\ MaxLines \in Nat /\ Reach \in SUBSET (Nat \ {0}) /\ Counts \in SUBSET Nat
  /\ Args \in Nat /\ Locals \in Nat \ {0, 1}

VARIABLES
  src,   \* the lines parsed so far
  open   \* the constructs not yet closed, outermost first

vars == <<code, stack, bp, ip, err, bt, trace, src, open>>

-----------------------------------------------------------------------------
(* Emitting code.                                                          *)

Value == {C("V", 0)}
Bools == {C("B", 0), C("B", 1)}
Operand(n) == Ins("PUSH", C("D", n))
Unknown == Operand(-50)

\* The function of a variable ($X = expr), at address VarFun, and the function.
Var == <<Ins("FUN_HEADER", 0), Ins("EXPR", Value), Ins("RET", 0), Ins("FUN_TRAILER", 0)>>
Boot(fun) ==
  <<Operand(fun), Ins("FUNIFY", 0)>> \o [i \in 1..Args |-> Ins("EXPR", Value)]
    \o <<Operand(Args), Ins("CALL", 0), Ins("EXIT", 0)>>
VarFun == Len(Boot(0)) + 1
Fun == VarFun + Len(Var)
Prologue == <<Ins("FUN_HEADER", Args)>> \o [i \in 1..Locals |-> Ins("EXPR", Value)]

Here == Len(code) + 1
\* The code with each operand at the addresses of holes set to the value of here.
Patched(c, holes, here) ==
  [a \in DOMAIN c |-> IF a \in holes THEN [c[a] EXCEPT !.arg = C("D", here)] ELSE c[a]]

-----------------------------------------------------------------------------
(* Local variable contexts: the function's, and one per open loop.         *)

LoopKinds == {"while", "once", "for", "fordict"}
Root == [startidx |-> 2, sz |-> Args + Locals]
Contexts == {i \in DOMAIN open : open[i].k \in LoopKinds}
Innermost == IF Contexts = {} THEN Root ELSE open[Nth(Contexts, 1)]

\* *mutant* forgets the cells of the @fordict loops.
RecursiveSzRoot == Root.sz - Args
\* Local variables and the cells of enclosing @fordict loops.
RecursiveSz == Innermost.sz + Innermost.startidx - Root.startidx - Args

\* *mutant* counts the contexts from the outside.
TargetOuter(n, field) ==
  IF n > Cardinality(Contexts) THEN -2
  ELSE open[Nth(Contexts, Cardinality(Contexts) + 1 - n)][field]
\* The address of the nth context from the inside, -ENOENT if there is none.
Target(n, field) ==
  IF n > Cardinality(Contexts) THEN -2 ELSE open[Nth(Contexts, n)][field]

\* *mutant* takes the frame's two cells for variables.
KeyVarInFrame == Args
KeyVar == Root.startidx + Args
ValVar == KeyVar + 1

-----------------------------------------------------------------------------
p == Len(src) + 1
May(k, n) ==
  /\ ip = 0 /\ Len(src) < MaxLines /\ k \in Kinds
  /\ src' = Append(src, [k |-> k, n |-> n])
Emit(c) == code' = code \o c /\ UNCHANGED <<stack, bp, ip, err, bt, trace>>
EmitOnly(c) == Emit(c) /\ UNCHANGED open
Innermosts(ks) == open # <<>> /\ open[Len(open)].k \in ks
Cur == open[Len(open)]
Shut == SubSeq(open, 1, Len(open) - 1)

\* An expression called for its side effects only.
Statement(part) == <<Marked("EXPR", Value, p, part), Ins("POP", 0)>>
ExprStmt == May("expr", 0) /\ EmitOnly(Statement("act"))

\* A call of the function itself.
CallStmt ==
  \E n \in Counts :
    /\ May("call", n)
    /\ EmitOnly(<<Marked("PUSH", C("D", Fun), p, "act"), Ins("FUNIFY", 0)>>
                \o [i \in 1..n |-> Ins("EXPR", Value)]
                \o <<Operand(n), Ins("CALL", 0), Ins("POP", 0)>>)

\* @D $X, a variable that may hold a function.
VarStmt ==
  /\ May("var", 0)
  /\ EmitOnly(<<Marked("EXPR", Value \cup {C("F", VarFun)}, p, "act"),
                Ins("CALL_IF_FUN", 0), Ins("POP", 0)>>)

ReturnStmt ==
  /\ May("return", 0)
  /\ EmitOnly(<<Marked("EXPR", Value, p, "act"), Operand(Args), Operand(RecursiveSz),
                Ins("RETEX2", 0)>>)

Break ==
  \E n \in Reach :
    /\ May("break", n)
    /\ EmitOnly(<<Marked("PUSH", C("B", 0), p, "act"), Operand(Target(n, "brk")), Ins("JMP", 0)>>)

\* *mutant* pushes false as a break does.
ContinueFalse ==
  \E n \in Reach :
    /\ May("continue", n)
    /\ EmitOnly(<<Ins("PUSH", C("B", 0)),
                  Marked("PUSH", C("D", Target(n, "cont")), p, "act"), Ins("JMP", 0)>>)
Continue ==
  \E n \in Reach :
    /\ May("continue", n)
    /\ EmitOnly(<<Marked("PUSH", C("D", Target(n, "cont")), p, "act"), Ins("JMP", 0)>>)

-----------------------------------------------------------------------------
(* Branches.  hole is the jump over the branch at hand, skip the jump from *)
(* the end of the branch before it.                                        *)

BranchTest == <<Marked("EXPR", Bools, p, "cond"), Unknown, Ins("IF_NOT_JMP", 0)>>

If ==
  /\ May("if", 0)
  /\ Emit(BranchTest)
  /\ open' = Append(open, [k |-> "if", hole |-> Here + 1, skip |-> 0])

\* The end of a branch: both jumps lead here.
BranchEnd == Patched(code, {Cur.hole, Cur.skip}, Here)
SkipBranch == <<Unknown, Ins("JMP", 0)>>

ElseIf ==
  /\ May("elseif", 0) /\ Innermosts({"if"})
  /\ code' = Patched(BranchEnd, {Cur.hole}, Here + 2) \o SkipBranch \o BranchTest
  /\ open' = Append(Shut, [k |-> "if", hole |-> Here + 3, skip |-> Here])
  /\ UNCHANGED <<stack, bp, ip, err, bt, trace>>

\* *mutant* lets a false condition jump to the jump over the branch.
ElseShort ==
  /\ May("else", 0) /\ Innermosts({"if"})
  /\ code' = BranchEnd \o SkipBranch
  /\ open' = Append(Shut, [k |-> "else", hole |-> Here, skip |-> 0])
  /\ UNCHANGED <<stack, bp, ip, err, bt, trace>>
Else ==
  /\ May("else", 0) /\ Innermosts({"if"})
  /\ code' = Patched(BranchEnd, {Cur.hole}, Here + 2) \o SkipBranch
  /\ open' = Append(Shut, [k |-> "else", hole |-> Here, skip |-> 0])
  /\ UNCHANGED <<stack, bp, ip, err, bt, trace>>

EndIf ==
  /\ May("endif", 0) /\ Innermosts({"if", "else"})
  /\ code' = BranchEnd /\ open' = Shut
  /\ UNCHANGED <<stack, bp, ip, err, bt, trace>>

-----------------------------------------------------------------------------
(* Loops.  brk is where a break jumps, with false pushed; hole the operand *)
(* of the jump to the end.                                                 *)

Opened(k, brk, cont, sz) ==
  open' = Append(open, [k |-> k, hole |-> brk, skip |-> 0, brk |-> brk, cont |-> cont,
                        startidx |-> Innermost.startidx + Innermost.sz, sz |-> sz])
LoopTest == <<Unknown, Ins("IF_NOT_JMP", 0)>>
Closed(c) ==
  /\ code' = Patched(code, {Cur.hole}, Here + Len(c)) \o c
  /\ open' = Shut /\ UNCHANGED <<stack, bp, ip, err, bt, trace>>
JumpBack == <<Operand(Cur.cont), Ins("JMP", 0)>>

While ==
  /\ May("while", 0)
  /\ Emit(<<Marked("EXPR", Bools, p, "cond")>> \o LoopTest)
  /\ Opened("while", Here + 1, Here, 0)
EndWhile == May("endwhile", 0) /\ Innermosts({"while"}) /\ Closed(JumpBack)

Once ==
  /\ May("once", 0)
  /\ Emit(<<Marked("PUSH", C("B", 1), p, "act")>> \o LoopTest)
  /\ Opened("once", Here + 1, Here, 0)
EndOnce == May("endonce", 0) /\ Innermosts({"once"}) /\ Closed(<<>>)

\* The test, then the step, which comes between the test and the body.
For ==
  /\ May("for", 0)
  /\ LET mid   == Here + 2
         start == mid + 3
         brk   == start + 4
     IN /\ Emit(Statement("init")
                \o <<Marked("EXPR", Bools, p, "cond"), Operand(brk), Ins("JMP", 0)>>
                \o Statement("step") \o <<Operand(mid), Ins("JMP", 0)>> \o LoopTest)
        /\ Opened("for", brk, start, 0)
EndForLoop == May("endfor", 0) /\ Innermosts({"for"}) /\ Closed(JumpBack)

\* *mutant* forgets that the index of the variable is on the stack.
CopyToNear(var, idx) ==
  <<Operand(var), Operand(idx + 1), Ins("PUSH_STACK", 0), Ins("SET_STACK", 0)>>
CopyTo(var, idx) ==
  <<Operand(var), Operand(idx), Ins("PUSH_STACK", 0), Ins("SET_STACK", 0)>>
\* The dictionary, the key and the value stay on the stack.
Fordict ==
  /\ May("fordict", 0)
  /\ LET iter == Here + 3
     IN /\ Emit(<<Marked("EXPR", {C("T", 0)}, p, "init"),
                  Ins("PUSH", C("N", 0)), Ins("PUSH", C("N", 0)),
                  Ins("POP", 0), Ins("PUSH", C("B", 0)),
                  Marked("DICTNEXT_SAFE", 0, p, "step"),
                  Operand(-2), Ins("PUSH_STACK", 0), Ins("NOT_NIL", 0)>>
                \o LoopTest \o CopyTo(ValVar, -2) \o CopyTo(KeyVar, -3))
        /\ Opened("fordict", iter + 6, iter, 3)
\* *mutant* leaves the dictionary on the stack.
LoopPopsTwo == <<Ins("POP", 0), Ins("POP", 0)>>
LoopPops == <<Ins("POP", 0), Ins("POP", 0), Ins("POP", 0)>>
EndFordict ==
  /\ May("endfor", 0) /\ Innermosts({"fordict"})
  /\ code' = Patched(code, {Cur.hole}, Here + 2) \o JumpBack \o LoopPops
  /\ open' = Shut /\ UNCHANGED <<stack, bp, ip, err, bt, trace>>

-----------------------------------------------------------------------------
\* The end of the function, and the engine is started to call it.
EndFunction ==
  /\ ip = 0 /\ open = <<>>
  /\ code' = code \o <<Marked("PUSH", C("N", 0), p, "act"), Operand(Args),
                       Operand(Root.sz - Args), Ins("RETEX2", 0), Ins("FUN_TRAILER", 0)>>
  /\ ip' = 1
  /\ UNCHANGED <<stack, bp, err, bt, trace, src, open>>

Parse ==
  \/ ExprStmt \/ CallStmt \/ VarStmt \/ ReturnStmt \/ Break \/ Continue
  \/ If \/ ElseIf \/ Else \/ EndIf
  \/ While \/ EndWhile \/ Once \/ EndOnce \/ For \/ EndForLoop \/ Fordict \/ EndFordict
  \/ EndFunction

Init ==
  /\ code = Boot(Fun) \o Var \o Prologue
  /\ stack = <<>> /\ bp = 0 /\ ip = 0 /\ err = "none" /\ bt = <<>> /\ trace = <<>>
  /\ src = <<>> /\ open = <<>>

Execute == Step /\ UNCHANGED <<src, open>>

Next == Parse \/ Execute

Spec == Init /\ [][Next]_vars

-----------------------------------------------------------------------------
Flow == INSTANCE AmyplanFlow

Fordicts(line) == {q \in Flow!Around(line) : src[q].k = "fordict"}

\* Whatever way control took, a statement finds on the stack its frame, the
\* local variables, and three cells for each @fordict loop around it.
StackDepth ==
  Running /\ mark # NoMark =>
    sp - bp = Args + 2 + Locals + 3 * Cardinality(Fordicts(mark.p))
              + IF code[ip].op = "DICTNEXT_SAFE" THEN 3 ELSE 0

\* Compiled code stops only for a reason the program gives: EXIT, a recursion
\* too deep, a call with a wrong number of arguments, a @break or @continue
\* out of more loops than there are.
NoFault ==
  /\ err = "none" => ip = 0 \/ (ip \in DOMAIN code /\ code[ip].op \notin {"FUN_HEADER", "FUN_TRAILER"})
  /\ err \in {"none", "EXIT", "STACK_OVERFLOW"} \/
     LET line == src[trace[Len(trace)].p]
     IN \/ err = "INVALID_ARG_CNT" /\ line.k = "call" /\ line.n # Args
        \/ /\ err = "BYTECODE_FAULT" /\ line.k \in {"break", "continue"}
           /\ Flow!Levels(trace[Len(trace)].p, line.n) = {}

\* The arguments of call c, and the base of each call in progress found by
\* following the saved bases down from bp.
ArgsOf(c) == IF trace[c].part = "var" THEN 0 ELSE Args
Bases(top) ==
  LET B[c \in 0..Len(trace)] ==
        IF c = Len(trace) THEN top
        ELSE LET a == B[c + 1] + ArgsOf(c + 1) + 1
             IN IF a \in DOMAIN stack THEN stack[a].v ELSE -1
  IN B
Base == Bases(bp)

\* The saved bases lead from frame to frame down to the first; each frame lies
\* above its function, its return address follows a call, and the stack holds
\* no other return address and keeps to its limit.
FramesChained ==
  err = "none" =>
    /\ sp <= MaxStack /\ bp \in 0..sp
    /\ Base[0] = 0 /\ Cardinality(ReturnAddresses(stack)) = Len(trace)
    /\ \A c \in 1..Len(trace) :
         LET b == Base[c] IN
         /\ Base[c - 1] < b /\ stack[b].t = "F"
         /\ stack[b + ArgsOf(c) + 1].t = "BP" /\ stack[b + ArgsOf(c) + 2].t = "IP"
         /\ code[stack[b + ArgsOf(c) + 2].v - 1].op \in {"CALL", "CALL_IF_FUN"}

VariablesSet == At(KeyVar) = At(-2) /\ At(ValVar) = At(-1) /\ Is(-3, {"T"})

\* When the body of a @fordict begins an iteration, its variables hold the key
\* and the value the loop stands on.
LoopVariables ==
  [][SetStack /\ code[ip - 3] = Operand(KeyVar) => VariablesSet']_vars

\* After an error, whatever was half done, the back trace is the current
\* address and one return address per call in progress, innermost first, as
\* the saved bases lead from one to the next: all of them if they fit, else
\* the innermost BtCap addresses.  A call with the wrong number of arguments
\* has a return address too, but has not begun.
BacktraceExact ==
  err \notin {"none", "EXIT"} =>
    LET refused == err = "INVALID_ARG_CNT"
        calls   == Len(trace) + IF refused THEN 1 ELSE 0
        bases   == Bases(IF refused THEN At(-2).v ELSE bp)
    IN /\ Len(bt) = IF calls < BtCap THEN calls + 1 ELSE BtCap
       /\ bt # <<>> => bt[1] = ip
       /\ \A i \in 2..Len(bt) :
            /\ code[bt[i] - 1].op \in {"CALL", "CALL_IF_FUN"}
            /\ LET c == calls + 2 - i
               IN c <= Len(trace) => bt[i] = stack[bases[c] + ArgsOf(c) + 2].v

\* The code does what the statements mean: every condition and statement is
\* evaluated after one that it may follow in the text.
FlowSpec == Flow!Spec
=============================================================================
