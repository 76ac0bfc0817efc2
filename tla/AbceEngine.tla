----------------------------- MODULE AbceEngine -----------------------------
(***************************************************************************)
(* The part of the byte code engine (abce_engine, abce_mid) that moves     *)
(* control: constants, jumps, calls, returns, the stack instructions and   *)
(* the iteration step of @fordict.                                         *)
(*                                                                         *)
(* An instruction and its operand take one address; a cell of the stack is *)
(* its type and what the control instructions read of it.  Cell a of the   *)
(* C array stackbase is stack[a + 1], and sp is Len(stack).  The temporary *)
(* text buffer precedes the permanent text in code.  EXPR stands for the   *)
(* code of an expression that calls no function: it leaves one cell.       *)
(***************************************************************************)
EXTENDS Integers, Sequences, FiniteSets

CONSTANTS
  MaxStack,   \* stacklimit, when the stack can grow no more
  BtCap,      \* btcap, the capacity of the back trace
  Keys        \* the keys a dictionary may hold while a loop runs over it

ASSUME EngineAssumption ==
  MaxStack \in Nat /\ BtCap \in Nat /\ Keys \in SUBSET (Nat \ {0})

VARIABLES
  code,    \* addcode and bytecode
  stack,   \* stackbase up to sp
  bp,
  ip,      \* 0: the engine has not been started
  err,     \* err.code; the engine runs while it is "none"
  bt,      \* btbase up to btsz: the addresses gathered after an error
  trace    \* history: what each call in progress evaluated last

-----------------------------------------------------------------------------
Types == {"N", "B", "D", "F", "BP", "IP", "S", "T", "V", "none"}
Cell == [t : Types, v : Int]
C(t, v) == [t |-> t, v |-> v]
NoCell == C("none", 0)
Numbers == {"D", "B"}

NoMark == [p |-> 0, part |-> "none"]
Ins(op, arg) == [op |-> op, arg |-> arg, mark |-> NoMark]
Marked(op, arg, p, part) == [op |-> op, arg |-> arg, mark |-> [p |-> p, part |-> part]]

sp == Len(stack)
Addr(idx) == IF idx < 0 THEN sp + idx ELSE bp + idx
Valid(idx) == Addr(idx) \in bp..(sp - 1)
At(idx) == IF Valid(idx) THEN stack[Addr(idx) + 1] ELSE NoCell
Is(idx, types) == At(idx).t \in types
Put(idx, cell) == [stack EXCEPT ![Addr(idx) + 1] = cell]
Popped(n) == SubSeq(stack, 1, sp - n)

\* What the engine adds to the back trace when it stops at address i with the
\* stack s: i and the return addresses on the stack, until the trace is full.
ReturnAddresses(s) == {a \in DOMAIN s : s[a].t = "IP"}
\* The nth of the numbers S, the greatest first: the stack is read from its top.
Nth(S, n) == CHOOSE a \in S : Cardinality({b \in S : b >= a}) = n
Returns(s) ==
  LET S == ReturnAddresses(s) IN [n \in 1..Cardinality(S) |-> s[Nth(S, n)].v]
UpToCap(q) == SubSeq(q, 1, IF Len(q) < BtCap THEN Len(q) ELSE BtCap)
\* *mutant* gathers the return addresses of the innermost frame only.
GatheredFrame(i, s) ==
  LET frame == SubSeq(s, bp + 1, Len(s))
  IN UpToCap(bt \o <<i>> \o Returns(frame))
Gathered(i, s) == UpToCap(bt \o <<i>> \o Returns(s))

Running == ip \in DOMAIN code /\ err = "none"
Fetch(op) == Running /\ code[ip].op = op
arg == code[ip].arg
mark == code[ip].mark

\* The trace is what the last marked instruction says of the top call.
Evaluated(yes) ==
  trace' = IF mark = NoMark THEN trace
           ELSE Append(SubSeq(trace, 1, Len(trace) - 1),
                       [p |-> mark.p, part |-> mark.part, yes |-> yes])
Stepped == ip' = ip + 1 /\ UNCHANGED <<code, bp, err, bt>>
Fault(e, i, s) ==
  /\ err' = e /\ bt' = Gathered(i, s) /\ ip' = i /\ stack' = s
  /\ UNCHANGED <<code, bp, trace>>
Fail(e) == Fault(e, ip + 1, stack)

\* Get reads of the operands come first, the first that fails ends the run.
Reads(checks, effect) ==
  IF \A i \in DOMAIN checks : checks[i].ok THEN effect
  ELSE Fail(checks[CHOOSE i \in DOMAIN checks :
                     ~checks[i].ok /\ \A j \in 1..(i - 1) : checks[j].ok].err)
Typed(idx, types, e) == [ok |-> Is(idx, types),
                         err |-> IF Valid(idx) THEN e ELSE "STACK_IDX_OOB"]
InStack(idx) == [ok |-> Valid(idx), err |-> "STACK_IDX_OOB"]

Pushes(cell) ==
  IF sp >= MaxStack THEN Fail("STACK_OVERFLOW")
  ELSE Stepped /\ stack' = Append(stack, cell) /\ Evaluated(TRUE)

-----------------------------------------------------------------------------
(* Constants, stack instructions and jumps.                                *)

Push == Fetch("PUSH") /\ Pushes(arg)

\* A condition leaves a boolean, the operand of a loop a dictionary, anything
\* else a value; the reference to a variable leaves its function or a value.
Expr ==
  /\ Fetch("EXPR")
  /\ \E c \in arg :
       IF sp >= MaxStack THEN Fail("STACK_OVERFLOW")
       ELSE Stepped /\ stack' = Append(stack, c) /\ Evaluated(c.t = "B" => c.v = 1)

Funify ==
  /\ Fetch("FUNIFY")
  /\ Reads(<<Typed(-1, Numbers, "EXPECT_DBL")>>,
           Stepped /\ stack' = Put(-1, C("F", At(-1).v)) /\ UNCHANGED trace)

Pop ==
  /\ Fetch("POP")
  /\ IF sp = 0 \/ sp <= bp THEN Fail("STACK_UNDERFLOW")
     ELSE Stepped /\ stack' = Popped(1) /\ UNCHANGED trace

\* A negative index counts from below the operand.
PushStack ==
  /\ Fetch("PUSH_STACK")
  /\ LET loc == IF At(-1).v < 0 THEN At(-1).v - 1 ELSE At(-1).v
     IN Reads(<<Typed(-1, Numbers, "EXPECT_DBL"), InStack(loc)>>,
              Stepped /\ stack' = Put(-1, At(loc)) /\ UNCHANGED trace)

SetStack ==
  /\ Fetch("SET_STACK")
  /\ LET loc == IF At(-2).v < 0 THEN At(-2).v - 2 ELSE At(-2).v
     IN Reads(<<Typed(-2, Numbers, "EXPECT_DBL"), InStack(-1), InStack(loc)>>,
              /\ Stepped /\ UNCHANGED trace
              /\ stack' = SubSeq(Put(loc, At(-1)), 1, sp - 2))

\* TYPE, the number of the type nil, NE: one instruction here, since the test that
\* follows needs as much of the stack as they do.
NotNil ==
  /\ Fetch("NOT_NIL")
  /\ Reads(<<InStack(-1)>>,
           /\ Stepped /\ UNCHANGED trace
           /\ stack' = Put(-1, C("B", IF Is(-1, {"N"}) THEN 0 ELSE 1)))

\* One past the end may be jumped to.
Jumpable(a) == a \in 1..(Len(code) + 1)

Jmp ==
  /\ Fetch("JMP")
  /\ Reads(<<Typed(-1, Numbers, "EXPECT_DBL")>>,
           IF Jumpable(At(-1).v)
           THEN /\ ip' = At(-1).v /\ stack' = Popped(1)
                /\ UNCHANGED <<code, bp, err, bt, trace>>
           ELSE Fault("BYTECODE_FAULT", ip + 1, Popped(1)))

IfNotJmp ==
  /\ Fetch("IF_NOT_JMP")
  /\ Reads(<<Typed(-2, Numbers, "EXPECT_BOOL"), Typed(-1, Numbers, "EXPECT_DBL")>>,
           IF Jumpable(At(-1).v)
           THEN /\ ip' = (IF At(-2).v = 0 THEN At(-1).v ELSE ip + 1)
                /\ stack' = Popped(2)
                /\ UNCHANGED <<code, bp, err, bt, trace>>
           ELSE Fault("BYTECODE_FAULT", ip + 1, Popped(2)))

\* The dictionary may have been changed since: any key beyond the old one, or
\* none, is the next.
DictNextSafe ==
  /\ Fetch("DICTNEXT_SAFE")
  /\ Reads(<<Typed(-1, {"B"}, "EXPECT_BOOL"), Typed(-2, {"N", "S"}, "TREE_ITER_NOT_STR_OR_NUL"),
             Typed(-3, {"T"}, "EXPECT_TREE")>>,
           /\ Stepped
           /\ \/ /\ stack' = [Put(-2, C("N", 0)) EXCEPT ![sp] = C("N", 0)]
                 /\ Evaluated(FALSE)
              \/ \E k \in Keys :
                   /\ k > At(-2).v
                   /\ stack' = [Put(-2, C("S", k)) EXCEPT ![sp] = C("V", k)]
                   /\ Evaluated(TRUE))

-----------------------------------------------------------------------------
(* Calls and returns.                                                      *)

\* calltrailer: s is the stack from which the base and the return address are
\* pushed, n the number of arguments.
Trailer(target, n, s, part) ==
  LET base  == Append(s, C("BP", bp))
      frame == Append(base, C("IP", ip + 1))
  IN IF target \notin DOMAIN code THEN Fault("BYTECODE_FAULT", ip + 1, s)
     ELSE IF Len(s) >= MaxStack THEN Fault("STACK_OVERFLOW", ip + 1, s)
     ELSE IF Len(base) >= MaxStack THEN Fault("STACK_OVERFLOW", ip + 1, base)
     ELSE /\ stack' = frame /\ bp' = Len(frame) - 2 - n /\ ip' = target + 1
          /\ UNCHANGED code
          /\ LET e == IF code[target].op # "FUN_HEADER" THEN "EXPECT_FUN_HEADER"
                      ELSE IF code[target].arg # n THEN "INVALID_ARG_CNT" ELSE "none"
             IN /\ err' = e
                /\ bt' = IF e = "none" THEN bt ELSE Gathered(target + 1, frame)
                /\ trace' = IF e # "none" THEN trace
                            ELSE Append(trace, [p |-> 0, part |-> part, yes |-> TRUE])

Call ==
  /\ Fetch("CALL")
  /\ LET n == At(-1).v
     IN Reads(<<Typed(-1, Numbers, "EXPECT_DBL"),
                [ok |-> n >= 0, err |-> "CALL_ARGCNT_NOT_UINT"],
                Typed(-2 - n, {"F"}, "EXPECT_FUNC")>>,
              Trailer(At(-2 - n).v, n, Popped(1), "act"))

CallIfFun ==
  /\ Fetch("CALL_IF_FUN")
  /\ Reads(<<InStack(-1)>>,
           IF Is(-1, {"F"}) THEN Trailer(At(-1).v, 0, stack, "var")
           ELSE Stepped /\ UNCHANGED <<stack, trace>>)

\* The history of a return: the caller goes on.
Resumed ==
  trace' = IF Len(trace) <= 1 THEN <<>>
           ELSE [SubSeq(trace, 1, Len(trace) - 1) EXCEPT ![Len(trace) - 1] =
                   [@ EXCEPT !.part = "done"]]

\* Function, base, return address and value become the value; the return
\* address is taken before the base is looked at.
Ret ==
  /\ Fetch("RET")
  /\ Reads(<<Typed(-2, {"IP"}, "EXPECT_IP")>>,
           IF ~Is(-3, {"BP"}) THEN Fault("EXPECT_BP", At(-2).v, stack)
           ELSE IF At(-3).v > sp - 4 THEN Fail("abort")
           ELSE /\ ip' = At(-2).v /\ bp' = At(-3).v
                /\ stack' = Append(Popped(4), At(-1))
                /\ Resumed /\ UNCHANGED <<code, err, bt>>)

\* The caller's base is taken early, for the value to replace the function
\* below the frame; then operands, value, locals, frame and arguments are popped.
RetEx2 ==
  /\ Fetch("RETEX2")
  /\ LET loc  == At(-1).v
         n    == At(-2).v
         home == sp - 5 - loc - n
     IN Reads(<<Typed(-1, Numbers, "EXPECT_DBL"), Typed(-2, Numbers, "EXPECT_DBL"),
                [ok |-> loc >= 0, err |-> "RET_LOCVARCNT_NOT_UINT"],
                [ok |-> n >= 0, err |-> "RET_ARGCNT_NOT_UINT"],
                InStack(-5 - loc - n), InStack(-3),
                Typed(-5 - loc, {"BP"}, "EXPECT_BP")>>,
              IF At(-5 - loc).v >= home THEN Fail("abort")
              ELSE /\ bp' = At(-5 - loc).v
                   /\ IF Is(-4 - loc, {"IP"})
                      THEN /\ ip' = At(-4 - loc).v
                           /\ stack' = Append(SubSeq(stack, 1, home - 1), At(-3))
                           /\ Resumed /\ UNCHANGED <<code, err, bt>>
                      ELSE /\ stack' = [Popped(3 + loc) EXCEPT ![home] = At(-3)]
                           /\ err' = "EXPECT_IP" /\ ip' = ip + 1
                           /\ bt' = Gathered(ip + 1, stack') /\ UNCHANGED <<code, trace>>)

Exit == Fetch("EXIT") /\ err' = "EXIT" /\ UNCHANGED <<code, stack, bp, ip, bt, trace>>

Step ==
  \/ Push \/ Expr \/ Funify \/ Pop \/ PushStack \/ SetStack \/ NotNil
  \/ Jmp \/ IfNotJmp \/ DictNextSafe
  \/ Call \/ CallIfFun \/ Ret \/ RetEx2 \/ Exit
=============================================================================
