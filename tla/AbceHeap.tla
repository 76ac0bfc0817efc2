------------------------------ MODULE AbceHeap ------------------------------
(***************************************************************************)
(* The memory manager of the engine: reference counts, the object table    *)
(* with its scratch area, the free cascade and the garbage collector       *)
(* (memblock.c, abce.c, abce.h), driven by the bytecode handlers that move *)
(* references between the stacks, the cache and arrays (engine.c).         *)
(*                                                                         *)
(* The program is single threaded.  A handler is one action up to the      *)
(* first point where it calls the allocator (which may run the collector)  *)
(* or drops a reference (which may start a cascade); the rest of it        *)
(* follows when pc comes back.  abort() is the absence of a step in a      *)
(* state where Aborts holds.                                               *)
(*                                                                         *)
(* A reference is an address in Obj, or Nil for a value of a static type.  *)
(* C indices of the object table start at 0, sequences here at 1.          *)
(***************************************************************************)
EXTENDS Naturals, Sequences, FiniteSets, RefSeqs

CONSTANTS
  Obj,          \* addresses malloc() can return for a memory area
  DynScope,     \* the address of the dynamic scope abce_init creates
  Nil,          \* any value of a static type (number, boolean, nil...)
  MaxStack,     \* bound on sp
  MaxKids,      \* bound on the length of an array
  MaxCache,     \* bound on cachesz
  CStackLimit,  \* cstacklimit
  InitCap,      \* gcblockcap at abce_init
  ScSize,       \* number of hash buckets of a scope (u.sc.size)
  Features      \* which families of operations the embedding program uses

ASSUME HeapAssumption ==
  /\ IsFiniteSet(Obj) /\ DynScope \in Obj /\ Nil \notin Obj
  /\ MaxStack \in Nat /\ MaxKids \in Nat /\ MaxCache \in Nat
  /\ CStackLimit \in Nat /\ InitCap \in Nat \ {0} /\ ScSize \in Nat
  /\ Features \subseteq {"api", "scope", "error", "tight"}

VARIABLES
  kind,      \* what lives at an address
  kids,      \* the references an object holds (u.ar.mbs, u.sc.parent)
  refcnt, locidx,
  tab,       \* gcblockbase[0 .. gcblocksz)
  scratch,   \* gcblockbase[scratchstart .. gcblockcap), its top first
  cap,       \* gcblockcap
  stack, cstack, cache, dynscope,
  errmb,     \* err.mb
  pc,        \* where the C code is
  op,        \* the operation the allocator or a cascade interrupts
  want,      \* the kind of the object being created
  hand,      \* a malloc()ed area only a C local points to
  drops,     \* references the running operation still has to drop
  dying, dn, \* the container being torn down, its references left to drop
  gray,      \* the mark queue of abce_gc
  gci,       \* the loop index of abce_gc
  ret        \* where the collections begun inside a free return to

heap  == <<kind, kids, refcnt, locidx, tab, scratch, cap>>
roots == <<stack, cstack, cache, dynscope, errmb>>
ctl   == <<op, want, hand, drops>>
tear  == <<dying, dn>>
gcl   == <<gray, gci, ret>>
vars  == <<heap, roots, pc, ctl, tear, gcl>>

-----------------------------------------------------------------------------
Ref == Obj \cup {Nil}
\* An array or a buffer (PB) whose storage could not be allocated is bare:
\* its capacity is 0 and its storage pointer NULL.
Bare == {"bare_array", "bare_leaf"}
Arrays == {"array", "bare_array"}
Containers == Arrays \cup {"scope"}
MARK == 0                      \* (size_t)-1 in locidx
Free == {o \in Obj : kind[o] = "free"}
Objects == {o \in Obj : kind[o] \notin {"free", "raw"}}

HeapOK ==
  /\ kind \in [Obj -> {"free", "raw", "leaf", "bare_leaf", "array",
                         "bare_array", "scope"}]
  /\ kids \in [Obj -> Seq(Ref)]
  /\ refcnt \in [Obj -> Nat]
  /\ locidx \in [Obj -> Nat]
  /\ tab \in Seq(Obj) /\ scratch \in Seq(Obj) /\ cap \in Nat
RootsOK ==
  /\ stack \in Seq(Ref) /\ cstack \in Seq(Ref) /\ cache \in Seq(Ref)
  /\ dynscope \in Ref /\ errmb \in Ref
ControlOK ==
  /\ pc \in {"run", "drop", "alloc", "made", "mark", "refdn", "sweep",
             "alloced", "down"}
  /\ op \in {"none", "create", "new", "scope", "append", "free"}
  /\ want \in {"none", "leaf", "bare_leaf", "array", "bare_array", "scope"}
  /\ hand \in Ref /\ drops \in Seq(Ref)
  /\ dying \in Ref /\ dn \in Seq(Ref)
  /\ gray \subseteq Obj /\ gci \in Nat \ {0}
  /\ ret \in Seq([pc : {"drop", "sweep"}, gci : Nat \ {0}])

\* Every variable has its type: no count falls below zero, no index below
\* the first entry.
TypeOK == HeapOK /\ RootsOK /\ ControlOK

(***************************************************************************)
(* abce_init: the dynamic scope exists, referenced by abce->dynscope and   *)
(* by the cache.                                                           *)
(***************************************************************************)
Init ==
  /\ kind = [o \in Obj |-> IF o = DynScope THEN "scope" ELSE "free"]
  /\ kids = [o \in Obj |-> <<>>]
  /\ refcnt = [o \in Obj |-> IF o = DynScope THEN 2 ELSE 0]
  /\ locidx = [o \in Obj |-> IF o = DynScope THEN 1 ELSE 0]
  /\ tab = <<DynScope>> /\ scratch = <<>> /\ cap = InitCap
  /\ stack = <<>> /\ cstack = <<>> /\ cache = <<DynScope>>
  /\ dynscope = DynScope /\ errmb = Nil
  /\ pc = "run" /\ op = "none" /\ want = "none" /\ hand = Nil
  /\ drops = <<>> /\ dying = Nil /\ dn = <<>>
  /\ gray = {} /\ gci = 1 /\ ret = <<>>

-----------------------------------------------------------------------------
(* Reference counts, and the object table.                                 *)

\* abce_mb_refup
Up(rc, o) == IF o = Nil THEN rc ELSE [rc EXCEPT ![o] = @ + 1]

\* abce_try_grow_gcblock, called where the table is found full (mutant: where
\* it has already overrun the block)
GrownCapLate == IF Len(tab) > cap THEN 2 * cap ELSE cap
GrownCap == IF Len(tab) >= cap THEN 2 * cap ELSE cap

\* abce_setup_mb_for_gc
SetupForGc(o) ==
  /\ tab' = Append(tab, o)
  /\ locidx' = [locidx EXCEPT ![o] = Len(tab) + 1]
  /\ cap' = GrownCap

(***************************************************************************)
(* abce_maybe_mv_obj_to_scratch, which is also how abce_mb_gc_free starts: *)
(* the last reference to an object takes it out of the table; a leaf is    *)
(* given back to the allocator, a container waits in the scratch area.     *)
(* (The locidx it leaves behind is never read again: 0 here.)              *)
(***************************************************************************)
RefDnStatic(o) == o = Nil /\ UNCHANGED heap

RefDnShared(o) ==
  /\ o # Nil /\ refcnt[o] > 1
  /\ refcnt' = [refcnt EXCEPT ![o] = @ - 1]
  /\ UNCHANGED <<kind, kids, locidx, tab, scratch, cap>>

LastRefEarly(o) == refcnt[o] \in {1, 2}     \* mutant: one reference too early
LastRef(o) == refcnt[o] = 1

\* The last entry of the table moves to the place of o.
MovedIndexStale(o) == [locidx EXCEPT ![o] = 0] \* mutant: it keeps its old index
MovedIndex(o) == [locidx EXCEPT ![tab[Len(tab)]] = locidx[o], ![o] = 0]

RetireLost(o) ==                   \* mutant: not put in the scratch area
  kind' = [kind EXCEPT ![o] = IF @ \in Containers THEN @ ELSE "free"]
  /\ UNCHANGED scratch
Retire(o) ==
  IF kind[o] \in Containers
  THEN scratch' = <<o>> \o scratch /\ UNCHANGED kind
  ELSE kind' = [kind EXCEPT ![o] = "free"] /\ UNCHANGED scratch

RefDnLast(o) ==
  /\ o # Nil /\ LastRef(o)
  /\ refcnt' = [refcnt EXCEPT ![o] = 0]
  /\ tab' = SwapRemove(tab, locidx[o])
  /\ locidx' = MovedIndex(o)
  /\ Retire(o)
  /\ UNCHANGED <<kids, cap>>

RefDn(o) == RefDnStatic(o) \/ RefDnShared(o) \/ RefDnLast(o)

-----------------------------------------------------------------------------
(* The cascade of abce_mb_gc_free; the operation's drops go one by one.    *)

Dropping == pc = "drop"
DropNext ==
  /\ Dropping /\ dn = <<>> /\ dying = Nil /\ scratch = <<>> /\ drops # <<>>
  /\ RefDn(Head(drops))
  /\ drops' = Tail(drops)
  /\ UNCHANGED <<roots, pc, op, want, hand, tear, gcl>>

\* Mutant: the container is read but not taken off the scratch area.
ScratchKept == scratch
ScratchPopped == Tail(scratch)
PopScratch ==
  /\ Dropping /\ dn = <<>> /\ dying = Nil /\ scratch # <<>>
  /\ dying' = Head(scratch)
  /\ scratch' = ScratchPopped
  /\ dn' = kids[Head(scratch)]
  /\ kids' = [kids EXCEPT ![Head(scratch)] = <<>>]
  /\ UNCHANGED <<kind, refcnt, locidx, tab, cap, roots, pc, ctl, gcl>>

DropKid ==
  /\ Dropping /\ dn # <<>>
  /\ RefDn(Head(dn))
  /\ dn' = Tail(dn)
  /\ UNCHANGED <<roots, pc, ctl, dying, gcl>>

FreeDying ==
  /\ Dropping /\ dn = <<>> /\ dying # Nil
  /\ kind' = [kind EXCEPT ![dying] = "free"]
  /\ dying' = Nil
  /\ UNCHANGED <<kids, refcnt, locidx, tab, scratch, cap, roots, pc, ctl,
                 dn, gcl>>

\* abce_free calls abce_gc once everything is dropped.
DropDone ==
  /\ Dropping /\ dn = <<>> /\ dying = Nil /\ scratch = <<>> /\ drops = <<>>
  /\ pc' = IF op = "free" THEN "mark" ELSE "run"
  /\ UNCHANGED <<heap, roots, ctl, tear, gcl>>

\* The running operation leaves these references to be dropped.
Release(s) == drops' = s /\ pc' = "drop"

-----------------------------------------------------------------------------
(***************************************************************************)
(* Bytecode handlers that allocate nothing.  An engine run starts with a   *)
(* clear error register and ends at the first error: the embedding program *)
(* frees the error before it runs the engine again.                        *)
(***************************************************************************)
Idle == pc = "run"
Engine == Idle /\ errmb = Nil
N == Len(stack)
At(d) == stack[N - d + 1]             \* the operand at stack index -d
Below(d) == SubSeq(stack, 1, N - d)   \* the stack without its top d slots
IsA(o, k) == o # Nil /\ kind[o] = k

PushNil ==
  /\ Engine /\ N < MaxStack
  /\ stack' = Append(stack, Nil)
  /\ UNCHANGED <<heap, cstack, cache, dynscope, errmb, pc, ctl, tear, gcl>>

Pop ==
  /\ Engine /\ N >= 1
  /\ stack' = Below(1)
  /\ Release(<<At(1)>>)
  /\ UNCHANGED <<heap, cstack, cache, dynscope, errmb, op, want, hand, tear,
                 gcl>>

\* An operand of the wrong type: abce_mb_errreplace_noinline, then an error.
TypeError(d) ==
  /\ Engine /\ "error" \in Features /\ N >= d /\ At(d) # Nil
  /\ errmb' = At(d)
  /\ refcnt' = Up(refcnt, At(d))
  /\ UNCHANGED <<kind, kids, locidx, tab, scratch, cap, stack, cstack, cache,
                 dynscope, pc, ctl, tear, gcl>>

\* The program that embeds the engine calls abce_err_free.
ErrFree ==
  /\ Idle /\ errmb # Nil
  /\ errmb' = Nil
  /\ Release(<<errmb>>)
  /\ UNCHANGED <<heap, stack, cstack, cache, dynscope, op, want, hand, tear,
                 gcl>>

\* abce_mb_stackreplace(-1, r) over a number
ReplaceTop(r) ==
  /\ Engine /\ N >= 1 /\ At(1) = Nil
  /\ stack' = Append(Below(1), r)
  /\ refcnt' = Up(refcnt, r)
  /\ UNCHANGED <<kind, kids, locidx, tab, scratch, cap, cstack, cache,
                 dynscope, errmb, pc, ctl, tear, gcl>>

PushStack == \E a \in 1 .. N - 1 : ReplaceTop(stack[a])
PushFromCache ==
  /\ "scope" \in Features
  /\ \E i \in 1 .. Len(cache) : ReplaceTop(cache[i])

GetScopeDyn ==
  /\ Engine /\ "scope" \in Features /\ N < MaxStack
  /\ stack' = Append(stack, dynscope)
  /\ refcnt' = Up(refcnt, dynscope)
  /\ UNCHANGED <<kind, kids, locidx, tab, scratch, cap, cstack, cache,
                 dynscope, errmb, pc, ctl, tear, gcl>>

\* abce_mb_refreplace of a slot that may be one of the two popped after it
SetStack ==
  /\ Engine /\ N >= 2 /\ At(2) = Nil
  /\ \E a \in 1 .. N :
       LET s == [stack EXCEPT ![a] = At(1)]
       IN  /\ stack' = SubSeq(s, 1, N - 2)
           /\ Release(<<stack[a], s[N], s[N - 1]>>)
  /\ refcnt' = Up(refcnt, At(1))
  /\ UNCHANGED <<kind, kids, locidx, tab, scratch, cap, cstack, cache,
                 dynscope, errmb, op, want, hand, tear, gcl>>

ExchangeTop ==
  /\ Engine /\ N >= 2 /\ At(1) = Nil
  /\ \E a \in 1 .. N - 1 :
       stack' = [i \in 1 .. N - 1 |->
                   IF i = a THEN At(2) ELSE IF i = N - 1 THEN stack[a]
                   ELSE stack[i]]
  /\ UNCHANGED <<heap, cstack, cache, dynscope, errmb, pc, ctl, tear, gcl>>

\* The element is counted before the operands go (mutant: it is not).
CountedKidNot(x) == refcnt
CountedKid(x) == Up(refcnt, x)
ListGet ==
  /\ Engine /\ N >= 2 /\ At(1) = Nil /\ IsA(At(2), "array")
  /\ \E i \in DOMAIN kids[At(2)] :
       /\ stack' = Append(Below(2), kids[At(2)][i])
       /\ refcnt' = CountedKid(kids[At(2)][i])
  /\ Release(<<At(2), At(1)>>)
  /\ UNCHANGED <<kind, kids, locidx, tab, scratch, cap, cstack, cache,
                 dynscope, errmb, op, want, hand, tear, gcl>>

ListSet ==
  /\ Engine /\ N >= 3 /\ At(2) = Nil /\ IsA(At(3), "array")
  /\ \E i \in DOMAIN kids[At(3)] :
       /\ kids' = [kids EXCEPT ![At(3)][i] = At(1)]
       /\ Release(<<kids[At(3)][i], At(1), At(2), At(3)>>)
  /\ stack' = Below(3)
  /\ refcnt' = Up(refcnt, At(1))
  /\ UNCHANGED <<kind, locidx, tab, scratch, cap, cstack, cache, dynscope,
                 errmb, op, want, hand, tear, gcl>>

(***************************************************************************)
(* LISTPOP saves the element on the C stack, so it needs room there; the   *)
(* element's count is as before when the C stack slot is popped again.     *)
(***************************************************************************)
LastKid(a) == kids[a][Len(kids[a])]
\* The count of the element after the C stack slot is popped (mutant: the
\* slot is left without dropping it).
PoppedCountLeak(x) == Up(refcnt, x)
PoppedCount(x) == refcnt
ListPop ==
  /\ Engine /\ N >= 1 /\ IsA(At(1), "array") /\ kids[At(1)] # <<>>
  /\ Len(cstack) < CStackLimit
  /\ stack' = Append(Below(1), LastKid(At(1)))
  /\ kids' = [kids EXCEPT ![At(1)] = SubSeq(@, 1, Len(@) - 1)]
  /\ refcnt' = PoppedCount(LastKid(At(1)))
  /\ Release(<<At(1)>>)
  /\ UNCHANGED <<kind, locidx, tab, scratch, cap, cstack, cache, dynscope,
                 errmb, op, want, hand, tear, gcl>>

ListPopOverflow ==
  /\ Engine /\ N >= 1 /\ IsA(At(1), "array") /\ kids[At(1)] # <<>>
  /\ Len(cstack) >= CStackLimit
  /\ errmb' = LastKid(At(1))
  /\ refcnt' = Up(refcnt, LastKid(At(1)))
  /\ UNCHANGED <<kind, kids, locidx, tab, scratch, cap, stack, cstack, cache,
                 dynscope, pc, ctl, tear, gcl>>

-----------------------------------------------------------------------------
(* The C API on the C stack.                                               *)

\* abce_push_c
PushC ==
  /\ Idle /\ "api" \in Features /\ cstack # <<>> /\ N < MaxStack
  /\ stack' = Append(stack, cstack[Len(cstack)])
  /\ refcnt' = Up(refcnt, cstack[Len(cstack)])
  /\ UNCHANGED <<kind, kids, locidx, tab, scratch, cap, cstack, cache,
                 dynscope, errmb, pc, ctl, tear, gcl>>

\* abce_cpop
CPop ==
  /\ Idle /\ "api" \in Features /\ cstack # <<>>
  /\ cstack' = SubSeq(cstack, 1, Len(cstack) - 1)
  /\ Release(<<cstack[Len(cstack)]>>)
  /\ UNCHANGED <<heap, stack, cache, dynscope, errmb, op, want, hand, tear,
                 gcl>>

-----------------------------------------------------------------------------
(***************************************************************************)
(* Operations that allocate.  Each begins in "alloc"; the allocator may    *)
(* run the collector there (its growth thresholds, its byte cap and        *)
(* in_engine are a choice here), after which pc is "alloced".              *)
(***************************************************************************)
Begin(name, k) ==
  /\ pc' = "alloc" /\ op' = name /\ want' = k
  /\ UNCHANGED <<heap, roots, hand, drops, tear, gcl>>

\* abce_mb_cpush_create_array, abce_mb_cpush_create_pb
CPushCreate(k) == Idle /\ "api" \in Features /\ Begin("create", k)

\* PUSH_NEW_ARRAY, PUSH_NEW_PB
PushNew(k) == Engine /\ N < MaxStack /\ Begin("new", k)

\* SCOPE_NEW: the parent at -2, a boolean at -1
ScopeNew ==
  /\ Engine /\ "scope" \in Features /\ N >= 2
  /\ At(1) = Nil /\ IsA(At(2), "scope") /\ Len(cache) < MaxCache
  /\ Begin("scope", "scope")

\* APPEND_MAINTAIN: the array at -2, the item at -1
Appendable ==
  /\ N >= 2 /\ At(2) # Nil /\ kind[At(2)] \in Arrays
  /\ Len(kids[At(2)]) < MaxKids

StoreItemUncounted ==               \* mutant: no reference for the array
  /\ kids' = [kids EXCEPT ![At(2)] = Append(@, At(1))]
  /\ stack' = Below(1)
  /\ Release(<<At(1)>>)
  /\ UNCHANGED refcnt
StoreItem ==
  /\ kids' = [kids EXCEPT ![At(2)] = Append(@, At(1))]
  /\ refcnt' = Up(refcnt, At(1))
  /\ stack' = Below(1)
  /\ Release(<<At(1)>>)

AppendRoom ==
  /\ Engine /\ Appendable /\ IsA(At(2), "array") /\ StoreItem
  /\ UNCHANGED <<kind, locidx, tab, scratch, cap, cstack, cache, dynscope,
                 errmb, op, want, hand, tear, gcl>>

AppendFull == Engine /\ Appendable /\ Begin("append", "none")

Allocating == pc \in {"alloc", "alloced"}

Finish == op' = "none" /\ want' = "none" /\ hand' = Nil

\* No memory for the area: the error has no object, the handler gives up.
NoMem ==
  /\ Allocating /\ hand = Nil /\ op \in {"create", "new", "scope"}
  /\ cap' \in {cap, GrownCap}
  /\ pc' = "run" /\ Finish
  /\ UNCHANGED <<kind, kids, refcnt, locidx, tab, scratch, roots, drops, tear,
                 gcl>>

\* malloc() of the area; an array or a buffer then allocates its storage.
AllocArea ==
  /\ Allocating /\ hand = Nil /\ op \in {"create", "new", "scope"}
  /\ \E o \in Free : hand' = o /\ kind' = [kind EXCEPT ![o] = "raw"]
  /\ cap' = GrownCap
  /\ pc' = IF want = "scope" THEN "made" ELSE "alloc"
  /\ UNCHANGED <<kids, refcnt, locidx, tab, scratch, roots, op, want, drops,
                 tear, gcl>>

AllocStorage ==
  /\ Allocating /\ hand # Nil
  /\ cap' = GrownCap
  /\ pc' = "made"
  /\ UNCHANGED <<kind, kids, refcnt, locidx, tab, scratch, roots, ctl, tear,
                 gcl>>

\* Without memory for the storage: capacity 0, "the simplest way forward".
StorageFails ==
  /\ Allocating /\ hand # Nil
  /\ cap' \in {cap, GrownCap}
  /\ \/ want = "array" /\ want' = "bare_array"
     \/ want = "leaf" /\ want' = "bare_leaf"
  /\ pc' = "made"
  /\ UNCHANGED <<kind, kids, refcnt, locidx, tab, scratch, roots, op, hand,
                 drops, tear, gcl>>

\* abce_mb_array_append_grow; a bare array gets its storage here.
GrowAppend ==
  /\ Allocating /\ op = "append"
  /\ StoreItem
  /\ kind' = [kind EXCEPT ![At(2)] = "array"]
  /\ Finish
  /\ cap' \in {cap, GrownCap}
  /\ UNCHANGED <<locidx, tab, scratch, cstack, cache, dynscope, errmb, tear,
                 gcl>>

\* abce_mb_array_append_grow: errreplace(array); the item is popped anyway.
GrowFail ==
  /\ Allocating /\ op = "append"
  /\ errmb' = At(2)
  /\ refcnt' = Up(refcnt, At(2))
  /\ stack' = Below(1)
  /\ Release(<<errmb, At(1)>>)
  /\ Finish
  /\ cap' \in {cap, GrownCap}
  /\ UNCHANGED <<kind, kids, locidx, tab, scratch, cstack, cache,
                 dynscope, tear, gcl>>

(***************************************************************************)
(* The new object enters the table, then "this is dangerous.  Quickly,     *)
(* store it so the garbage collector sees it": it is pushed on the C stack *)
(* and the C local is dropped, no allocation in between.                   *)
(***************************************************************************)
Making(name) == pc = "made" /\ op = name
CRoom == Len(cstack) < CStackLimit
Made(rc) ==
  /\ SetupForGc(hand)
  /\ kind' = [kind EXCEPT ![hand] = want]
  /\ refcnt' = rc
  /\ Finish
  /\ UNCHANGED <<scratch, dynscope, tear, gcl>>
Counted(n) == [refcnt EXCEPT ![hand] = n]

CreateDone ==
  /\ Making("create") /\ CRoom
  /\ Made(Counted(1))
  /\ cstack' = Append(cstack, hand)
  /\ pc' = "run"
  /\ UNCHANGED <<kids, stack, cache, errmb, drops>>

\* abce_push_c, then abce_cpop
NewDone ==
  /\ Making("new") /\ CRoom
  /\ Made(Counted(1))
  /\ stack' = Append(stack, hand)
  /\ pc' = "run"
  /\ UNCHANGED <<kids, cstack, cache, errmb, drops>>

\* The C stack is full: the error register takes the object.
CreateOverflow ==
  /\ Making("create") \/ Making("new")
  /\ ~CRoom
  /\ Made(Counted(1))
  /\ errmb' = hand
  /\ Release(<<errmb>>)
  /\ UNCHANGED <<kids, stack, cstack, cache>>

\* abce_mb_create_scope: the parent is counted, the cache pins the scope.
ParentUncounted(n) == Counted(n)    \* mutant: the parent is not counted
ParentCounted(n) == Up(Counted(n), At(2))
MadeScope(n) ==
  /\ Made(ParentCounted(n))
  /\ kids' = [kids EXCEPT ![hand] = <<At(2)>>]
  /\ cache' = Append(cache, hand)
  /\ UNCHANGED cstack

ScopeDone ==
  /\ Making("scope") /\ CRoom
  /\ MadeScope(1)
  /\ stack' = Append(Below(2), Nil)
  /\ Release(<<At(2), At(1)>>)
  /\ UNCHANGED errmb

ScopeOverflow ==
  /\ Making("scope") /\ ~CRoom
  /\ MadeScope(2)
  /\ errmb' = hand
  /\ Release(<<errmb>>)
  /\ UNCHANGED stack

-----------------------------------------------------------------------------
(***************************************************************************)
(* abce_gc: mark from the roots, take the references of every unmarked     *)
(* object off the counts, sweep the table, unmark.                         *)
(***************************************************************************)
RootSet ==
  (Range(stack) \cup Range(cstack) \cup Range(cache)
     \cup {dynscope, errmb}) \ {Nil}
Marked(o) == locidx[o] = MARK
Unmarked(o) == locidx[o] # MARK

GcBegin ==
  /\ pc = "alloc"
  /\ pc' = "mark"
  /\ UNCHANGED <<heap, roots, ctl, tear, gcl>>

\* abce_enqueue_stackentry
NewlyGrayAll(S) == {p \in S : kind[p] \in Containers}  \* mutant: marked ones too
NewlyGray(S) == {p \in S : Unmarked(p) /\ kind[p] \in Containers}
Enqueue(S, done) ==
  /\ locidx' = [o \in Obj |-> IF o \in S THEN MARK ELSE locidx[o]]
  /\ gray' = (gray \ done) \cup NewlyGray(S)

MarkRoots ==
  /\ pc = "mark" /\ \E o \in RootSet : Unmarked(o)
  /\ Enqueue(RootSet, {})
  /\ UNCHANGED <<kind, kids, refcnt, tab, scratch, cap, roots, pc, ctl, tear,
                 gci, ret>>

MarkKids ==
  /\ pc = "mark" /\ \E o \in gray :
       LET S == Range(kids[o]) \ {Nil}
       IN  Enqueue(S, {o})
  /\ UNCHANGED <<kind, kids, refcnt, tab, scratch, cap, roots, pc, ctl, tear,
                 gci, ret>>

MarkDone ==
  /\ pc = "mark" /\ gray = {} /\ \A o \in RootSet : Marked(o)
  /\ pc' = "refdn" /\ gci' = 1
  /\ UNCHANGED <<heap, roots, ctl, tear, gray, ret>>

\* "Set all references to 0 for unmarked objects and what they may refer"
CountsOff(o) ==
  IF Marked(o) THEN refcnt
  ELSE [p \in Obj |-> refcnt[p] - Occurrences(kids[o], p)]
GcRefDn ==
  /\ pc = "refdn" /\ gci <= Len(tab)
  /\ Unmarked(tab[gci]) => \A o \in Obj : refcnt[o] >= Occurrences(kids[tab[gci]], o)
  /\ refcnt' = CountsOff(tab[gci])
  /\ gci' = gci + 1
  /\ UNCHANGED <<kind, kids, locidx, tab, scratch, cap, roots, pc, ctl, tear,
                 gray, ret>>

GcRefDnDone ==
  /\ pc = "refdn" /\ gci > Len(tab)
  /\ pc' = "sweep" /\ gci' = 1
  /\ UNCHANGED <<heap, roots, ctl, tear, gray, ret>>

SweepMarked ==
  /\ pc = "sweep" /\ gci <= Len(tab) /\ Marked(tab[gci])
  /\ gci' = gci + 1
  /\ UNCHANGED <<heap, roots, pc, ctl, tear, gray, ret>>

(***************************************************************************)
(* "All unmarked objects must be freed."  The last object of the table     *)
(* takes the freed one's place and is looked at next -- except that the    *)
(* loop over the buckets of a scope runs on the same variable i.           *)
(***************************************************************************)
SweptIndexSkip(o) == gci + 1        \* mutant: the moved object is skipped
SweptIndexBack(o) == gci - 1        \* mutant: one step back too many
SweptIndex(o) == IF kind[o] = "scope" THEN ScSize + 1 ELSE gci
Swept(o) ==
  LET last == tab[Len(tab)]
  IN  /\ tab' = SwapRemove(tab, gci)
      /\ locidx' = [locidx EXCEPT
                      ![last] = IF Marked(last) THEN MARK ELSE gci,
                      ![o] = 0]
      /\ kind' = [kind EXCEPT ![o] = "free"]
      /\ kids' = [kids EXCEPT ![o] = <<>>]
Sweepable ==
  /\ pc = "sweep" /\ gci <= Len(tab) /\ Unmarked(tab[gci])
  /\ refcnt[tab[gci]] = 0 /\ locidx[tab[gci]] = gci
SweepFree ==
  /\ Sweepable
  /\ Swept(tab[gci])
  /\ gci' = SweptIndex(tab[gci])
  /\ UNCHANGED <<refcnt, scratch, cap, roots, pc, ctl, tear, gray, ret>>

IndicesMarked == locidx                 \* mutant: the marks stay
Indices ==
  [o \in Obj |-> IF \E i \in DOMAIN tab : tab[i] = o
                 THEN CHOOSE i \in DOMAIN tab : tab[i] = o ELSE locidx[o]]
Unmark ==
  /\ pc = "sweep" /\ gci > Len(tab) /\ ret = <<>>
  /\ locidx' = Indices
  /\ pc' = IF op = "free" THEN "down" ELSE "alloced"
  /\ gci' = 1
  /\ UNCHANGED <<kind, kids, refcnt, tab, scratch, cap, roots, ctl, tear,
                 gray, ret>>

-----------------------------------------------------------------------------
(***************************************************************************)
(* Freeing storage that is NULL with capacity 0 is alloc(NULL, 0, 0): the  *)
(* allocator takes it for an allocation of one byte, and where its         *)
(* thresholds are met it runs abce_gc in the middle of the cascade or of   *)
(* the sweep (which moves the thresholds only after abce_gc is back).      *)
(* Drops of an operation that has more to drop do not do so here: some     *)
(* handlers still have the rest on the stack then.  While abce_free drops, *)
(* in_engine is 0.                                                         *)
(***************************************************************************)
Tight == "tight" \in Features
Reenter(place, i) ==
  /\ pc' = "mark"
  /\ ret' = <<[pc |-> place, gci |-> i]>> \o ret
LastDrop == Dropping /\ drops = <<>> /\ op # "free"

\* abce_mb_gc_free, the storage of an array
FreeBareArray ==
  /\ Tight /\ LastDrop /\ dn = <<>> /\ IsA(dying, "bare_array")
  /\ kind' = [kind EXCEPT ![dying] = "free"]
  /\ dying' = Nil
  /\ Reenter("drop", gci)
  /\ UNCHANGED <<kids, refcnt, locidx, tab, scratch, cap, roots, ctl, dn, gray,
                 gci>>

\* abce_maybe_mv_obj_to_scratch_tail, the storage of a buffer in an array
DropBareKid ==
  /\ Tight /\ LastDrop /\ dn # <<>> /\ IsA(Head(dn), "bare_leaf")
  /\ RefDnLast(Head(dn))
  /\ dn' = Tail(dn)
  /\ Reenter("drop", gci)
  /\ UNCHANGED <<roots, ctl, dying, gray, gci>>

\* The same of the operation's last reference.
DropBareNext ==
  /\ Tight /\ Dropping /\ op # "free"
  /\ dn = <<>> /\ dying = Nil /\ scratch = <<>> /\ Len(drops) = 1
  /\ IsA(Head(drops), "bare_leaf")
  /\ RefDnLast(Head(drops))
  /\ drops' = <<>>
  /\ Reenter("drop", gci)
  /\ UNCHANGED <<roots, op, want, hand, tear, gray, gci>>

SweepBare ==
  /\ Tight /\ Sweepable /\ kind[tab[gci]] \in Bare
  /\ Swept(tab[gci])
  /\ Reenter("sweep", gci)
  /\ UNCHANGED <<refcnt, scratch, cap, roots, ctl, tear, gray, gci>>

\* The inner collection has unmarked every object and returns.
UnmarkInner ==
  /\ pc = "sweep" /\ gci > Len(tab) /\ ret # <<>>
  /\ locidx' = Indices
  /\ pc' = Head(ret).pc /\ gci' = Head(ret).gci
  /\ ret' = Tail(ret)
  /\ UNCHANGED <<kind, kids, refcnt, tab, scratch, cap, roots, ctl, tear,
                 gray>>

-----------------------------------------------------------------------------
\* abce_free: drop every root in this order, then collect.
RootRefs == <<dynscope>> \o cache \o stack \o cstack \o <<errmb>>
AbceFree ==
  /\ Idle
  /\ op' = "free"
  /\ Release(RootRefs)
  /\ stack' = <<>> /\ cstack' = <<>> /\ cache' = <<>>
  /\ dynscope' = Nil /\ errmb' = Nil
  /\ UNCHANGED <<heap, want, hand, tear, gcl>>

Handler ==
  \/ PushNil \/ Pop \/ PushStack \/ PushFromCache \/ GetScopeDyn
  \/ SetStack \/ ExchangeTop \/ ListGet \/ ListSet \/ ListPop
  \/ ListPopOverflow \/ ScopeNew \/ AppendRoom \/ AppendFull
  \/ \E d \in 1 .. 3 : TypeError(d)
  \/ \E k \in {"leaf", "array"} : PushNew(k)
Api ==
  \/ PushC \/ CPop \/ ErrFree \/ AbceFree
  \/ \E k \in {"leaf", "array"} : CPushCreate(k)
Alloc ==
  \/ GcBegin \/ NoMem \/ AllocArea \/ AllocStorage \/ StorageFails
  \/ GrowAppend \/ GrowFail
  \/ CreateDone \/ NewDone \/ CreateOverflow \/ ScopeDone \/ ScopeOverflow
Cascade == DropNext \/ PopScratch \/ DropKid \/ FreeDying \/ DropDone
Collect ==
  \/ MarkRoots \/ MarkKids \/ MarkDone \/ GcRefDn \/ GcRefDnDone
  \/ SweepMarked \/ SweepFree \/ Unmark

Inside ==
  FreeBareArray \/ DropBareKid \/ DropBareNext \/ SweepBare \/ UnmarkInner

Next == Handler \/ Api \/ Alloc \/ Cascade \/ Collect \/ Inside

\* An operation of the engine, once begun, runs to its end.
Spec == Init /\ [][Next]_vars
FairSpec == Spec /\ WF_vars(Alloc \/ Cascade \/ Collect \/ Inside)

-----------------------------------------------------------------------------
(* Properties.                                                             *)

Collecting == pc \in {"mark", "refdn", "sweep"}

\* The reference the C code is about to drop.
Target ==
  IF dn # <<>> THEN Head(dn)
  ELSE IF dying = Nil /\ scratch = <<>> /\ drops # <<>> THEN Head(drops)
  ELSE Nil

\* The places where the memory manager calls abort().
Aborts ==
  \/ Dropping /\ Target # Nil /\ refcnt[Target] = 0
  \/ /\ pc = "refdn" /\ gci <= Len(tab) /\ Unmarked(tab[gci])
     /\ \E o \in Obj : refcnt[o] < Occurrences(kids[tab[gci]], o)
  \/ /\ pc = "sweep" /\ gci <= Len(tab) /\ Unmarked(tab[gci])
     /\ refcnt[tab[gci]] # 0 \/ locidx[tab[gci]] # gci

\* No interleaving of handlers, cascades and collections makes the memory
\* manager call abort(): no object is dropped once too often, and at the
\* sweep every unmarked object has count 0 and knows its table index.
\* With feature tight it is false: a collection begun inside a cascade finds
\* counts from containers that are in the scratch area, or half dismantled,
\* and one begun inside a sweep takes the counts off a second time.
NoAbort == ~Aborts

\* Swap-removal by drops, by cascades and by the sweep keeps the table and
\* the back pointers in step: an object knows its own index in
\* gcblockbase, unless the collector has marked it.
TableConsistent ==
  \A i \in DOMAIN tab :
    locidx[tab[i]] = i \/ (Collecting /\ locidx[tab[i]] = MARK)

\* The scratch area grows down into the same block the table grows up in;
\* they never meet, so a cascade cannot overwrite a live table entry.
ScratchFits == Len(tab) + Len(scratch) <= cap

\* Every object is in exactly one place: once in the table, or once in the
\* scratch area, or in the hands of the cascade that tears it down.
PlacedOnce ==
  \A o \in Objects :
    Occurrences(tab, o) + Occurrences(scratch, o)
      + Occurrences(<<dying>>, o) = 1

\* abce_check_heap, "Explained refcnt %zu, actual %zu": between the sweeps
\* of the collector the count of an object is the number of places that
\* refer to it, the references a running cascade still holds included.
KidSlots(o) ==
  UNION {{p} \X {i \in DOMAIN kids[p] : kids[p][i] = o} : p \in Obj}
References(o) ==
  Cardinality(KidSlots(o))
  + Occurrences(stack, o) + Occurrences(cstack, o) + Occurrences(cache, o)
  + Occurrences(<<dynscope, errmb>>, o)
  + Occurrences(drops, o) + Occurrences(dn, o)
InsideSweep == \E i \in DOMAIN ret : ret[i].pc = "sweep"
RefcntExplained ==
  pc \notin {"refdn", "sweep", "down"} /\ ~InsideSweep =>
    \A o \in Objects : refcnt[o] = References(o)

\* No reference a program can follow leads to freed memory: not from the
\* roots, not from an object that can be followed itself.  (Of the objects
\* an outer sweep has marked it says nothing once feature tight lets an
\* inner collection unmark them.)
NoDangling ==
  /\ RootSet \cup Range(drops) \cup Range(dn) \subseteq Objects \cup {Nil}
  /\ \A o \in Objects :
       (pc # "down" /\ (pc = "sweep" => Marked(o)))
         => Range(kids[o]) \subseteq Objects \cup {Nil}

Closed(S) == \A o \in S : Range(kids[o]) \subseteq S \cup {Nil}
Reachable ==
  {o \in Obj : \A S \in SUBSET Obj : RootSet \subseteq S /\ Closed(S) => o \in S}

\* A finished collection has kept exactly what the program can reach:
\* cycles among arrays are gone, whatever their reference counts were.
CollectedExactly == pc = "alloced" => Objects = Reachable

\* After abce_free nothing is left in the table.
AllFreedAtExit == pc = "down" => tab = <<>>

\* A collection, once begun, ends; so does a cascade.  The C code runs on.
CollectionEnds == Collecting ~> (pc \in {"alloced", "down"})
CascadeEnds == Dropping ~> (pc \in {"run", "mark"})

\* The memory manager implements the store it promises.
Store == INSTANCE AbceStore
  WITH live  <- Objects,
       held  <- RootSet,
       edges <- [o \in Obj |-> Range(kids[o]) \ {Nil}]
StoreSpec == Store!Spec
=============================================================================
