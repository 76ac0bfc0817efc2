# A TLA+ model of abce

abce is a byte code engine in C: a stack machine with garbage-collected arrays,
dictionaries, scopes and buffers, and a compiler (Amyplan) that targets it.
The program is single threaded. What makes it hard is not concurrency between
threads but the interleaving, inside one thread, of byte code handlers with
the reference-count cascades and the collections that any of their allocations
may start, the long sequences of legal instructions that shape the heap, and
two JSON parsers that are left and entered again in the middle of a token.

## The system

| component | state | operations | correct when |
|---|---|---|---|
| memory manager (`memblock.c`, `abce.c`, `abce.h`) | `refcnt` and `locidx` of every area, `gcblockbase` (table from below, scratch area from above), `gcblockcap` | `refup`, `refdn`, the free cascade `abce_mb_gc_free`, `abce_gc`, object creation, `abce_free` | counts equal the references; the table knows every object and every object its index; nothing reachable is freed; all garbage is |
| stacks and registers (`abce.h`, `abce.c`) | `stackbase/sp/bp`, `cstackbase/csp`, `cachebase`, `dynscope`, `err`, `oneblock`, `btbase` | push, pop, replace, exchange, double the stack | every reference is counted; pointers into a stack do not outlive it |
| engine (`engine.c`) | `ip`, `bp`, `ins` | one handler per instruction; call, return, exception return | a return restores the caller's frame; an error leaves a consistent state |
| list and dictionary instructions (`engine.c`, `abcetrees.h`, `abcerbtree.c`) | arrays, red-black trees with an entry count | append, insert, delete, iterate, duplicate | as the abstract sequence or map |
| scopes (`abcescopes.c`) | hash buckets of red-black trees, `parent`, `holey` | lookup, replace, put, maybe-old put | lookup finds the innermost definition |
| jmalloc (`abcejmalloc.c`) | free lists by size class | allocate, free, refill | no block is handed out twice |
| JSON parsers (`abce_caj.c`): a push parser that calls a handler, a pull parser that returns events | mode, key stack, partial token, lexer of numbers; of the pull parser also the buffer and the place to go on from | feed a chunk; set a buffer, get an event | the cut of the input into chunks does not matter; events walk through a tree; exactly the JSON texts end well |
| JSON writer (`abce_caj_out.c`) and the engine's encoder and decoder | level, `first`, `veryfirst`; containers under construction on the C stack | put, add, start, end; encode, decode, test | a value that was written reads back as itself; the C stack is as before |
| number conversion (`abcestreamingatof.c`, `abceprettyftoa.c`) | lexer mode, digits, exponents, counts of dropped digits and zeros | feed, end, print | the value of the text, to as many digits as are kept |
| Amyplan compiler (`amyplan*`) | code buffer, local variable contexts | parse and emit | a break pops what its loop pushed |
| C API, Lua bridge (`abceapi.c`, `memblock.c`) | the C stack | push, get, call | references of the embedding program stay counted |
| mapping, drivers, I/O instructions | | system calls | not modelled |

Interactions: every handler calls the memory manager; every allocation may run
the collector, which reads the stacks, the cache, the error register and the
table; the collector and the cascade call back into the allocator to free.
The embedding program uses the stacks between engine runs. `JSON_ENCODE` walks
a value and calls the writer; `JSON_DECODE` and `JSON_DECODE_TEST` run the pull
parser over a string, the first building arrays and dictionaries on the C
stack as the events come. Both parsers feed the bytes of a number to the lexer.

## Modules

* `AbceHeap` is the memory manager driven by the handlers that move references.
  Its state is the C state: `kind`, `kids`, `refcnt`, `locidx` describe the
  areas; `tab`, `scratch`, `cap` the block `gcblockbase`; `stack`, `cstack`,
  `cache`, `dynscope`, `errmb` the roots. `pc`, `op`, `want`, `hand`, `drops`,
  `dying`, `dn`, `gray`, `gci` are the C control state and locals of the
  operation in progress. A value of a static type is `Nil`. A handler is one
  action up to the first point where it calls the allocator or drops a
  reference. There it interleaves with the collector
  (`GcBegin`, `MarkRoots`, `MarkKids`, `MarkDone`, `GcRefDn`, `GcRefDnDone`,
  `SweepMarked`, `SweepFree`, `Unmark`) or with the cascade (`DropNext`,
  `PopScratch`, `DropKid`, `FreeDying`, `DropDone`). The `abort()` calls of
  the memory manager are the predicate `Aborts`; the model has no step there.
  The storage of an array or a buffer may fail to be allocated (`StorageFails`); the object is then
  *bare*, with capacity 0, until an array gets its storage at the first append. With feature `tight`
  the release of a bare object begins a collection wherever `alloc(NULL, 0, 0)` takes the
  allocation path: in a cascade (`FreeBareArray`, `DropBareKid`, `DropBareNext`) or in the sweep
  (`SweepBare`). `ret` keeps where such a collection returns to (`UnmarkInner`). Whether the
  thresholds are met is a choice. Such collections are begun only by the last drop of an operation, and
  not in `abce_free`, whose drops run with `in_engine` 0: before the last drop some handlers still
  have the references they are about to drop on the stack, where a collection would see them.
* `AbceStore` says what the memory manager promises: a store of objects, the
  references a program holds, the edges between objects; a program moves only
  what it can reach, and only unreachable objects are reclaimed.
  `AbceHeap!StoreSpec` is that specification under the refinement mapping
  (live = areas in use, held = roots, edges = contents).
* `RefSeqs` holds the operators on sequences of references;
  `AbceHeapProofs` has the lemmas about them and proves the types of the heap,
  `AbceHeapSafety` its safety invariants and that it implements
  `AbceStore`.
* `AbceRbTree` is the red-black tree of `abcerbtree.c` with the loops around it in
  `abcetrees.h`, one action per round of a C loop: the descent, the
  place of a new leaf, each case of `rb_tree_insert_repair`, the search for the
  predecessor, the exchange, each case of `rb_tree_delete_one_child`. A node
  is identified with its key, since a node keeps its key while it is linked;
  `tree` holds `root`, the two `kid` pointers, `parent` and `black` of each
  node, `cur` and `up` are the C locals. The `abort()` calls are `Aborts`.
  `AbceRbTreeProofs` proves its invariants.
* `AbceDict` adds what a dictionary keeps next to the tree: the values, the entry
  count `sz`, the neighbour queries `abce_tree_get_next`/`_prev`, and a
  `@fordict` loop over them that deletes or keeps the entry it stands on
  (`DICTNEXT_SAFE`/`DICTPREV_SAFE`). The teardown of `abce_mb_gc_free`, which deletes the
  root until none is left, is `Del` of the root's key.
  `AbceDictProofs` proves its properties.
* `AbceMap` says what a dictionary promises: a partial map, one action per request.
  `AbceDict!MapSpec` is that specification under the mapping
  (the map = values of the keys the tree links).
* `AmyplanFlow` says what the statements of an Amyplan function mean, from the README's
  words: the places of the text at which a condition is evaluated or a statement executed, and
  which of them may follow which. `trace` holds the last one for each call in progress.
* `AbceEngine` is the engine, for the instructions that move control: `code` is the
  byte code, `stack` its value stack with typed cells, `bp`, `ip`, `err`, and
  `bt` the back trace gathered after an error, up to its capacity `BtCap`. An action is a handler, with its
  reads of operands in their order, each with the error it stops with
  (`Reads`), and what is half done when a call fails (`Trailer`). `trace` is a history
  variable for `AmyplanFlow`: the code never reads it.
* `AmyplanStmt` is the one-pass compiler. A line of source is an action that
  appends its instructions and patches the jumps whose target is now known;
  `open` is the parser's stack with what a construct keeps for its end,
  and for a loop its `amyplan_locvarctx`. `EndFunction` starts the engine on what was
  compiled. `AmyplanStmt!FlowSpec` is `AmyplanFlow` under the identity on `src` and
  `trace`: the code of every function does what its text means.
* `AbceAtof` is the number lexer: a function per C function, from a lexer
  context and a byte to the next context, up to the text it hands to `atof()`.
* `AbceCajCore` is what the two parsers of `abce_caj.c` share: the modes, the key stack, the
  events, and the context of a parser as a record. `AbceCaj` is the push
  parser: `PushByte` is the branch of the loop of `abce_caj_feed` for the mode
  the context is in, `Feed` and `Arrive` start a call with a chunk, `ChunkEnd` and
  `TailEnd` are what stands behind the loop. Any handler may refuse any event
  and any allocation fail, which ends the parse. `AbcePullCaj` is the pull
  parser: `SetBuf`, `Resume` (the entry of `get_event` at the place `state`
  names), `PullByte`, and the places at which a call leaves the loop.
* `AbceSax` says what a parser promises: the events walk through one tree, each
  with the key it has in the dictionary around it, and nothing follows the
  end of the root. `AbceCaj!Sax` and `AbcePullCaj!PullSax` are that
  specification under the mapping (open containers = what the key stack, the kind in
  hand and the mode stand for).
* `AbceJsonText` runs both parsers on the same text, typed byte by byte, each
  with buffers of its own, and states a reference grammar for it and the value a number
  in it has.
* `AbceCajOut` is the writer with the text of integers and doubles, as
  operators on its context. `AbceJson` is the engine's part: the recursive encoder,
  `JSON_DECODE_TEST` and `JSON_DECODE` as clients of `AbcePullCaj`, one action per
  event, with the C stack. A behaviour encodes a value, may cut the text or add
  bytes to it, and runs both instructions on the result.
* `AbceCajFacts` holds the lemmas on the shared operators of the parsers,
  `AbceCajProofs` and `AbcePullCajProofs` the theorems about them.
* `MCAbceHeap`, `MCAbceRbTree`, `MCAbceDict`, `MCAmyplanStmt`, `MCAbceJsonText`, `MCAbceJson` give TLC its sets of
  addresses, keys, statements, bytes or values, and the symmetry of addresses and of values. Keys are
  not symmetric: they are ordered.

Operators whose comment says *mutant* are faulty variants of the definition
below them; nothing uses them. Replacing the definition by its mutant makes
the property that guards it fail, which is how we know the property bites.

## Runs

| run | what it asks | instance |
|---|---|---|
| `heap_core` | no abort, counts explained, no dangling reference, exact collection, everything freed at exit; collections and cascades end; the heap implements `AbceStore` | three addresses, stack of three, arrays of two, no symmetry, not `tight` |
| `heap_all` | types, counts explained, exact collection, table, scratch area and placement, with scopes, cache, C API and collections inside cascades and sweeps | three addresses, stack and cache of two, every feature |
| `heap_tight` | a counterexample to "refcnt is not 0" being impossible: the collector begun by a release | four addresses, `tight` |
| `heap_exit` | a counterexample to "All unmarked objects must be freed" | scopes, `ScSize` 8 |
| `tree_shape` | no abort, pointers mutual, keys in order, balance, also in the middle of a repair; every operation ends | nine keys |
| `dict_loop` | neighbour queries are exact; a loop visits each key that stays exactly once, in order; the dictionary implements `AbceMap` | four keys, two values, ascending loops |
| `dict_emptied` | a counterexample to a loop that may delete the entry it stands on | one entry |
| `stmt_flow` | compiled branches and loops do what they mean, on a stack of the right depth | functions of six lines, jumps over one or two levels |
| `stmt_frames` | the same with `@fordict`, calls and returns; frames are chained, back traces exact up to their capacity, loop variables exact | functions of five lines, stack of 26 cells, back traces of three, calls with one or two arguments |
| `stmt_levels` | a counterexample to `@break 2` out of a `@fordict` | functions of five lines |
| `json_text` | the two parsers agree on every text without escapes however it is cut, except on what follows an array at the root; the pull parser accepts the JSON texts, those with two kinds of loose numbers, and nothing else it has read to the end; numbers have the value their text says; both implement `AbceSax` | texts of six bytes, buffers of up to three |
| `json_value` | a value that was encoded decodes to itself exactly when no append or insertion lacked memory, else to itself with something left out; what is encoded is JSON; `JSON_DECODE_TEST` succeeds exactly when `JSON_DECODE` does, memory permitting; the C stack is as it was | about 300 values, nesting of three, C stack of five cells |

Bounds. `Obj` bounds the live objects, `MaxStack` the stack, `MaxKids` an
array, `MaxCache` the cache. Two slots and two kids give self-reference, cycles of two and
three arrays, shared children and a chain. With three addresses an array and the dynamic scope it
holds wait in the scratch area together when `abce_free` drops its roots. `InitCap = 1` makes the block grow
under way, `CStackLimit = 1` makes the C stack overflow. Addresses are reused
after a free, so stale references would be seen. The symmetry is over the
addresses other than the dynamic scope's, which no definition distinguishes;
`heap_core`, which checks liveness, does without it. Deadlock is not checked:
the system stops after `abce_free`.

Nine keys reach every case of the repairs: an insert repair that moves up two
levels, the four rotations, and a delete repair whose double black passes the
root's child. Every disjunct fires there. The dictionary runs need fewer keys
since the shapes are covered; the loop of `@fordictprev` differs only in the neighbour query,
which is checked in both directions; `MaxSz` caps the entry count, which in the code only
grows, and is larger than the number of keys so that it can run ahead of the
tree.

Functions are enumerated: every sequence of up to `MaxLines` lines that parses, so the
loops and branches of `stmt_flow` nest and follow each other in every way six lines allow (a branch with
a jump inside a loop inside a loop needs six). A stack of 26 cells holds four frames, so
recursion runs into `stacklimit` between any two pushes of a frame, and then the back trace, of three addresses
(`BtCap`; 1024 in the code, for 8192 cells), is full before the frames are all gathered, as it is there; 40 cells never fill in
the other two runs. Two keys let a `@fordict` run twice, and `Keys` may change
while it runs: `DICTNEXT_SAFE` takes any larger key or none. An expression without
calls is one instruction `EXPR` that leaves a value of the kind its place
needs; an instruction and its operand have one address; the test `TYPE`, `NE` of a
loop is one instruction. `@fordictprev` has the same code but for one operand. `main` and
the function it calls are one function, with one parameter and two local variables, those of the
`@fordict` loops.

In `json_text` six bytes are free to choose; the further letters of a word and the
four digits of a `\u` escape come on top, so a text may be longer. A byte is one of a
small alphabet: each byte for which the parsers have a branch, one
blank, the digits 0 and 1, and one byte `x` for all others. Inside a string
only the quote, the escape and `x` are offered, the rest being treated like
`x`. Three bytes of buffer put a cut before, inside and behind every
token, and let a number, a bracket and what follows meet in one buffer.
`DigitMax = 3` (57 digits fit in the code's buffer) makes the lexer drop digits in texts this short;
`ExpMax` and `IntMax` stand for the clamp of 999 on exponents and for `INT64_MAX`. The pull parser takes each
byte before the push parser does; they share nothing, so the order shows in no property. A cut
behind the root is the end of the text, for there both parsers answer.
Behind an array at the root `get_event` runs to the length of the last word instead of the buffer's
(`abce_caj.c:1604`). So bytes may be typed there that it leaves unread, and it may read past the buffer, where it
finds anything. The two properties name both cases (`LeavesUnread`, `ReadsBeyond`) and say what holds
in them: on `[]x` the push parser answers `EOVERFLOW` and the pull parser "end". The reference grammar
is that of JSON; what the parsers take besides is named too (`LooseNumber`: `-.5`, and at the root a number that the end
of the text cuts, like `-` or `1e`). `PushPullAgree` speaks of
texts without escapes: after an escape like `\n` the push parser stays in the mode for
escapes (`abce_caj.c:473`), so the two disagree on every text that has one.

In `json_value` the values are the atoms, each atom in a container, and containers of
containers two and three deep with one or two items; one level more than
`EncodeDepth = 3` (2048 in the code) makes the encoder refuse. Every text is decoded whole, cut
at every place, and with a byte too many behind it. The C stack of five cells runs
out at every kind of push. The engine hands over the text in one piece, so
cuts into buffers are `json_text`'s matter. The indent is one space, two in the code. The order in which a tree
yields its keys is `AbceDict`'s matter; here it is some order.

In `json_text` memory may fail and a handler may refuse at any event, and both end the parse, as in the code.
In `json_value` the memory of the parser may fail, which ends the parse, and so does a value, a key or a cell of the C stack
that cannot be had. A node of a dictionary or storage of an array that cannot be had does not: the code ignores what
`abce_tree_set_str` and `abce_mb_array_append` return (`engine.c:2567`, `engine.c:2580` and ten more places), the
value is left out and the parse goes on (`Put`). When a dictionary that is an element cannot be made, a wrong check
lets the null pointer through (`NoDictionary`): the model follows it to the crash or, if the array
cannot grow either, to the state `adrift`, in which the decoder's count is one too many; what it
takes off the C stack from there on is not modelled, so `CStackKept` says nothing behind that step. Deadlock is not checked in these runs: a text ends.

Two abstractions widen what the heap and the engine can do. The allocator may run the collector
at every allocation (in the code, when thresholds are passed), and an
allocation may fail at any time. What the heap does once memory is so tight that a release collects is
checked in `heap_all` except for the two properties that are then false: `NoAbort` (run `heap_tight`) and
`NoDangling`, whose marks the inner collection takes away. `RefcntExplained` says nothing while
a collection runs inside a sweep: the outer one has already taken counts off. One narrows it: an engine run starts with a
clear error register, as the callers in the repository do by
`abce_err_free`.

Fairness. `FairSpec` asks weak fairness of the steps inside an operation: the C
code runs on until it returns. It asks nothing of the handlers; a program may stop
executing instructions at any time. For the tree it is weak fairness of
`Step`, the rounds of the loop in progress: one thread runs them to the end.

## What is proved

The first part of `AbceHeapProofs` is about sequences over any set: swap-removal is one shorter
and puts the last entry in the hole, and how `Occurrences` changes under
append, front, tail, overwriting.

`AbceHeapProofs!TypeCorrect` is `Spec => []TypeOK` for any finite set of
addresses and any bounds, from `HeapAssumption`. `TypeOK` is not inductive.
`TypeInv` adds `Progress`: which operation may be in progress at which point
of the C code, that an area in hand means an object is being created, and
that an append or a new scope still has its operands on the stack when the
allocator returns. `Returns` says where collections begun inside a release return to. The proof has one step per action and under it one per
part of the invariant.

`AbceHeapSafety!HeapInvariance` is `Spec => [](TypeInv /\ HeapInv /\ Roomy)`, again for any finite set of
addresses and any bounds, under the hypothesis `"tight" \notin Features` (`Roomy`: no collection is begun inside a cascade or a sweep).
The hypothesis cannot be dropped, as `heap_tight` shows; only the types are proved without it. From it follow, each a theorem of its own, all safety
invariants of the heap that the passing runs check: `NoAbort`, `RefcntExplained`, `TableConsistent`,
`ScratchFits`, `PlacedOnce`, `NoDangling` and `CollectedExactly`. None of them is
inductive. `RefcntExplained`, for one, says nothing while the collector works, and a
drop keeps it only if what is dropped is an object, if that object's table entry is at its `locidx`, and if
nothing refers to an object once its count is 0. So `HeapInv` is about all of them at once, at every point of
the C code:

* `Shape`: only containers refer to anything, and the one area that is not yet an object is the one in hand;
* `Placed`: an object is in the table, in the scratch area or in the hands of the cascade, in one place only and
  there once; what is in the scratch area is a container with count 0; a table entry knows its index or is marked;
* `Fits`, `Phases`: the block has room; what may be in progress where (a cascade holds references only at "drop", the
  queue of marks is empty behind the marking, an append still has its array, `abce_free` has no root left);
* `HeldKnown`, `KidsKnown`: every reference of a root, of the C code or of an object is an object or static;
* `CountsExact`: the count of an object is the number of references to it, from
  all of `Obj` outside the collector, without those of `Done` (the unmarked objects the loop has passed) in the loop that
  takes references off, and from the marked objects alone in the sweep;
* `Marks`: a marked object that is not in the queue refers to marked objects only, behind the marking
  every root is marked, nothing out of reach is ever marked, and the sweep leaves only marked objects behind it;
* `Pinned`: until `abce_free` empties it, the cache holds every scope. Without it `CollectedExactly` would be wrong: the sweep of
  a scope loses its place in the table (see Findings), and only because no scope is garbage before `abce_free` is the collection exact.

The proof has one lemma per action. Handlers that only move references go
through `Mutation` (what a step has to say of each count), drops through `RefDnSafe` (shared, last
reference of a leaf, last reference of a container), the collector's steps through `CollectorKeeps`.
The counting is done with the lemmas of `AbceHeapProofs` on `Occurrences` and on the slots of a
family of sequences (`SlotsSplit`: taking one object out of the family takes its occurrences off).

`AbceHeapSafety!EverythingFreed` is `Spec => []AllFreedAtExit` under the further hypothesis that the program makes
no scopes (`"scope" \notin Features`); with scopes it is false, which is the finding of `heap_exit`.
`ExitInv` adds to `HeapInv` that only the interpreter and its cache refer to the dynamic scope, that a
scope in the table of `abce_free`'s cascade is still counted (so that the cascade has freed it when it
ends), and that the last sweep stays at the first entry: there is no root, so nothing is
reachable, nothing marked, and each entry freed is replaced by the last one.

`AbceHeapSafety!ImplementsStore` is `Spec => StoreSpec` (again if not `tight`), the refinement of `AbceStore`. What a root or
an object within reach refers to is within reach (`ReachClosed`), so a handler that moves references from the stack, the C
stack, the cache or an array to another of them is an `Operate` of the store, and one that makes an object brings in a fresh
one. A drop that frees a leaf, `FreeDying` and `SweepFree` are `Reclaim`: an object whose
count is explained by what the cascade is about to drop has no other reference (`OutOfReach`), and what the sweep frees is
unmarked. All other steps leave the live objects, the roots and the edges within reach as they are.

`AbceRbTreeProofs` proves every invariant of the tree for every set of keys, finite or not, from
`KeyAssumption` alone: `PointersValid`, `Ordered`, `NoAbort`, `Balanced` and `TypeOK`. There are two inductive
invariants, the second over the first.

* `OrderInv` says that some `B` gives each node a finite set of keys such that a node's set is the node and the
  sets of its kids, the root's is the set of linked nodes (`Shape`), and what is on the left of a node is
  smaller, on the right larger (`Sorted`); and what the loop in progress knows: a descent stands where
  the key must be, if it is in the tree (`Searching`), a new leaf hangs where its key belongs
  (`Placing`), the predecessor is the largest key on the left (`Preceding`), the slot being fixed is one of `up`'s (`Under`).
* `BalanceInv` says that nothing is wrong with the colours but the node under repair (`Calm`), that some `H` gives each
  node a black height, equal on both sides (`Even`), one too few in the slot being fixed
  (`Short`), and that the slot holds no red node and, once it has been looked at, has no red sibling. That is
  what the `abort()` calls and the unguarded pointers of the repairs rely on.

`Below` and `Height`, in which `Ordered` and `Balanced` are stated, are recursive functions over the
nodes. What they compute is found without an induction rule that takes a predicate. `BelowIs` and
`HeightIs` show that any `B`, or `H`, with the right equations is the
function, as sets of keys are layered: a kid's is smaller. `NodeInduction`, through the least element
of a set of cardinalities, carries that up the tree. A rotation is proved once, for either
side (`Turn...`, `LiftEven`, `TurnFar`), and each case of the repairs puts one or two
together with the colours it changes (`FixRotateEven`, `RepairRotateEven`, `SiblingEven`, `UnlinkEven`,
`ExchangeEven`).

`AbceDictProofs` proves for every set of keys, every set of values and loops in either direction
what the run `dict_loop` checks on four keys: `NeighboursExact`, `DictTypeOK`, `LoopExact` and the
refinement `MapSpec`. A step of a dictionary is a step of its tree (`DictStepsTree`), so `OrderInv` carries over.
`Last`, `Stop` and `Ascend`, the loops of `get_next` and `get_prev`, are recursive functions over the nodes:
`WalksEnd` shows that a walk that gets closer to its end with every node exists and finds that end, which is the far end of a subtree
for the first two (`LastIs`, `StopIs`), the first turn on the way up for the third (`AscendIs`, `Turns`). `NeighbourIs` puts them
together: the neighbour is on the path to the key or in the subtree below it.

* `DictInv` adds to the types that an insertion has a value to bring and room for one more in the count.
* `LoopInv` says what a loop knows between two entries: the one it stands on is the furthest it has seen, and a key
  that stays is seen or still ahead. So the neighbour of the place it stands on, whether that entry is still there or not, is
  new, and when there is none every key that stayed has been seen.
* For the refinement, only the last step of an insertion's descent and the step that unlinks a node change which keys the tree links
  (`PlaceLinks`, `RemoveLinks`, `RearrangeLinks`).

`AbceCajProofs!PushWalks` is `PushSpec => PushWalksATree` and
`AbcePullCajProofs!PullWalks` is `PullSpec => PullWalksATree`: both JSON
parsers implement `AbceSax` for any set of handlers, texts, keys and nesting of any size, buffers cut
anywhere, any event refused, any allocation failing, from `AtofAssumption` alone. The code keeps no stack of the kinds
of containers: what is open is read off the key stack, the key in hand and the mode. The invariant
that makes this reading possible says that the key stack holds keys or "none",
that its first entry is the root's, without a key, that a mode in which a key or the first value of an array is
awaited has no key in hand and the mode behind a key has one, and that nothing
was said before the root. For the pull parser the invariant depends on where
`get_event` will go on: after the start of a container the key in hand is still the
container's own, so that the program can read it, until `ResumeStart`
forgets it. The proofs show that each action keeps the invariant and is a step of `AbceSax` or leaves it
alone; `AbceCajFacts` has the lemmas on pushing to and popping from the key stack and
what they do to the open containers.

Only model-checked: the invariants of the engine and the JSON text, liveness (`OperationEnds` of the tree included), the
refinement of `AmyplanFlow`, and what uses recursion over texts and values (the grammar, the encoder,
the round trip).

## Findings

* `heap_tight`: an array or a buffer whose storage cannot be allocated is kept with capacity 0, "the simplest
  way forward" (`abce.c:1147`, `abce.c:984`), and its release is then taken for an allocation of one byte
  (`memblock.c:130-136`) that may run the collector inside a cascade or a sweep. An array of two buffers, one of
  them bare, is popped: when the bare one goes, the collector finds the other in the table with the count of
  an array that is no longer there, and "refcnt is not 0" (`abce.c:638`) aborts. A bare
  buffer freed by a sweep has the like: the inner collection takes references off a second time.

* `heap_exit`: the sweep of `abce_gc` says "All unmarked objects must be
  freed", but the loop over the buckets of a scope runs on the sweep's own index
  (`abce.c:687`). A self-containing array that holds the last references to a
  scope is skipped at `abce_free`.
* `stmt_levels`: "Both `@break` and `@continue` take a positive integer argument for
  specifying how many levels of loop it applies to", but jumping over a `@fordict` leaves its
  dictionary, key and value on the stack: only the code at its end
  (`amyplanyy.y:796`) pops them. Every pass through such a jump costs three
  cells, and a later `@return`, whose count of locals (`amyplanlocvarctx.h:47`) knows
  nothing of them, does not find its frame.
* `dict_emptied`: a loop that deletes its last entry asks the emptied tree for a
  neighbour, and the query reads through the root pointer without a test.

Seen while modelling, without a run of its own: `abce_tree_del_str` leaves the entry count as it
is, so the length of a dictionary counts every insert and no delete; the
push parser misreads what follows an escape (`abce_caj.c:473`); the end of an array at the root
(`abce_caj.c:1604`) is compared with the length of the last word, so that what stands behind it may go unread and
`[]x` ends like a JSON text, though `abce_caj.h:140-145` promises an error for invalid JSON; so do `-` and `1e` at the
root, whose lexer nobody asks at the end of the text (`abce_caj.c:1859`, `abce_caj.c:1134`), and `-.5`, since the
lexer takes a period behind a sign (`abcestreamingatof.c:216`); `JSON_DECODE` short of memory answers a value with entries or elements missing
(`engine.c:2567`, `engine.c:2580`), and its check for a dictionary that could not be made looks at
the wrong pointer (`engine.c:2574`).

## Not modelled

* The list instructions `LISTDEL`, `LISTINS`, `LISTSPLICE`, `APPENDALL` and `DUP_NONRECURSIVE`. The
  first two go wrong whenever they are executed (a leak, an abort), so any run
  that has them shows that and nothing else.
* The contents of scopes: lookup through parents, holes, replacement. Their
  buckets are the trees of `AbceRbTree`, their creation and collection are in `AbceHeap`.
* The allocator `abcejmalloc.c` and the accounting of bytes; the growth of the value stack.
* The calls of `abceapi.c` that only read, and those that set the error register.
* Of the writer: numbers with a format of the caller's, variants with a key
  length, a sink that fails. The arithmetic of `abceprettyftoa.c` and of `atof()`: a number is its
  digits and its power of ten.
* Instructions that only compute (arithmetic, strings, time, files), the word
  iterator, the Lua bridge, `mmap`, the drivers. Expressions and the lexer of Amyplan.
* Of the tree, `abce_rb_tree_insert` and `_replace` have no caller.

## Plan

1. Memory manager: `AbceStore`, `AbceHeap`, type correctness (done).
2. `AbceRbTree`, `AbceDict`, `AbceMap` (done).
   `AmyplanFlow`, `AbceEngine`, `AmyplanStmt` (done): frames, jumps, local variable contexts.
3. JSON: `AbceSax`, `AbceCajCore`, `AbceCaj`, `AbcePullCaj`, `AbceAtof`, `AbceCajOut`, `AbceJson`, and the
   refinement proofs of both parsers (done).
4. Further components: scopes (recursive lookup, holes, replacement); the
   list instructions; jmalloc with the accounting of bytes; error-register ownership in the C
   API; instruction encoding.
5. Proofs: the inductive invariant of the heap with everything that follows from it (done);
   the refinement of `AbceStore`, `AllFreedAtExit` without scopes (done);
   the invariants of the tree for every set of keys (done);
   `NeighboursExact` of the dictionary, its loops and the refinement of `AbceMap` (done);
   next the chain of frames of `AbceEngine` under the code of `AmyplanStmt`.
