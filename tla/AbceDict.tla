------------------------------ MODULE AbceDict ------------------------------
(***************************************************************************)
(* Dictionaries (abcetrees.h): the tree of AbceRbTree with the values of   *)
(* its entries and the entry count, the instructions DICTSET_MAINTAIN,     *)
(* DICTGET, DICTDEL and DICTLEN, and the @fordict loop the compiler builds *)
(* from DICTNEXT_SAFE (engine.c, amyplanyy.y), whose body may change the   *)
(* dictionary.                                                             *)
(*                                                                         *)
(* The instructions run to their end one at a time; the loop keeps the old *)
(* key on the stack, so the key outlives its entry.                        *)
(***************************************************************************)
EXTENDS AbceRbTree

CONSTANTS
  Value,
  MaxSz,   \* bound on the number of entries ever added
  Loops    \* the directions of @fordict (1) and @fordictprev (0) in use

ASSUME DictAssumption == NULL \notin Value /\ MaxSz \in Nat /\ Loops \subseteq Side

VARIABLES
  val,     \* the value of each entry
  arg,     \* the value being set
  sz,      \* u.tree.sz
  answer,  \* what the last instruction returned
  loop,    \* the direction of the running loop, or NULL
  at,      \* its key on the stack; NULL is @nil
  seen, stay  \* history: keys visited, keys there ever since the loop began

entries == <<val, arg, sz, answer>>
cursor == <<loop, at, seen, stay>>
dictvars == <<vars, entries, cursor>>

\* Every variable has its type, and an entry has a value exactly while its node
\* is linked.
DictTypeOK ==
  /\ TypeOK
  /\ val \in [Key -> Value \cup {NULL}] /\ arg \in Value \cup {NULL}
  /\ sz \in 0 .. MaxSz
  /\ answer \in Value \cup {"ok", "nomem", "absent", NULL}
  /\ loop \in Side \cup {NULL} /\ at \in Node
  /\ seen \subseteq Key /\ stay \subseteq Key
  /\ \A k \in Key : val[k] # NULL <=> k \in Linked

DictInit ==
  /\ Init
  /\ val = [k \in Key |-> NULL] /\ arg = NULL /\ sz = 0 /\ answer = NULL
  /\ loop = NULL /\ at = NULL /\ seen = {} /\ stay = {}

-----------------------------------------------------------------------------
(* abce_rbtree_get_next (d = 1) and abce_rbtree_get_prev (d = 0).          *)

Last(n, d) ==
  LET e[x \in Key] == IF tree.kid[x][d] = NULL THEN x ELSE e[tree.kid[x][d]] IN e[n]

\* The node at which the search for k ends.
Stop(k) ==
  LET s[x \in Key] ==
        IF x = k \/ tree.kid[x][Toward(k, x)] = NULL THEN x
        ELSE s[tree.kid[x][Toward(k, x)]]
  IN s[tree.root]

Ascend(n, d) ==
  LET a[x \in Key] ==
        IF tree.parent[x] # NULL /\ tree.kid[tree.parent[x]][d] = x
        THEN a[tree.parent[x]] ELSE tree.parent[x]
  IN a[n]

\* Mutant: a search that missed always goes on from where it ended.
OvershotNever(n, k, d) == FALSE
\* The search ended at a node already on the far side of the key.
Overshot(n, k, d) == n # k /\ Toward(k, n) # d

\* Mutant: one step up, whatever side the node hangs on.
BeyondParent(n, d) == IF tree.kid[n][d] # NULL THEN Last(tree.kid[n][d], 1 - d)
                      ELSE tree.parent[n]
Beyond(n, d) == IF tree.kid[n][d] # NULL THEN Last(tree.kid[n][d], 1 - d)
                ELSE Ascend(n, d)

Neighbour(k, d) ==
  IF k = NULL THEN IF tree.root = NULL THEN NULL ELSE Last(tree.root, 1 - d)
  ELSE IF Overshot(Stop(k), k, d) THEN Stop(k)
  ELSE Beyond(Stop(k), d)

-----------------------------------------------------------------------------
(* The instructions.                                                       *)

DictSet(k, v) == Set(k) /\ sz < MaxSz /\ arg' = v /\ UNCHANGED <<val, sz, answer, cursor>>
DictGet(k) == Get(k) /\ UNCHANGED <<entries, cursor>>
DictDel(k) == Del(k) /\ UNCHANGED <<entries, cursor>>

\* abce_mb_refreplace
Replace ==
  /\ Present
  /\ val' = [val EXCEPT ![key] = arg] /\ arg' = NULL /\ answer' = "ok"
  /\ UNCHANGED <<sz, cursor>>

Refused == NoMem /\ arg' = NULL /\ answer' = "nomem" /\ UNCHANGED <<val, sz, cursor>>

Add ==
  /\ PlaceRoot \/ PlaceLeaf
  /\ val' = [val EXCEPT ![key] = arg] /\ arg' = NULL /\ answer' = "ok"
  /\ UNCHANGED <<sz, cursor>>

\* The count goes up when the insertion has returned.
Count ==
  /\ RepairRoot \/ RepairNothing \/ RepairRotate
  /\ sz' = sz + 1
  /\ UNCHANGED <<val, arg, answer, cursor>>

GetDone ==
  /\ op = "get"
  /\ \/ Hit /\ answer' = val[key]
     \/ Absent /\ answer' = NULL
  /\ UNCHANGED <<val, arg, sz, cursor>>

DelMissing ==
  /\ op = "find" /\ Absent
  /\ answer' = "absent" /\ UNCHANGED <<val, arg, sz, cursor>>

\* Mutant: the value of the node that took its place goes.
VictimPred == IF op = "pred" THEN cur ELSE key
\* The node whose entry is freed.
Victim == key
Remove ==
  /\ DeleteHere \/ PredTake
  /\ val' = [val EXCEPT ![Victim] = NULL] /\ answer' = "ok"
  /\ stay' = stay \ {key}
  /\ UNCHANGED <<arg, sz, loop, at, seen>>

Silent ==
  /\ \/ Descend \/ SeekPlace \/ RepairUp \/ SeekPred \/ PredRight
     \/ FixRoot \/ FixSibling \/ FixUp \/ FixSwapColours \/ FixRotate
  /\ UNCHANGED <<entries, cursor>>

-----------------------------------------------------------------------------
(* @fordict and @fordictprev.                                              *)

LoopBegin(d) ==
  /\ op = "ready" /\ loop = NULL
  /\ loop' = d /\ at' = NULL /\ seen' = {} /\ stay' = Linked
  /\ UNCHANGED <<vars, entries>>

\* The neighbour of a key in an emptied tree: the code follows the root.
LoopAborts == op = "ready" /\ loop # NULL /\ at # NULL /\ tree.root = NULL

Following == Neighbour(at, loop)
LoopNext ==
  /\ op = "ready" /\ loop # NULL /\ ~LoopAborts
  /\ Following # NULL
  /\ at' = Following /\ seen' = seen \cup {Following}
  /\ UNCHANGED <<vars, entries, loop, stay>>
LoopEnd ==
  /\ op = "ready" /\ loop # NULL /\ ~LoopAborts
  /\ Following = NULL
  /\ loop' = NULL /\ at' = NULL /\ seen' = {} /\ stay' = {}
  /\ UNCHANGED <<vars, entries>>

DictNext ==
  \/ \E k \in Key : DictGet(k) \/ DictDel(k) \/ \E v \in Value : DictSet(k, v)
  \/ Replace \/ Refused \/ Add \/ Count \/ GetDone \/ DelMissing \/ Remove \/ Silent
  \/ \E d \in Loops : LoopBegin(d)
  \/ LoopNext \/ LoopEnd

DictSpec == DictInit /\ [][DictNext]_dictvars

-----------------------------------------------------------------------------
Ahead(k, d) == IF k = NULL THEN Linked
               ELSE {n \in Linked : IF d = 1 THEN n > k ELSE n < k}

\* For every key, in the dictionary or not, and for @nil, get_next finds the
\* smallest larger key and get_prev the largest smaller one ("FIXME verify if
\* algorithm correct").  The neighbour of a key in an empty tree is LoopSafe's.
NeighboursExact ==
  op = "ready" =>
    \A d \in Side : \A k \in IF tree.root = NULL THEN {NULL} ELSE Node :
      LET n == Neighbour(k, d)
      IN IF Ahead(k, d) = {} THEN n = NULL
         ELSE /\ n \in Ahead(k, d)
              /\ \A m \in Ahead(k, d) : IF d = 1 THEN n <= m ELSE n >= m

\* However its body changes the dictionary, a @fordict loop visits no key twice
\* and ends having visited every key that was there all the time.
LoopExact ==
  [][/\ LoopNext => at' \notin seen
     /\ LoopEnd => stay \subseteq seen]_dictvars

Map == INSTANCE AbceMap WITH map <- [k \in Linked |-> val[k]]

\* The dictionary is a map: each request is answered as the map would, and only
\* adding, replacing and removing change it, at one point each.
MapSpec == Map!Spec

\* A loop can go on whatever its body did: get_next answers -ENOENT where no
\* node is left.
LoopSafe == ~LoopAborts
=============================================================================
