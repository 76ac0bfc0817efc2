------------------------------- MODULE AbceJson ------------------------------
(***************************************************************************)
(* The JSON instructions of the engine: JSON_ENCODE writes a value with    *)
(* AbceCajOut, JSON_DECODE_TEST and JSON_DECODE read a text with the pull  *)
(* parser of AbcePullCaj, the second one building the value on the C       *)
(* stack as the events come. A behaviour encodes a value, may cut the text *)
(* or add to it, and runs both decoders on it.                             *)
(*                                                                         *)
(* A value is nil, a boolean, a string, a number, an array (a sequence) or *)
(* a dictionary (a function from keys; the tree's order is AbceDict's      *)
(* matter), or a function, which is no JSON. Containers under construction *)
(* are in obj; a cell of the C stack holds a value or refers to one of     *)
(* them. Everything below the marker in cells belongs to somebody else.    *)
(***************************************************************************)
EXTENDS AbcePullCaj, AbceCajOut

CONSTANTS
  Values,      \* the values that are encoded
  EncodeDepth, \* the nesting the encoder takes, 2048 in the code
  I64Digits,   \* an integer with more digits than this is outside int64
  CMax         \* the cells of the C stack

VARIABLES
  value,     \* what JSON_ENCODE is given
  whole,     \* the text was not cut
  stage,     \* the instruction that runs, or how the last one ended
  heard,     \* the events of told the instruction has handled
  pushed,    \* its locals
  pushedc,
  cells,     \* the C stack from where the instruction found it
  obj,       \* the containers that were made
  lost,      \* history: a value was left out of its container
  verdict,   \* of JSON_DECODE_TEST
  answer     \* of JSON_DECODE

jsonvars ==
  <<pullvars, value, whole, stage, heard, pushed, pushedc, cells, obj, lost, verdict, answer>>

Marker == [t |-> "marker"]
Nil == [t |-> "nil"]
Bool(b) == [t |-> "bool", b |-> b]
Str(s) == [t |-> "str", s |-> s]
Num(int, n) == [t |-> "num", int |-> int, n |-> n]
Ref(id) == [t |-> "ref", id |-> id]

-----------------------------------------------------------------------------
(* JSON_ENCODE.                                                            *)

FitsI64(n) == IsFinite(n) /\ n.exp < I64Digits

RECURSIVE EncodeItem(_, _, _, _), EncodeItems(_, _, _)
\* A result is the writer's context and what the C function returns; an
\* error, like an abort, ends all the loops.
Goes(r) == r.ret = "ok" /\ ~r.o.aborted
Ok(o) == [o |-> o, ret |-> "ok"]

\* The loop over a container's items, with the nesting that is left.
EncodeItems(v, o, depth) ==
  IF depth = 0 THEN [o |-> o, ret |-> "toodeep"]
  ELSE LET keys == IF v.t = "dict" THEN SetToSeq(DOMAIN v.items) ELSE <<>>
           one(r, k) ==
             IF ~Goes(r) THEN r
             ELSE IF v.t = "dict"
                  THEN EncodeItem(v.items[keys[k]], r.o, [present |-> TRUE, key |-> keys[k]], depth)
                  ELSE EncodeItem(v.items[k], r.o, NoKey, depth)
       IN FoldLeftDomain(LAMBDA r, k : one(r, k), Ok(o), IF v.t = "dict" THEN keys ELSE v.items)

EncodeItem(v, o, key, depth) ==
  CASE v.t = "nil" -> Ok(PutNull(o, key))
    [] v.t = "bool" -> Ok(PutBoolean(o, key, v.b))
    [] v.t = "str" -> Ok(PutString(o, key, v.s))
    [] v.t = "num" -> Ok(IF v.int /\ FitsI64(v.n) THEN PutI64(o, key, v.n) ELSE PutFlop(o, key, v.n))
    [] v.t = "array" -> LET r == EncodeItems(v, PutStartArray(o, key), depth - 1)
                        IN IF Goes(r) THEN Ok(EndArray(r.o)) ELSE r
    [] v.t = "dict" -> LET r == EncodeItems(v, PutStartDict(o, key), depth - 1)
                       IN IF Goes(r) THEN Ok(EndDict(r.o)) ELSE r
    [] OTHER -> [o |-> o, ret |-> "EINVAL"]

\* abce_json_encode_cpush: the value itself is not nested in anything.
Encoded(v) == EncodeItem(v, OutInit, NoKey, EncodeDepth + 1)

JsonEncode ==
  /\ stage = "encode"
  /\ LET r == Encoded(value) IN
     /\ stage' = CASE r.o.aborted -> "aborted" [] Goes(r) -> "encoded" [] OTHER -> r.ret
     /\ data' = IF Goes(r) THEN r.o.out ELSE data
  /\ UNCHANGED <<pc, got, told, value, whole, heard, pushed, pushedc, cells, obj, lost, verdict, answer>>

\* Somebody may have cut the text or added to it; the next instruction is JSON_DECODE_TEST.
Start(instruction) ==
  /\ stage' = instruction /\ pc' = PullContextInit /\ got' = "loop" /\ told' = <<>> /\ heard' = 0
  /\ pushed' = FALSE /\ pushedc' = 0

Cut ==
  /\ stage = "encoded" /\ Start("test") /\ UNCHANGED <<value, cells, obj, lost, verdict, answer>>
  /\ \/ \E n \in 0 .. Len(data) : data' = SubSeq(data, 1, n) /\ whole' = (n = Len(data))
     \/ \E b \in {" ", ",", "x"} : data' = Append(data, b) /\ whole' = FALSE

-----------------------------------------------------------------------------
(* The two decoders take turns with the parser, whose buffers always grow  *)
(* when they are JSON_DECODE_TEST's.                                       *)

Decoding == stage \in {"test", "decode"}
Event == told[Len(told)]
Hears == Decoding /\ got = "event" /\ heard < Len(told)
Stopped == got \in {"end", "short"} \cup Errors

Parse ==
  /\ Decoding /\ (got = "event" => heard = Len(told))
  /\ \/ pc.i \in 0 .. Len(data) - 1 /\ PullByte(data[pc.i + 1])
     \/ Resume \/ PullTailEnd \/ PullTail3Beyond \/ PullTail3End \/ BufEnd(TRUE)
  /\ stage = "test" => got' # "ENOMEM"
  /\ UNCHANGED <<value, whole, stage, heard, pushed, pushedc, cells, obj, lost, verdict, answer>>

Heard == heard' = Len(told) /\ UNCHANGED <<pullvars, value, whole, verdict, answer>>

TestEvent ==
  /\ Hears /\ stage = "test" /\ Heard /\ UNCHANGED <<stage, cells, obj, lost>>
  /\ pushed' = (pushed \/ Event.ev # "end")
  /\ pushedc' = CASE Event.ev = "start" -> pushedc + 1 [] Event.ev = "end" -> pushedc - 1
                  [] OTHER -> pushedc

TestEnd ==
  /\ stage = "test" /\ Stopped
  /\ verdict' = (got = "end" /\ pushed /\ pushedc = 0)
  /\ Start("decode") /\ UNCHANGED <<data, value, whole, cells, obj, lost, answer>>

-----------------------------------------------------------------------------
(* JSON_DECODE, one action per place in which an event can find it. Every  *)
(* cell that is pushed counts in pushedc.                                  *)

Room(n) == Len(cells) + n <= CMax
Below(n) == SubSeq(cells, 1, Len(cells) - n)
Push(made) == cells' = cells \o made /\ pushedc' = pushedc + Len(made)

\* The cell for the event's value, and obj with the container it starts.
Cell == CASE Event.ev = "start" -> Ref(Len(obj) + 1)
          [] Event.typ = "null" -> Nil
          [] Event.typ = "boolean" -> Bool(Event.val)
          [] Event.typ = "string" -> Str(Event.val)
          [] OTHER -> LET n == Event.val.value
                          dig == Significant(n.dig)
                      IN Num(Event.val.isinteger,
                             [neg |-> n.neg, dig |-> dig, exp |-> IF dig = <<>> THEN 0 ELSE n.exp])
Objects == IF Event.ev = "start"
           THEN Append(obj, IF Event.dict THEN [t |-> "dict", items |-> <<>>]
                                          ELSE [t |-> "array", items |-> <<>>])
           ELSE obj

\* *mutant* of Failed: a cell too many is popped.
FailedMore == /\ cells' = Below(pushedc + 1) /\ stage' = "ENOMEM"
              /\ UNCHANGED <<pushed, pushedc, obj, lost>>

\* The value or its key cannot be made: the instruction gives back its cells.
Failed == /\ cells' = Below(pushedc) /\ stage' = "ENOMEM"
          /\ UNCHANGED <<pushed, pushedc, obj, lost>>

\* The root: a container is on the C stack twice, and only it sets pushed.
DecodeRoot ==
  /\ Hears /\ stage = "decode" /\ Event.ev # "end" /\ ~pushed /\ Heard
  /\ LET made == IF Event.ev = "start" THEN <<Cell, Cell>> ELSE <<Cell>> IN
     \/ /\ Room(Len(made)) /\ Push(made) /\ obj' = Objects
        /\ pushed' = (Event.ev = "start") /\ UNCHANGED <<stage, lost>>
     \/ Failed

\* The container at the top of the C stack.
Container == obj[cells[Len(cells)].id]

\* The value goes into the container, or is left out because a node or storage for
\* it cannot be had: nobody looks at what abce_tree_set_str and
\* abce_mb_array_append return. Its own cell stays only if it is a container.
Put(items, grows) ==
  /\ \/ obj' = [Objects EXCEPT ![cells[Len(cells)].id].items = items] /\ UNCHANGED lost
     \/ grows /\ obj' = Objects /\ lost' = TRUE
  /\ IF Event.ev = "start" THEN Push(<<Cell>>) ELSE UNCHANGED <<cells, pushedc>>
  /\ UNCHANGED <<pushed, stage>>

\* A value with a key; an entry that is there already needs no node.
DecodeKeyed ==
  /\ Hears /\ stage = "decode" /\ Event.ev # "end" /\ pushed /\ Event.key.present /\ Heard
  /\ \/ Room(2) /\ Put((Event.key.key :> Cell) @@ Container.items,
                       Event.key.key \notin DOMAIN Container.items)
     \/ Failed

\* When a dictionary cannot be made, the check that should see it looks at the root
\* instead. What is below the container on the C stack is taken for the array to
\* append to: an abort if it is none, a crash on the null pointer if it has room,
\* and if it has not and cannot grow, the parse goes on with its count one too many.
NoDictionary ==
  /\ Event.ev = "start" /\ Event.dict /\ pushedc' = pushedc + 1 /\ UNCHANGED <<pushed, cells, obj, lost>>
  /\ \/ stage' = "crashed"
     \/ obj[cells[Len(cells) - 1].id].t = "array" /\ stage' = "adrift"

\* An element. (Arrays are short here: one that has storage for its first
\* elements never grows, one that has not may fail to at each of them.)
DecodeElement ==
  /\ Hears /\ stage = "decode" /\ Event.ev # "end" /\ pushed /\ ~Event.key.present /\ Heard
  /\ \/ Room(1) /\ Put(Append(Container.items, Cell), TRUE)
     \/ NoDictionary
     \/ ~(Event.ev = "start" /\ Event.dict) /\ Failed

DecodeEndEvent ==
  /\ Hears /\ stage = "decode" /\ Event.ev = "end" /\ Heard
  /\ cells' = Below(1) /\ pushedc' = pushedc - 1 /\ UNCHANGED <<pushed, stage, obj, lost>>

RECURSIVE ValueOf(_)
\* What a cell stands for.
ValueOf(c) ==
  IF c.t # "ref" THEN c
  ELSE LET o == obj[c.id] IN [o EXCEPT !.items = [k \in DOMAIN @ |-> ValueOf(@[k])]]

\* *mutant* of DecodeEnd: a value alone on the C stack is an answer.
DecodeEndAnyway ==
  /\ stage = "decode" /\ Stopped
  /\ IF pushedc # 1 THEN stage' = "rejected" /\ UNCHANGED <<cells, answer>>
     ELSE stage' = "answered" /\ answer' = ValueOf(cells[Len(cells)]) /\ cells' = Below(1)
  /\ UNCHANGED <<pullvars, value, whole, heard, pushed, pushedc, obj, lost, verdict>>

\* Only a value alone on the C stack is an answer. If something else is there it
\* stays for the engine to pop.
DecodeEnd ==
  /\ stage = "decode" /\ Stopped
  /\ \/ pushedc # 1 /\ stage' = "rejected" /\ UNCHANGED <<cells, answer>>
     \/ pushedc = 1 /\ got # "end" /\ stage' = "rejected" /\ cells' = Below(1)
        /\ UNCHANGED answer
     \/ pushedc = 1 /\ got = "end" /\ stage' = "answered"
        /\ answer' = ValueOf(cells[Len(cells)]) /\ cells' = Below(1)
  /\ UNCHANGED <<pullvars, value, whole, heard, pushed, pushedc, obj, lost, verdict>>

\* The engine pops what an instruction that failed left on the C stack.
Unwind ==
  /\ stage = "rejected" /\ Len(cells) > 1 /\ cells' = Below(1)
  /\ UNCHANGED <<pullvars, value, whole, stage, heard, pushed, pushedc, obj, lost, verdict, answer>>

JsonInit ==
  /\ PullInit /\ value \in Values /\ whole = TRUE /\ stage = "encode" /\ heard = 0
  /\ pushed = FALSE /\ pushedc = 0 /\ cells = <<Marker>> /\ obj = <<>>
  /\ verdict = FALSE /\ answer = Marker /\ lost = FALSE

JsonNext ==
  \/ JsonEncode \/ Cut \/ Parse \/ TestEvent \/ TestEnd
  \/ DecodeRoot \/ DecodeKeyed \/ DecodeElement \/ DecodeEndEvent \/ DecodeEnd \/ Unwind

JsonSpec == JsonInit /\ [][JsonNext]_jsonvars

-----------------------------------------------------------------------------
(* Properties.                                                             *)

RECURSIVE IsJson(_, _), Returned(_), Within(_, _)
\* JSON of at most this nesting, without the numbers JSON has not.
IsJson(v, depth) ==
  CASE v.t \in {"array", "dict"} -> depth > 0 /\ \A k \in DOMAIN v.items : IsJson(v.items[k], depth - 1)
    [] v.t = "num" -> IsFinite(v.n)
    [] OTHER -> v.t # "fun"

\* An integer outside int64 comes back as a double.
Returned(v) ==
  CASE v.t \in {"array", "dict"} -> [v EXCEPT !.items = [k \in DOMAIN @ |-> Returned(@[k])]]
    [] v.t = "num" -> [v EXCEPT !.int = @ /\ FitsI64(v.n)]
    [] OTHER -> v

\* a is what is left of v without some entries and elements, at any depth.
Within(a, v) ==
  CASE v.t = "dict" -> /\ a.t = "dict" /\ DOMAIN a.items \subseteq DOMAIN v.items
                       /\ \A k \in DOMAIN a.items : Within(a.items[k], v.items[k])
    [] v.t = "array" ->
         a.t = "array" /\ \E kept \in SUBSET DOMAIN v.items :
           LET places == SetToSortSeq(kept, <)
           IN Len(places) = Len(a.items) /\ \A k \in DOMAIN places : Within(a.items[k], v.items[places[k]])
    [] OTHER -> a = v

Encoding == {"encode", "aborted", "EINVAL", "toodeep"}


\* JSON_ENCODE writes a text for every value that has one.
EncodesJson ==
  stage # "encode" => (stage \in Encoding <=> ~IsJson(value, EncodeDepth))

\* JSON_DECODE answers exactly for the texts JSON_DECODE_TEST says are JSON, though
\* the two find out in different ways.
TestAgrees ==
  (stage = "answered" => verdict) /\ (stage = "rejected" /\ got # "ENOMEM" => ~verdict)

\* JSON_DECODE never pops what was on the C stack before, counts what it pushes,
\* and gives back all of it when it answers or has no memory, wherever the
\* failure is; no cell refers to a container that was not made. A dictionary that
\* is counted though it could not be made ends this (stage adrift or crashed).
CStackKept ==
  /\ cells # <<>> /\ cells[1] = Marker
  /\ \A k \in 2 .. Len(cells) : cells[k].t = "ref" => cells[k].id \in DOMAIN obj
  /\ stage = "decode" => pushedc = Len(cells) - 1
  /\ stage \in {"answered", "ENOMEM"} => Len(cells) = 1
=============================================================================
