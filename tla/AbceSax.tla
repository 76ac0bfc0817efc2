------------------------------ MODULE AbceSax ------------------------------
(***************************************************************************)
(* What a JSON parser promises the program that listens to it: the events  *)
(* are those of a walk over one tree. A value inside a dictionary has a    *)
(* key, a value inside an array or at the root has none, every container   *)
(* is ended by an event of its own kind that carries the key it was        *)
(* started with, and nothing follows the root.                             *)
(***************************************************************************)
EXTENDS Integers, Sequences

VARIABLES
  open,   \* the containers that are open, outermost first
  said,   \* the events so far
  broken  \* the parser has given up

saxvars == <<open, said, broken>>

Top == open[Len(open)]

\* The key a value has at this place.
Placed(key) ==
  IF open = <<>> THEN said = <<>> /\ ~key.present ELSE key.present = Top.dict

Init == open = <<>> /\ said = <<>> /\ broken = FALSE

\* The listener goes on with these containers open, or refuses the event.
Goes(o) == \/ open' = o /\ broken' = FALSE
           \/ open' = <<>> /\ broken' = TRUE

Start(e) == e.ev = "start" /\ Placed(e.key)
            /\ Goes(Append(open, [dict |-> e.dict, key |-> e.key]))

End(e) == /\ e.ev = "end" /\ open # <<>> /\ e.dict = Top.dict /\ e.key = Top.key
          /\ Goes(SubSeq(open, 1, Len(open) - 1))

Leaf(e) == e.ev = "leaf" /\ Placed(e.key) /\ Goes(open)

Say == LET e == said'[Len(said) + 1]
       IN Len(said') = Len(said) + 1 /\ said' = Append(said, e) /\ (Start(e) \/ End(e) \/ Leaf(e))

GiveUp == open' = <<>> /\ broken' = TRUE /\ UNCHANGED said

Next == ~broken /\ (Say \/ GiveUp)

SaxSpec == Init /\ [][Next]_saxvars
=============================================================================
