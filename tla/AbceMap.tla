------------------------------ MODULE AbceMap ------------------------------
(***************************************************************************)
(* What a dictionary promises: a finite map, and the answer to each        *)
(* request.                                                                *)
(***************************************************************************)
CONSTANTS Key, Value, NULL

VARIABLES map, answer

mapvars == <<map, answer>>

Init == map = <<>> /\ answer = NULL

Put(k, v) ==
  /\ map' = [x \in DOMAIN map \cup {k} |-> IF x = k THEN v ELSE map[x]]
  /\ answer' = "ok"
Refuse == answer' = "nomem" /\ map' = map

Take(k) ==
  /\ k \in DOMAIN map
  /\ map' = [x \in DOMAIN map \ {k} |-> map[x]] /\ answer' = "ok"
Look(k) == answer' = (IF k \in DOMAIN map THEN map[k] ELSE NULL) /\ map' = map
Miss(k) == k \notin DOMAIN map /\ answer' = "absent" /\ map' = map

Next ==
  \/ \E k \in Key : Take(k) \/ Look(k) \/ Miss(k) \/ \E v \in Value : Put(k, v)
  \/ Refuse

Spec == Init /\ [][Next]_mapvars
=============================================================================
