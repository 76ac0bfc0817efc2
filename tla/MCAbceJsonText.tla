--------------------------- MODULE MCAbceJsonText ---------------------------
(* Instances of AbceJsonText for TLC. *)
EXTENDS AbceJsonText

AllTyped == {"{", "}", "[", "]", ",", ":", "quote", "t", "f", "n", "-", ".", "0", "1", "e",
             "+", "x", " "}
AllHandled == {"start", "end", "leaf"}
=============================================================================
