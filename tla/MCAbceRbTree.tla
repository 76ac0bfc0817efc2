---------------------------- MODULE MCAbceRbTree ----------------------------
(* Small instances of AbceRbTree for TLC. *)
EXTENDS AbceRbTree

KeysNine == 1 .. 9
=============================================================================
