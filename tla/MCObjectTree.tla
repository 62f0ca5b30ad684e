---------------------------- MODULE MCObjectTree ----------------------------
(* Small instances of ObjectTree for TLC. *)
EXTENDS ObjectTree
=============================================================================
