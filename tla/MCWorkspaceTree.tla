-------------------------- MODULE MCWorkspaceTree --------------------------
(***************************************************************************)
(* Instances of WorkspaceTree for TLC: a workspace at the top, one under   *)
(* it, and a path with an empty element.                                   *)
(***************************************************************************)
EXTENDS WorkspaceTree, TLC

CONSTANTS a, b

Paths == {<<a>>, <<a, b>>, <<Empty>>}

ConnectionSymmetry == Permutations(Connection)
=============================================================================
