------------------------- MODULE MCWorkspaceContent -------------------------
(***************************************************************************)
(* An instance of WorkspaceContent for TLC: workspace 2 under 1.  The ids  *)
(* of the MidgardWorkspace 2 are 0 and 2, those of its context have 1 too. *)
(***************************************************************************)
EXTENDS WorkspaceContent, TLC

Ups == <<0, 1>>

\* The walk of midgard_core_workspace_get_context_ids, id by id.
Walk[w \in Workspace] == IF w = 0 THEN {} ELSE {w} \cup Walk[Up[w]]

ASSUME WalkAssumption == \A w \in Workspace : ContextIds(w) = Walk[w]

Symmetry == Permutations(Caller) \cup Permutations(Data)
=============================================================================
