---------------------------- MODULE MCReplicator ----------------------------
(***************************************************************************)
(* Instances of Replicator for TLC: two databases that replicate to each   *)
(* other a parent and its child.                                           *)
(***************************************************************************)
EXTENDS Replicator, TLC

CONSTANTS g1, g2

ChildOfG1 == g2 :> g1 @@ g1 :> NoGuid

SiteSymmetry == Permutations(Site)
=============================================================================
