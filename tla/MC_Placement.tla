---------------------------- MODULE MC_Placement ----------------------------
(* Small instances of Placement for TLC.                                   *)
EXTENDS Placement, TLC

CONSTANTS n1, n2

MCNodes == {n1, n2}

(* No preferred node, or either node.                                      *)
MCPreferredNodes == {NoNode, n1, n2}

(* Nodes are interchangeable: no definition names one.                     *)
MCSymmetry == Permutations(MCNodes)
=============================================================================
