--------------------------- MODULE MC_LvmPlacement ---------------------------
(* Small instances of LvmPlacement for TLC.                                *)
EXTENDS LvmPlacement, TLC

CONSTANTS n1, n2

MCNodes == {n1, n2}

(* Nodes are interchangeable: no definition names one.                     *)
MCSymmetry == Permutations(MCNodes)
=============================================================================
