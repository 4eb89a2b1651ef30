--------------------------- MODULE MC_LvmCsiClient ---------------------------
(* Small instances of LvmCsiClient for TLC.                                *)
EXTENDS LvmCsiRefinement, TLC

CONSTANTS c1, c2

MCCallers == {c1, c2}

(* Handlers are interchangeable.                                           *)
MCSymmetry == Permutations(MCCallers)
=============================================================================
