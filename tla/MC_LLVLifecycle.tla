-------------------------- MODULE MC_LLVLifecycle --------------------------
(* Small instances of LLVLifecycle for TLC.                                *)
EXTENDS LLVRefinement, TLC

CONSTANTS c1, c2

MCCallers == {c1, c2}

(* Handlers are interchangeable.                                           *)
MCSymmetry == Permutations(MCCallers)
=============================================================================
