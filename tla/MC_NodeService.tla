---------------------------- MODULE MC_NodeService ----------------------------
(* Small instances of NodeService for TLC.                                 *)
EXTENDS NodeService, TLC

CONSTANTS t1, t2

MCTargets == {t1, t2}

(* Targets are interchangeable: no definition names one.                   *)
MCSymmetry == Permutations(MCTargets)
=============================================================================
