-------------------------- MODULE PlacementProofs --------------------------
(***************************************************************************)
(* Proofs about the placement helpers of Placement that are not folds,    *)
(* for every list of groups: SelectLVG returns the first group on the     *)
(* node, as the spec's SelectGroupForNode does, and GetLLVSpec, fed by     *)
(* IsContiguous, builds the spec's LLV spec.  GetNodeWithMaxFreeSpace      *)
(* (a FoldLeft) and GetStorageClassLVGsAndParameters (a SelectSeq) are     *)
(* recursive over the list and stay with TLC.                              *)
(***************************************************************************)
EXTENDS Placement, WellFoundedInduction, TLAPS

(* A nonempty set of naturals has a least element, and Min (FiniteSetsExt, *)
(* which SelectInSeq uses) is one: < is well-founded on Nat.                *)
LEMMA MinLeast ==
    ASSUME NEW S \in SUBSET Nat, S # {}
    PROVE  Min(S) \in S /\ \A y \in S : Min(S) <= y
<1>1. PICK m \in S : \A y \in S : ~(<<y, m>> \in OpToRel(<, Nat))
  BY WFMin, NatLessThanWellFounded
<1>2. ASSUME NEW y \in S, y < m PROVE FALSE
  <2>1. <<y, m>> \in Nat \X Nat /\ <<y, m>>[1] < <<y, m>>[2]
    BY <1>2
  <2>2. <<y, m>> \in OpToRel(<, Nat)
    BY <2>1, Zenon DEF OpToRel
  <2>. QED  BY <1>1, <1>2, <2>2
<1>3. \A y \in S : m <= y
  BY <1>2
<1>. QED  BY <1>3 DEF Min

(* SelectLVG answers with a group exactly when one of the list is on the  *)
(* node, and then with the first such group: no group before it is on the *)
(* node.  Otherwise it answers NoLVGOnNode.  This is the spec's            *)
(* SelectGroupForNode, for every list and node.                            *)
THEOREM SelectLVGFirst ==
    ASSUME NEW T, NEW groups \in Seq(T), NEW nodeName
    PROVE  LET sel == SelectLVG(groups, nodeName) IN
           /\ sel.err \in {"none", "NoLVGOnNode"}
           /\ sel.err = "none" =>
                 \E i \in 1 .. Len(groups) :
                    /\ groups[i] = sel.lvg
                    /\ NodeName(groups[i]) = nodeName
                    /\ \A j \in 1 .. i - 1 : NodeName(groups[j]) # nodeName
           /\ sel.err = "NoLVGOnNode" =>
                 \A i \in 1 .. Len(groups) : NodeName(groups[i]) # nodeName
<1> DEFINE I == {i \in 1 .. Len(groups) : NodeName(groups[i]) = nodeName}
<1>0. Len(groups) \in Nat /\ I \subseteq 1 .. Len(groups)
  OBVIOUS
<1>1. SelectInSeq(groups, LAMBDA lvg : NodeName(lvg) = nodeName)
        = IF I # {} THEN Min(I) ELSE 0
  BY DEF SelectInSeq
<1>2. CASE I # {}
  <2>0. I \in SUBSET Nat /\ I # {}
    BY <1>0, <1>2
  <2>1. Min(I) \in I /\ \A y \in I : Min(I) <= y
    BY <2>0, MinLeast
  <2>2. SelectLVG(groups, nodeName) = [err |-> "none", lvg |-> groups[Min(I)]]
    BY <1>1, <1>2, <2>1 DEF SelectLVG
  <2>3. \A j \in 1 .. Min(I) - 1 : NodeName(groups[j]) # nodeName
    <3> SUFFICES ASSUME NEW j \in 1 .. Min(I) - 1,
                        NodeName(groups[j]) = nodeName
                 PROVE  FALSE
      OBVIOUS
    <3>1. j \in I
      BY <1>0, <2>1
    <3>. QED  BY <1>0, <2>1, <3>1
  <2>4. Min(I) \in 1 .. Len(groups) /\ NodeName(groups[Min(I)]) = nodeName
    BY <2>1
  <2>5. \E i \in 1 .. Len(groups) :
           /\ groups[i] = groups[Min(I)]
           /\ NodeName(groups[i]) = nodeName
           /\ \A j \in 1 .. i - 1 : NodeName(groups[j]) # nodeName
    BY <2>3, <2>4
  <2>6. /\ SelectLVG(groups, nodeName).err = "none"
        /\ SelectLVG(groups, nodeName).lvg = groups[Min(I)]
    BY <2>2
  <2>. QED  BY <2>5, <2>6, Zenon
<1>3. CASE I = {}
  <2>1. SelectLVG(groups, nodeName) = [err |-> "NoLVGOnNode", lvg |-> ZeroLVG]
    BY <1>1, <1>3 DEF SelectLVG
  <2>. QED  BY <1>3, <2>1
<1>. QED  BY <1>2, <1>3

(* GetLLVSpec, given IsContiguous of the request's parameter, is the      *)
(* spec's BuildSpec for a group the storage class names: the class's pool  *)
(* for thin, and Thick.Contiguous set only for a thick volume whose        *)
(* parameter is "true" (a thin request's parameter is ignored).           *)
THEOREM LLVSpecMatchesBuilder ==
    ASSUME NEW lvg, NEW map, NEW type \in {LVMTypeThick, LVMTypeThin},
           NEW param, lvg.name \in DOMAIN map
    PROVE  GetLLVSpec(lvg, map, type, IsContiguous(param, type))
             = BuildSpec(lvg, map, type, param)
<1>1. (IF type = LVMTypeThin THEN PoolOf(map, lvg.name) ELSE NoPool)
        = (IF type = LVMTypeThin THEN map[lvg.name] ELSE NoPool)
  BY DEF PoolOf
<1>2. (type = LVMTypeThick /\ IsContiguous(param, type))
        = (type = LVMTypeThick /\ param = "true")
  BY DEF IsContiguous, LVMTypeThick, LVMTypeThin
<1>. QED  BY <1>1, <1>2 DEF GetLLVSpec, BuildSpec
=============================================================================
