---------------------------- MODULE MC_NodeStage ----------------------------
(* Model-checking instance of NodeStage: two volumes of one node, so that *)
(* one volume's stage can change the host posture the other's publish     *)
(* context recorded.                                                      *)
EXTENDS NodeStage, TLC

CONSTANTS v1, v2

MCVols == {v1, v2}

\* Every volume asks for the same useCHAP (one StorageClass).
MCSameChap == {[v \in MCVols |-> m] : m \in UseChap}

\* The volumes may ask for different useCHAP values (two StorageClasses).
MCMixedChap == [MCVols -> UseChap]

MCSymmetry == Permutations(MCVols)
=============================================================================
