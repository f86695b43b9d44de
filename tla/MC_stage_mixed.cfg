CONSTANTS
    v1 = v1
    v2 = v2
    Vols <- MCVols
    Configs <- MCMixedChap
SPECIFICATION Spec
SYMMETRY MCSymmetry
PROPERTY StagePosture
