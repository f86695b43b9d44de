CONSTANTS
    v1 = v1
    v2 = v2
    Vols <- MCVols
    Configs <- MCSameChap
SPECIFICATION Spec
SYMMETRY MCSymmetry
PROPERTY StagePosture
