CONSTANTS
  v1 = v1
  v2 = v2
  t1 = t1
  Vols <- MCVols
  Targets <- MCTargets
  VolTarget <- MCVolTarget
  Modes <- MCModesFile
SPECIFICATION Spec
SYMMETRY MCSymmetry
INVARIANT UnstageLeavesNoMap
