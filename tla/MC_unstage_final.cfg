CONSTANTS
  v1 = v1
  v2 = v2
  t1 = t1
  Vols <- MCVols
  Targets <- MCTargets
  VolTarget <- MCVolTarget
  Modes <- MCModesFile
  PublishErr <- MCPublishErrFinal
SPECIFICATION Spec
SYMMETRY MCSymmetry
INVARIANT UnstagedUnmounted
