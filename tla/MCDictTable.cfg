SPECIFICATION Spec
CONSTANTS
  k1 = k1
  k2 = k2
  k3 = k3
  k4 = k4
  Key = {k1, k2, k3, k4}
  Value = {v1, v2}
  None = None
  InitialCapacity = 4
  LoadNumerator = 1
  LoadDenominator = 2
  HashString <- Hashes
SYMMETRY KeyAndValueSymmetry
INVARIANT TableSound
PROPERTY MapSpec
