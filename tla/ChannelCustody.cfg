CONSTANTS
  CapacityCap = 2
  Drops = {1, 2, 3}
  Channels = {c1, c2}
  Keys = {k1, k2}
  MaxRestarts = 1
  MaxClaims = 3
SYMMETRY MCSymmetry
SPECIFICATION LaneSpec
INVARIANTS ExposureBounded ClaimsGrow
