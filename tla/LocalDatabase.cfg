SPECIFICATION Spec
CONSTANTS
  Data = {d1, d2}
  IdMax = 5
INVARIANT NextIdIsSmallestGap
