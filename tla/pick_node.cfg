\* Every slice of up to three nodes, with loads below, at and above the threshold.
SPECIFICATION Spec
CONSTANTS
  MaxNodes = 3
  MaxLoad = 3
  LoadThreshold = 2
INVARIANT PicksFirstPickable
CHECK_DEADLOCK FALSE
