SPECIFICATION Spec
CONSTANTS
  N = 2
  MaxDatagrams = 2
INVARIANT
  NeverBlocks
