CONSTANTS
  Bits = 4
  MaxNetworks = 3
  MTUOf <- MCMTUOf
  None = None
SPECIFICATION Spec
INVARIANT MTUOfLongest
CHECK_DEADLOCK FALSE
