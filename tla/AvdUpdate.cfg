SPECIFICATION AvdSpec
CONSTANTS
  b1 = b1
  b2 = b2
  Builders <- OneBuilder
  Swaps <- BothSwaps
  MaxKernel = 2
  Branches <- OneBranch
  Kept <- OneKept
INVARIANT RebuiltBeforeReboot
