SPECIFICATION AvdSpec
CONSTANTS
  b1 = b1
  b2 = b2
  Builders <- TwoBuilders
  Swaps <- BothSwaps
  MaxKernel = 2
  Branches <- TwoBranches
  Kept <- OneKept
SYMMETRY BuilderSymmetry
CONSTRAINTS TwoAtWork SwapsMeetClients SwapsAreOfSeries
INVARIANTS AvdTypeOK OverrideFitsItsKernel SeriesIsPicked UndoneStaysUndone LossIsReported
