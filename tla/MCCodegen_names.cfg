CONSTANTS
  ChainArgs <- Chains
  Abis <- MisnamedAbis
  AntelopeBuiltins <- MoreBuiltins
  None = None
SPECIFICATION Spec
INVARIANT
  WellNamed
