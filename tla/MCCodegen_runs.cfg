CONSTANTS
  ChainArgs <- Chains
  Abis <- SomeAbis
  AntelopeBuiltins <- SomeBuiltins
  None = None
SPECIFICATION Spec
INVARIANTS
  UniqueItems
  OrderIndependent
  PacksAsTheAbi
  KeptOnError
