CONSTANTS
  Calls = {c1, c2, c3, c4}
  Names = {n1, n2}
  FromApp = FromApp
  None = None
  MultiThread = FALSE
  MayFail = FALSE
  MayCancel = TRUE
  c1 = c1
  c2 = c2
  c3 = c3
  c4 = c4
  n1 = n1
  n2 = n2
SPECIFICATION Spec
SYMMETRY Symmetry
INVARIANT
  OneFetchInFlight
PROPERTY
  RefinesSingleFlight
