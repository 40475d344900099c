CONSTANTS
  Calls = {c1, c2, c3, c4}
  Names = {n1}
  FromApp = FromApp
  None = None
  MultiThread = FALSE
  MayFail = TRUE
  MayCancel = FALSE
  c1 = c1
  c2 = c2
  c3 = c3
  c4 = c4
  n1 = n1
SPECIFICATION Spec
INVARIANT
  OneFetchInFlight
