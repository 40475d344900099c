CONSTANTS
  Keys <- Few
  RowsPerRequest = 2
  MaxFailures = 2
  None = None
SPECIFICATION FairSpec
INVARIANTS
  TypeOK
  FullScan
  OncePerPass
PROPERTY
  ScanEnds
