SPECIFICATION Spec
CONSTANTS
  a = a
  b = b
  x = x
  r = r
  s = s
  MaxCases = 3
  Names <- MCNames
  Rows <- MCRows
  Required <- MCRequired
  Fits <- MCFits
  Modes <- MCModes
  Documents <- MCDocuments
INVARIANTS AcceptedIsExactCover
PROPERTY RefinesVerdict
\* A loader returns: a verdict is final.
CHECK_DEADLOCK FALSE
