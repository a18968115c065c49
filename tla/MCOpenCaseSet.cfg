SPECIFICATION Spec
CONSTANTS
  a = a
  b = b
  x = x
  r = r
  s = s
  MaxCases = 3
  Names <- MCNames
  Rows <- MCRows
  Required <- MCRequired
  Fits <- MCFits
  Modes <- MCOpenModes
  Documents <- MCDocuments
INVARIANT NoCaseDropsOut
\* A loader returns: a verdict is final.
CHECK_DEADLOCK FALSE
