SPECIFICATION Spec
CONSTANTS
  ComponentMax = 2
  MaxEncodedLength <- MCMaxEncodedLength
  MaxChunks <- MCMaxChunks
  MaxTransportLength = 23
  Prefix <- MCPrefix
  LastAlphabetByte = 11
  Inputs <- MCInputs
INVARIANTS NoSliceOutOfRange CodecIsExact
\* A decoder returns.
CHECK_DEADLOCK FALSE
