\* Two threads whose TLS calls interleave; a clone shares the pages.
\* The process stops when it dies; that is not a deadlock of the model.
CHECK_DEADLOCK FALSE
CONSTANTS
  t1 = t1
  t2 = t2
  Tids <- MCTids
  PageSize = 2
  UWidth = 4
  MaxFrames = 4
  Sizes <- ThreeOnly
  Offsets <- MCOffsets
  Lengths <- OneLength
  Bytes <- MCBytes
  AtomicCalls = FALSE
SPECIFICATION TlsSpec
INVARIANT NoApiFault
