\* Two threads whose TLS calls do not overlap; in-range offsets.
CONSTANTS
  t1 = t1
  t2 = t2
  Tids <- MCTids
  PageSize = 2
  UWidth = 4
  MaxFrames = 4
  Sizes <- MCSizes
  Offsets <- MCOffsets
  Lengths <- MCLengths
  Bytes <- MCBytes
  AtomicCalls = TRUE
SPECIFICATION TlsSpec
INVARIANTS
  TlsTypeOK
  RefCountsExact
  CowIsolation
  NoApiFault
  InBounds
