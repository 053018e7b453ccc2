\* test.c against FsAbstract: files written, then the disk unmounted and
\* mounted again.
\* Undefined behaviour stops the model; that is not a deadlock of the code.
CHECK_DEADLOCK FALSE
CONSTANTS
  n1 = n1
  n2 = n2
  Names <- MCNames
  MaxFiles = 2
  MaxOpen = 2
  BlockSize = 2
  DiskBlocks = 6
  NDirect = 2
  Bufs <- MCBufs
  ReadLens <- MCReadLens
  Seeks <- MCSeeks
  NoName = NoName
  Junk = Junk
  NoFile = NoFile
  Closed = Closed
SPECIFICATION FsISpec
PROPERTY FsIRefines
