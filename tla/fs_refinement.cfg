\* fs.c against FsAbstract: a whole FAT persisted, calls in any order.
CONSTANTS
  n1 = n1
  n2 = n2
  Names <- MCNames
  MaxFiles = 2
  MaxFds = 2
  BlockSize = 2
  DiskBlocks = 6
  FatEntries = 6
  Bufs <- MCBufs
  ReadLens <- MCReadLens
  Seeks <- MCSeeks
  NoName = NoName
  NoFile = NoFile
  Closed = Closed
SPECIFICATION FsSpec
VIEW FsView
INVARIANTS
  FatWellFormed
PROPERTIES
  FsRefines
