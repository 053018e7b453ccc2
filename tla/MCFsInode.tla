------------------------------ MODULE MCFsInode ------------------------------
(* FsInode instantiated for TLC: two names, two descriptors, 2-byte blocks *)
(* (one uint16_t entry per indirect block), two direct entries and six     *)
(* blocks, of which 4 and 5 are data blocks.                               *)
EXTENDS FsInode

CONSTANTS n1, n2

MCNames == {n1, n2}
MCBufs == {<<1, 2, 3>>}
MCReadLens == {2}
MCSeeks == {0, 2}
=============================================================================
