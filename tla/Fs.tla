--------------------------------- MODULE Fs ---------------------------------
(***************************************************************************)
(* The FAT file system of EC440_HW5/fs.c.  The library is single-threaded: *)
(* one caller, one call at a time, so every API call is one action that    *)
(* goes through the whole function, its loops written as RECURSIVE         *)
(* operators that run them iteration by iteration.                         *)
(*                                                                         *)
(* State: the in-memory FAT (fat_table), root directory and descriptor     *)
(* table; the disk's data blocks; and the metadata blocks on disk (the FAT *)
(* blocks and the directory block) as write_metadata_to_disk leaves them.  *)
(* Block contents are sequences of BlockSize bytes.  FAT_EOF (0xFFFFFFFF)  *)
(* is -1 here; FAT_FREE is 0.  The superblock is the constant layout that  *)
(* make_fs writes.  The virtual disk (disk.c) is not in the repository;    *)
(* block_read and block_write of an in-range block are taken to succeed.  *)
(***************************************************************************)
EXTENDS Integers, Sequences, FiniteSets, SequencesExt

CONSTANTS
  Names,       \* file names; strlen(name) < FS_MAX_FILENAME_LENGTH for all
  MaxFiles,    \* FS_MAX_FILES
  MaxFds,      \* FS_MAX_FILE_DESCRIPTORS
  BlockSize,   \* BLOCK_SIZE, in bytes
  DiskBlocks,  \* DISK_BLOCKS = superblock.total_blocks
  FatEntries,  \* FAT entries the fat_block_count FAT blocks hold on disk
  Bufs,        \* buffers passed to fs_write
  ReadLens,    \* nbyte values passed to fs_read
  Seeks,       \* offsets and lengths passed to fs_lseek and fs_truncate
  NoName,      \* the name of a zeroed directory entry
  NoFile,      \* (abstract) a name that is not a file
  Closed       \* (abstract) a descriptor that is not open

ASSUME FatEntries \in 1..DiskBlocks

FAT_FREE == 0
FAT_EOF == -1
DataStart == 4                       \* superblock.data_start_block
Blocks == 0..DiskBlocks - 1
DataBlocks == DataStart..DiskBlocks - 1
FatVals == {FAT_FREE, FAT_EOF} \cup DataBlocks
DirSlots == 0..MaxFiles - 1
FdIds == 0..MaxFds - 1

EmptyEntry == [inUse |-> FALSE, name |-> NoName, size |-> 0, first |-> FAT_FREE]
EmptyDir == [e \in DirSlots |-> EmptyEntry]
ClosedFd == [inUse |-> FALSE, entry |-> 0, offset |-> 0]
FreeFat == [i \in Blocks |-> FAT_FREE]
ZeroBlock == [k \in 1..BlockSize |-> 0]

VARIABLES
  formatted, \* the disk's superblock carries FS_MAGIC_NUMBER
  mounted,   \* mounted
  fat,       \* fat_table (all FAT_FREE while freed)
  dir,       \* root_directory
  fdt,       \* fd_table
  disk,      \* the data blocks on disk
  dfat,      \* the FAT entries stored in the FAT blocks
  ddir,      \* the directory stored in the directory block
  got        \* the bytes fs_read copied into buf, if the last call was one

vars == <<formatted, mounted, fat, dir, fdt, disk, dfat, ddir, got>>

MinOf(a, b) == IF a < b THEN a ELSE b
MaxOf(a, b) == IF a > b THEN a ELSE b

-----------------------------------------------------------------------------
(* allocate_free_block: the lowest free data block, or FAT_FREE if none;   *)
(* Claim marks the block FAT_EOF.                                          *)
AllocIdx(f) ==
  LET free == {i \in DataBlocks : f[i] = FAT_FREE}
  IN IF free = {} THEN FAT_FREE ELSE Min(free)
Claim(f, i) == IF i = FAT_FREE THEN f ELSE [f EXCEPT ![i] = FAT_EOF]

(* free_block_chain                                                        *)
RECURSIVE FreeChain(_, _)
FreeChain(f, b) ==
  IF b = FAT_EOF \/ b = FAT_FREE THEN f
  ELSE FreeChain([f EXCEPT ![b] = FAT_FREE], f[b])

(* find_file_in_directory / find_free_directory_entry: lowest index.       *)
FindFile(n) ==
  LET hits == {e \in DirSlots : dir[e].inUse /\ dir[e].name = n}
  IN IF hits = {} THEN -1 ELSE Min(hits)
FreeSlot ==
  LET free == {e \in DirSlots : ~dir[e].inUse}
  IN IF free = {} THEN -1 ELSE Min(free)

(* write_metadata_to_disk: the FAT blocks and the directory block.         *)
WriteMetadata(f, d) ==
  /\ dfat' = [i \in 0..FatEntries - 1 |-> f[i]]
  /\ ddir' = d

-----------------------------------------------------------------------------
(* The block walks of fs_write.  Seek: "while (off >= BLOCK_SIZE && cur != *)
(* FAT_EOF) cur = fat_table[cur]".                                         *)
RECURSIVE Seek(_, _, _)
Seek(f, b, t) ==
  IF t >= BlockSize /\ b # FAT_EOF THEN Seek(f, f[b], t - BlockSize) ELSE <<b, t>>

(* Grow: "while (off >= BLOCK_SIZE)" allocate and link a block; an        *)
(* allocation failure leaves what was linked so far.                       *)
RECURSIVE Grow(_)
Grow(g) ==
  IF g.t < BlockSize THEN g
  ELSE LET n == AllocIdx(g.fat) IN
    IF n = FAT_FREE THEN [g EXCEPT !.ok = FALSE]
    ELSE Grow([g EXCEPT !.fat = IF g.cur = FAT_EOF THEN Claim(g.fat, n)
                                ELSE [Claim(g.fat, n) EXCEPT ![g.cur] = n],
                        !.first = IF g.cur = FAT_EOF THEN n ELSE g.first,
                        !.cur = n, !.t = g.t - BlockSize])

RECURSIVE LastBlock(_, _)
LastBlock(f, b) == IF f[b] = FAT_EOF THEN b ELSE LastBlock(f, f[b])

(* Reach: Seek, Grow, then, when the walk ended on FAT_EOF, allocate a     *)
(* block and append it to the end of the chain.  Returns the block and    *)
(* in-block offset to start at, or ok = FALSE.                             *)
Reach(f, first, off) ==
  LET s == Seek(f, first, off)
      g == Grow([fat |-> f, first |-> first, cur |-> s[1], t |-> s[2], ok |-> TRUE])
      n == AllocIdx(g.fat)
  IN IF ~g.ok \/ g.cur # FAT_EOF THEN g
     ELSE IF n = FAT_FREE THEN [g EXCEPT !.ok = FALSE]
     ELSE [g EXCEPT !.fat = IF g.first = FAT_EOF THEN Claim(g.fat, n)
                            ELSE [Claim(g.fat, n) EXCEPT ![LastBlock(g.fat, g.first)] = n],
                    !.first = IF g.first = FAT_EOF THEN n ELSE g.first,
                    !.cur = n]

(* Fill: the copy loop "while (remaining > 0)" of fs_write, copying src   *)
(* (zeros or the caller's buf) chunk by chunk; at a block boundary with    *)
(* bytes left it follows the chain or allocates, and stops (ok = FALSE)    *)
(* when no block is free.                                                  *)
RECURSIVE Fill(_, _)
Fill(c, src) ==
  IF c.rem = 0 THEN c
  ELSE LET chunk == MinOf(BlockSize - c.oib, c.rem)
           blk == [k \in 1..BlockSize |->
                     IF k > c.oib /\ k <= c.oib + chunk THEN src[c.done + k - c.oib]
                     ELSE c.disk[c.b][k]]
           d == [c EXCEPT !.disk[c.b] = blk, !.done = @ + chunk,
                          !.rem = @ - chunk, !.oib = @ + chunk]
           n == AllocIdx(d.fat)
       IN IF d.oib = BlockSize /\ d.rem > 0
          THEN IF d.fat[d.b] # FAT_EOF THEN Fill([d EXCEPT !.b = d.fat[d.b], !.oib = 0], src)
               ELSE IF n = FAT_FREE THEN [d EXCEPT !.ok = FALSE]
               ELSE Fill([d EXCEPT !.fat = [Claim(d.fat, n) EXCEPT ![d.b] = n],
                                   !.b = n, !.oib = 0], src)
          ELSE Fill(d, src)

FillFrom(w, r, src) ==
  Fill([fat |-> r.fat, disk |-> w.disk, b |-> r.cur, oib |-> r.t,
        rem |-> Len(src), done |-> 0, ok |-> TRUE], src)

(* Mutant: the gap past the end of file is not zero-filled.               *)
ExtendNoZero(w) ==
  LET r == Reach(w.fat, w.first, w.size)
  IN IF ~r.ok
     THEN [w EXCEPT !.fat = r.fat, !.first = r.first, !.off = w.size, !.stop = TRUE]
     ELSE [w EXCEPT !.fat = r.fat, !.first = r.first, !.size = w.off]

(* The "offset past end of file" part of fs_write: zero-fill the gap.     *)
(* Its failure paths set the offset to the size plus what was zeroed.      *)
Extend(w) ==
  LET r == Reach(w.fat, w.first, w.size)
      c == FillFrom(w, r, [i \in 1..w.off - w.size |-> 0])
  IN IF ~r.ok
     THEN [w EXCEPT !.fat = r.fat, !.first = r.first, !.off = w.size, !.stop = TRUE]
     ELSE IF ~c.ok
     THEN [w EXCEPT !.fat = c.fat, !.disk = c.disk, !.first = r.first,
                    !.off = w.size + c.done, !.size = w.size + c.done, !.stop = TRUE]
     ELSE [w EXCEPT !.fat = c.fat, !.disk = c.disk, !.first = r.first, !.size = w.off]

(* The data part of fs_write: walk to the offset, copy buf, advance.       *)
WritePart(w, buf) ==
  LET r == Reach(w.fat, w.first, w.off)
      c == FillFrom(w, r, buf)
  IN IF ~r.ok
     THEN [w EXCEPT !.fat = r.fat, !.first = r.first, !.size = MaxOf(w.size, w.off)]
     ELSE [w EXCEPT !.fat = c.fat, !.disk = c.disk, !.first = r.first,
                    !.off = w.off + c.done, !.size = MaxOf(w.size, w.off + c.done)]

(* fs_read's loops: the bytes from block b, in-block offset oib on.        *)
RECURSIVE Gather(_, _, _)
Gather(b, oib, rem) ==
  IF rem = 0 THEN <<>>
  ELSE LET chunk == MinOf(BlockSize - oib, rem)
           bytes == SubSeq(disk[b], oib + 1, oib + chunk)
       IN IF oib + chunk = BlockSize /\ rem > chunk /\ fat[b] # FAT_EOF
          THEN bytes \o Gather(fat[b], 0, rem - chunk)
          ELSE bytes

(* fs_truncate's walk: the block holding byte `length`, or FAT_EOF.       *)
RECURSIVE TruncWalk(_, _, _)
TruncWalk(b, done, length) ==
  IF b # FAT_EOF /\ done + BlockSize <= length
  THEN TruncWalk(fat[b], done + BlockSize, length) ELSE b

-----------------------------------------------------------------------------
FsInit ==
  /\ formatted = FALSE
  /\ mounted = FALSE
  /\ fat = FreeFat
  /\ dir = EmptyDir
  /\ fdt = [j \in FdIds |-> ClosedFd]
  /\ disk = [b \in DataBlocks |-> ZeroBlock]
  /\ dfat = [i \in 0..FatEntries - 1 |-> FAT_FREE]
  /\ ddir = EmptyDir
  /\ got = <<>>

(* make_fs: a fresh disk with an empty FAT and directory.  open_disk fails *)
(* while a disk is open, so it is taken only when nothing is mounted.      *)
MakeFs ==
  /\ ~mounted
  /\ formatted' = TRUE
  /\ disk' = [b \in DataBlocks |-> ZeroBlock]
  /\ dir' = EmptyDir
  /\ fat' = FreeFat
  /\ WriteMetadata(FreeFat, EmptyDir)
  /\ got' = <<>>
  /\ UNCHANGED <<mounted, fdt>>

(* mount_fs: read the FAT blocks into a malloc'd table of total_blocks     *)
(* entries; entries past what the FAT blocks hold are never written and    *)
(* keep whatever the heap held (any value).                                *)
Mount ==
  /\ ~mounted /\ formatted
  /\ \E junk \in [FatEntries..DiskBlocks - 1 -> FatVals] :
       fat' = [i \in Blocks |-> IF i < FatEntries THEN dfat[i] ELSE junk[i]]
  /\ dir' = ddir
  /\ mounted' = TRUE
  /\ fdt' = [j \in FdIds |-> ClosedFd]
  /\ got' = <<>>
  /\ UNCHANGED <<formatted, disk, dfat, ddir>>

(* umount_fs: save the metadata, free the FAT.  root_directory and        *)
(* fd_table keep their contents, but nothing reads them before mount_fs    *)
(* overwrites both (every call but fs_close checks `mounted`, and a        *)
(* descriptor fs_close frees is cleared by the mount anyway), so the model *)
(* clears them here.                                                       *)
Umount ==
  /\ mounted
  /\ WriteMetadata(fat, dir)
  /\ fat' = FreeFat
  /\ dir' = EmptyDir
  /\ fdt' = [j \in FdIds |-> ClosedFd]
  /\ mounted' = FALSE
  /\ got' = <<>>
  /\ UNCHANGED <<formatted, disk>>

(* fs_create: a new entry in the lowest free slot; nothing is saved.       *)
FsCreate(n) ==
  /\ mounted /\ FindFile(n) < 0 /\ FreeSlot >= 0
  /\ dir' = [dir EXCEPT ![FreeSlot] =
               [inUse |-> TRUE, name |-> n, size |-> 0, first |-> FAT_EOF]]
  /\ got' = <<>>
  /\ UNCHANGED <<formatted, mounted, fat, fdt, disk, dfat, ddir>>

(* fs_open: the lowest free descriptor, at offset 0.                       *)
FsOpen(n) ==
  /\ mounted /\ FindFile(n) >= 0
  /\ \E j \in FdIds :
       /\ ~fdt[j].inUse /\ \A k \in FdIds : k < j => fdt[k].inUse
       /\ fdt' = [fdt EXCEPT ![j] = [inUse |-> TRUE, entry |-> FindFile(n), offset |-> 0]]
  /\ got' = <<>>
  /\ UNCHANGED <<formatted, mounted, fat, dir, disk, dfat, ddir>>

(* fs_close: no check that a disk is mounted.  It clears in_use only; the  *)
(* slot's other fields are never read again before fs_open overwrites      *)
(* them, so the model zeroes them.                                         *)
FsClose(j) ==
  /\ fdt[j].inUse
  /\ fdt' = [fdt EXCEPT ![j] = ClosedFd]
  /\ got' = <<>>
  /\ UNCHANGED <<formatted, mounted, fat, dir, disk, dfat, ddir>>

(* fs_read: walk to the offset's block ("return 0" on reaching FAT_EOF),   *)
(* copy min(nbyte, filesize - offset) bytes, advance the offset.           *)
FsRead(j, nbyte) ==
  /\ mounted /\ fdt[j].inUse
  /\ LET ent == dir[fdt[j].entry]
         off == fdt[j].offset
         s == Seek(fat, ent.first, off)
         r == Gather(s[1], s[2], MinOf(nbyte, ent.size - off))
     IN IF ent.first = FAT_EOF \/ off >= ent.size \/ s[1] = FAT_EOF
        THEN /\ got' = <<>>
             /\ UNCHANGED fdt
        ELSE /\ got' = r
             /\ fdt' = [fdt EXCEPT ![j].offset = off + Len(r)]
  /\ UNCHANGED <<formatted, mounted, fat, dir, disk, dfat, ddir>>

(* fs_write: allocate the first block of an empty file ("return 0" when   *)
(* none is free), zero-fill up to the offset if it is past the end, write  *)
(* buf, move the offset and size, and save the metadata.                   *)
FsWrite(j, buf) ==
  /\ mounted /\ fdt[j].inUse
  /\ LET e == fdt[j].entry
         a == AllocIdx(fat)
         w0 == [fat |-> fat, disk |-> disk, first |-> dir[e].first,
                size |-> dir[e].size, off |-> fdt[j].offset, stop |-> FALSE]
         w1 == IF w0.first = FAT_EOF
               THEN [w0 EXCEPT !.fat = Claim(fat, a), !.first = a, !.size = 0]
               ELSE w0
         w2 == IF w1.off > w1.size THEN Extend(w1) ELSE w1
         w3 == IF w2.stop THEN w2 ELSE WritePart(w2, buf)
     IN /\ w0.first = FAT_EOF => a # FAT_FREE
        /\ fat' = w3.fat
        /\ disk' = w3.disk
        /\ dir' = [dir EXCEPT ![e].first = w3.first, ![e].size = w3.size]
        /\ fdt' = [fdt EXCEPT ![j].offset = w3.off]
        /\ WriteMetadata(w3.fat, dir')
  /\ got' = <<>>
  /\ UNCHANGED <<formatted, mounted>>

(* Mutant: the directory entry is cleared without freeing its chain.     *)
FsDeleteNoFree(n) ==
  /\ mounted /\ FindFile(n) >= 0
  /\ \A j \in FdIds : ~(fdt[j].inUse /\ fdt[j].entry = FindFile(n))
  /\ dir' = [dir EXCEPT ![FindFile(n)] = EmptyEntry]
  /\ WriteMetadata(fat, dir')
  /\ got' = <<>>
  /\ UNCHANGED <<formatted, mounted, fat, fdt, disk>>

(* fs_delete: refused while any descriptor has the file open; otherwise   *)
(* free its chain, zero the entry, save.                                   *)
FsDelete(n) ==
  /\ mounted /\ FindFile(n) >= 0
  /\ \A j \in FdIds : ~(fdt[j].inUse /\ fdt[j].entry = FindFile(n))
  /\ fat' = FreeChain(fat, dir[FindFile(n)].first)
  /\ dir' = [dir EXCEPT ![FindFile(n)] = EmptyEntry]
  /\ WriteMetadata(fat', dir')
  /\ got' = <<>>
  /\ UNCHANGED <<formatted, mounted, fdt, disk>>

(* fs_lseek: 0 <= offset <= filesize.                                      *)
FsLseek(j, o) ==
  /\ mounted /\ fdt[j].inUse /\ o <= dir[fdt[j].entry].size
  /\ fdt' = [fdt EXCEPT ![j].offset = o]
  /\ got' = <<>>
  /\ UNCHANGED <<formatted, mounted, fat, dir, disk, dfat, ddir>>

(* fs_truncate: keep the blocks up to the one reached by the walk, free    *)
(* the rest of the chain, set the size, pull this descriptor's offset back,*)
(* save.                                                                   *)
FsTruncate(j, length) ==
  /\ mounted /\ fdt[j].inUse
  /\ LET e == fdt[j].entry
         b == TruncWalk(dir[e].first, 0, length)
     IN /\ length <= dir[e].size
        /\ fat' = IF b # FAT_EOF THEN [FreeChain(fat, fat[b]) EXCEPT ![b] = FAT_EOF]
                  ELSE fat
        /\ dir' = [dir EXCEPT ![e].size = length]
        /\ fdt' = [fdt EXCEPT ![j].offset = MinOf(@, length)]
        /\ WriteMetadata(fat', dir')
  /\ got' = <<>>
  /\ UNCHANGED <<formatted, mounted, disk>>

(* fs_get_filesize: the size in the open file's directory entry.          *)
FsGetFilesize(j) ==
  /\ mounted /\ fdt[j].inUse
  /\ got' = <<dir[fdt[j].entry].size>>
  /\ UNCHANGED <<formatted, mounted, fat, dir, fdt, disk, dfat, ddir>>

(* fs_listfiles: the names of the in-use entries in slot order (names are  *)
(* shorter than FS_MAX_FILENAME_LENGTH, so strncpy copies them whole).     *)
(* The array malloc, or any name malloc, may fail: return -1, no list.    *)
FsListfiles ==
  /\ mounted
  /\ \/ got' = LET live == SetToSortSeq({e \in DirSlots : dir[e].inUse}, <)
                IN [k \in DOMAIN live |-> dir[live[k]].name]
     \/ got' = <<>>
  /\ UNCHANGED <<formatted, mounted, fat, dir, fdt, disk, dfat, ddir>>

FsNext ==
  \/ MakeFs \/ Mount \/ Umount \/ FsListfiles
  \/ \E n \in Names : FsCreate(n) \/ FsOpen(n) \/ FsDelete(n)
  \/ \E j \in FdIds :
       \/ FsClose(j) \/ FsGetFilesize(j)
       \/ \E len \in ReadLens : FsRead(j, len)
       \/ \E buf \in Bufs : FsWrite(j, buf)
       \/ \E o \in Seeks : FsLseek(j, o) \/ FsTruncate(j, o)

FsSpec == FsInit /\ [][FsNext]_vars

-----------------------------------------------------------------------------
(* The FAT and directory the disk describes: the in-memory ones while      *)
(* mounted, the metadata blocks otherwise (entries the FAT blocks do not   *)
(* hold end every chain).                                                  *)
DiskFat == [i \in Blocks |-> IF i < FatEntries THEN dfat[i] ELSE FAT_EOF]
MFat == IF mounted THEN fat ELSE DiskFat
MDir == IF mounted THEN dir ELSE ddir

(* The first n bytes along the chain from b.                               *)
RECURSIVE ChainBytes(_, _, _)
ChainBytes(f, b, n) ==
  IF n <= 0 \/ b \notin DataBlocks THEN <<>>
  ELSE SubSeq(disk[b], 1, MinOf(BlockSize, n)) \o ChainBytes(f, f[b], n - BlockSize)

FileOf(n) ==
  LET hits == {e \in DirSlots : MDir[e].inUse /\ MDir[e].name = n}
  IN IF hits = {} THEN NoFile
     ELSE ChainBytes(MFat, MDir[Min(hits)].first, MDir[Min(hits)].size)

FdOf(j) ==
  IF mounted /\ fdt[j].inUse
  THEN [name |-> dir[fdt[j].entry].name, offset |-> fdt[j].offset]
  ELSE Closed

Abs == INSTANCE FsAbstract WITH
         aformatted <- formatted, amounted <- mounted,
         afiles <- [n \in Names |-> FileOf(n)],
         afds <- [j \in FdIds |-> FdOf(j)]

-----------------------------------------------------------------------------
(* The blocks of the chain from b, following at most k links.              *)
RECURSIVE ChainSet(_, _, _)
ChainSet(f, b, k) ==
  IF b \notin DataBlocks \/ k = 0 THEN {} ELSE {b} \cup ChainSet(f, f[b], k - 1)

RECURSIVE ChainEnd(_, _, _)
ChainEnd(f, b, k) ==
  IF b \notin DataBlocks \/ k = 0 THEN b ELSE ChainEnd(f, f[b], k - 1)

(* A FAT f and directory d describe a file system: every file's chain      *)
(* ends in FAT_EOF, holds enough blocks for its size, no block is on two   *)
(* chains, and a data block is marked used exactly when some chain holds  *)
(* it (nothing leaked, nothing free still linked).                         *)
WellFormed(f, d) ==
  LET live == {e \in DirSlots : d[e].inUse}
      Own(e) == ChainSet(f, d[e].first, DiskBlocks)
  IN /\ \A e \in live :
          /\ ChainEnd(f, d[e].first, DiskBlocks) = FAT_EOF
          /\ Cardinality(Own(e)) * BlockSize >= d[e].size
     /\ \A e1, e2 \in live : e1 # e2 => Own(e1) \cap Own(e2) = {}
     /\ \A b \in DataBlocks : f[b] # FAT_FREE <=> \E e \in live : b \in Own(e)

(* After every call the FAT and directory in memory (while mounted) and    *)
(* the copy write_metadata_to_disk left on disk are well-formed: the block *)
(* walks of fs_write, fs_truncate and fs_delete never cross-link, leak or  *)
(* orphan a block, and a crash between two calls finds a consistent disk.  *)
FatWellFormed ==
  /\ mounted => WellFormed(fat, dir)
  /\ WellFormed(DiskFat, ddir)

(* The file system implements FsAbstract: under the mapping, every call    *)
(* is a step of the abstract file API (or leaves it unchanged).            *)
FsRefines == Abs!ASpec
=============================================================================
