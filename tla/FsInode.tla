------------------------------ MODULE FsInode ------------------------------
(***************************************************************************)
(* The inode file system of EC440_HW5/test.c: a second implementation of   *)
(* the fs.h API, with an inode table (12 direct block numbers and one      *)
(* indirect block per file), a root directory, a block bitmap and an open  *)
(* file table.  Blocks 0-3 hold the superblock, inode table, directory and *)
(* bitmap; make_fs and umount_fs write them, and only mount_fs reads them. *)
(* As in module Fs, every call is one action that runs the whole function, *)
(* its loops written as RECURSIVE operators.                               *)
(*                                                                         *)
(* test.c keeps no "mounted" flag; the model lets the caller use the API   *)
(* only between mount_fs and umount_fs, and make_fs only while unmounted.  *)
(* The bytes of a saved table, read back as file data, are the model value *)
(* Junk.  disk.c is not in the repository: make_disk is taken to create a  *)
(* zero-filled disk, and block_read / block_write of a block number below  *)
(* DISK_BLOCKS to succeed and of any other to return -1.                   *)
(***************************************************************************)
EXTENDS Integers, Sequences, FiniteSets, SequencesExt

CONSTANTS
  Names,       \* file names; 0 < strlen(name) <= MAX_FILENAME_LENGTH
  MaxFiles,    \* MAX_FILES: inodes and directory entries
  MaxOpen,     \* MAX_OPEN_FILES
  BlockSize,   \* BLOCK_SIZE, in bytes
  DiskBlocks,  \* DISK_BLOCKS
  NDirect,     \* MAX_INODE_DIRECT_OFFSETS
  Bufs,        \* buffers passed to fs_write
  ReadLens,    \* nbyte values passed to fs_read
  Seeks,       \* offsets and lengths passed to fs_lseek and fs_truncate
  NoName,      \* a zeroed name
  Junk,        \* a byte of a saved table
  NoFile,      \* (abstract) a name that is not a file
  Closed       \* (abstract) a descriptor that is not open

ASSUME BlockSize % 2 = 0 /\ DiskBlocks > 4

DataStart == 4                      \* DATA_BLOCKS_OFFSET
Blocks == 0..DiskBlocks - 1
Entries == BlockSize \div 2         \* BLOCK_ENTRIES: uint16_t per block
Inodes == 0..MaxFiles - 1
FdIds == 0..MaxOpen - 1
Wild == -1                          \* a block number decoded from Junk
Oob == -2                           \* an entry read past the indirect block

EmptyInode == [alloc |-> FALSE, direct |-> [k \in 0..NDirect - 1 |-> 0],
               indirect |-> 0, size |-> 0]
EmptyDirEnt == [alloc |-> FALSE, name |-> NoName, inode |-> 0]
ClosedFd == [inUse |-> FALSE, inode |-> 0, offset |-> 0]
ZeroBlock == [k \in 1..BlockSize |-> 0]
MetaBlock == [k \in 1..BlockSize |-> Junk]

VARIABLES
  formatted, \* make_fs has run on the disk
  mounted,   \* between mount_fs and umount_fs (the caller's protocol)
  inode,     \* inode_table
  rdir,      \* root_dir
  oft,       \* open_files
  bitmap,    \* the set bits of bitmap[]
  disk,      \* every block's bytes
  dinode,    \* the inode table umount_fs / make_fs saved
  ddir,      \* the directory they saved
  dbitmap,   \* the bitmap they saved
  got,       \* what the last call handed back
  proc       \* "running", or "undefined" after undefined behaviour

vars == <<formatted, mounted, inode, rdir, oft, bitmap, disk,
          dinode, ddir, dbitmap, got, proc>>

MinOf(a, b) == IF a < b THEN a ELSE b

-----------------------------------------------------------------------------
(* allocate_block: the lowest clear bit of the whole bitmap, metadata     *)
(* blocks included; with none clear it returns 0.                          *)
Alloc(bm) ==
  IF Blocks \subseteq bm THEN [blk |-> 0, bm |-> bm]
  ELSE LET b == Min(Blocks \ bm) IN [blk |-> b, bm |-> bm \cup {b}]

(* memcpy of the k-th uint16_t of a block (little-endian).                 *)
Decode(blk, k) ==
  IF blk[2 * k + 1] = Junk \/ blk[2 * k + 2] = Junk THEN Wild
  ELSE blk[2 * k + 1] + 256 * blk[2 * k + 2]

(* The direct or indirect slot of block index idx, read the way fs_read    *)
(* and fs_truncate read it: a direct entry as it is (0 included); past the *)
(* direct entries the indirect block's entry; Oob where the entry lies     *)
(* past the indirect block (a read outside the local array).               *)
Slot(node, d, idx) ==
  IF idx < NDirect THEN node.direct[idx]
  ELSE IF idx - NDirect >= Entries THEN Oob
  ELSE Decode(d[node.indirect], idx - NDirect)

(* The while loop of fs_read from offset off, nbyte left, on disk d:       *)
(* res is "ok", "fail" (-1) or "undefined".                                 *)
RECURSIVE ReadLoop(_, _, _, _, _)
ReadLoop(node, d, off, left, acc) ==
  IF left = 0 \/ off >= node.size
  THEN [off |-> off, bytes |-> acc, res |-> "ok"]
  ELSE LET idx == off \div BlockSize
           oib == off % BlockSize
           db == Slot(node, d, idx)
           n == MinOf(MinOf(BlockSize - oib, left), node.size - off)
       IN IF idx >= NDirect /\ node.indirect = 0
          THEN [off |-> off, bytes |-> acc, res |-> "ok"]
          ELSE IF db \in {Oob, Wild}
          THEN [off |-> off, bytes |-> acc, res |-> "undefined"]
          ELSE IF idx >= NDirect /\ db = 0
          THEN [off |-> off, bytes |-> acc, res |-> "ok"]
          ELSE IF db \notin Blocks
          THEN [off |-> off, bytes |-> acc, res |-> "fail"]
          ELSE ReadLoop(node, d, off + n, left - n,
                        acc \o SubSeq(d[db], oib + 1, oib + n))

(* The while loop of fs_write.  A direct entry that is 0 is allocated and *)
(* stored in the inode; an indirect block is allocated and zeroed when the *)
(* inode has none; an indirect entry that is 0 is allocated into the local *)
(* copy of the indirect block only, which is never written back.           *)
RECURSIVE WriteLoop(_, _)
WriteLoop(w, buf) ==
  IF w.done = Len(buf) THEN w
  ELSE LET idx == w.off \div BlockSize
           oib == w.off % BlockSize
           ia == Alloc(w.bm)
           w1 == IF idx >= NDirect /\ w.node.indirect = 0
                 THEN [w EXCEPT !.node.indirect = ia.blk, !.bm = ia.bm,
                                !.disk[ia.blk] = ZeroBlock]
                 ELSE w
           e == Slot(w1.node, w1.disk, idx)
           a == Alloc(w1.bm)
           w2 == IF e # 0 THEN w1
                 ELSE IF idx < NDirect
                 THEN [w1 EXCEPT !.node.direct[idx] = a.blk, !.bm = a.bm]
                 ELSE [w1 EXCEPT !.bm = a.bm]
           db == IF e = 0 THEN a.blk ELSE e
           n == MinOf(BlockSize - oib, Len(buf) - w.done)
           blk == [k \in 1..BlockSize |->
                     IF k > oib /\ k <= oib + n THEN buf[w.done + k - oib]
                     ELSE w2.disk[db][k]]
       IN IF e \in {Oob, Wild} THEN [w1 EXCEPT !.res = "undefined"]
          ELSE IF db \notin Blocks THEN [w2 EXCEPT !.res = "fail"]
          ELSE WriteLoop([w2 EXCEPT !.disk[db] = blk, !.off = w.off + n,
                                    !.done = w.done + n], buf)

(* The block numbers a file's inode holds, as fs_delete and fs_truncate    *)
(* free them: the non-zero direct entries, the non-zero entries of the     *)
(* indirect block, and the indirect block.                                 *)
Owned(node, d) ==
  {node.direct[k] : k \in 0..NDirect - 1} \cup
  IF node.indirect = 0 THEN {}
  ELSE {node.indirect} \cup {Decode(d[node.indirect], k) : k \in 0..Entries - 1}

(* free_block of each: clear_bit of a number past the bitmap, or decoded   *)
(* from Junk, writes outside bitmap[].                                      *)
FreeAll(node, d, bm) ==
  LET nums == Owned(node, d) \ {0}
  IN IF nums \subseteq Blocks THEN [bm |-> bm \ nums, res |-> "ok"]
     ELSE [bm |-> bm, res |-> "undefined"]

(* fs_truncate's loop: byte i of length..size-1 is zeroed in its block    *)
(* when its slot is non-zero (the indirect block read is block 0 when the  *)
(* inode has none).                                                        *)
RECURSIVE ZeroTail(_, _, _, _)
ZeroTail(node, d, i, res) ==
  IF i >= node.size \/ res # "ok" THEN [disk |-> d, res |-> res]
  ELSE LET idx == i \div BlockSize
           db == Slot(node, d, idx)
       IN IF db \in {Oob, Wild} THEN [disk |-> d, res |-> "undefined"]
          ELSE IF db = 0 \/ db \notin Blocks THEN ZeroTail(node, d, i + 1, res)
          ELSE ZeroTail(node, [d EXCEPT ![db][(i % BlockSize) + 1] = 0], i + 1, res)

-----------------------------------------------------------------------------
FsIInit ==
  /\ formatted = FALSE /\ mounted = FALSE
  /\ inode = [i \in Inodes |-> EmptyInode]
  /\ rdir = [i \in Inodes |-> EmptyDirEnt]
  /\ oft = [j \in FdIds |-> ClosedFd]
  /\ bitmap = {}
  /\ disk = [b \in Blocks |-> ZeroBlock]
  /\ dinode = inode /\ ddir = rdir /\ dbitmap = {}
  /\ got = <<>>
  /\ proc = "running"

(* Where a step of undefined behaviour stops the model.                    *)
Undefined ==
  /\ proc' = "undefined"
  /\ UNCHANGED <<formatted, mounted, inode, rdir, oft, bitmap, disk,
                 dinode, ddir, dbitmap, got>>

(* make_fs: a new zero disk; zero the tables in memory and write the       *)
(* superblock, inode table, directory and bitmap into blocks 0-3.  No bit  *)
(* is set for those four blocks.                                           *)
MakeFs ==
  /\ ~mounted
  /\ formatted' = TRUE
  /\ inode' = [i \in Inodes |-> EmptyInode]
  /\ rdir' = [i \in Inodes |-> EmptyDirEnt]
  /\ bitmap' = {}
  /\ disk' = [b \in Blocks |-> IF b < DataStart THEN MetaBlock ELSE ZeroBlock]
  /\ dinode' = inode' /\ ddir' = rdir' /\ dbitmap' = {}
  /\ got' = <<>>
  /\ UNCHANGED <<mounted, oft, proc>>

(* mount_fs: load the saved tables and clear the open file table.         *)
Mount ==
  /\ formatted /\ ~mounted
  /\ mounted' = TRUE
  /\ inode' = dinode /\ rdir' = ddir /\ bitmap' = dbitmap
  /\ oft' = [j \in FdIds |-> ClosedFd]
  /\ got' = <<>>
  /\ UNCHANGED <<formatted, disk, dinode, ddir, dbitmap, proc>>

(* umount_fs: save bitmap, directory, inode table and superblock into     *)
(* blocks 3, 2, 1 and 0, whatever file data they hold.                     *)
Umount ==
  /\ mounted
  /\ mounted' = FALSE
  /\ dbitmap' = bitmap /\ ddir' = rdir /\ dinode' = inode
  /\ disk' = [b \in Blocks |-> IF b < DataStart THEN MetaBlock ELSE disk[b]]
  /\ got' = <<>>
  /\ UNCHANGED <<formatted, inode, rdir, oft, bitmap, proc>>

\* The lowest directory entry in use with name n, or -1.
FindDir(n) ==
  LET hits == {i \in Inodes : rdir[i].alloc /\ rdir[i].name = n}
  IN IF hits = {} THEN -1 ELSE Min(hits)

(* fs_create: refused if the name exists; the lowest free inode, then the *)
(* lowest free directory entry (without one the inode is released again). *)
FsCreate(n) ==
  /\ mounted /\ FindDir(n) = -1
  /\ \E i \in Inodes : ~inode[i].alloc
  /\ \E j \in Inodes : ~rdir[j].alloc
  /\ LET i == Min({k \in Inodes : ~inode[k].alloc})
         j == Min({k \in Inodes : ~rdir[k].alloc})
     IN /\ inode' = [inode EXCEPT ![i] = [EmptyInode EXCEPT !.alloc = TRUE]]
        /\ rdir' = [rdir EXCEPT ![j] = [alloc |-> TRUE, name |-> n, inode |-> i]]
  /\ got' = <<>>
  /\ UNCHANGED <<formatted, mounted, oft, bitmap, disk, dinode, ddir, dbitmap, proc>>

(* fs_open: the lowest free descriptor on the file's inode, offset 0.     *)
FsOpen(n) ==
  /\ mounted /\ FindDir(n) # -1
  /\ \E j \in FdIds : ~oft[j].inUse
  /\ LET j == Min({k \in FdIds : ~oft[k].inUse}) IN
       oft' = [oft EXCEPT ![j] = [inUse |-> TRUE, inode |-> rdir[FindDir(n)].inode,
                                  offset |-> 0]]
  /\ got' = <<>>
  /\ UNCHANGED <<formatted, mounted, inode, rdir, bitmap, disk, dinode, ddir, dbitmap, proc>>

FsClose(j) ==
  /\ mounted /\ oft[j].inUse
  /\ oft' = [oft EXCEPT ![j] = ClosedFd]
  /\ got' = <<>>
  /\ UNCHANGED <<formatted, mounted, inode, rdir, bitmap, disk, dinode, ddir, dbitmap, proc>>

(* fs_delete: refused while a descriptor is open on the inode; free its   *)
(* blocks, release the inode (its size stays) and the directory entry.    *)
FsDelete(n) ==
  /\ mounted /\ FindDir(n) # -1
  /\ LET i == rdir[FindDir(n)].inode
         f == FreeAll(inode[i], disk, bitmap)
     IN /\ \A j \in FdIds : ~(oft[j].inUse /\ oft[j].inode = i)
        /\ IF f.res # "ok" THEN Undefined
           ELSE /\ bitmap' = f.bm
                /\ inode' = [inode EXCEPT ![i].alloc = FALSE, ![i].indirect = 0,
                                          ![i].direct = [k \in 0..NDirect - 1 |-> 0]]
                /\ rdir' = [rdir EXCEPT ![FindDir(n)].alloc = FALSE,
                                        ![FindDir(n)].name = NoName]
                /\ got' = <<>>
                /\ UNCHANGED <<formatted, mounted, oft, disk, dinode, ddir, dbitmap, proc>>

(* fs_read: the loop moves the offset as it copies, also on a -1 return.  *)
FsRead(j, nbyte) ==
  /\ mounted /\ oft[j].inUse
  /\ LET r == ReadLoop(inode[oft[j].inode], disk, oft[j].offset, nbyte, <<>>)
     IN IF r.res = "undefined" THEN Undefined
        ELSE /\ got' = IF r.res = "ok" THEN r.bytes ELSE <<>>
             /\ oft' = [oft EXCEPT ![j].offset = r.off]
             /\ UNCHANGED <<formatted, mounted, inode, rdir, bitmap, disk,
                            dinode, ddir, dbitmap, proc>>

(* fs_write: the loop, then the size grows to the offset.  On a -1 return *)
(* what the loop did stays, and the size is not updated.                   *)
FsWrite(j, buf) ==
  /\ mounted /\ oft[j].inUse
  /\ LET i == oft[j].inode
         w == WriteLoop([node |-> inode[i], bm |-> bitmap, disk |-> disk,
                         off |-> oft[j].offset, done |-> 0, res |-> "ok"], buf)
         size == IF w.res = "ok" /\ w.off > w.node.size THEN w.off ELSE w.node.size
     IN IF w.res = "undefined" THEN Undefined
        ELSE /\ inode' = [inode EXCEPT ![i] = [w.node EXCEPT !.size = size]]
             /\ bitmap' = w.bm
             /\ disk' = w.disk
             /\ oft' = [oft EXCEPT ![j].offset = w.off]
             /\ got' = <<>>
             /\ UNCHANGED <<formatted, mounted, rdir, dinode, ddir, dbitmap, proc>>

FsGetFilesize(j) ==
  /\ mounted /\ oft[j].inUse
  /\ got' = <<inode[oft[j].inode].size>>
  /\ UNCHANGED <<formatted, mounted, inode, rdir, oft, bitmap, disk, dinode, ddir, dbitmap, proc>>

(* fs_listfiles: names of the entries in use, in slot order; a malloc may *)
(* fail (-1).                                                              *)
FsListfiles ==
  /\ mounted
  /\ \/ got' = LET live == SetToSortSeq({i \in Inodes : rdir[i].alloc}, <)
                IN [k \in DOMAIN live |-> rdir[live[k]].name]
     \/ got' = <<>>
  /\ UNCHANGED <<formatted, mounted, inode, rdir, oft, bitmap, disk, dinode, ddir, dbitmap, proc>>

FsLseek(j, o) ==
  /\ mounted /\ oft[j].inUse /\ o <= inode[oft[j].inode].size
  /\ oft' = [oft EXCEPT ![j].offset = o]
  /\ got' = <<>>
  /\ UNCHANGED <<formatted, mounted, inode, rdir, bitmap, disk, dinode, ddir, dbitmap, proc>>

(* fs_truncate: zero the bytes past length in their blocks; only when     *)
(* length is 0 free the blocks; set the size, pull this offset back.       *)
FsTruncate(j, length) ==
  /\ mounted /\ oft[j].inUse
  /\ LET i == oft[j].inode
         z == ZeroTail(inode[i], disk, length, "ok")
         f == FreeAll(inode[i], z.disk, bitmap)
     IN /\ length <= inode[i].size
        /\ IF z.res # "ok" \/ (length = 0 /\ f.res # "ok") THEN Undefined
           ELSE /\ disk' = z.disk
                /\ bitmap' = IF length = 0 THEN f.bm ELSE bitmap
                /\ inode' = [inode EXCEPT ![i].size = length,
                               ![i].direct = IF length = 0 THEN [k \in 0..NDirect - 1 |-> 0]
                                             ELSE @,
                               ![i].indirect = IF length = 0 THEN 0 ELSE @]
                /\ oft' = [oft EXCEPT ![j].offset = MinOf(@, length)]
                /\ got' = <<>>
                /\ UNCHANGED <<formatted, mounted, rdir, dinode, ddir, dbitmap, proc>>

FsINext ==
  /\ proc = "running"
  /\ \/ MakeFs \/ Mount \/ Umount \/ FsListfiles
     \/ \E n \in Names : FsCreate(n) \/ FsOpen(n) \/ FsDelete(n)
     \/ \E j \in FdIds :
          \/ FsClose(j) \/ FsGetFilesize(j)
          \/ \E len \in ReadLens : FsRead(j, len)
          \/ \E buf \in Bufs : FsWrite(j, buf)
          \/ \E o \in Seeks : FsLseek(j, o) \/ FsTruncate(j, o)

FsISpec == FsIInit /\ [][FsINext]_vars

-----------------------------------------------------------------------------
(* A file is what reading it whole returns: from the in-memory tables     *)
(* while mounted, from the saved ones otherwise; a read that stops short   *)
(* or fails leaves Junk at the end.                                        *)
FileOf(n) ==
  LET dir == IF mounted THEN rdir ELSE ddir
      tab == IF mounted THEN inode ELSE dinode
      hits == {i \in Inodes : dir[i].alloc /\ dir[i].name = n}
      node == tab[dir[Min(hits)].inode]
      r == ReadLoop(node, disk, 0, node.size, <<>>)
  IN IF hits = {} THEN NoFile
     ELSE IF r.res = "ok" /\ Len(r.bytes) = node.size THEN r.bytes
     ELSE r.bytes \o <<Junk>>

FdOf(j) ==
  IF mounted /\ oft[j].inUse
  THEN [name |-> rdir[CHOOSE i \in Inodes : rdir[i].alloc /\ rdir[i].inode = oft[j].inode].name,
        offset |-> oft[j].offset]
  ELSE Closed

Abs == INSTANCE FsAbstract WITH
         aformatted <- formatted, amounted <- mounted,
         afiles <- [n \in Names |-> FileOf(n)],
         afds <- [j \in FdIds |-> FdOf(j)]

(* test.c implements the file API FsAbstract specifies: what a file holds *)
(* after a sequence of calls, remounts included, is what was written.      *)
FsIRefines == Abs!ASpec
=============================================================================
