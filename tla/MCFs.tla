-------------------------------- MODULE MCFs --------------------------------
(* Fs instantiated for TLC: two names sharing the FAT, two descriptors,   *)
(* 2-byte blocks and two data blocks, so that files span blocks, compete  *)
(* for blocks, and the disk fills.                                        *)
EXTENDS Fs

CONSTANTS n1, n2

MCNames == {n1, n2}
MCBufs == {<<1, 2, 3>>}
MCReadLens == {2}
MCSeeks == {2}

(* got only records what the last call returned; no action reads it, so   *)
(* states that differ in it alone have the same futures.  The refinement  *)
(* is still checked on every step TLC generates, got' included.           *)
FsView == <<formatted, mounted, fat, dir, fdt, disk, dfat, ddir>>
=============================================================================
