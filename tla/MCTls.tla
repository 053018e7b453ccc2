-------------------------------- MODULE MCTls --------------------------------
(* Instantiates Tls for TLC: two threads, two-byte pages, 4-bit unsigned   *)
(* arithmetic (so a wrap needs only offsets up to 15), four page frames.   *)
EXTENDS Tls

CONSTANTS t1, t2

\* Two threads: one creates an area, the other clones it.
MCTids == {t1, t2}

\* size 0 is rejected; size 3 spans two pages; size 1 leaves a byte unused.
MCSizes == {0, 1, 3}

\* In-range offsets and lengths, which reach both pages.
MCOffsets == {0, 1}
MCLengths == {1, 2}

\* One size and one length, for the interleaved run.
OneLength == {1}
ThreeOnly == {3}

\* Two distinct values, so a write that shows through a clone is visible.
MCBytes == {1, 2}
=============================================================================
