----------------------------- MODULE FsAbstract -----------------------------
(***************************************************************************)
(* What the EC440_HW5 file API promises, free of blocks and of the FAT: a  *)
(* disk holds a set of named files, each a sequence of bytes; a mounted    *)
(* disk has open descriptors, each naming a file and an offset.  The       *)
(* detailed module Fs (fs.c) is checked to implement this specification.   *)
(*                                                                         *)
(* Only the outcome of each call is specified.  fs_write may write any     *)
(* prefix of what it was asked to (the disk may be full), and a write past *)
(* the end of the file first fills the gap with zero bytes.                *)
(***************************************************************************)
EXTENDS Integers, Sequences, FiniteSets, SequencesExt

CONSTANTS
  Names,     \* file names the callers use
  MaxFiles,  \* FS_MAX_FILES: directory capacity
  FdIds,     \* descriptor numbers 0..FS_MAX_FILE_DESCRIPTORS-1
  Bufs,      \* the buffers passed to fs_write (non-empty byte sequences)
  ReadLens,  \* the nbyte values passed to fs_read
  NoFile,    \* the content of a name that is not a file
  Closed     \* a descriptor slot that is not open

VARIABLES
  aformatted, \* the disk carries a file system (make_fs ran)
  amounted,   \* the disk is mounted
  afiles,     \* afiles[n]: the bytes of file n, or NoFile
  afds,       \* afds[j]: [name, offset] of open descriptor j, or Closed
  got         \* the bytes fs_read returned, if the last call was one

avars == <<aformatted, amounted, afiles, afds, got>>

Exists(n) == afiles[n] # NoFile
NumFiles == Cardinality({n \in Names : Exists(n)})
Open(j) == afds[j] # Closed
Zeros(k) == [i \in 1..k |-> 0]
LenOf(n) == Len(afiles[n])

(* Overwrite s from position p (0-based) with d; s is long enough.         *)
Overlay(s, p, d) ==
  [i \in 1..Max({Len(s), p + Len(d)}) |->
     IF i > p /\ i <= p + Len(d) THEN d[i - p] ELSE s[i]]

AInit ==
  /\ aformatted = FALSE
  /\ amounted = FALSE
  /\ afiles = [n \in Names |-> NoFile]
  /\ afds = [j \in FdIds |-> Closed]
  /\ got = <<>>

(* In each action the conjuncts on the descriptors and the result come     *)
(* before those on afiles, so that TLC rejects a wrong disjunct cheaply.   *)
AMakeFs ==
  /\ ~amounted
  /\ aformatted' = TRUE
  /\ got' = <<>>
  /\ UNCHANGED <<amounted, afds>>
  /\ afiles' = [n \in Names |-> NoFile]

(* Mounting closes every descriptor; files are what the disk holds.        *)
AMount ==
  /\ ~amounted /\ aformatted
  /\ amounted' = TRUE
  /\ afds' = [j \in FdIds |-> Closed]
  /\ got' = <<>>
  /\ UNCHANGED <<aformatted, afiles>>

AUmount ==
  /\ amounted
  /\ amounted' = FALSE
  /\ afds' = [j \in FdIds |-> Closed]
  /\ got' = <<>>
  /\ UNCHANGED <<aformatted, afiles>>

ACreate(n) ==
  /\ amounted
  /\ got' = <<>>
  /\ UNCHANGED <<aformatted, amounted, afds>>
  /\ ~Exists(n) /\ NumFiles < MaxFiles
  /\ afiles' = [afiles EXCEPT ![n] = <<>>]

(* The lowest free descriptor is returned.                                 *)
AOpen(n) ==
  /\ amounted
  /\ \E j \in FdIds :
       /\ ~Open(j) /\ \A k \in FdIds : k < j => Open(k)
       /\ afds' = [afds EXCEPT ![j] = [name |-> n, offset |-> 0]]
  /\ got' = <<>>
  /\ UNCHANGED <<aformatted, amounted>>
  /\ Exists(n)
  /\ UNCHANGED afiles

AClose(j) ==
  /\ Open(j)
  /\ afds' = [afds EXCEPT ![j] = Closed]
  /\ got' = <<>>
  /\ UNCHANGED <<aformatted, amounted, afiles>>

ARead(j, len) ==
  /\ amounted /\ Open(j)
  /\ UNCHANGED <<aformatted, amounted, afiles>>
  /\ LET n == afds[j].name
         o == afds[j].offset
         r == IF o >= LenOf(n) THEN <<>>
              ELSE SubSeq(afiles[n], o + 1, Min({o + len, LenOf(n)}))
     IN /\ got' = r
        /\ afds' = [afds EXCEPT ![j].offset = o + Len(r)]

(* The write stream starts at the lower of the offset and the end of file: *)
(* the zero gap, then buf.  Some prefix of k bytes of it is written, and  *)
(* the offset moves past it.                                               *)
AWrite(j, buf) ==
  /\ amounted /\ Open(j)
  /\ got' = <<>>
  /\ UNCHANGED <<aformatted, amounted>>
  /\ afds'[j] # Closed
  /\ LET n == afds[j].name
         o == afds[j].offset
         p == Min({o, LenOf(n)})
         stream == Zeros(o - p) \o buf
         k == afds'[j].offset - p   \* the prefix written: where the offset ends
     IN /\ k \in 0..Len(stream)
        /\ afds' = [afds EXCEPT ![j].offset = p + k]
        /\ afiles' = [afiles EXCEPT ![n] = Overlay(@, p, SubSeq(stream, 1, k))]

(* A file with an open descriptor cannot be deleted.                       *)
ADelete(n) ==
  /\ amounted
  /\ got' = <<>>
  /\ UNCHANGED <<aformatted, amounted, afds>>
  /\ Exists(n)
  /\ \A j \in FdIds : Open(j) => afds[j].name # n
  /\ afiles' = [afiles EXCEPT ![n] = NoFile]

ALseek(j, o) ==
  /\ amounted /\ Open(j)
  /\ afds' = [afds EXCEPT ![j].offset = o]
  /\ got' = <<>>
  /\ UNCHANGED <<aformatted, amounted, afiles>>
  /\ o <= LenOf(afds[j].name)

(* Only the truncating descriptor's offset is pulled back.                 *)
ATruncate(j, l) ==
  /\ amounted /\ Open(j)
  /\ afds' = [afds EXCEPT ![j].offset = Min({@, l})]
  /\ got' = <<>>
  /\ UNCHANGED <<aformatted, amounted>>
  /\ LET n == afds[j].name IN
       /\ l <= LenOf(n)
       /\ afiles' = [afiles EXCEPT ![n] = SubSeq(@, 1, l)]

AGetFilesize(j) ==
  /\ amounted /\ Open(j)
  /\ got' = <<LenOf(afds[j].name)>>
  /\ UNCHANGED <<aformatted, amounted, afds, afiles>>

(* Every file once, in no particular order; or the call fails (no memory). *)
AListfiles ==
  /\ amounted
  /\ \/ /\ ToSet(got') = {n \in Names : Exists(n)}
        /\ Len(got') = NumFiles
     \/ got' = <<>>
  /\ UNCHANGED <<aformatted, amounted, afds, afiles>>

ANext ==
  \/ \E j \in FdIds :
       \/ \E buf \in Bufs : AWrite(j, buf)
       \/ \E len \in ReadLens : ARead(j, len)
       \/ Open(j) /\ \E o \in 0..LenOf(afds[j].name) :
            ALseek(j, o) \/ ATruncate(j, o)
       \/ AClose(j) \/ AGetFilesize(j)
  \/ \E n \in Names : ACreate(n) \/ AOpen(n) \/ ADelete(n)
  \/ AMakeFs \/ AMount \/ AUmount \/ AListfiles

ASpec == AInit /\ [][ANext]_avars
=============================================================================
