-------------------------------- MODULE Tls --------------------------------
(***************************************************************************)
(* Thread-local storage of src/EC440/EC440_HW4/tls.c: per-thread areas of  *)
(* mmap'd pages kept PROT_NONE outside tls_read/tls_write, shared by        *)
(* tls_clone and split by copy-on-write in tls_write, with a SIGSEGV       *)
(* handler that kills a thread faulting on a TLS page.                     *)
(*                                                                         *)
(* tls.c takes no lock.  Its callers are preemptively scheduled threads,  *)
(* so every step below may interleave with any other thread's; with       *)
(* AtomicCalls = TRUE a call runs from start to return without another    *)
(* thread's TLS step in between (programs that serialise their TLS calls, *)
(* e.g. by join).  The hash table is modelled as the map tid -> TLS it    *)
(* implements: the model's few tids never share a bucket.  Unsigned int   *)
(* arithmetic is done modulo 2^UWidth.                                     *)
(***************************************************************************)
EXTENDS Integers, Sequences, FiniteSets, Functions

CONSTANTS
  Tids,          \* threads that call the TLS library
  PageSize,      \* getpagesize()
  UWidth,        \* bits of unsigned int
  MaxFrames,     \* page frames mmap can hand out (bound)
  Sizes,         \* sizes passed to tls_create
  Offsets,       \* offsets passed to tls_read / tls_write
  Lengths,       \* lengths passed to tls_read / tls_write
  Bytes,         \* nonzero byte values tls_write stores
  AtomicCalls    \* no TLS step of another thread inside a call

ASSUME PageSize \in Nat \ {0} /\ UWidth \in Nat \ {0}
ASSUME 0 \notin Bytes /\ AtomicCalls \in BOOLEAN

UMax    == 2 ^ UWidth                    \* unsigned arithmetic wraps here
Frames  == 1 .. MaxFrames
NoFrame == 0
Zeros   == [k \in 0 .. PageSize - 1 |-> 0]
NoTls   == [size |-> -1, pages |-> <<>>]    \* no hash_table entry for the tid
Unmapped == [mapped |-> FALSE, ref |-> 0, prot |-> "none", data |-> Zeros]

\* Where each thread is inside a TLS call, with the call's locals.
Pcs == {"idle", "read", "write", "cow", "store", "clone", "dead"}
Idle == [pc |-> "idle", off |-> 0, len |-> 0, i |-> 0, copy |-> NoFrame,
         src |-> CHOOSE u \in Tids : TRUE]

VARIABLES
  tls,      \* hash_table: per tid its TLS (size, pages[0..page_num-1])
  frames,   \* page_t per frame: mapped, ref_count, mprotect state, bytes
  op,       \* per tid: pc and locals of the TLS call in progress
  view,     \* per tid: the bytes its TLS holds by the calls it has made
  killed,   \* tids the SIGSEGV handler has terminated
  proc      \* "running" or the way the process died

vars == <<tls, frames, op, view, killed, proc>>

\* tls_read and tls_write index pages[] by the unsigned (offset + i) / page_size.
ByteAt(o)   == o % UMax
PageOf(k)   == k \div PageSize
Data(t, k)  == frames[tls[t].pages[PageOf(k) + 1]].data[k % PageSize]
Bytes0      == {0} \cup Bytes

\* page_num = (size + page_size - 1) / page_size, in unsigned int.
PageNum(size) == ((size + PageSize - 1) % UMax) \div PageSize

\* Page table entries and in-flight copies that refer to frame f.
Holders(f) ==
  Cardinality({<<t, k>> \in Tids \X (1 .. MaxFrames) :
                 k \in DOMAIN tls[t].pages /\ tls[t].pages[k] = f})
  + Cardinality({t \in Tids : op[t].pc = "cow" /\ op[t].copy = f})

\* Another thread's call may not be in progress when AtomicCalls holds.
MayStep(t) ==
  /\ proc = "running"
  /\ t \notin killed
  /\ AtomicCalls => \A u \in Tids \ {t} : op[u].pc \in {"idle", "dead"}

\* tls_protect / tls_unprotect on every page of an area.
SetProt(fs, pages, p) ==
  [f \in Frames |-> IF f \in Range(pages) THEN [fs[f] EXCEPT !.prot = p] ELSE fs[f]]

(***************************************************************************)
(* tls_create and tls_destroy                                              *)
(***************************************************************************)

\* Mutant: the size test is written for a signed size (size < 0).
TlsCreateNoZeroCheck(t, size) ==
  /\ op[t].pc = "idle" /\ MayStep(t)
  /\ IF tls[t] # NoTls
     THEN UNCHANGED <<tls, frames, view>>
     ELSE LET n    == PageNum(size)
              free == {f \in Frames : ~frames[f].mapped}
              ps   == CHOOSE s \in [1 .. n -> free] :
                        \A a, b \in 1 .. n : a < b => s[a] < s[b]
          IN /\ n <= Cardinality(free)
             /\ tls' = [tls EXCEPT ![t] = [size |-> size, pages |-> ps]]
             /\ frames' = [f \in Frames |->
                             IF f \in Range(ps)
                             THEN [mapped |-> TRUE, ref |-> 1, prot |-> "none", data |-> Zeros]
                             ELSE frames[f]]
             /\ view' = [view EXCEPT ![t] = [k \in 0 .. n * PageSize - 1 |-> 0]]
  /\ UNCHANGED <<op, killed, proc>>

(* Fail on size 0 or an existing area, else mmap page_num PROT_NONE pages  *)
(* with ref_count 1 and insert the area.  mmap takes the lowest free       *)
(* frames; running out of the MaxFrames bound disables the call.           *)
TlsCreate(t, size) ==
  /\ op[t].pc = "idle" /\ MayStep(t)
  /\ IF size = 0 \/ tls[t] # NoTls
     THEN UNCHANGED <<tls, frames, view>>
     ELSE LET n    == PageNum(size)
              free == {f \in Frames : ~frames[f].mapped}
              ps   == CHOOSE s \in [1 .. n -> free] :
                        \A a, b \in 1 .. n : a < b => s[a] < s[b]
          IN /\ n <= Cardinality(free)
             /\ tls' = [tls EXCEPT ![t] = [size |-> size, pages |-> ps]]
             /\ frames' = [f \in Frames |->
                             IF f \in Range(ps)
                             THEN [mapped |-> TRUE, ref |-> 1, prot |-> "none", data |-> Zeros]
                             ELSE frames[f]]
             /\ view' = [view EXCEPT ![t] = [k \in 0 .. n * PageSize - 1 |-> 0]]
  /\ UNCHANGED <<op, killed, proc>>

\* Mutant: pages are unmapped without looking at ref_count.
TlsDestroyIgnoreRef(t) ==
  /\ op[t].pc = "idle" /\ MayStep(t)
  /\ tls[t] # NoTls
  /\ frames' = [f \in Frames |-> IF f \in Range(tls[t].pages) THEN Unmapped ELSE frames[f]]
  /\ tls' = [tls EXCEPT ![t] = NoTls]
  /\ view' = [view EXCEPT ![t] = <<>>]
  /\ UNCHANGED <<op, killed, proc>>

(* Decrement every page's ref_count and munmap the pages that reach 0,    *)
(* then unlink and free the area.  No area: return -1.                    *)
TlsDestroy(t) ==
  /\ op[t].pc = "idle" /\ MayStep(t)
  /\ tls[t] # NoTls
  /\ frames' = [f \in Frames |->
                  IF f \notin Range(tls[t].pages) THEN frames[f]
                  ELSE IF frames[f].ref = 1 THEN Unmapped
                  ELSE [frames[f] EXCEPT !.ref = @ - 1]]
  /\ tls' = [tls EXCEPT ![t] = NoTls]
  /\ view' = [view EXCEPT ![t] = <<>>]
  /\ UNCHANGED <<op, killed, proc>>

(***************************************************************************)
(* tls_read and tls_write                                                  *)
(***************************************************************************)

\* The SIGSEGV handler finds the faulting page in a TLS and calls pthread_exit.
Kill(t) ==
  /\ killed' = killed \cup {t}
  /\ op' = [op EXCEPT ![t] = [Idle EXCEPT !.pc = "dead"]]

\* Mutant: only the offset is checked against the size.
AccessBeginOffsetOnly(t, off, len, pc) ==
  /\ op[t].pc = "idle" /\ MayStep(t)
  /\ IF tls[t] = NoTls \/ off > tls[t].size
     THEN UNCHANGED <<frames, op>>
     ELSE /\ frames' = SetProt(frames, tls[t].pages, "rw")
          /\ op' = [op EXCEPT ![t] = [Idle EXCEPT !.pc = pc, !.off = off, !.len = len]]
  /\ UNCHANGED <<tls, view, killed, proc>>

(* Look the caller up, reject offset + length > size (in unsigned int),   *)
(* then tls_unprotect every page.  pc is "read" or "write".                *)
AccessBegin(t, off, len, pc) ==
  /\ op[t].pc = "idle" /\ MayStep(t)
  /\ IF tls[t] = NoTls \/ ByteAt(off + len) > tls[t].size
     THEN UNCHANGED <<frames, op>>
     ELSE /\ frames' = SetProt(frames, tls[t].pages, "rw")
          /\ op' = [op EXCEPT ![t] = [Idle EXCEPT !.pc = pc, !.off = off, !.len = len]]
  /\ UNCHANGED <<tls, view, killed, proc>>

\* tls_write's lookup, bound check and unprotect are tls_read's.
TlsWriteBegin(t, off, len) == AccessBegin(t, off, len, "write")

\* Byte i of the copy loop: the page index may lie past pages[].
PageIndex(t) == PageOf(ByteAt(op[t].off + op[t].i))
OutOfPages(t) == PageIndex(t) >= Len(tls[t].pages)
CurFrame(t) == tls[t].pages[PageIndex(t) + 1]

\* buffer[i] = *src.  A page index past pages[] reads a wild pointer.
TlsReadByte(t) ==
  /\ op[t].pc = "read" /\ MayStep(t)
  /\ op[t].i < op[t].len
  /\ IF OutOfPages(t)
     THEN /\ proc' = "oob"
          /\ UNCHANGED <<op, killed>>
     ELSE IF frames[CurFrame(t)].prot = "none"
     THEN /\ Kill(t)
          /\ UNCHANGED proc
     ELSE /\ op' = [op EXCEPT ![t].i = @ + 1]
          /\ UNCHANGED <<killed, proc>>
  /\ UNCHANGED <<tls, frames, view>>

\* tls_protect every page of the area; return 0.  pc is "read" or "write".
AccessEnd(t, pc) ==
  /\ op[t].pc = pc /\ MayStep(t)
  /\ op[t].i = op[t].len
  /\ frames' = SetProt(frames, tls[t].pages, "none")
  /\ op' = [op EXCEPT ![t] = Idle]
  /\ UNCHANGED <<tls, view, killed, proc>>

\* The end of tls_write: the same protect loop over the (possibly new) pages.
TlsWriteEnd(t) == AccessEnd(t, "write")

\* Mutant: tls_write writes in place without the copy-on-write test.
TlsWriteCheckNoCow(t) ==
  /\ op[t].pc = "write" /\ MayStep(t)
  /\ op[t].i < op[t].len
  /\ IF OutOfPages(t)
     THEN /\ proc' = "oob"
          /\ UNCHANGED <<frames, op, killed>>
     ELSE /\ op' = [op EXCEPT ![t].pc = "store"]
          /\ UNCHANGED <<frames, killed, proc>>
  /\ UNCHANGED <<tls, view>>

(* Byte i of tls_write: a page with ref_count > 1 is first copied into a  *)
(* fresh PROT_WRITE page (memcpy reads the shared page).                   *)
TlsWriteCheck(t) ==
  /\ op[t].pc = "write" /\ MayStep(t)
  /\ op[t].i < op[t].len
  /\ IF OutOfPages(t)
     THEN /\ proc' = "oob"
          /\ UNCHANGED <<frames, op, killed>>
     ELSE LET p    == CurFrame(t)
              free == {f \in Frames : ~frames[f].mapped}
          IN IF frames[p].ref <= 1
             THEN /\ op' = [op EXCEPT ![t].pc = "store"]
                  /\ UNCHANGED <<frames, killed, proc>>
             ELSE IF frames[p].prot = "none"
             THEN /\ Kill(t)
                  /\ UNCHANGED <<frames, proc>>
             ELSE /\ free # {}
                  /\ LET c == CHOOSE f \in free : \A g \in free : f <= g IN
                       /\ frames' = [frames EXCEPT ![c] = [mapped |-> TRUE, ref |-> 1,
                                       prot |-> "rw", data |-> frames[p].data]]
                       /\ op' = [op EXCEPT ![t].pc = "cow", ![t].copy = c]
                  /\ UNCHANGED <<killed, proc>>
  /\ UNCHANGED <<tls, view>>

\* Mutant: the fresh copy is protected instead of the shared page.
TlsWriteCowProtectCopy(t) ==
  LET p == CurFrame(t) IN
  /\ op[t].pc = "cow" /\ MayStep(t)
  /\ tls' = [tls EXCEPT ![t].pages[PageIndex(t) + 1] = op[t].copy]
  /\ frames' = [frames EXCEPT ![p].ref = @ - 1, ![op[t].copy].prot = "none"]
  /\ op' = [op EXCEPT ![t].pc = "store", ![t].copy = NoFrame]
  /\ UNCHANGED <<view, killed, proc>>

(* tls->pages[page_index] = copy; p->ref_count--; tls_protect(p).          *)
TlsWriteCow(t) ==
  LET p == CurFrame(t) IN
  /\ op[t].pc = "cow" /\ MayStep(t)
  /\ tls' = [tls EXCEPT ![t].pages[PageIndex(t) + 1] = op[t].copy]
  /\ frames' = [frames EXCEPT ![p].ref = @ - 1, ![p].prot = "none"]
  /\ op' = [op EXCEPT ![t].pc = "store", ![t].copy = NoFrame]
  /\ UNCHANGED <<view, killed, proc>>

\* *dst = buffer[i]: faults if another thread has re-protected the page.
TlsWriteStore(t, b) ==
  LET p == CurFrame(t)
      k == ByteAt(op[t].off + op[t].i) IN
  /\ op[t].pc = "store" /\ MayStep(t)
  /\ IF frames[p].prot = "none"
     THEN /\ Kill(t)
          /\ UNCHANGED <<frames, view>>
     ELSE /\ frames' = [frames EXCEPT ![p].data[k % PageSize] = b]
          /\ view' = [view EXCEPT ![t][k] = b]
          /\ op' = [op EXCEPT ![t].pc = "write", ![t].i = @ + 1]
          /\ UNCHANGED killed
  /\ UNCHANGED <<tls, proc>>

(***************************************************************************)
(* tls_clone                                                               *)
(***************************************************************************)

\* Look up the source and the caller: -1 unless only the source has an area.
TlsCloneBegin(t, src) ==
  /\ op[t].pc = "idle" /\ MayStep(t)
  /\ IF tls[src] = NoTls \/ tls[t] # NoTls
     THEN UNCHANGED op
     ELSE op' = [op EXCEPT ![t] = [Idle EXCEPT !.pc = "clone", !.src = src]]
  /\ UNCHANGED <<tls, frames, view, killed, proc>>

(* Build an area sharing the source's pages, increment each ref_count and *)
(* insert it.  A source destroyed since the lookup is read after free.     *)
TlsCloneCopy(t) ==
  LET s == op[t].src IN
  /\ op[t].pc = "clone" /\ MayStep(t)
  /\ IF tls[s] = NoTls
     THEN /\ proc' = "crashed"
          /\ UNCHANGED <<tls, frames, view, op>>
     ELSE /\ tls' = [tls EXCEPT ![t] = tls[s]]
          /\ frames' = [f \in Frames |->
                          IF f \in Range(tls[s].pages)
                          THEN [frames[f] EXCEPT !.ref = @ + 1] ELSE frames[f]]
          /\ view' = [view EXCEPT ![t] = view[s]]
          /\ op' = [op EXCEPT ![t] = Idle]
          /\ UNCHANGED proc
  /\ UNCHANGED killed

(***************************************************************************)
(* Specification                                                           *)
(***************************************************************************)

TlsInit ==
  /\ tls = [t \in Tids |-> NoTls]
  /\ frames = [f \in Frames |-> Unmapped]
  /\ op = [t \in Tids |-> Idle]
  /\ view = [t \in Tids |-> <<>>]
  /\ killed = {}
  /\ proc = "running"

TlsStep(t) ==
  \/ \E n \in Sizes : TlsCreate(t, n)
  \/ TlsDestroy(t)
  \/ \E o \in Offsets, n \in Lengths : AccessBegin(t, o, n, "read") \/ TlsWriteBegin(t, o, n)
  \/ TlsReadByte(t) \/ AccessEnd(t, "read") \/ TlsWriteEnd(t)
  \/ TlsWriteCheck(t) \/ TlsWriteCow(t) \/ \E b \in Bytes : TlsWriteStore(t, b)
  \/ \E s \in Tids : TlsCloneBegin(t, s)
  \/ TlsCloneCopy(t)

\* Once the process has died (proc # "running") no thread steps again.
TlsNext == \E t \in Tids : TlsStep(t)

TlsSpec == TlsInit /\ [][TlsNext]_vars

(***************************************************************************)
(* Properties                                                              *)
(***************************************************************************)

TlsTypeOK ==
  /\ \A t \in Tids : tls[t] = NoTls \/
       /\ tls[t].size \in 1 .. UMax - 1
       /\ tls[t].pages \in Seq(Frames)
  /\ frames \in [Frames -> [mapped : BOOLEAN, ref : Nat, prot : {"none", "rw"},
                            data : [0 .. PageSize - 1 -> Bytes0]]]
  /\ \A t \in Tids : op[t].pc \in Pcs /\ op[t].i \in 0 .. op[t].len
  /\ killed \subseteq Tids
  /\ proc \in {"running", "oob", "crashed"}

(* Each mapped page's ref_count is the number of TLS areas (and copies in *)
(* flight) that hold it, and never 0; no area holds an unmapped page.     *)
(* Broken if clone, copy-on-write and destroy do not balance their        *)
(* increments and decrements, leaking a page or freeing a shared one.     *)
RefCountsExact ==
  \A f \in Frames :
    IF frames[f].mapped THEN frames[f].ref = Holders(f) /\ Holders(f) > 0
                        ELSE Holders(f) = 0

(* Copy-on-write isolation and the read/write round trip (spec 4.5, 8):   *)
(* the bytes each area's pages hold are the bytes its own thread's writes *)
(* and clone put there; no write through one area shows through another.  *)
CowIsolation ==
  \A t \in Tids :
    tls[t] # NoTls => \A k \in DOMAIN view[t] : Data(t, k) = view[t][k]

(* The fault handler never terminates a thread for an access made inside *)
(* tls_read / tls_write (spec 4.5: only direct dereferences are fatal).   *)
NoApiFault == killed = {}

(* tls_read / tls_write never index pages[] past page_num: the bound      *)
(* check offset + length <= size admits only bytes the area has.          *)
InBounds == proc # "oob"

=============================================================================
