# TLA+ models of the EC440 coursework

This directory holds TLA+ models of the C code under `src/EC440/`, the TLC
configurations that check them, and `PROJECT.json`, which records:

- the components;
- which definition models which source lines (`map`);
- the runs and their expected results;
- the mutants that show each checked property can fail;
- the findings;
- the hazards the models target.

## 1. Inventory of the system

| Part | Source | Shared state | Operations |
|---|---|---|---|
| HW3 thread library | `EC440_HW3/threads.c` | `tcb[MAX_THREADS]` (id, jmp_buf, stack, state, routine, exit value), `thread_count`, `current_thread`, the SIGALRM mask | `schedule` (SIGALRM handler and `schedule(0)`), `pthread_create`, `pthread_exit`, `pthread_join`, `pthread_self`, `lock`/`unlock`, `init` |
| HW3 semaphores | `EC440_HW3/threads.c:161-222` | `semaphore_array[]`, `next_semaphore_id`, per semaphore the value, the LIFO `waiting_threads` and `wait_count` | `sem_init`, `sem_wait`, `sem_post`, `sem_destroy` |
| HW3 test program | `EC440_HW3/main.c` | none | main creates a thread, joins it and frees the result, three times, then returns |
| HW2 scheduler | `EC440_HW2/threads.c` | as HW3, without join, exit values or locks | `schedule`, `pthread_create`, `pthread_exit` (calls `exit(0)` once every thread has exited) |
| HW4 TLS | `EC440_HW4/tls.c` | hash table of per-thread TLS areas; pages with reference counts and mprotect state | `tls_create`, `tls_destroy`, `tls_read`, `tls_write` (copy-on-write), `tls_clone`, SIGSEGV handler |
| HW5 file system | `EC440_HW5/fs.c`, `fs.h` | superblock, FAT, root directory, descriptor table, virtual disk | make/mount/umount, create/delete, open/close, read/write, lseek, truncate, get_filesize, listfiles |
| HW5 inode file system | `EC440_HW5/test.c` | superblock, inode table (12 direct entries and an indirect block), root directory, block bitmap, open file table | the same fs.h API |
| HW1 shell (`Shell`) | `EC440_HW1/myshell.c` | parsing state, child processes, pipes | read a line, parse, fork/exec, pipelines, redirection |

### How the parts interact

The threads of the HW3 library share one CPU.

- A 50 ms `ITIMER_REAL` delivers SIGALRM to `schedule`. The handler was installed with `signal()`, so SIGALRM is blocked while it runs.
- `schedule` does three things:
  - it saves the running context with `setjmp` into `tcb[current_thread].context`;
  - it advances `current_thread` round-robin to the next READY slot or to slot 0;
  - it `longjmp`s there.
- Library code also calls `schedule(0)` directly.
- `lock()`/`unlock()` block and unblock SIGALRM.
- glibc's `setjmp` does not save the signal mask. A `longjmp` therefore leaves the mask as it is, and only a return from the handler restores the mask that was in force before the signal.

Semaphores and join use the `BLOCKED` state of the same table. TLS and the file system run on top of some thread library.

The HW1 shell shares nothing with the other parts. Its concurrency is between the shell and the children it forks, which are joined to each other only by pipes and by `wait`.

### Hard behaviours (what tests hardly reach)

The table of hazards in `PROJECT.json` gives each one at its line. They fall into these groups:

- **Unlocked steps between ticks.** `pthread_create` and `sem_init` are not under `lock()`, and the `schedule(0)` loop itself can be preempted.
- **A mask leaking through `longjmp`.** A thread first resumed from the handler keeps SIGALRM blocked.
- **The join wake-up condition.** `pthread_exit` readies threads whose own id equals the exiting thread. It never readies the threads joined on the exiting one.
- **Slot 0 is always eligible.** This hides the lost wake-up for main, and would let main leave `sem_wait` without a post.
- **TLS copy-on-write.** It races with a sharer's `tls_read`, its offset arithmetic can wrap, and its reference counts must balance.
- **FAT chains.** Their walk, truncation and freeing have off-by-one boundaries.
- **The shell's `wait(NULL)`.** It reaps any child, background jobs included. Also, the shell forks the only reader of a pipe after waiting for its writer.
- **Block 0 as a sentinel (test.c).** 0 means "no block", yet `allocate_block` hands out block 0 and the other metadata blocks.

## 2. Plan

1. **`Threads`** (done): the HW3 thread table, contexts, scheduler, create, exit and join. `MCThreads` instantiates it.
2. **`Semaphores`** (done): extends `Threads` with `sem_init`/`wait`/`post`/`destroy`. See section 3b.
3. **`Tls`** (done, section 3c): the hash table and page reference counts, with per-thread read/write/clone/destroy steps interleaved. It will check these properties:
   - the reference count equals the number of TLS areas that hold the page;
   - no TLS area sees another thread's write;
   - the protection state is consistent with the unprotected-page sets.

   A `TlsAbstract` module (per-thread byte maps) is planned, with a refinement mapping.
4. **`Fs`** (done, section 3d): the FAT, the directory and the descriptor table over a disk of a few blocks, with the saved metadata kept apart from the in-memory copy. It checks these properties:
   - every chain ends in `FAT_EOF`;
   - chains are disjoint;
   - a block is free exactly when no chain holds it;
   - a chain holds at least `size` bytes.

   It also checks that reads, writes, truncates and remounts refine `FsAbstract`, a byte-sequence file API.
5. **`Threads2`** (done, section 3e): the HW2 scheduler, whose `pthread_exit` terminates the process once every thread has exited. It has no join and no lock. A refinement to an abstract round-robin scheduler is still planned.
6. **`FsInode`** (done, section 3f): test.c, a second implementation of the fs.h API, checked against the same `FsAbstract`.
7. **`Shell`** (done, section 3g): the HW1 shell's process and pipe handling.

## 3. The `Threads` module

### State

| Variable | Code |
|---|---|
| `tcb[i]` (`id`, `state`, `routine`, `exitValue`) | `tcb[i]`. The start routine is abstracted to the slot of the thread that created it; the stack and `arg` are omitted. |
| `ctx[i]` | `tcb[i].context`. A saved continuation, or `NoCont` when never filled in or already consumed by a `longjmp`. |
| `threadCount`, `current` | `thread_count`, `current_thread` |
| `masked` | SIGALRM is in the process signal mask |
| `run` | The continuation executing on the CPU: the thread whose stack it is on, its resumption point `pc`, whether it was saved inside the handler (`ih`), and one local (`arg`: the slot a create or a join works on). |
| `created[t]` | The handle thread `t`'s last successful `pthread_create` returned |
| `proc` | `running`, or `exited` (main returned), or `crashed` (a `longjmp` to an empty context) |

### Actions

Each action is one statement group of the code, so the timer can interleave between any two.

- **`Tick`**: the handler's `setjmp`. Consecutive statements that the timer cannot separate are one step.
- **`SchedStep`**: one iteration of the `do`/`while`, plus the `longjmp`.
- **`Yield`**: `schedule(0)`.
- **Create**: `CreateBegin` (capacity check), `CreateSlot` (`*thread`, `id`), `CreateInit` (malloc, which may fail, and the `READY` state and context), `CreateCommit` (`thread_count++`) and `CreateReturn`.
- **Exit**: `Exit(v)`, then `Spin` (`while (1);`).
- **Join**: `JoinBegin(h)`, `JoinTest(i)` (one test of the loop), and `JoinRelock` (after `schedule(0)`).
- **`MainReturn`**: the end of `main`.

Two constants decide which threads' code calls create and join: `Creators` and `Joiners`. `main.c` is `Creators = Joiners = {0}`.

`PreemptibleSchedule` says whether a tick may land inside the `schedule(0)` loop. With FALSE, the model assumes the loop is atomic. That assumption keeps the runs that ask other questions free of the `schedule_preempted` bug.

### Fairness

These fairness conditions come from the code's scheduling:

- **`SF(Tick)`.** SIGALRM is periodic and stays pending while blocked.
- **`WF(SchedStep)`.** The selection loop runs to its `longjmp`.
- **Per-thread `SF` on the other library steps (`Progress`).** A resumed thread runs a whole 50 ms slice, so the library call it is in eventually advances.
- **`TerminatingSpec` adds per-thread `SF` on `Exit` for every slot but 0.** This is the `main.c` pattern, where each routine returns into `pthread_exit_wrapper`.

### Runs

All runs use `MaxThreads = 3` and one exit value. Three slots is the smallest table in which these all happen:
- two threads other than main;
- a full table;
- a scheduler pass that skips a non-`READY` slot.

| Run | Expect | Shows |
|---|---|---|
| `main_join` | pass | The `main.c` pattern, with main creating and joining and an atomic selection loop. Every resumable slot holds its own context, and handles name the thread running the creator's routine. A join whose target has exited returns. |
| `schedule_preempted` | violation | A tick inside `schedule(0)` loses a saved context, and a later `longjmp` crashes. |
| `mask_leak` | violation | A fresh thread entered from the handler runs user code with SIGALRM blocked. |

Each property of a passing run has a mutant in `PROJECT.json`: a plausible bug in the mapped code for which TLC reports the property violated.

`ExitWakesJoiners` states spec 4.3's rule that `pthread_exit` readies the threads joined on it. Line 87 compares the blocked thread's own id with the exiting thread's instead, so it never readies them. With `Joiners <- AllSlots`, TLC breaks the property in 12 states, and `main_join`'s configuration breaks it too. There main stays `BLOCKED` and gets out only because `schedule(0)` always stops at slot 0. A two-thread join unit test shows this hang, so the project keeps it as a hazard rather than a run.

With two creators (`Creators <- MainAndFirst`), TLC breaks `HandleNamesOwnThread` in 26 steps. A tick between reading `thread_count` and incrementing it lets the second creator take the same slot. `main.c` creates only from main, so this race is kept as a hazard rather than a run.


## 3b. The `Semaphores` module

`Semaphores` extends `Threads` with these variables:

| Variable | Code |
|---|---|
| `sems[i]` | `semaphore_array[i]`: the value and the `waiting_threads[0..wait_count-1]` sequence, or `NullSem` for a NULL entry |
| `nextSemId` | `next_semaphore_id` |
| `semVal[s]` | The index stored in each `sem_t` object `s` (statics start at 0) |
| `semArg[t]` | The `sem_t` that thread `t`'s current `sem_init` or `sem_destroy` names |
| `semInit`, `posted`, `waited` | History per index: the initial value, the completed posts, and the waits that returned 0 |
| `inited` | The `sem_t`s whose `sem_init` returned 0 |

The steps follow the points where SIGALRM can interleave:
- **`sem_init`** is `SemInitBegin` (capacity check and malloc), then `SemInitPublish` (array entry and `*sem`), then `SemInitCommit` (`next_semaphore_id++`). None of them is under `lock()`.
- **`sem_wait`** is the unlocked check `SemWaitCheck`, then `SemWaitLock` (take a unit, or enqueue, go `BLOCKED` and call `schedule(0)` with SIGALRM still blocked). After `schedule(0)` returns, `SemWaitReturn` (`unlock`) finishes the call.
- **`sem_post`** is `SemPostCheck`, then `SemPostLock`, which pops the last waiter.
- **`sem_destroy`** is `SemDestroyCheck`, then `SemDestroyFree`. A second free of the same record crashes, as glibc aborts on it.

`SemSpec` adds per-thread strong fairness on the library steps of the semaphore calls to the fairness of `Threads`.

| Run | Expect | Shows |
|---|---|---|
| `sem_safety` | pass | The roles: main initialises, posts and destroys; the two created threads wait; one semaphore; at most 3 waits and 3 posts. Under these roles, no wait returns without a unit (spec section 8). A thread BLOCKED on a live semaphore is in its queue. Conversely (`QueuedAreBlocked`), every queued entry is a distinct thread still BLOCKED on that semaphore. With main as the only waiter and no poster, main's spurious return leaves a stale entry, and TLC breaks this property in 9 states. The type invariant holds. |

Suppose main waits on a semaphore nobody posts (`Waiters <- MainOnly`, `Posters <- NoThreads`). Then TLC breaks `SemWaitsBounded` in 9 states: the scheduler always stops at slot 0, so main returns from `sem_wait` without a post. A unit test shows this, so it is kept as a hazard rather than a run.

The model shows other divergences from spec 4.4 that need no run of their own; `PROJECT.json` lists them as hazards:
- `sem_post` is LIFO, not FIFO.
- `sem_destroy` accepts queued waiters. Main is the destroyer in `sem_safety`, so this happens there: TLC leaves a worker BLOCKED on a freed semaphore in 17 states. `WaiterQueued` only speaks of live semaphores, so it does not see this.
- `sem_init` is not locked, so two initialisers can share an index. `sem_safety` has a single initialiser and one semaphore, so it checks no property about this.
- Spurious returns by main overflow `waiting_threads`.

Bounds: 3 thread slots, `MAX_SEMAPHORES` = 1 and 3 calls per semaphore. This is enough for two waiters queued at once, a post that wakes one of them, and a destroy that races a wait.

## 3c. The `Tls` module

`Tls` models `EC440_HW4/tls.c`. Its variables:

| Variable | Code |
|---|---|
| `tls[t]` | The TLS the hash table holds for tid `t` (`size`, `pages[]`), or `NoTls`. The hash chains are the map they implement: the model's two tids never share a bucket. |
| `frames[f]` | The `page_t` of frame `f`: whether it is mmap'd, its `ref_count`, its mprotect state (`none` or `rw`; PROT_WRITE is `rw` on x86), and its bytes |
| `op[t]` | The TLS call thread `t` is in, and its locals (offset, length, loop index, the copy-on-write page, the clone source) |
| `view[t]` | History variable: the bytes `t`'s own writes and clone put in its area |
| `killed` | Threads the SIGSEGV handler terminated |
| `proc` | `running`; `oob` (a page index past `pages[]`); or `crashed` (a clone reading a destroyed source) |

Every loop iteration that touches memory is its own step. The actions are:
- `TlsCreate` and `TlsDestroy`, each one step;
- `AccessBegin`: the lookup, bound check and unprotect of `tls_read`, and of `tls_write` as `TlsWriteBegin`;
- `TlsReadByte`;
- `TlsWriteCheck`: the `ref_count > 1` test and the copy;
- `TlsWriteCow`: substitute, decrement, protect;
- `TlsWriteStore`;
- `AccessEnd`: protect all pages at the end of `tls_read`, and of `tls_write` as `TlsWriteEnd`;
- `TlsCloneBegin` and `TlsCloneCopy`.

An access to a PROT_NONE page runs the handler. The page always belongs to an area, so the handler kills the thread.

tls.c takes no lock, so any thread may step between any two steps. `AtomicCalls = TRUE` models programs that serialise their TLS calls: one call runs to its return before another thread's TLS step.

Unsigned arithmetic is modulo `2^UWidth`. With `UWidth = 4`, `PageSize = 2` and 4 frames, the runs reach these cases:
- two-page areas;
- a clone plus copies.

| Run | Expect | Shows |
|---|---|---|
| `tls_safety` | pass | Two threads with non-overlapping calls; sizes 0, 1 and 3; in-range offsets and lengths. Every mapped page's `ref_count` equals the number of areas (and copies in flight) holding it. Each area holds exactly what its own writes and clone put there, which gives copy-on-write isolation and the round trip of spec 8. No API access faults. `InBounds`: no read or write indexes past `pages[]`. |
| `tls_shared_read` | violation | t2 clones t1's area, and both read. t1's closing `tls_protect` re-protects the shared page under t2, and t2's next byte kills it. |

With interleaved calls, TLC also breaks `CowIsolation` and `RefCountsExact`:
- `CowIsolation` (7 steps): a clone lands between a writer's `ref_count` test and its in-place store.
- `RefCountsExact` (8 steps): a destroy lands between a writer's copy and its decrement, and leaks the page.

These are listed as hazards rather than extra runs.

The bound check `offset + length > size` is computed in `unsigned int`. With one thread, size 3, length 1 and offsets `{0, 15}` (`UWidth = 4`), TLC breaks `InBounds` in 4 states: `tls_read(15, 1)` wraps `15 + 1` to 0, passes the check, and the loop indexes `pages[7]`. A unit test with `offset = UINT_MAX` reaches this too, so it is a hazard note rather than a run.

`tls_write`'s lookup, bound check and unprotect loop are those of `tls_read` (`AccessBegin`); `TlsWriteBegin` and `TlsWriteEnd` name them for `tls_write`.

## 3d. The `Fs` and `FsAbstract` modules

`Fs` models `EC440_HW5/fs.c`. The library is single-threaded: one caller makes one call at a time. Every API call that changes state is therefore one action, from its checks to its last `write_metadata_to_disk`. Its loops are `RECURSIVE` operators that keep the code's allocation-failure exits:
- `FreeChain`;
- `Reach`, which walks to the offset and grows the chain;
- `Fill`, the block copy loop;
- `Gather`, the read loop;
- `TruncWalk`.

| Variable | Code |
|---|---|
| `fat` | `fat_table`; `FAT_EOF` (0xFFFFFFFF) is -1 and `FAT_FREE` is 0 |
| `dir` | `root_directory[]`: in use, name, size and first block of each entry |
| `fdt` | `fd_table[]`: in use, directory entry and offset |
| `disk` | The bytes of the data blocks on disk |
| `dfat`, `ddir` | The FAT entries and the directory as the FAT blocks and the directory block hold them |
| `formatted`, `mounted` | `make_fs` has run; `mounted` |
| `got` | What the last call handed back: the bytes `fs_read` copied, `<<size>>` from `fs_get_filesize`, or the names `fs_listfiles` listed |

The actions are `MakeFs`, `Mount`, `Umount`, `FsCreate`, `FsOpen`, `FsClose`, `FsRead`, `FsWrite`, `FsDelete`, `FsGetFilesize`, `FsListfiles`, `FsLseek` and `FsTruncate`. The cases of `FsWrite` correspond to the code as follows:

| `FsWrite` case | fs.c lines |
|---|---|
| First block claimed for an empty file | 323-333 |
| Gap zero-filled when the offset is past the end (`Extend`) | 335-434 |
| Copy of `buf` (`WritePart`) | 436-534 |
| Metadata saved | before each return |

`fs_get_filesize` and `fs_listfiles` change only `got`, so the refinement checks what they return. `FsAbstract` says a size is the file's length, and a listing holds every file once, in any order. A `malloc` in `fs_listfiles` may fail, which returns -1 and no list. The array it returns carries no count and no terminator, so a caller cannot tell how many names it holds; the model records the names.

The model abstracts the code in these ways:
- `disk.c` is not in the repository. `block_read`/`block_write` of an in-range block succeed, `DISK_BLOCKS` is the constant `DiskBlocks`, and `make_fs` runs only while unmounted (see the hazards).
- `umount_fs` leaves `root_directory` and `fd_table` as they were, but `mount_fs` overwrites both before anything reads them. The model clears them at umount. A closed descriptor slot is a single canonical value.
- `FatEntries` is how many FAT entries the FAT blocks hold on disk. `Mount` reads those and takes the rest of the table as any value, which is what `malloc` gives.

`FsAbstract` is what the API promises:
- `afiles[n]` is a byte sequence, or `NoFile`.
- `afds[j]` is `[name, offset]`, or `Closed`.
- A write at offset `o` writes a prefix of `Zeros(o - min(o, len)) \o buf`: the disk may fill at any byte.
- `fs_truncate` pulls back only its own descriptor's offset.
- A file open on some descriptor cannot be deleted.

`Fs` instantiates it as `Abs`:
- a file is the bytes of its chain, cut to `size`;
- a descriptor is its entry's name and its offset;
- while unmounted, the files are those the saved FAT and directory describe.

`FsRefines == Abs!ASpec` therefore says three things. Contents, offsets and read results match the specification after every call. Every call is an allowed abstract step. What is on disk after `umount_fs` is what the next `mount_fs` finds.

| Run | Expect | Shows |
|---|---|---|
| `fs_refinement` | pass | `FatWellFormed`: the in-memory FAT while mounted, and the saved FAT and directory always, are well formed. Every live chain ends in `FAT_EOF`, live chains are disjoint, a block is non-free exactly when a live chain holds it, and each chain holds at least `size` bytes. `FsRefines`: fs.c implements `FsAbstract`. |

The bounds are:
- two names and two directory slots;
- two descriptors;
- 2-byte blocks and 6 disk blocks, of which blocks 4 and 5 hold data;
- one 3-byte buffer, reads of 2 bytes, and seeks and truncates to 2;
- the whole FAT persisted (`FatEntries = DiskBlocks`).

Within these bounds:
- a write spans two blocks;
- offsets fall inside a block (3 is odd);
- two files compete for the two data blocks;
- the disk fills in the middle of a write;
- a truncate to the aligned length 2 keeps a second block past the new end;
- another descriptor is left past the end and writes over the gap.

`got` is write-only: no action reads it. The cfg therefore has `VIEW FsView`, which leaves `got` out, so states that differ only in the last result are one state. TLC still checks the refinement on every step it generates, `got'` included.

A wider seek set `{0, 2}` also passes. It additionally reaches a gap zero-fill that runs out of blocks (fs.c:424), but it takes about 4 minutes under coverage, so it is not the project's run. Reads of 1 byte or a seek to 1 multiply the state space about tenfold.

Persistence is a hazard rather than a run. `write_metadata_to_disk` saves only 2048 FAT entries, while the table has `DISK_BLOCKS` entries. With `FatEntries = 5` of 6, TLC breaks `FsRefines` in 12 steps: a file whose second block is past the saved entries loses bytes at remount. `DISK_BLOCKS` is not in the repository, so the project does not run this as a violation.

## 3e. The `Threads2` module (HW2 scheduler)

`Threads2` models `EC440_HW2/threads.c`, the first version of the library. It has the same representation as `Threads`:
- `run` is the continuation on the CPU;
- `ctx` holds the saved jmp_bufs;
- `ih` marks a continuation saved inside the SIGALRM handler;
- `masked` is the SIGALRM mask;
- `tcb`, `threadCount` and `current` are the code's globals.

The code differs from HW3 in what the model must carry:
- There is no `lock()`, so nothing but a handler return (sigreturn) ever unblocks SIGALRM.
- `pthread_exit` sets `EXITED`, then scans the table and calls `exit(0)` when no slot is alive. Otherwise it calls `schedule(0)` and spins in `while (1)`.
- There is no join and there are no exit values.

The actions:

| Action | Code |
|---|---|
| `Tick`, `SchedStep` | The SIGALRM handler's `setjmp` (lines 40-41) and one iteration of the do-while with its `longjmp` (lines 42-50) |
| `Yield` | `schedule(0)` called from `pthread_create` and `pthread_exit` |
| `CreateBegin` | The `pthread_create` capacity check (lines 79-82) |
| `CreateSlot` | Writing `*thread` and `tcb[].id` (lines 84-85) |
| `CreateInit` | The stack malloc, whose failure returns -1, the routine, `READY` and the initial jmp_buf (lines 86-104) |
| `CreateCommit` | `thread_count++` (line 106) |
| `CreateReturn` | `return 0` |
| `Exit` | `pthread_exit` setting `EXITED` (lines 55-56) |
| `ExitCheck` | The alive loop and `exit(0)` (lines 58-69) |
| `Spin` | `while (1)` |
| `MainReturn` | main returning, which makes the C runtime call `exit` |

The repository has no HW2 test program, so main may either return or call `pthread_exit`. Only main creates threads.

The fairness is that of `Threads`, for the same reasons. `TerminatingSpec` adds a per-slot `SF` on the thread's own end, `Exit` or `MainReturn`: a program whose routines all return.

| Run | Expect | Shows |
|---|---|---|
| `hw2_safety` | pass | `MaxThreads = 3`. Every slot the selection loop can stop at holds a jmp_buf of its own thread, unless it is the running one. This includes slot 0 after main has exited. The handle `pthread_create` returns names the thread that runs the caller's routine (`HandleNamesOwnThread`). With `Creators <- MainAndFirst` and `MaxThreads = 4`, the line-84 read racing the line-106 increment breaks it in 20 states. The `schedule(0)` loop is taken as not preempted, as in `main_join`. |
| `hw2_hang` | violation | `MaxThreads = 2`. `ProcessEnds` fails in 16 steps. The behaviour is described below. |

The `hw2_hang` behaviour:
1. main creates t1, and t1 runs.
2. A tick switches to main. Main's context was saved by `schedule(0)`, not by the handler, so SIGALRM stays blocked.
3. main calls `pthread_exit`, and t1 resumes through its handler-saved context, which unblocks SIGALRM.
4. The next tick's scan wraps to slot 0. Slot 0 is always eligible, so it resumes main's `while (1)`, again with SIGALRM blocked.

main then spins forever and t1, still READY, never runs. Spec 4.3 says the process ends once no thread remains, and section 5 promises round-robin among READY threads.

## 3f. The `FsInode` module (HW5 test.c)

Despite its name, `EC440_HW5/test.c` is not a test driver. It is a second implementation of the fs.h API. It uses these structures:
- an inode table, where each inode holds 12 direct block numbers, one indirect block of `uint16_t` entries, and a size;
- a root directory of (name, inode) entries;
- a block bitmap;
- an open file table.

Blocks 0-3 hold the superblock, inode table, directory and bitmap. Only `make_fs` and `umount_fs` write them, and only `mount_fs` reads them. Its `make_fs`, `mount_fs` and `fs_open` take `char *` where fs.h declares `const char *`, so it does not compile against this fs.h. The model is of its code as written.

| Variable | Code |
|---|---|
| `inode`, `rdir`, `oft` | `inode_table`, `root_dir`, `open_files` |
| `bitmap` | the set bits of `bitmap[]` |
| `disk` | every block's bytes, metadata blocks included |
| `dinode`, `ddir`, `dbitmap` | the tables as blocks 1-3 last saved them |
| `mounted` | not in the code (test.c has no flag): the caller uses the API only between `mount_fs` and `umount_fs` |
| `proc` | `"undefined"` after undefined behaviour, which stops the model |

Every call is one action, as in `Fs`. The loops are `RECURSIVE` operators:
- `ReadLoop`;
- `WriteLoop`;
- `ZeroTail`, the byte loop of `fs_truncate`.

`Alloc` is `allocate_block`, and `FreeAll` is the freeing loops of `fs_delete` and `fs_truncate`. `Decode` reads a `uint16_t` indirect entry from two bytes, little-endian. A table's bytes read back as file data are the model value `Junk`, and an entry decoded from them is `Wild`. Reading through `Wild`, reading an entry past the indirect block (`Oob`), or freeing a block number outside the bitmap is undefined behaviour.

The refinement mapping to `FsAbstract` is the same as `Fs`'s. A file is what reading it whole with the read loop returns, from the in-memory tables while mounted and from the saved ones otherwise. A read that stops short ends in `Junk`.

| Run | Expect | Shows |
|---|---|---|
| `fsinode_refinement` | violation | `FsIRefines` fails in 7 states: `make_fs`, `mount_fs`, `fs_create(n1)`, `fs_open`, `fs_write(<<1, 2, 3>>)`, then `umount_fs`. |

Here is what happens in that trace:
1. `make_fs` never sets the bits of blocks 0-3.
2. `allocate_block` scans from bit 0, so the write's two blocks are 0 and 1.
3. 0 also means "no block", so `direct_blocks[0]` stays 0.
4. In the same session a read returns the right bytes, because `fs_read` reads direct entry 0 as block 0.
5. `umount_fs` saves the tables over blocks 0-3, and the file now holds `Junk`.

The bounds are two names, two descriptors, 2-byte blocks (one indirect entry per block), 2 direct entries, 6 blocks, one 3-byte buffer, reads of 2 bytes, and seeks and truncates to 0 and 2. With 2 direct entries, a file reaches its indirect block after two writes.

The hazards in `PROJECT.json` also list three other bugs that do not need a run:
- `fs_write` stores a newly allocated indirect entry only in its local copy of the block;
- an indirect index is never bounded;
- `fs_truncate` to a non-zero length frees nothing.

## 3g. The `Shell` module (HW1 myshell.c)

The shell is one process. Its children run concurrently with it and with one another, and they are joined to each other only by pipes. `Shell` models the shell's control flow together with its children and their pipes.

A line is given as its `|`-separated commands and its `&` flag, which is what `parse_and_execute` makes of it. A command is given as what its program does with its descriptors:
- the units it writes;
- whether it reads stdin to end of file;
- whether `execvp` finds it;
- its redirection.

| Variable | Code |
|---|---|
| `pc`, `ln` | where `main`/`parse_and_execute` is, and the current line |
| `i`, `inFd`, `pfd` | `execute_piped_commands`' `i`, `input_fd` and `pipefds` (the pipe made by this iteration) |
| `sfd` | the pipe ends open in the shell |
| `pipes[p]` | the units buffered in pipe `p`, at most `Cap` |
| `procs[k]` | every child forked: its line and position, its state (`exec`, `run`, `zombie`, `reaped`), its stdin and stdout, the pipe ends it holds, what it still has to write, and whether it has seen end of file |

The shell's actions are these:
- `ParseAndExecute`: the dispatch. One command goes to `execute_command`; any other count goes to the pipe loop, which ignores `&`.
- `EndOfInput`.
- `ExecuteCommand` and `WaitCommand`.
- `PipeFork`: `pipe`, `fork`, and the child's `dup2`s and `close`.
- `PipeWait`: `wait`, then `close` of the write end, then `input_fd = pipefds[0]`.
- `PipeLoopEnd`.
- `ForkFails`: `exit(1)`.

`ReapAny` is `wait(NULL)`: it reaps whichever child has exited.

`PipeRoom` covers `pipe()`. The shell holds descriptors 0-2 and every pipe end in `sfd`, and `pipe()` fails when fewer than two of `MaxFds` are free. The shell never closes a read end, so each pipeline leaks one descriptor per command. `pipe()`'s result is not checked, so after a failure `pipefds` still names the previous iteration's pipe:
- the child's `dup2` of the closed write end fails, and its stdout stays the terminal;
- the next command reads the old, drained pipe.

`shell_pipeline` sets `MaxFds = 16`. With `MaxFds = 5`, TLC breaks `PipesConnected` in 25 states, in the second iteration of `yes2 | cat | wc`.

Each child first takes `HandleRedirection` and `execvp`, and then runs its program:
- `ProgWrite` blocks while the pipe is full. The writer dies of SIGPIPE if no one holds the read end.
- `ProgRead` sees end of file only when the pipe is empty and no live process, the shell included, holds the write end.
- `ProgExit`.

These are kernel semantics, not code of the repository, so they have no map entry. The fairness is weak fairness of the whole next-state relation, because the kernel always runs some runnable process. There are no cycles except the final stutter `Done`, so this is enough for termination.

| Run | Expect | Shows |
|---|---|---|
| `shell_pipeline` | pass | The script is `ls > f; yes2 \| cat \| wc; sort < f \| nosuch; yes3 &; ls &` with `Cap = 2`. `ForegroundDone`: at every prompt, every foreground command has exited. `PipesConnected`: once two consecutive commands of a pipeline have exec'd, what the first writes is what the second reads, unless a redirection replaced one of them. `EventuallyAllDone`: the shell reaches the end of its input and every child exits. This covers a redirection, an `execvp` failure, a pipeline reader waiting for end of file, and two background jobs running while the shell exits. |
| `shell_misreap` | violation | The script is `ls &; yes2 \| wc`. The background `ls` exits while `yes2` runs, and the pipeline's first `wait(NULL)` reaps it. The second `wait` reaps `yes2`, and the prompt returns before `wc` has even exec'd (16 states). |

The bounds need to cover a few cases:
- the background jobs come last, so no later `wait` can take them;
- no command writes more than `Cap`.

Lifting the second bound gives the pipe deadlock in 11 states with `Cap = 1`. In `yes2 | cat | wc`, the shell waits for `yes2`, which blocks on a full pipe whose only reader has not been forked. That is any `cat` of more than 64 KiB into a pipe, so it is recorded as a hazard of `EventuallyAllDone`. The mutants are a parent that never waits (`ForegroundDone`), a write end given to one command too few (`PipesConnected`), and a parent that keeps the pipe's write end (`wc` never sees end of file, so `EventuallyAllDone` fails).

## 4. Not modelled (yet) and why

- Stacks, `ptr_mangle` and `start_thunk` are not modelled. A context is modelled by where it resumes.
- Exit values are a single model value: nothing in the library inspects them.
- In `Threads2`, stacks, `ptr_mangle` and `start_thunk` are abstracted as in `Threads`, and `pthread_self` only reads `tcb[].id`.
- In `Fs`, disk I/O failure and a crash inside `write_metadata_to_disk` are not modelled, because `disk.c` is not in the repository.
- In `Tls`, `tls_init` installing the handler is part of the initial state. mmap failure, which exits, is replaced by the `MaxFrames` bound disabling the call.
- In `Shell`, three things are left out:
  - `trim_spaces` and `split_redirection_symbols`. They are string surgery, so a line enters the model already split into commands, with its '&' flag.
  - The prompt.
  - `pipe()` failing in the first iteration of a pipeline, where `pipefds` is uninitialized. A failure in a later iteration is modelled.

  A child reading the terminal sees end of file at once. With `-n` and a script on stdin, a real child could read the script's remaining lines. This is not modelled.
