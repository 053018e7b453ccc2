----------------------------- MODULE Semaphores -----------------------------
(***************************************************************************)
(* The semaphores of src/EC440/EC440_HW3/threads.c (sem_init, sem_wait,    *)
(* sem_post, sem_destroy) on top of the thread library of module Threads.  *)
(*                                                                         *)
(* semaphore_array[] holds pointers to malloc'd custom_semaphore records;  *)
(* a sem_t holds an index into it.  next_semaphore_id only grows, so an    *)
(* index names one allocation for the life of the process and a freed     *)
(* record is an entry that went back to NULL.  sem_init and sem_destroy    *)
(* never call lock(); sem_wait and sem_post check the handle before lock() *)
(* and do the rest under it.                                               *)
(***************************************************************************)
EXTENDS Threads, Sequences, SequencesExt

CONSTANTS
  MaxSems,        \* MAX_SEMAPHORES
  SemVars,        \* the program's sem_t objects (statics, so they start at 0)
  InitValues,     \* initial values passed to sem_init
  SemIniters,     \* threads whose code calls sem_init
  Waiters,        \* threads whose code calls sem_wait
  Posters,        \* threads whose code calls sem_post
  Destroyers,     \* threads whose code calls sem_destroy
  MaxSemCalls     \* bound on sem_wait and sem_post calls per semaphore

ASSUME MaxSems \in Nat \ {0} /\ MaxSems <= MaxThreads
ASSUME InitValues \subseteq Nat /\ MaxSemCalls \in Nat

SemIds  == 0 .. MaxSems - 1
NullSem == [value |-> -1, queue |-> <<>>]     \* a NULL semaphore_array[] entry

VARIABLES
  sems,        \* semaphore_array[i]: value and waiting_threads[0..wait_count-1]
  nextSemId,   \* next_semaphore_id
  semVal,      \* the index stored in each sem_t
  semArg,      \* per thread: the sem_t its current sem_init / sem_destroy names
  semInit,     \* per index: the value it was initialised with
  posted,      \* per index: completed sem_post calls
  waited,      \* per index: sem_wait calls that have returned 0
  inited       \* the sem_t objects a sem_init has returned 0 for

svars == <<sems, nextSemId, semVal, semArg, semInit, posted, waited, inited>>
vars  == <<tvars, svars>>

\* The handle checks every call starts with, threads.c:179-181 etc.
ValidSem(i) == i \in SemIds /\ sems[i] # NullSem

(***************************************************************************)
(* sem_init: three preemptible steps around next_semaphore_id.             *)
(***************************************************************************)

\* The capacity check and malloc; the record is not yet published.
SemInitBegin(s) ==
  /\ run.pc = "user"
  /\ run.thr \in SemIniters
  /\ IF nextSemId >= MaxSems
     THEN UNCHANGED <<run, semArg>>                     \* return -1
     ELSE \/ UNCHANGED <<run, semArg>>                  \* malloc failed
          \/ /\ run' = [run EXCEPT !.pc = "sinit_publish"]
             /\ semArg' = [semArg EXCEPT ![run.thr] = s]
  /\ UNCHANGED <<tcb, ctx, threadCount, current, masked, created, proc>>
  /\ UNCHANGED <<sems, nextSemId, semVal, semInit, posted, waited, inited>>

\* Mutant: *sem is written after the increment it should precede.
SemInitPublishNextId(v) ==
  /\ run.pc = "sinit_publish"
  /\ nextSemId < MaxSems
  /\ sems' = [sems EXCEPT ![nextSemId] = [value |-> v, queue |-> <<>>]]
  /\ semVal' = [semVal EXCEPT ![semArg[run.thr]] = nextSemId + 1]
  /\ semInit' = [semInit EXCEPT ![nextSemId] = v]
  /\ run' = [run EXCEPT !.pc = "sinit_commit"]
  /\ UNCHANGED <<tcb, ctx, threadCount, current, masked, created, proc>>
  /\ UNCHANGED <<nextSemId, semArg, posted, waited, inited>>

\* semaphore_array[next_semaphore_id] = csem; *sem = next_semaphore_id.
\* The initial value is chosen here: it is a parameter, not shared state.
SemInitPublish(v) ==
  /\ run.pc = "sinit_publish"
  /\ nextSemId < MaxSems
  /\ sems' = [sems EXCEPT ![nextSemId] = [value |-> v, queue |-> <<>>]]
  /\ semVal' = [semVal EXCEPT ![semArg[run.thr]] = nextSemId]
  /\ semInit' = [semInit EXCEPT ![nextSemId] = v]
  /\ run' = [run EXCEPT !.pc = "sinit_commit"]
  /\ UNCHANGED <<tcb, ctx, threadCount, current, masked, created, proc>>
  /\ UNCHANGED <<nextSemId, semArg, posted, waited, inited>>

\* next_semaphore_id++; return 0.
SemInitCommit ==
  /\ run.pc = "sinit_commit"
  /\ nextSemId' = nextSemId + 1
  /\ inited' = inited \cup {semArg[run.thr]}
  /\ run' = [run EXCEPT !.pc = "user"]
  /\ UNCHANGED <<tcb, ctx, threadCount, current, masked, created, proc>>
  /\ UNCHANGED <<sems, semVal, semArg, semInit, posted, waited>>

(***************************************************************************)
(* sem_wait                                                                *)
(***************************************************************************)

\* Unlocked handle check (178-181); fails with -1 on a bad or NULL entry.
SemWaitCheck(s) ==
  LET i == semVal[s] IN
  /\ run.pc = "user"
  /\ run.thr \in Waiters
  /\ IF ValidSem(i)
     THEN /\ waited[i] + Len(sems[i].queue) < MaxSemCalls
          /\ run' = [run EXCEPT !.pc = "swait_lock", !.arg = i]
     ELSE UNCHANGED run
  /\ UNCHANGED <<tcb, ctx, threadCount, current, masked, created, proc>>
  /\ UNCHANGED svars

(* lock(); take a unit if there is one and return, else append            *)
(* current_thread to waiting_threads, mark it BLOCKED and call schedule(0) *)
(* with SIGALRM still blocked.  A csem freed since the check would be a    *)
(* use after free; the model does not take that step (see the hazards).   *)
SemWaitLock ==
  LET i == run.arg IN
  /\ run.pc = "swait_lock"
  /\ sems[i] # NullSem
  /\ IF sems[i].value > 0
     THEN /\ sems' = [sems EXCEPT ![i].value = @ - 1]
          /\ waited' = [waited EXCEPT ![i] = @ + 1]
          /\ masked' = FALSE
          /\ run' = [run EXCEPT !.pc = "user"]
          /\ UNCHANGED tcb
     ELSE /\ sems' = [sems EXCEPT ![i].queue = Append(@, current)]
          /\ tcb' = [tcb EXCEPT ![current].state = BLOCKED]
          /\ masked' = TRUE
          /\ run' = [run EXCEPT !.pc = "swait_sched"]
          /\ UNCHANGED waited
  /\ UNCHANGED <<ctx, threadCount, current, created, proc>>
  /\ UNCHANGED <<nextSemId, semVal, semArg, semInit, posted, inited>>

\* schedule(0) returned: unlock(); return 0.  Nothing re-checks the value.
SemWaitReturn ==
  /\ run.pc = "sem_ret"
  /\ waited' = [waited EXCEPT ![run.arg] = @ + 1]
  /\ masked' = FALSE
  /\ run' = [run EXCEPT !.pc = "user"]
  /\ UNCHANGED <<tcb, ctx, threadCount, current, created, proc>>
  /\ UNCHANGED <<sems, nextSemId, semVal, semArg, semInit, posted, inited>>

(***************************************************************************)
(* sem_post and sem_destroy                                                *)
(***************************************************************************)

\* Unlocked handle check (196-199).
SemPostCheck(s) ==
  LET i == semVal[s] IN
  /\ run.pc = "user"
  /\ run.thr \in Posters
  /\ IF ValidSem(i)
     THEN /\ posted[i] < MaxSemCalls
          /\ run' = [run EXCEPT !.pc = "spost_lock", !.arg = i]
     ELSE UNCHANGED run
  /\ UNCHANGED <<tcb, ctx, threadCount, current, masked, created, proc>>
  /\ UNCHANGED svars

\* Mutant: the value is incremented even when a waiter is handed the unit.
SemPostLockAlwaysIncr ==
  LET i == run.arg
      q == sems[i].queue IN
  /\ run.pc = "spost_lock"
  /\ sems[i] # NullSem
  /\ IF q # <<>>
     THEN /\ sems' = [sems EXCEPT ![i].queue = Front(q), ![i].value = @ + 1]
          /\ tcb' = [tcb EXCEPT ![Last(q)].state = READY]
     ELSE /\ sems' = [sems EXCEPT ![i].value = @ + 1]
          /\ UNCHANGED tcb
  /\ posted' = [posted EXCEPT ![i] = @ + 1]
  /\ masked' = FALSE
  /\ run' = [run EXCEPT !.pc = "user"]
  /\ UNCHANGED <<ctx, threadCount, current, created, proc>>
  /\ UNCHANGED <<nextSemId, semVal, semArg, semInit, waited, inited>>

\* Mutant: the waiter is marked READY but wait_count is not decremented.
SemPostLockNoDequeue ==
  LET i == run.arg
      q == sems[i].queue IN
  /\ run.pc = "spost_lock"
  /\ sems[i] # NullSem
  /\ IF q # <<>>
     THEN /\ tcb' = [tcb EXCEPT ![Last(q)].state = READY]
          /\ UNCHANGED sems
     ELSE /\ sems' = [sems EXCEPT ![i].value = @ + 1]
          /\ UNCHANGED tcb
  /\ posted' = [posted EXCEPT ![i] = @ + 1]
  /\ masked' = FALSE
  /\ run' = [run EXCEPT !.pc = "user"]
  /\ UNCHANGED <<ctx, threadCount, current, created, proc>>
  /\ UNCHANGED <<nextSemId, semVal, semArg, semInit, waited, inited>>

\* Mutant: the waiter is dequeued but never marked READY.
SemPostLockNoReady ==
  LET i == run.arg
      q == sems[i].queue IN
  /\ run.pc = "spost_lock"
  /\ sems[i] # NullSem
  /\ IF q # <<>>
     THEN sems' = [sems EXCEPT ![i].queue = Front(q)]
     ELSE sems' = [sems EXCEPT ![i].value = @ + 1]
  /\ UNCHANGED tcb
  /\ posted' = [posted EXCEPT ![i] = @ + 1]
  /\ masked' = FALSE
  /\ run' = [run EXCEPT !.pc = "user"]
  /\ UNCHANGED <<ctx, threadCount, current, created, proc>>
  /\ UNCHANGED <<nextSemId, semVal, semArg, semInit, waited, inited>>

(* lock(); pop the LAST waiter (waiting_threads[--wait_count]) and mark it *)
(* READY, or increment the value if nobody waits; unlock(); return 0.      *)
SemPostLock ==
  LET i == run.arg
      q == sems[i].queue IN
  /\ run.pc = "spost_lock"
  /\ sems[i] # NullSem
  /\ IF q # <<>>
     THEN /\ sems' = [sems EXCEPT ![i].queue = Front(q)]
          /\ tcb' = [tcb EXCEPT ![Last(q)].state = READY]
     ELSE /\ sems' = [sems EXCEPT ![i].value = @ + 1]
          /\ UNCHANGED tcb
  /\ posted' = [posted EXCEPT ![i] = @ + 1]
  /\ masked' = FALSE
  /\ run' = [run EXCEPT !.pc = "user"]
  /\ UNCHANGED <<ctx, threadCount, current, created, proc>>
  /\ UNCHANGED <<nextSemId, semVal, semArg, semInit, waited, inited>>

\* Unlocked handle check (213-216).
SemDestroyCheck(s) ==
  LET i == semVal[s] IN
  /\ run.pc = "user"
  /\ run.thr \in Destroyers
  /\ IF ValidSem(i)
     THEN /\ run' = [run EXCEPT !.pc = "sdestroy_free", !.arg = i]
          /\ semArg' = [semArg EXCEPT ![run.thr] = s]
     ELSE UNCHANGED <<run, semArg>>
  /\ UNCHANGED <<tcb, ctx, threadCount, current, masked, created, proc>>
  /\ UNCHANGED <<sems, nextSemId, semVal, semInit, posted, waited, inited>>

(* free(csem); semaphore_array[i] = NULL; *sem = -1; return 0.  Waiters   *)
(* still queued are dropped.  A csem another destroy freed since the check *)
(* is a double free, which glibc aborts on.                                *)
SemDestroyFree ==
  /\ run.pc = "sdestroy_free"
  /\ IF sems[run.arg] = NullSem
     THEN /\ proc' = "crashed"
          /\ UNCHANGED <<sems, semVal, run>>
     ELSE /\ sems' = [sems EXCEPT ![run.arg] = NullSem]
          /\ semVal' = [semVal EXCEPT ![semArg[run.thr]] = -1]
          /\ run' = [run EXCEPT !.pc = "user"]
          /\ UNCHANGED proc
  /\ UNCHANGED <<tcb, ctx, threadCount, current, masked, created>>
  /\ UNCHANGED <<nextSemId, semArg, semInit, posted, waited, inited>>

(***************************************************************************)
(* Specification                                                           *)
(***************************************************************************)

\* Zeroed statics: every sem_t holds 0, every array entry is NULL.
SemInit ==
  /\ ThreadsInit
  /\ sems = [i \in SemIds |-> NullSem]
  /\ nextSemId = 0
  /\ semVal = [s \in SemVars |-> 0]
  /\ semArg = [t \in Slots |-> CHOOSE s \in SemVars : TRUE]
  /\ semInit = [i \in SemIds |-> 0]
  /\ posted = [i \in SemIds |-> 0]
  /\ waited = [i \in SemIds |-> 0]
  /\ inited = {}

\* Library steps of the semaphore calls, after their entry.
SemProgress ==
  \/ \E v \in InitValues : SemInitPublish(v)
  \/ SemInitCommit \/ SemWaitLock \/ SemWaitReturn \/ SemPostLock \/ SemDestroyFree

\* Semaphore calls the threads' own code may make.
SemUserStep ==
  \E s \in SemVars :
    SemInitBegin(s) \/ SemWaitCheck(s) \/ SemPostCheck(s) \/ SemDestroyCheck(s)

SemNext ==
  \/ /\ proc = "running"
     /\ \/ (Tick \/ LibStep \/ UserStep \/ Spin) /\ UNCHANGED svars
        \/ SemUserStep
        \/ SemProgress
  \/ Done /\ UNCHANGED svars

SemSpec ==
  /\ SemInit /\ [][SemNext]_vars
  /\ SF_vars(Tick) /\ WF_vars(SchedStep)
  /\ \A t \in Slots : SF_vars(run.thr = t /\ ((Progress /\ UNCHANGED svars) \/ SemProgress))

(***************************************************************************)
(* Properties                                                              *)
(***************************************************************************)

SemTypeOK ==
  /\ TypeOK
  /\ sems \in [SemIds -> {NullSem} \cup [value : Nat, queue : Seq(Slots)]]
  /\ nextSemId \in 0 .. MaxSems
  /\ semVal \in [SemVars -> SemIds \cup {-1}]
  /\ semArg \in [Slots -> SemVars]
  /\ semInit \in [SemIds -> Nat]
  /\ posted \in [SemIds -> Nat]
  /\ waited \in [SemIds -> Nat]
  /\ inited \subseteq SemVars

(* No spurious wakeups (spec section 8): the sem_wait calls that have     *)
(* returned 0 never outnumber the initial value plus the completed posts. *)
(* Threatened by sem_wait returning after schedule(0) without re-checking  *)
(* that a post handed it the unit.                                         *)
SemWaitsBounded ==
  \A i \in SemIds : waited[i] <= semInit[i] + posted[i]

\* Thread t is parked inside sem_wait on semaphore i.
SemBlocked(t, i) ==
  /\ tcb[t].state = BLOCKED
  /\ \E c \in Active : c.thr = t /\ c.pc \in {"swait_sched", "sem_ret"} /\ c.arg = i

(* No lost wakeups: a thread still BLOCKED inside sem_wait on a live      *)
(* semaphore is in that semaphore's wait queue, so some sem_post can still *)
(* ready it.  Broken if a post drops a waiter without readying it.  (A     *)
(* destroyed semaphore's waiters are lost by design of sem_destroy.)       *)
WaiterQueued ==
  \A t \in Slots, i \in SemIds :
    (SemBlocked(t, i) /\ sems[i] # NullSem) =>
      \E k \in 1 .. Len(sems[i].queue) : sems[i].queue[k] = t

(* The converse, no stale entries: every entry of a live semaphore's      *)
(* waiting_threads[0..wait_count-1] is a distinct thread still BLOCKED in *)
(* sem_wait on it.  A stale entry is a later sem_post readying a thread   *)
(* that is not waiting, and waiting_threads, MAX_THREADS long, overflows   *)
(* once a thread that returned without a post waits again.                 *)
QueuedAreBlocked ==
  \A i \in SemIds :
    sems[i] # NullSem =>
      /\ \A k \in 1 .. Len(sems[i].queue) : SemBlocked(sems[i].queue[k], i)
      /\ \A k, m \in 1 .. Len(sems[i].queue) :
           k # m => sems[i].queue[k] # sems[i].queue[m]

=============================================================================
