------------------------------ MODULE Threads ------------------------------
(***************************************************************************)
(* The user-space thread library of src/EC440/EC440_HW3/threads.c: the     *)
(* thread table tcb[], the round-robin schedule() driven by SIGALRM, the   *)
(* jmp_buf contexts it switches between, pthread_create, pthread_exit and  *)
(* pthread_join, and the SIGALRM mask that lock()/unlock() toggle.         *)
(*                                                                         *)
(* One CPU runs one continuation at a time (variable run).  Every other    *)
(* continuation is a jmp_buf saved in some slot's context (variable ctx).  *)
(* A continuation records the thread whose stack it runs on (thr), where   *)
(* it resumes (pc), whether it was saved inside the SIGALRM handler (ih),  *)
(* and one local (arg: the slot a create or a join works on).  glibc's     *)
(* setjmp does not save the signal mask, so a longjmp leaves the mask as   *)
(* it was; only a return from the signal handler (sigreturn) restores the  *)
(* mask that was in force when the signal arrived, which had SIGALRM       *)
(* unblocked.                                                              *)
(***************************************************************************)
EXTENDS Integers, FiniteSets, FiniteSetsExt

CONSTANTS
  MaxThreads,           \* MAX_THREADS: capacity of tcb[]
  Values,               \* exit values threads pass to pthread_exit
  NoValue,              \* NULL: the exit_value of a slot nobody has set
  Creators,             \* threads whose code calls pthread_create
  Joiners,              \* threads whose code calls pthread_join
  PreemptibleSchedule   \* can SIGALRM arrive inside a schedule(0) loop?

ASSUME MaxThreads \in Nat \ {0}
ASSUME NoValue \notin Values
ASSUME PreemptibleSchedule \in BOOLEAN

Slots == 0 .. MaxThreads - 1
None  == -1                         \* no slot / NULL start routine

\* Thread states, threads.c:13-16.  READY is 0, so zeroed slots are READY.
READY   == "READY"
RUNNING == "RUNNING"
EXITED  == "EXITED"
BLOCKED == "BLOCKED"
States  == {READY, RUNNING, EXITED, BLOCKED}

(* Resumption points.  "user" is code outside the library; the others are  *)
(* between two statements of a library function (the sem ones belong to  *)
(* the Semaphores module, which extends this one).                        *)
Pcs == {"user", "create_slot", "create_init", "create_commit",
        "create_sched", "create_ret", "join_sched", "join_lock",
        "exit_sched", "exit_spin", "sched_loop", "none",
        "sinit_publish", "sinit_commit", "swait_lock", "swait_sched",
        "sem_ret", "spost_lock", "sdestroy_free"}

\* Where a thread continues once the schedule(0) it called returns.
AfterSchedule == [create_sched |-> "create_ret",
                  join_sched   |-> "join_lock",
                  exit_sched   |-> "exit_spin",
                  swait_sched  |-> "sem_ret"]

Cont   == [thr : Slots, pc : Pcs, ih : BOOLEAN, arg : Slots]
NoCont == [thr |-> 0, pc |-> "none", ih |-> FALSE, arg |-> 0]

VARIABLES
  tcb,          \* tcb[i]: id, state, start_routine (as its creator), exit_value
  ctx,          \* tcb[i].context: the continuation a longjmp to slot i resumes
  threadCount,  \* thread_count
  current,      \* current_thread
  masked,       \* SIGALRM is blocked in the process signal mask
  run,          \* the continuation executing on the CPU
  created,      \* per thread: the handle its last successful create returned
  proc          \* "running", "exited" (exit()) or "crashed"

tvars == <<tcb, ctx, threadCount, current, masked, run, created, proc>>

Live == 0 .. threadCount - 1

\* Continuations that will still run: the running one and the saved ones.
Active == {run} \cup {ctx[j] : j \in Slots}

(***************************************************************************)
(* Context switching                                                       *)
(***************************************************************************)

\* Loop condition of schedule(): stop at a READY slot or at slot 0.
Eligible(i) == tcb[i].state = READY \/ i = 0

\* longjmp(tcb[n].context, 1) with mask m in force.  A continuation saved
\* by the handler returns through sigreturn, which unblocks SIGALRM.  A
\* jmp_buf that was never filled in (or is already used) crashes.
Resume(n, m) ==
  LET c == ctx[n] IN
  IF c.pc = "none"
  THEN /\ proc' = "crashed"
       /\ UNCHANGED <<run, masked, ctx>>
  ELSE /\ run' = [c EXCEPT !.ih = FALSE]
       /\ masked' = (m /\ ~c.ih)
       /\ ctx' = [ctx EXCEPT ![n] = NoCont]
       /\ proc' = proc

(* SIGALRM handler schedule(): setjmp into the slot current_thread names,  *)
(* then run the selection loop with SIGALRM blocked.                       *)
Tick ==
  /\ ~masked
  /\ run.pc # "sched_loop" \/ PreemptibleSchedule
  /\ ctx' = [ctx EXCEPT ![current] = [run EXCEPT !.ih = TRUE]]
  /\ run' = [run EXCEPT !.pc = "sched_loop"]
  /\ masked' = TRUE
  /\ UNCHANGED <<tcb, threadCount, current, created, proc>>

\* One iteration of the do-while of schedule(), and the longjmp after it.
SchedStep ==
  /\ run.pc = "sched_loop"
  /\ LET n == (current + 1) % threadCount IN
       /\ current' = n
       /\ IF Eligible(n) THEN Resume(n, masked)
                         ELSE UNCHANGED <<run, masked, ctx, proc>>
  /\ UNCHANGED <<tcb, threadCount, created>>

\* Mutant: schedule(0) enters the loop without its setjmp.
YieldNoSave ==
  /\ run.pc \in DOMAIN AfterSchedule
  /\ run' = [run EXCEPT !.pc = "sched_loop"]
  /\ UNCHANGED <<tcb, ctx, threadCount, current, masked, created, proc>>

\* schedule(0) called from library code: setjmp, then the loop.
Yield ==
  /\ run.pc \in DOMAIN AfterSchedule
  /\ ctx' = [ctx EXCEPT ![current] = [run EXCEPT !.pc = AfterSchedule[run.pc]]]
  /\ run' = [run EXCEPT !.pc = "sched_loop"]
  /\ UNCHANGED <<tcb, threadCount, current, masked, created, proc>>

(***************************************************************************)
(* pthread_create: no lock(); every statement re-reads thread_count.       *)
(***************************************************************************)

\* The capacity check, threads.c:102-104.
CreateBegin ==
  /\ run.pc = "user"
  /\ run.thr \in Creators
  /\ IF threadCount >= MaxThreads
     THEN UNCHANGED run                               \* return -1
     ELSE run' = [run EXCEPT !.pc = "create_slot"]
  /\ UNCHANGED <<tcb, ctx, threadCount, current, masked, created, proc>>

\* Mutant: tcb[thread_count].id is never assigned.
CreateSlotNoId ==
  /\ run.pc = "create_slot"
  /\ threadCount < MaxThreads
  /\ run' = [run EXCEPT !.pc = "create_init", !.arg = threadCount]
  /\ UNCHANGED <<tcb, ctx, threadCount, current, masked, created, proc>>

\* *thread = thread_count; tcb[thread_count].id = thread_count.
\* Past MaxThreads the write would land outside tcb[]; the guard disables it.
CreateSlot ==
  /\ run.pc = "create_slot"
  /\ threadCount < MaxThreads
  /\ tcb' = [tcb EXCEPT ![threadCount].id = threadCount]
  /\ run' = [run EXCEPT !.pc = "create_init", !.arg = threadCount]
  /\ UNCHANGED <<ctx, threadCount, current, masked, created, proc>>

(* malloc the stack (failure returns -1), store start_routine, mark READY  *)
(* and build the initial jmp_buf that enters start_thunk on the new stack. *)
CreateInit ==
  /\ run.pc = "create_init"
  /\ threadCount < MaxThreads
  /\ \/ /\ run' = [run EXCEPT !.pc = "user"]
        /\ UNCHANGED <<tcb, ctx>>
     \/ /\ tcb' = [tcb EXCEPT ![threadCount].routine = run.thr,
                              ![threadCount].state = READY]
        /\ ctx' = [ctx EXCEPT ![threadCount] =
                     [thr |-> threadCount, pc |-> "user", ih |-> FALSE, arg |-> 0]]
        /\ run' = [run EXCEPT !.pc = "create_commit"]
  /\ UNCHANGED <<threadCount, current, masked, created, proc>>

\* thread_count++.
CreateCommit ==
  /\ run.pc = "create_commit"
  /\ threadCount < MaxThreads
  /\ threadCount' = threadCount + 1
  /\ run' = [run EXCEPT !.pc = "create_sched"]
  /\ UNCHANGED <<tcb, ctx, current, masked, created, proc>>

\* schedule(0) has returned: return 0 with *thread as written by CreateSlot.
CreateReturn ==
  /\ run.pc = "create_ret"
  /\ created' = [created EXCEPT ![run.thr] = run.arg]
  /\ run' = [run EXCEPT !.pc = "user"]
  /\ UNCHANGED <<tcb, ctx, threadCount, current, masked, proc>>

(***************************************************************************)
(* pthread_exit and the end of main                                        *)
(***************************************************************************)

(* Under lock(): record the value, mark EXITED, and wake every BLOCKED     *)
(* slot whose id equals current_thread; unlock(); then schedule(0).        *)
Exit(v) ==
  /\ run.pc = "user"
  /\ LET ex == [tcb EXCEPT ![current].exitValue = v, ![current].state = EXITED]
     IN tcb' = [i \in Slots |->
                  IF i \in Live /\ ex[i].state = BLOCKED /\ ex[i].id = current
                  THEN [ex[i] EXCEPT !.state = READY]
                  ELSE ex[i]]
  /\ masked' = FALSE
  /\ run' = [run EXCEPT !.pc = "exit_sched"]
  /\ UNCHANGED <<ctx, threadCount, current, created, proc>>

\* After schedule(0) returns into an exited thread: while (1);
Spin ==
  /\ run.pc = "exit_spin"
  /\ UNCHANGED tvars

\* main returns: the C runtime calls exit() and the process ends.
MainReturn ==
  /\ run.pc = "user"
  /\ run.thr = 0
  /\ proc' = "exited"
  /\ UNCHANGED <<tcb, ctx, threadCount, current, masked, run, created>>

(***************************************************************************)
(* pthread_join                                                            *)
(***************************************************************************)

\* Mutant: the loop tests the caller's own state instead of the target's.
JoinTestSelf(i) ==
  /\ masked' = FALSE
  /\ IF tcb[current].state = EXITED
     THEN /\ run' = [run EXCEPT !.pc = "user"]
          /\ UNCHANGED tcb
     ELSE /\ tcb' = [tcb EXCEPT ![current].state = BLOCKED]
          /\ run' = [run EXCEPT !.pc = "join_sched", !.arg = i]

(* One test of the while loop, with lock() held: return once the target  *)
(* has EXITED, else mark the caller BLOCKED, unlock() and schedule(0).    *)
JoinTest(i) ==
  /\ masked' = FALSE
  /\ IF tcb[i].state = EXITED
     THEN /\ run' = [run EXCEPT !.pc = "user"]
          /\ UNCHANGED tcb
     ELSE /\ tcb' = [tcb EXCEPT ![current].state = BLOCKED]
          /\ run' = [run EXCEPT !.pc = "join_sched", !.arg = i]

\* lock(); find the first slot with tcb[i].id == thread; -1 if none.
JoinBegin(h) ==
  /\ run.pc = "user"
  /\ run.thr \in Joiners
  /\ LET found == {i \in Live : tcb[i].id = h} IN
       IF found = {}
       THEN /\ masked' = FALSE
            /\ UNCHANGED <<tcb, run>>
       ELSE JoinTest(Min(found))
  /\ UNCHANGED <<ctx, threadCount, current, created, proc>>

\* schedule(0) returned inside the join loop: lock() and test again.
JoinRelock ==
  /\ run.pc = "join_lock"
  /\ JoinTest(run.arg)
  /\ UNCHANGED <<ctx, threadCount, current, created, proc>>

(***************************************************************************)
(* Specification                                                           *)
(***************************************************************************)

\* The static initialisers and the constructor init().
ThreadsInit ==
  /\ tcb = [i \in Slots |-> [id |-> 0,
                             state |-> IF i = 0 THEN RUNNING ELSE READY,
                             routine |-> None,
                             exitValue |-> NoValue]]
  /\ ctx = [i \in Slots |-> NoCont]
  /\ threadCount = 1
  /\ current = 0
  /\ masked = FALSE
  /\ run = [thr |-> 0, pc |-> "user", ih |-> FALSE, arg |-> 0]
  /\ created = [i \in Slots |-> None]
  /\ proc = "running"

\* Steps a thread takes inside a library call, and the selection loop.
Progress ==
  Yield \/ CreateSlot \/ CreateInit \/ CreateCommit \/ CreateReturn \/ JoinRelock

LibStep == SchedStep \/ Progress

\* Calls the threads' own code may make.
UserStep ==
  \/ CreateBegin
  \/ \E v \in Values : Exit(v)
  \/ \E h \in Slots : JoinBegin(h)
  \/ MainReturn

ThreadsNext ==
  /\ proc = "running"
  /\ Tick \/ LibStep \/ UserStep \/ Spin

Done ==
  /\ proc # "running"
  /\ UNCHANGED tvars

(* SIGALRM comes every 50 ms and stays pending while blocked, so it is     *)
(* delivered whenever it is unblocked often enough: strong fairness.  A   *)
(* thread resumed between two ticks runs for a whole slice, so each step  *)
(* of library code it is in is eventually taken: strong fairness per      *)
(* thread on its library steps.  The selection loop runs to its longjmp.  *)
ThreadsFairness ==
  /\ SF_tvars(Tick)
  /\ WF_tvars(SchedStep)
  /\ \A t \in Slots : SF_tvars(run.thr = t /\ Progress)

\* Programs like main.c: every created thread returns from its routine.
ThreadsExitFairness ==
  \A t \in Slots \ {0} : SF_tvars(run.thr = t /\ \E v \in Values : Exit(v))

Spec == ThreadsInit /\ [][ThreadsNext \/ Done]_tvars /\ ThreadsFairness

TerminatingSpec == Spec /\ ThreadsExitFairness

(***************************************************************************)
(* Properties                                                              *)
(***************************************************************************)

TypeOK ==
  /\ tcb \in [Slots -> [id : Slots, state : States, routine : Slots \cup {None},
                        exitValue : Values \cup {NoValue}]]
  /\ ctx \in [Slots -> Cont]
  /\ threadCount \in 1 .. MaxThreads
  /\ current \in Slots
  /\ masked \in BOOLEAN
  /\ run \in Cont
  /\ created \in [Slots -> Slots \cup {None}]
  /\ proc \in {"running", "exited", "crashed"}

(* Context store: every slot the scheduler may still resume (not EXITED,  *)
(* not the one running) holds a jmp_buf, and that jmp_buf resumes the     *)
(* slot's own thread.  Broken if schedule() saves the running thread into *)
(* another slot or a READY slot is published without a context.           *)
SavedContextsValid ==
  \A j \in Live \ {current} :
    tcb[j].state # EXITED => ctx[j].pc # "none" /\ ctx[j].thr = j

(* The handle pthread_create returns names the thread that runs the       *)
(* caller's start routine, and that thread's pthread_self() is the handle. *)
HandleNamesOwnThread ==
  \A c \in Slots :
    created[c] # None =>
      /\ tcb[created[c]].routine = c
      /\ tcb[created[c]].id = created[c]

(* Outside the library a thread runs with SIGALRM unblocked, so it can be *)
(* preempted (lock() masks the timer only inside the library).            *)
UserCodeUnmasked ==
  (proc = "running" /\ run.pc = "user") => ~masked

\* Thread t waits in pthread_join on a slot that has already exited.
JoinWaitsOnExited(t) ==
  \E c \in Active :
    /\ c.thr = t
    /\ c.pc \in {"join_sched", "join_lock"}
    /\ tcb[c.arg].state = EXITED

InJoin(t) == \E c \in Active : c.thr = t /\ c.pc \in {"join_sched", "join_lock"}

\* Thread j is inside pthread_join waiting for slot i.
JoinedOn(j, i) ==
  \E c \in Active : c.thr = j /\ c.pc \in {"join_sched", "join_lock"} /\ c.arg = i

(* pthread_exit readies every thread BLOCKED in pthread_join on the exiting *)
(* thread (spec 4.3 "unblocks every thread joined on this handle").        *)
ExitWakesJoiners ==
  [][\A j \in Slots :
       ( /\ tcb[current].state # EXITED
         /\ tcb'[current].state = EXITED
         /\ tcb[j].state = BLOCKED
         /\ JoinedOn(j, current) ) => tcb'[j].state = READY]_tvars

(* A pthread_join whose target has exited eventually returns.             *)
JoinCompletes ==
  \A t \in Joiners : JoinWaitsOnExited(t) ~> (~InJoin(t) \/ proc # "running")

=============================================================================
