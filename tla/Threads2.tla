------------------------------ MODULE Threads2 ------------------------------
(***************************************************************************)
(* The first version of the thread library, src/EC440/EC440_HW2/threads.c: *)
(* tcb[], the round-robin schedule() installed as the SIGALRM handler,     *)
(* pthread_create, and a pthread_exit that ends the process once every     *)
(* slot has EXITED.  There is no join and no lock().                       *)
(*                                                                         *)
(* As in module Threads: one continuation runs (run); every other one is   *)
(* a jmp_buf saved in a slot (ctx).  A continuation saved inside the       *)
(* handler (ih) returns through sigreturn when resumed, which unblocks     *)
(* SIGALRM again; any other longjmp leaves the mask as it is.              *)
(***************************************************************************)
EXTENDS Integers, FiniteSets

CONSTANTS
  MaxThreads,           \* MAX_THREADS
  Creators,             \* threads whose code calls pthread_create
  PreemptibleSchedule   \* can SIGALRM arrive inside a schedule(0) loop?

ASSUME MaxThreads \in Nat \ {0}
ASSUME PreemptibleSchedule \in BOOLEAN

Slots == 0 .. MaxThreads - 1
None  == -1

\* Thread states, threads.c:11-13.  READY is 0: zeroed slots are READY.
READY   == "READY"
RUNNING == "RUNNING"
EXITED  == "EXITED"

\* Where a thread continues once the schedule(0) it called returns.
AfterSchedule == [create_sched |-> "create_ret", exit_sched |-> "exit_spin"]

NoCont == [thr |-> 0, pc |-> "none", ih |-> FALSE, arg |-> 0]

VARIABLES
  tcb,          \* tcb[i]: id, state, start_routine (as its creator)
  ctx,          \* tcb[i].context
  threadCount,  \* thread_count
  current,      \* current_thread
  masked,       \* SIGALRM is blocked
  run,          \* the continuation on the CPU
  created,      \* per thread: the handle its last create returned
  proc          \* "running", "exited" (exit()) or "crashed"

vars == <<tcb, ctx, threadCount, current, masked, run, created, proc>>

Live == 0 .. threadCount - 1

\* Loop condition of schedule(), threads.c:46: a READY slot, or slot 0.
Eligible(i) == tcb[i].state = READY \/ i = 0

\* longjmp(tcb[n].context, 1); an unfilled jmp_buf crashes.
Resume(n) ==
  LET c == ctx[n] IN
  IF c.pc = "none"
  THEN /\ proc' = "crashed"
       /\ UNCHANGED <<run, masked, ctx>>
  ELSE /\ run' = [c EXCEPT !.ih = FALSE]
       /\ masked' = (masked /\ ~c.ih)
       /\ ctx' = [ctx EXCEPT ![n] = NoCont]
       /\ proc' = proc

(* SIGALRM: the handler's setjmp saves the interrupted continuation in the *)
(* slot current_thread names; the loop runs with SIGALRM blocked.          *)
Tick ==
  /\ ~masked
  /\ run.pc # "sched_loop" \/ PreemptibleSchedule
  /\ ctx' = [ctx EXCEPT ![current] = [run EXCEPT !.ih = TRUE]]
  /\ run' = [run EXCEPT !.pc = "sched_loop"]
  /\ masked' = TRUE
  /\ UNCHANGED <<tcb, threadCount, current, created, proc>>

\* One iteration of the do-while (threads.c:43-46) and the longjmp after it.
SchedStep ==
  /\ run.pc = "sched_loop"
  /\ LET n == (current + 1) % threadCount IN
       /\ current' = n
       /\ IF Eligible(n) THEN Resume(n) ELSE UNCHANGED <<run, masked, ctx, proc>>
  /\ UNCHANGED <<tcb, threadCount, created>>

\* Mutant: schedule(0) enters the loop without its setjmp.
YieldNoSave ==
  /\ run.pc \in DOMAIN AfterSchedule
  /\ run' = [run EXCEPT !.pc = "sched_loop"]
  /\ UNCHANGED <<tcb, ctx, threadCount, current, masked, created, proc>>

\* schedule(0) from library code: setjmp, then the loop.
Yield ==
  /\ run.pc \in DOMAIN AfterSchedule
  /\ ctx' = [ctx EXCEPT ![current] = [run EXCEPT !.pc = AfterSchedule[run.pc]]]
  /\ run' = [run EXCEPT !.pc = "sched_loop"]
  /\ UNCHANGED <<tcb, threadCount, current, masked, created, proc>>

(***************************************************************************)
(* pthread_create, threads.c:79-113                                        *)
(***************************************************************************)

\* The capacity check; at the limit it returns -1.
CreateBegin ==
  /\ run.pc = "user" /\ run.thr \in Creators
  /\ IF threadCount >= MaxThreads
     THEN UNCHANGED run
     ELSE run' = [run EXCEPT !.pc = "create_slot"]
  /\ UNCHANGED <<tcb, ctx, threadCount, current, masked, created, proc>>

\* *thread = thread_count; tcb[thread_count].id = thread_count.
CreateSlot ==
  /\ run.pc = "create_slot" /\ threadCount < MaxThreads
  /\ tcb' = [tcb EXCEPT ![threadCount].id = threadCount]
  /\ run' = [run EXCEPT !.pc = "create_init", !.arg = threadCount]
  /\ UNCHANGED <<ctx, threadCount, current, masked, created, proc>>

(* malloc the stack (NULL: return -1), store the routine, mark READY and   *)
(* build the jmp_buf that enters start_thunk on the new stack.            *)
CreateInit ==
  /\ run.pc = "create_init" /\ threadCount < MaxThreads
  /\ \/ /\ run' = [run EXCEPT !.pc = "user"]
        /\ UNCHANGED <<tcb, ctx>>
     \/ /\ tcb' = [tcb EXCEPT ![threadCount].routine = run.thr,
                              ![threadCount].state = READY]
        /\ ctx' = [ctx EXCEPT ![threadCount] =
                     [thr |-> threadCount, pc |-> "user", ih |-> FALSE, arg |-> 0]]
        /\ run' = [run EXCEPT !.pc = "create_commit"]
  /\ UNCHANGED <<threadCount, current, masked, created, proc>>

\* thread_count++, then schedule(0).
CreateCommit ==
  /\ run.pc = "create_commit" /\ threadCount < MaxThreads
  /\ threadCount' = threadCount + 1
  /\ run' = [run EXCEPT !.pc = "create_sched"]
  /\ UNCHANGED <<tcb, ctx, current, masked, created, proc>>

\* Mutant: the handle is thread_count read again after the increment.
CreateReturnRereads ==
  /\ run.pc = "create_ret"
  /\ created' = [created EXCEPT ![run.thr] = threadCount]
  /\ run' = [run EXCEPT !.pc = "user"]
  /\ UNCHANGED <<tcb, ctx, threadCount, current, masked, proc>>

\* return 0, the handle being what CreateSlot wrote.
CreateReturn ==
  /\ run.pc = "create_ret"
  /\ created' = [created EXCEPT ![run.thr] = run.arg]
  /\ run' = [run EXCEPT !.pc = "user"]
  /\ UNCHANGED <<tcb, ctx, threadCount, current, masked, proc>>

(***************************************************************************)
(* pthread_exit, threads.c:55-73, and the end of main                      *)
(***************************************************************************)

(* tcb[current_thread].state = EXITED.  A start routine that returns lands *)
(* here too (its stack's return address is pthread_exit); main may call it *)
(* or return.                                                             *)
Exit ==
  /\ run.pc = "user"
  /\ tcb' = [tcb EXCEPT ![current].state = EXITED]
  /\ run' = [run EXCEPT !.pc = "exit_check"]
  /\ UNCHANGED <<ctx, threadCount, current, masked, created, proc>>

\* The alive loop: exit(0) if every slot below thread_count has EXITED.
ExitCheck ==
  /\ run.pc = "exit_check"
  /\ IF \A i \in Live : tcb[i].state = EXITED
     THEN /\ proc' = "exited"
          /\ UNCHANGED run
     ELSE /\ run' = [run EXCEPT !.pc = "exit_sched"]
          /\ UNCHANGED proc
  /\ UNCHANGED <<tcb, ctx, threadCount, current, masked, created>>

\* schedule(0) returned into an exited thread: while (1);
Spin ==
  /\ run.pc = "exit_spin"
  /\ UNCHANGED vars

\* main returns: the C runtime calls exit().
MainReturn ==
  /\ run.pc = "user" /\ run.thr = 0
  /\ proc' = "exited"
  /\ UNCHANGED <<tcb, ctx, threadCount, current, masked, run, created>>

(***************************************************************************)
(* Specification                                                           *)
(***************************************************************************)

\* The static initialisers and the constructor init(), threads.c:24-27, 125-129.
Init ==
  /\ tcb = [i \in Slots |-> [id |-> 0, state |-> IF i = 0 THEN RUNNING ELSE READY,
                             routine |-> None]]
  /\ ctx = [i \in Slots |-> NoCont]
  /\ threadCount = 1
  /\ current = 0
  /\ masked = FALSE
  /\ run = [thr |-> 0, pc |-> "user", ih |-> FALSE, arg |-> 0]
  /\ created = [i \in Slots |-> None]
  /\ proc = "running"

\* Steps of library code a thread is in.
Progress == Yield \/ CreateSlot \/ CreateInit \/ CreateCommit \/ CreateReturn \/ ExitCheck

\* The calls the program's code makes, and the end of main.
UserStep == CreateBegin \/ Exit \/ MainReturn

Next ==
  /\ proc = "running"
  /\ Tick \/ SchedStep \/ Progress \/ UserStep \/ Spin

Done == proc # "running" /\ UNCHANGED vars

(* As in module Threads: the 50 ms timer stays pending while blocked, so   *)
(* it is delivered when unblocked often enough (strong fairness); library  *)
(* code and the selection loop run on once they have the CPU.              *)
Fairness ==
  /\ SF_vars(Tick)
  /\ WF_vars(SchedStep)
  /\ \A t \in Slots : SF_vars(run.thr = t /\ Progress)

(* A terminating program: every thread's own code, main's included,        *)
(* eventually ends (its routine returns, or main returns or exits).       *)
EndFairness ==
  \A t \in Slots : SF_vars(run.thr = t /\ (Exit \/ MainReturn))

Spec == Init /\ [][Next \/ Done]_vars /\ Fairness

TerminatingSpec == Spec /\ EndFairness

(***************************************************************************)
(* Properties                                                              *)
(***************************************************************************)

(* Every slot the selection loop may stop at (a READY slot, and slot 0     *)
(* even after main has exited) holds a jmp_buf of its own thread, unless  *)
(* it is the one running.  Broken if a setjmp saves into the wrong slot  *)
(* or a slot becomes eligible before its context is built.               *)
SavedContextsValid ==
  \A j \in Live \ {current} :
    Eligible(j) => ctx[j].pc # "none" /\ ctx[j].thr = j

(* The handle pthread_create stored in *thread names the slot whose       *)
(* thread runs the caller's start routine and whose id is the handle.      *)
(* Broken if two creators take the same thread_count between the read at  *)
(* line 84 and the increment at line 106, or if the handle is read at the *)
(* wrong moment.                                                           *)
HandleNamesOwnThread ==
  \A c \in Slots :
    created[c] # None =>
      /\ tcb[created[c]].routine = c
      /\ tcb[created[c]].id = created[c]

(* A program whose threads all end makes the process exit: the last       *)
(* pthread_exit (or main's return) is eventually reached and calls exit(). *)
ProcessEnds == <>(proc = "exited")
=============================================================================
