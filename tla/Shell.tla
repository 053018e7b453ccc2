-------------------------------- MODULE Shell --------------------------------
(***************************************************************************)
(* The EC440 HW1 shell, myshell.c: main's read loop, parse_and_execute,    *)
(* execute_command and execute_piped_commands, together with the children  *)
(* they fork and the pipes between them.                                   *)
(*                                                                         *)
(* A line of input is abstracted to what parse_and_execute makes of it:    *)
(* its '|'-separated commands and whether it contained '&'.  A command is  *)
(* abstracted to what its program does with its descriptors: how many      *)
(* units it writes to stdout, whether it reads stdin to end of file,       *)
(* whether execvp finds it, and the redirection it carries.  A pipe is the *)
(* number of units in it, bounded by Cap (the kernel's pipe buffer).       *)
(* Descriptors are pairs <<pipe, "r" | "w">>; a reader sees end of file    *)
(* only when the pipe is empty and no live process, and not the shell,     *)
(* holds its write end.                                                    *)
(***************************************************************************)
EXTENDS Naturals, Sequences, FiniteSets

CONSTANTS
  Script,   \* the lines fgets returns, in order, before it returns NULL
  Cap,      \* units a pipe holds before write blocks
  MaxFds,   \* the shell's descriptor limit (RLIMIT_NOFILE)
  Tty,      \* the shell's own stdin/stdout, inherited by its children
  File      \* a file opened by handle_redirection

\* A command after split_redirection_symbols: its redirection symbol, if
\* any, is all that handle_redirection looks at.
Cmd == [out: Nat, reads: BOOLEAN, found: BOOLEAN, redir: {"none", "in", "out"}]

ASSUME /\ Script \in Seq([cmds: Seq(Cmd), bg: BOOLEAN])
       /\ Cap \in Nat \ {0}
       /\ MaxFds \in Nat

\* parse_and_execute's commands[] for line l.
Cmds(l) == Script[l].cmds

VARIABLES
  pc,     \* where main / parse_and_execute is
  ln,     \* the line being executed (index into Script)
  i,      \* execute_piped_commands' loop index (1-based)
  inFd,   \* its input_fd: Tty or a pipe
  pfd,    \* its pipefds: the pipe made by this iteration
  sfd,    \* pipe ends open in the shell
  pipes,  \* pipes[p]: units buffered in pipe p
  procs   \* every child forked, in fork order

vars == <<pc, ln, i, inFd, pfd, sfd, pipes, procs>>

PipeIds == DOMAIN pipes

Live(k) == procs[k].pc \in {"exec", "run"}

\* Some open descriptor still refers to an end of pipe p.
Holds(p, e) ==
  \/ <<p, e>> \in sfd
  \/ \E k \in DOMAIN procs : Live(k) /\ <<p, e>> \in procs[k].fd

\* A child as fork leaves it: it inherits every descriptor in fd.
Child(l, c, in, out, fd) ==
  [ln |-> l, idx |-> c, pc |-> "exec", in |-> in, out |-> out, fd |-> fd,
   left |-> Cmds(l)[c].out, eof |-> FALSE]

\* exit(1) or return from main: the shell's descriptors close with it.
ShellExits ==
  /\ pc' = "exit"
  /\ sfd' = {}
  /\ UNCHANGED <<ln, i, inFd, pfd, pipes, procs>>

Init ==
  /\ pc = "read"
  /\ ln = 0
  /\ i = 0
  /\ inFd = Tty
  /\ pfd = 0
  /\ sfd = {}
  /\ pipes = <<>>
  /\ procs = <<>>

(* fgets returns the next line; parse_and_execute splits it and either     *)
(* runs it as one command or hands every command to the pipe loop, which   *)
(* ignores the '&'.                                                        *)
ParseAndExecute ==
  /\ pc = "read"
  /\ ln < Len(Script)
  /\ ln' = ln + 1
  /\ pc' = IF Len(Cmds(ln + 1)) = 1 THEN "single" ELSE "pipe"
  /\ i' = 1
  /\ inFd' = Tty
  /\ UNCHANGED <<pfd, sfd, pipes, procs>>

\* fgets returns NULL: the loop breaks and main returns.
EndOfInput ==
  /\ pc = "read"
  /\ ln = Len(Script)
  /\ ShellExits

\* fork() fails (EAGAIN, ENOMEM): perror and exit(1).
ForkFails ==
  /\ \/ pc = "single"
     \/ pc = "pipe" /\ i <= Len(Cmds(ln))
  /\ ShellExits

\* execute_command's fork; the parent goes on to next.
ForkCommand(next) ==
  /\ pc = "single"
  /\ procs' = Append(procs, Child(ln, 1, Tty, Tty, sfd))
  /\ pc' = next
  /\ UNCHANGED <<ln, i, inFd, pfd, sfd, pipes>>

\* Mutant: the parent never waits for its child.
ExecuteCommandNoWait == ForkCommand("read")

\* execute_command: wait(NULL) unless the line had '&'.
ExecuteCommand == ForkCommand(IF Script[ln].bg THEN "read" ELSE "wait1")

\* wait(NULL) reaps whichever child has exited, not a particular one.
ReapAny ==
  \E k \in DOMAIN procs :
    /\ procs[k].pc = "zombie"
    /\ procs' = [procs EXCEPT ![k].pc = "reaped"]

WaitCommand ==
  /\ pc = "wait1"
  /\ ReapAny
  /\ pc' = "read"
  /\ UNCHANGED <<ln, i, inFd, pfd, sfd, pipes>>

\* pipe() fails once the shell's descriptors (0-2 and the pipe ends it
\* holds) leave fewer than two free.  Its result is not checked: pipefds
\* keeps the previous iteration's pipe, whose write end is already closed,
\* so the child's dup2 fails and its stdout stays the terminal.  In the
\* first iteration pipefds is uninitialized; the model has no step there.
PipeRoom == 3 + Cardinality(sfd) + 2 <= MaxFds

(* One iteration of execute_piped_commands up to the wait: pipe(), fork(), *)
(* and in the child dup2 of input_fd and, except for the last command, of  *)
(* the pipe's write end, then close of the pipe's read end.  The child's   *)
(* stdin keeps its own descriptor for input_fd's pipe.                     *)
Stage(last) ==
  /\ pc = "pipe"
  /\ i <= Len(Cmds(ln))
  /\ PipeRoom \/ i > 1
  /\ LET p   == IF PipeRoom THEN Len(pipes) + 1 ELSE pfd
         fds == IF PipeRoom THEN sfd \cup {<<p, "r">>, <<p, "w">>} ELSE sfd
         out == IF i < last /\ <<p, "w">> \in fds THEN p ELSE Tty
         in0 == IF inFd \in PipeIds THEN {<<inFd, "r">>} ELSE {}
     IN /\ pipes' = IF PipeRoom THEN Append(pipes, 0) ELSE pipes
        /\ sfd' = fds
        /\ pfd' = p
        /\ procs' = Append(procs,
                      Child(ln, i, inFd, out, (fds \ {<<p, "r">>}) \cup in0))
  /\ pc' = "waitp"
  /\ UNCHANGED <<ln, i, inFd>>

\* Mutant: the write end goes to one command too few.
PipeForkOffByOne == Stage(Len(Cmds(ln)) - 1)

\* Every command but the last writes into the pipe of its iteration.
PipeFork == Stage(Len(Cmds(ln)))

\* The parent's half: wait(NULL), then the descriptors left open, then
\* input_fd = pipefds[0].
AfterWait(open) ==
  /\ pc = "waitp"
  /\ ReapAny
  /\ sfd' = open
  /\ inFd' = pfd
  /\ i' = i + 1
  /\ pc' = "pipe"
  /\ UNCHANGED <<ln, pfd, pipes>>

\* Mutant: the parent keeps the pipe's write end open.
PipeWaitKeepsWriteEnd == AfterWait(sfd)

\* close(pipefds[1]) after the wait.
PipeWait == AfterWait(sfd \ {<<pfd, "w">>})

PipeLoopEnd ==
  /\ pc = "pipe"
  /\ i > Len(Cmds(ln))
  /\ pc' = "read"
  /\ UNCHANGED <<ln, i, inFd, pfd, sfd, pipes, procs>>

ShellStep ==
  \/ ParseAndExecute \/ EndOfInput \/ ForkFails \/ ExecuteCommand
  \/ WaitCommand \/ PipeFork \/ PipeWait \/ PipeLoopEnd
-----------------------------------------------------------------------------
(* The children.  handle_redirection reopens stdin or stdout on a file;    *)
(* execvp either starts the program or fails and the child exits(1).       *)
HandleRedirection(k) ==
  LET c == Cmds(procs[k].ln)[procs[k].idx]
  IN /\ procs[k].pc = "exec"
     /\ procs' = [procs EXCEPT
                    ![k].in  = IF c.redir = "in" THEN File ELSE @,
                    ![k].out = IF c.redir = "out" THEN File ELSE @,
                    ![k].pc  = IF c.found THEN "run" ELSE "zombie",
                    ![k].fd  = IF c.found THEN @ ELSE {}]
     /\ UNCHANGED pipes

Wrote(k) == [procs EXCEPT ![k].left = @ - 1]

\* The program writes one unit; into a pipe only while it has room, and a
\* pipe nobody can read any more kills the writer (SIGPIPE).
ProgWrite(k) ==
  LET o == procs[k].out
  IN /\ procs[k].pc = "run"
     /\ procs[k].left > 0
     /\ \/ /\ o \notin PipeIds
           /\ procs' = Wrote(k)
           /\ UNCHANGED pipes
        \/ /\ o \in PipeIds
           /\ IF Holds(o, "r")
                THEN /\ pipes[o] < Cap
                     /\ pipes' = [pipes EXCEPT ![o] = @ + 1]
                     /\ procs' = Wrote(k)
                ELSE /\ procs' = [procs EXCEPT ![k].pc = "zombie", ![k].fd = {}]
                     /\ UNCHANGED pipes

\* The program reads stdin until end of file.
ProgRead(k) ==
  LET s == procs[k].in
  IN /\ procs[k].pc = "run"
     /\ Cmds(procs[k].ln)[procs[k].idx].reads
     /\ ~procs[k].eof
     /\ \/ /\ s \in PipeIds
           /\ pipes[s] > 0
           /\ pipes' = [pipes EXCEPT ![s] = @ - 1]
           /\ UNCHANGED procs
        \/ /\ s \in PipeIds
           /\ pipes[s] = 0
           /\ ~Holds(s, "w")
           /\ procs' = [procs EXCEPT ![k].eof = TRUE]
           /\ UNCHANGED pipes
        \/ /\ s \notin PipeIds
           /\ procs' = [procs EXCEPT ![k].eof = TRUE]
           /\ UNCHANGED pipes

ProgExit(k) ==
  /\ procs[k].pc = "run"
  /\ procs[k].left = 0
  /\ procs[k].eof \/ ~Cmds(procs[k].ln)[procs[k].idx].reads
  /\ procs' = [procs EXCEPT ![k].pc = "zombie", ![k].fd = {}]
  /\ UNCHANGED pipes

ChildStep ==
  /\ \E k \in DOMAIN procs :
       HandleRedirection(k) \/ ProgWrite(k) \/ ProgRead(k) \/ ProgExit(k)
  /\ UNCHANGED <<pc, ln, i, inFd, pfd, sfd>>
-----------------------------------------------------------------------------
\* The shell has exited and so has every child.
Terminated == pc = "exit" /\ \A k \in DOMAIN procs : ~Live(k)

Done == Terminated /\ UNCHANGED vars

Next == ShellStep \/ ChildStep \/ Done

\* The kernel runs some runnable process: weak fairness on the whole system.
Spec == Init /\ [][Next]_vars /\ WF_vars(Next)
-----------------------------------------------------------------------------
\* A foreground command has exited by the time the shell takes the next
\* line (execute_command line 78, "Wait for the child process if not in
\* background"; execute_piped_commands line 109, "Parent waits for child").
Foreground(k) == Len(Cmds(procs[k].ln)) > 1 \/ ~Script[procs[k].ln].bg

ForegroundDone ==
  pc = "read" => \A k \in DOMAIN procs : Foreground(k) => ~Live(k)

\* Consecutive commands of a pipeline are wired to each other: once both
\* have exec'd, what command c writes is what command c+1 reads, unless a
\* redirection replaced one of them (execute_piped_commands' dup2 of the
\* write end for every command but the last, and input_fd = pipefds[0]).
PipesConnected ==
  \A k, k2 \in DOMAIN procs :
    ( /\ procs[k2].ln = procs[k].ln
      /\ procs[k2].idx = procs[k].idx + 1
      /\ procs[k].pc # "exec" /\ procs[k2].pc # "exec" )
    => /\ procs[k].out \in {procs[k2].in, File}
       /\ procs[k2].in \in {procs[k].out, File}

\* Every line runs to completion: the shell reaches the end of its input
\* and every child it forked exits (the pipe loop's waits and closes never
\* leave a reader without end of file or a writer without a reader).
EventuallyAllDone == <>Terminated
=============================================================================
