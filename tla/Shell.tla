------------------------------- MODULE Shell -------------------------------
(***************************************************************************)
(* init, the shell it starts and what that runs, on the kernel's file      *)
(* table: sh's main() reads a command and waits for the child that runs    *)
(* it; runcmd() forks, connects pipes and waits; init reaps orphans, and   *)
(* when sh exits starts it again.  A process is the list of calls it has   *)
(* still to make.  A system call is one step; fork() fails when no process *)
(* is free, pipe() and open() when the file table or the descriptors are   *)
(* full.                                                                   *)
(***************************************************************************)
EXTENDS FileTable

CONSTANTS Slot,        \* entries of the process table, but init's
          init,
          Commands,    \* the command lines that may be typed, for each set of
                       \* entries that may belong to other programs
          PIPESIZE

VARIABLES kern,        \* see FileTable
          others,      \* the entries of other programs, which sleep with a file open
          sh,          \* pid in init.c: the shell's entry, or init for none
          initpc,      \* what init is at: "fork", "wait" or "exit"
          state,       \* UNUSED, RUNNABLE, ZOMBIE or SLEEPING
          parent,
          code,        \* the calls a process has still to make
          p            \* p[0] and p[1] of runcmd(), copied by fork()

shellvars == <<kern, others, sh, initpc, state, parent, code, p>>
shvars == <<others, sh, initpc>>

NoFds == <<>>

(* What a command does.  Descriptors 0 and 1 are written out; P0 and P1    *)
(* are those in p[].                                                       *)
P0 == -1
P1 == -2
Op(o) == [op |-> o]
CloseFd(d) == [op |-> "close", fd |-> d]
Dup(d) == [op |-> "dup", fd |-> d]
Fork(c) == [op |-> "fork", child |-> c]
Run(c) == [op |-> "runcmd", cmd |-> c]

runcmd_pipe_open(c) ==   \* mutant: the right child keeps p[1]
  << Op("pipe"),
     Fork(<<CloseFd(1), Dup(P1), CloseFd(P0), CloseFd(P1), Run(c.left)>>),
     Fork(<<CloseFd(0), Dup(P0), CloseFd(P0), Run(c.right)>>),
     CloseFd(P0), CloseFd(P1), Op("wait"), Op("wait") >>

runcmd_pipe(c) ==
  << Op("pipe"),
     Fork(<<CloseFd(1), Dup(P1), CloseFd(P0), CloseFd(P1), Run(c.left)>>),
     Fork(<<CloseFd(0), Dup(P0), CloseFd(P0), CloseFd(P1), Run(c.right)>>),
     CloseFd(P0), CloseFd(P1), Op("wait"), Op("wait") >>

runcmd(c) ==
  CASE c.type = "EXEC"  -> c.calls
    [] c.type = "REDIR" -> <<CloseFd(c.fd), Op("open"), Run(c.cmd)>>
    [] c.type = "LIST"  -> <<Fork(<<Run(c.left)>>), Op("wait"), Run(c.right)>>
    [] c.type = "PIPE"  -> runcmd_pipe(c)
    [] c.type = "BACK"  -> <<Fork(<<Run(c.cmd)>>)>>

(* init has the console open three times, and is about to start sh.        *)
ShellInit ==
  /\ others \in DOMAIN Commands
  /\ kern = [ft |-> [f \in File |->
                       IF f = 1 THEN [Closed EXCEPT !.ref = 3, !.type = "FD_INODE"]
                       ELSE IF f = 2 /\ others # {}
                       THEN [Closed EXCEPT !.ref = Cardinality(others), !.type = "FD_INODE"]
                       ELSE Closed],
             pipe |-> [q \in 1 .. NPIPE |-> NoPipe],
             ofile |-> [s \in Slot \cup {init} |->
                          [fd \in Fd |-> IF s = init /\ fd < 3 THEN 1
                                         ELSE IF s \in others /\ fd = 0 THEN 2 ELSE 0]],
             panic |-> FALSE, ret |-> 0]
  /\ sh = init /\ initpc = "fork"
  /\ state = [s \in Slot |-> IF s \in others THEN "SLEEPING" ELSE "UNUSED"]
  /\ parent = [s \in Slot |-> init]
  /\ code = [s \in Slot |-> <<>>]
  /\ p = [s \in Slot |-> NoFds]

(* sh's main() waits for a line: a command is typed, or ^D ends its input. *)
Prompt == sh # init /\ state[sh] = "RUNNABLE" /\ code[sh] = <<>>

main(c) ==
  /\ Prompt
  /\ code' = [code EXCEPT ![sh] = <<Fork(<<Run(c)>>), Op("wait")>>]
  /\ UNCHANGED <<kern, state, parent, p, shvars>>

main_eof ==
  /\ Prompt
  /\ code' = [code EXCEPT ![sh] = <<Op("exit")>>]
  /\ UNCHANGED <<kern, state, parent, p, shvars>>

At(s, o) == state[s] = "RUNNABLE" /\ code[s] # <<>> /\ Head(code[s]).op = o
fdOf(s) == LET d == Head(code[s]).fd IN IF d = P0 THEN p[s][1] ELSE IF d = P1 THEN p[s][2] ELSE d

(* After a call: the rest of the code, up to the next system call, or      *)
(* exit() (panic(), or the end of runcmd()) when fail is true.             *)
UpToCall(calls) ==
  IF calls # <<>> /\ Head(calls).op = "runcmd" THEN runcmd(Head(calls).cmd) ELSE calls

Rest(s, fail) == code' = [code EXCEPT ![s] = IF fail THEN <<Op("exit")>> ELSE UpToCall(Tail(@))]

close_call(s) ==
  /\ At(s, "close")
  /\ kern' = [sys_close(kern, s, fdOf(s)) EXCEPT !.ret = 0]
  /\ Rest(s, FALSE)
  /\ UNCHANGED <<state, parent, p, shvars>>

dup_call(s) ==
  /\ At(s, "dup")
  /\ kern' = [sys_dup(kern, s, fdOf(s)) EXCEPT !.ret = 0]
  /\ Rest(s, FALSE)
  /\ UNCHANGED <<state, parent, p, shvars>>

open_call(s) ==
  /\ At(s, "open")
  /\ LET k == sys_open(kern, s)
     IN kern' = [k EXCEPT !.ret = 0] /\ Rest(s, k.ret < 0)
  /\ UNCHANGED <<state, parent, p, shvars>>

pipe_call(s) ==
  /\ At(s, "pipe")
  /\ LET k == sys_pipe(kern, s)
     IN /\ kern' = [k EXCEPT !.ret = 0]
        /\ Rest(s, k.ret = <<>>)
        /\ p' = [p EXCEPT ![s] = IF k.ret = <<>> THEN @ ELSE k.ret]
  /\ UNCHANGED <<state, parent, shvars>>

(* "Ensure that three file descriptors are open": the console is opened    *)
(* until it gets a descriptor past them, or cannot be opened.              *)
console_call(s) ==
  /\ At(s, "console")
  /\ LET k == sys_open(kern, s)
     IN /\ kern' = [k EXCEPT !.ret = 0]
        /\ code' = [code EXCEPT ![s] = IF k.ret < 0 THEN Tail(@)
                                       ELSE IF k.ret >= 3 THEN <<CloseFd(k.ret)>> \o Tail(@) ELSE @]
  /\ UNCHANGED <<state, parent, p, shvars>>

(* fork(): the child gets the lowest free entry and the parent's files.    *)
Unused == {c \in Slot : state[c] = "UNUSED"}

Forked(s, c) ==
  /\ kern' = fork_files(kern, s, c)
  /\ state' = [state EXCEPT ![c] = "RUNNABLE"]
  /\ parent' = [parent EXCEPT ![c] = s]

(* fork1(): when fork() fails, panic("fork"), which exits.                 *)
fork(s) ==
  /\ At(s, "fork")
  /\ IF Unused = {} THEN /\ Rest(s, TRUE)
                         /\ UNCHANGED <<kern, state, parent, p>>
     ELSE LET c == Min(Unused)
          IN /\ Forked(s, c)
             /\ p' = [p EXCEPT ![c] = p[s]]
             /\ code' = [code EXCEPT ![c] = UpToCall(Head(code[s]).child), ![s] = UpToCall(Tail(@))]
  /\ UNCHANGED shvars

(* exit(), also at the end of the code: descriptors, then children to init.*)
exit(s) ==
  /\ state[s] = "RUNNABLE" /\ ((s # sh /\ code[s] = <<>>) \/ At(s, "exit"))
  /\ kern' = [exit_files(kern, s) EXCEPT !.ret = 0]
  /\ state' = [state EXCEPT ![s] = "ZOMBIE"]
  /\ parent' = [c \in Slot |-> IF parent[c] = s THEN init ELSE parent[c]]
  /\ code' = [code EXCEPT ![s] = <<>>]
  /\ p' = [p EXCEPT ![s] = NoFds]
  /\ UNCHANGED shvars

(* wait(): the first child that has exited, or -1 without children.  A     *)
(* free entry has no parent; init stands for none.                         *)
Children(s) == {c \in Slot : state[c] # "UNUSED" /\ parent[c] = s}
Zombies(s) == {c \in Children(s) : state[c] = "ZOMBIE"}

Reaped(c) ==
  /\ state' = [state EXCEPT ![c] = "UNUSED"]
  /\ parent' = [parent EXCEPT ![c] = init]

wait(s) ==
  /\ At(s, "wait")
  /\ IF Children(s) = {} THEN UNCHANGED <<state, parent>>
     ELSE Zombies(s) # {} /\ Reaped(Min(Zombies(s)))
  /\ Rest(s, FALSE)
  /\ UNCHANGED <<kern, p, shvars>>

(* init: it starts sh and waits until it has reaped that.  If fork() fails *)
(* it exits, and the kernel panics: init exiting.                          *)
init_fork ==
  /\ initpc = "fork"
  /\ IF Unused = {} THEN /\ initpc' = "exit"
                         /\ UNCHANGED <<kern, sh, state, parent, code, p>>
     ELSE LET c == Min(Unused)
          IN /\ Forked(init, c)
             /\ p' = [p EXCEPT ![c] = NoFds]
             /\ code' = [code EXCEPT ![c] = <<Op("console")>>]
             /\ sh' = c /\ initpc' = "wait"
  /\ UNCHANGED others

init_wait ==
  /\ initpc = "wait" /\ Zombies(init) # {}
  /\ LET c == Min(Zombies(init))
     IN /\ Reaped(c)
        /\ sh' = IF c = sh THEN init ELSE sh
        /\ initpc' = IF c = sh THEN "fork" ELSE "wait"
  /\ UNCHANGED <<kern, others, code, p>>

(* read(0) and write(1) of the programs.  A reader reads on until read()   *)
(* returns 0, a writer ends when write() fails.  A descriptor that is not  *)
(* a pipe's never blocks here; a closed one fails.                         *)
FileAt(s, fd) == kern.ft[kern.ofile[s][fd]]
IsPipe(s, fd) == kern.ofile[s][fd] # 0 /\ FileAt(s, fd).type = "FD_PIPE"

read(s) ==
  /\ At(s, "read")
  /\ IF IsPipe(s, 0)
     THEN LET q == FileAt(s, 0).pipe
          IN \/ /\ kern.pipe[q].n > 0
                /\ kern' = [kern EXCEPT !.pipe[q].n = @ - 1]
                /\ UNCHANGED code
             \/ /\ kern.pipe[q].n = 0 /\ ~kern.pipe[q].writeopen
                /\ Rest(s, FALSE) /\ UNCHANGED kern
     ELSE Rest(s, FALSE) /\ UNCHANGED kern
  /\ UNCHANGED <<state, parent, p, shvars>>

write(s) ==
  /\ At(s, "write")
  /\ IF IsPipe(s, 1)
     THEN LET q == FileAt(s, 1).pipe
          IN \/ /\ ~kern.pipe[q].readopen
                /\ Rest(s, TRUE) /\ UNCHANGED kern
             \/ /\ kern.pipe[q].readopen /\ kern.pipe[q].n < PIPESIZE
                /\ kern' = [kern EXCEPT !.pipe[q].n = @ + 1]
                /\ Rest(s, FALSE)
     ELSE Rest(s, kern.ofile[s][1] = 0) /\ UNCHANGED kern
  /\ UNCHANGED <<state, parent, p, shvars>>

Step(s) ==
  \/ close_call(s) \/ dup_call(s) \/ open_call(s) \/ pipe_call(s) \/ console_call(s)
  \/ fork(s) \/ exit(s) \/ wait(s) \/ read(s) \/ write(s)

System == initpc # "exit" /\ ((\E s \in Slot : Step(s)) \/ init_fork \/ init_wait)
Typed == initpc # "exit" /\ ((\E c \in Commands[others] : main(c)) \/ main_eof)

ShellNext == Typed \/ System

(* While some process can run, one does (see Sched); users need not type.  *)
ShellSpec == ShellInit /\ [][ShellNext]_shellvars /\ WF_shellvars(System)
-----------------------------------------------------------------------------
(* See Counted in FileTable, for every interleaving of the commands.       *)
FilesCounted == Counted(kern)

(* init.c and sh.c: whatever the command, whichever call of it fails, and  *)
(* if sh itself exits, a prompt comes back; so every reader of a pipeline  *)
(* sees the end of its input and every writer without a reader stops.  The *)
(* one exception: sh has exited, and what still runs in the background has *)
(* taken every entry before init's fork(), which ends the system.          *)
InitExited == initpc = "exit" /\ sh = init /\ Unused = {} /\ Children(init) \ others # {}
PromptReturns == ~Prompt ~> (Prompt \/ InitExited)
=============================================================================
