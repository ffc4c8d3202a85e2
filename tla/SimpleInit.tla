----------------------------- MODULE SimpleInit -----------------------------
(***************************************************************************)
(* namespace/simple_init.c: an init that reads commands from its terminal, *)
(* runs one at a time and reaps what ends.  Procs[1] is the init, PID 1 of *)
(* its namespace: processes whose parent has gone become its children.  A  *)
(* process group is named by its leader.                                   *)
(***************************************************************************)
EXTENDS Integers, FiniteSets

CONSTANTS
    MaxProcs     \* bound on the processes of an execution

ASSUME MaxProcsAssumption == MaxProcs \in Nat \ {0}

VARIABLES
    daemons,     \* may commands leave processes behind?  Never changes
    pc,          \* what each process does
    ppid,        \* its parent
    pgrp,        \* its process group
    foreground,  \* the process group that has the terminal
    sigchld      \* the processes for which SIGCHLD is pending

vars == <<daemons, pc, ppid, pgrp, foreground, sigchld>>

Procs == 1 .. MaxProcs

Init ==
    /\ daemons \in BOOLEAN
    /\ pc = [p \in Procs |-> "none"]
    /\ ppid = [p \in Procs |-> 0]
    /\ pgrp = [p \in Procs |-> 0]
    /\ foreground = 0
    /\ sigchld = {}

\* The states of a process that runs simple_init: reading a line; after fork();
\* in pause(); after it; the child of a fork(), before and after expand_words().
Loop == {"prompt", "forked", "pause", "awake"}
Forked == {"child", "words"}

\* sigaction(), setpgid(), tcsetpgrp(); the first prompt.  (When one of them
\* fails the program ends as if it had not been executed.)
Start ==
    /\ pc[1] = "none"
    /\ pc' = [pc EXCEPT ![1] = "prompt"]
    /\ pgrp' = [pgrp EXCEPT ![1] = 1]
    /\ foreground' = 1
    /\ UNCHANGED <<daemons, ppid, sigchld>>

\* A new process q, which starts at s in the group of p.
Fork(p, q, s, at) ==
    /\ pc[q] = "none" /\ q # 1
    /\ pc' = [pc EXCEPT ![q] = s, ![p] = at]
    /\ pgrp' = [pgrp EXCEPT ![q] = pgrp[p]]

\* fgets() gives a command: fork().  (An empty line changes nothing.)  Only the
\* foreground group can read the terminal.
Command(p) ==
    /\ pc[p] = "prompt"
    /\ foreground = pgrp[p]
    /\ \E q \in Procs :
         /\ Fork(p, q, "child", "forked")
         /\ ppid' = [ppid EXCEPT ![q] = p]
    /\ UNCHANGED <<daemons, foreground, sigchld>>

\* Process p ends: a zombie, and SIGCHLD for its parent.
Ends(p) ==
    /\ pc' = [pc EXCEPT ![p] = "zombie"]
    /\ sigchld' = sigchld \cup {ppid[p]}
    /\ UNCHANGED <<daemons, ppid, pgrp, foreground>>

\* exit() of a process that runs simple_init.  With PID 1 the kernel kills every
\* process of the namespace.
Exits(p) ==
    IF p = 1
    THEN /\ pc' = [q \in Procs |-> IF pc[q] = "none" THEN "none" ELSE "gone"]
         /\ sigchld' = {}
         /\ UNCHANGED <<daemons, ppid, pgrp, foreground>>
    ELSE Ends(p)

\* fgets() gives the end of the file, or fork() fails.
AtPrompt(p) == pc[p] = "prompt" /\ foreground = pgrp[p]

\* tcsetpgrp() fails after pause().
NoTerminal(p) == pc[p] = "awake"

InitExits(p) == (AtPrompt(p) \/ NoTerminal(p)) /\ Exits(p)

\* expand_words() succeeds, or fails: "continue" takes the child to the top of
\* the loop, where it reads commands as its parent does.
Expands(p) ==
    /\ pc[p] = "child"
    /\ pc' = [pc EXCEPT ![p] = "words"]
    /\ UNCHANGED <<daemons, ppid, pgrp, foreground, sigchld>>

ExpandFails(p) ==
    /\ pc[p] = "child"
    /\ pc' = [pc EXCEPT ![p] = "prompt"]
    /\ UNCHANGED <<daemons, ppid, pgrp, foreground, sigchld>>

\* setpgid(), tcsetpgrp() and execvp() of the command.
Exec(p) ==
    /\ pc[p] = "words"
    /\ pc' = [pc EXCEPT ![p] = "command"]
    /\ pgrp' = [pgrp EXCEPT ![p] = p]
    /\ foreground' = p
    /\ UNCHANGED <<daemons, ppid, sigchld>>

\* The command ends; or errExit() on the way to it.
CommandEnds(p) == pc[p] \in Forked \cup {"command"} /\ Ends(p)

\* A command leaves a process behind, whose parent is the init then.
Daemon(p) ==
    /\ daemons
    /\ pc[p] = "command"
    /\ \E q \in Procs :
         /\ Fork(p, q, "daemon", "command")
         /\ ppid' = [ppid EXCEPT ![q] = 1]
    /\ UNCHANGED <<daemons, foreground, sigchld>>

DaemonEnds(p) == pc[p] = "daemon" /\ Ends(p)

Zombies(p) == {q \in Procs : ppid[q] = p /\ pc[q] = "zombie"}

\* Mutant: one waitpid() for each signal.
ReapsOne(p) == {CHOOSE q \in Zombies(p) : TRUE}

\* waitpid(-1, WNOHANG) until there is nothing to reap.
Reaps(p) == Zombies(p)

\* Mutant: pause() goes on after the handler, as fgets() does.
Restarts(p) == FALSE

EndsPause(p) == pc[p] = "pause"

\* child_handler() runs; it ends pause(), and fgets() is restarted.
child_handler(p) ==
    /\ p \in sigchld
    /\ pc[p] \in Loop
    /\ pc' = [q \in Procs |->
                CASE q \in Reaps(p) -> "gone"
                  [] q = p /\ EndsPause(p) -> "awake"
                  [] OTHER -> pc[q]]
    /\ sigchld' = sigchld \ {p}
    /\ UNCHANGED <<daemons, ppid, pgrp, foreground>>

pause(p) ==
    /\ pc[p] = "forked"
    /\ pc' = [pc EXCEPT ![p] = "pause"]
    /\ UNCHANGED <<daemons, ppid, pgrp, foreground, sigchld>>

\* Mutant: the terminal stays with the command.
LeavesTerminal(p) == foreground

TakesTerminal(p) == pgrp[p]

\* tcsetpgrp() after pause(), and the next prompt.
Prompts(p) ==
    /\ pc[p] = "awake"
    /\ pc' = [pc EXCEPT ![p] = "prompt"]
    /\ foreground' = TakesTerminal(p)
    /\ UNCHANGED <<daemons, ppid, pgrp, sigchld>>

\* What a process that runs simple_init does by itself.
Runs(p) ==
    \/ Expands(p) \/ ExpandFails(p) \/ Exec(p) \/ child_handler(p) \/ pause(p) \/ Prompts(p)

\* What the user and the commands do.
Else(p) == Command(p) \/ InitExits(p) \/ CommandEnds(p) \/ Daemon(p) \/ DaemonEnds(p)

Next == \E p \in Procs : Runs(p) \/ Else(p)

-----------------------------------------------------------------------------
Alive(q) == pc[q] \in Loop \cup Forked \cup {"command", "daemon"}
HasChild(p) == \E q \in Procs : ppid[q] = p /\ Alive(q)

TypeOK ==
    /\ pc \in [Procs -> Loop \cup Forked \cup {"none", "command", "daemon", "zombie", "gone"}]
    /\ ppid \in [Procs -> 0 .. MaxProcs]
    /\ pgrp \in [Procs -> 0 .. MaxProcs]
    /\ foreground \in 0 .. MaxProcs
    /\ sigchld \subseteq Procs

\* One process reads commands at a time and has the terminal, and no command of
\* another runs meanwhile: also when the expansion of a word failed and the
\* child reads in the place of its parent.  As long as commands leave no
\* process behind, whose end would wake the init too early.
OneAtPrompt ==
    ~daemons => \A p \in Procs : pc[p] = "prompt" =>
        /\ foreground = pgrp[p]
        /\ ~HasChild(p)
        /\ \A q \in Procs : pc[q] = "prompt" => q = p

\* Signals do not queue, and yet whatever ends is reaped, by the init or by the
\* end of its namespace.
Reaped == \A q \in Procs : [](pc[q] = "zombie" => <>(pc[q] = "gone"))

\* A child has ended and its parent has not got to pause() yet.
Early == \E p \in Procs : pc[p] = "forked" /\ (p \in sigchld \/ ~HasChild(p))

\* The init gets from pause() to the next prompt when nothing runs any more,
\* as long as no child ends before pause().
PauseEnds ==
    []~Early => \A p \in Procs : [](pc[p] = "pause" /\ ~HasChild(p) => <>(pc[p] # "pause"))

=============================================================================
