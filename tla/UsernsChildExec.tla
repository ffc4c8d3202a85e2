-------------------------- MODULE UsernsChildExec --------------------------
(***************************************************************************)
(* namespace/user_ns/userns_child_exec.c: the parent clones a child into a *)
(* new user namespace and writes its ID maps; the child waits for the end  *)
(* of a pipe and executes a program.  A descriptor of the writing end is   *)
(* the process that has it open.                                           *)
(***************************************************************************)
EXTENDS Integers, FiniteSets

VARIABLES
    wants,       \* the maps asked for, -M and -G; never changes
    maps,        \* the maps written
    parent,      \* what main() does next, or how it ended
    child,       \* the same for child_func() and the program it executes
    writers      \* the processes that have pipe_fd[1] open

vars == <<wants, maps, parent, child, writers>>

Init ==
    /\ wants \in SUBSET {"uid", "gid"}
    /\ maps = {}
    /\ parent = "clone"
    /\ child = "none"
    /\ writers = {"parent"}

\* pipe(), clone(): the child has a copy of both ends.
Clone ==
    /\ parent = "clone"
    /\ parent' = "uid"
    /\ child' = "close"
    /\ writers' = {"parent", "child"}
    /\ UNCHANGED <<wants, maps>>

\* pipe() or clone() fails.
CloneFails ==
    /\ parent = "clone"
    /\ parent' = "failed"
    /\ writers' = {}
    /\ UNCHANGED <<wants, maps, child>>

\* update_map(); for the gid map "deny" is written to setgroups before.
update_map(map, next) ==
    /\ parent = map
    /\ maps' = maps \cup ({map} \cap wants)
    /\ parent' = next
    /\ UNCHANGED <<wants, child, writers>>

\* open() or write() of a map fails: exit, which closes the pipe, too.
UpdateFails ==
    /\ parent \in {"uid", "gid"}
    /\ parent \in wants
    /\ parent' = "failed"
    /\ writers' = writers \ {"parent"}
    /\ UNCHANGED <<wants, maps, child>>

ClosePipe ==
    /\ parent = "close"
    /\ parent' = "wait"
    /\ writers' = writers \ {"parent"}
    /\ UNCHANGED <<wants, maps, child>>

waitpid ==
    /\ parent = "wait"
    /\ child = "ended"
    /\ parent' = "done"
    /\ UNCHANGED <<wants, maps, child, writers>>

\* Mutant: the child keeps its copy of the writing end.
ChildKeeps == writers

ChildDrops == writers \ {"child"}

ChildCloses ==
    /\ child = "close"
    /\ child' = "read"
    /\ writers' = ChildDrops
    /\ UNCHANGED <<wants, maps, parent>>

\* Mutant: the child does not wait for the end of the pipe.
PipeIgnored == TRUE

\* read() gives 0 when nobody has the writing end; no byte is ever written.
PipeEnded == writers = {}

ChildReads ==
    /\ child = "read"
    /\ PipeEnded
    /\ child' = "exec"
    /\ UNCHANGED <<wants, maps, parent, writers>>

execvp ==
    /\ child = "exec"
    /\ child' = "runs"
    /\ UNCHANGED <<wants, maps, parent, writers>>

ExecFails ==
    /\ child = "exec"
    /\ child' = "ended"
    /\ UNCHANGED <<wants, maps, parent, writers>>

\* The program that was executed ends.
ProgramEnds ==
    /\ child = "runs"
    /\ child' = "ended"
    /\ UNCHANGED <<wants, maps, parent, writers>>

Parent ==
    \/ Clone \/ CloneFails \/ update_map("uid", "gid") \/ update_map("gid", "close")
    \/ UpdateFails \/ ClosePipe \/ waitpid

\* child_func() up to execvp()
Child == ChildCloses \/ ChildReads

-----------------------------------------------------------------------------
TypeOK ==
    /\ wants \subseteq {"uid", "gid"} /\ maps \subseteq wants
    /\ parent \in {"clone", "uid", "gid", "close", "wait", "done", "failed"}
    /\ child \in {"none", "close", "read", "exec", "runs", "ended"}
    /\ writers \subseteq {"parent", "child"}

\* The program starts when every map that was asked for is written, whichever
\* process is scheduled first; if not, the parent gave up, for the end of the
\* pipe does not tell why it came.
MappedBeforeExec == child \in {"exec", "runs", "ended"} => maps = wants \/ parent = "failed"

\* The parent outlives the program, unless a map was not written.
ParentLast == parent = "done" => child = "ended"

\* Once cloned the child gets to execvp(): nobody keeps the pipe open for good.
Started == [](child = "close" => <>(child = "exec"))

=============================================================================
