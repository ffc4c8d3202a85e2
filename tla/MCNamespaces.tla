---------------------------- MODULE MCNamespaces ----------------------------
(***************************************************************************)
(* userns_child_exec starts simple_init as the init of a new PID namespace *)
(* (userns_child_exec -p -U ... simple_init), for TLC: its execvp() starts *)
(* the init, whose exit is the end of its child.                           *)
(***************************************************************************)
EXTENDS SimpleInit

VARIABLES wants, maps, parent, child, writers

L == INSTANCE UsernsChildExec

launcherVars == <<wants, maps, parent, child, writers>>
mcVars == <<vars, launcherVars>>

MCInit == L!Init /\ Init

\* Each program by itself.
Launcher(A) == A /\ UNCHANGED vars
Namespace(A) == A /\ UNCHANGED launcherVars

Executes == L!execvp /\ Start
InitEnds == L!ProgramEnds /\ InitExits(1)

MCNext ==
    \/ Launcher(L!Parent \/ L!Child \/ L!ExecFails)
    \/ Executes
    \/ InitEnds
    \/ \E p \in Procs :
         \/ Namespace(Runs(p))
         \/ p # 1 /\ Namespace(InitExits(p))
         \/ Namespace(Command(p) \/ CommandEnds(p) \/ Daemon(p) \/ DaemonEnds(p))

\* Both programs run; the user need type nothing and commands need not end.
MCSpec ==
    /\ MCInit /\ [][MCNext]_mcVars
    /\ WF_mcVars(Launcher(L!Parent))
    /\ WF_mcVars(Launcher(L!Child))
    /\ \A p \in Procs : WF_mcVars(Namespace(Runs(p)))

-----------------------------------------------------------------------------
\* The launcher: its child executes a program only when the maps are there, or
\* their writing failed, and the launcher does not end before it.
LauncherSound == L!TypeOK /\ L!MappedBeforeExec /\ L!ParentLast

\* The child of the launcher gets to execvp().
Started == L!Started

\* The init: one process at the prompt, which has the terminal.
InitSound == TypeOK /\ OneAtPrompt

=============================================================================
