-------------------------- MODULE Namespaces_proof --------------------------
(***************************************************************************)
(* Proofs about userns_child_exec and simple_init, for every number of     *)
(* processes: the program starts when its maps are written (Launched), and *)
(* one process at a time reads commands (OneReader).                       *)
(***************************************************************************)
EXTENDS MCNamespaces, TLAPS

-----------------------------------------------------------------------------
(* The launcher.                                                            *)

\* The maps are written in order; the parent holds the pipe until they are.
LauncherInv ==
    /\ L!TypeOK
    /\ parent \in {"clone", "uid", "gid", "close"} => "parent" \in writers
    /\ parent = "gid" => "uid" \in maps \/ "uid" \notin wants
    /\ parent \in {"close", "wait", "done"} => maps = wants
    /\ child \in {"exec", "runs", "ended"} => parent \in {"wait", "done", "failed"}
    /\ parent = "done" => child = "ended"
    /\ parent = "clone" => child = "none"

\* A step of the composition is one of the launcher's, or leaves it alone.
LEMMA LauncherStep ==
    ASSUME LauncherInv, [MCNext]_mcVars
    PROVE  LauncherInv'
<1> USE DEF LauncherInv, L!TypeOK
<1>1. CASE Launcher(L!Parent)
  <2>1. CASE L!Clone
    BY <2>1 DEF L!Clone
  <2>2. CASE L!CloneFails
    BY <2>2 DEF L!CloneFails
  <2>3. CASE L!update_map("uid", "gid")
    BY <2>3 DEF L!update_map
  <2>4. CASE L!update_map("gid", "close")
    BY <2>4 DEF L!update_map
  <2>5. CASE L!UpdateFails
    BY <2>5 DEF L!UpdateFails
  <2>6. CASE L!ClosePipe
    BY <2>6 DEF L!ClosePipe
  <2>7. CASE L!waitpid
    BY <2>7 DEF L!waitpid
  <2> QED  BY <1>1, <2>1, <2>2, <2>3, <2>4, <2>5, <2>6, <2>7 DEF Launcher, L!Parent
<1>2. CASE Launcher(L!Child)
  <2>1. CASE L!ChildCloses
    BY <2>1 DEF L!ChildCloses, L!ChildDrops
  <2>2. CASE L!ChildReads
    BY <2>2 DEF L!ChildReads, L!PipeEnded
  <2> QED  BY <1>2, <2>1, <2>2 DEF Launcher, L!Child
<1>3. CASE L!execvp \/ L!ExecFails \/ L!ProgramEnds
  BY <1>3 DEF L!execvp, L!ExecFails, L!ProgramEnds
<1>4. CASE UNCHANGED launcherVars
  BY <1>4 DEF launcherVars
<1> QED  BY <1>1, <1>2, <1>3, <1>4 DEF MCNext, Launcher, Namespace, Executes, InitEnds, mcVars

\* The child of userns_child_exec executes its program when every map that was
\* asked for is written, or writing failed; the parent outlives the program.
THEOREM Launched == MCSpec => []LauncherSound
<1>1. MCInit => LauncherInv
  BY DEF MCInit, L!Init, LauncherInv, L!TypeOK
<1>2. LauncherInv => LauncherSound
  BY DEF LauncherInv, LauncherSound, L!MappedBeforeExec, L!ParentLast
<1> QED  BY <1>1, <1>2, LauncherStep, PTL DEF MCSpec

-----------------------------------------------------------------------------
(* The init.                                                                *)

ChildOf(q, p) == ppid[q] = p /\ Alive(q)

\* The processes of the namespace, whether or not commands leave some behind:
\* nothing runs before the init or without it; whoever runs has a parent.
FamilyInv ==
    /\ daemons \in BOOLEAN /\ TypeOK
    /\ pc[1] \in Loop \cup {"none", "gone"} /\ ppid[1] = 0
    /\ \A q \in Procs : q # 1 /\ Alive(q) => ppid[q] \in Procs /\ pc[1] \in Loop
    /\ pc[1] = "none" => \A q \in Procs : pc[q] = "none" /\ sigchld = {}

\* Without daemons the processes form a chain: each has one child at most, and
\* has none when it reads commands, expands one, is one, or is told of an end.
ChainInv ==
    /\ \A p, q \in Procs : Alive(p) /\ Alive(q) /\ ppid[p] = ppid[q] => p = q
    /\ \A p, q \in Procs : Alive(p) /\ Alive(q) /\ ~HasChild(p) /\ ~HasChild(q) => p = q
    /\ \A p \in Procs : HasChild(p) => pc[p] \in {"forked", "pause"}
    /\ \A p \in sigchld : pc[p] \in {"forked", "pause"} /\ ~HasChild(p)
    /\ \A p \in Procs : pc[p] \in {"prompt", "child", "words"} => foreground = pgrp[p]

InitInv == FamilyInv /\ (~daemons => ChainInv)

\* A process that is not the init ends: what is alive has a parent still.
LEMMA FamilyEnds ==
    ASSUME FamilyInv, NEW p \in Procs, Ends(p), pc[p] \in Forked \cup {"command", "daemon"} \/ (p # 1 /\ pc[p] \in {"prompt", "awake"})
    PROVE  FamilyInv' /\ daemons' = daemons
<1> USE MaxProcsAssumption DEF FamilyInv, TypeOK, Alive, Loop, Forked, Procs
<1>1. /\ pc' = [pc EXCEPT ![p] = "zombie"] /\ sigchld' = sigchld \cup {ppid[p]}
      /\ UNCHANGED <<daemons, ppid, pgrp, foreground>>
  BY DEF Ends
<1>2. p # 1 /\ ppid[p] \in Procs /\ pc[1] # "none" /\ pc'[1] = pc[1]
  BY <1>1
<1>3. \A q \in Procs : Alive(q)' => Alive(q)
  BY <1>1
<1>4. TypeOK'
  BY <1>1, <1>2
<1> QED  BY <1>1, <1>2, <1>3, <1>4

\* Process p forks q, whose parent is x.
LEMMA FamilyForks ==
    ASSUME FamilyInv, NEW p \in Procs, NEW q \in Procs, NEW x \in Procs, NEW s \in {"child", "daemon"},
           NEW at \in {"forked", "command"}, Fork(p, q, s, at), ppid' = [ppid EXCEPT ![q] = x],
           (pc[p] = "prompt" /\ at = "forked") \/ (pc[p] = "command" /\ at = "command"),
           UNCHANGED <<daemons, foreground, sigchld>>
    PROVE  FamilyInv' /\ daemons' = daemons
<1>1. TypeOK /\ Alive(p) /\ pc[q] = "none" /\ q # 1 /\ p # q
  BY DEF FamilyInv, Fork, Alive, Loop, Forked
<1>2. /\ pc'[q] = s /\ pc'[p] = at /\ \A y \in Procs \ {p, q} : pc'[y] = pc[y]
      /\ ppid'[q] = x /\ \A y \in Procs \ {q} : ppid'[y] = ppid[y]
  BY <1>1 DEF TypeOK, Fork
<1>3. TypeOK'
  <2>1. pgrp[p] \in 0 .. MaxProcs /\ x \in 0 .. MaxProcs
    BY <1>1, MaxProcsAssumption DEF TypeOK, Procs
  <2> QED  BY <1>1, <2>1 DEF TypeOK, Fork, Loop, Forked
<1>4. 1 \in Procs /\ pc[1] \in Loop
  BY <1>1, MaxProcsAssumption DEF FamilyInv, Procs, Alive, Loop, Forked
<1>5. pc'[1] \in Loop /\ ppid'[1] = 0
  BY <1>1, <1>2, <1>4 DEF FamilyInv, Loop
<1>6. \A y \in Procs : Alive(y)' => y = q \/ Alive(y)
  BY <1>1, <1>2 DEF Alive
<1>7. \A y \in Procs : y # 1 /\ Alive(y)' => ppid'[y] \in Procs
  BY <1>2, <1>6 DEF FamilyInv
<1> QED  BY <1>3, <1>5, <1>7 DEF FamilyInv, Loop

\* Process p goes on to s.
LEMMA FamilyMoves ==
    ASSUME FamilyInv, NEW p \in Procs, NEW s \in Loop \cup Forked \cup {"command"},
           pc[p] \in Loop \cup Forked, pc[p] \in Loop => s \in Loop,
           pc' = [pc EXCEPT ![p] = s], UNCHANGED <<daemons, ppid, sigchld>>,
           pgrp' \in [Procs -> 0 .. MaxProcs], foreground' \in 0 .. MaxProcs
    PROVE  FamilyInv' /\ daemons' = daemons
<1>1. TypeOK /\ Alive(p) /\ 1 \in Procs
  BY MaxProcsAssumption DEF FamilyInv, Alive, Procs
<1>2. pc'[p] = s /\ \A y \in Procs \ {p} : pc'[y] = pc[y]
  BY <1>1 DEF TypeOK
<1>3. TypeOK'
  BY <1>1 DEF TypeOK
<1>4. \A y \in Procs : Alive(y)' <=> Alive(y)
  BY <1>1, <1>2 DEF Alive
<1>5. pc'[1] = pc[1] \/ (pc[1] \in Loop /\ pc'[1] \in Loop)
  BY <1>1, <1>2 DEF FamilyInv, Loop, Forked
<1>6. pc[1] # "none" /\ pc'[1] # "none"
  BY <1>1, <1>5 DEF FamilyInv, Loop, Forked
<1> QED  BY <1>1, <1>3, <1>4, <1>5, <1>6 DEF FamilyInv, Loop

\* FamilyInv is kept by every step, ChainInv by those without daemons.
LEMMA FamilyStep ==
    ASSUME FamilyInv, [MCNext]_mcVars
    PROVE  FamilyInv' /\ daemons' = daemons
<1>1. ASSUME NEW p \in Procs, Runs(p)
      PROVE  FamilyInv' /\ daemons' = daemons
  <2>0. /\ pgrp \in [Procs -> 0 .. MaxProcs] /\ foreground \in 0 .. MaxProcs
        /\ [pgrp EXCEPT ![p] = p] \in [Procs -> 0 .. MaxProcs] /\ p \in 0 .. MaxProcs
        /\ pgrp[p] \in 0 .. MaxProcs
    BY DEF FamilyInv, TypeOK, Procs
  <2>1. CASE Expands(p)
    BY <2>0, <2>1, FamilyMoves DEF Expands, Loop, Forked
  <2>2. CASE ExpandFails(p)
    BY <2>0, <2>2, FamilyMoves DEF ExpandFails, Loop, Forked
  <2>3. CASE Exec(p)
    BY <2>0, <2>3, FamilyMoves DEF Exec, Loop, Forked
  <2>4. CASE child_handler(p)
    <3>1. /\ \A y \in Procs : Alive(y)' <=> Alive(y)
          /\ \A y \in Procs : pc'[y] = "none" <=> pc[y] = "none"
          /\ pc'[1] = pc[1] \/ (pc[1] \in Loop \cup {"gone"} /\ pc'[1] \in Loop \cup {"gone"})
      BY <2>4, MaxProcsAssumption
         DEF child_handler, Reaps, Zombies, EndsPause, FamilyInv, Alive, Loop, Forked, Procs
    <3>2. TypeOK' /\ UNCHANGED <<daemons, ppid>>
      BY <2>4 DEF child_handler, FamilyInv, TypeOK, Loop
    <3>3. pc[1] \in Loop => pc'[1] \in Loop
      BY <2>4, MaxProcsAssumption DEF child_handler, Reaps, Zombies, FamilyInv, Loop, Procs
    <3>4. pc[1] # "none"
      BY <2>4 DEF child_handler, FamilyInv, Loop
    <3> QED  BY <3>1, <3>2, <3>3, <3>4, MaxProcsAssumption DEF FamilyInv, Procs
  <2>5. CASE pause(p)
    BY <2>0, <2>5, FamilyMoves DEF pause, Loop, Forked
  <2>6. CASE Prompts(p)
    BY <2>0, <2>6, FamilyMoves DEF Prompts, TakesTerminal, Loop, Forked
  <2> QED  BY <1>1, <2>1, <2>2, <2>3, <2>4, <2>5, <2>6 DEF Runs
<1>2. ASSUME NEW p \in Procs, Command(p) \/ Daemon(p)
      PROVE  FamilyInv' /\ daemons' = daemons
  <2>1. CASE Command(p)
    BY <2>1, FamilyForks DEF Command
  <2>2. CASE Daemon(p)
    <3>1. 1 \in Procs
      BY MaxProcsAssumption DEF Procs
    <3> QED  BY <2>2, <3>1, FamilyForks DEF Daemon
  <2> QED  BY <1>2, <2>1, <2>2
<1>3. ASSUME NEW p \in Procs, CommandEnds(p) \/ DaemonEnds(p) \/ (p # 1 /\ InitExits(p))
      PROVE  FamilyInv' /\ daemons' = daemons
  <2>1. Ends(p) /\ (pc[p] \in Forked \cup {"command", "daemon"} \/ (p # 1 /\ pc[p] \in {"prompt", "awake"}))
    BY <1>3 DEF CommandEnds, DaemonEnds, InitExits, Exits, AtPrompt, NoTerminal
  <2> QED  BY <2>1, FamilyEnds
<1>0. 1 \in Procs
  BY MaxProcsAssumption DEF Procs
<1>4. CASE InitExits(1)
  BY <1>0, <1>4, MaxProcsAssumption
     DEF InitExits, Exits, AtPrompt, NoTerminal, FamilyInv, TypeOK, Alive, Loop, Forked, Procs
<1>5. CASE Start
  BY <1>5, MaxProcsAssumption DEF Start, FamilyInv, TypeOK, Alive, Loop, Forked, Procs
<1>6. CASE UNCHANGED vars
  BY <1>6 DEF vars, FamilyInv, TypeOK, Alive
<1>7. Start \/ InitExits(1) \/ UNCHANGED vars \/ \E p \in Procs :
        \/ Runs(p)
        \/ Command(p) \/ Daemon(p)
        \/ CommandEnds(p) \/ DaemonEnds(p) \/ (p # 1 /\ InitExits(p))
  BY DEF MCNext, Launcher, Namespace, Executes, InitEnds, mcVars
<1> QED  BY <1>1, <1>2, <1>3, <1>4, <1>5, <1>6, <1>7

\* The last process of the chain ends: its parent is the last one now.
LEMMA LastEnds ==
    ASSUME FamilyInv, ChainInv, NEW p \in Procs, p # 1, Ends(p),
           pc[p] \in Forked \cup {"prompt", "awake", "command", "daemon"}
    PROVE  ChainInv'
<1> USE MaxProcsAssumption DEF Loop, Forked, Procs
<1>0. TypeOK /\ ChainInv /\ Alive(p) /\ ~HasChild(p) /\ ppid[p] \in Procs /\ ppid[p] # p
  <2>1. Alive(p) /\ ~HasChild(p)
    BY DEF Alive, ChainInv
  <2> QED  BY <2>1 DEF FamilyInv, HasChild
<1>1. /\ pc' = [pc EXCEPT ![p] = "zombie"] /\ sigchld' = sigchld \cup {ppid[p]}
      /\ UNCHANGED <<daemons, ppid, pgrp, foreground>>
  BY DEF Ends
<1>2. \A x \in Procs : Alive(x)' <=> Alive(x) /\ x # p
  BY <1>0, <1>1 DEF TypeOK, Alive
<1>3. \A x \in Procs : HasChild(x)' <=> HasChild(x) /\ x # ppid[p]
  BY <1>0, <1>1, <1>2 DEF HasChild, ChainInv
<1>4. \A x \in Procs : x # p => pc'[x] = pc[x]
  BY <1>0, <1>1 DEF TypeOK
<1>5. HasChild(ppid[p]) /\ pc[ppid[p]] \in {"forked", "pause"}
  BY <1>0 DEF HasChild, ChainInv
<1>6. \A x, y \in Procs : Alive(x)' /\ Alive(y)' /\ ppid'[x] = ppid'[y] => x = y
  BY <1>0, <1>1, <1>2 DEF ChainInv
<1>7. \A x, y \in Procs : Alive(x)' /\ Alive(y)' /\ ~HasChild(x)' /\ ~HasChild(y)' => x = y
  BY <1>0, <1>2, <1>3 DEF ChainInv
<1>8. \A x \in Procs : HasChild(x)' => pc'[x] \in {"forked", "pause"}
  BY <1>0, <1>3, <1>4 DEF ChainInv
<1>9. \A x \in sigchld' : pc'[x] \in {"forked", "pause"} /\ ~HasChild(x)'
  <2> SUFFICES ASSUME NEW x \in sigchld'
               PROVE  pc'[x] \in {"forked", "pause"} /\ ~HasChild(x)'
    OBVIOUS
  <2>1. CASE x = ppid[p]
    BY <1>0, <1>3, <1>4, <1>5, <2>1
  <2>2. CASE x \in sigchld
    <3>1. x \in Procs /\ pc[x] \in {"forked", "pause"} /\ ~HasChild(x)
      BY <1>0, <2>2 DEF TypeOK, ChainInv
    <3>2. x # p
      BY <3>1
    <3> QED  BY <1>3, <1>4, <3>1, <3>2
  <2> QED  BY <1>1, <2>1, <2>2
<1>10. \A x \in Procs : pc'[x] \in {"prompt", "child", "words"} => foreground' = pgrp'[x]
  BY <1>0, <1>1, <1>4 DEF TypeOK, ChainInv
<1> QED  BY <1>6, <1>7, <1>8, <1>9, <1>10 DEF ChainInv

\* Each step of the two programs keeps the chain.
LEMMA ChainStep ==
    ASSUME FamilyInv, ChainInv, ~daemons, [MCNext]_mcVars
    PROVE  ChainInv'
<1>1. ASSUME NEW p \in Procs, Runs(p)
      PROVE  ChainInv'
  <2> USE DEF FamilyInv, TypeOK, Alive, HasChild, Loop, Forked, ChainInv
  <2>1. CASE Expands(p)
    BY <2>1 DEF Expands
  <2>2. CASE ExpandFails(p)
    BY <2>2 DEF ExpandFails
  <2>3. CASE Exec(p)
    BY <2>3 DEF Exec
  <2>4. CASE child_handler(p)
    BY <2>4 DEF child_handler, Reaps, Zombies, EndsPause
  <2>5. CASE pause(p)
    BY <2>5 DEF pause
  <2>6. CASE Prompts(p)
    BY <2>6 DEF Prompts, TakesTerminal
  <2> QED  BY <1>1, <2>1, <2>2, <2>3, <2>4, <2>5, <2>6 DEF Runs
<1>2. ASSUME NEW p \in Procs, Command(p)
      PROVE  ChainInv'
  <2>0. TypeOK /\ ChainInv
    BY DEF FamilyInv
  <2>1. PICK q \in Procs : /\ pc[q] = "none" /\ q # 1
                           /\ pc' = [pc EXCEPT ![q] = "child", ![p] = "forked"]
                           /\ pgrp' = [pgrp EXCEPT ![q] = pgrp[p]]
                           /\ ppid' = [ppid EXCEPT ![q] = p]
    BY <1>2 DEF Command, Fork
  <2>2. pc[p] = "prompt" /\ foreground = pgrp[p] /\ UNCHANGED <<daemons, foreground, sigchld>> /\ p # q
    BY <1>2, <2>1 DEF Command
  <2>3. /\ pc'[q] = "child" /\ pc'[p] = "forked" /\ \A x \in Procs \ {p, q} : pc'[x] = pc[x]
        /\ ppid'[q] = p /\ \A x \in Procs \ {q} : ppid'[x] = ppid[x]
        /\ pgrp'[q] = pgrp[p] /\ \A x \in Procs \ {q} : pgrp'[x] = pgrp[x]
    BY <2>0, <2>1, <2>2 DEF TypeOK
  <2>4. ~HasChild(p) /\ ~HasChild(q) /\ Alive(p) /\ ~Alive(q) /\ p \notin sigchld /\ q \notin sigchld
    BY <2>0, <2>1, <2>2 DEF ChainInv, Alive, Loop, Forked
  <2>5. \A x \in Procs : Alive(x)' <=> Alive(x) \/ x = q
    BY <2>2, <2>3, <2>4 DEF Alive, Loop, Forked
  <2>6. \A x \in Procs : HasChild(x)' <=> HasChild(x) \/ x = p
    BY <2>3, <2>4, <2>5 DEF HasChild
  <2>7. \A x, y \in Procs : Alive(x)' /\ Alive(y)' /\ ppid'[x] = ppid'[y] => x = y
    BY <2>0, <2>3, <2>4, <2>5 DEF ChainInv, HasChild
  <2>8. \A x, y \in Procs : Alive(x)' /\ Alive(y)' /\ ~HasChild(x)' /\ ~HasChild(y)' => x = y
    BY <2>0, <2>4, <2>5, <2>6 DEF ChainInv
  <2>9. \A x \in Procs : HasChild(x)' => pc'[x] \in {"forked", "pause"}
    BY <2>0, <2>3, <2>4, <2>6 DEF ChainInv
  <2>10. \A x \in sigchld : x \in Procs /\ x # p /\ x # q
    BY <2>0, <2>4 DEF TypeOK
  <2>11. \A x \in sigchld' : pc'[x] \in {"forked", "pause"} /\ ~HasChild(x)'
    BY <2>0, <2>2, <2>3, <2>6, <2>10 DEF ChainInv
  <2>12. \A x \in Procs : pc'[x] \in {"prompt", "child", "words"} => foreground' = pgrp'[x]
    BY <2>0, <2>2, <2>3 DEF ChainInv
  <2> QED  BY <2>7, <2>8, <2>9, <2>11, <2>12 DEF ChainInv
<1>3. ASSUME NEW p \in Procs, InitExits(p)
      PROVE  ChainInv'
  <2>1. CASE p = 1
    BY <1>3, <2>1 DEF InitExits, Exits, AtPrompt, NoTerminal, FamilyInv, TypeOK, Alive, HasChild, Loop, Forked, ChainInv
  <2>2. CASE p # 1
    BY <1>3, <2>2, LastEnds DEF InitExits, Exits, AtPrompt, NoTerminal
  <2> QED  BY <2>1, <2>2
<1>4. ASSUME NEW p \in Procs, CommandEnds(p) \/ DaemonEnds(p)
      PROVE  ChainInv'
  <2>1. Ends(p) /\ pc[p] \in Forked \cup {"command", "daemon"}
    BY <1>4 DEF CommandEnds, DaemonEnds
  <2>2. p # 1
    BY <2>1 DEF FamilyInv, Forked, Loop
  <2> QED  BY <2>1, <2>2, LastEnds
<1>5. ASSUME NEW p \in Procs, Daemon(p)
      PROVE  ChainInv'
  BY <1>5 DEF Daemon
<1>6. CASE Start
  BY <1>6, MaxProcsAssumption
     DEF Start, FamilyInv, TypeOK, Alive, HasChild, Loop, Forked, Procs, ChainInv
<1>7. CASE UNCHANGED vars
  BY <1>7 DEF vars, Alive, HasChild, ChainInv
<1> QED  BY <1>1, <1>2, <1>3, <1>4, <1>5, <1>6, <1>7, MaxProcsAssumption
         DEF MCNext, Launcher, Namespace, Executes, InitEnds, mcVars, Procs

\* One process reads commands at a time, it has the terminal, and no command of
\* its own runs, as long as no command leaves a process behind.
THEOREM OneReader == MCSpec => []InitSound
<1>1. MCInit => InitInv
  BY MaxProcsAssumption DEF MCInit, Init, InitInv, FamilyInv, ChainInv, TypeOK, Alive, HasChild, Loop, Forked, Procs
<1>2. InitInv /\ [MCNext]_mcVars => InitInv'
  BY FamilyStep, ChainStep DEF InitInv
<1>3. InitInv => InitSound
  BY DEF InitInv, InitSound, FamilyInv, ChainInv, OneAtPrompt, Alive, HasChild, Loop
<1> QED  BY <1>1, <1>2, <1>3, PTL DEF MCSpec

=============================================================================
