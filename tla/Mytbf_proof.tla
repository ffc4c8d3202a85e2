---------------------------- MODULE Mytbf_proof ----------------------------
(***************************************************************************)
(* Proofs about the token buckets, for every number of buckets, table      *)
(* length, rate, burst, request size, bound and content of fresh memory.   *)
(* First the library of Mytbf: type correctness, consistency of the job    *)
(* table, the bounds of token and the rate limit.  Then the three token    *)
(* buckets of MytbfSignal side by side: what these proofs give for an      *)
(* execution of the library, and the table, the heap, the disposition of   *)
(* SIGALRM and the tokens of the two older ones.                           *)
(***************************************************************************)
EXTENDS MytbfSignal, FiniteSetTheorems, WellFoundedInduction, TLAPS

\* get_free_pos() returns a free index whenever there is one.
LEMMA FreePosition ==
    ASSUME FreePositions # {}
    PROVE  get_free_pos \in FreePositions
<1>1. FreePositions \subseteq Nat
  BY ConstantsAssumption DEF FreePositions, Positions
<1>2. PICK x \in FreePositions :
          \A y \in FreePositions : ~ (<<y, x>> \in OpToRel(<, Nat))
  <2>1. IsWellFoundedOn(OpToRel(<, Nat), Nat)
    BY NatLessThanWellFounded
  <2> QED  BY <1>1, <2>1, WFMin
<1>3. \A y \in FreePositions : x =< y
  <2> SUFFICES ASSUME NEW y \in FreePositions, y < x
               PROVE  FALSE
    BY <1>1
  <2>1. <<y, x>> \in {ss \in Nat \X Nat : ss[1] < ss[2]}
    BY <1>1
  <2>2. <<y, x>> \in OpToRel(<, Nat)
    BY <2>1, Zenon DEF OpToRel
  <2> QED  BY <1>2, <2>2
<1> QED  BY <1>3 DEF get_free_pos, Min

-----------------------------------------------------------------------------
\* The window stays a window when an event is added to it.
LEMMA WatchedType ==
    ASSUME NEW w \in Windows
    PROVE  Watched(w) \in Windows
BY ConstantsAssumption DEF Watched, Windows, NoWindow

\* The refill loop of handler() keeps the types of what it writes.
LEMMA RefillJobsType ==
    ASSUME TypeOK, RefillJobs
    PROVE  /\ token' \in [Bufs -> Int]
           /\ faults' \subseteq {"double_free", "use_after_free"}
           /\ win' \in Windows
<1> USE DEF TypeOK
<1>1. token' \in [Bufs -> Int]
  BY DEF RefillJobs, Refill, Lesser
<1>2. faults' \subseteq {"double_free", "use_after_free"}
  BY DEF RefillJobs
<1>3. [win EXCEPT !.ticks = @ + 1] \in Windows
  BY DEF Windows
<1>4. win' \in Windows
  BY <1>3, WatchedType DEF RefillJobs
<1> QED  BY <1>1, <1>2, <1>4

\* Every step of the thread, of handler() and of exit() keeps the types, the
\* reachable positions of the thread and its claim on a bucket among them.
LEMMA TypeInductive ==
    ASSUME TypeOK, [Next]_vars
    PROVE  TypeOK'
<1> USE ConstantsAssumption DEF TypeOK, PCs, InCall, InFetch
<1>1. ASSUME NEW c \in CpsSet, NEW m \in BurstSet, mytbf_init(c, m)
      PROVE  TypeOK'
  BY <1>1 DEF mytbf_init, params
<1>2. ASSUME NEW b \in Bufs, mytbf_destroy(b)
      PROVE  TypeOK'
  BY <1>2 DEF mytbf_destroy, params, process
<1>3. ASSUME NEW b \in Bufs, OpenWindow(b)
      PROVE  TypeOK'
  <2>1. NoWindow \in Windows
    BY DEF NoWindow, Windows
  <2>2. win' \in Windows
    BY <1>3, <2>1 DEF OpenWindow, Windows
  <2> QED  BY <1>3, <2>2 DEF OpenWindow, params, process, locals
<1>4. ASSUME NEW b \in Bufs, NEW s \in Sizes, mytbf_fetchtoken(b, s)
      PROVE  TypeOK'
  BY <1>4 DEF mytbf_fetchtoken, params, process
<1>5. ASSUME NEW b \in Bufs, NEW s \in Sizes, mytbf_returntoken(b, s)
      PROVE  TypeOK'
  BY <1>5 DEF mytbf_returntoken, params, process
<1>6. CASE UNCHANGED vars
  BY <1>6 DEF vars
<1>7. CASE Exit
  BY <1>7 DEF Exit, params, process, locals
<1>8. CASE mod_load
  <2>1. atexits' \in Nat /\ timer' \in {"armed", "off"} /\ pc' \in {"slot", "unload"}
    BY <1>8 DEF mod_load
  <2> QED  BY <1>8, <2>1 DEF mod_load, params, locals
<1>9. CASE InitSlot
  <2>1. get_free_pos \in Nat
    BY <1>9, FreePosition DEF InitSlot, FreePositions, Positions
  <2>2. /\ csp' \in [Bufs -> Nat]
        /\ burst' \in [Bufs -> Nat]
        /\ token' \in [Bufs -> Int]
        /\ pos' \in [Bufs -> Nat]
        /\ job' \in [Positions -> Bufs \cup {NULL}]
        /\ live' \subseteq Bufs
    <3>1. PICK b \in Bufs \ live :
             /\ live' = live \cup {b}
             /\ token' = [token EXCEPT ![b] = 0]
             /\ csp' = [csp EXCEPT ![b] = cps]
             /\ burst' = [burst EXCEPT ![b] = burstArg]
             /\ pos' = [pos EXCEPT ![b] = get_free_pos]
             /\ job' = [job EXCEPT ![get_free_pos] = b]
      BY <1>9 DEF InitSlot
    <3>2. csp' \in [Bufs -> Nat] /\ burst' \in [Bufs -> Nat]
      BY <3>1
    <3>3. token' \in [Bufs -> Int] /\ pos' \in [Bufs -> Nat]
      BY <2>1, <3>1
    <3>4. job' \in [Positions -> Bufs \cup {NULL}] /\ live' \subseteq Bufs
      BY <3>1
    <3> QED  BY <3>2, <3>3, <3>4
  <2>3. pc' = "idle" /\ UNCHANGED <<process, locals, faults, win>>
    BY <1>9 DEF InitSlot
  <2> QED  BY <2>2, <2>3 DEF process, locals
<1>10. CASE InitFails
  BY <1>10 DEF InitFails, params, process, locals
<1>11. CASE FetchTest
  BY <1>11 DEF FetchTest, params, process
<1>24. CASE FetchCompare
  BY <1>24 DEF FetchCompare, Reload, params, process
<1>25. CASE FetchValue
  BY <1>25 DEF FetchValue, Reload, params, process
<1>12. CASE FetchPause
  BY <1>12 DEF FetchPause, params, process, locals
<1>13. CASE FetchLoad
  BY <1>13 DEF FetchLoad, Reload, params, process
<1>14. CASE FetchStore
  <2>1. win' \in Windows
    BY <1>14 DEF FetchStore, Windows
  <2> QED  BY <1>14, <2>1 DEF FetchStore, params, process, locals
<1>15. CASE ReturnStore
  <2>1. [win EXCEPT !.returned = @ + size] \in Windows
    BY DEF Windows
  <2>2. win' \in Windows
    BY <1>15, <2>1, WatchedType DEF ReturnStore
  <2> QED  BY <1>15, <2>2 DEF ReturnStore, params, process, locals
<1>16. CASE ReturnCap
  BY <1>16 DEF ReturnCap, Lesser, params, process, locals
<1>17. CASE DestroyFree
  <2>1. win' \in Windows
    BY <1>17 DEF DestroyFree, Windows, NoWindow
  <2> QED  BY <1>17, <2>1 DEF DestroyFree, Free, params, process, locals
<1>18. CASE mod_unload
  <2>1. sigact' = old_sa /\ pc' = "unload2" /\ atexits > 0
    BY <1>18 DEF mod_unload
  <2>2. UNCHANGED <<live, params, token, job, old_sa, timer, atexits, locals, faults, win>>
    BY <1>18 DEF mod_unload
  <2> QED  BY <2>1, <2>2 DEF params, locals
<1>19. CASE UnloadTimer
  BY <1>19 DEF UnloadTimer, params, locals
<1>20. CASE UnloadFree
  BY <1>20 DEF UnloadFree, Free, params, locals
<1>21. CASE ExitDone
  BY <1>21 DEF ExitDone, params, process, locals
<1>22. CASE TimerExpires
  <2>1. CASE RefillJobs
    BY <1>22, <2>1, RefillJobsType DEF TimerExpires, handler, KilledBySignal, Resume, params, locals
  <2>2. CASE ~RefillJobs
    <3>1. /\ UNCHANGED <<live, params, job, sigact, old_sa, timer, token, faults, win, locals>>
          /\ \/ pc' = "unload" /\ atexits' = IF pc = "unload2" THEN atexits - 1 ELSE atexits
             \/ pc' = "killed" /\ atexits' = atexits
      BY <1>22, <2>2 DEF TimerExpires, handler, KilledBySignal
    <3>2. atexits' \in Nat
      BY <3>1
    <3> QED  BY <3>1, <3>2 DEF params, locals
  <2> QED  BY <2>1, <2>2
<1>23. CASE UserSignal
  BY <1>23 DEF UserSignal, Resume, params, process, locals
<1> QED
  BY <1>1, <1>2, <1>3, <1>4, <1>5, <1>6, <1>7, <1>8, <1>9, <1>10, <1>11, <1>12,
     <1>13, <1>14, <1>15, <1>16, <1>17, <1>18, <1>19, <1>20, <1>21, <1>22, <1>23,
     <1>24, <1>25
     DEF Next, Client, Thread, Ended, InvalidSize

\* Type correctness of the library's state: in particular a call in progress
\* has a bucket, and mod_unload() runs only while it is registered.
THEOREM TypeCorrect == Spec => []TypeOK
<1>1. Init => TypeOK
  <2> SUFFICES ASSUME Init PROVE TypeOK
    OBVIOUS
  <2>1. win \in Windows
    BY DEF Init, Windows, NoWindow
  <2>2. faults \subseteq {"double_free", "use_after_free"} /\ live \subseteq Bufs
    BY DEF Init
  <2> QED  BY <2>1, <2>2 DEF Init, TypeOK, PCs, InCall, InFetch
<1>2. TypeOK /\ [Next]_vars => TypeOK'
  BY TypeInductive
<1> QED  BY <1>1, <1>2, PTL DEF Spec

-----------------------------------------------------------------------------
(***************************************************************************)
(* The inductive invariant.  The properties of Mytbf are not inductive by  *)
(* themselves: they rest on what the thread has in its locals in the       *)
(* middle of a call.                                                       *)
(***************************************************************************)

\* The job table and the heap.
TableInv ==
    /\ Registered
    /\ InCall => tbf \in live
    /\ pc = "free" => \A i \in Slots : job[i] # tbf
    /\ timer = "armed" => \A i \in Slots : job[i] \in live
    /\ pc = "unload3" => timer = "off"
    /\ NoUseAfterFree

\* A bucket exists only while the library is loaded.
LoadedInv ==
    /\ pc = "load" => sigact = "handler"
    /\ Running /\ (live # {} \/ pc = "slot") => timer = "armed" /\ sigact = "handler"
    /\ Running /\ timer = "armed" => sigact = "handler"

\* What a call keeps in registers is never more than what the bucket holds:
\* between a load and the store that follows it, handler() only adds.
RegisterInv ==
    /\ InFetch => size > 0
    /\ pc \in {"compare", "value"} => 0 < reg /\ reg <= token[tbf]
    /\ pc \in {"take", "store"} => 0 < n /\ n <= reg /\ reg <= token[tbf]
    /\ pc = "rstore" => 0 < size /\ 0 <= reg /\ reg <= token[tbf]

\* The tokens granted in the window and those still in the bucket come from
\* the start, the refills and the clients.
WindowInv ==
    win.b # NULL =>
        /\ Running => win.b \in live
        /\ win.start <= burst[win.b]
        /\ win.granted + token[win.b] <=
              win.start + csp[win.b] * win.ticks + win.returned

NotNegative == \A b \in Bufs : 0 <= token[b]

IInv ==
    /\ TypeOK
    /\ TableInv
    /\ LoadedInv
    /\ NotNegative
    /\ TokenBounds
    /\ RegisterInv
    /\ WindowInv

\* The job table and the heap stay consistent.
LEMMA TableStep ==
    ASSUME IInv, [Next]_vars
    PROVE  TableInv'
<1> USE DEF IInv, TypeOK, TableInv, Registered, Slots, Positions, Running, InCall, InFetch, NoUseAfterFree
<1>1. ASSUME NEW c \in CpsSet, NEW m \in BurstSet, mytbf_init(c, m)
      PROVE  TableInv'
  BY <1>1 DEF mytbf_init, params
<1>2. ASSUME NEW b \in Bufs, mytbf_destroy(b)
      PROVE  TableInv'
  BY <1>2 DEF mytbf_destroy, params, process
<1>3. ASSUME NEW b \in Bufs, OpenWindow(b)
      PROVE  TableInv'
  BY <1>3 DEF OpenWindow, params, process, locals
<1>4. ASSUME NEW b \in Bufs, NEW s \in Sizes, mytbf_fetchtoken(b, s)
      PROVE  TableInv'
  BY <1>4 DEF mytbf_fetchtoken, params, process
<1>5. ASSUME NEW b \in Bufs, NEW s \in Sizes, mytbf_returntoken(b, s)
      PROVE  TableInv'
  BY <1>5 DEF mytbf_returntoken, params, process
<1>6. CASE UNCHANGED vars
  BY <1>6 DEF vars
<1>7. CASE Exit
  BY <1>7 DEF Exit, params, process, locals
<1>8. CASE mod_load
  BY <1>8 DEF mod_load, params, locals
<1>9. CASE InitSlot
  <2>1. PICK b \in Bufs \ live :
           /\ live' = live \cup {b}
           /\ pos' = [pos EXCEPT ![b] = get_free_pos]
           /\ job' = [job EXCEPT ![get_free_pos] = b]
    BY <1>9 DEF InitSlot
  <2>2. /\ get_free_pos \in Positions
        /\ job[get_free_pos] = NULL
    BY <1>9, FreePosition DEF InitSlot, FreePositions
  <2>3. pc = "slot" /\ pc' = "idle" /\ UNCHANGED <<process, locals, faults>>
    BY <1>9 DEF InitSlot
  <2>4. \A i \in Slots' : job'[i] \in live' /\ pos'[job'[i]] = i
    <3> SUFFICES ASSUME NEW i \in Positions, job'[i] # NULL
                 PROVE  job'[i] \in live' /\ pos'[job'[i]] = i
      OBVIOUS
    <3>1. CASE i = get_free_pos
      BY <2>1, <2>2, <3>1
    <3>2. CASE i # get_free_pos
      <4>1. job'[i] = job[i] /\ job[i] \in live /\ pos[job[i]] = i
        BY <2>1, <2>3, <3>2
      <4>2. job[i] # b
        BY <4>1
      <4> QED  BY <2>1, <4>1, <4>2
    <3> QED  BY <3>1, <3>2
  <2>5. \A x \in live' : pos'[x] \in Positions /\ job'[pos'[x]] = x
    <3> SUFFICES ASSUME NEW x \in live'
                 PROVE  pos'[x] \in Positions /\ job'[pos'[x]] = x
      OBVIOUS
    <3>1. CASE x = b
      BY <2>1, <2>2, <3>1
    <3>2. CASE x # b
      <4>1. x \in live /\ pos'[x] = pos[x]
        BY <2>1, <3>2
      <4>2. pos[x] \in Positions /\ job[pos[x]] = x
        BY <2>3, <4>1
      <4>3. pos[x] # get_free_pos
        BY <2>2, <4>1, <4>2, ConstantsAssumption
      <4> QED  BY <2>1, <4>1, <4>2, <4>3
    <3> QED  BY <3>1, <3>2
  <2> QED  BY <2>3, <2>4, <2>5 DEF process, locals
<1>10. CASE InitFails
  BY <1>10 DEF InitFails, params, process, locals
<1>11. CASE FetchTest
  BY <1>11 DEF FetchTest, params, process
<1>24. CASE FetchCompare
  BY <1>24 DEF FetchCompare, Reload, params, process
<1>25. CASE FetchValue
  BY <1>25 DEF FetchValue, Reload, params, process
<1>12. CASE FetchPause
  BY <1>12 DEF FetchPause, params, process, locals
<1>13. CASE FetchLoad
  BY <1>13 DEF FetchLoad, Reload, params, process
<1>14. CASE FetchStore
  BY <1>14 DEF FetchStore, params, process, locals
<1>15. CASE ReturnStore
  BY <1>15 DEF ReturnStore, params, process, locals
<1>16. CASE ReturnCap
  BY <1>16 DEF ReturnCap, params, process, locals
<1>17. CASE DestroyFree
  BY <1>17 DEF DestroyFree, Free, params, process, locals
<1>18. CASE mod_unload
  BY <1>18 DEF mod_unload, params, locals
<1>19. CASE UnloadTimer
  BY <1>19 DEF UnloadTimer, params, locals
<1>20. CASE UnloadFree
  BY <1>20 DEF UnloadFree, Free, params, locals
<1>21. CASE ExitDone
  BY <1>21 DEF ExitDone, params, process, locals
<1>22. CASE TimerExpires
  BY <1>22 DEF TimerExpires, handler, KilledBySignal, Resume, RefillJobs, params, locals
<1>23. CASE UserSignal
  BY <1>23 DEF UserSignal, Resume, params, process, locals
<1> QED
  BY <1>1, <1>2, <1>3, <1>4, <1>5, <1>6, <1>7, <1>8, <1>9, <1>10, <1>11, <1>12,
     <1>13, <1>14, <1>15, <1>16, <1>17, <1>18, <1>19, <1>20, <1>21, <1>22, <1>23,
     <1>24, <1>25
     DEF Next, Client, Thread, Ended, InvalidSize

\* A bucket in use is fed by a timer and the handler.
LEMMA LoadedStep ==
    ASSUME IInv, [Next]_vars
    PROVE  LoadedInv'
<1> USE DEF IInv, TypeOK, LoadedInv, TableInv, Running, InCall, InFetch
<1>1. ASSUME NEW c \in CpsSet, NEW m \in BurstSet, mytbf_init(c, m)
      PROVE  LoadedInv'
  BY <1>1 DEF mytbf_init, params
<1>2. ASSUME NEW b \in Bufs, mytbf_destroy(b)
      PROVE  LoadedInv'
  BY <1>2 DEF mytbf_destroy, params, process
<1>3. ASSUME NEW b \in Bufs, OpenWindow(b)
      PROVE  LoadedInv'
  BY <1>3 DEF OpenWindow, params, process, locals
<1>4. ASSUME NEW b \in Bufs, NEW s \in Sizes, mytbf_fetchtoken(b, s)
      PROVE  LoadedInv'
  BY <1>4 DEF mytbf_fetchtoken, params, process
<1>5. ASSUME NEW b \in Bufs, NEW s \in Sizes, mytbf_returntoken(b, s)
      PROVE  LoadedInv'
  BY <1>5 DEF mytbf_returntoken, params, process
<1>6. CASE UNCHANGED vars
  BY <1>6 DEF vars
<1>7. CASE Exit
  BY <1>7 DEF Exit, params, process, locals
<1>8. CASE mod_load
  BY <1>8 DEF mod_load, params, locals
<1>9. CASE InitSlot
  BY <1>9 DEF InitSlot, process, locals
<1>10. CASE InitFails
  BY <1>10 DEF InitFails, params, process, locals
<1>11. CASE FetchTest
  BY <1>11 DEF FetchTest, params, process
<1>24. CASE FetchCompare
  BY <1>24 DEF FetchCompare, Reload, params, process
<1>25. CASE FetchValue
  BY <1>25 DEF FetchValue, Reload, params, process
<1>12. CASE FetchPause
  BY <1>12 DEF FetchPause, params, process, locals
<1>13. CASE FetchLoad
  BY <1>13 DEF FetchLoad, Reload, params, process
<1>14. CASE FetchStore
  BY <1>14 DEF FetchStore, params, process, locals
<1>15. CASE ReturnStore
  BY <1>15 DEF ReturnStore, params, process, locals
<1>16. CASE ReturnCap
  BY <1>16 DEF ReturnCap, params, process, locals
<1>17. CASE DestroyFree
  BY <1>17 DEF DestroyFree, Free, params, process, locals
<1>18. CASE mod_unload
  BY <1>18 DEF mod_unload, params, locals
<1>19. CASE UnloadTimer
  BY <1>19 DEF UnloadTimer, params, locals
<1>20. CASE UnloadFree
  BY <1>20 DEF UnloadFree, Free, params, locals
<1>21. CASE ExitDone
  BY <1>21 DEF ExitDone, params, process, locals
<1>22. CASE TimerExpires
  BY <1>22 DEF TimerExpires, handler, KilledBySignal, Resume, RefillJobs, params, locals
<1>23. CASE UserSignal
  BY <1>23 DEF UserSignal, Resume, params, process, locals
<1> QED
  BY <1>1, <1>2, <1>3, <1>4, <1>5, <1>6, <1>7, <1>8, <1>9, <1>10, <1>11, <1>12,
     <1>13, <1>14, <1>15, <1>16, <1>17, <1>18, <1>19, <1>20, <1>21, <1>22, <1>23,
     <1>24, <1>25
     DEF Next, Client, Thread, Ended, InvalidSize

\* No bucket goes below zero.
LEMMA NotNegativeStep ==
    ASSUME IInv, [Next]_vars
    PROVE  NotNegative'
<1> USE DEF IInv, TypeOK, NotNegative, RegisterInv, Lesser, InCall, InFetch
<1>1. ASSUME NEW c \in CpsSet, NEW m \in BurstSet, mytbf_init(c, m)
      PROVE  NotNegative'
  BY <1>1 DEF mytbf_init, params
<1>2. ASSUME NEW b \in Bufs, mytbf_destroy(b)
      PROVE  NotNegative'
  BY <1>2 DEF mytbf_destroy, params, process
<1>3. ASSUME NEW b \in Bufs, OpenWindow(b)
      PROVE  NotNegative'
  BY <1>3 DEF OpenWindow, params, process, locals
<1>4. ASSUME NEW b \in Bufs, NEW s \in Sizes, mytbf_fetchtoken(b, s)
      PROVE  NotNegative'
  BY <1>4 DEF mytbf_fetchtoken, params, process
<1>5. ASSUME NEW b \in Bufs, NEW s \in Sizes, mytbf_returntoken(b, s)
      PROVE  NotNegative'
  BY <1>5 DEF mytbf_returntoken, params, process
<1>6. CASE UNCHANGED vars
  BY <1>6 DEF vars
<1>7. CASE Exit
  BY <1>7 DEF Exit, params, process, locals
<1>8. CASE mod_load
  BY <1>8 DEF mod_load, params, locals
<1>9. CASE InitSlot
  BY <1>9 DEF InitSlot, process, locals
<1>10. CASE InitFails
  BY <1>10 DEF InitFails, params, process, locals
<1>11. CASE FetchTest
  BY <1>11 DEF FetchTest, params, process
<1>24. CASE FetchCompare
  BY <1>24 DEF FetchCompare, Reload, params, process
<1>25. CASE FetchValue
  BY <1>25 DEF FetchValue, Reload, params, process
<1>12. CASE FetchPause
  BY <1>12 DEF FetchPause, params, process, locals
<1>13. CASE FetchLoad
  BY <1>13 DEF FetchLoad, Reload, params, process
<1>14. CASE FetchStore
  BY <1>14 DEF FetchStore, params, process, locals
<1>15. CASE ReturnStore
  BY <1>15 DEF ReturnStore, params, process, locals
<1>16. CASE ReturnCap
  BY <1>16 DEF ReturnCap, params, process, locals
<1>17. CASE DestroyFree
  BY <1>17 DEF DestroyFree, Free, params, process, locals
<1>18. CASE mod_unload
  BY <1>18 DEF mod_unload, params, locals
<1>19. CASE UnloadTimer
  BY <1>19 DEF UnloadTimer, params, locals
<1>20. CASE UnloadFree
  BY <1>20 DEF UnloadFree, Free, params, locals
<1>21. CASE ExitDone
  BY <1>21 DEF ExitDone, params, process, locals
<1>22. CASE TimerExpires
  BY <1>22 DEF TimerExpires, handler, KilledBySignal, Resume, RefillJobs, Refill, params, locals
<1>23. CASE UserSignal
  BY <1>23 DEF UserSignal, Resume, params, process, locals
<1> QED
  BY <1>1, <1>2, <1>3, <1>4, <1>5, <1>6, <1>7, <1>8, <1>9, <1>10, <1>11, <1>12,
     <1>13, <1>14, <1>15, <1>16, <1>17, <1>18, <1>19, <1>20, <1>21, <1>22, <1>23,
     <1>24, <1>25
     DEF Next, Client, Thread, Ended, InvalidSize

\* Every bucket stays between zero and its burst.
LEMMA BoundsStep ==
    ASSUME IInv, [Next]_vars
    PROVE  TokenBounds'
<1> USE ConstantsAssumption DEF IInv, TypeOK, TokenBounds, NotNegative, TableInv, RegisterInv, Running, Lesser, InCall, InFetch
<1>1. ASSUME NEW c \in CpsSet, NEW m \in BurstSet, mytbf_init(c, m)
      PROVE  TokenBounds'
  BY <1>1 DEF mytbf_init, params
<1>2. ASSUME NEW b \in Bufs, mytbf_destroy(b)
      PROVE  TokenBounds'
  BY <1>2 DEF mytbf_destroy, params, process
<1>3. ASSUME NEW b \in Bufs, OpenWindow(b)
      PROVE  TokenBounds'
  BY <1>3 DEF OpenWindow, params, process, locals
<1>4. ASSUME NEW b \in Bufs, NEW s \in Sizes, mytbf_fetchtoken(b, s)
      PROVE  TokenBounds'
  BY <1>4 DEF mytbf_fetchtoken, params, process
<1>5. ASSUME NEW b \in Bufs, NEW s \in Sizes, mytbf_returntoken(b, s)
      PROVE  TokenBounds'
  BY <1>5 DEF mytbf_returntoken, params, process
<1>6. CASE UNCHANGED vars
  BY <1>6 DEF vars
<1>7. CASE Exit
  BY <1>7 DEF Exit, params, process, locals
<1>8. CASE mod_load
  BY <1>8 DEF mod_load, params, locals
<1>9. CASE InitSlot
  BY <1>9 DEF InitSlot, process, locals
<1>10. CASE InitFails
  BY <1>10 DEF InitFails, params, process, locals
<1>11. CASE FetchTest
  BY <1>11 DEF FetchTest, params, process
<1>24. CASE FetchCompare
  BY <1>24 DEF FetchCompare, Reload, params, process
<1>25. CASE FetchValue
  BY <1>25 DEF FetchValue, Reload, params, process
<1>12. CASE FetchPause
  BY <1>12 DEF FetchPause, params, process, locals
<1>13. CASE FetchLoad
  BY <1>13 DEF FetchLoad, Reload, params, process
<1>14. CASE FetchStore
  BY <1>14 DEF FetchStore, params, process, locals
<1>15. CASE ReturnStore
  BY <1>15 DEF ReturnStore, params, process, locals
<1>16. CASE ReturnCap
  BY <1>16 DEF ReturnCap, params, process, locals
<1>17. CASE DestroyFree
  BY <1>17 DEF DestroyFree, Free, params, process, locals
<1>18. CASE mod_unload
  BY <1>18 DEF mod_unload, params, locals
<1>19. CASE UnloadTimer
  BY <1>19 DEF UnloadTimer, params, locals
<1>20. CASE UnloadFree
  BY <1>20 DEF UnloadFree, Free, params, locals
<1>21. CASE ExitDone
  BY <1>21 DEF ExitDone, params, process, locals
<1>22. CASE TimerExpires
  BY <1>22 DEF TimerExpires, handler, KilledBySignal, Resume, RefillJobs, Refill, params, locals
<1>23. CASE UserSignal
  BY <1>23 DEF UserSignal, Resume, params, process, locals
<1> QED
  BY <1>1, <1>2, <1>3, <1>4, <1>5, <1>6, <1>7, <1>8, <1>9, <1>10, <1>11, <1>12,
     <1>13, <1>14, <1>15, <1>16, <1>17, <1>18, <1>19, <1>20, <1>21, <1>22, <1>23,
     <1>24, <1>25
     DEF Next, Client, Thread, Ended, InvalidSize

\* What a call holds in registers stays covered by its bucket.
LEMMA RegisterStep ==
    ASSUME IInv, [Next]_vars
    PROVE  RegisterInv'
<1> USE ConstantsAssumption DEF IInv, TypeOK, TokenBounds, TableInv, RegisterInv, Running, Lesser, InCall, InFetch
<1>1. ASSUME NEW c \in CpsSet, NEW m \in BurstSet, mytbf_init(c, m)
      PROVE  RegisterInv'
  BY <1>1 DEF mytbf_init, params
<1>2. ASSUME NEW b \in Bufs, mytbf_destroy(b)
      PROVE  RegisterInv'
  BY <1>2 DEF mytbf_destroy, params, process
<1>3. ASSUME NEW b \in Bufs, OpenWindow(b)
      PROVE  RegisterInv'
  BY <1>3 DEF OpenWindow, params, process, locals
<1>4. ASSUME NEW b \in Bufs, NEW s \in Sizes, mytbf_fetchtoken(b, s)
      PROVE  RegisterInv'
  BY <1>4 DEF mytbf_fetchtoken, params, process
<1>5. ASSUME NEW b \in Bufs, NEW s \in Sizes, mytbf_returntoken(b, s)
      PROVE  RegisterInv'
  BY <1>5 DEF mytbf_returntoken, params, process
<1>6. CASE UNCHANGED vars
  BY <1>6 DEF vars
<1>7. CASE Exit
  BY <1>7 DEF Exit, params, process, locals
<1>8. CASE mod_load
  BY <1>8 DEF mod_load, params, locals
<1>9. CASE InitSlot
  BY <1>9 DEF InitSlot, process, locals
<1>10. CASE InitFails
  BY <1>10 DEF InitFails, params, process, locals
<1>11. CASE FetchTest
  BY <1>11 DEF FetchTest, params, process
<1>24. CASE FetchCompare
  BY <1>24 DEF FetchCompare, Reload, params, process
<1>25. CASE FetchValue
  BY <1>25 DEF FetchValue, Reload, params, process
<1>12. CASE FetchPause
  BY <1>12 DEF FetchPause, params, process, locals
<1>13. CASE FetchLoad
  BY <1>13 DEF FetchLoad, Reload, params, process
<1>14. CASE FetchStore
  BY <1>14 DEF FetchStore, params, process, locals
<1>15. CASE ReturnStore
  BY <1>15 DEF ReturnStore, params, process, locals
<1>16. CASE ReturnCap
  BY <1>16 DEF ReturnCap, params, process, locals
<1>17. CASE DestroyFree
  BY <1>17 DEF DestroyFree, Free, params, process, locals
<1>18. CASE mod_unload
  BY <1>18 DEF mod_unload, params, locals
<1>19. CASE UnloadTimer
  BY <1>19 DEF UnloadTimer, params, locals
<1>20. CASE UnloadFree
  BY <1>20 DEF UnloadFree, Free, params, locals
<1>21. CASE ExitDone
  BY <1>21 DEF ExitDone, params, process, locals
<1>22. CASE TimerExpires
  BY <1>22 DEF TimerExpires, handler, KilledBySignal, Resume, RefillJobs, Refill, params, locals
<1>23. CASE UserSignal
  BY <1>23 DEF UserSignal, Resume, params, process, locals
<1> QED
  BY <1>1, <1>2, <1>3, <1>4, <1>5, <1>6, <1>7, <1>8, <1>9, <1>10, <1>11, <1>12,
     <1>13, <1>14, <1>15, <1>16, <1>17, <1>18, <1>19, <1>20, <1>21, <1>22, <1>23,
     <1>24, <1>25
     DEF Next, Client, Thread, Ended, InvalidSize

\* The account of the window stays balanced.
LEMMA WindowStep ==
    ASSUME IInv, [Next]_vars
    PROVE  WindowInv'
<1> USE ConstantsAssumption DEF IInv, TypeOK, WindowInv, TokenBounds, TableInv, RegisterInv, Running, Lesser, InCall, InFetch, Windows, NoWindow, Watched
<1>1. ASSUME NEW c \in CpsSet, NEW m \in BurstSet, mytbf_init(c, m)
      PROVE  WindowInv'
  BY <1>1 DEF mytbf_init, params
<1>2. ASSUME NEW b \in Bufs, mytbf_destroy(b)
      PROVE  WindowInv'
  BY <1>2 DEF mytbf_destroy, params, process
<1>3. ASSUME NEW b \in Bufs, OpenWindow(b)
      PROVE  WindowInv'
  BY <1>3 DEF OpenWindow, params, process, locals
<1>4. ASSUME NEW b \in Bufs, NEW s \in Sizes, mytbf_fetchtoken(b, s)
      PROVE  WindowInv'
  BY <1>4 DEF mytbf_fetchtoken, params, process
<1>5. ASSUME NEW b \in Bufs, NEW s \in Sizes, mytbf_returntoken(b, s)
      PROVE  WindowInv'
  BY <1>5 DEF mytbf_returntoken, params, process
<1>6. CASE UNCHANGED vars
  BY <1>6 DEF vars
<1>7. CASE Exit
  BY <1>7 DEF Exit, params, process, locals
<1>8. CASE mod_load
  BY <1>8 DEF mod_load, params, locals
<1>9. CASE InitSlot
  BY <1>9 DEF InitSlot, process, locals
<1>10. CASE InitFails
  BY <1>10 DEF InitFails, params, process, locals
<1>11. CASE FetchTest
  BY <1>11 DEF FetchTest, params, process
<1>24. CASE FetchCompare
  BY <1>24 DEF FetchCompare, Reload, params, process
<1>25. CASE FetchValue
  BY <1>25 DEF FetchValue, Reload, params, process
<1>12. CASE FetchPause
  BY <1>12 DEF FetchPause, params, process, locals
<1>13. CASE FetchLoad
  BY <1>13 DEF FetchLoad, Reload, params, process
<1>14. CASE FetchStore
  BY <1>14 DEF FetchStore, params, process, locals
<1>15. CASE ReturnStore
  BY <1>15 DEF ReturnStore, params, process, locals
<1>16. CASE ReturnCap
  BY <1>16 DEF ReturnCap, params, process, locals
<1>17. CASE DestroyFree
  BY <1>17 DEF DestroyFree, Free, params, process, locals
<1>18. CASE mod_unload
  BY <1>18 DEF mod_unload, params, locals
<1>19. CASE UnloadTimer
  BY <1>19 DEF UnloadTimer, params, locals
<1>20. CASE UnloadFree
  BY <1>20 DEF UnloadFree, Free, params, locals
<1>21. CASE ExitDone
  BY <1>21 DEF ExitDone, params, process, locals
<1>22. CASE TimerExpires
  <2>1. UNCHANGED <<live, params, locals>> /\ (Running' => Running)
    BY <1>22 DEF TimerExpires, handler, KilledBySignal, Resume, locals
  <2>2. CASE RefillJobs
    <3> SUFFICES ASSUME win'.b # NULL PROVE WindowInv'
      OBVIOUS
    <3>1. /\ win.b \in Bufs /\ win'.b = win.b /\ win'.start = win.start
          /\ win'.granted = win.granted /\ win'.returned = win.returned
      BY <2>2 DEF RefillJobs
    <3>2. \/ win'.ticks = win.ticks + 1 /\ token'[win.b] <= token[win.b] + csp[win.b]
          \/ win'.ticks = win.ticks /\ token'[win.b] = token[win.b]
      BY <2>2, <3>1 DEF RefillJobs, Refill
    <3>3. csp[win.b] * (win.ticks + 1) = csp[win.b] * win.ticks + csp[win.b]
      BY <3>1
    <3>4. /\ win.granted + token[win.b] <= win.start + csp[win.b] * win.ticks + win.returned
          /\ csp' = csp /\ burst' = burst /\ live' = live
      BY <2>1, <3>1 DEF params
    <3>5. /\ win.granted \in Int /\ win.start \in Int /\ win.returned \in Int
          /\ token[win.b] \in Int /\ token'[win.b] \in Int /\ csp[win.b] \in Int
          /\ csp[win.b] * win.ticks \in Int
      BY <2>2, <3>1, RefillJobsType
    <3>6. win'.granted + token'[win'.b] <= win'.start + csp'[win'.b] * win'.ticks + win'.returned
      <4>1. CASE win'.ticks = win.ticks
        BY <3>1, <3>2, <3>4, <3>5, <4>1
      <4>2. CASE win'.ticks = win.ticks + 1 /\ token'[win.b] <= token[win.b] + csp[win.b]
        <5>1. csp'[win'.b] * win'.ticks = csp[win.b] * win.ticks + csp[win.b]
          BY <3>1, <3>3, <3>4, <4>2
        <5> QED  BY <3>1, <3>4, <3>5, <4>2, <5>1
      <4> QED  BY <3>2, <4>1, <4>2
    <3> QED  BY <2>1, <3>1, <3>4, <3>6
  <2>3. CASE UNCHANGED <<token, win>>
    BY <2>1, <2>3 DEF params
  <2> QED  BY <1>22, <2>2, <2>3 DEF TimerExpires, handler, KilledBySignal
<1>23. CASE UserSignal
  BY <1>23 DEF UserSignal, Resume, params, process, locals
<1> QED
  BY <1>1, <1>2, <1>3, <1>4, <1>5, <1>6, <1>7, <1>8, <1>9, <1>10, <1>11, <1>12,
     <1>13, <1>14, <1>15, <1>16, <1>17, <1>18, <1>19, <1>20, <1>21, <1>22, <1>23,
     <1>24, <1>25
     DEF Next, Client, Thread, Ended, InvalidSize

-----------------------------------------------------------------------------
\* What the invariant gives: the window's account, with the bucket's content
\* and its start bounded, is the rate limit; the rest is read off.
LEMMA InvariantImplies ==
    ASSUME IInv
    PROVE  Registered /\ NoUseAfterFree /\ TokenBounds /\ RateBound /\ WaitIsTicked
<1>1. Registered /\ NoUseAfterFree /\ TokenBounds
  BY DEF IInv, TableInv
<1>2. RateBound
  <2> SUFFICES ASSUME win.b # NULL
               PROVE  win.granted <= burst[win.b] + csp[win.b] * win.ticks + win.returned
    BY DEF RateBound
  <2>1. win.b \in Bufs /\ win.granted \in Int /\ win.start \in Int /\ win.returned \in Int
    BY DEF IInv, TypeOK, Windows
  <2>2. csp[win.b] * win.ticks \in Int /\ burst[win.b] \in Int /\ token[win.b] \in Int
    BY <2>1 DEF IInv, TypeOK, Windows
  <2>3. 0 <= token[win.b] /\ win.start <= burst[win.b]
    BY <2>1 DEF IInv, NotNegative, WindowInv
  <2>4. win.granted + token[win.b] <= win.start + csp[win.b] * win.ticks + win.returned
    BY DEF IInv, WindowInv
  <2> QED  BY <2>1, <2>2, <2>3, <2>4
<1>3. WaitIsTicked
  <2> SUFFICES ASSUME InFetch
               PROVE  timer = "armed" /\ sigact = "handler" /\ tbf \in {job[i] : i \in Slots}
    BY DEF WaitIsTicked
  <2>1. Running /\ tbf \in live /\ pc # "free"
    BY DEF IInv, TableInv, InFetch, InCall, Running
  <2>2. pos[tbf] \in Positions /\ job[pos[tbf]] = tbf
    BY <2>1 DEF IInv, TableInv, Registered
  <2>3. tbf # NULL
    BY <2>1, ConstantsAssumption DEF IInv, TypeOK
  <2> QED  BY <2>1, <2>2, <2>3 DEF IInv, LoadedInv, Slots
<1> QED  BY <1>1, <1>2, <1>3

\* The library before its first mytbf_init(): no bucket, no timer.
LEMMA InvariantInit == Init => IInv
<1> SUFFICES ASSUME Init PROVE IInv
  OBVIOUS
<1>1. TypeOK
  <2>1. win \in Windows
    BY DEF Init, Windows, NoWindow
  <2>2. faults \subseteq {"double_free", "use_after_free"} /\ live \subseteq Bufs
    BY DEF Init
  <2> QED  BY <2>1, <2>2, ConstantsAssumption DEF Init, TypeOK, PCs, InCall, InFetch
<1>2. TableInv
  BY DEF Init, TableInv, Registered, NoUseAfterFree, InCall, InFetch, Slots
<1>3. LoadedInv /\ NotNegative /\ TokenBounds /\ RegisterInv /\ WindowInv
  BY DEF Init, LoadedInv, NotNegative, TokenBounds, RegisterInv, WindowInv, InFetch, NoWindow
<1> QED  BY <1>1, <1>2, <1>3 DEF IInv

\* The invariant is inductive.
LEMMA InvariantStep ==
    ASSUME IInv, [Next]_vars
    PROVE  IInv'
<1>1. TypeOK'
  BY TypeInductive DEF IInv
<1> QED
  BY <1>1, TableStep, LoadedStep, NotNegativeStep, BoundsStep, RegisterStep, WindowStep DEF IInv

\* The safety of the library in every state: the table and the heap agree, the
\* handler touches no freed bucket, tokens stay between zero and burst, the
\* rate limit holds over every window, and whoever waits is woken by a timer.
THEOREM Safety ==
    Spec => [](Registered /\ NoUseAfterFree /\ TokenBounds /\ RateBound /\ WaitIsTicked)
<1>1. Init => IInv
  BY InvariantInit
<1>2. IInv /\ [Next]_vars => IInv'
  BY InvariantStep
<1>3. IInv => Registered /\ NoUseAfterFree /\ TokenBounds /\ RateBound /\ WaitIsTicked
  BY InvariantImplies
<1> QED  BY <1>1, <1>2, <1>3, PTL DEF Spec

\* Only TimerExpires kills the process, and only where the disposition is the
\* original one while the timer is armed, which LoadedInv excludes before exit.
LEMMA KillStep ==
    ASSUME IInv, Next, pc' = "killed", pc' # pc
    PROVE  ~Running
<1>1. CASE TimerExpires
  BY <1>1 DEF TimerExpires, handler, KilledBySignal, Resume, IInv, LoadedInv, Running
<1>2. CASE UserSignal
  BY <1>2 DEF UserSignal, Resume
<1>3. CASE Client
  BY <1>3 DEF Client, mytbf_init, mytbf_destroy, OpenWindow, mytbf_fetchtoken,
     mytbf_returntoken, InvalidSize, Exit, vars
<1>4. CASE Thread
  BY <1>4 DEF Thread, mod_load, InitSlot, InitFails, FetchTest, FetchPause, FetchCompare,
     FetchValue, FetchLoad, FetchStore, ReturnStore, ReturnCap, DestroyFree, mod_unload, UnloadTimer,
     UnloadFree, ExitDone
<1>5. CASE Ended
  BY <1>5 DEF Ended, vars
<1> QED  BY <1>1, <1>2, <1>3, <1>4, <1>5 DEF Next

\* However often the library is loaded and whatever fails, its timer never meets
\* the original disposition of SIGALRM before exit() restored it.
THEOREM KilledOnlyAtExit == Spec => KilledOnlyInExit
<1>1. Init => IInv
  BY InvariantInit
<1>2. IInv /\ [Next]_vars => IInv'
  BY InvariantStep
<1>3. IInv /\ [Next]_vars => [pc' = "killed" => ~Running]_pc
  BY KillStep DEF vars
<1> QED  BY <1>1, <1>2, <1>3, PTL DEF Spec, KilledOnlyInExit

-----------------------------------------------------------------------------
(***************************************************************************)
(* The programs of the repository call mytbf_init() once.  Then, and only  *)
(* then, the library gives back what it took: the disposition it saved is  *)
(* the original one and exit() frees every bucket once.                    *)
(***************************************************************************)
OneLoadInv ==
    /\ atexits <= 1
    /\ pc \in {"idle", "load"} /\ atexits = 0 => old_sa = "orig"
    /\ pc = "idle" /\ atexits = 0 => sigact = "orig"
    /\ atexits = 1 => old_sa = "orig"
    /\ atexits = 1 => \A i \in Slots : job[i] \in live
    /\ pc = "load" => atexits = 0
    /\ Running /\ live # {} => atexits = 1
    /\ pc \notin {"idle", "load", "unload", "dead", "killed"} => atexits = 1
    /\ FreedOnce

\* With one load the exit handler runs once, on an intact table.
LEMMA OneLoadStep ==
    ASSUME IInv, OneLoadInv, MaxLoads = 1, [Next]_vars
    PROVE  OneLoadInv'
<1> USE ConstantsAssumption DEF IInv, TypeOK, TableInv, Registered, OneLoadInv, FreedOnce, PCs, Slots, Positions, Running, InCall, InFetch
<1>1. ASSUME NEW c \in CpsSet, NEW m \in BurstSet, mytbf_init(c, m)
      PROVE  OneLoadInv'
  BY <1>1 DEF mytbf_init, params
<1>2. ASSUME NEW b \in Bufs, mytbf_destroy(b)
      PROVE  OneLoadInv'
  BY <1>2 DEF mytbf_destroy, params, process
<1>3. ASSUME NEW b \in Bufs, OpenWindow(b)
      PROVE  OneLoadInv'
  BY <1>3 DEF OpenWindow, params, process, locals
<1>4. ASSUME NEW b \in Bufs, NEW s \in Sizes, mytbf_fetchtoken(b, s)
      PROVE  OneLoadInv'
  BY <1>4 DEF mytbf_fetchtoken, params, process
<1>5. ASSUME NEW b \in Bufs, NEW s \in Sizes, mytbf_returntoken(b, s)
      PROVE  OneLoadInv'
  BY <1>5 DEF mytbf_returntoken, params, process
<1>6. CASE UNCHANGED vars
  BY <1>6 DEF vars
<1>7. CASE Exit
  BY <1>7 DEF Exit, params, process, locals
<1>8. CASE mod_load
  BY <1>8 DEF mod_load, params, locals
<1>9. CASE InitSlot
  BY <1>9 DEF InitSlot, process, locals
<1>10. CASE InitFails
  BY <1>10 DEF InitFails, params, process, locals
<1>11. CASE FetchTest
  BY <1>11 DEF FetchTest, params, process
<1>24. CASE FetchCompare
  BY <1>24 DEF FetchCompare, Reload, params, process
<1>25. CASE FetchValue
  BY <1>25 DEF FetchValue, Reload, params, process
<1>12. CASE FetchPause
  BY <1>12 DEF FetchPause, params, process, locals
<1>13. CASE FetchLoad
  BY <1>13 DEF FetchLoad, Reload, params, process
<1>14. CASE FetchStore
  BY <1>14 DEF FetchStore, params, process, locals
<1>15. CASE ReturnStore
  BY <1>15 DEF ReturnStore, params, process, locals
<1>16. CASE ReturnCap
  BY <1>16 DEF ReturnCap, params, process, locals
<1>17. CASE DestroyFree
  BY <1>17 DEF DestroyFree, Free, params, process, locals
<1>18. CASE mod_unload
  BY <1>18 DEF mod_unload, params, locals
<1>19. CASE UnloadTimer
  BY <1>19 DEF UnloadTimer, params, locals
<1>20. CASE UnloadFree
  BY <1>20 DEF UnloadFree, Free, params, locals
<1>21. CASE ExitDone
  BY <1>21 DEF ExitDone, params, process, locals
<1>22. CASE TimerExpires
  BY <1>22 DEF TimerExpires, handler, KilledBySignal, Resume, RefillJobs, params, locals
<1>23. CASE UserSignal
  BY <1>23 DEF UserSignal, Resume, params, process, locals
<1> QED
  BY <1>1, <1>2, <1>3, <1>4, <1>5, <1>6, <1>7, <1>8, <1>9, <1>10, <1>11, <1>12,
     <1>13, <1>14, <1>15, <1>16, <1>17, <1>18, <1>19, <1>20, <1>21, <1>22, <1>23,
     <1>24, <1>25
     DEF Next, Client, Thread, Ended, InvalidSize

\* With one mytbf_init() in the life of the process, old_sa keeps the original
\* disposition of SIGALRM and exit() frees no bucket twice.
THEOREM OneLoad ==
    ASSUME MaxLoads = 1
    PROVE  Spec => [](OldSaIsOriginal /\ FreedOnce)
<1>1. Init => IInv /\ OneLoadInv
  BY InvariantInit DEF Init, OneLoadInv, FreedOnce, Slots
<1>2. IInv /\ OneLoadInv /\ [Next]_vars => IInv' /\ OneLoadInv'
  <2> SUFFICES ASSUME IInv, OneLoadInv, [Next]_vars PROVE IInv' /\ OneLoadInv'
    OBVIOUS
  <2> QED  BY InvariantStep, OneLoadStep
<1>3. IInv /\ OneLoadInv => OldSaIsOriginal /\ FreedOnce
  BY DEF IInv, TypeOK, OneLoadInv, OldSaIsOriginal
<1> QED  BY <1>1, <1>2, <1>3, PTL DEF Spec

-----------------------------------------------------------------------------
(* The older libraries: their inductive invariant.                         *)

\* The library is loaded once: before, there is no bucket and no timer; after,
\* and until exit, its handler is installed.
OlderLoadInv ==
    /\ atexits <= 1
    /\ old_sa = "orig"
    /\ ~inited =>
          /\ atexits = 0 /\ live = {}
          /\ \A i \in Positions : job[i] = NULL
          /\ pc \in {"idle", "load", "unload", "dead", "killed"}
    /\ ~inited /\ pc = "idle" => sigact = "orig" /\ timer = "off"
    /\ pc = "load" => ~inited /\ sigact = "handler"
    /\ inited /\ Running => atexits = 1 /\ sigact = "handler"
    /\ Running /\ timer = "armed" => sigact = "handler"
    /\ timer = "armed" => Running \/ atexits = 1
    /\ pc = "unload3" => timer = "off"
    /\ InCall => tbf \in live

\* Until a destroy clears an entry that is not its bucket's: an entry is an
\* allocated bucket, no two are the same, and only a bucket that is being freed
\* has none.
OlderTableInv ==
    ~misplaced =>
        /\ Running \/ atexits = 1 => \A i \in Slots : job[i] \in live
        /\ \A i, j \in Slots : job[i] = job[j] => i = j
        /\ Running => \A b \in live : (\E i \in Slots : job[i] = b) \/ (pc = "free" /\ b = tbf)
        /\ pc = "free" => \A i \in Slots : job[i] # tbf
        /\ NoUseAfterFree
        /\ FreedOnce

\* What a bucket holds, and what a call keeps of it in its registers: a block
\* that stayed in the table is refilled for each of its entries, but never above
\* its burst, nor does a stale entry take tokens away.
OlderTokensInv ==
    /\ NotNegative
    /\ TokenBounds
    /\ InFetch => size >= 0
    /\ pc \in {"compare", "value"} => 0 <= reg /\ reg <= token[tbf]
    /\ pc \in {"take", "store"} => 0 <= n /\ n <= reg /\ reg <= token[tbf]
    /\ pc = "rstore" => 0 <= size /\ 0 <= reg /\ reg <= token[tbf]

OlderInv == TypeOK /\ OlderLoadInv /\ OlderTableInv /\ OlderTokensInv

-----------------------------------------------------------------------------
(* Types.                                                                   *)

\* How many entries a bucket has is a number.
LEMMA EntriesType ==
    ASSUME NEW b
    PROVE  Entries(b) \in Nat
<1>1. IsFiniteSet(Positions)
  BY ConstantsAssumption, FS_Interval DEF Positions
<1>2. IsFiniteSet({i \in Slots : job[i] = b})
  BY <1>1, FS_Subset DEF Slots
<1> QED  BY <1>2, FS_CardinalityType DEF Entries

\* The handlers' loop, which takes an entry at a time, keeps the types.
LEMMA OlderRefillsType ==
    ASSUME TypeOK, OlderRefills
    PROVE  /\ token' \in [Bufs -> Int]
           /\ faults' \subseteq {"double_free", "use_after_free"}
           /\ win' \in Windows
<1>1. token' \in [Bufs -> Int]
  <2>1. \A b \in Bufs : Lesser(token[b] + Entries(b) * csp[b], burst[b]) \in Int
    <3> SUFFICES ASSUME NEW b \in Bufs
                 PROVE  Lesser(token[b] + Entries(b) * csp[b], burst[b]) \in Int
      OBVIOUS
    <3>1. Entries(b) \in Int /\ csp[b] \in Int /\ token[b] \in Int /\ burst[b] \in Int
      BY EntriesType DEF TypeOK
    <3>2. Entries(b) * csp[b] \in Int
      BY <3>1
    <3> QED  BY <3>1, <3>2 DEF Lesser
  <2> QED  BY <2>1 DEF OlderRefills, TypeOK
<1>2. faults' \subseteq {"double_free", "use_after_free"}
  BY DEF OlderRefills, TypeOK
<1>3. [win EXCEPT !.ticks = @ + 1] \in Windows
  BY DEF Windows, TypeOK
<1>4. win' \in Windows
  BY <1>3, WatchedType DEF OlderRefills, TypeOK
<1> QED  BY <1>1, <1>2, <1>4

\* Every step of an older library keeps the types.
LEMMA OlderTypeStep ==
    ASSUME TypeOK, older, [AllNext]_allVars
    PROVE  TypeOK'
<1> USE ConstantsAssumption DEF TypeOK, PCs, InCall, InFetch
<1>1. ASSUME NEW c \in CpsSet, NEW m \in BurstSet, older_init(c, m)
      PROVE  TypeOK'
  <2>1. c \in Nat /\ m \in Nat
    OBVIOUS
  <2>2. pc' \in {"slot", "load"} /\ sigact' \in {"orig", "handler"} /\ old_sa' \in {"orig", "handler"}
    BY <1>1 DEF older_init
  <2> QED  BY <1>1, <2>1, <2>2 DEF older_init, olderVars, params
<1>2. CASE module_load
  BY <1>2 DEF module_load, params, locals
<1>3. CASE OlderSlot
  <2>1. get_free_pos \in Nat /\ get_free_pos \in Positions
    BY <1>3, FreePosition DEF OlderSlot, FreePositions, Positions
  <2>2. PICK b \in Bufs \ live, g \in Garbage :
           /\ live' = live \cup {b}
           /\ token' = [token EXCEPT ![b] = 0]
           /\ csp' = [csp EXCEPT ![b] = cps]
           /\ burst' = [burst EXCEPT ![b] = burstArg]
           /\ pos' = [pos EXCEPT ![b] = g]
           /\ job' = [job EXCEPT ![get_free_pos] = b]
    BY <1>3 DEF OlderSlot
  <2>3. csp' \in [Bufs -> Nat] /\ burst' \in [Bufs -> Nat] /\ live' \subseteq Bufs
    BY <2>2
  <2>4. g \in Nat
    BY GarbageAssumption
  <2>5. token' \in [Bufs -> Int] /\ pos' \in [Bufs -> Nat]
    BY <2>2, <2>4
  <2>6. job' \in [Positions -> Bufs \cup {NULL}]
    BY <2>2
  <2>7. pc' = "idle" /\ UNCHANGED <<process, locals, faults, win>>
    BY <1>3 DEF OlderSlot
  <2> QED  BY <2>3, <2>5, <2>6, <2>7 DEF process, locals
<1>4. ASSUME NEW b \in Bufs, NEW s \in Sizes, older_fetchtoken(b, s)
      PROVE  TypeOK'
  BY <1>4 DEF older_fetchtoken, OlderCall, olderVars, params, process
<1>5. ASSUME NEW b \in Bufs, NEW s \in Sizes, older_returntoken(b, s)
      PROVE  TypeOK'
  BY <1>5 DEF older_returntoken, OlderCall, olderVars, params, process
<1>6. ASSUME NEW b \in Bufs, older_destroy(b)
      PROVE  TypeOK'
  <2>1. job' \in [Positions -> Bufs \cup {NULL}]
    BY <1>6 DEF older_destroy
  <2> QED  BY <1>6, <2>1 DEF older_destroy, params, process
<1>7. CASE OlderTimerOff
  BY <1>7 DEF OlderTimerOff, params, locals
<1>8. CASE OlderTimer
  <2>1. CASE sigact = "handler" /\ OlderRefills /\ Resume /\ UNCHANGED timer
    BY <1>8, <2>1, OlderRefillsType DEF OlderTimer, Resume, params, locals
  <2>2. CASE KilledBySignal
    BY <1>8, <2>2 DEF OlderTimer, KilledBySignal, params, locals
  <2> QED  BY <1>8, <2>1, <2>2 DEF OlderTimer
<1>9. CASE OlderUserSignal
  <2>1. CASE OlderRefills /\ timer' = "armed"
    BY <1>9, <2>1, OlderRefillsType DEF OlderUserSignal, Resume, params, locals, Running
  <2>2. CASE UNCHANGED <<token, faults, win, timer>>
    BY <1>9, <2>2 DEF OlderUserSignal, Resume, params, locals, Running
  <2> QED  BY <1>9, <2>1, <2>2 DEF OlderUserSignal
<1>10. CASE UNCHANGED allVars
  BY <1>10 DEF allVars, vars
<1>11. CASE OlderMin
  BY <1>11 DEF OlderMin, Reload, Lesser, params, process
<1> QED
  BY <1>1, <1>2, <1>3, <1>4, <1>5, <1>6, <1>7, <1>8, <1>9, <1>10, <1>11, TypeInductive
     DEF AllNext, OlderClient, OlderThread, Same, older, Next, Client, Thread

-----------------------------------------------------------------------------
(* The invariant is inductive.                                              *)

\* The library is loaded once, and its handler stays until exit.
LEMMA OlderLoadStep ==
    ASSUME OlderInv, older, [AllNext]_allVars
    PROVE  OlderLoadInv'
<1> USE ConstantsAssumption DEF OlderInv, OlderLoadInv, TypeOK, PCs, Slots, Running, InCall, InFetch
<1>1. ASSUME NEW c \in CpsSet, NEW m \in BurstSet, older_init(c, m)
      PROVE  OlderLoadInv'
  BY <1>1 DEF older_init, olderVars, params
<1>2. ASSUME NEW b \in Bufs, older_destroy(b)
      PROVE  OlderLoadInv'
  BY <1>2 DEF older_destroy, params, process
<1>3. ASSUME NEW b \in Bufs, OpenWindow(b), UNCHANGED olderVars
      PROVE  OlderLoadInv'
  BY <1>3 DEF OpenWindow, olderVars, params, process, locals
<1>4. ASSUME NEW b \in Bufs, NEW s \in Sizes, older_fetchtoken(b, s)
      PROVE  OlderLoadInv'
  BY <1>4 DEF older_fetchtoken, OlderCall, olderVars, params, process
<1>5. ASSUME NEW b \in Bufs, NEW s \in Sizes, older_returntoken(b, s)
      PROVE  OlderLoadInv'
  BY <1>5 DEF older_returntoken, OlderCall, olderVars, params, process
<1>6. CASE Same(Exit)
  BY <1>6 DEF Same, olderVars, Exit, params, process, locals
<1>7. CASE module_load
  BY <1>7 DEF olderVars, module_load, Inited, params, locals
<1>8. CASE OlderSlot
  BY <1>8 DEF olderVars, OlderSlot, process, locals
<1>9. CASE Same(InitFails)
  BY <1>9 DEF Same, olderVars, InitFails, params, process, locals
<1>10. CASE Same(FetchTest)
  BY <1>10 DEF Same, olderVars, FetchTest, params, process
<1>24. CASE OlderMin
  BY <1>24 DEF OlderMin, olderVars, Reload, Lesser, params, process
<1>11. CASE Same(FetchPause)
  BY <1>11 DEF Same, olderVars, FetchPause, params, process, locals
<1>12. CASE Same(FetchLoad)
  BY <1>12 DEF Same, olderVars, FetchLoad, Reload, params, process
<1>13. CASE Same(FetchStore)
  BY <1>13 DEF Same, olderVars, FetchStore, params, process, locals
<1>14. CASE Same(ReturnStore)
  BY <1>14 DEF Same, olderVars, ReturnStore, params, process, locals
<1>15. CASE Same(ReturnCap)
  BY <1>15 DEF Same, olderVars, ReturnCap, params, process, locals
<1>16. CASE Same(DestroyFree)
  BY <1>16 DEF Same, olderVars, DestroyFree, Free, params, process, locals
<1>17. CASE Same(mod_unload)
  BY <1>17 DEF Same, olderVars, mod_unload, params, locals
<1>18. CASE OlderTimerOff
  BY <1>18 DEF olderVars, OlderTimerOff, params, locals
<1>19. CASE Same(UnloadFree)
  BY <1>19 DEF Same, olderVars, UnloadFree, Free, params, locals
<1>20. CASE Same(ExitDone)
  BY <1>20 DEF Same, olderVars, ExitDone, params, process, locals
<1>21. CASE OlderTimer
  BY <1>21 DEF olderVars, OlderTimer, KilledBySignal, Resume, OlderRefills, params, locals
<1>22. CASE OlderUserSignal
  BY <1>22 DEF olderVars, OlderUserSignal, Resume, OlderRefills, params, locals
<1>23. CASE UNCHANGED allVars
  BY <1>23 DEF olderVars, allVars, vars, olderVars
<1> QED
  BY <1>1, <1>2, <1>3, <1>4, <1>5, <1>6, <1>7, <1>8, <1>9, <1>10, <1>11,
     <1>12, <1>13, <1>14, <1>15, <1>16, <1>17, <1>18, <1>19, <1>20, <1>21, <1>22, <1>23, <1>24
     DEF AllNext, OlderClient, OlderThread, Same, older, Ended, allVars

\* The table and the heap agree until a destroy misses its entry.
LEMMA OlderTableStep ==
    ASSUME OlderInv, older, [AllNext]_allVars
    PROVE  OlderTableInv'
<1> USE ConstantsAssumption DEF OlderInv, OlderLoadInv, OlderTableInv, TypeOK, PCs, Slots, Running, InCall, InFetch, NoUseAfterFree, FreedOnce
<1>1. ASSUME NEW c \in CpsSet, NEW m \in BurstSet, older_init(c, m)
      PROVE  OlderTableInv'
  BY <1>1 DEF older_init, olderVars, params
<1>2. ASSUME NEW b \in Bufs, older_destroy(b)
      PROVE  OlderTableInv'
  <2> SUFFICES ASSUME ~misplaced'
               PROVE  OlderTableInv'
    BY DEF OlderTableInv
  <2>1. ~misplaced /\ pos[b] \in Positions /\ job[pos[b]] = b
    BY <1>2 DEF older_destroy
  <2>2. /\ pc = "idle" /\ b \in live /\ tbf' = b /\ pc' = "free"
        /\ job' = [job EXCEPT ![pos[b]] = NULL]
        /\ UNCHANGED <<live, atexits, faults>>
    BY <1>2, <2>1 DEF older_destroy, process
  <2>3. \A i \in Positions : job'[i] = IF i = pos[b] THEN NULL ELSE job[i]
    BY <2>2
  <2>4. \A i \in Slots' : i \in Slots /\ i # pos[b] /\ job'[i] = job[i]
    BY <2>3
  <2>5. \A i \in Slots : i # pos[b] => i \in Slots' /\ job'[i] = job[i]
    BY <2>3
  <2>6. \A i \in Slots' : job'[i] \in live' /\ job'[i] # b
    BY <2>1, <2>2, <2>4
  <2>7. \A i, j \in Slots' : job'[i] = job'[j] => i = j
    BY <2>1, <2>4
  <2>8. \A x \in live' : (\E i \in Slots' : job'[i] = x) \/ x = b
    BY <2>1, <2>2, <2>5
  <2> QED  BY <2>1, <2>2, <2>6, <2>7, <2>8
<1>3. ASSUME NEW b \in Bufs, OpenWindow(b), UNCHANGED olderVars
      PROVE  OlderTableInv'
  BY <1>3 DEF OpenWindow, olderVars, params, process, locals
<1>4. ASSUME NEW b \in Bufs, NEW s \in Sizes, older_fetchtoken(b, s)
      PROVE  OlderTableInv'
  BY <1>4 DEF older_fetchtoken, OlderCall, olderVars, params, process
<1>5. ASSUME NEW b \in Bufs, NEW s \in Sizes, older_returntoken(b, s)
      PROVE  OlderTableInv'
  BY <1>5 DEF older_returntoken, OlderCall, olderVars, params, process
<1>6. CASE Same(Exit)
  BY <1>6 DEF Same, olderVars, Exit, params, process, locals
<1>7. CASE module_load
  BY <1>7 DEF olderVars, module_load, Inited, params, locals
<1>8. CASE OlderSlot
  <2> SUFFICES ASSUME ~misplaced'
               PROVE  OlderTableInv'
    BY DEF OlderTableInv
  <2>1. PICK b \in Bufs \ live :
           live' = live \cup {b} /\ job' = [job EXCEPT ![get_free_pos] = b]
    BY <1>8 DEF OlderSlot
  <2>2. get_free_pos \in Positions /\ job[get_free_pos] = NULL
    BY <1>8, FreePosition DEF OlderSlot, FreePositions
  <2>3. /\ pc = "slot" /\ pc' = "idle" /\ ~misplaced
        /\ UNCHANGED <<atexits, faults>>
    BY <1>8 DEF OlderSlot, process, olderVars
  <2>4. b # NULL /\ \A i \in Positions : job'[i] = IF i = get_free_pos THEN b ELSE job[i]
    BY <2>1
  <2>5. \A i \in Slots' : (i = get_free_pos /\ job'[i] = b) \/ (i \in Slots /\ job'[i] = job[i])
    BY <2>4
  <2>6. get_free_pos \in Slots' /\ \A i \in Slots : i \in Slots' /\ job'[i] = job[i]
    BY <2>2, <2>4
  <2>7. \A i \in Slots : job[i] \in live
    BY <2>3
  <2>8. \A i \in Slots' : job'[i] \in live'
    BY <2>1, <2>5, <2>7
  <2>9. \A i, j \in Slots' : job'[i] = job'[j] => i = j
    BY <2>3, <2>5, <2>7
  <2>10. \A x \in live' : \E i \in Slots' : job'[i] = x
    BY <2>1, <2>3, <2>4, <2>6
  <2> QED  BY <2>3, <2>8, <2>9, <2>10
<1>9. CASE Same(InitFails)
  BY <1>9 DEF Same, olderVars, InitFails, params, process, locals
<1>10. CASE Same(FetchTest)
  BY <1>10 DEF Same, olderVars, FetchTest, params, process
<1>24. CASE OlderMin
  BY <1>24 DEF OlderMin, olderVars, Reload, Lesser, params, process
<1>11. CASE Same(FetchPause)
  BY <1>11 DEF Same, olderVars, FetchPause, params, process, locals
<1>12. CASE Same(FetchLoad)
  BY <1>12 DEF Same, olderVars, FetchLoad, Reload, params, process
<1>13. CASE Same(FetchStore)
  BY <1>13 DEF Same, olderVars, FetchStore, params, process, locals
<1>14. CASE Same(ReturnStore)
  BY <1>14 DEF Same, olderVars, ReturnStore, params, process, locals
<1>15. CASE Same(ReturnCap)
  BY <1>15 DEF Same, olderVars, ReturnCap, params, process, locals
<1>16. CASE Same(DestroyFree)
  BY <1>16 DEF Same, olderVars, DestroyFree, Free, params, process, locals
<1>17. CASE Same(mod_unload)
  BY <1>17 DEF Same, olderVars, mod_unload, params, locals
<1>18. CASE OlderTimerOff
  BY <1>18 DEF olderVars, OlderTimerOff, params, locals
<1>19. CASE Same(UnloadFree)
  BY <1>19 DEF Same, olderVars, UnloadFree, Free, params, locals
<1>20. CASE Same(ExitDone)
  BY <1>20 DEF Same, olderVars, ExitDone, params, process, locals
<1>21. CASE OlderTimer
  BY <1>21 DEF olderVars, OlderTimer, KilledBySignal, Resume, OlderRefills, params, locals
<1>22. CASE OlderUserSignal
  BY <1>22 DEF olderVars, OlderUserSignal, Resume, OlderRefills, params, locals
<1>23. CASE UNCHANGED allVars
  BY <1>23 DEF olderVars, allVars, vars, olderVars
<1> QED
  BY <1>1, <1>2, <1>3, <1>4, <1>5, <1>6, <1>7, <1>8, <1>9, <1>10, <1>11,
     <1>12, <1>13, <1>14, <1>15, <1>16, <1>17, <1>18, <1>19, <1>20, <1>21, <1>22, <1>23, <1>24
     DEF AllNext, OlderClient, OlderThread, Same, older, Ended, allVars

\* An expiry takes nothing from a bucket and leaves none above its burst.
LEMMA OlderRefillsBounds ==
    ASSUME TypeOK, NotNegative, OlderRefills
    PROVE  \A b \in Bufs : /\ 0 <= token'[b]
                           /\ token'[b] <= burst[b] \/ token'[b] = token[b]
                           /\ token[b] <= burst[b] => token[b] <= token'[b] /\ token'[b] <= burst[b]
<1> SUFFICES ASSUME NEW b \in Bufs
             PROVE  /\ 0 <= token'[b]
                    /\ token'[b] <= burst[b] \/ token'[b] = token[b]
                    /\ token[b] <= burst[b] => token[b] <= token'[b] /\ token'[b] <= burst[b]
  OBVIOUS
<1>1. /\ Entries(b) \in Nat /\ csp[b] \in Nat
      /\ token[b] \in Int /\ 0 <= token[b] /\ burst[b] \in Nat
  BY EntriesType DEF TypeOK, NotNegative
<1>2. Entries(b) * csp[b] \in Nat
  BY <1>1
<1>3. \/ token'[b] = Lesser(token[b] + Entries(b) * csp[b], burst[b])
      \/ token'[b] = token[b]
  BY DEF OlderRefills
<1>4. ASSUME NEW k \in Nat, token'[b] = Lesser(token[b] + k, burst[b]) \/ token'[b] = token[b]
      PROVE  /\ 0 <= token'[b]
             /\ token'[b] <= burst[b] \/ token'[b] = token[b]
             /\ token[b] <= burst[b] => token[b] <= token'[b] /\ token'[b] <= burst[b]
  BY <1>1, <1>4 DEF Lesser
<1> QED  BY <1>2, <1>3, <1>4

\* So an expiry disturbs no call that it interrupts.
LEMMA OlderRefilled ==
    ASSUME OlderInv, OlderRefills, Resume, UNCHANGED <<live, params, locals>>
    PROVE  OlderTokensInv'
<1>1. /\ \A b \in Bufs : 0 <= token'[b]
      /\ \A b \in Bufs : token'[b] <= burst[b] \/ token'[b] = token[b]
      /\ \A b \in Bufs : token[b] <= burst[b] => token[b] <= token'[b] /\ token'[b] <= burst[b]
  <2>1. TypeOK /\ NotNegative
    BY DEF OlderInv, OlderTokensInv
  <2> QED  BY <2>1, OlderRefillsBounds
<1>2. live \subseteq Bufs /\ token \in [Bufs -> Int] /\ token' \in [Bufs -> Int] /\ burst \in [Bufs -> Nat]
  BY OlderRefillsType DEF TypeOK, OlderInv
<1>3. NotNegative'
  BY <1>1 DEF NotNegative
<1>4. /\ live' = live /\ burst' = burst /\ tbf' = tbf /\ reg' = reg /\ n' = n /\ size' = size
      /\ pc' = IF pc = "paused" THEN "test" ELSE pc
  BY DEF params, locals, Resume
<1>5. TokenBounds'
  <2> SUFFICES ASSUME Running', NEW b \in live
               PROVE  \/ token'[b] <= burst[b]
                      \/ pc' = "rcap" /\ b = tbf /\ token'[b] <= burst[b] + size
    BY <1>1, <1>2, <1>4 DEF TokenBounds
  <2>1. \/ token[b] <= burst[b]
        \/ pc = "rcap" /\ b = tbf /\ token[b] <= burst[b] + size
    BY <1>4 DEF OlderInv, OlderTokensInv, TokenBounds, Running
  <2> QED  BY <1>1, <1>2, <1>4, <2>1
<1>6. ASSUME pc \in {"compare", "value", "take", "store", "rstore"}
      PROVE  token[tbf] <= token'[tbf] /\ token[tbf] \in Int /\ token'[tbf] \in Int
  <2>1. tbf \in live /\ token[tbf] <= burst[tbf]
    BY <1>6 DEF OlderInv, OlderLoadInv, OlderTokensInv, TokenBounds, InCall, InFetch, Running
  <2> QED  BY <1>1, <1>2, <2>1
<1>7. n \in Int /\ reg \in Int /\ size \in Int
  BY DEF OlderInv, TypeOK
<1>8. pc \in {"take", "store"} => 0 <= n /\ n <= reg /\ reg <= token'[tbf]
  <2>1. pc \in {"take", "store"} => 0 <= n /\ n <= reg /\ reg <= token[tbf]
    BY DEF OlderInv, OlderTokensInv
  <2> QED  BY <1>6, <1>7, <2>1
<1>9. pc = "rstore" => 0 <= size /\ 0 <= reg /\ reg <= token'[tbf]
  <2>1. pc = "rstore" => 0 <= size /\ 0 <= reg /\ reg <= token[tbf]
    BY DEF OlderInv, OlderTokensInv
  <2> QED  BY <1>6, <1>7, <2>1
<1>10. pc \in {"compare", "value"} => 0 <= reg /\ reg <= token'[tbf]
  <2>1. pc \in {"compare", "value"} => 0 <= reg /\ reg <= token[tbf]
    BY DEF OlderInv, OlderTokensInv
  <2> QED  BY <1>6, <1>7, <2>1
<1>11. InFetch' => size' >= 0
  BY <1>4 DEF OlderInv, OlderTokensInv, InFetch
<1> QED  BY <1>3, <1>4, <1>5, <1>8, <1>9, <1>10, <1>11 DEF OlderTokensInv

\* The handlers only add, and cut at burst; a call takes no more than it saw.
LEMMA OlderTokensStep ==
    ASSUME OlderInv, older, [AllNext]_allVars
    PROVE  OlderTokensInv'
<1> USE ConstantsAssumption DEF OlderInv, OlderLoadInv, TypeOK, PCs, Running, InCall, InFetch, OlderTokensInv, NotNegative, TokenBounds
<1>1. ASSUME NEW c \in CpsSet, NEW m \in BurstSet, older_init(c, m)
      PROVE  OlderTokensInv'
  BY <1>1 DEF older_init, olderVars, params
<1>2. ASSUME NEW b \in Bufs, older_destroy(b)
      PROVE  OlderTokensInv'
  BY <1>2 DEF older_destroy, params, process
<1>3. ASSUME NEW b \in Bufs, OpenWindow(b), UNCHANGED olderVars
      PROVE  OlderTokensInv'
  BY <1>3 DEF OpenWindow, olderVars, params, process, locals
<1>4. ASSUME NEW b \in Bufs, NEW s \in Sizes, older_fetchtoken(b, s)
      PROVE  OlderTokensInv'
  BY <1>4 DEF older_fetchtoken, OlderCall, olderVars, params, process
<1>5. ASSUME NEW b \in Bufs, NEW s \in Sizes, older_returntoken(b, s)
      PROVE  OlderTokensInv'
  BY <1>5 DEF older_returntoken, OlderCall, olderVars, params, process
<1>6. CASE Same(Exit)
  BY <1>6 DEF Same, olderVars, Exit, params, process, locals
<1>7. CASE module_load
  BY <1>7 DEF olderVars, module_load, Inited, params, locals
<1>8. CASE OlderSlot
  BY <1>8 DEF olderVars, OlderSlot, process, locals
<1>9. CASE Same(InitFails)
  BY <1>9 DEF Same, olderVars, InitFails, params, process, locals
<1>10. CASE Same(FetchTest)
  BY <1>10 DEF Same, olderVars, FetchTest, params, process
<1>24. CASE OlderMin
  BY <1>24 DEF OlderMin, olderVars, Reload, Lesser, params, process
<1>11. CASE Same(FetchPause)
  BY <1>11 DEF Same, olderVars, FetchPause, params, process, locals
<1>12. CASE Same(FetchLoad)
  BY <1>12 DEF Same, olderVars, FetchLoad, Reload, params, process
<1>13. CASE Same(FetchStore)
  BY <1>13 DEF Same, olderVars, FetchStore, params, process, locals
<1>14. CASE Same(ReturnStore)
  BY <1>14 DEF Same, olderVars, ReturnStore, params, process, locals
<1>15. CASE Same(ReturnCap)
  BY <1>15 DEF Same, olderVars, Lesser, ReturnCap, params, process, locals
<1>16. CASE Same(DestroyFree)
  BY <1>16 DEF Same, olderVars, DestroyFree, Free, params, process, locals
<1>17. CASE Same(mod_unload)
  BY <1>17 DEF Same, olderVars, mod_unload, params, locals
<1>18. CASE OlderTimerOff
  BY <1>18 DEF olderVars, OlderTimerOff, params, locals
<1>19. CASE Same(UnloadFree)
  BY <1>19 DEF Same, olderVars, UnloadFree, Free, params, locals
<1>20. CASE Same(ExitDone)
  BY <1>20 DEF Same, olderVars, ExitDone, params, process, locals
<1>21. CASE OlderTimer
  <2>1. UNCHANGED <<live, params, locals>>
    BY <1>21 DEF OlderTimer, params, locals
  <2>2. CASE KilledBySignal
    BY <2>1, <2>2 DEF KilledBySignal, params, locals
  <2>3. CASE OlderRefills /\ Resume
    BY <2>1, <2>3, OlderRefilled
  <2> QED  BY <1>21, <2>2, <2>3 DEF OlderTimer
<1>22. CASE OlderUserSignal
  <2>1. UNCHANGED <<live, params, locals>> /\ Resume
    BY <1>22 DEF OlderUserSignal, params, locals
  <2>2. CASE UNCHANGED token
    BY <2>1, <2>2 DEF Resume, params, locals
  <2>3. CASE OlderRefills
    BY <2>1, <2>3, OlderRefilled
  <2> QED  BY <1>22, <2>2, <2>3 DEF OlderUserSignal
<1>23. CASE UNCHANGED allVars
  BY <1>23 DEF olderVars, allVars, vars, olderVars
<1> QED
  BY <1>1, <1>2, <1>3, <1>4, <1>5, <1>6, <1>7, <1>8, <1>9, <1>10, <1>11,
     <1>12, <1>13, <1>14, <1>15, <1>16, <1>17, <1>18, <1>19, <1>20, <1>21, <1>22, <1>23, <1>24
     DEF AllNext, OlderClient, OlderThread, Same, older, Ended, allVars

-----------------------------------------------------------------------------
(***************************************************************************)
(* The theorems.  The library keeps IInv, for what it does here are steps  *)
(* of Mytbf; the older ones keep theirs.                                   *)
(***************************************************************************)
AllInv ==
    /\ TypeOK
    /\ older => OlderInv
    /\ ~older => IInv

\* Whatever the variant is, its invariant holds in every execution.
LEMMA AllInvariant == AllSpec => []AllInv
<1>1. AllInit => AllInv
  <2> SUFFICES ASSUME AllInit PROVE AllInv
    OBVIOUS
  <2>1. IInv /\ TypeOK
    BY InvariantInit DEF AllInit, IInv
  <2>2. Slots = {}
    BY DEF AllInit, Init, Slots
  <2>3. OlderLoadInv
    BY DEF AllInit, Init, OlderLoadInv, Running, InCall, InFetch
  <2>4. OlderTableInv
    BY <2>2 DEF AllInit, Init, OlderTableInv, NoUseAfterFree, FreedOnce
  <2>5. OlderTokensInv
    BY <2>1 DEF AllInit, Init, OlderTokensInv, IInv, InFetch
  <2> QED  BY <2>1, <2>3, <2>4, <2>5 DEF AllInv, OlderInv
<1>2. AllInv /\ [AllNext]_allVars => AllInv'
  <2> SUFFICES ASSUME AllInv, [AllNext]_allVars PROVE AllInv'
    OBVIOUS
  <2>1. older' = older
    BY DEF older, AllNext, OlderClient, OlderThread, Same, olderVars, allVars, older_init,
       module_load, OlderSlot, OlderCall, older_fetchtoken, older_returntoken, older_destroy,
       OlderMin, OlderTimerOff, OlderTimer, OlderUserSignal
  <2>2. CASE older
    <3>1. OlderInv
      BY <2>2 DEF AllInv
    <3>2. TypeOK'
      BY <2>2, <3>1, OlderTypeStep DEF OlderInv
    <3>3. OlderInv'
      BY <2>2, <3>1, <3>2, OlderLoadStep, OlderTableStep, OlderTokensStep DEF OlderInv
    <3> QED  BY <2>1, <2>2, <3>2, <3>3 DEF AllInv
  <2>3. CASE ~older
    <3>1. IInv /\ [Next]_vars
      BY <2>3 DEF AllInv, AllNext, Same, older, allVars
    <3>2. IInv'
      BY <3>1, InvariantStep
    <3> QED  BY <2>1, <2>3, <3>2 DEF AllInv, IInv
  <2> QED  BY <2>2, <2>3
<1> QED  BY <1>1, <1>2, PTL DEF AllSpec

\* While each destroy cleared its own entry, a bucket that is not being freed
\* has exactly one.
LEMMA OneEntry ==
    ASSUME OlderInv, ~misplaced
    PROVE  EntriesRight
<1> SUFFICES ASSUME Running
             PROVE  /\ \A i \in Slots : job[i] \in live
                    /\ \A b \in live : Entries(b) = 1 \/ (pc = "free" /\ b = tbf)
  BY DEF EntriesRight
<1>1. \A i \in Slots : job[i] \in live
  BY DEF OlderInv, OlderTableInv
<1>2. ASSUME NEW b \in live, ~(pc = "free" /\ b = tbf)
      PROVE  Entries(b) = 1
  <2>1. PICK i \in Slots : job[i] = b
    BY <1>2 DEF OlderInv, OlderTableInv
  <2>2. {j \in Slots : job[j] = b} = {i}
    BY <2>1 DEF OlderInv, OlderTableInv
  <2> QED  BY <2>2, FS_Singleton DEF Entries
<1> QED  BY <1>1, <1>2

\* The table and the heap of each of the three libraries, whatever order init,
\* destroy, exit and the handler come in: an entry is an allocated bucket, each
\* bucket has its entry, and no handler refills what was freed.  Of the older
\* two this is true until mytbf_destroy() clears job[pos] of a pos that
\* mytbf_init() never set.
THEOREM TableIsSound == AllSpec => []TableSound
<1>1. AllInv => TableSound
  <2> SUFFICES ASSUME AllInv PROVE TableSound
    OBVIOUS
  <2>1. ~older => Registered /\ NoUseAfterFree
    BY DEF AllInv, IInv, TableInv
  <2>2. older => misplaced \/ (EntriesRight /\ NoUseAfterFree)
    BY OneEntry DEF AllInv, OlderInv, OlderTableInv
  <2> QED  BY <2>1, <2>2 DEF TableSound
<1> QED  BY <1>1, AllInvariant, PTL

\* "inited" does what its comment asks for in the two older libraries: the
\* handler is registered once, the disposition that is restored at exit is the
\* one of before, and exit frees every bucket once.
THEOREM LoadedOnce == AllSpec => []LoadsOnce
<1>1. AllInv => LoadsOnce
  BY DEF AllInv, OlderInv, OlderLoadInv, OlderTableInv, LoadsOnce, OldSaIsOriginal
<1> QED  BY <1>1, AllInvariant, PTL

\* No bucket of any of the three libraries goes below zero or, outside a
\* mytbf_returntoken(), above its burst, wherever the handler comes between the
\* load and the store of "token -= n" and of "token += size"; nor does a block
\* that a stale entry of the older libraries refills twice.
THEOREM BoundedTokens == AllSpec => []TokenBounds
<1>1. AllInv => TokenBounds
  BY DEF AllInv, IInv, OlderInv, OlderTokensInv
<1> QED  BY <1>1, AllInvariant, PTL

\* No timer of the three libraries meets the original disposition of SIGALRM
\* before exit() restored it: each installs its handler before it arms the timer.
THEOREM NoneKilled == AllSpec => KilledOnlyInExit
<1>1. AllInv /\ [AllNext]_allVars => [pc' = "killed" => ~Running]_pc
  <2> SUFFICES ASSUME AllInv, [AllNext]_allVars, pc' = "killed", pc' # pc
               PROVE  ~Running
    OBVIOUS
  <2>1. CASE ~older
    BY <2>1, KillStep DEF AllInv, AllNext, Same, older, allVars, vars
  <2>2. CASE older /\ OlderTimer
    BY <2>2 DEF AllInv, OlderInv, OlderLoadInv, OlderTimer, Resume, KilledBySignal
  <2>3. CASE older /\ OlderUserSignal
    BY <2>3 DEF OlderUserSignal, Resume
  <2>4. CASE older /\ OlderClient
    BY <2>4 DEF OlderClient, Same, older_init, older_destroy, OpenWindow, older_fetchtoken,
       older_returntoken, OlderCall, Exit
  <2>5. CASE older /\ OlderThread
    BY <2>5 DEF OlderThread, Same, module_load, OlderSlot, InitFails, FetchTest, FetchPause,
       OlderMin, FetchLoad, FetchStore, ReturnStore, ReturnCap, DestroyFree, mod_unload, OlderTimerOff,
       UnloadFree, ExitDone
  <2>6. \/ older /\ (OlderClient \/ OlderThread \/ OlderTimer \/ OlderUserSignal)
        \/ ~older
        \/ Ended
    BY DEF AllNext, Same, older, allVars, vars
  <2>7. CASE Ended
    BY <2>7 DEF Ended, vars
  <2> QED  BY <2>1, <2>2, <2>3, <2>4, <2>5, <2>6, <2>7
<1> QED  BY <1>1, AllInvariant, PTL DEF AllSpec, KilledOnlyInExit

=============================================================================
