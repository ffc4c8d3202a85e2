------------------------------- MODULE Mytbf -------------------------------
(***************************************************************************)
(* The token-bucket library udp_prog/libmytbf/mytbf.c.                      *)
(*                                                                         *)
(* One thread calls the API; the SIGALRM handler interrupts it between any *)
(* two of its memory accesses and runs to completion (SIGALRM is blocked   *)
(* while it runs), so the handler is ONE action and every API function is  *)
(* as many actions as it has accesses to data the handler also touches.    *)
(* SIGALRM is never blocked outside the handler, so a signal is delivered  *)
(* before the thread's next step: expiry and delivery are one action.      *)
(***************************************************************************)
EXTENDS Integers, FiniteSets, FiniteSetsExt

CONSTANTS
    Bufs,          \* heap blocks malloc() may return for a struct mytbf_s
    MYTBF_MAX,     \* length of the table job[]
    NULL,
    CpsSet,        \* values the client passes as cps
    BurstSet,      \* values the client passes as burst
    Sizes,         \* values the client passes as size
    CallResults,   \* outcomes of sigaction(), setitimer(), malloc()
    MaxLoads,      \* bound: how many times mod_load() may run
    MaxWindow      \* bound: the observer closes its window after so many events

ASSUME ConstantsAssumption ==
    /\ IsFiniteSet(Bufs)
    /\ NULL \notin Bufs
    /\ MYTBF_MAX \in Nat
    /\ CpsSet \subseteq Nat
    /\ BurstSet \subseteq Nat
    /\ Sizes \subseteq Int
    /\ CallResults \subseteq {"ok", "fail"}
    /\ MaxLoads \in Nat
    /\ MaxWindow \in Nat

VARIABLES
    live,      \* heap blocks that are allocated
    csp,       \* tbf->csp     (the name of the source)
    burst,     \* tbf->burst
    token,     \* tbf->token
    pos,       \* tbf->pos
    job,       \* job[]
    sigact,    \* the process's disposition of SIGALRM: "orig" or "handler"
    old_sa,    \* old_sa, the disposition saved by mod_load()
    timer,     \* ITIMER_REAL, which is periodic: "armed" or "off"
    atexits,   \* how many times mod_unload is registered with atexit()
    pc,        \* where the thread is
    tbf,       \* local tbf of the call in progress
    size,      \* argument size of the call in progress
    cps,       \* argument cps of mytbf_init()
    burstArg,  \* argument burst of mytbf_init()
    reg,       \* the register that holds the last value loaded from tbf->token
    n,         \* local n of mytbf_fetchtoken()
    faults,    \* memory errors that happened
    win        \* observer: a window of time over one bucket (history variable)

params == <<csp, burst, pos>>
locals == <<tbf, size, cps, burstArg, reg, n>>
process == <<sigact, old_sa, timer, atexits>>
vars == <<live, csp, burst, token, pos, job, sigact, old_sa, timer, atexits,
          pc, tbf, size, cps, burstArg, reg, n, faults, win>>

Positions == 0 .. MYTBF_MAX - 1
Slots == {i \in Positions : job[i] # NULL}

\* The client still runs: the process has neither ended nor begun to exit.
Running == pc \notin {"unload", "unload2", "unload3", "dead", "killed"}
InFetch == pc \in {"test", "pause", "paused", "compare", "value", "take", "store"}
InCall == InFetch \/ pc \in {"rstore", "rcap", "free"}

Lesser(a, b) == IF a < b THEN a ELSE b

-----------------------------------------------------------------------------
(* The observer.  win.b is the bucket it watches (NULL: none); it records   *)
(* the tokens in the bucket when the window opened and, since then, the     *)
(* refills, the tokens granted and the tokens returned.                     *)

NoWindow == [b |-> NULL, start |-> 0, ticks |-> 0, granted |-> 0, returned |-> 0]

\* The window after one more event; it closes at its bound.
Watched(w) == IF w.ticks > MaxWindow \/ w.returned > MaxWindow THEN NoWindow ELSE w

OpenWindow(b) ==
    /\ Running
    /\ pc # "rcap"
    /\ win.b = NULL
    /\ b \in live
    /\ win' = [NoWindow EXCEPT !.b = b, !.start = token[b]]
    /\ UNCHANGED <<live, params, token, job, process, pc, locals, faults>>

-----------------------------------------------------------------------------
(* SIGALRM: handler(), and who sends the signal.                            *)

\* Mutant: the refill without its cut.
RefillUncut(b) == token[b] + csp[b]

\* job[i]->token += job[i]->csp, cut at burst.
Refill(b) == Lesser(token[b] + csp[b], burst[b])

\* The thread after a signal handler has returned: pause() returns, nothing
\* else notices.
Resume == pc' = IF pc = "paused" THEN "test" ELSE pc

\* The refill loop of handler(): every entry of job[] that is not NULL is
\* dereferenced, allocated or not.
RefillJobs ==
    LET used == {job[i] : i \in Slots} IN
    /\ token' = [b \in Bufs |-> IF b \in used THEN Refill(b) ELSE token[b]]
    /\ faults' = IF used \subseteq live THEN faults ELSE faults \cup {"use_after_free"}
    /\ win' = IF win.b \in used THEN Watched([win EXCEPT !.ticks = @ + 1]) ELSE win

\* handler() for a signal of the interval timer (si_code = SI_KERNEL): it arms
\* the timer again, exits the process if that fails, else refills.  An exit()
\* out of a mod_unload() in progress goes on with the registrations left.
handler ==
    \/ /\ "ok" \in CallResults
       /\ timer' = "armed"
       /\ RefillJobs
       /\ Resume
       /\ UNCHANGED atexits
    \/ /\ "fail" \in CallResults
       /\ pc' = "unload"
       /\ atexits' = IF pc = "unload2" THEN atexits - 1 ELSE atexits
       /\ UNCHANGED <<timer, token, faults, win>>

\* A signal whose disposition is not handler() meets the disposition the
\* process started with, SIG_DFL: it kills the process.
KilledBySignal ==
    /\ sigact = "orig"
    /\ pc' = "killed"
    /\ UNCHANGED <<timer, token, faults, win>>

\* ITIMER_REAL expires.
TimerExpires ==
    /\ pc \notin {"dead", "killed"}
    /\ timer = "armed"
    /\ \/ sigact = "handler" /\ handler
       \/ KilledBySignal /\ UNCHANGED atexits
    /\ UNCHANGED <<live, params, job, sigact, old_sa, locals>>

\* Mutant: no test of si_code, so that a signal from another process refills.
UserSignalRefills ==
    /\ Running
    /\ sigact = "handler"
    /\ Resume
    /\ token' = [b \in Bufs |-> IF b \in live THEN Refill(b) ELSE token[b]]
    /\ UNCHANGED <<live, params, job, process, locals, faults, win>>

\* Another process sends SIGALRM with kill(): handler() returns at once, for
\* si_code is not SI_KERNEL, but a pause() in progress ends.
UserSignal ==
    /\ Running
    /\ sigact = "handler"
    /\ Resume
    /\ UNCHANGED <<live, params, token, job, process, locals, faults, win>>

-----------------------------------------------------------------------------
(* mytbf_init() and mod_load().                                             *)

\* get_free_pos() returns the first free index; its caller checks there is one.
FreePositions == Positions \ Slots

\* Mutant: the index before the free one.
PositionBefore == Min(FreePositions) - 1

get_free_pos == Min(FreePositions)

\* Mutant: sigaction() is called after setitimer(), when mod_load() is over.
InitInstallsLate(c, m) ==
    /\ pc = "idle"
    /\ atexits < MaxLoads
    /\ old_sa' = sigact
    /\ pc' = "load"
    /\ cps' = c
    /\ burstArg' = m
    /\ UNCHANGED <<live, params, token, job, sigact, timer, atexits, tbf, size, reg, n,
                   faults, win>>

\* mytbf_init(): nothing assigns inited, so "if (!inited)" holds on every call
\* and mod_load() always begins: sigaction() installs handler and stores the
\* previous disposition in old_sa.
mytbf_init(c, m) ==
    /\ pc = "idle"
    /\ atexits < MaxLoads
    /\ \/ /\ "ok" \in CallResults
          /\ old_sa' = sigact
          /\ sigact' = "handler"
          /\ pc' = "load"
          /\ cps' = c
          /\ burstArg' = m
       \/ /\ "fail" \in CallResults
          /\ pc' = "unload"
          /\ UNCHANGED <<old_sa, sigact, cps, burstArg>>
    /\ UNCHANGED <<live, params, token, job, timer, atexits, tbf, size, reg, n, faults, win>>

\* Mutant: the timer is not armed.
LoadNoTimer ==
    /\ pc = "load"
    /\ atexits' = atexits + 1
    /\ pc' = "slot"
    /\ UNCHANGED <<live, params, token, job, sigact, old_sa, timer, locals, faults, win>>

\* The rest of mod_load(): setitimer() arms the timer (a timer already running
\* starts its second anew), atexit() registers mod_unload once more.
mod_load ==
    /\ pc = "load"
    /\ \/ /\ "ok" \in CallResults
          /\ timer' = "armed"
          /\ atexits' = atexits + 1
          /\ pc' = "slot"
       \/ /\ "fail" \in CallResults
          /\ pc' = "unload"
          /\ UNCHANGED <<timer, atexits>>
    /\ UNCHANGED <<live, params, token, job, sigact, old_sa, locals, faults, win>>

\* The rest of mytbf_init(): a free index, a block, its fields, and last the
\* table entry that shows it to handler().
InitSlot ==
    /\ pc = "slot"
    /\ FreePositions # {}
    /\ "ok" \in CallResults
    /\ \E b \in Bufs \ live :
         /\ live' = live \cup {b}
         /\ token' = [token EXCEPT ![b] = 0]
         /\ csp' = [csp EXCEPT ![b] = cps]
         /\ burst' = [burst EXCEPT ![b] = burstArg]
         /\ pos' = [pos EXCEPT ![b] = get_free_pos]
         /\ job' = [job EXCEPT ![get_free_pos] = b]
    /\ pc' = "idle"
    /\ UNCHANGED <<process, locals, faults, win>>

\* mytbf_init() returns NULL: no free index, or malloc() fails.
InitFails ==
    /\ pc = "slot"
    /\ FreePositions = {} \/ ("fail" \in CallResults) \/ (live = Bufs)
    /\ pc' = "idle"
    /\ UNCHANGED <<live, params, token, job, process, locals, faults, win>>

-----------------------------------------------------------------------------
(* mytbf_fetchtoken().                                                      *)

\* The call; a size that is not positive returns -EINVAL at once.
mytbf_fetchtoken(b, s) ==
    /\ pc = "idle"
    /\ b \in live
    /\ s > 0
    /\ tbf' = b
    /\ size' = s
    /\ pc' = "test"
    /\ UNCHANGED <<live, params, token, job, process, cps, burstArg, reg, n, faults, win>>

\* while (tbf->token <= 0): go to pause(), or leave the loop with the value
\* loaded.
FetchTest ==
    /\ pc = "test"
    /\ \/ /\ token[tbf] <= 0
          /\ pc' = "pause"
          /\ UNCHANGED reg
       \/ /\ token[tbf] > 0
          /\ reg' = token[tbf]
          /\ pc' = "compare"
    /\ UNCHANGED <<live, params, token, job, process, tbf, size, cps, burstArg, n, faults, win>>

\* A later access to tbf->token: it is read again or, token not being
\* volatile, the build keeps the value it has.
Reload == reg' \in {reg, token[tbf]}

\* The test of n = tbf->token < size ? tbf->token : size ...
FetchCompare ==
    /\ pc = "compare"
    /\ Reload
    /\ \/ reg' < size /\ pc' = "value" /\ UNCHANGED n
       \/ reg' >= size /\ pc' = "take" /\ n' = size
    /\ UNCHANGED <<live, params, token, job, process, tbf, size, cps, burstArg, faults, win>>

\* ... and its value when the bucket had less, which may be more by now: n can
\* exceed size.
FetchValue ==
    /\ pc = "value"
    /\ Reload
    /\ n' = reg'
    /\ pc' = "take"
    /\ UNCHANGED <<live, params, token, job, process, tbf, size, cps, burstArg, faults, win>>

\* pause() begins to wait; a signal that came between the test and this step
\* does not end the wait.
FetchPause ==
    /\ pc = "pause"
    /\ pc' = "paused"
    /\ UNCHANGED <<live, params, token, job, process, locals, faults, win>>

\* The load of tbf->token -= n.
FetchLoad ==
    /\ pc = "take"
    /\ Reload
    /\ pc' = "store"
    /\ UNCHANGED <<live, params, token, job, process, tbf, size, cps, burstArg, n, faults, win>>

\* The store of tbf->token -= n, and the return of n.
FetchStore ==
    /\ pc = "store"
    /\ token' = [token EXCEPT ![tbf] = reg - n]
    /\ win' = IF win.b = tbf THEN [win EXCEPT !.granted = @ + n] ELSE win
    /\ pc' = "idle"
    /\ UNCHANGED <<live, params, job, process, locals, faults>>

-----------------------------------------------------------------------------
(* mytbf_returntoken() and mytbf_destroy().                                 *)

\* The call, and the load of tbf->token += size.
mytbf_returntoken(b, s) ==
    /\ pc = "idle"
    /\ b \in live
    /\ s > 0
    /\ tbf' = b
    /\ size' = s
    /\ reg' = token[b]
    /\ pc' = "rstore"
    /\ UNCHANGED <<live, params, token, job, process, cps, burstArg, n, faults, win>>

ReturnStore ==
    /\ pc = "rstore"
    /\ token' = [token EXCEPT ![tbf] = reg + size]
    /\ win' = IF win.b = tbf THEN Watched([win EXCEPT !.returned = @ + size]) ELSE win
    /\ pc' = "rcap"
    /\ UNCHANGED <<live, params, job, process, locals, faults>>

\* if (tbf->token > tbf->burst) tbf->token = tbf->burst
ReturnCap ==
    /\ pc = "rcap"
    /\ token' = [token EXCEPT ![tbf] = Lesser(@, burst[tbf])]
    /\ pc' = "idle"
    /\ UNCHANGED <<live, params, job, process, locals, faults, win>>

\* mytbf_fetchtoken() and mytbf_returntoken() return -EINVAL.
InvalidSize(b, s) ==
    /\ pc = "idle"
    /\ b \in live
    /\ s <= 0
    /\ UNCHANGED vars

\* free(p) for the blocks of S; p not allocated is a double free.
Free(S) ==
    /\ live' = live \ S
    /\ faults' = IF S \subseteq live THEN faults ELSE faults \cup {"double_free"}

\* Mutant: the table entry is left behind.
DestroyKeepsEntry(b) ==
    /\ pc = "idle"
    /\ b \in live
    /\ tbf' = b
    /\ pc' = "free"
    /\ UNCHANGED <<live, params, token, job, process, size, cps, burstArg, reg, n, faults, win>>

\* mytbf_destroy(): the table entry first ...
mytbf_destroy(b) ==
    /\ pc = "idle"
    /\ b \in live
    /\ tbf' = b
    /\ job' = [job EXCEPT ![pos[b]] = NULL]
    /\ pc' = "free"
    /\ UNCHANGED <<live, params, token, process, size, cps, burstArg, reg, n, faults, win>>

\* ... then the block.
DestroyFree ==
    /\ pc = "free"
    /\ Free({tbf})
    /\ win' = IF win.b = tbf THEN NoWindow ELSE win
    /\ pc' = "idle"
    /\ UNCHANGED <<params, token, job, process, locals>>

-----------------------------------------------------------------------------
(* The end of the process: exit() runs mod_unload() as often as atexit()    *)
(* registered it.                                                           *)

\* main() returns, or calls exit().
Exit ==
    /\ pc = "idle"
    /\ pc' = "unload"
    /\ UNCHANGED <<live, params, token, job, process, locals, faults, win>>

ExitDone ==
    /\ pc = "unload"
    /\ atexits = 0
    /\ pc' = "dead"
    /\ UNCHANGED <<live, params, token, job, process, locals, faults, win>>

\* mod_unload(): restore the disposition ...
mod_unload ==
    /\ pc = "unload"
    /\ atexits > 0
    /\ sigact' = old_sa
    /\ pc' = "unload2"
    /\ UNCHANGED <<live, params, token, job, old_sa, timer, atexits, locals, faults, win>>

\* ... stop the timer, or exit() again when that fails: exit() goes on with
\* the registrations that are left ...
UnloadTimer ==
    /\ pc = "unload2"
    /\ \/ /\ "ok" \in CallResults
          /\ timer' = "off"
          /\ pc' = "unload3"
          /\ UNCHANGED atexits
       \/ /\ "fail" \in CallResults
          /\ pc' = "unload"
          /\ atexits' = atexits - 1
          /\ UNCHANGED timer
    /\ UNCHANGED <<live, params, token, job, sigact, old_sa, locals, faults, win>>

\* ... and free every entry of job[], which stays as it is.
UnloadFree ==
    /\ pc = "unload3"
    /\ Free({job[i] : i \in Slots})
    /\ atexits' = atexits - 1
    /\ pc' = "unload"
    /\ UNCHANGED <<params, token, job, sigact, old_sa, timer, locals, win>>

Ended == pc \in {"dead", "killed"} /\ UNCHANGED vars

-----------------------------------------------------------------------------
Init ==
    /\ live = {}
    /\ csp = [b \in Bufs |-> 0]
    /\ burst = [b \in Bufs |-> 0]
    /\ token = [b \in Bufs |-> 0]
    /\ pos = [b \in Bufs |-> 0]
    /\ job = [i \in Positions |-> NULL]
    /\ sigact = "orig"
    /\ old_sa = "orig"
    /\ timer = "off"
    /\ atexits = 0
    /\ pc = "idle"
    /\ tbf = NULL
    /\ size = 0
    /\ cps = 0
    /\ burstArg = 0
    /\ reg = 0
    /\ n = 0
    /\ faults = {}
    /\ win = NoWindow

Client ==
    \/ \E c \in CpsSet, m \in BurstSet : mytbf_init(c, m)
    \/ \E b \in Bufs : mytbf_destroy(b) \/ OpenWindow(b)
    \/ \E b \in Bufs, s \in Sizes :
          mytbf_fetchtoken(b, s) \/ mytbf_returntoken(b, s) \/ InvalidSize(b, s)
    \/ Exit

\* What the thread does inside a call, or inside exit(), without choosing.
Thread ==
    \/ mod_load \/ InitSlot \/ InitFails
    \/ FetchTest \/ FetchPause \/ FetchCompare \/ FetchValue \/ FetchLoad \/ FetchStore
    \/ ReturnStore \/ ReturnCap \/ DestroyFree
    \/ mod_unload \/ UnloadTimer \/ UnloadFree \/ ExitDone

Next == Client \/ Thread \/ TimerExpires \/ UserSignal \/ Ended

\* The thread is scheduled, and the interval timer that is armed expires.
Fairness == WF_vars(Thread) /\ WF_vars(TimerExpires)

Spec == Init /\ [][Next]_vars /\ Fairness

-----------------------------------------------------------------------------
(* Properties.                                                              *)

PCs == {"idle", "load", "slot", "test", "pause", "paused", "compare", "value", "take",
        "store", "rstore", "rcap", "free", "unload", "unload2", "unload3", "dead", "killed"}

Windows == [b : Bufs \cup {NULL}, start : Int, ticks : Nat, granted : Int, returned : Int]

\* Every variable has its type.
TypeOK ==
    /\ live \subseteq Bufs
    /\ csp \in [Bufs -> Nat]
    /\ burst \in [Bufs -> Nat]
    /\ token \in [Bufs -> Int]
    /\ pos \in [Bufs -> Nat]
    /\ job \in [Positions -> Bufs \cup {NULL}]
    /\ sigact \in {"orig", "handler"}
    /\ old_sa \in {"orig", "handler"}
    /\ timer \in {"armed", "off"}
    /\ atexits \in Nat
    /\ pc \in {"unload2", "unload3"} => atexits > 0
    /\ pc \in PCs
    /\ tbf \in Bufs \cup {NULL}
    /\ InCall => tbf \in Bufs
    /\ size \in Int
    /\ cps \in Nat
    /\ burstArg \in Nat
    /\ reg \in Int
    /\ n \in Int
    /\ faults \subseteq {"double_free", "use_after_free"}
    /\ win \in Windows

\* The table and the heap agree whatever order init, destroy and the handler
\* come in: an entry of job[] is an allocated bucket that knows its index, and
\* every bucket a client holds is in the table, so that handler() refills it.
Registered ==
    Running =>
        /\ \A i \in Slots : job[i] \in live /\ pos[job[i]] = i
        /\ \A b \in live :
              \/ pos[b] \in Positions /\ job[pos[b]] = b
              \/ pc = "free" /\ b = tbf

\* handler() never refills a bucket that mytbf_destroy() or mod_unload() freed.
NoUseAfterFree == "use_after_free" \notin faults

\* A bucket never holds a negative number of tokens nor more than its burst,
\* although mytbf_fetchtoken() and mytbf_returntoken() read and write token in
\* separate accesses that the handler comes between.  Only the client's own
\* mytbf_returntoken() shows more, before its cut at burst.  So no sum exceeds
\* burst + csp + size, and none overflows when that fits an int.
TokenBounds ==
    Running =>
        \A b \in live :
            /\ 0 <= token[b]
            /\ \/ token[b] <= burst[b]
               \/ pc = "rcap" /\ b = tbf /\ token[b] <= burst[b] + size

\* The promise of a token bucket: over any window of time, the tokens granted
\* are at most the burst plus csp for each refill, plus what clients gave back.
\* A refill lost to a race between handler() and "tbf->token -= n" must never
\* turn into tokens granted twice.
RateBound ==
    win.b # NULL =>
        win.granted <= burst[win.b] + csp[win.b] * win.ticks + win.returned

\* Nobody waits in pause() for a signal that no timer will send: during a
\* fetch the timer is armed, the handler installed and the bucket in its table.
WaitIsTicked ==
    InFetch => /\ timer = "armed"
               /\ sigact = "handler"
               /\ tbf \in {job[i] : i \in Slots}

\* The library's own timer kills the process in exit() only, between the calls
\* of mod_unload() that restore the disposition and stop the timer: before that,
\* handler is installed whenever the timer is armed, also when the library is
\* loaded a second time or one of its calls fails.
KilledOnlyInExit == [][pc' = "killed" => ~Running]_pc

\* "Save the state the alarm handler had" (comment at mod_load): while
\* mod_unload is registered, old_sa holds the disposition from before the
\* library was loaded, so that exit restores it.
OldSaIsOriginal == atexits > 0 => old_sa = "orig"

\* mod_unload() "releases the resources" (comment at mod_unload): it frees each
\* bucket once, also when several buckets were created.
FreedOnce == "double_free" \notin faults

\* A client that asks for tokens gets them (or the process ends): a signal
\* that arrives between the test of token and pause() delays it by one period,
\* it never blocks it for good.
FetchReturns == InFetch ~> (pc = "idle" \/ ~Running)

=============================================================================
