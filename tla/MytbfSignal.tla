---------------------------- MODULE MytbfSignal ----------------------------
(***************************************************************************)
(* The older token buckets signal/mytbf/mytbf.c and mytbf_sigaction.c,     *)
(* beside the library of Mytbf: an execution is one of the library that    *)
(* "variant" names.  The older ones load once (inited), look at no result  *)
(* but malloc()'s, and never set pos.  mytbf.c rearms alarm() and refills  *)
(* for any SIGALRM; mytbf_sigaction.c looks at si_code.                    *)
(***************************************************************************)
EXTENDS Mytbf

CONSTANT Garbage     \* what pos may hold in memory that malloc() gives

ASSUME GarbageAssumption == Garbage \subseteq Nat

VARIABLES
    variant,     \* "itimer" (libmytbf), "alarm" or "sigaction"
    inited,      \* inited of the older ones
    misplaced    \* observer: a destroy cleared an entry that was not its bucket's

older == variant # "itimer"
olderVars == <<variant, inited, misplaced>>
allVars == <<vars, olderVars>>

-----------------------------------------------------------------------------
(* SIGALRM.                                                                 *)

Entries(b) == Cardinality({i \in Slots : job[i] = b})

\* The loop of the handlers: an entry at a time, each cut at burst.
OlderRefills ==
    LET used == {job[i] : i \in Slots} IN
    /\ token' = [b \in Bufs |->
                    IF b \in used THEN Lesser(token[b] + Entries(b) * csp[b], burst[b])
                    ELSE token[b]]
    /\ faults' = IF used \subseteq live THEN faults ELSE faults \cup {"use_after_free"}
    /\ win' = IF win.b \in used THEN Watched([win EXCEPT !.ticks = @ + 1]) ELSE win

\* The timer expires, alarm() or the periodic one; it is armed again.
OlderTimer ==
    /\ pc \notin {"dead", "killed"}
    /\ timer = "armed"
    /\ \/ sigact = "handler" /\ OlderRefills /\ Resume /\ UNCHANGED timer
       \/ KilledBySignal
    /\ UNCHANGED <<live, params, job, sigact, old_sa, atexits, locals, olderVars>>

\* SIGALRM from another process: sigalrm_handler() refills and calls alarm(1),
\* alrm_action() returns.
OlderUserSignal ==
    /\ Running
    /\ sigact = "handler"
    /\ IF variant = "alarm"
       THEN OlderRefills /\ timer' = "armed"
       ELSE UNCHANGED <<token, faults, win, timer>>
    /\ Resume
    /\ UNCHANGED <<live, params, job, sigact, old_sa, atexits, locals, olderVars>>

-----------------------------------------------------------------------------
(* The calls.                                                               *)

\* mytbf_init(): module_load() the first time only; it begins with signal() or
\* sigaction().  (Bound: with MaxLoads = 1 there is one call.)
older_init(c, m) ==
    /\ pc = "idle"
    /\ inited => MaxLoads > 1
    /\ cps' = c
    /\ burstArg' = m
    /\ IF inited
       THEN pc' = "slot" /\ UNCHANGED <<old_sa, sigact>>
       ELSE pc' = "load" /\ old_sa' = sigact /\ sigact' = "handler"
    /\ UNCHANGED <<live, params, token, job, timer, atexits, tbf, size, reg, n, faults,
                   win, olderVars>>

\* Mutant: inited is not set, as in the library.
NeverInited == inited

Inited == TRUE

\* alarm() or setitimer(), atexit(), inited = 1.  None of them can fail with the
\* constant arguments it has (setitimer(): EFAULT, EINVAL only), nor is any
\* result looked at.
module_load ==
    /\ pc = "load"
    /\ timer' = "armed"
    /\ atexits' = atexits + 1
    /\ inited' = Inited
    /\ pc' = "slot"
    /\ UNCHANGED <<live, params, token, job, sigact, old_sa, locals, faults, win,
                   variant, misplaced>>

\* The rest of mytbf_init(): pos is what the memory held.
OlderSlot ==
    /\ pc = "slot"
    /\ FreePositions # {}
    /\ "ok" \in CallResults
    /\ \E b \in Bufs \ live, g \in Garbage :
         /\ live' = live \cup {b}
         /\ token' = [token EXCEPT ![b] = 0]
         /\ csp' = [csp EXCEPT ![b] = cps]
         /\ burst' = [burst EXCEPT ![b] = burstArg]
         /\ pos' = [pos EXCEPT ![b] = g]
         /\ job' = [job EXCEPT ![get_free_pos] = b]
    /\ pc' = "idle"
    /\ UNCHANGED <<process, locals, faults, win, olderVars>>

\* A call with a size; only a negative one is refused.
OlderCall(b, s, at) ==
    /\ pc = "idle"
    /\ b \in live
    /\ s >= 0
    /\ tbf' = b
    /\ size' = s
    /\ pc' = at
    /\ UNCHANGED <<live, params, token, job, process, cps, burstArg, n, faults, win, olderVars>>

older_fetchtoken(b, s) == OlderCall(b, s, "test") /\ UNCHANGED reg
older_returntoken(b, s) == OlderCall(b, s, "rstore") /\ reg' = token[b]

\* n = min(me->token, size): min() is a function, its argument is read once.
OlderMin ==
    /\ pc = "compare"
    /\ Reload
    /\ n' = Lesser(reg', size)
    /\ pc' = "take"
    /\ UNCHANGED <<live, params, token, job, process, tbf, size, cps, burstArg, faults, win,
                   olderVars>>

\* mytbf_destroy(): job[me->pos] = NULL, whichever entry that is, or none.
older_destroy(b) ==
    /\ pc = "idle"
    /\ b \in live
    /\ tbf' = b
    /\ job' = IF pos[b] \in Positions THEN [job EXCEPT ![pos[b]] = NULL] ELSE job
    /\ misplaced' = (misplaced \/ (pos[b] \in Positions => job[pos[b]] # b))
    /\ pc' = "free"
    /\ UNCHANGED <<live, params, token, process, size, cps, burstArg, reg, n, faults,
                   win, variant, inited>>

\* alarm(0), or setitimer() with zeros, in module_unload().
OlderTimerOff ==
    /\ pc = "unload2"
    /\ timer' = "off"
    /\ pc' = "unload3"
    /\ UNCHANGED <<live, params, token, job, sigact, old_sa, atexits, locals, faults, win,
                   olderVars>>

-----------------------------------------------------------------------------
AllInit ==
    /\ Init
    /\ variant \in {"itimer", "alarm", "sigaction"}
    /\ inited = FALSE
    /\ misplaced = FALSE

\* A step that the older libraries have in common with Mytbf.
Same(A) == A /\ UNCHANGED olderVars

OlderClient ==
    \/ \E c \in CpsSet, m \in BurstSet : older_init(c, m)
    \/ \E b \in Bufs : older_destroy(b) \/ Same(OpenWindow(b))
    \/ \E b \in Bufs, s \in Sizes : older_fetchtoken(b, s) \/ older_returntoken(b, s)
    \/ Same(Exit)

OlderThread ==
    \/ module_load \/ OlderSlot \/ Same(InitFails)
    \/ Same(FetchTest \/ FetchPause) \/ OlderMin \/ Same(FetchLoad \/ FetchStore)
    \/ Same(ReturnStore \/ ReturnCap \/ DestroyFree)
    \/ Same(mod_unload) \/ OlderTimerOff \/ Same(UnloadFree \/ ExitDone)

AllNext ==
    \/ variant = "itimer" /\ Same(Next)
    \/ older /\ (OlderClient \/ OlderThread \/ OlderTimer \/ OlderUserSignal \/ Same(Ended))

\* As in Mytbf: the thread is scheduled, an armed timer expires.
AllSpec ==
    /\ AllInit /\ [][AllNext]_allVars
    /\ WF_allVars(variant = "itimer" /\ Same(Thread))
    /\ WF_allVars(variant = "itimer" /\ Same(TimerExpires))
    /\ WF_allVars(older /\ OlderThread)
    /\ WF_allVars(older /\ OlderTimer)

-----------------------------------------------------------------------------
\* An entry of job[] is an allocated bucket, each bucket has one entry.
EntriesRight ==
    Running =>
        /\ \A i \in Slots : job[i] \in live
        /\ \A b \in live : Entries(b) = 1 \/ (pc = "free" /\ b = tbf)

\* The table and the heap agree in every order of init, destroy, exit and the
\* handler, and no freed bucket is refilled: always in libmytbf, and in the
\* older libraries until a bucket is destroyed whose pos is not its index.
TableSound ==
    /\ ~older => Registered /\ NoUseAfterFree
    /\ older => misplaced \/ (EntriesRight /\ NoUseAfterFree)

\* "Call it once only, for the same signal cannot be registered twice" (comment
\* at inited): exit restores the disposition of before and frees every bucket
\* once, however many buckets there were.
LoadsOnce ==
    older =>
        /\ atexits <= 1 /\ OldSaIsOriginal
        /\ misplaced \/ FreedOnce

=============================================================================
