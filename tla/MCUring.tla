------------------------------ MODULE MCUring ------------------------------
(***************************************************************************)
(* The programs that read files by io_uring, for TLC: uring_copy, the two  *)
(* cats and io_uring-test.  An execution is one of the program that        *)
(* "program" names; the rest stays as it is.                               *)
(***************************************************************************)
EXTENDS UringCopy

CONSTANTS
    Files,       \* the cats' arguments
    SqEntries, CqEntries, Wrap,  \* the rings of uring_cat and its indices
    CatDepth,    \* QUEUE_DEPTH of liburing_cat
    QD, Block, MaxSize           \* io_uring-test: reads, their length, the file

ASSUME ProgramsAssumption ==
    /\ {Files, SqEntries, CqEntries, CatDepth, QD, Block} \subseteq Nat \ {0}
    /\ MaxSize \in Nat
    /\ Wrap \in Nat /\ SqEntries < Wrap /\ CqEntries < Wrap
    /\ Wrap % SqEntries = 0 /\ Wrap % CqEntries = 0

VARIABLES program, cat, turn, sqHead, sqTail, sqes, cqHead, cqTail, cqes, head, flying,
          completed, printed, prepared, queue, test, st_size, queued, order, done, fsize

copyVars == <<counters, had_reads, got_comp, memory, ring, out, pc, result>>
rawVars == <<sqHead, sqTail, sqes, cqHead, cqTail, cqes, head>>
libVars == <<prepared, queue>>
catVars == <<cat, turn, completed, printed>>
testVars == <<test, st_size, queued, order, done, fsize>>
mcVars == <<copyVars, rawVars, libVars, catVars, testVars, flying, faults, program>>

Raw == INSTANCE UringCat
Lib == INSTANCE LiburingCat WITH QUEUE_DEPTH <- CatDepth
Test == INSTANCE IoUringTest

MCInit ==
    /\ program \in {"uring_copy", "uring_cat", "liburing_cat", "io_uring-test"}
    /\ Init
    /\ Raw!Init /\ Lib!Init
    /\ Test!Init /\ (program # "io_uring-test" => st_size = 0)

Copy(A) == program = "uring_copy" /\ A
           /\ UNCHANGED <<rawVars, libVars, catVars, testVars, flying, program>>
CatRaw(A) == program = "uring_cat" /\ A
             /\ UNCHANGED <<copyVars, libVars, testVars, program>>
CatLib(A) == program = "liburing_cat" /\ A
             /\ UNCHANGED <<copyVars, rawVars, testVars, program>>
Tests(A) == program = "io_uring-test" /\ A
            /\ UNCHANGED <<copyVars, rawVars, libVars, catVars, program>>

MCNext == Copy(Next) \/ CatRaw(Raw!Next) \/ CatLib(Lib!Next) \/ Tests(Test!Next)

\* The programs run and the kernel completes what it was given.
MCSpec ==
    /\ MCInit /\ [][MCNext]_mcVars
    /\ WF_mcVars(Copy(Program)) /\ WF_mcVars(Copy(Kernel))
    /\ WF_mcVars(CatRaw(Raw!Program)) /\ WF_mcVars(CatRaw(Raw!Kernel))
    /\ WF_mcVars(CatLib(Lib!Program)) /\ WF_mcVars(CatLib(Lib!Kernel))

-----------------------------------------------------------------------------
\* The copy comes to its end.
CopyEnds == program = "uring_copy" => Terminates

\* Both cats print every completion once and in order.
PrintsRight ==
    /\ program = "uring_cat" => Raw!TypeOK /\ Raw!PrintsCompletions
    /\ program = "liburing_cat" => Lib!TypeOK /\ Lib!PrintsCompletions

\* Both cats come to their end, whatever fails but io_uring_submit(), whose
\* result liburing_cat does not look at.
CatsEnd ==
    program \in {"uring_cat", "liburing_cat"} /\ "submit" \notin faults =>
        <>(cat \in {"done", "failed"})

\* What io_uring-test makes of completions in any order.
TestRight == program = "io_uring-test" => Test!TypeOK /\ Test!Verdict

=============================================================================
