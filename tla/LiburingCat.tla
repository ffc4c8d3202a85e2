---------------------------- MODULE LiburingCat ----------------------------
(***************************************************************************)
(* uring_test/liburing_cat.c: the same by liburing, one completion for one *)
(* file.  A completion that is not marked as seen stays the next one.      *)
(***************************************************************************)
EXTENDS Integers, Sequences, FiniteSets, SequencesExt

CONSTANTS
    Files,       \* the arguments are the files 1 .. Files
    QUEUE_DEPTH,
    FaultSets    \* the sets of what may go wrong

VARIABLES
    cat,         \* where the program is
    turn,        \* i of main()
    prepared,    \* sqes that are not submitted
    flying,      \* reads the kernel works on
    queue,       \* completions that are not seen, [file, res]
    completed,   \* every completion so far: for the properties
    printed,     \* what was written to stdout
    faults       \* what may go wrong in this execution, see UringCopy

vars == <<cat, turn, prepared, flying, queue, completed, printed, faults>>

Init ==
    /\ cat = "submit"
    /\ turn = 1
    /\ prepared = <<>>
    /\ flying = {}
    /\ queue = <<>>
    /\ completed = <<>>
    /\ printed = <<>>
    /\ faults \in FaultSets

\* submit_read_request(): io_uring_submit() takes what is prepared, or fails,
\* which nobody looks at.
submit_read_request ==
    /\ cat = "submit"
    /\ turn <= Files
    /\ Len(prepared) < QUEUE_DEPTH
    /\ \/ /\ flying' = flying \cup ToSet(prepared) \cup {turn}
          /\ prepared' = <<>>
       \/ /\ "submit" \in faults
          /\ prepared' = Append(prepared, turn)
          /\ UNCHANGED flying
    /\ cat' = "wait"
    /\ UNCHANGED <<faults, turn, queue, completed, printed>>

\* No sqe is free: io_uring_get_sqe() gives NULL, which is written to.
NoSqe ==
    /\ cat = "submit"
    /\ turn <= Files
    /\ Len(prepared) = QUEUE_DEPTH
    /\ cat' = "crashed"
    /\ UNCHANGED <<faults, turn, prepared, flying, queue, completed, printed>>

\* No such file: return 1 of main().
GivesUp ==
    /\ "malloc" \in faults
    /\ cat = "submit"
    /\ turn <= Files
    /\ cat' = "failed"
    /\ UNCHANGED <<faults, turn, prepared, flying, queue, completed, printed>>

NextTurn == turn' = turn + 1 /\ cat' = "submit"

\* The wait is interrupted, or the read failed: return 1, which main() ignores.
\* The completion of the read is not marked as seen.
PrintsNothing ==
    /\ cat = "wait"
    /\ "wait" \in faults \/ (queue # <<>> /\ Head(queue).res = "io")
    /\ NextTurn
    /\ UNCHANGED <<faults, prepared, flying, queue, completed, printed>>

\* Mutant: it is not marked as seen.
NotSeen == queue

Seen == Tail(queue)

\* get_completion_and_print(): all blocks are printed, also of a short read.
get_completion_and_print ==
    /\ cat = "wait"
    /\ queue # <<>>
    /\ Head(queue).res # "io"
    /\ printed' = Append(printed, Head(queue))
    /\ queue' = Seen
    /\ NextTurn
    /\ UNCHANGED <<faults, prepared, flying, completed>>

Returns ==
    /\ cat = "submit"
    /\ turn = Files + 1
    /\ cat' = "done"
    /\ UNCHANGED <<faults, turn, prepared, flying, queue, completed, printed>>

Completes(f, res) ==
    /\ f \in flying
    /\ res \in {"whole"} \cup (faults \cap {"short", "io"})
    /\ flying' = flying \ {f}
    /\ queue' = Append(queue, [file |-> f, res |-> res])
    /\ completed' = Append(completed, [file |-> f, res |-> res])
    /\ UNCHANGED <<faults, cat, turn, prepared, printed>>

Program == submit_read_request \/ NoSqe \/ PrintsNothing \/ get_completion_and_print \/ Returns

Kernel == \E f \in 1 .. Files, res \in {"whole", "short", "io"} : Completes(f, res)

Next == Program \/ GivesUp \/ Kernel

-----------------------------------------------------------------------------
TypeOK ==
    /\ cat \in {"submit", "wait", "done", "failed", "crashed"}
    /\ turn \in 1 .. Files + 1
    /\ Len(prepared) <= QUEUE_DEPTH
    /\ flying \subseteq 1 .. Files

\* Completions are printed once each and in their order, up to the first that
\* failed: nothing is printed after it, for it is never marked as seen.
PrintsCompletions ==
    /\ IsPrefix(printed, completed)
    /\ \A i \in DOMAIN printed : printed[i].res # "io"
    /\ completed = printed \o queue

=============================================================================
