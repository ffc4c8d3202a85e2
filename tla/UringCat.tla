------------------------------ MODULE UringCat ------------------------------
(***************************************************************************)
(* uring_test/uring_cat.c: files are read one by one through the rings it  *)
(* shares with the kernel, whose indices are unsigned and wrap around.     *)
(***************************************************************************)
EXTENDS Integers, Sequences, FiniteSets, SequencesExt

CONSTANTS
    Files,       \* the arguments are the files 1 .. Files
    SqEntries,   \* entries of the rings: QUEUE_DEPTH, and twice as many
    CqEntries,
    FaultSets,   \* the sets of what may go wrong
    Wrap         \* 2^32, a multiple of both: where the indices wrap around

VARIABLES
    cat,         \* where the program is
    turn,        \* i of main()
    sqHead, sqTail, sqes,
    cqHead, cqTail, cqes,
    head,        \* the local of read_from_cq()
    flying,      \* reads the kernel works on
    completed,   \* every completion so far, [file, res]: for the properties
    printed,     \* what was written to stdout
    faults       \* what may go wrong in this execution, see UringCopy

vars == <<cat, turn, sqHead, sqTail, sqes, cqHead, cqTail, cqes, head, flying,
          completed, printed, faults>>

NoFile == [file |-> 0, res |-> "none"]

\* app_setup_uring(), with indices about to wrap.
Init ==
    /\ cat = "submit"
    /\ turn = 1
    /\ sqHead = Wrap - 1 /\ sqTail = Wrap - 1
    /\ sqes = [i \in 0 .. SqEntries - 1 |-> 0]
    /\ cqHead = Wrap - 1 /\ cqTail = Wrap - 1 /\ head = Wrap - 1
    /\ cqes = [i \in 0 .. CqEntries - 1 |-> NoFile]
    /\ flying = {}
    /\ completed = <<>>
    /\ printed = <<>>
    /\ faults \in FaultSets

Next1(index) == (index + 1) % Wrap

\* Mutant: the new tail is not stored.
OldTail == sqTail

NewTail == Next1(sqTail)

\* submit_to_sq() up to the new tail: the file and its blocks are in an sqe.
submit_to_sq ==
    /\ cat = "submit"
    /\ turn <= Files
    /\ sqes' = [sqes EXCEPT ![sqTail % SqEntries] = turn]
    /\ sqTail' = NewTail
    /\ cat' = "enter"
    /\ UNCHANGED <<faults, turn, sqHead, cqHead, cqTail, cqes, head, flying, completed, printed>>

\* No such file, no memory, or io_uring_enter() fails: return 1 of main().
GivesUp ==
    /\ \/ cat = "submit" /\ turn <= Files /\ "malloc" \in faults
       \/ cat = "enter" /\ "submit" \in faults
    /\ cat' = "failed"
    /\ UNCHANGED <<faults, turn, sqHead, sqTail, sqes, cqHead, cqTail, cqes, head, flying,
                   completed, printed>>

\* io_uring_enter(): the kernel takes one sqe.
io_uring_enter ==
    /\ cat = "enter"
    /\ sqHead # sqTail
    /\ flying' = flying \cup {sqes[sqHead % SqEntries]}
    /\ sqHead' = Next1(sqHead)
    /\ cat' = "wait"
    /\ UNCHANGED <<faults, turn, sqTail, sqes, cqHead, cqTail, cqes, head, completed, printed>>

\* It returns with a completion in the ring; or it was interrupted, and gives
\* the number of sqes taken all the same.
EnterReturns ==
    /\ cat = "wait"
    /\ cqHead # cqTail \/ "wait" \in faults
    /\ head' = cqHead
    /\ cat' = "read"
    /\ UNCHANGED <<faults, turn, sqHead, sqTail, sqes, cqHead, cqTail, cqes, flying, completed,
                   printed>>

\* A read completes; without room in the ring its completion waits.
Completes(f, res) ==
    /\ f \in flying
    /\ (cqTail - cqHead) % Wrap < CqEntries
    /\ res \in {"whole"} \cup (faults \cap {"short", "io"})
    /\ cqes' = [cqes EXCEPT ![cqTail % CqEntries] = [file |-> f, res |-> res]]
    /\ cqTail' = Next1(cqTail)
    /\ flying' = flying \ {f}
    /\ completed' = Append(completed, [file |-> f, res |-> res])
    /\ UNCHANGED <<faults, cat, turn, sqHead, sqTail, sqes, cqHead, head, printed>>

\* Mutant: the mask of the other ring.
SqMasked(index) == index % SqEntries

Masked(index) == index % CqEntries

\* read_from_cq(): all blocks of the file are printed, whatever the result is.
read_from_cq ==
    /\ cat = "read"
    /\ head # cqTail
    /\ printed' = Append(printed, cqes[Masked(head)])
    /\ head' = Next1(head)
    /\ UNCHANGED <<faults, cat, turn, sqHead, sqTail, sqes, cqHead, cqTail, cqes, flying, completed>>

ReadEnds ==
    /\ cat = "read"
    /\ head = cqTail
    /\ cqHead' = head
    /\ turn' = turn + 1
    /\ cat' = "submit"
    /\ UNCHANGED <<faults, sqHead, sqTail, sqes, cqTail, cqes, head, flying, completed, printed>>

Returns ==
    /\ cat = "submit"
    /\ turn = Files + 1
    /\ cat' = "done"
    /\ UNCHANGED <<faults, turn, sqHead, sqTail, sqes, cqHead, cqTail, cqes, head, flying,
                   completed, printed>>

Program ==
    submit_to_sq \/ io_uring_enter \/ EnterReturns \/ read_from_cq \/ ReadEnds \/ Returns

Kernel == \E f \in 1 .. Files, res \in {"whole", "short", "io"} : Completes(f, res)

Next == Program \/ GivesUp \/ Kernel

-----------------------------------------------------------------------------
TypeOK ==
    /\ cat \in {"submit", "enter", "wait", "read", "done", "failed"}
    /\ turn \in 1 .. Files + 1
    /\ {sqHead, sqTail, cqHead, cqTail, head} \subseteq 0 .. Wrap - 1
    /\ (sqTail - sqHead) % Wrap <= SqEntries /\ (cqTail - cqHead) % Wrap <= CqEntries
    /\ flying \subseteq 1 .. Files

\* Completions are printed once each and in their order, also when the indices
\* wrap around and when a wait that was cut short leaves some for a later turn.
\* Without interrupts this is the order of the arguments, and none is missing.
PrintsCompletions ==
    /\ IsPrefix(printed, completed)
    /\ cat \in {"submit", "done"} /\ "wait" \notin faults =>
           [i \in DOMAIN printed |-> printed[i].file] = [i \in 1 .. turn - 1 |-> i]

=============================================================================
