---------------------------- MODULE IoUringTest ----------------------------
(***************************************************************************)
(* uring_test/io_uring-test.c: the first QD blocks of a file are read at   *)
(* once; the completions are counted until one is not what was wanted.     *)
(***************************************************************************)
EXTENDS Integers, Sequences, FiniteSets, SequencesExt

CONSTANTS
    QD,
    Block,       \* 4096
    MaxSize,     \* bound on the size of the file
    FaultSets    \* the sets of what may go wrong

VARIABLES
    test,        \* where the program is
    st_size,     \* the size of the file; never changes
    queued,      \* reads that are queued: 0 .. queued - 1
    flying,      \* reads the kernel works on
    order,       \* the completions, [read, res], in their order
    done,        \* completions the loop has counted
    fsize,       \* and the sum of their results
    faults       \* what may go wrong in this execution, see UringCopy

vars == <<test, st_size, queued, flying, order, done, fsize, faults>>

Init ==
    /\ test = "prepare"
    /\ st_size \in 0 .. MaxSize
    /\ queued = 0
    /\ flying = {}
    /\ order = <<>>
    /\ done = 0
    /\ fsize = 0
    /\ faults \in FaultSets

\* The loop that prepares reads: until one starts beyond the end of the file,
\* or no sqe is left.
Prepared == queued > 0 /\ (queued * Block > st_size \/ queued = QD)

Prepare ==
    /\ test = "prepare"
    /\ ~Prepared
    /\ queued' = queued + 1
    /\ UNCHANGED <<faults, test, st_size, flying, order, done, fsize>>

io_uring_submit ==
    /\ test = "prepare"
    /\ Prepared
    /\ flying' = 0 .. queued - 1
    /\ test' = "wait"
    /\ UNCHANGED <<faults, st_size, queued, order, done, fsize>>

\* io_uring_submit() or io_uring_wait_cqe() fails: return.
GivesUp ==
    /\ \/ test = "prepare" /\ Prepared /\ "submit" \in faults
       \/ test = "wait" /\ done < queued /\ "wait" \in faults
    /\ test' = "failed"
    /\ UNCHANGED <<faults, st_size, queued, flying, order, done, fsize>>

EIO == -1

\* The bytes of the file in block r, which read r gives when it is not cut short.
Holds(r) == IF (r + 1) * Block <= st_size THEN Block ELSE st_size - r * Block

\* Mutant: only whole blocks.
WholeOnly(res) == res = Block

\* A whole block, or what is left of the file.
Wanted(res) == res = Block \/ res + fsize = st_size

\* io_uring_wait_cqe() and the check of its completion.
Count ==
    /\ test = "wait"
    /\ done < queued
    /\ Len(order) > done
    /\ LET res == order[done + 1].res IN
       /\ fsize' = fsize + res
       /\ test' = IF Wanted(res) THEN "wait" ELSE "stopped"
    /\ done' = done + 1
    /\ UNCHANGED <<faults, st_size, queued, flying, order>>

\* The loop is over.
Returns ==
    /\ test = "wait"
    /\ done = queued
    /\ test' = "returned"
    /\ UNCHANGED <<faults, st_size, queued, flying, order, done, fsize>>

\* What the kernel may answer: a read can fail, and can be short of the file.
Results(r) ==
    {Holds(r)} \cup (IF "io" \in faults THEN {EIO} ELSE {})
               \cup (IF "short" \in faults THEN 0 .. Holds(r) - 1 ELSE {})

Completes ==
    \E r \in flying, res \in EIO .. Block :
        /\ res \in Results(r)
        /\ flying' = flying \ {r}
        /\ order' = Append(order, [read |-> r, res |-> res])
        /\ UNCHANGED <<faults, test, st_size, queued, done, fsize>>

Next == Prepare \/ io_uring_submit \/ GivesUp \/ Count \/ Returns \/ Completes

-----------------------------------------------------------------------------
TypeOK ==
    /\ test \in {"prepare", "wait", "stopped", "failed", "returned"}
    /\ st_size \in 0 .. MaxSize
    /\ queued \in 0 .. QD /\ done \in 0 .. queued
    /\ flying \cup {order[i].read : i \in DOMAIN order} \subseteq 0 .. queued - 1
    /\ fsize \in EIO .. st_size

\* The program stops at a read that failed or that is short of what the file has
\* there, and else only at the last part of the file, when the kernel completed it
\* before another; what it counts to the end is what the first QD blocks hold.
Verdict ==
    /\ test = "stopped" =>
           LET c == order[done] IN c.res < Holds(c.read) \/ (c.res < Block /\ done < queued)
    /\ test = "returned" =>
           /\ fsize = IF st_size < QD * Block THEN st_size ELSE QD * Block
           /\ \A i \in 1 .. queued - 1 : order[i].res = Block

=============================================================================
