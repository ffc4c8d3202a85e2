----------------------------- MODULE BlockCopy -----------------------------
(***************************************************************************)
(* What uring_copy promises, without its queues: every block of the input  *)
(* is read once, then written once, then done, and at most Depth blocks    *)
(* are on their way at a time.                                             *)
(***************************************************************************)
EXTENDS Naturals, FiniteSets

CONSTANTS Blocks, Depth

VARIABLE phase   \* where each block is: "todo", "read", "write" or "done"

Busy == {b \in Blocks : phase[b] \in {"read", "write"}}

Init == phase = [b \in Blocks |-> "todo"]

StartRead(b) ==
    /\ phase[b] = "todo"
    /\ Cardinality(Busy) < Depth
    /\ phase' = [phase EXCEPT ![b] = "read"]

StartWrite(b) ==
    /\ phase[b] = "read"
    /\ phase' = [phase EXCEPT ![b] = "write"]

Finish(b) ==
    /\ phase[b] = "write"
    /\ phase' = [phase EXCEPT ![b] = "done"]

Next == \E b \in Blocks : StartRead(b) \/ StartWrite(b) \/ Finish(b)

Spec == Init /\ [][Next]_phase

=============================================================================
