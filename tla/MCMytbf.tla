------------------------------ MODULE MCMytbf ------------------------------
(* The token buckets for TLC: heap blocks are interchangeable. *)
EXTENDS MytbfSignal, TLC

BufSymmetry == Permutations(Bufs)

=============================================================================
