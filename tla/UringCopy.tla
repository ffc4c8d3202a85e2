----------------------------- MODULE UringCopy -----------------------------
(***************************************************************************)
(* uring_test/uring_copy.c: a file is copied block by block through an     *)
(* io_uring.  Two actors: the program (copy_file) and the kernel, which    *)
(* takes submitted requests in any order and posts their completions.      *)
(*                                                                         *)
(* A byte of the input is its offset, so a byte of the output is right     *)
(* when it equals its own offset.  A request is known by its io_data: the  *)
(* program touches an io_data only before it submits it and after its      *)
(* completion, so the kernel may read iov and offset from it.              *)
(***************************************************************************)
EXTENDS Integers, Sequences, FiniteSets, SequencesExt

CONSTANTS
    QUEUE_DEPTH,   \* entries of the ring, and blocks on their way
    BLOCK_SZ,      \* bytes of a block
    FileSize,      \* insize as get_file_size() finds it
    IoData,        \* the io_data blocks malloc() may return
    FaultSets      \* what may go wrong, for each kind of execution to be looked at

ASSUME ConstantsAssumption ==
    /\ QUEUE_DEPTH \in Nat \ {0}
    /\ BLOCK_SZ \in Nat \ {0}
    /\ FileSize \in Nat
    /\ IsFiniteSet(IoData)
    /\ FaultSets \subseteq SUBSET {"malloc", "submit", "wait", "io", "eagain", "short"}

VARIABLES
    insize,      \* bytes still to be queued for reading
    write_left,  \* bytes still to be queued for writing
    offset,      \* offset of the next read
    reads,       \* blocks being read
    writes,      \* blocks being written
    had_reads,   \* reads when this round of the outer loop began
    got_comp,    \* this round has waited for a completion
    heap,        \* the io_data that are allocated
    io,          \* their fields; base is iov_base - (data + 1), len is iov_len
    buf,         \* the bytes behind each io_data
    sq,          \* requests prepared but not submitted
    inflight,    \* requests the kernel works on
    cq,          \* completions: [data, res]
    out,         \* the output file
    pc,          \* "top", "fill", "reap": in copy_file(); "return", "exited"
    result,      \* what copy_file() returned
    faults       \* what may go wrong in this execution; never changes

counters == <<insize, write_left, offset, reads, writes>>
memory == <<heap, io, buf>>
ring == <<sq, inflight, cq>>
vars == <<insize, write_left, offset, reads, writes, had_reads, got_comp,
          heap, io, buf, sq, inflight, cq, out, pc, result, faults>>

EAGAIN == -1
EIO == -2
HOLE == -1      \* a byte never written
JUNK == -2      \* a byte of a fresh malloc()

FileBytes == 0 .. FileSize - 1
BlockBytes == 0 .. BLOCK_SZ - 1

\* Mutant: a block is always BLOCK_SZ long.
AlwaysBlock(a, b) == b

Least(a, b) == IF a < b THEN a ELSE b

IoDataType == [read : BOOLEAN, first_offset : Nat, offset : Nat,
               first_len : Nat, base : Nat, len : Nat]

-----------------------------------------------------------------------------
(* The program: queue reads while there is room.                            *)

\* The outer loop: another round, or copy_file() returns 0.
OuterLoop ==
    /\ pc = "top"
    /\ IF insize # 0 \/ write_left # 0
       THEN pc' = "fill" /\ had_reads' = reads /\ UNCHANGED result
       ELSE pc' = "return" /\ result' = "success" /\ UNCHANGED had_reads
    /\ UNCHANGED <<faults, counters, got_comp, memory, ring, out>>

\* Mutant: blocks being written are not counted.
RoomIgnoringWrites == insize # 0 /\ reads < QUEUE_DEPTH

RoomToRead == insize # 0 /\ reads + writes < QUEUE_DEPTH

\* io_uring_get_sqe() has an entry to give.
SqeFree == Len(sq) < QUEUE_DEPTH

\* queue_read() for the next block.
queue_read ==
    /\ pc = "fill"
    /\ RoomToRead
    /\ SqeFree
    /\ \E d \in IoData \ heap :
         LET this_size == Least(insize, BLOCK_SZ) IN
         /\ heap' = heap \cup {d}
         /\ io' = [io EXCEPT ![d] =
                [read |-> TRUE, first_offset |-> offset, offset |-> offset,
                 first_len |-> this_size, base |-> 0, len |-> this_size]]
         /\ buf' = [buf EXCEPT ![d] = [i \in BlockBytes |-> JUNK]]
         /\ sq' = Append(sq, d)
         /\ insize' = insize - this_size
         /\ offset' = offset + this_size
    /\ reads' = reads + 1
    /\ UNCHANGED <<faults, write_left, writes, had_reads, got_comp, inflight, cq, out, pc, result>>

\* The loop that queues reads is over: no room, no input left, or queue_read()
\* fails for want of memory or of an sqe.
FillEnds == ~RoomToRead \/ ~SqeFree \/ "malloc" \in faults

\* The kernel takes every prepared request.
SubmitAll ==
    /\ inflight' = inflight \cup ToSet(sq)
    /\ sq' = <<>>

\* What was queued is submitted; without a new read nothing is.  When
\* io_uring_submit() fails, break leaves the outer loop: copy_file() returns 0.
Submit ==
    /\ pc = "fill"
    /\ FillEnds
    /\ \/ /\ had_reads # reads
          /\ SubmitAll
          /\ pc' = "reap"
          /\ got_comp' = FALSE
          /\ UNCHANGED result
       \/ /\ had_reads # reads
          /\ "submit" \in faults
          /\ pc' = "return"
          /\ result' = "success"
          /\ UNCHANGED <<got_comp, inflight, sq>>
       \/ /\ had_reads = reads
          /\ pc' = "reap"
          /\ got_comp' = FALSE
          /\ UNCHANGED <<result, inflight, sq>>
    /\ UNCHANGED <<faults, counters, had_reads, memory, cq, out>>

-----------------------------------------------------------------------------
(* The program: reap completions.  The first of a round is waited for, the  *)
(* others are peeked; io_uring_wait_cqe() does not submit.                  *)

InnerLoop == pc = "reap" /\ write_left # 0
HasCqe == InnerLoop /\ cq # <<>>
cqe == Head(cq)
data == cqe.data

\* Mutant: the completion is not marked as seen.
Unseen == UNCHANGED cq

\* io_uring_cqe_seen()
Seen == cq' = Tail(cq)

\* The loop over completions ends: everything is queued for writing, or a
\* peek finds no completion.
InnerLoopEnds ==
    /\ pc = "reap"
    /\ write_left = 0 \/ (got_comp /\ cq = <<>>)
    /\ pc' = "top"
    /\ UNCHANGED <<faults, counters, had_reads, got_comp, memory, ring, out, result>>

\* io_uring_wait_cqe() fails (it is interrupted): return 1.
WaitFails ==
    /\ InnerLoop
    /\ ~got_comp
    /\ "wait" \in faults
    /\ pc' = "return"
    /\ result' = "failure"
    /\ UNCHANGED <<faults, counters, had_reads, got_comp, memory, ring, out>>

\* queue_prepped(): the request joins the ones prepared.  assert(sqe) is the
\* invariant AssertSqe.
queue_prepped(d) == sq' = Append(sq, d)

\* res = -EAGAIN: the request is prepared again.
RetryRequest ==
    /\ HasCqe
    /\ cqe.res = EAGAIN
    /\ queue_prepped(data)
    /\ Seen
    /\ got_comp' = TRUE
    /\ UNCHANGED <<faults, counters, had_reads, memory, inflight, out, pc, result>>

\* Any other error: return 1.
RequestFails ==
    /\ HasCqe
    /\ cqe.res < 0 /\ cqe.res # EAGAIN
    /\ pc' = "return"
    /\ result' = "failure"
    /\ got_comp' = TRUE
    /\ UNCHANGED <<faults, counters, had_reads, memory, ring, out>>

\* Fewer bytes than asked for: the rest is prepared, at data->offset.
ResumeRequest ==
    /\ HasCqe
    /\ cqe.res >= 0 /\ cqe.res # io[data].len
    /\ io' = [io EXCEPT ![data].base = @ + cqe.res, ![data].len = @ - cqe.res]
    /\ queue_prepped(data)
    /\ Seen
    /\ got_comp' = TRUE
    /\ UNCHANGED <<faults, counters, had_reads, heap, buf, inflight, out, pc, result>>

\* Mutant: the block is written where the next block is to be read.
TurnedToReadOffset(d) == [io[d] EXCEPT !.read = FALSE, !.offset = offset, !.base = 0,
                                       !.len = io[d].first_len]

\* queue_write() turns an io_data that is read into one to write, from its
\* first byte.
TurnedRound(d) == [io[d] EXCEPT !.read = FALSE, !.offset = io[d].first_offset, !.base = 0,
                                !.len = io[d].first_len]

\* Mutant: the write is prepared but not submitted.
PrepareOnly(d) == queue_prepped(d) /\ UNCHANGED inflight

\* The request is prepared and, with all others, submitted; a submit that
\* fails goes unnoticed.
PrepareAndSubmit(d) ==
    \/ inflight' = inflight \cup ToSet(sq) \cup {d} /\ sq' = <<>>
    \/ "submit" \in faults /\ queue_prepped(d) /\ UNCHANGED inflight

\* A block is read: its write is queued.
queue_write ==
    /\ HasCqe
    /\ cqe.res = io[data].len
    /\ io[data].read
    /\ io' = [io EXCEPT ![data] = TurnedRound(data)]
    /\ PrepareAndSubmit(data)
    /\ write_left' = write_left - io[data].first_len
    /\ reads' = reads - 1
    /\ writes' = writes + 1
    /\ Seen
    /\ got_comp' = TRUE
    /\ UNCHANGED <<faults, insize, offset, had_reads, heap, buf, out, pc, result>>

\* A block is written.
WriteDone ==
    /\ HasCqe
    /\ cqe.res = io[data].len
    /\ ~io[data].read
    /\ heap' = heap \ {data}
    /\ writes' = writes - 1
    /\ Seen
    /\ got_comp' = TRUE
    /\ UNCHANGED <<faults, insize, write_left, offset, reads, had_reads, io, buf, sq, inflight,
                   out, pc, result>>

\* main() closes both files and the ring and exits; a request that the kernel
\* has not finished is cancelled.
Exit ==
    /\ pc = "return"
    /\ pc' = "exited"
    /\ inflight' = {}
    /\ UNCHANGED <<faults, counters, had_reads, got_comp, memory, sq, cq, out, result>>

-----------------------------------------------------------------------------
(* The kernel.                                                              *)

\* The bytes a transfer of k bytes of request d moves, as positions in its
\* buffer.
Moved(d, k) == io[d].base .. io[d].base + k - 1

\* Read k bytes of the input at the request's offset into its buffer.
ReadBytes(d, k) ==
    buf' = [buf EXCEPT ![d] = [i \in BlockBytes |->
               IF i \in Moved(d, k) THEN io[d].offset + i - io[d].base ELSE @[i]]]

\* Write k bytes of its buffer at the request's offset of the output.
WriteBytes(d, k) ==
    out' = [p \in FileBytes |->
               IF p - io[d].offset \in 0 .. k - 1
               THEN buf[d][io[d].base + p - io[d].offset] ELSE out[p]]

Post(d, res) ==
    /\ inflight' = inflight \ {d}
    /\ cq' = Append(cq, [data |-> d, res |-> res])
    /\ UNCHANGED <<faults, counters, had_reads, got_comp, heap, io, sq, pc, result>>

\* A request is done, wholly or (a signal, a full disk) in part.
KernelTransfers(d) ==
    /\ d \in inflight
    /\ \E k \in (IF "short" \in faults THEN 1 ELSE io[d].len) .. io[d].len :
         /\ IF io[d].read THEN ReadBytes(d, k) /\ UNCHANGED out
                          ELSE WriteBytes(d, k) /\ UNCHANGED buf
         /\ Post(d, k)

\* A request fails.
KernelFails(d) ==
    /\ d \in inflight
    /\ \/ "eagain" \in faults /\ Post(d, EAGAIN)
       \/ "io" \in faults /\ Post(d, EIO)
    /\ UNCHANGED <<buf, out>>

Kernel == \E d \in IoData : KernelTransfers(d) \/ KernelFails(d)

-----------------------------------------------------------------------------
Init ==
    /\ insize = FileSize
    /\ write_left = FileSize
    /\ offset = 0
    /\ reads = 0
    /\ writes = 0
    /\ had_reads = 0
    /\ got_comp = FALSE
    /\ heap = {}
    /\ io = [d \in IoData |-> [read |-> FALSE, first_offset |-> 0, offset |-> 0,
                               first_len |-> 0, base |-> 0, len |-> 0]]
    /\ buf = [d \in IoData |-> [i \in BlockBytes |-> JUNK]]
    /\ sq = <<>>
    /\ inflight = {}
    /\ cq = <<>>
    /\ out = [p \in FileBytes |-> HOLE]
    /\ pc = "top"
    /\ result = "none"
    /\ faults \in FaultSets

Program ==
    \/ OuterLoop \/ queue_read \/ Submit \/ InnerLoopEnds
    \/ RetryRequest \/ RequestFails \/ ResumeRequest \/ queue_write \/ WriteDone
    \/ Exit

Exited == pc = "exited" /\ UNCHANGED vars

Next == Program \/ WaitFails \/ Kernel \/ Exited

\* The program is scheduled and the kernel finishes what it was given; a signal
\* that interrupts the wait need never come.
Fairness == WF_vars(Program) /\ WF_vars(Kernel)

Spec == Init /\ [][Next]_vars /\ Fairness

-----------------------------------------------------------------------------
(* Properties.                                                              *)

\* Every variable has its type.
TypeOK ==
    /\ insize \in 0 .. FileSize
    /\ write_left \in 0 .. FileSize
    /\ offset \in 0 .. FileSize
    /\ reads \in Nat
    /\ writes \in Nat
    /\ had_reads \in Nat
    /\ got_comp \in BOOLEAN
    /\ heap \subseteq IoData
    /\ io \in [IoData -> IoDataType]
    /\ buf \in [IoData -> [BlockBytes -> FileBytes \cup {JUNK}]]
    /\ sq \in Seq(IoData)
    /\ inflight \subseteq IoData
    /\ cq \in Seq([data : IoData, res : Int])
    /\ out \in [FileBytes -> FileBytes \cup {HOLE, JUNK}]
    /\ pc \in {"top", "fill", "reap", "return", "exited"}
    /\ result \in {"none", "success", "failure"}
    /\ faults \in FaultSets

\* assert(sqe) in queue_prepped(): whatever is re-queued finds an entry in the
\* submission ring, although re-queued requests are not submitted at once.
AssertSqe ==
    HasCqe /\ (cqe.res = EAGAIN \/ (cqe.res >= 0 /\ ~(cqe.res = io[data].len /\ ~io[data].read)))
        => SqeFree

\* Each allocated io_data is in exactly one place: prepared, in the kernel, or
\* completed.  So the program never frees, re-bases or re-queues a block whose
\* request the kernel still works on, and loses none.
OneOwner ==
    pc # "exited" =>
        /\ heap = ToSet(sq) \cup inflight \cup {cq[i].data : i \in DOMAIN cq}
        /\ Cardinality(heap) = Len(sq) + Cardinality(inflight) + Len(cq)
        /\ Cardinality(heap) = reads + writes

\* What the queues rest on, whatever goes wrong: types, an entry for whatever is
\* queued again, one place for every block.
QueuesSound == TypeOK /\ AssertSqe /\ OneOwner

\* The output never holds a byte of another place of the input, nor one that
\* was never read: "the read was not full: adjust and go on reading" (comment
\* at ResumeRequest).
NoWrongByte == \A p \in FileBytes : out[p] \in {HOLE, p}

\* As long as every transfer is whole the output never holds a wrong byte,
\* whatever order blocks are transferred in and whatever is tried again.
WholeTransfersRight == "short" \notin faults => NoWrongByte

\* When copy_file() returns 0, every byte is in the output or in a write whose
\* completion was not looked at (it may fail yet); nothing is left unread or
\* unqueued.  Not so after a submit that failed or a short transfer.
SuccessCoversFile ==
    pc = "return" /\ result = "success" /\ faults \cap {"submit", "short"} = {} =>
        LET pending == inflight \cup {cq[i].data : i \in DOMAIN cq} IN
        \A p \in FileBytes :
            \/ out[p] = p
            \/ \E d \in pending : ~io[d].read /\ p - io[d].offset \in 0 .. io[d].len - 1
                                 /\ buf[d][p - io[d].offset] = p

\* The copy comes to an end, also when requests fail, as long as none has to be
\* prepared again and memory lasts: what is prepared is submitted, what is
\* submitted is waited for.
Terminates == faults \subseteq {"wait", "io"} => <>(pc = "exited")

Blocks == {p \in FileBytes : p % BLOCK_SZ = 0}

\* The block copy that the queues implement: where a block is, seen from the
\* io_data that carries it.
Phase(b) ==
    LET carriers == {d \in heap : io[d].first_offset = b} IN
    IF \E d \in carriers : io[d].read THEN "read"
    ELSE IF carriers # {} THEN "write"
    ELSE IF b >= offset THEN "todo" ELSE "done"

Abstract == INSTANCE BlockCopy WITH
    Blocks <- Blocks, Depth <- QUEUE_DEPTH, phase <- [b \in Blocks |-> Phase(b)]

\* copy_file() implements the block copy: every block goes through its phases
\* once, in order, whatever short transfers, retries and errors come between.
CopiesBlocks == Abstract!Spec

=============================================================================
