--------------------------- MODULE UringCopy_proof ---------------------------
(***************************************************************************)
(* Proofs about the file copy, for every size of the ring, of the blocks   *)
(* and of the file, and everything that may go wrong: its queues are sound *)
(* (Queues); as long as transfers are whole no wrong byte is written       *)
(* (WholeTransfers) and success covers the file (SuccessCovers); and       *)
(* copy_file() copies every block once (Refinement).                       *)
(***************************************************************************)
EXTENDS UringCopy, FiniteSetTheorems, SequenceTheorems, TLAPS

\* The io_data of completions; no two completions of one; no repetition.
Completed(q) == {q[i].data : i \in DOMAIN q}
Distinct(q) == \A i, j \in DOMAIN q : q[i].data = q[j].data => i = j
NoRepeat(s) == \A i, j \in DOMAIN s : s[i] = s[j] => i = j
Completions == [data : IoData, res : Int]

\* A sequence without repetitions has as many elements as it is long.
LEMMA InjectiveLen ==
    ASSUME NEW n \in Nat, NEW T, NEW f \in [1 .. n -> T],
           \A t \in T : \E i \in 1 .. n : f[i] = t,
           \A i, j \in 1 .. n : f[i] = f[j] => i = j
    PROVE  Cardinality(T) = n
<1>1. f \in Bijection(1 .. n, T)
  BY DEF Bijection, Injection, Surjection, IsInjective
<1>2. IsFiniteSet(1 .. n) /\ Cardinality(1 .. n) = n
  BY FS_Interval
<1>3. ExistsBijection(1 .. n, T)
  BY <1>1 DEF ExistsBijection
<1> QED  BY <1>2, <1>3, FS_Bijection, Zenon

\* The submission queue holds as many io_data as it is long.
LEMMA SeqCardinality ==
    ASSUME NEW s \in Seq(IoData), NoRepeat(s)
    PROVE  Cardinality(ToSet(s)) = Len(s)
<1>1. Len(s) \in Nat /\ s \in [1 .. Len(s) -> IoData] /\ DOMAIN s = 1 .. Len(s)
  BY LenProperties
<1>2. s \in [1 .. Len(s) -> ToSet(s)] /\ \A t \in ToSet(s) : \E i \in 1 .. Len(s) : s[i] = t
  BY <1>1 DEF ToSet
<1>3. \A i, j \in 1 .. Len(s) : s[i] = s[j] => i = j
  BY <1>1 DEF NoRepeat
<1> QED  BY <1>1, <1>2, <1>3, InjectiveLen

\* So does the completion queue.
LEMMA CompletedCardinality ==
    ASSUME NEW q \in Seq(Completions), Distinct(q)
    PROVE  Cardinality(Completed(q)) = Len(q)
<1> DEFINE f == [i \in 1 .. Len(q) |-> q[i].data]
<1>1. Len(q) \in Nat /\ DOMAIN q = 1 .. Len(q)
  BY LenProperties
<1>2. f \in [1 .. Len(q) -> Completed(q)]
  BY <1>1 DEF Completed
<1>3. \A i, j \in 1 .. Len(q) : f[i] = f[j] => i = j
  BY <1>1 DEF Distinct
<1>4. \A t \in Completed(q) : \E i \in 1 .. Len(q) : f[i] = t
  BY <1>1 DEF Completed
<1> HIDE DEF f
<1> QED  BY <1>1, <1>2, <1>3, <1>4, InjectiveLen

\* queue_prepped() of an io_data that is not prepared yet.
LEMMA Prepare ==
    ASSUME NEW s \in Seq(IoData), NoRepeat(s), NEW d \in IoData, d \notin ToSet(s)
    PROVE  /\ Append(s, d) \in Seq(IoData)
           /\ NoRepeat(Append(s, d))
           /\ ToSet(Append(s, d)) = ToSet(s) \cup {d}
<1> DEFINE t == Append(s, d)
<1>1. /\ t \in Seq(IoData) /\ DOMAIN t = 1 .. Len(s) + 1 /\ DOMAIN s = 1 .. Len(s)
      /\ Len(s) \in Nat
      /\ \A i \in 1 .. Len(s) : t[i] = s[i]
      /\ t[Len(s) + 1] = d
  OBVIOUS
<1> HIDE DEF t
<1>2. ToSet(t) = ToSet(s) \cup {d}
  BY <1>1 DEF ToSet
<1>3. NoRepeat(t)
  BY <1>1 DEF NoRepeat, ToSet
<1> QED  BY <1>1, <1>2, <1>3 DEF t

\* The kernel posts the completion of an io_data that has none yet.
LEMMA Posted ==
    ASSUME NEW q \in Seq(Completions), Distinct(q), NEW c \in Completions,
           c.data \notin Completed(q)
    PROVE  /\ Append(q, c) \in Seq(Completions)
           /\ Distinct(Append(q, c))
           /\ Completed(Append(q, c)) = Completed(q) \cup {c.data}
           /\ \A i \in DOMAIN Append(q, c) :
                 Append(q, c)[i] = c \/ \E j \in DOMAIN q : Append(q, c)[i] = q[j]
<1> DEFINE t == Append(q, c)
<1>1. /\ t \in Seq(Completions) /\ DOMAIN t = 1 .. Len(q) + 1 /\ DOMAIN q = 1 .. Len(q)
      /\ Len(q) \in Nat
      /\ \A i \in 1 .. Len(q) : t[i] = q[i]
      /\ t[Len(q) + 1] = c
  OBVIOUS
<1> HIDE DEF t
<1>2. Completed(t) = Completed(q) \cup {c.data}
  BY <1>1 DEF Completed
<1>3. Distinct(t)
  BY <1>1 DEF Distinct, Completed
<1>4. \A i \in DOMAIN t : t[i] = c \/ \E j \in DOMAIN q : t[i] = q[j]
  BY <1>1
<1> QED  BY <1>1, <1>2, <1>3, <1>4 DEF t

\* io_uring_cqe_seen() takes the first completion away.
LEMMA Taken ==
    ASSUME NEW q \in Seq(Completions), Distinct(q), q # <<>>
    PROVE  /\ Tail(q) \in Seq(Completions)
           /\ Distinct(Tail(q))
           /\ Completed(Tail(q)) = Completed(q) \ {Head(q).data}
           /\ Head(q).data \in Completed(q)
           /\ Head(q) = q[1] /\ 1 \in DOMAIN q
           /\ \A i \in DOMAIN Tail(q) : \E j \in DOMAIN q : Tail(q)[i] = q[j]
<1> DEFINE t == Tail(q)
<1>1. /\ t \in Seq(Completions) /\ DOMAIN t = 1 .. Len(q) - 1 /\ DOMAIN q = 1 .. Len(q)
      /\ Len(q) \in Nat \ {0}
      /\ \A i \in 1 .. Len(q) - 1 : t[i] = q[i + 1]
      /\ Head(q) = q[1]
  BY HeadTailProperties
<1> HIDE DEF t
<1>2. Completed(t) = Completed(q) \ {Head(q).data}
  <2>1. \A i \in DOMAIN t : i + 1 \in DOMAIN q /\ t[i] = q[i + 1] /\ i + 1 # 1
    BY <1>1
  <2>2. Completed(t) \subseteq Completed(q) \ {Head(q).data}
    BY <1>1, <2>1 DEF Completed, Distinct
  <2>3. \A j \in DOMAIN q : j # 1 => j - 1 \in DOMAIN t /\ t[j - 1] = q[j]
    BY <1>1
  <2>4. Completed(q) \ {Head(q).data} \subseteq Completed(t)
    BY <1>1, <2>3 DEF Completed
  <2> QED  BY <2>2, <2>4
<1>6. \A i \in DOMAIN t : i + 1 \in DOMAIN q /\ t[i] = q[i + 1]
  BY <1>1
<1>3. Distinct(t)
  <2> SUFFICES ASSUME NEW i \in DOMAIN t, NEW j \in DOMAIN t, t[i].data = t[j].data
               PROVE  i = j
    BY DEF Distinct
  <2>1. i + 1 = j + 1
    BY <1>6 DEF Distinct
  <2> QED  BY <1>1, <2>1
<1>4. Head(q).data \in Completed(q) /\ 1 \in DOMAIN q
  BY <1>1 DEF Completed
<1>5. \A i \in DOMAIN t : \E j \in DOMAIN q : t[i] = q[j]
  BY <1>6
<1> QED  BY <1>1, <1>2, <1>3, <1>4, <1>5 DEF t

-----------------------------------------------------------------------------
\* Positions of the block an io_data carries; which are read, which written;
\* positions whose write is not queued yet.
Block(d) == io[d].first_offset .. io[d].first_offset + io[d].first_len - 1
Reading == {d \in heap : io[d].read}
Writing == {d \in heap : ~io[d].read}
ToWrite == {p \in FileBytes : p >= offset \/ \E d \in Reading : p \in Block(d)}

\* An io_data is prepared, with the kernel or completed, and only once.
OwnersInv ==
    /\ NoRepeat(sq)
    /\ Distinct(cq)
    /\ ToSet(sq) \cap inflight = {}
    /\ ToSet(sq) \cap Completed(cq) = {}
    /\ inflight \cap Completed(cq) = {}
    /\ pc # "exited" => heap = ToSet(sq) \cup inflight \cup Completed(cq)
    /\ pc = "exited" => inflight = {}

\* The counters count, and bound what is on its way.
CountsInv ==
    /\ reads = Cardinality(Reading)
    /\ writes = Cardinality(Writing)
    /\ reads + writes <= QUEUE_DEPTH

\* A request covers the end of its block from base on; blocks do not overlap.
BlocksInv ==
    /\ offset + insize = FileSize
    /\ \A d \in heap :
          /\ io[d].offset = io[d].first_offset
          /\ io[d].first_len \in 1 .. BLOCK_SZ
          /\ io[d].len >= 1
          /\ io[d].base + io[d].len = io[d].first_len
          /\ io[d].first_offset + io[d].first_len <= offset
    /\ \A d, e \in heap : d # e =>
          \/ io[d].first_offset + io[d].first_len <= io[e].first_offset
          \/ io[e].first_offset + io[e].first_len <= io[d].first_offset

\* write_left counts every byte that has no write yet.
LeftInv == write_left = Cardinality(ToWrite)

\* A transfer is of one byte at least and of what was asked for at most.
ResultsInv ==
    \A i \in DOMAIN cq : cq[i].res \in {EAGAIN, EIO} \cup 1 .. io[cq[i].data].len

\* The inductive invariant.
IInv == TypeOK /\ OwnersInv /\ CountsInv /\ BlocksInv /\ LeftInv /\ ResultsInv

-----------------------------------------------------------------------------
\* What the program may rely on when it looks at a completion.
LEMMA HeadCompletion ==
    ASSUME IInv, HasCqe
    PROVE  /\ cq \in Seq(Completions) /\ sq \in Seq(IoData)
           /\ data \in IoData /\ data \in heap
           /\ data \notin ToSet(sq) /\ data \notin inflight
           /\ cqe.res \in {EAGAIN, EIO} \cup 1 .. io[data].len
           /\ pc = "reap"
           /\ Tail(cq) \in Seq(Completions)
           /\ Distinct(Tail(cq))
           /\ Completed(Tail(cq)) = Completed(cq) \ {data}
           /\ \A i \in DOMAIN Tail(cq) : \E j \in DOMAIN cq : Tail(cq)[i] = cq[j]
<1>1. cq \in Seq(Completions) /\ sq \in Seq(IoData) /\ cq # <<>> /\ pc = "reap"
  BY DEF IInv, TypeOK, Completions, HasCqe, InnerLoop
<1>2. Distinct(cq)
  BY DEF IInv, OwnersInv
<1>3. /\ Tail(cq) \in Seq(Completions)
      /\ Distinct(Tail(cq))
      /\ Completed(Tail(cq)) = Completed(cq) \ {data}
      /\ data \in Completed(cq)
      /\ cqe = cq[1] /\ 1 \in DOMAIN cq
      /\ \A i \in DOMAIN Tail(cq) : \E j \in DOMAIN cq : Tail(cq)[i] = cq[j]
  BY <1>1, <1>2, Taken DEF data, cqe
<1>4. data \in heap /\ data \notin ToSet(sq) /\ data \notin inflight /\ data \in IoData
  BY <1>1, <1>3 DEF IInv, OwnersInv, TypeOK
<1>5. cqe.res \in {EAGAIN, EIO} \cup 1 .. io[data].len
  BY <1>3 DEF IInv, ResultsInv, data
<1> QED  BY <1>1, <1>3, <1>4, <1>5

\* No step loses an io_data or gives it a second owner.
LEMMA OwnersStep ==
    ASSUME IInv, Next
    PROVE  OwnersInv'
<1> USE DEF OwnersInv
<1>0. /\ sq \in Seq(IoData) /\ cq \in Seq(Completions) /\ heap \subseteq IoData
      /\ inflight \subseteq IoData
      /\ OwnersInv
  BY DEF IInv, TypeOK, Completions
<1>e. NoRepeat(<<>>) /\ ToSet(<<>>) = {}
  BY DEF NoRepeat, ToSet
<1>1. CASE OuterLoop
  BY <1>0, <1>1 DEF OuterLoop, memory, ring
<1>2. CASE queue_read
  <2>1. PICK d \in IoData \ heap : heap' = heap \cup {d} /\ sq' = Append(sq, d)
    BY <1>2 DEF queue_read
  <2>2. pc = "fill" /\ pc' = "fill" /\ inflight' = inflight /\ cq' = cq
    BY <1>2 DEF queue_read
  <2>3. d \notin ToSet(sq) /\ d \notin inflight /\ d \notin Completed(cq)
    BY <1>0, <2>1, <2>2
  <2>4. NoRepeat(Append(sq, d)) /\ ToSet(Append(sq, d)) = ToSet(sq) \cup {d}
    BY <1>0, <2>3, Prepare
  <2> QED  BY <1>0, <2>1, <2>2, <2>3, <2>4
<1>3. CASE Submit
  <2>1. cq' = cq /\ heap' = heap /\ pc = "fill" /\ pc' # "exited"
    BY <1>3 DEF Submit, memory
  <2>2. \/ inflight' = inflight \cup ToSet(sq) /\ sq' = <<>>
        \/ inflight' = inflight /\ sq' = sq
    BY <1>3 DEF Submit, SubmitAll
  <2> QED  BY <1>0, <1>e, <2>1, <2>2
<1>4. CASE InnerLoopEnds
  BY <1>0, <1>4 DEF InnerLoopEnds, memory, ring
<1>5. CASE RetryRequest
  <2>1. NoRepeat(Append(sq, data)) /\ ToSet(Append(sq, data)) = ToSet(sq) \cup {data}
    BY <1>5, HeadCompletion, <1>0, Prepare DEF RetryRequest
  <2> QED  BY <1>0, <1>5, <2>1, HeadCompletion DEF RetryRequest, queue_prepped, Seen, memory
<1>6. CASE RequestFails
  BY <1>0, <1>6 DEF RequestFails, HasCqe, InnerLoop, memory, ring
<1>7. CASE ResumeRequest
  <2>1. NoRepeat(Append(sq, data)) /\ ToSet(Append(sq, data)) = ToSet(sq) \cup {data}
    BY <1>7, HeadCompletion, <1>0, Prepare DEF ResumeRequest
  <2> QED  BY <1>0, <1>7, <2>1, HeadCompletion DEF ResumeRequest, queue_prepped, Seen
<1>8. CASE queue_write
  <2>1. NoRepeat(Append(sq, data)) /\ ToSet(Append(sq, data)) = ToSet(sq) \cup {data}
    BY <1>8, HeadCompletion, <1>0, Prepare DEF queue_write
  <2>2. heap' = heap /\ cq' = Tail(cq) /\ pc' = pc /\ HasCqe
    BY <1>8 DEF queue_write, Seen
  <2>3. \/ inflight' = inflight \cup ToSet(sq) \cup {data} /\ sq' = <<>>
        \/ sq' = Append(sq, data) /\ inflight' = inflight
    BY <1>8 DEF queue_write, PrepareAndSubmit, queue_prepped
  <2> QED  BY <1>0, <1>e, <2>1, <2>2, <2>3, HeadCompletion
<1>9. CASE WriteDone
  BY <1>0, <1>9, HeadCompletion DEF WriteDone, Seen
<1>10. CASE Exit
  BY <1>0, <1>10 DEF Exit, memory
<1>11. CASE WaitFails
  BY <1>0, <1>11 DEF WaitFails, InnerLoop, memory, ring
<1>12. ASSUME NEW d \in IoData, KernelTransfers(d) \/ KernelFails(d)
       PROVE  OwnersInv'
  <2>1. PICK res \in Int : Post(d, res)
    BY <1>12 DEF KernelTransfers, KernelFails, EAGAIN, EIO, IInv, TypeOK, IoDataType
  <2>2. d \in inflight
    BY <1>12 DEF KernelTransfers, KernelFails
  <2>3. [data |-> d, res |-> res] \in Completions
    BY DEF Completions
  <2>4. /\ Distinct(Append(cq, [data |-> d, res |-> res]))
        /\ Completed(Append(cq, [data |-> d, res |-> res])) = Completed(cq) \cup {d}
    BY <1>0, <2>2, <2>3, Posted
  <2> QED  BY <1>0, <2>1, <2>2, <2>4 DEF Post
<1>13. CASE Exited
  BY <1>0, <1>13 DEF Exited, vars
<1> QED  BY <1>1, <1>2, <1>3, <1>4, <1>5, <1>6, <1>7, <1>8, <1>9, <1>10, <1>11, <1>12, <1>13
         DEF Next, Program, Kernel

-----------------------------------------------------------------------------
\* Only four actions change the counters, the io_data or their fields.
LEMMA StepKinds ==
    ASSUME Next
    PROVE  \/ UNCHANGED <<insize, write_left, offset, reads, writes, heap, io>>
           \/ queue_read \/ ResumeRequest \/ queue_write \/ WriteDone
<1> USE DEF counters, memory
<1>1. CASE OuterLoop
  BY <1>1 DEF OuterLoop
<1>2. CASE Submit
  BY <1>2 DEF Submit
<1>3. CASE InnerLoopEnds
  BY <1>3 DEF InnerLoopEnds
<1>4. CASE RetryRequest
  BY <1>4 DEF RetryRequest
<1>5. CASE RequestFails
  BY <1>5 DEF RequestFails
<1>6. CASE Exit
  BY <1>6 DEF Exit
<1>7. CASE WaitFails
  BY <1>7 DEF WaitFails
<1>8. CASE Kernel
  BY <1>8 DEF Kernel, KernelTransfers, KernelFails, Post
<1>9. CASE Exited
  BY <1>9 DEF Exited, vars
<1> QED  BY <1>1, <1>2, <1>3, <1>4, <1>5, <1>6, <1>7, <1>8, <1>9 DEF Next, Program

\* What each kind of step does to the blocks.
LEMMA ReadQueued ==
    ASSUME TypeOK, queue_read
    PROVE  \E d \in IoData \ heap :
              LET k == Least(insize, BLOCK_SZ) IN
              /\ k \in 1 .. BLOCK_SZ /\ k <= insize
              /\ heap' = heap \cup {d}
              /\ io' = [io EXCEPT ![d] =
                     [read |-> TRUE, first_offset |-> offset, offset |-> offset,
                      first_len |-> k, base |-> 0, len |-> k]]
              /\ io' \in [IoData -> IoDataType]
              /\ io'[d].read
              /\ \A e \in heap : io'[e] = io[e]
              /\ insize' = insize - k
              /\ offset' = offset + k
<1>1. Least(insize, BLOCK_SZ) \in 1 .. BLOCK_SZ /\ Least(insize, BLOCK_SZ) <= insize
  BY ConstantsAssumption DEF TypeOK, queue_read, RoomToRead, Least
<1>2. PICK d \in IoData \ heap :
        LET k == Least(insize, BLOCK_SZ) IN
              /\ heap' = heap \cup {d}
              /\ io' = [io EXCEPT ![d] =
                     [read |-> TRUE, first_offset |-> offset, offset |-> offset,
                      first_len |-> k, base |-> 0, len |-> k]]
              /\ insize' = insize - k
              /\ offset' = offset + k
  BY DEF queue_read
<1>3. io' \in [IoData -> IoDataType]
  BY <1>1, <1>2, ConstantsAssumption DEF TypeOK, IoDataType
<1>4. io'[d].read /\ \A e \in heap : io'[e] = io[e]
  BY <1>2 DEF TypeOK
<1> QED  BY <1>1, <1>2, <1>3, <1>4

\* reads and writes count the io_data that are read and written.
LEMMA CountsStep ==
    ASSUME IInv, Next
    PROVE  CountsInv'
<1> USE DEF CountsInv
<1>0. TypeOK /\ CountsInv /\ heap \subseteq IoData /\ IsFiniteSet(heap)
  BY ConstantsAssumption, FS_Subset DEF IInv, TypeOK
<1>1. IsFiniteSet(Reading) /\ IsFiniteSet(Writing)
  BY <1>0, FS_Subset DEF Reading, Writing
<1>2. Cardinality(Reading) \in Nat /\ Cardinality(Writing) \in Nat
  BY <1>1, FS_CardinalityType
<1>3. CASE UNCHANGED <<insize, write_left, offset, reads, writes, heap, io>>
  BY <1>0, <1>3 DEF Reading, Writing
<1>4. CASE queue_read
  <2>1. PICK d \in IoData \ heap : 
          heap' = heap \cup {d} /\ io' \in [IoData -> IoDataType] /\ io'[d].read
          /\ \A e \in heap : io'[e] = io[e]
    BY <1>0, <1>4, ReadQueued
  <2>2. Reading' = Reading \cup {d} /\ Writing' = Writing
    BY <2>1 DEF Reading, Writing
  <2>3. Cardinality(Reading') = Cardinality(Reading) + 1
    BY <1>1, <2>1, <2>2, FS_AddElement DEF Reading
  <2>4. reads' = reads + 1 /\ writes' = writes /\ reads + writes < QUEUE_DEPTH
    BY <1>4 DEF queue_read, RoomToRead
  <2> QED  BY <1>0, <1>2, <2>2, <2>3, <2>4, ConstantsAssumption DEF TypeOK
<1>5. CASE ResumeRequest
  <2>1. heap' = heap /\ reads' = reads /\ writes' = writes /\ \A e \in IoData : io'[e].read = io[e].read
    BY <1>0, <1>5 DEF ResumeRequest, counters, TypeOK, IoDataType
  <2> QED  BY <1>0, <2>1 DEF Reading, Writing
<1>6. CASE queue_write
  <2>1. data \in heap /\ io[data].read
    BY <1>6, HeadCompletion DEF queue_write
  <2>2. /\ heap' = heap /\ ~io'[data].read
        /\ \A e \in heap \ {data} : io'[e] = io[e]
    BY <1>0, <1>6, <2>1 DEF queue_write, TurnedRound, TypeOK
  <2>3. Reading' = Reading \ {data} /\ Writing' = Writing \cup {data}
    BY <2>1, <2>2 DEF Reading, Writing
  <2>4. data \in Reading /\ data \notin Writing
    BY <2>1 DEF Reading, Writing
  <2>5. Cardinality(Reading') = Cardinality(Reading) - 1
    BY <1>1, <2>3, <2>4, FS_RemoveElement
  <2>6. Cardinality(Writing') = Cardinality(Writing) + 1
    BY <1>1, <2>3, <2>4, FS_AddElement
  <2> QED  BY <1>0, <1>2, <1>6, <2>5, <2>6, ConstantsAssumption DEF queue_write, TypeOK
<1>7. CASE WriteDone
  <2>1. data \in heap /\ ~io[data].read /\ heap' = heap \ {data} /\ io' = io
    BY <1>7, HeadCompletion DEF WriteDone
  <2>2. Reading' = Reading /\ Writing' = Writing \ {data} /\ data \in Writing
    BY <2>1 DEF Reading, Writing
  <2>3. Cardinality(Writing') = Cardinality(Writing) - 1
    BY <1>1, <2>2, FS_RemoveElement
  <2> QED  BY <1>0, <1>2, <1>7, <2>2, <2>3, ConstantsAssumption DEF WriteDone, TypeOK
<1> QED  BY <1>3, <1>4, <1>5, <1>6, <1>7, StepKinds

\* The blocks on their way stay within the input read so far, and apart.
LEMMA BlocksStep ==
    ASSUME IInv, Next
    PROVE  BlocksInv'
<1> USE DEF BlocksInv
<1>0. TypeOK /\ BlocksInv /\ heap \subseteq IoData /\ io \in [IoData -> IoDataType]
      /\ insize \in Int /\ offset \in Nat
  BY DEF IInv, TypeOK
<1>1. CASE UNCHANGED <<insize, write_left, offset, reads, writes, heap, io>>
  BY <1>0, <1>1
<1>2. CASE queue_read
  <2>1. PICK d \in IoData \ heap :
              LET k == Least(insize, BLOCK_SZ) IN
              /\ k \in 1 .. BLOCK_SZ /\ k <= insize
              /\ heap' = heap \cup {d}
              /\ io' = [io EXCEPT ![d] =
                     [read |-> TRUE, first_offset |-> offset, offset |-> offset,
                      first_len |-> k, base |-> 0, len |-> k]]
              /\ insize' = insize - k
              /\ offset' = offset + k
    BY <1>0, <1>2, ReadQueued
  <2>2. /\ io'[d] = [read |-> TRUE, first_offset |-> offset, offset |-> offset,
                      first_len |-> Least(insize, BLOCK_SZ), base |-> 0, len |-> Least(insize, BLOCK_SZ)]
        /\ \A e \in heap : io'[e] = io[e]
    BY <1>0, <2>1
  <2>3. \A e \in heap : io[e] \in IoDataType
    BY <1>0
  <2>4. \A e \in heap : io[e].first_offset \in Nat /\ io[e].first_len \in Nat
    BY <2>3 DEF IoDataType
  <2>5. offset' + insize' = FileSize
    BY <1>0, <2>1, ConstantsAssumption
  <2>6. \A e \in heap : io[e].first_offset + io[e].first_len <= offset'
    BY <1>0, <2>1, <2>4, ConstantsAssumption
  <2>7. /\ io'[d].offset = io'[d].first_offset
        /\ io'[d].first_len \in 1 .. BLOCK_SZ
        /\ io'[d].len >= 1
        /\ io'[d].base + io'[d].len = io'[d].first_len
        /\ io'[d].first_offset + io'[d].first_len <= offset'
    BY <1>0, <2>1, <2>2, ConstantsAssumption
  <2>8. \A e \in heap : io'[e].first_offset + io'[e].first_len <= io'[d].first_offset
    BY <1>0, <2>2
  <2> QED  BY <1>0, <2>1, <2>2, <2>5, <2>6, <2>7, <2>8
<1>3. CASE ResumeRequest
  <2>1. data \in heap /\ heap' = heap /\ insize' = insize /\ offset' = offset
        /\ cqe.res \in 1 .. io[data].len /\ cqe.res # io[data].len
        /\ io' = [io EXCEPT ![data].base = @ + cqe.res, ![data].len = @ - cqe.res]
    BY <1>3, HeadCompletion DEF ResumeRequest, counters, EAGAIN, EIO
  <2>2. \A e \in heap : io[e] \in IoDataType
    BY <1>0
  <2>3. \A e \in heap : io[e].base \in Nat /\ io[e].len \in Nat /\ io[e].first_len \in Nat
    BY <2>2 DEF IoDataType
  <2>4. \A e \in heap : /\ io'[e].offset = io[e].offset
                        /\ io'[e].first_offset = io[e].first_offset
                        /\ io'[e].first_len = io[e].first_len
                        /\ e # data => io'[e] = io[e]
    BY <1>0, <2>1 DEF IoDataType
  <2>5. io'[data].base = io[data].base + cqe.res /\ io'[data].len = io[data].len - cqe.res
    BY <1>0, <2>1 DEF IoDataType
  <2>6. io'[data].base + io'[data].len = io'[data].first_len /\ io'[data].len >= 1
    BY <1>0, <2>1, <2>3, <2>4, <2>5
  <2> QED  BY <1>0, <2>1, <2>4, <2>6
<1>4. CASE queue_write
  <2>1. data \in heap /\ heap' = heap /\ insize' = insize /\ offset' = offset
        /\ io' = [io EXCEPT ![data] = TurnedRound(data)]
    BY <1>4, HeadCompletion DEF queue_write
  <2>2. io[data] \in IoDataType
    BY <1>0, <2>1
  <2>3. \A e \in heap \ {data} : io'[e] = io[e]
    BY <1>0, <2>1
  <2>4. /\ io'[data].offset = io[data].first_offset
        /\ io'[data].first_offset = io[data].first_offset
        /\ io'[data].first_len = io[data].first_len
        /\ io'[data].base = 0
        /\ io'[data].len = io[data].first_len
    BY <1>0, <2>1, <2>2 DEF TurnedRound, IoDataType
  <2>5. io[data].first_len \in Nat
    BY <2>2 DEF IoDataType
  <2> QED  BY <1>0, <2>1, <2>3, <2>4, <2>5
<1>5. CASE WriteDone
  <2>1. heap' = heap \ {data} /\ io' = io /\ insize' = insize /\ offset' = offset
    BY <1>5 DEF WriteDone
  <2> QED  BY <1>0, <2>1
<1> QED  BY <1>1, <1>2, <1>3, <1>4, <1>5, StepKinds

\* write_left counts the bytes whose write is not queued.
LEMMA LeftStep ==
    ASSUME IInv, Next
    PROVE  LeftInv'
<1> USE DEF LeftInv
<1>0. TypeOK /\ BlocksInv /\ LeftInv /\ heap \subseteq IoData /\ io \in [IoData -> IoDataType]
      /\ insize \in Int /\ offset \in Nat
  BY DEF IInv, TypeOK
<1>1. CASE UNCHANGED <<insize, write_left, offset, reads, writes, heap, io>>
  BY <1>0, <1>1 DEF ToWrite, Reading, Block
<1>2. CASE queue_read
  <2>1. PICK d \in IoData \ heap :
              LET k == Least(insize, BLOCK_SZ) IN
              /\ k \in 1 .. BLOCK_SZ /\ k <= insize
              /\ heap' = heap \cup {d}
              /\ io' = [io EXCEPT ![d] =
                     [read |-> TRUE, first_offset |-> offset, offset |-> offset,
                      first_len |-> k, base |-> 0, len |-> k]]
              /\ io'[d].read
              /\ \A e \in heap : io'[e] = io[e]
              /\ insize' = insize - k
              /\ offset' = offset + k
    BY <1>0, <1>2, ReadQueued
  <2>2. io'[d].first_offset = offset /\ io'[d].first_len = Least(insize, BLOCK_SZ)
    BY <1>0, <2>1
  <2>3. Block(d)' = offset .. offset' - 1
    BY <1>0, <2>1, <2>2 DEF Block
  <2>4. \A e \in heap : Block(e)' = Block(e)
    BY <2>1 DEF Block
  <2>5. Reading' = Reading \cup {d}
    BY <2>1 DEF Reading
  <2>6. \A p \in FileBytes : p >= offset <=> p >= offset' \/ p \in Block(d)'
    BY <1>0, <2>1, <2>3, ConstantsAssumption DEF FileBytes
  <2>7. \A e \in Reading : Block(e)' = Block(e)
    BY <2>4 DEF Reading
  <2>8. ToWrite' = {p \in FileBytes : p >= offset' \/ \E e \in Reading \cup {d} : p \in Block(e)'}
    BY <2>5 DEF ToWrite
  <2>9. ToWrite' = ToWrite
    BY <2>6, <2>7, <2>8 DEF ToWrite
  <2> QED  BY <1>0, <1>2, <2>9 DEF queue_read
<1>3. CASE ResumeRequest
  <2>1. heap' = heap /\ offset' = offset /\ write_left' = write_left /\ \A e \in IoData :
          /\ io'[e].read = io[e].read
          /\ io'[e].first_offset = io[e].first_offset
          /\ io'[e].first_len = io[e].first_len
    BY <1>0, <1>3 DEF ResumeRequest, counters, IoDataType
  <2>2. Reading' = Reading /\ \A e \in Reading : Block(e)' = Block(e)
    BY <1>0, <2>1 DEF Reading, Block
  <2>3. ToWrite' = ToWrite
    BY <2>1, <2>2 DEF ToWrite
  <2> QED  BY <1>0, <2>1, <2>3
<1>4. CASE queue_write
  <2>1. data \in heap /\ io[data].read /\ heap' = heap /\ offset' = offset
        /\ write_left' = write_left - io[data].first_len
        /\ io' = [io EXCEPT ![data] = TurnedRound(data)]
    BY <1>4, HeadCompletion DEF queue_write
  <2>2. ~io'[data].read /\ \A e \in heap \ {data} : io'[e] = io[e]
    BY <1>0, <2>1 DEF TurnedRound
  <2>3. Reading' = Reading \ {data} /\ data \in Reading
    BY <2>1, <2>2 DEF Reading
  <2>4. \A e \in Reading \ {data} : Block(e)' = Block(e)
    BY <2>2 DEF Reading, Block
  <2>5. \A e \in heap : io[e].first_offset \in Nat /\ io[e].first_len \in Nat
    BY <1>0 DEF IoDataType
  <2>6. \A e \in Reading \ {data} : Block(e) \cap Block(data) = {}
    BY <1>0, <2>1, <2>5 DEF Reading, Block, BlocksInv
  <2>7. \A p \in Block(data) : p < offset /\ p \in FileBytes
    BY <1>0, <2>1, <2>5, ConstantsAssumption DEF Block, BlocksInv, FileBytes, TypeOK
  <2>8. ToWrite' = {p \in FileBytes : p >= offset \/ \E e \in Reading \ {data} : p \in Block(e)}
    BY <2>1, <2>3, <2>4 DEF ToWrite
  <2>9. ToWrite' = ToWrite \ Block(data) /\ Block(data) \subseteq ToWrite
    <3>1. Block(data) \subseteq ToWrite
      BY <2>3, <2>7 DEF ToWrite
    <3>2. ToWrite' \subseteq ToWrite \ Block(data)
      <4> SUFFICES ASSUME NEW p \in ToWrite' PROVE p \in ToWrite /\ p \notin Block(data)
        OBVIOUS
      <4>1. p \in FileBytes /\ (p >= offset \/ \E e \in Reading \ {data} : p \in Block(e))
        BY <2>8
      <4>2. p \in ToWrite
        BY <4>1 DEF ToWrite
      <4>3. p \notin Block(data)
        <5>1. p >= offset => p \notin Block(data)
          BY <1>0, <2>7, <4>1, ConstantsAssumption DEF FileBytes
        <5>2. (\E e \in Reading \ {data} : p \in Block(e)) => p \notin Block(data)
          BY <2>6
        <5> QED  BY <4>1, <5>1, <5>2
      <4> QED  BY <4>2, <4>3
    <3>3. ToWrite \ Block(data) \subseteq ToWrite'
      BY <2>8 DEF ToWrite
    <3> QED  BY <3>1, <3>2, <3>3
  <2>10. IsFiniteSet(ToWrite)
    <3>1. IsFiniteSet(FileBytes)
      BY FS_Interval, ConstantsAssumption DEF FileBytes
    <3>2. ToWrite \in SUBSET FileBytes
      BY DEF ToWrite
    <3> QED  BY <3>1, <3>2, FS_Subset
  <2>11. Cardinality(ToWrite') = Cardinality(ToWrite) - Cardinality(ToWrite \cap Block(data))
    BY <2>9, <2>10, FS_Difference
  <2>12. ToWrite \cap Block(data) = Block(data)
    BY <2>9
  <2>13. Cardinality(Block(data)) = io[data].first_len
    <3>1. io[data].first_offset \in Nat /\ io[data].first_len \in Nat \ {0}
      BY <1>0, <2>1, <2>5, ConstantsAssumption DEF BlocksInv
    <3> DEFINE a == io[data].first_offset
               b == io[data].first_offset + io[data].first_len - 1
    <3>2. a \in Int /\ b \in Int /\ ~(a > b) /\ b - a + 1 = io[data].first_len
      BY <3>1
    <3>3. Cardinality(a .. b) = b - a + 1
      BY <3>2, FS_Interval
    <3> QED  BY <3>2, <3>3 DEF Block
  <2> QED  BY <1>0, <2>1, <2>11, <2>12, <2>13
<1>5. CASE WriteDone
  <2>1. ~io[data].read /\ heap' = heap \ {data} /\ io' = io /\ offset' = offset /\ write_left' = write_left
    BY <1>5 DEF WriteDone
  <2>2. Reading' = Reading /\ \A e \in Reading : Block(e)' = Block(e)
    BY <2>1 DEF Reading, Block
  <2>3. ToWrite' = ToWrite
    BY <2>1, <2>2 DEF ToWrite
  <2> QED  BY <1>0, <2>1, <2>3
<1> QED  BY <1>1, <1>2, <1>3, <1>4, <1>5, StepKinds

\* A completion is an error or a count of bytes within what was asked for.
LEMMA ResultsStep ==
    ASSUME IInv, Next
    PROVE  ResultsInv'
<1> USE DEF ResultsInv
<1>0. TypeOK /\ OwnersInv /\ ResultsInv /\ cq \in Seq(Completions) /\ io \in [IoData -> IoDataType]
  BY DEF IInv, TypeOK, Completions
<1>e. \A i \in DOMAIN cq : cq[i].data \in Completed(cq) /\ cq[i].data \in IoData
  <2> SUFFICES ASSUME NEW i \in DOMAIN cq
               PROVE  cq[i].data \in Completed(cq) /\ cq[i].data \in IoData
    OBVIOUS
  <2>1. cq[i] \in Completions
    BY <1>0, LenProperties, ElementOfSeq
  <2> QED  BY <2>1 DEF Completed, Completions
<1>1. ASSUME UNCHANGED <<cq, io>> PROVE ResultsInv'
  BY <1>0, <1>1
<1>2. CASE queue_read
  <2>1. PICK d \in IoData \ heap : \A e \in IoData \ {d} : io'[e] = io[e]
    BY <1>0, <1>2 DEF queue_read
  <2>2. d \notin Completed(cq) /\ cq' = cq
    BY <1>0, <1>2, <2>1 DEF queue_read, OwnersInv
  <2> QED  BY <1>0, <1>e, <2>1, <2>2
<1>3. ASSUME HasCqe, Seen, \A e \in IoData \ {data} : io'[e] = io[e]
      PROVE  ResultsInv'
  <2> SUFFICES ASSUME NEW i \in DOMAIN Tail(cq)
               PROVE  Tail(cq)[i].res \in {EAGAIN, EIO} \cup 1 .. io'[Tail(cq)[i].data].len
    BY <1>3 DEF Seen
  <2>1. PICK j \in DOMAIN cq : Tail(cq)[i] = cq[j]
    BY <1>3, HeadCompletion
  <2>2. Tail(cq)[i].data \in Completed(Tail(cq))
    BY DEF Completed
  <2>3. cq[j].data # data
    BY <1>3, HeadCompletion, <2>1, <2>2
  <2> QED  BY <1>0, <1>e, <1>3, <2>1, <2>3
<1>4. CASE RetryRequest
  BY <1>3, <1>4 DEF RetryRequest, memory
<1>5. CASE ResumeRequest
  <2>1. \A e \in IoData \ {data} : io'[e] = io[e]
    BY <1>0, <1>5 DEF ResumeRequest
  <2> QED  BY <1>3, <1>5, <2>1 DEF ResumeRequest
<1>6. CASE queue_write
  <2>1. \A e \in IoData \ {data} : io'[e] = io[e]
    BY <1>0, <1>6 DEF queue_write
  <2> QED  BY <1>3, <1>6, <2>1 DEF queue_write
<1>7. CASE WriteDone
  BY <1>3, <1>7 DEF WriteDone
<1>8. ASSUME NEW d \in IoData, KernelTransfers(d) \/ KernelFails(d)
      PROVE  ResultsInv'
  <2>1. PICK r \in {EAGAIN, EIO} \cup 1 .. io[d].len : Post(d, r)
    <3>1. CASE KernelFails(d)
      BY <3>1 DEF KernelFails
    <3>2. CASE KernelTransfers(d)
      <4>1. PICK k \in (IF "short" \in faults THEN 1 ELSE io[d].len) .. io[d].len : Post(d, k)
        BY <3>2 DEF KernelTransfers
      <4>2. d \in heap
        BY <1>0, <3>2 DEF OwnersInv, KernelTransfers
      <4>3. io[d].len \in Nat /\ io[d].len >= 1
        BY <1>0, <4>2 DEF IInv, BlocksInv, IoDataType
      <4>4. k \in 1 .. io[d].len
        BY <4>1, <4>3
      <4> QED  BY <4>1, <4>4
    <3> QED  BY <1>8, <3>1, <3>2
  <2>2. d \in inflight
    BY <1>8 DEF KernelTransfers, KernelFails
  <2>3. [data |-> d, res |-> r] \in Completions
    BY <1>0 DEF Completions, EAGAIN, EIO, IoDataType
  <2>4. \A i \in DOMAIN Append(cq, [data |-> d, res |-> r]) :
           \/ Append(cq, [data |-> d, res |-> r])[i] = [data |-> d, res |-> r]
           \/ \E j \in DOMAIN cq : Append(cq, [data |-> d, res |-> r])[i] = cq[j]
    BY <1>0, <2>2, <2>3, Posted DEF OwnersInv
  <2>5. cq' = Append(cq, [data |-> d, res |-> r]) /\ io' = io
    BY <2>1 DEF Post
  <2> QED  BY <1>0, <2>1, <2>4, <2>5
<1>9. ASSUME Next
      PROVE  \/ UNCHANGED <<cq, io>> \/ queue_read \/ RetryRequest \/ ResumeRequest
             \/ queue_write \/ WriteDone \/ Kernel
  BY <1>9 DEF Next, Program, OuterLoop, Submit, SubmitAll, InnerLoopEnds, RequestFails, Exit, WaitFails,
             Exited, vars, memory, ring
<1> QED  BY <1>1, <1>2, <1>4, <1>5, <1>6, <1>7, <1>8, <1>9 DEF Kernel

\* The counters and fields keep their ranges.
LEMMA CounterTypes ==
    ASSUME IInv, Next
    PROVE  /\ insize' \in 0 .. FileSize
           /\ write_left' \in 0 .. FileSize
           /\ offset' \in 0 .. FileSize
           /\ reads' \in Nat
           /\ writes' \in Nat
           /\ heap' \subseteq IoData
           /\ io' \in [IoData -> IoDataType]
<1>0. TypeOK /\ BlocksInv
  BY DEF IInv
<1>1. heap' \subseteq IoData /\ io' \in [IoData -> IoDataType]
  <2>1. CASE UNCHANGED <<insize, write_left, offset, reads, writes, heap, io>>
    BY <1>0, <2>1 DEF TypeOK
  <2>2. CASE queue_read
    BY <1>0, <2>2, ReadQueued DEF TypeOK
  <2>3. CASE ResumeRequest
    <3>1. data \in heap /\ heap' = heap /\ cqe.res \in 1 .. io[data].len
          /\ io' = [io EXCEPT ![data].base = @ + cqe.res, ![data].len = @ - cqe.res]
      BY <2>3, HeadCompletion DEF ResumeRequest, EAGAIN, EIO
    <3>2. io[data].base + cqe.res \in Nat /\ io[data].len - cqe.res \in Nat
      BY <1>0, <3>1 DEF TypeOK, IoDataType
    <3> QED  BY <1>0, <3>1, <3>2 DEF TypeOK, IoDataType
  <2>4. CASE queue_write
    <3>1. data \in heap /\ heap' = heap /\ io' = [io EXCEPT ![data] = TurnedRound(data)]
      BY <2>4, HeadCompletion DEF queue_write
    <3>2. TurnedRound(data) \in IoDataType
      BY <1>0, <3>1 DEF TypeOK, IoDataType, TurnedRound
    <3> QED  BY <1>0, <3>1, <3>2 DEF TypeOK
  <2>5. CASE WriteDone
    BY <1>0, <2>5 DEF TypeOK, WriteDone
  <2> QED  BY <2>1, <2>2, <2>3, <2>4, <2>5, StepKinds
<1>2. insize' \in 0 .. FileSize /\ offset' \in 0 .. FileSize
  <2>1. CASE queue_read
    <3>1. PICK k \in 1 .. BLOCK_SZ : k <= insize /\ insize' = insize - k /\ offset' = offset + k
      BY <1>0, <2>1, ReadQueued
    <3> QED  BY <1>0, <3>1, ConstantsAssumption DEF TypeOK, BlocksInv
  <2>2. CASE ~queue_read
    BY <1>0, <2>2, StepKinds DEF TypeOK, ResumeRequest, queue_write, WriteDone, counters
  <2> QED  BY <2>1, <2>2
<1>3. write_left' \in 0 .. FileSize
  <2>1. IsFiniteSet(FileBytes) /\ Cardinality(FileBytes) = FileSize
    BY FS_Interval, ConstantsAssumption DEF FileBytes
  <2>2. ToWrite' \in SUBSET FileBytes
    BY DEF ToWrite
  <2>3. IsFiniteSet(ToWrite') /\ Cardinality(ToWrite') <= FileSize
    BY <2>1, <2>2, FS_Subset
  <2>4. Cardinality(ToWrite') \in Nat
    BY <2>3, FS_CardinalityType
  <2>5. write_left' = Cardinality(ToWrite')
    BY LeftStep DEF LeftInv
  <2> QED  BY <2>3, <2>4, <2>5, ConstantsAssumption
<1>4. reads' \in Nat /\ writes' \in Nat
  <2>1. IsFiniteSet(Reading') /\ IsFiniteSet(Writing')
    BY <1>1, ConstantsAssumption, FS_Subset DEF Reading, Writing
  <2>2. reads' = Cardinality(Reading') /\ writes' = Cardinality(Writing')
    BY CountsStep DEF CountsInv
  <2> QED  BY <2>1, <2>2, FS_CardinalityType
<1> QED  BY <1>1, <1>2, <1>3, <1>4

\* Every step keeps the types.
LEMMA TypeStep ==
    ASSUME IInv, Next
    PROVE  TypeOK'
<1> DEFINE Rest ==
       /\ had_reads \in Nat
       /\ got_comp \in BOOLEAN
       /\ buf \in [IoData -> [BlockBytes -> FileBytes \cup {JUNK}]]
       /\ sq \in Seq(IoData)
       /\ inflight \subseteq IoData
       /\ cq \in Seq(Completions)
       /\ out \in [FileBytes -> FileBytes \cup {HOLE, JUNK}]
       /\ pc \in {"top", "fill", "reap", "return", "exited"}
       /\ result \in {"none", "success", "failure"}
       /\ faults \in FaultSets
<1>0. TypeOK /\ Rest
  BY DEF IInv, TypeOK, Completions
<1>s. ToSet(sq) \subseteq IoData
  BY <1>0, LenProperties, ElementOfSeq DEF ToSet
<1>n. <<>> \in Seq(IoData)
  BY EmptySeq
<1> SUFFICES Rest'
  BY CounterTypes DEF TypeOK, Completions
<1> HIDE DEF Rest
<1>1. CASE OuterLoop
  BY <1>0, <1>1 DEF OuterLoop, memory, ring, TypeOK, Rest
<1>2. CASE queue_read
  <2>1. PICK d \in IoData : buf' = [buf EXCEPT ![d] = [i \in BlockBytes |-> JUNK]] /\ sq' = Append(sq, d)
    BY <1>2 DEF queue_read
  <2>2. buf' \in [IoData -> [BlockBytes -> FileBytes \cup {JUNK}]] /\ sq' \in Seq(IoData)
    BY <1>0, <2>1 DEF Rest
  <2> QED  BY <1>0, <1>2, <2>2 DEF queue_read, Rest
<1>3. CASE Submit
  <2>1. \/ inflight' = inflight \cup ToSet(sq) /\ sq' = <<>>
        \/ inflight' = inflight /\ sq' = sq
    BY <1>3 DEF Submit, SubmitAll
  <2>2. inflight' \subseteq IoData /\ sq' \in Seq(IoData)
    BY <1>0, <1>s, <1>n, <2>1 DEF Rest
  <2>3. got_comp' \in BOOLEAN /\ pc' \in {"reap", "return"}
        /\ result' \in {"none", "success", "failure"}
    BY <1>0, <1>3 DEF Submit, Rest
  <2> QED  BY <1>0, <1>3, <2>2, <2>3 DEF Submit, memory, Rest
<1>4. CASE InnerLoopEnds
  BY <1>0, <1>4 DEF InnerLoopEnds, memory, ring, Rest
<1>5. CASE RetryRequest
  <2>1. sq' \in Seq(IoData) /\ cq' \in Seq(Completions)
    BY <1>0, <1>5, HeadCompletion DEF RetryRequest, queue_prepped, Seen
  <2> QED  BY <1>0, <1>5, <2>1 DEF RetryRequest, memory, Rest
<1>6. CASE RequestFails
  BY <1>0, <1>6 DEF RequestFails, memory, ring, Rest
<1>7. CASE ResumeRequest
  <2>1. sq' \in Seq(IoData) /\ cq' \in Seq(Completions)
    BY <1>0, <1>7, HeadCompletion DEF ResumeRequest, queue_prepped, Seen
  <2> QED  BY <1>0, <1>7, <2>1 DEF ResumeRequest, Rest
<1>8. CASE queue_write
  <2>2. \/ inflight' = inflight \cup ToSet(sq) \cup {data} /\ sq' = <<>>
        \/ sq' = Append(sq, data) /\ inflight' = inflight
    BY <1>8 DEF queue_write, PrepareAndSubmit, queue_prepped
  <2>3. data \in IoData /\ sq \in Seq(IoData) /\ Tail(cq) \in Seq(Completions) /\ cq' = Tail(cq)
    BY <1>8, HeadCompletion DEF queue_write, Seen
  <2>4. Append(sq, data) \in Seq(IoData)
    BY <2>3
  <2>5. sq' \in Seq(IoData)
    BY <1>n, <2>2, <2>4
  <2>6. inflight' \subseteq IoData
    BY <1>0, <1>s, <2>2, <2>3 DEF Rest
  <2>1. sq' \in Seq(IoData) /\ cq' \in Seq(Completions) /\ inflight' \subseteq IoData
    BY <2>3, <2>5, <2>6
  <2> QED  BY <1>0, <1>8, <2>1 DEF queue_write, Rest
<1>9. CASE WriteDone
  <2>1. cq' \in Seq(Completions)
    BY <1>9, HeadCompletion DEF WriteDone, Seen
  <2> QED  BY <1>0, <1>9, <2>1 DEF WriteDone, Rest
<1>10. CASE Exit
  BY <1>0, <1>10 DEF Exit, memory, Rest
<1>11. CASE WaitFails
  BY <1>0, <1>11 DEF WaitFails, memory, ring, Rest
<1>12. ASSUME NEW d \in IoData, KernelTransfers(d)
       PROVE  Rest'
  <2>1. PICK k \in (IF "short" \in faults THEN 1 ELSE io[d].len) .. io[d].len :
           /\ IF io[d].read THEN ReadBytes(d, k) /\ UNCHANGED out
                            ELSE WriteBytes(d, k) /\ UNCHANGED buf
           /\ Post(d, k)
    BY <1>12 DEF KernelTransfers
  <2>2. /\ io[d] \in IoDataType /\ io[d].offset = io[d].first_offset
        /\ io[d].first_len \in 1 .. BLOCK_SZ /\ io[d].len >= 1
        /\ io[d].base + io[d].len = io[d].first_len
        /\ io[d].first_offset + io[d].first_len <= offset
        /\ offset \in 0 .. FileSize
    <3>1. d \in heap
      BY <1>12 DEF IInv, OwnersInv, KernelTransfers
    <3> QED  BY <1>0, <3>1 DEF IInv, BlocksInv, TypeOK
  <2>3. /\ io[d].offset \in Nat /\ io[d].base \in Nat /\ io[d].len \in Nat
        /\ k \in 1 .. io[d].len
    BY <2>1, <2>2 DEF IoDataType
  <2>4. cq' \in Seq(Completions)
    BY <1>0, <2>1, <2>3 DEF Post, Completions, Rest
  <2>5. buf' \in [IoData -> [BlockBytes -> FileBytes \cup {JUNK}]]
    <3>1. CASE io[d].read
      <4>1. \A i \in Moved(d, k) : io[d].offset + i - io[d].base \in FileBytes
        BY <2>2, <2>3, ConstantsAssumption DEF Moved, FileBytes
      <4>2. buf[d] \in [BlockBytes -> FileBytes \cup {JUNK}]
        BY <1>0 DEF Rest
      <4>3. [i \in BlockBytes |-> IF i \in Moved(d, k) THEN io[d].offset + i - io[d].base ELSE buf[d][i]]
               \in [BlockBytes -> FileBytes \cup {JUNK}]
        BY <4>1, <4>2
      <4>4. buf' = [buf EXCEPT ![d] =
              [i \in BlockBytes |-> IF i \in Moved(d, k) THEN io[d].offset + i - io[d].base ELSE buf[d][i]]]
        BY <2>1, <3>1 DEF ReadBytes
      <4> QED  BY <1>0, <4>3, <4>4 DEF Rest
    <3>2. CASE ~io[d].read
      BY <1>0, <2>1, <3>2 DEF Rest
    <3> QED  BY <3>1, <3>2
  <2>6. out' \in [FileBytes -> FileBytes \cup {HOLE, JUNK}]
    <3>1. CASE ~io[d].read
      <4>1. \A p \in FileBytes : p - io[d].offset \in 0 .. k - 1 =>
               buf[d][io[d].base + p - io[d].offset] \in FileBytes \cup {JUNK}
        <5> SUFFICES ASSUME NEW p \in FileBytes, p - io[d].offset \in 0 .. k - 1
                     PROVE  buf[d][io[d].base + p - io[d].offset] \in FileBytes \cup {JUNK}
          OBVIOUS
        <5>1. io[d].base + p - io[d].offset \in BlockBytes
          BY <2>2, <2>3, ConstantsAssumption DEF BlockBytes, FileBytes
        <5> QED  BY <1>0, <5>1 DEF Rest
      <4> QED  BY <1>0, <2>1, <3>1, <4>1 DEF WriteBytes, Rest
    <3>2. CASE io[d].read
      BY <1>0, <2>1, <3>2 DEF Rest
    <3> QED  BY <3>1, <3>2
  <2> QED  BY <1>0, <2>1, <2>4, <2>5, <2>6 DEF Post, Rest
<1>13. ASSUME NEW d \in IoData, KernelFails(d)
       PROVE  Rest'
  <2>2. PICK r \in Int : Post(d, r)
    BY <1>13 DEF KernelFails, EAGAIN, EIO
  <2>3. [data |-> d, res |-> r] \in Completions
    BY DEF Completions
  <2>1. cq' \in Seq(Completions)
    BY <1>0, <2>2, <2>3 DEF Post, Rest
  <2> QED  BY <1>0, <1>13, <2>1 DEF KernelFails, Post, Rest
<1>14. CASE Exited
  BY <1>0, <1>14 DEF Exited, vars, Rest
<1> QED  BY <1>1, <1>2, <1>3, <1>4, <1>5, <1>6, <1>7, <1>8, <1>9, <1>10, <1>11, <1>12, <1>13, <1>14
         DEF Next, Program, Kernel

\* copy_file() starts with nothing on its way.
LEMMA Initially == Init => IInv
<1> SUFFICES ASSUME Init PROVE IInv
  OBVIOUS
<1>1. TypeOK
  <2>1. io \in [IoData -> IoDataType]
    BY DEF Init, IoDataType
  <2>2. buf \in [IoData -> [BlockBytes -> FileBytes \cup {JUNK}]]
        /\ out \in [FileBytes -> FileBytes \cup {HOLE, JUNK}]
    BY DEF Init
  <2>3. sq \in Seq(IoData) /\ cq \in Seq([data : IoData, res : Int])
    BY EmptySeq DEF Init
  <2>4. /\ insize \in 0 .. FileSize /\ write_left \in 0 .. FileSize /\ offset \in 0 .. FileSize
        /\ reads \in Nat /\ writes \in Nat /\ had_reads \in Nat
    BY ConstantsAssumption DEF Init
  <2>5. /\ got_comp \in BOOLEAN /\ heap \subseteq IoData /\ inflight \subseteq IoData
        /\ pc \in {"top", "fill", "reap", "return", "exited"}
        /\ result \in {"none", "success", "failure"} /\ faults \in FaultSets
    BY DEF Init
  <2> QED  BY <2>1, <2>2, <2>3, <2>4, <2>5 DEF TypeOK
<1>2. OwnersInv
  BY DEF Init, OwnersInv, NoRepeat, Distinct, Completed, ToSet
<1>3. Reading = {} /\ Writing = {}
  BY DEF Init, Reading, Writing
<1>4. CountsInv
  BY <1>3, FS_EmptySet, ConstantsAssumption DEF Init, CountsInv
<1>5. BlocksInv /\ ResultsInv
  BY ConstantsAssumption DEF Init, BlocksInv, ResultsInv
<1>6. ToWrite = 0 .. FileSize - 1
  BY ConstantsAssumption DEF Init, ToWrite, FileBytes
<1>7. LeftInv
  BY <1>6, FS_Interval, ConstantsAssumption DEF Init, LeftInv
<1> QED  BY <1>1, <1>2, <1>4, <1>5, <1>7 DEF IInv

\* The invariant is inductive.
LEMMA Inductive == IInv /\ [Next]_vars => IInv'
<1>1. ASSUME IInv, Next PROVE IInv'
  BY <1>1, TypeStep, OwnersStep, CountsStep, BlocksStep, LeftStep, ResultsStep DEF IInv
<1>2. ASSUME IInv, UNCHANGED vars PROVE IInv'
  BY <1>2 DEF vars, IInv, TypeOK, OwnersInv, CountsInv, BlocksInv, LeftInv, ResultsInv,
              Reading, Writing, ToWrite, Block
<1> QED  BY <1>1, <1>2

\* As many io_data are allocated as blocks are read and written.
LEMMA HeapSize ==
    ASSUME IInv
    PROVE  IsFiniteSet(heap) /\ Cardinality(heap) = reads + writes
<1>1. IsFiniteSet(heap)
  BY ConstantsAssumption, FS_Subset DEF IInv, TypeOK
<1>2. Reading \cup Writing = heap /\ Reading \cap Writing = {}
  BY DEF Reading, Writing
<1>3. IsFiniteSet(Reading) /\ IsFiniteSet(Writing)
  BY <1>1, FS_Subset DEF Reading, Writing
<1>4. Cardinality(heap) = Cardinality(Reading) + Cardinality(Writing) - Cardinality({})
  BY <1>2, <1>3, FS_Union
<1> QED  BY <1>1, <1>3, <1>4, FS_EmptySet, FS_CardinalityType DEF IInv, CountsInv

\* The invariant implies that the queues are sound.
LEMMA Sound == IInv => QueuesSound
<1> SUFFICES ASSUME IInv PROVE QueuesSound
  OBVIOUS
<1> USE DEF IInv
<1>1. sq \in Seq(IoData) /\ cq \in Seq(Completions) /\ heap \subseteq IoData /\ inflight \subseteq IoData
  BY DEF TypeOK, Completions
<1>2. IsFiniteSet(heap) /\ IsFiniteSet(inflight)
  BY <1>1, ConstantsAssumption, FS_Subset
<1>3. Cardinality(heap) = reads + writes
  BY HeapSize
<1>4. pc # "exited" => Cardinality(heap) = Len(sq) + Cardinality(inflight) + Len(cq)
  <2> SUFFICES ASSUME pc # "exited"
               PROVE  Cardinality(heap) = Len(sq) + Cardinality(inflight) + Len(cq)
    OBVIOUS
  <2> DEFINE S == ToSet(sq)
             C == Completed(cq)
  <2>1. heap = (S \cup inflight) \cup C /\ S \cap inflight = {} /\ (S \cup inflight) \cap C = {}
    BY DEF OwnersInv
  <2>2. IsFiniteSet(S) /\ IsFiniteSet(C)
    BY <1>2, <2>1, FS_Subset
  <2>3. Cardinality(S) = Len(sq) /\ Cardinality(C) = Len(cq)
    BY <1>1, SeqCardinality, CompletedCardinality DEF OwnersInv
  <2> HIDE DEF S, C
  <2>4. IsFiniteSet(S \cup inflight)
        /\ Cardinality(S \cup inflight) = Cardinality(S) + Cardinality(inflight) - Cardinality({})
    BY <1>2, <2>1, <2>2, FS_Union
  <2>5. Cardinality(heap) = Cardinality(S \cup inflight) + Cardinality(C) - Cardinality({})
    BY <2>1, <2>2, <2>4, FS_Union
  <2>6. Len(sq) \in Nat /\ Len(cq) \in Nat /\ Cardinality(inflight) \in Nat /\ Cardinality({}) = 0
    BY <1>1, <1>2, LenProperties, FS_CardinalityType, FS_EmptySet
  <2> QED  BY <2>3, <2>4, <2>5, <2>6
<1>5. OneOwner
  BY <1>3, <1>4 DEF OneOwner, OwnersInv, Completed
<1>6. AssertSqe
  <2> SUFFICES ASSUME HasCqe PROVE Len(sq) < QUEUE_DEPTH
    BY DEF AssertSqe, SqeFree
  <2>1. pc # "exited" /\ cq # <<>>
    BY DEF HasCqe, InnerLoop
  <2>2. Len(sq) \in Nat /\ Len(cq) \in Nat \ {0}
    BY <1>1, <2>1, EmptySeq, LenProperties
  <2>3. Cardinality(inflight) \in Nat
    BY <1>2, FS_CardinalityType
  <2>4. Len(sq) + Cardinality(inflight) + Len(cq) <= QUEUE_DEPTH
    BY <1>3, <1>4, <2>1 DEF CountsInv
  <2> QED  BY <2>2, <2>3, <2>4, ConstantsAssumption
<1> QED  BY <1>5, <1>6 DEF QueuesSound

\* For every ring, block and file size and whatever goes wrong: types, an sqe for
\* whatever queue_prepped() queues again, and one owner for every io_data.
THEOREM Queues == Spec => []QueuesSound
BY Initially, Inductive, Sound, PTL DEF Spec

-----------------------------------------------------------------------------
\* The bytes b are those of the block that the fields r describe.
Filled(b, r) == \A i \in 0 .. r.first_len - 1 : b[i] = r.first_offset + i

\* A block that is read, or to be written, has its own bytes in its buffer.
WholeInv ==
    /\ \A d \in heap : io[d].base = 0 /\ (~io[d].read => Filled(buf[d], io[d]))
    /\ \A i \in DOMAIN cq : cq[i].res >= 0 =>
          /\ cq[i].res = io[cq[i].data].len
          /\ io[cq[i].data].read => Filled(buf[cq[i].data], io[cq[i].data])
    /\ NoWrongByte

\* Every completion is of an io_data.
LEMMA CompletionsOwned ==
    ASSUME IInv
    PROVE  \A i \in DOMAIN cq : /\ cq[i] \in Completions /\ cq[i].data \in IoData
                               /\ cq[i].data \in Completed(cq) /\ cq[i].res \in Int
<1> SUFFICES ASSUME NEW i \in DOMAIN cq
             PROVE  /\ cq[i] \in Completions /\ cq[i].data \in IoData
                    /\ cq[i].data \in Completed(cq) /\ cq[i].res \in Int
  OBVIOUS
<1>1. cq[i] \in Completions
  BY LenProperties, ElementOfSeq DEF IInv, TypeOK, Completions
<1> QED  BY <1>1 DEF Completed, Completions

\* Fields of an allocated io_data.
LEMMA Fields ==
    ASSUME IInv, NEW d \in heap
    PROVE  /\ d \in IoData /\ io[d] \in IoDataType
           /\ io[d].offset = io[d].first_offset /\ io[d].first_offset \in Nat
           /\ io[d].first_len \in Nat \ {0} /\ io[d].first_len <= BLOCK_SZ
           /\ io[d].base \in Nat /\ io[d].len \in Nat \ {0}
           /\ io[d].base + io[d].len = io[d].first_len
           /\ io[d].first_offset + io[d].first_len <= offset
           /\ offset \in 0 .. FileSize
<1>1. d \in IoData /\ io[d] \in IoDataType
  BY DEF IInv, TypeOK
<1> QED  BY <1>1, ConstantsAssumption DEF IInv, BlocksInv, IoDataType, TypeOK

\* A whole transfer moves the whole block to or from its own place.
LEMMA KernelWhole ==
    ASSUME IInv, WholeInv, "short" \notin faults, NEW d \in IoData, KernelTransfers(d)
    PROVE  /\ d \in heap /\ d \notin Completed(cq)
           /\ io[d].base = 0 /\ io[d].len = io[d].first_len
           /\ heap' = heap /\ io' = io
           /\ cq' = Append(cq, [data |-> d, res |-> io[d].len])
           /\ io[d].read =>
                 /\ UNCHANGED out
                 /\ \A e \in IoData \ {d} : buf'[e] = buf[e]
                 /\ \A i \in 0 .. io[d].first_len - 1 : buf'[d][i] = io[d].first_offset + i
           /\ ~io[d].read =>
                 /\ UNCHANGED buf
                 /\ \A p \in FileBytes : out'[p] = IF p \in Block(d) THEN p ELSE out[p]
<1>1. d \in heap /\ d \notin Completed(cq)
  BY DEF KernelTransfers, IInv, OwnersInv
<1>2. io[d].base = 0 /\ io[d].len = io[d].first_len
  BY <1>1, Fields DEF WholeInv
<1>3. PICK k \in io[d].len .. io[d].len :
           /\ IF io[d].read THEN ReadBytes(d, k) /\ UNCHANGED out
                            ELSE WriteBytes(d, k) /\ UNCHANGED buf
           /\ Post(d, k)
  BY DEF KernelTransfers
<1>4. k = io[d].len /\ k = io[d].first_len
  BY <1>1, <1>2, <1>3, Fields
<1>5. ASSUME io[d].read
      PROVE  /\ UNCHANGED out
             /\ \A e \in IoData \ {d} : buf'[e] = buf[e]
             /\ \A i \in 0 .. io[d].first_len - 1 : buf'[d][i] = io[d].first_offset + i
  <2>1. buf' = [buf EXCEPT ![d] = [i \in BlockBytes |->
               IF i \in Moved(d, k) THEN io[d].offset + i - io[d].base ELSE @[i]]]
    BY <1>3, <1>5 DEF ReadBytes
  <2>2. /\ \A e \in IoData \ {d} : buf'[e] = buf[e]
        /\ \A i \in BlockBytes : i \in Moved(d, k) => buf'[d][i] = io[d].offset + i - io[d].base
    BY <2>1 DEF IInv, TypeOK
  <2>3. \A i \in 0 .. io[d].first_len - 1 :
           /\ i \in BlockBytes /\ i \in Moved(d, k)
           /\ io[d].offset + i - io[d].base = io[d].first_offset + i
    BY <1>1, <1>2, <1>4, Fields, ConstantsAssumption DEF BlockBytes, Moved
  <2> QED  BY <1>3, <1>5, <2>2, <2>3
<1>6. ASSUME ~io[d].read
      PROVE  /\ UNCHANGED buf
             /\ \A p \in FileBytes : out'[p] = IF p \in Block(d) THEN p ELSE out[p]
  <2>1. /\ UNCHANGED buf
        /\ out' = [p \in FileBytes |->
               IF p - io[d].offset \in 0 .. k - 1
               THEN buf[d][io[d].base + p - io[d].offset] ELSE out[p]]
    BY <1>3, <1>6 DEF WriteBytes
  <2>2. Filled(buf[d], io[d])
    BY <1>1, <1>6 DEF WholeInv
  <2>3. \A p \in FileBytes : p - io[d].offset \in 0 .. k - 1 <=> p \in Block(d)
    BY <1>1, <1>4, Fields DEF Block, FileBytes
  <2>4. ASSUME NEW p \in FileBytes, p \in Block(d)
        PROVE  buf[d][io[d].base + p - io[d].offset] = p
    <3>1. p - io[d].first_offset \in 0 .. io[d].first_len - 1
      BY <1>1, <2>4, Fields DEF Block
    <3>2. buf[d][p - io[d].first_offset] = io[d].first_offset + (p - io[d].first_offset)
      BY <2>2, <3>1 DEF Filled
    <3>3. io[d].first_offset + (p - io[d].first_offset) = p
          /\ io[d].base + p - io[d].offset = p - io[d].first_offset
      BY <1>1, <1>2, Fields DEF FileBytes
    <3> QED  BY <3>2, <3>3
  <2> QED  BY <2>1, <2>3, <2>4
<1> QED  BY <1>1, <1>2, <1>3, <1>4, <1>5, <1>6 DEF Post

\* With whole transfers, no step leaves a block with wrong bytes.
LEMMA WholeStep ==
    ASSUME IInv, WholeInv, "short" \notin faults, Next
    PROVE  WholeInv'
<1>0. /\ heap \subseteq IoData /\ io \in [IoData -> IoDataType]
      /\ buf \in [IoData -> [BlockBytes -> FileBytes \cup {JUNK}]]
      /\ cq \in Seq(Completions)
      /\ Completed(cq) \cap inflight = {}
  BY DEF IInv, TypeOK, Completions, OwnersInv
<1>1. ASSUME UNCHANGED <<heap, io, buf, cq, out>> PROVE WholeInv'
  BY <1>1 DEF WholeInv, Filled, NoWrongByte
<1>3. CASE queue_read
  <2>1. PICK d \in IoData \ heap : 
          /\ heap' = heap \cup {d}
          /\ io' = [io EXCEPT ![d] =
                [read |-> TRUE, first_offset |-> offset, offset |-> offset,
                 first_len |-> Least(insize, BLOCK_SZ), base |-> 0, len |-> Least(insize, BLOCK_SZ)]]
          /\ buf' = [buf EXCEPT ![d] = [i \in BlockBytes |-> JUNK]]
    BY <1>3 DEF queue_read
  <2>2. \A e \in IoData \ {d} : io'[e] = io[e] /\ buf'[e] = buf[e]
    BY <1>0, <2>1
  <2>3. io'[d].base = 0 /\ io'[d].read
    BY <1>0, <2>1
  <2>4. pc = "fill" /\ cq' = cq /\ out' = out
    BY <1>3 DEF queue_read
  <2>5. d \notin Completed(cq)
    BY <2>1, <2>4 DEF IInv, OwnersInv
  <2>6. \A e \in heap' : io'[e].base = 0 /\ (~io'[e].read => Filled(buf'[e], io'[e]))
    BY <1>0, <2>1, <2>2, <2>3 DEF WholeInv
  <2>7. \A i \in DOMAIN cq : cq[i].res >= 0 =>
          /\ cq[i].res = io'[cq[i].data].len
          /\ io'[cq[i].data].read => Filled(buf'[cq[i].data], io'[cq[i].data])
    BY <2>2, <2>5, CompletionsOwned DEF WholeInv
  <2> QED  BY <2>4, <2>6, <2>7 DEF WholeInv, NoWrongByte
<1>4. ASSUME HasCqe, Seen, UNCHANGED <<buf, out>>,
             \A e \in IoData \ {data} : io'[e] = io[e],
             heap' \subseteq heap,
             data \in heap' => io'[data].base = 0 /\ (~io'[data].read => Filled(buf'[data], io'[data]))
      PROVE  WholeInv'
  <2>1. \A e \in heap' : io'[e].base = 0 /\ (~io'[e].read => Filled(buf'[e], io'[e]))
    BY <1>0, <1>4 DEF WholeInv
  <2>2. ASSUME NEW i \in DOMAIN Tail(cq), Tail(cq)[i].res >= 0
        PROVE  /\ Tail(cq)[i].res = io'[Tail(cq)[i].data].len
               /\ io'[Tail(cq)[i].data].read => Filled(buf'[Tail(cq)[i].data], io'[Tail(cq)[i].data])
    <3>1. PICK j \in DOMAIN cq : Tail(cq)[i] = cq[j]
      BY <1>4, HeadCompletion
    <3>2. cq[j].data # data /\ cq[j].data \in IoData
      <4>1. Tail(cq)[i].data \in Completed(Tail(cq))
        BY DEF Completed
      <4> QED  BY <1>4, <3>1, <4>1, HeadCompletion, CompletionsOwned
    <3>3. io'[cq[j].data] = io[cq[j].data] /\ buf'[cq[j].data] = buf[cq[j].data]
      BY <1>4, <3>2
    <3> QED  BY <2>2, <3>1, <3>3 DEF WholeInv
  <2>3. cq' = Tail(cq)
    BY <1>4 DEF Seen
  <2> QED  BY <1>4, <2>1, <2>2, <2>3 DEF WholeInv, NoWrongByte
<1>h. ASSUME HasCqe, cqe.res >= 0
      PROVE  cqe.res = io[data].len /\ (io[data].read => Filled(buf[data], io[data]))
  <2>1. 1 \in DOMAIN cq /\ cqe = cq[1]
    BY <1>0, <1>h, Taken DEF HasCqe, cqe, IInv, OwnersInv
  <2> QED  BY <1>h, <2>1 DEF WholeInv, data
<1>5. CASE RetryRequest
  <2>1. data \in heap /\ HasCqe /\ Seen /\ UNCHANGED <<heap, io, buf, out>>
    BY <1>5, HeadCompletion DEF RetryRequest, memory
  <2>2. io'[data].base = 0 /\ (~io'[data].read => Filled(buf'[data], io'[data]))
    BY <2>1 DEF WholeInv
  <2> QED  BY <1>4, <2>1, <2>2
<1>6. CASE ResumeRequest
  BY <1>6, <1>h DEF ResumeRequest
<1>7. CASE queue_write
  <2>1. /\ HasCqe /\ Seen /\ UNCHANGED <<heap, buf, out>> /\ data \in heap /\ data \in IoData
        /\ io' = [io EXCEPT ![data] = TurnedRound(data)]
        /\ cqe.res = io[data].len /\ io[data].read
    BY <1>7, HeadCompletion DEF queue_write
  <2>2. cqe.res >= 0
    BY <2>1, Fields
  <2>3. Filled(buf[data], io[data])
    BY <1>h, <2>1, <2>2
  <2>4. io'[data] = TurnedRound(data) /\ \A e \in IoData \ {data} : io'[e] = io[e]
    BY <1>0, <2>1
  <2>5. io[data] \in IoDataType
    BY <1>0, <2>1
  <2>6. io'[data].base = 0 /\ io'[data].first_offset = io[data].first_offset
        /\ io'[data].first_len = io[data].first_len
    BY <2>4, <2>5 DEF TurnedRound, IoDataType
  <2>7. Filled(buf'[data], io'[data])
    BY <2>1, <2>3, <2>6 DEF Filled
  <2> QED  BY <1>4, <2>1, <2>4, <2>6, <2>7
<1>8. CASE WriteDone
  BY <1>4, <1>8 DEF WriteDone
<1>9. ASSUME NEW d \in IoData, KernelTransfers(d)
      PROVE  WholeInv'
  <2> DEFINE c == [data |-> d, res |-> io[d].len]
  <2>1. /\ d \in heap /\ d \notin Completed(cq) /\ heap' = heap /\ io' = io
        /\ io[d].base = 0 /\ cq' = Append(cq, c)
    BY <1>9, KernelWhole
  <2>2. c \in Completions
    BY <2>1, Fields DEF Completions
  <2>3. \A i \in DOMAIN cq' : cq'[i] = c \/ \E j \in DOMAIN cq : cq'[i] = cq[j]
    BY <1>0, <2>1, <2>2, Posted DEF IInv, OwnersInv
  <2>4. io[d].read => Filled(buf'[d], io'[d])
    BY <1>9, <2>1, KernelWhole DEF Filled
  <2>5. \A e \in IoData \ {d} : Filled(buf'[e], io'[e]) = Filled(buf[e], io[e])
    BY <1>9, <2>1, KernelWhole
  <2>6. ~io[d].read => Filled(buf'[d], io'[d]) /\ Filled(buf[d], io[d])
    BY <1>9, <2>1, KernelWhole DEF WholeInv
  <2>7. \A e \in heap' : io'[e].base = 0 /\ (~io'[e].read => Filled(buf'[e], io'[e]))
    BY <1>0, <2>1, <2>5, <2>6 DEF WholeInv
  <2>8. \A i \in DOMAIN cq' : cq'[i].res >= 0 =>
          /\ cq'[i].res = io'[cq'[i].data].len
          /\ io'[cq'[i].data].read => Filled(buf'[cq'[i].data], io'[cq'[i].data])
    BY <2>1, <2>3, <2>4, <2>5, CompletionsOwned DEF WholeInv
  <2>9. NoWrongByte'
    BY <1>9, <2>1, KernelWhole DEF NoWrongByte, WholeInv
  <2> QED  BY <2>7, <2>8, <2>9 DEF WholeInv
<1>10. ASSUME NEW d \in IoData, KernelFails(d)
       PROVE  WholeInv'
  <2>1. PICK r \in {EAGAIN, EIO} : Post(d, r)
    BY <1>10 DEF KernelFails
  <2> DEFINE c == [data |-> d, res |-> r]
  <2>2. c \in Completions /\ ~(c.res >= 0)
    BY DEF Completions, EAGAIN, EIO
  <2>3. UNCHANGED <<heap, io, buf, out>> /\ cq' = Append(cq, c) /\ d \notin Completed(cq)
    BY <1>0, <1>10, <2>1 DEF KernelFails, Post
  <2>4. \A i \in DOMAIN cq' : cq'[i] = c \/ \E j \in DOMAIN cq : cq'[i] = cq[j]
    BY <1>0, <2>2, <2>3, Posted DEF IInv, OwnersInv
  <2>5. \A e : Filled(buf'[e], io'[e]) = Filled(buf[e], io[e])
    BY <2>3 DEF Filled
  <2> QED  BY <2>2, <2>3, <2>4, <2>5 DEF WholeInv, NoWrongByte
<1>11. ASSUME Next
       PROVE  \/ UNCHANGED <<heap, io, buf, cq, out>> \/ queue_read \/ RetryRequest \/ ResumeRequest
              \/ queue_write \/ WriteDone \/ Kernel
  BY <1>11 DEF Next, Program, OuterLoop, Submit, SubmitAll, InnerLoopEnds, RequestFails, Exit, WaitFails,
              Exited, vars, memory, ring
<1> QED  BY <1>1, <1>3, <1>5, <1>6, <1>7, <1>8, <1>9, <1>10, <1>11 DEF Kernel

\* What may go wrong never changes.
LEMMA FaultsStay == [Next]_vars => faults' = faults
BY DEF Next, Program, Kernel, OuterLoop, queue_read, Submit, InnerLoopEnds, RetryRequest, RequestFails,
       ResumeRequest, queue_write, WriteDone, Exit, WaitFails, KernelTransfers, KernelFails, Post,
       Exited, vars

\* As long as the kernel transfers whole blocks, no byte of the output is ever
\* another byte of the input or of a fresh malloc().
THEOREM WholeTransfers == Spec => []WholeTransfersRight
<1> DEFINE Inv == IInv /\ ("short" \notin faults => WholeInv)
<1>1. Init => Inv
  <2>1. Init => WholeInv
    BY DEF Init, WholeInv, NoWrongByte
  <2> QED  BY <2>1, Initially
<1>2. Inv /\ [Next]_vars => Inv'
  <2>1. ASSUME WholeInv, UNCHANGED vars PROVE WholeInv'
    BY <2>1 DEF vars, WholeInv, Filled, NoWrongByte
  <2> QED  BY <2>1, Inductive, WholeStep, FaultsStay
<1>3. Inv => WholeTransfersRight
  BY DEF WholeTransfersRight, WholeInv
<1> QED  BY <1>1, <1>2, <1>3, PTL DEF Spec

-----------------------------------------------------------------------------
\* Each byte is still to be read, in a block on its way, or written.
CoverInv ==
    /\ write_left = 0 => sq = <<>>
    /\ pc = "return" /\ result = "success" => write_left = 0 /\ insize = 0
    /\ \A p \in FileBytes : p >= offset \/ out[p] = p \/ \E d \in heap : p \in Block(d)
    /\ \A i \in DOMAIN cq : cq[i].res >= 0 /\ ~io[cq[i].data].read =>
          \A p \in FileBytes :
             p - io[cq[i].data].first_offset \in 0 .. io[cq[i].data].first_len - 1 => out[p] = p

\* Once nothing is left to write, nothing is left to read either.
LEMMA NothingLeft ==
    ASSUME IInv, write_left = 0
    PROVE  insize = 0 /\ offset = FileSize /\ Reading = {}
<1>1. TypeOK /\ BlocksInv
  BY DEF IInv
<1>2. ToWrite = {}
  <2>1. IsFiniteSet(FileBytes)
    BY FS_Interval, ConstantsAssumption DEF FileBytes
  <2>2. ToWrite \in SUBSET FileBytes
    BY DEF ToWrite
  <2>3. IsFiniteSet(ToWrite)
    BY <2>1, <2>2, FS_Subset
  <2> QED  BY <2>3, FS_EmptySet DEF IInv, LeftInv
<1>3. ~(offset < FileSize)
  <2> SUFFICES ASSUME offset < FileSize PROVE FALSE
    OBVIOUS
  <2>1. offset \in FileBytes /\ offset >= offset
    BY <1>1, ConstantsAssumption DEF TypeOK, FileBytes
  <2> QED  BY <1>2, <2>1 DEF ToWrite
<1>4. Reading = {}
  <2> SUFFICES ASSUME NEW d \in Reading PROVE FALSE
    OBVIOUS
  <2>1. d \in heap
    BY DEF Reading
  <2>2. io[d].first_offset \in Block(d) /\ io[d].first_offset \in FileBytes
    BY <2>1, Fields, ConstantsAssumption DEF Block, FileBytes
  <2> QED  BY <1>2, <2>2 DEF ToWrite
<1> QED  BY <1>1, <1>3, <1>4, ConstantsAssumption DEF TypeOK, BlocksInv

\* No step loses a byte of the input.
LEMMA CoverStep ==
    ASSUME IInv, WholeInv, CoverInv, faults \cap {"submit", "short"} = {}, Next
    PROVE  CoverInv'
<1> DEFINE Covered == \A p \in FileBytes : p >= offset \/ out[p] = p \/ \E d \in heap : p \in Block(d)
           Written(r, o) == \A p \in FileBytes : p - r.first_offset \in 0 .. r.first_len - 1 => o[p] = p
           Drained == write_left = 0 => sq = <<>>
           Success == pc = "return" /\ result = "success" => write_left = 0 /\ insize = 0
           WrittenAll == \A i \in DOMAIN cq : cq[i].res >= 0 /\ ~io[cq[i].data].read =>
                                            Written(io[cq[i].data], out)
<1>0. /\ heap \subseteq IoData /\ io \in [IoData -> IoDataType] /\ cq \in Seq(Completions)
      /\ Covered /\ Drained /\ Success /\ WrittenAll
      /\ insize \in Nat /\ write_left \in Nat /\ offset \in Nat
  BY DEF IInv, TypeOK, Completions, CoverInv
<1> SUFFICES Covered' /\ Drained' /\ Success' /\ WrittenAll'
  BY DEF CoverInv
<1> HIDE DEF Written
<1>1. ASSUME UNCHANGED <<insize, write_left, offset, heap, io, cq, out>>, sq' = sq \/ sq' = <<>>,
             pc' = "return" /\ result' = "success" =>
                \/ pc = "return" /\ result = "success"
                \/ write_left = 0 /\ insize = 0
      PROVE  Covered' /\ Drained' /\ Success' /\ WrittenAll'
  BY <1>0, <1>1 DEF Block
<1>2. CASE OuterLoop
  BY <1>1, <1>2 DEF OuterLoop, counters, memory, ring
<1>3. CASE queue_read
  <2>1. PICK d \in IoData \ heap : 
              LET k == Least(insize, BLOCK_SZ) IN
              /\ k \in 1 .. BLOCK_SZ
              /\ heap' = heap \cup {d}
              /\ io' = [io EXCEPT ![d] =
                     [read |-> TRUE, first_offset |-> offset, offset |-> offset,
                      first_len |-> k, base |-> 0, len |-> k]]
              /\ \A e \in heap : io'[e] = io[e]
              /\ offset' = offset + k
    BY <1>3, ReadQueued DEF IInv
  <2>2. /\ write_left' = write_left /\ out' = out /\ cq' = cq /\ pc' = "fill" /\ pc = "fill" /\ insize # 0
    BY <1>3 DEF queue_read, RoomToRead
  <2>3. io'[d].first_offset = offset /\ io'[d].first_len = Least(insize, BLOCK_SZ)
    BY <1>0, <2>1
  <2>4. Block(d)' = offset .. offset' - 1 /\ \A e \in heap : Block(e)' = Block(e)
    BY <1>0, <2>1, <2>3 DEF Block
  <2>5. Covered'
    <3>1. \A p \in FileBytes : p >= offset => p >= offset' \/ p \in Block(d)'
      BY <1>0, <2>1, <2>4, ConstantsAssumption DEF FileBytes
    <3> QED  BY <1>0, <2>1, <2>2, <2>4, <3>1
  <2>6. \A i \in DOMAIN cq : io'[cq[i].data] = io[cq[i].data]
    BY <2>1, <2>2, CompletionsOwned DEF IInv, OwnersInv
  <2> QED  BY <1>0, <2>2, <2>5, <2>6, NothingLeft
<1>4. CASE Submit
  BY <1>1, <1>4 DEF Submit, SubmitAll, counters, memory
<1>5. CASE InnerLoopEnds
  BY <1>1, <1>5 DEF InnerLoopEnds, counters, memory, ring
<1>6. CASE RequestFails
  BY <1>1, <1>6 DEF RequestFails, counters, memory, ring
<1>7. CASE WaitFails
  BY <1>1, <1>7 DEF WaitFails, counters, memory, ring
<1>8. CASE Exit
  BY <1>1, <1>8 DEF Exit, counters, memory
<1>9. CASE Exited
  BY <1>1, <1>9 DEF Exited, vars
<1>10. ASSUME HasCqe, Seen, out' = out, offset' = offset, pc' = pc,
              \A e \in IoData \ {data} : io'[e] = io[e]
       PROVE  WrittenAll' /\ Success' /\ write_left # 0 /\ \A e \in heap \ {data} : Block(e)' = Block(e)
  <2>1. pc = "reap" /\ write_left # 0 /\ cq' = Tail(cq)
    BY <1>10 DEF HasCqe, InnerLoop, Seen
  <2>2. ASSUME NEW i \in DOMAIN Tail(cq), Tail(cq)[i].res >= 0, ~io'[Tail(cq)[i].data].read
        PROVE  Written(io'[Tail(cq)[i].data], out)
    <3>1. PICK j \in DOMAIN cq : Tail(cq)[i] = cq[j]
      BY <1>10, HeadCompletion
    <3>2. Tail(cq)[i].data \in Completed(Tail(cq))
      BY DEF Completed
    <3>3. cq[j].data # data /\ cq[j].data \in IoData
      BY <1>10, <3>1, <3>2, HeadCompletion, CompletionsOwned
    <3>4. io'[cq[j].data] = io[cq[j].data]
      BY <1>10, <3>3
    <3> QED  BY <1>0, <2>2, <3>1, <3>4
  <2>3. \A e \in heap \ {data} : Block(e)' = Block(e)
    BY <1>0, <1>10 DEF Block
  <2> QED  BY <1>10, <2>1, <2>2, <2>3
<1>11. CASE RetryRequest
  <2>1. /\ HasCqe /\ Seen /\ UNCHANGED <<out, offset, pc, io, heap, write_left>>
    BY <1>11 DEF RetryRequest, counters, memory
  <2>2. Covered'
    BY <1>0, <2>1 DEF Block
  <2> QED  BY <1>10, <2>1, <2>2
<1>h. HasCqe => 1 \in DOMAIN cq /\ cqe = cq[1]
  BY <1>0, Taken DEF HasCqe, cqe, IInv, OwnersInv
<1>12. CASE ResumeRequest
  BY <1>12, <1>h DEF ResumeRequest, WholeInv, data
<1>13. CASE queue_write
  <2>1. /\ HasCqe /\ Seen /\ UNCHANGED <<out, offset, pc, heap>> /\ data \in heap
        /\ io' = [io EXCEPT ![data] = TurnedRound(data)]
        /\ PrepareAndSubmit(data)
    BY <1>13, HeadCompletion DEF queue_write
  <2>2. sq' = <<>>
    BY <2>1 DEF PrepareAndSubmit
  <2>3. \A e \in IoData \ {data} : io'[e] = io[e]
    BY <1>0, <2>1
  <2>4. io[data] \in IoDataType /\ io'[data] = TurnedRound(data)
    BY <1>0, <2>1
  <2>5. io'[data].first_offset = io[data].first_offset /\ io'[data].first_len = io[data].first_len
    BY <2>4 DEF TurnedRound, IoDataType
  <2>6. \A e \in heap : Block(e)' = Block(e)
    BY <2>1, <2>3, <2>5, <1>10 DEF Block
  <2>7. Covered'
    BY <1>0, <2>1, <2>6
  <2> QED  BY <1>10, <2>1, <2>2, <2>3, <2>7
<1>14. CASE WriteDone
  <2>1. /\ HasCqe /\ Seen /\ UNCHANGED <<out, offset, pc, io, write_left>> /\ data \in heap
        /\ heap' = heap \ {data} /\ cqe.res = io[data].len /\ ~io[data].read
    BY <1>14, HeadCompletion DEF WriteDone
  <2>2. Written(io[data], out)
    <3>1. cqe.res >= 0
      BY <2>1, Fields
    <3> QED  BY <1>0, <1>h, <2>1, <3>1 DEF data
  <2>3. \A p \in FileBytes : p \in Block(data) => out[p] = p
    <3> SUFFICES ASSUME NEW p \in FileBytes, p \in Block(data)
                 PROVE  out[p] = p
      OBVIOUS
    <3>1. p - io[data].first_offset \in 0 .. io[data].first_len - 1
      BY <2>1, Fields DEF Block, FileBytes
    <3> QED  BY <2>2, <3>1 DEF Written
  <2>4. \A e \in heap : Block(e)' = Block(e)
    BY <2>1 DEF Block
  <2>5. Covered'
    BY <1>0, <2>1, <2>3, <2>4
  <2> QED  BY <1>10, <2>1, <2>5
<1>15. ASSUME NEW d \in IoData, KernelTransfers(d)
       PROVE  Covered' /\ Drained' /\ Success' /\ WrittenAll'
  <2> DEFINE c == [data |-> d, res |-> io[d].len]
  <2>1. /\ d \in heap /\ d \notin Completed(cq) /\ heap' = heap /\ io' = io /\ cq' = Append(cq, c)
        /\ io[d].read => out' = out
        /\ ~io[d].read => \A p \in FileBytes : out'[p] = IF p \in Block(d) THEN p ELSE out[p]
    BY <1>15, KernelWhole
  <2>2. UNCHANGED <<insize, write_left, offset, sq, pc, result>>
    BY <1>15 DEF KernelTransfers, Post, counters
  <2>3. c \in Completions
    BY <2>1, Fields DEF Completions
  <2>4. \A i \in DOMAIN cq' : cq'[i] = c \/ \E j \in DOMAIN cq : cq'[i] = cq[j]
    BY <1>0, <2>1, <2>3, Posted DEF IInv, OwnersInv
  <2>5. \A p \in FileBytes : out[p] = p => out'[p] = p
    BY <2>1
  <2>6. Covered'
    BY <1>0, <2>1, <2>2, <2>5 DEF Block
  <2>7. \A r : Written(r, out) => Written(r, out')
    BY <2>5 DEF Written
  <2>8. ~io[d].read => Written(io[d], out')
    <3> SUFFICES ASSUME ~io[d].read, NEW p \in FileBytes,
                        p - io[d].first_offset \in 0 .. io[d].first_len - 1
                 PROVE  out'[p] = p
      BY DEF Written
    <3>1. p \in Block(d)
      BY <2>1, Fields DEF Block, FileBytes
    <3> QED  BY <2>1, <3>1
  <2>9. WrittenAll'
    BY <1>0, <2>1, <2>4, <2>7, <2>8
  <2> QED  BY <1>0, <2>2, <2>6, <2>9
<1>16. ASSUME NEW d \in IoData, KernelFails(d)
       PROVE  Covered' /\ Drained' /\ Success' /\ WrittenAll'
  <2>1. PICK r \in {EAGAIN, EIO} : Post(d, r)
    BY <1>16 DEF KernelFails
  <2> DEFINE c == [data |-> d, res |-> r]
  <2>2. c \in Completions /\ ~(c.res >= 0)
    BY DEF Completions, EAGAIN, EIO
  <2>3. UNCHANGED <<insize, write_left, offset, sq, pc, result, heap, io, out>> /\ cq' = Append(cq, c)
        /\ d \notin Completed(cq)
    BY <1>16, <2>1 DEF KernelFails, Post, counters, IInv, OwnersInv
  <2>4. \A i \in DOMAIN cq' : cq'[i] = c \/ \E j \in DOMAIN cq : cq'[i] = cq[j]
    BY <1>0, <2>2, <2>3, Posted DEF IInv, OwnersInv
  <2>5. WrittenAll'
    BY <1>0, <2>2, <2>3, <2>4
  <2>6. Covered'
    BY <1>0, <2>3 DEF Block
  <2> QED  BY <1>0, <2>3, <2>5, <2>6
<1> QED  BY <1>2, <1>3, <1>4, <1>5, <1>6, <1>7, <1>8, <1>9, <1>11, <1>12, <1>13, <1>14, <1>15, <1>16
         DEF Next, Program, Kernel

\* When copy_file() returns 0 each byte is written or with the kernel.
LEMMA Covers ==
    ASSUME IInv, WholeInv, CoverInv
    PROVE  SuccessCoversFile
<1> SUFFICES ASSUME pc = "return", result = "success", NEW p \in FileBytes, out[p] # p
             PROVE  \E d \in inflight \cup Completed(cq) :
                       ~io[d].read /\ p - io[d].offset \in 0 .. io[d].len - 1
                                   /\ buf[d][p - io[d].offset] = p
  BY DEF SuccessCoversFile, Completed
<1>1. write_left = 0 /\ sq = <<>>
  BY DEF CoverInv
<1>2. offset = FileSize /\ Reading = {}
  BY <1>1, NothingLeft
<1>3. PICK d \in heap : p \in Block(d)
  BY <1>2, ConstantsAssumption DEF CoverInv, FileBytes
<1>4. d \in inflight \cup Completed(cq)
  BY <1>1 DEF IInv, OwnersInv, ToSet
<1>5. ~io[d].read
  BY <1>2 DEF Reading
<1>6. Filled(buf[d], io[d]) /\ io[d].base = 0
  BY <1>5 DEF WholeInv
<1>7. p - io[d].offset \in 0 .. io[d].first_len - 1 /\ io[d].len = io[d].first_len
  BY <1>3, <1>6, Fields DEF Block
<1>8. buf[d][p - io[d].offset] = io[d].first_offset + (p - io[d].offset)
  BY <1>6, <1>7 DEF Filled
<1>9. io[d].first_offset + (p - io[d].offset) = p
  BY Fields DEF FileBytes
<1> QED  BY <1>4, <1>5, <1>7, <1>8, <1>9

\* When copy_file() returns 0 without a failed submit or a short transfer, every
\* byte is in the output or in a write the kernel has.
THEOREM SuccessCovers == Spec => []SuccessCoversFile
<1> DEFINE Inv == /\ IInv
                  /\ "short" \notin faults => WholeInv
                  /\ faults \cap {"submit", "short"} = {} => CoverInv
<1>1. Init => Inv
  <2>1. Init => WholeInv
    BY DEF Init, WholeInv, NoWrongByte
  <2>2. Init => CoverInv
    BY ConstantsAssumption DEF Init, CoverInv, FileBytes
  <2> QED  BY <2>1, <2>2, Initially
<1>2. Inv /\ [Next]_vars => Inv'
  <2>1. ASSUME WholeInv, UNCHANGED vars PROVE WholeInv'
    BY <2>1 DEF vars, WholeInv, NoWrongByte
  <2>2. ASSUME CoverInv, UNCHANGED vars PROVE CoverInv'
    BY <2>2 DEF vars, CoverInv, Block
  <2> QED  BY <2>1, <2>2, Inductive, WholeStep, CoverStep, FaultsStay
<1>3. Inv => SuccessCoversFile
  BY Covers DEF SuccessCoversFile
<1> QED  BY <1>1, <1>2, <1>3, PTL DEF Spec

-----------------------------------------------------------------------------
\* What leaves no remainder is a multiple.
LEMMA Multiple ==
    ASSUME NEW B \in Nat \ {0}, NEW a \in Nat, a % B = 0
    PROVE  \E m \in Nat : a = B * m
<1>1. a = B * (a \div B) + (a % B) /\ a \div B \in Nat
  OBVIOUS
<1>2. a = B * (a \div B)
  BY <1>1
<1> QED  BY <1>1, <1>2

\* The next multiple of B after a is a + B.
LEMMA NextMultiple ==
    ASSUME NEW B \in Nat \ {0}, NEW a \in Nat, a % B = 0
    PROVE  /\ (a + B) % B = 0
           /\ \A b \in Nat : b % B = 0 /\ a < b => a + B <= b
<1>1. PICK m \in Nat : a = B * m
  BY Multiple
<1>2. (a + B) % B = 0
  <2>1. (B * (m + 1)) % B = 0
    OBVIOUS
  <2>2. B * (m + 1) = a + B
    BY <1>1
  <2> QED  BY <2>1, <2>2
<1>3. ASSUME NEW b \in Nat, b % B = 0, a < b PROVE a + B <= b
  <2>1. PICK k \in Nat : b = B * k
    BY <1>3, Multiple
  <2>2. B * m < B * k
    BY <1>1, <1>3, <2>1
  <2>3. B * m + B <= B * k
    BY <2>2
  <2> QED  BY <1>1, <2>1, <2>3
<1> QED  BY <1>2, <1>3

\* Blocks start at multiples of their size.
AlignInv ==
    /\ offset % BLOCK_SZ = 0 \/ offset = FileSize
    /\ \A d \in heap : io[d].first_offset % BLOCK_SZ = 0

\* Blocks start at multiples of BLOCK_SZ.
LEMMA Aligned ==
    ASSUME IInv, AlignInv, Next
    PROVE  AlignInv'
<1>0. /\ heap \subseteq IoData /\ io \in [IoData -> IoDataType] /\ insize \in Nat /\ offset \in Nat
      /\ offset + insize = FileSize
  BY DEF IInv, TypeOK, BlocksInv
<1>1. CASE UNCHANGED <<insize, write_left, offset, reads, writes, heap, io>>
  BY <1>1 DEF AlignInv
<1>2. CASE queue_read
  <2>1. PICK d \in IoData \ heap :
              LET k == Least(insize, BLOCK_SZ) IN
              /\ heap' = heap \cup {d}
              /\ io' = [io EXCEPT ![d] =
                     [read |-> TRUE, first_offset |-> offset, offset |-> offset,
                      first_len |-> k, base |-> 0, len |-> k]]
              /\ \A e \in heap : io'[e] = io[e]
              /\ offset' = offset + k
    BY <1>2, ReadQueued DEF IInv
  <2>2. insize # 0
    BY <1>2 DEF queue_read, RoomToRead
  <2>3. offset % BLOCK_SZ = 0
    BY <1>0, <2>2, ConstantsAssumption DEF AlignInv
  <2>4. (offset + BLOCK_SZ) % BLOCK_SZ = 0
    BY <1>0, <2>3, NextMultiple, ConstantsAssumption
  <2>5. offset' = offset + BLOCK_SZ \/ offset' = FileSize
    BY <1>0, <2>1, ConstantsAssumption DEF Least
  <2>6. offset' % BLOCK_SZ = 0 \/ offset' = FileSize
    BY <2>4, <2>5
  <2>7. io'[d].first_offset = offset
    BY <1>0, <2>1
  <2> QED  BY <2>1, <2>3, <2>6, <2>7 DEF AlignInv
<1>3. CASE ResumeRequest
  <2>1. heap' = heap /\ offset' = offset /\ \A e \in IoData : io'[e].first_offset = io[e].first_offset
    BY <1>0, <1>3 DEF ResumeRequest, counters, IoDataType
  <2> QED  BY <1>0, <2>1 DEF AlignInv
<1>4. CASE queue_write
  <2>1. heap' = heap /\ offset' = offset /\ \A e \in IoData : io'[e].first_offset = io[e].first_offset
    BY <1>0, <1>4 DEF queue_write, TurnedRound, IoDataType
  <2> QED  BY <1>0, <2>1 DEF AlignInv
<1>5. CASE WriteDone
  BY <1>5 DEF WriteDone, AlignInv
<1> QED  BY <1>1, <1>2, <1>3, <1>4, <1>5, StepKinds

\* No more blocks are on their way than io_data are allocated.
LEMMA BusyBlocks ==
    ASSUME IInv
    PROVE  Cardinality(Abstract!Busy) <= reads + writes /\ Cardinality(Abstract!Busy) \in Nat
<1> DEFINE B == Abstract!Busy
           H == {d \in heap : io[d].first_offset \in B}
           f == [d \in H |-> io[d].first_offset]
<1>1. IsFiniteSet(heap)
  BY HeapSize
<1>2. Cardinality(heap) = reads + writes
  BY HeapSize
<1>3. IsFiniteSet(H) /\ Cardinality(H) <= Cardinality(heap)
  BY <1>1, FS_Subset
<1>4. \A b \in B : \E d \in heap : io[d].first_offset = b
  BY DEF Abstract!Busy, Phase
<1>5. f \in Surjection(H, B)
  BY <1>4 DEF Surjection
<1> HIDE DEF B, H, f
<1>6. IsFiniteSet(B) /\ Cardinality(B) <= Cardinality(H)
  BY <1>3, <1>5, FS_Surjection
<1>7. Cardinality(B) \in Nat /\ Cardinality(H) \in Nat /\ Cardinality(heap) \in Nat
  BY <1>1, <1>3, <1>6, FS_CardinalityType
<1>8. Cardinality(B) <= reads + writes
  BY <1>2, <1>3, <1>6, <1>7
<1> QED  BY <1>7, <1>8 DEF B

\* The abstract copy counts as this module does.
LEMMA SameCardinality == \A S : Abstract!Cardinality(S) = Cardinality(S)
BY DEF Abstract!Cardinality, Cardinality

\* Every step moves one block to its next phase, or none.
LEMMA PhaseStep ==
    ASSUME IInv, AlignInv, Next
    PROVE  [Abstract!Next]_([b \in Blocks |-> Phase(b)])
<1> DEFINE phases == [b \in Blocks |-> Phase(b)]
<1>0. /\ heap \subseteq IoData /\ io \in [IoData -> IoDataType] /\ insize \in Nat /\ offset \in Nat
      /\ offset + insize = FileSize
  BY DEF IInv, TypeOK, BlocksInv
<1>u. ASSUME \A b \in Blocks : Phase(b)' = Phase(b)
      PROVE  phases' = phases
  BY <1>u
<1>1. CASE UNCHANGED <<insize, write_left, offset, reads, writes, heap, io>>
  <2>1. \A b \in Blocks : Phase(b)' = Phase(b)
    BY <1>1 DEF Phase
  <2> QED  BY <1>u, <2>1
<1>2. CASE queue_read
  <2>1. PICK d \in IoData \ heap :
              LET k == Least(insize, BLOCK_SZ) IN
              /\ k \in 1 .. BLOCK_SZ /\ k <= insize
              /\ heap' = heap \cup {d}
              /\ io' = [io EXCEPT ![d] =
                     [read |-> TRUE, first_offset |-> offset, offset |-> offset,
                      first_len |-> k, base |-> 0, len |-> k]]
              /\ io'[d].read
              /\ \A e \in heap : io'[e] = io[e]
              /\ offset' = offset + k
    BY <1>2, ReadQueued DEF IInv
  <2>2. insize # 0 /\ reads + writes < QUEUE_DEPTH
    BY <1>2 DEF queue_read, RoomToRead
  <2>3. offset % BLOCK_SZ = 0
    BY <1>0, <2>2, ConstantsAssumption DEF AlignInv
  <2>4. io'[d].first_offset = offset
    BY <1>0, <2>1
  <2>5. offset \in Blocks
    BY <1>0, <2>2, <2>3, ConstantsAssumption DEF Blocks, FileBytes
  <2>6. \A e \in heap : io[e].first_offset # offset
    BY <1>0, Fields
  <2>7. \A b \in Blocks : b # offset => (b >= offset <=> b >= offset')
    <3> SUFFICES ASSUME NEW b \in Blocks, b # offset PROVE b >= offset <=> b >= offset'
      OBVIOUS
    <3>1. b \in Nat /\ b % BLOCK_SZ = 0
      BY ConstantsAssumption DEF Blocks, FileBytes
    <3>2. offset < b => offset + BLOCK_SZ <= b
      BY <1>0, <2>3, <3>1, NextMultiple, ConstantsAssumption
    <3> QED  BY <1>0, <2>1, <3>1, <3>2, ConstantsAssumption
  <2>8. Phase(offset) = "todo"
    BY <1>0, <2>6 DEF Phase
  <2>9. PICK b0 \in Blocks : b0 = offset
    BY <2>5
  <2>10. Phase(b0)' = "read"
    BY <2>1, <2>4, <2>9 DEF Phase
  <2>11. \A b \in Blocks \ {b0} : Phase(b)' = Phase(b)
    <3> SUFFICES ASSUME NEW b \in Blocks \ {b0} PROVE Phase(b)' = Phase(b)
      OBVIOUS
    <3>1. {e \in heap' : io'[e].first_offset = b} = {e \in heap : io[e].first_offset = b}
      BY <2>1, <2>4, <2>9
    <3>2. \A e \in {x \in heap : io[x].first_offset = b} : io'[e].read = io[e].read
      BY <2>1
    <3>3. b >= offset <=> b >= offset'
      BY <2>7, <2>9
    <3> QED  BY <3>1, <3>2, <3>3 DEF Phase
  <2>12. phases' = [phases EXCEPT ![b0] = "read"]
    BY <2>9, <2>10, <2>11
  <2>13. Cardinality(Abstract!Busy) < QUEUE_DEPTH
    BY <2>2, BusyBlocks, ConstantsAssumption DEF IInv, TypeOK
  <2>14. phases[b0] = "todo"
    BY <2>8, <2>9
  <2>15. Abstract!Cardinality(Abstract!Busy) < QUEUE_DEPTH
    BY <2>13, SameCardinality
  <2>16. Abstract!StartRead(b0)
    BY <2>12, <2>14, <2>15 DEF Abstract!StartRead
  <2> QED  BY <2>9, <2>16 DEF Abstract!Next
<1>3. CASE ResumeRequest
  <2>1. heap' = heap /\ offset' = offset
        /\ \A e \in IoData : io'[e].first_offset = io[e].first_offset /\ io'[e].read = io[e].read
    BY <1>0, <1>3 DEF ResumeRequest, counters, IoDataType
  <2>2. \A b \in Blocks : Phase(b)' = Phase(b)
    <3> SUFFICES ASSUME NEW b \in Blocks PROVE Phase(b)' = Phase(b)
      OBVIOUS
    <3>1. {e \in heap' : io'[e].first_offset = b} = {e \in heap : io[e].first_offset = b}
      BY <1>0, <2>1
    <3>2. \A e \in {x \in heap : io[x].first_offset = b} : io'[e].read = io[e].read
      BY <1>0, <2>1
    <3> QED  BY <2>1, <3>1, <3>2 DEF Phase
  <2> QED  BY <1>u, <2>2
<1>o. \A d, e \in heap : d # e => io[d].first_offset # io[e].first_offset
  <2> SUFFICES ASSUME NEW d \in heap, NEW e \in heap, d # e
               PROVE  io[d].first_offset # io[e].first_offset
    OBVIOUS
  <2>1. \/ io[d].first_offset + io[d].first_len <= io[e].first_offset
        \/ io[e].first_offset + io[e].first_len <= io[d].first_offset
    BY DEF IInv, BlocksInv
  <2>2. io[d].first_offset \in Nat /\ io[d].first_len \in Nat \ {0}
        /\ io[e].first_offset \in Nat /\ io[e].first_len \in Nat \ {0}
    BY Fields
  <2> QED  BY <2>1, <2>2
<1>b. \A d \in heap : io[d].first_offset \in Blocks /\ io[d].first_offset < offset
  <2> SUFFICES ASSUME NEW d \in heap PROVE io[d].first_offset \in Blocks /\ io[d].first_offset < offset
    OBVIOUS
  <2>1. io[d].first_offset \in Nat /\ io[d].first_offset < offset /\ offset <= FileSize
    BY Fields, ConstantsAssumption
  <2>2. io[d].first_offset % BLOCK_SZ = 0
    BY DEF AlignInv
  <2> QED  BY <1>0, <2>1, <2>2, ConstantsAssumption DEF Blocks, FileBytes
<1>4. CASE queue_write
  <2>1. data \in heap /\ io[data].read /\ heap' = heap /\ offset' = offset
        /\ io' = [io EXCEPT ![data] = TurnedRound(data)]
    BY <1>4, HeadCompletion DEF queue_write
  <2>2. PICK d \in heap : d = data
    BY <2>1
  <2>3. io'[d] = TurnedRound(d) /\ \A e \in heap \ {d} : io'[e] = io[e]
    BY <1>0, <2>1, <2>2
  <2>4. ~io'[d].read /\ io'[d].first_offset = io[d].first_offset /\ io[d].read
    BY <1>0, <2>1, <2>2, <2>3 DEF TurnedRound, IoDataType
  <2>5. PICK b0 \in Blocks : b0 = io[d].first_offset
    BY <1>b
  <2>6. Phase(b0) = "read"
    BY <2>4, <2>5 DEF Phase
  <2>7. Phase(b0)' = "write"
    <3>1. {e \in heap' : io'[e].first_offset = b0} = {d}
      BY <1>o, <2>1, <2>3, <2>4, <2>5
    <3> QED  BY <2>4, <3>1 DEF Phase
  <2>8. \A b \in Blocks \ {b0} : Phase(b)' = Phase(b)
    <3> SUFFICES ASSUME NEW b \in Blocks \ {b0} PROVE Phase(b)' = Phase(b)
      OBVIOUS
    <3>1. {e \in heap' : io'[e].first_offset = b} = {e \in heap : io[e].first_offset = b}
      BY <2>1, <2>3, <2>4, <2>5
    <3>2. \A e \in {x \in heap : io[x].first_offset = b} : io'[e].read = io[e].read
      BY <2>3, <2>5
    <3> QED  BY <2>1, <3>1, <3>2 DEF Phase
  <2>9. phases' = [phases EXCEPT ![b0] = "write"] /\ phases[b0] = "read"
    BY <2>6, <2>7, <2>8
  <2>10. Abstract!StartWrite(b0)
    BY <2>9 DEF Abstract!StartWrite
  <2> QED  BY <2>10 DEF Abstract!Next
<1>5. CASE WriteDone
  <2>1. PICK d \in heap : ~io[d].read /\ heap' = heap \ {d}
    BY <1>5, HeadCompletion DEF WriteDone
  <2>2. io' = io /\ offset' = offset
    BY <1>5 DEF WriteDone
  <2>3. PICK b0 \in Blocks : b0 = io[d].first_offset /\ b0 < offset
    BY <1>b
  <2>4. {e \in heap : io[e].first_offset = b0} = {d}
    BY <1>o, <2>3
  <2>5. {e \in heap' : io'[e].first_offset = b0} = {}
    BY <1>o, <2>1, <2>2, <2>3
  <2>6. Phase(b0) = "write"
    BY <2>1, <2>4 DEF Phase
  <2>7. Phase(b0)' = "done"
    <3>1. ~(b0 >= offset)
      BY <1>0, <2>3, ConstantsAssumption DEF Blocks, FileBytes
    <3> QED  BY <2>2, <2>5, <3>1 DEF Phase
  <2>8. \A b \in Blocks \ {b0} : Phase(b)' = Phase(b)
    <3> SUFFICES ASSUME NEW b \in Blocks \ {b0} PROVE Phase(b)' = Phase(b)
      OBVIOUS
    <3>1. {e \in heap' : io'[e].first_offset = b} = {e \in heap : io[e].first_offset = b}
      BY <2>1, <2>2, <2>3
    <3> QED  BY <2>2, <3>1 DEF Phase
  <2>9. phases' = [phases EXCEPT ![b0] = "done"] /\ phases[b0] = "write"
    BY <2>6, <2>7, <2>8
  <2>10. Abstract!Finish(b0)
    BY <2>9 DEF Abstract!Finish
  <2> QED  BY <2>10 DEF Abstract!Next
<1> QED  BY <1>1, <1>2, <1>3, <1>4, <1>5, StepKinds

\* copy_file() implements BlockCopy: every block is read, written and done once,
\* with at most QUEUE_DEPTH on their way.
THEOREM Refinement == Spec => CopiesBlocks
<1> DEFINE Inv == IInv /\ AlignInv
<1>1. Init => Inv
  <2>1. Init => AlignInv
    <3>1. 0 % BLOCK_SZ = 0
      BY ConstantsAssumption
    <3> QED  BY <3>1 DEF Init, AlignInv
  <2> QED  BY <2>1, Initially
<1>2. Inv /\ [Next]_vars => Inv'
  BY Inductive, Aligned DEF vars, AlignInv
<1>3. Init => Abstract!Init
  <2>1. Init => \A b \in Blocks : Phase(b) = "todo"
    BY ConstantsAssumption DEF Init, Phase, Blocks, FileBytes
  <2> QED  BY <2>1 DEF Abstract!Init
<1>4. Inv /\ [Next]_vars => [Abstract!Next]_([b \in Blocks |-> Phase(b)])
  <2>1. ASSUME UNCHANGED vars PROVE UNCHANGED [b \in Blocks |-> Phase(b)]
    BY <2>1 DEF vars, Phase
  <2> QED  BY <2>1, PhaseStep
<1> QED  BY <1>1, <1>2, <1>3, <1>4, PTL DEF Spec, CopiesBlocks, Abstract!Spec

=============================================================================
