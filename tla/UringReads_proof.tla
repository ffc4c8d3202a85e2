------------------------- MODULE UringReads_proof -------------------------
(***************************************************************************)
(* Proofs about the programs that read files by io_uring and print or      *)
(* count what comes: io_uring-test, uring_cat and liburing_cat, for every  *)
(* number of files, ring, block and file size, and modulus of the indices. *)
(***************************************************************************)
EXTENDS MCUring, FiniteSetTheorems, SequenceTheorems, TLAPS

-----------------------------------------------------------------------------
(* io_uring-test.                                                           *)

\* What the kernel answers, and the reads that get a whole block.
Completion == [read : Nat, res : Int]
Whole(r) == (r + 1) * Block <= st_size

\* Numbers of blocks and of bytes.
LEMMA Times ==
    /\ Block \in Int /\ Block > 0
    /\ \A k, l \in Int : k * Block \in Int /\ (k + 1) * Block = k * Block + Block
                         /\ (k <= l => k * Block <= l * Block)
<1>1. Block \in Int /\ Block > 0
  BY ProgramsAssumption
<1>2. ASSUME NEW k \in Int, NEW l \in Int
      PROVE  k * Block \in Int /\ (k + 1) * Block = k * Block + Block /\ (k <= l => k * Block <= l * Block)
  BY <1>1
<1> QED  BY <1>1, <1>2

\* The queued reads are in flight or completed, each once, and none gives more
\* than the file has there.
ReadsInv ==
    /\ order \in Seq(Completion)
    /\ \A i \in DOMAIN order : /\ order[i].read \in 0 .. queued - 1 /\ order[i].read \notin flying
                               /\ order[i].res \in Test!EIO .. Test!Holds(order[i].read)
    /\ \A i, j \in DOMAIN order : order[i].read = order[j].read => i = j

\* What is done at each place of main().
PlaceInv ==
    /\ test = "prepare" => order = <<>> /\ flying = {} /\ done = 0 /\ fsize = 0
    /\ queued > 0 => (queued - 1) * Block <= st_size
    /\ test \in {"wait", "stopped", "returned"} => Test!Prepared
    /\ done <= Len(order)
    /\ test = "returned" => done = queued
    /\ test = "stopped" => done > 0

\* While the loop runs: whole blocks were counted, and perhaps, as the last one of all,
\* the short one.
CountInv ==
    test = "wait" =>
        \/ fsize = done * Block /\ \A i \in 1 .. done : order[i].res = Block
        \/ /\ done = queued /\ fsize = st_size /\ st_size < queued * Block
           /\ \A i \in 1 .. queued - 1 : order[i].res = Block

TestInv == Test!TypeOK /\ Test!Verdict /\ ReadsInv /\ PlaceInv /\ CountInv

\* What the invariant says about the types.
LEMMA TestTypes ==
    ASSUME TestInv
    PROVE  /\ queued \in Int /\ 0 <= queued /\ queued <= QD /\ QD \in Int
           /\ done \in Int /\ 0 <= done /\ done <= queued
           /\ st_size \in Int /\ 0 <= st_size /\ fsize \in Int
           /\ Len(order) \in Nat /\ DOMAIN order = 1 .. Len(order)
           /\ \A i \in DOMAIN order : order[i] \in Completion /\ order[i].read \in Int /\ order[i].res \in Int
           /\ Test!EIO = -1
<1>1. order \in Seq(Completion) /\ Test!TypeOK
  BY DEF TestInv, ReadsInv, PlaceInv, CountInv
<1>2. Len(order) \in Nat /\ DOMAIN order = 1 .. Len(order) /\ \A i \in DOMAIN order : order[i] \in Completion
  BY <1>1, LenProperties
<1>3. \A c \in Completion : c.read \in Int /\ c.res \in Int
  BY DEF Completion
<1>4. QD \in Int /\ MaxSize \in Int
  BY ProgramsAssumption
<1>5. queued \in Int /\ 0 <= queued /\ queued <= QD
  BY <1>1, <1>4 DEF Test!TypeOK
<1>6. done \in Int /\ 0 <= done /\ done <= queued
  BY <1>1, <1>5 DEF Test!TypeOK
<1>7. st_size \in Int /\ 0 <= st_size
  BY <1>1, <1>4 DEF Test!TypeOK
<1>8. fsize \in Int
  BY <1>1, <1>7 DEF Test!TypeOK, Test!EIO
<1> QED  BY <1>2, <1>3, <1>4, <1>5, <1>6, <1>7, <1>8 DEF Test!EIO

\* What a read gave against what the file has: a whole block is inside the file,
\* and the only block that is not whole is the last.
LEMMA WholeBlock ==
    ASSUME TestInv, NEW i \in DOMAIN order
    PROVE  /\ order[i].read \in 0 .. queued - 1
           /\ order[i].res = Block => Whole(order[i].read)
           /\ ~Whole(order[i].read) =>
                 /\ order[i].read = queued - 1 /\ st_size < queued * Block
                 /\ Test!Holds(order[i].read) = st_size - (queued - 1) * Block
           /\ Whole(order[i].read) => Test!Holds(order[i].read) = Block
           /\ order[i].res <= Block /\ order[i].res >= -1
           /\ Test!Holds(order[i].read) \in Int /\ order[i].res <= Test!Holds(order[i].read)
<1> DEFINE r == order[i].read
           res == order[i].res
           holds == Test!Holds(r)
<1>1. /\ r \in 0 .. queued - 1 /\ r \in Int /\ 0 <= r /\ r <= queued - 1 /\ queued \in Int
      /\ res \in Int /\ st_size \in Int
      /\ res \in -1 .. holds
      /\ holds = IF Whole(r) THEN Block ELSE st_size - r * Block
      /\ (queued - 1) * Block <= st_size
  <2>1. /\ r \in 0 .. queued - 1 /\ queued \in Int /\ r \in Int /\ res \in Int /\ st_size \in Int /\ Test!EIO = -1
        /\ queued > 0 => (queued - 1) * Block <= st_size
    BY TestTypes DEF TestInv, ReadsInv, PlaceInv, CountInv
  <2>2. res \in Test!EIO .. holds
    BY <2>1 DEF TestInv, ReadsInv, PlaceInv, CountInv
  <2>3. holds = IF Whole(r) THEN Block ELSE st_size - r * Block
    BY DEF Test!Holds, Whole
  <2> HIDE DEF r, res, holds
  <2>4. 0 <= r /\ r <= queued - 1 /\ queued > 0
    BY <2>1
  <2> QED  BY <2>1, <2>2, <2>3, <2>4
<1> HIDE DEF r, res, holds
<1>2. /\ Block \in Int /\ Block > 0 /\ r * Block \in Int /\ (r + 1) * Block = r * Block + Block
      /\ (queued - 1) * Block \in Int /\ queued * Block = (queued - 1) * Block + Block
      /\ r * Block <= (queued - 1) * Block
      /\ r + 1 <= queued - 1 => (r + 1) * Block <= (queued - 1) * Block
  <2>1. queued - 1 \in Int /\ queued - 1 + 1 = queued /\ r + 1 \in Int
    BY <1>1
  <2> DEFINE q == queued - 1
  <2>2. q * Block \in Int /\ (q + 1) * Block = q * Block + Block
    BY <2>1, Times
  <2>3. r * Block <= q * Block /\ (r + 1 <= q => (r + 1) * Block <= q * Block)
    BY <1>1, <2>1, Times
  <2> QED  BY <1>1, <2>1, <2>2, <2>3, Times
<1>3. Whole(r) <=> r * Block + Block <= st_size
  BY <1>2 DEF Whole
<1>4. ~Whole(r) => r = queued - 1
  BY <1>1, <1>2, <1>3
<1>5. ~Whole(r) => st_size < queued * Block /\ holds = st_size - (queued - 1) * Block
  <2> SUFFICES ASSUME ~Whole(r) PROVE st_size < queued * Block /\ holds = st_size - (queued - 1) * Block
    OBVIOUS
  <2>1. r = queued - 1 /\ holds = st_size - r * Block
    BY <1>1, <1>4
  <2>2. st_size < r * Block + Block
    BY <1>1, <1>2, <1>3
  <2> QED  BY <1>2, <2>1, <2>2
<1>6. holds \in Int /\ holds <= Block /\ (~Whole(r) => holds < Block)
  <2> DEFINE x == r * Block
  <2>1. x \in Int /\ Block \in Int
    BY <1>2
  <2>2. Whole(r) <=> x + Block <= st_size
    BY <1>3
  <2>3. holds = IF Whole(r) THEN Block ELSE st_size - x
    BY <1>1
  <2> HIDE DEF x
  <2> QED  BY <1>1, <2>1, <2>2, <2>3
<1>7. res <= Block /\ res >= -1 /\ res <= holds /\ (res = Block => Whole(r))
  BY <1>1, <1>2, <1>6
<1> QED  BY <1>1, <1>4, <1>5, <1>6, <1>7 DEF r, res, holds

\* n reads of whole blocks: the file is as long as that.
LEMMA WholeCount ==
    ASSUME TestInv, NEW n \in 0 .. Len(order), \A i \in 1 .. n : Whole(order[i].read)
    PROVE  /\ n <= queued /\ (st_size < queued * Block => n < queued \/ n = 0)
           /\ n * Block <= st_size
<1>1. n \in Int /\ n >= 0 /\ \A i \in 1 .. n : i \in DOMAIN order
  BY TestTypes
<1>2. ASSUME NEW m \in Nat, \A i \in 1 .. n : order[i].read \in 0 .. m - 1 PROVE n <= m
  <2> DEFINE f == [i \in 1 .. n |-> order[i].read]
  <2>1. f \in [1 .. n -> 0 .. m - 1] /\ \A i, j \in 1 .. n : f[i] = f[j] => i = j
    BY <1>1, <1>2 DEF TestInv, ReadsInv, PlaceInv, CountInv
  <2>2. f \in Injection(1 .. n, 0 .. m - 1)
    <3> HIDE DEF f
    <3> QED  BY <2>1 DEF Injection, IsInjective
  <2>3. /\ IsFiniteSet(1 .. n) /\ Cardinality(1 .. n) = n
        /\ IsFiniteSet(0 .. m - 1) /\ Cardinality(0 .. m - 1) = m
    BY <1>1, FS_Interval
  <2>4. Cardinality(1 .. n) <= Cardinality(0 .. m - 1)
    BY <2>2, <2>3, FS_Injection
  <2> QED  BY <2>3, <2>4
<1>3. queued \in Int /\ queued >= 0 /\ st_size \in Int /\ st_size >= 0
  BY TestTypes
<1>4. n <= queued
  BY <1>1, <1>2, <1>3, WholeBlock
<1>5. CASE queued = 0
  BY <1>1, <1>3, <1>4, <1>5, Times
<1>6. CASE queued > 0 /\ queued * Block <= st_size
  BY <1>1, <1>3, <1>4, <1>6, Times
<1>7. CASE queued > 0 /\ st_size < queued * Block
  <2>1. \A i \in 1 .. n : order[i].read \in 0 .. queued - 1 - 1
    <3> TAKE i \in 1 .. n
    <3> DEFINE r == order[i].read
    <3>1. r \in 0 .. queued - 1 /\ (r + 1) * Block <= st_size
      BY <1>1, WholeBlock DEF Whole
    <3> HIDE DEF r
    <3>2. r = queued - 1 => r + 1 = queued
      BY <1>3
    <3>3. r # queued - 1
      BY <1>3, <1>7, <3>1, <3>2, Times
    <3>4. r \in 0 .. queued - 1 - 1
      BY <1>3, <3>1, <3>3
    <3> QED  BY <3>4 DEF r
  <2>2. n <= queued - 1
    <3>1. queued - 1 \in Nat
      BY <1>3, <1>7
    <3> QED  BY <1>2, <2>1, <3>1
  <2>3. n * Block <= (queued - 1) * Block
    BY <1>1, <1>3, <2>2, Times
  <2>4. (queued - 1) * Block <= st_size
    BY <1>7 DEF TestInv, ReadsInv, PlaceInv, CountInv
  <2>5. n * Block \in Int /\ (queued - 1) * Block \in Int
    BY <1>1, <1>3, Times
  <2> QED  BY <1>1, <1>3, <1>4, <2>2, <2>3, <2>4, <2>5
<1>8. queued * Block \in Int
  BY <1>3, Times
<1> QED  BY <1>3, <1>5, <1>6, <1>7, <1>8

\* The invariant of io_uring-test holds at the start,
\* and each of its steps keeps it.
LEMMA TestStarts == Test!Init => TestInv
<1> SUFFICES ASSUME Test!Init PROVE TestInv
  OBVIOUS
<1> USE DEF Test!Init
<1>1. order = <<>> /\ DOMAIN order = {} /\ Len(order) = 0 /\ order \in Seq(Completion)
  OBVIOUS
<1>2. 0 \in 0 .. QD /\ 0 \in Test!EIO .. st_size
  BY ProgramsAssumption DEF Test!EIO
<1>3. Test!TypeOK
  BY <1>1, <1>2 DEF Test!TypeOK
<1> QED  BY <1>1, <1>3 DEF TestInv, ReadsInv, PlaceInv, CountInv, Test!Verdict

\* io_uring_prep_readv() of one more block.
LEMMA PrepareStep == ASSUME TestInv, Test!Prepare PROVE TestInv'
<1>1. /\ test = "prepare" /\ test' = test /\ queued' = queued + 1 /\ queued' \in 1 .. QD
      /\ UNCHANGED <<st_size, flying, order, done, fsize>>
      /\ order = <<>> /\ flying = {} /\ done = 0 /\ fsize = 0
  <2>1. test = "prepare" /\ test' = test /\ queued' = queued + 1 /\ UNCHANGED <<st_size, flying, order, done, fsize>>
    BY DEF Test!Prepare
  <2>2. queued \in Int /\ 0 <= queued /\ queued <= QD /\ QD \in Int /\ QD > 0
    BY TestTypes, ProgramsAssumption
  <2>3. queued # QD
    BY <2>2 DEF Test!Prepare, Test!Prepared
  <2> QED  BY <2>1, <2>2, <2>3 DEF TestInv, PlaceInv
<1>2. (queued' - 1) * Block <= st_size
  <2>1. queued' - 1 = queued /\ queued * Block \in Int /\ st_size \in Int /\ queued \in Int /\ queued >= 0
    BY <1>1, TestTypes, Times
  <2>2. queued = 0 => queued * Block = 0 /\ st_size >= 0
    BY Times, TestTypes
  <2>3. queued > 0 => ~(queued * Block > st_size)
    BY DEF Test!Prepare, Test!Prepared
  <2> QED  BY <2>1, <2>2, <2>3
<1>3. DOMAIN order = {} /\ Len(order) = 0
  BY <1>1
<1>4. done \in 0 .. queued'
  BY <1>1
<1>5. Test!TypeOK'
  BY <1>1, <1>3, <1>4 DEF TestInv, ReadsInv, PlaceInv, CountInv, Test!TypeOK
<1>6. Test!Verdict'
  BY <1>1 DEF Test!Verdict
<1> QED  BY <1>1, <1>2, <1>3, <1>5, <1>6 DEF TestInv, ReadsInv, PlaceInv, CountInv

\* io_uring_submit() of all of them.
LEMMA SubmitStep == ASSUME TestInv, Test!io_uring_submit PROVE TestInv'
<1>1. /\ test = "prepare" /\ test' = "wait" /\ Test!Prepared /\ flying' = 0 .. queued - 1
      /\ UNCHANGED <<st_size, queued, order, done, fsize>>
      /\ order = <<>> /\ done = 0 /\ fsize = 0
  BY DEF Test!io_uring_submit, TestInv, ReadsInv, PlaceInv, CountInv
<1>2. DOMAIN order = {} /\ Len(order) = 0 /\ 0 * Block = 0 /\ 1 .. 0 = {}
  BY <1>1, Times
<1>3. Test!TypeOK'
  BY <1>1, <1>2 DEF TestInv, ReadsInv, PlaceInv, CountInv, Test!TypeOK
<1>4. Test!Verdict' /\ Test!Prepared'
  BY <1>1 DEF Test!Verdict, Test!Prepared
<1> QED  BY <1>1, <1>2, <1>3, <1>4 DEF TestInv, ReadsInv, PlaceInv, CountInv

\* A call that fails ends the program.
LEMMA TestGivesUpStep == ASSUME TestInv, Test!GivesUp PROVE TestInv'
<1>1. test' = "failed" /\ UNCHANGED <<st_size, queued, flying, order, done, fsize>>
  BY DEF Test!GivesUp
<1>2. Test!TypeOK' /\ Test!Verdict'
  BY <1>1 DEF TestInv, ReadsInv, PlaceInv, CountInv, Test!TypeOK, Test!Verdict
<1>3. ReadsInv'
  BY <1>1 DEF TestInv, ReadsInv, Test!Holds
<1> QED  BY <1>1, <1>2, <1>3 DEF TestInv, ReadsInv, PlaceInv, CountInv

\* The kernel completes any read that is in flight.
LEMMA CompletesStep == ASSUME TestInv, Test!Completes PROVE TestInv'
<1>1. PICK r \in flying, res \in Int :
         /\ res \in Test!EIO .. Test!Holds(r)
         /\ flying' = flying \ {r} /\ order' = Append(order, [read |-> r, res |-> res])
         /\ UNCHANGED <<test, st_size, queued, done, fsize>>
  <2>1. \A r \in flying : Test!EIO \in Int /\ Test!Holds(r) \in Int
    <3> TAKE r \in flying
    <3>1. r \in Int /\ st_size \in Int /\ r * Block \in Int /\ Block \in Int
      BY TestTypes, Times DEF TestInv, ReadsInv, PlaceInv, CountInv, Test!TypeOK
    <3> QED  BY <3>1 DEF Test!Holds, Test!EIO
  <2>2. \A r \in flying : Test!Results(r) \subseteq Test!EIO .. Test!Holds(r)
    <3> TAKE r \in flying
    <3>1. r \in 0 .. queued - 1 /\ r \in Int /\ st_size \in Int /\ queued \in Int /\ r <= queued - 1 /\ queued > 0
      BY TestTypes DEF TestInv, Test!TypeOK
    <3>2. queued - 1 \in Int /\ r * Block \in Int /\ (queued - 1) * Block \in Int /\ r * Block <= (queued - 1) * Block
      BY <3>1, Times
    <3>3. r * Block <= st_size
      BY <3>1, <3>2 DEF TestInv, PlaceInv
    <3>4. Test!Holds(r) >= 0
      BY <3>1, <3>2, <3>3, Times DEF Test!Holds
    <3> QED  BY <2>1, <3>4 DEF Test!Results, Test!EIO
  <2> QED  BY <2>1, <2>2 DEF Test!Completes
<1> DEFINE c == [read |-> r, res |-> res]
           n == Len(order)
<1>2. /\ r \in 0 .. queued - 1 /\ r \in Nat /\ res \in Int
      /\ r \notin {order[i].read : i \in DOMAIN order}
      /\ order \in Seq(Completion) /\ n \in Nat /\ DOMAIN order = 1 .. n
  <2>1. r \in 0 .. queued - 1 /\ r \in Nat
    BY TestTypes DEF TestInv, ReadsInv, PlaceInv, CountInv, Test!TypeOK
  <2> QED  BY <1>1, <2>1, TestTypes DEF TestInv, ReadsInv, PlaceInv, CountInv
<1>3. c \in Completion
  BY <1>2 DEF Completion
<1>4. /\ order' \in Seq(Completion) /\ Len(order') = n + 1 /\ DOMAIN order' = 1 .. n + 1
      /\ order'[n + 1] = c /\ \A i \in 1 .. n : order'[i] = order[i]
  <2> HIDE DEF c
  <2> QED  BY <1>1, <1>2, <1>3, AppendProperties DEF c
<1>5. c.read = r /\ c.res = res
  OBVIOUS
<1> HIDE DEF c, n
<1>6. /\ test # "prepare"
      /\ \A i \in DOMAIN order' : /\ order'[i].read \in 0 .. queued - 1 /\ order'[i].read \notin flying'
                                  /\ order'[i].res \in Test!EIO .. Test!Holds(order'[i].read)
  <2>1. \A i \in DOMAIN order' : i = n + 1 \/ i \in DOMAIN order
    BY <1>2, <1>4
  <2> QED  BY <1>1, <1>2, <1>4, <1>5, <2>1 DEF TestInv, ReadsInv, PlaceInv, CountInv
<1>7. \A i, j \in DOMAIN order' : order'[i].read = order'[j].read => i = j
  <2>1. \A i \in DOMAIN order' : i = n + 1 \/ i \in DOMAIN order
    BY <1>2, <1>4
  <2> QED  BY <1>2, <1>4, <1>5, <2>1 DEF TestInv, ReadsInv, PlaceInv, CountInv
<1>8. /\ done <= n /\ done \in Int /\ queued \in Int
      /\ \A i \in 1 .. done : order'[i] = order[i]
      /\ done \in 0 .. queued
  BY <1>2, <1>4, TestTypes DEF TestInv, ReadsInv, PlaceInv, CountInv, n
<1>9. Test!TypeOK'
  <2>1. flying' \cup {order'[i].read : i \in DOMAIN order'} \subseteq 0 .. queued - 1
    BY <1>1, <1>6 DEF TestInv, ReadsInv, PlaceInv, CountInv, Test!TypeOK
  <2> QED  BY <1>1, <2>1 DEF TestInv, ReadsInv, PlaceInv, CountInv, Test!TypeOK
<1>10. Test!Verdict'
  <2>1. test = "returned" => \A i \in 1 .. queued - 1 : order'[i] = order[i]
    <3>1. test = "returned" => done = queued
      BY DEF TestInv, ReadsInv, PlaceInv, CountInv
    <3> QED  BY <1>8, <3>1
  <2>2. test = "stopped" => order'[done] = order[done]
    BY <1>8 DEF TestInv, PlaceInv
  <2> QED  BY <1>1, <1>8, <2>1, <2>2 DEF TestInv, Test!Verdict, Test!Holds
<1>11. test = "wait" =>
          \/ fsize = done * Block /\ \A i \in 1 .. done : order'[i].res = Block
          \/ /\ done = queued /\ fsize = st_size /\ st_size < queued * Block
             /\ \A i \in 1 .. queued - 1 : order'[i].res = Block
  <2>1. done = queued => \A i \in 1 .. queued - 1 : order'[i] = order[i]
    BY <1>8
  <2> QED  BY <1>8, <2>1 DEF TestInv, CountInv
<1>12. ReadsInv'
  BY <1>1, <1>4, <1>6, <1>7 DEF ReadsInv, Test!Holds
<1>13. Test!Prepared' = Test!Prepared /\ done <= n + 1
  BY <1>1, <1>2, <1>8 DEF Test!Prepared
<1>14. PlaceInv'
  BY <1>1, <1>4, <1>6, <1>13 DEF TestInv, PlaceInv
<1> QED  BY <1>1, <1>9, <1>10, <1>11, <1>12, <1>14 DEF TestInv, CountInv

\* The loop counts a completion, and stops at one that is not what it wanted.
LEMMA CountStep == ASSUME TestInv, Test!Count PROVE TestInv'
<1> DEFINE n == done + 1
           res == order[n].res
<1>1. /\ test = "wait" /\ done < queued /\ Len(order) > done
      /\ fsize' = fsize + res /\ done' = n
      /\ test' = (IF Test!Wanted(res) THEN "wait" ELSE "stopped")
      /\ UNCHANGED <<st_size, queued, flying, order>>
  BY DEF Test!Count
<1>2. /\ n \in 1 .. queued /\ n \in 1 .. Len(order) /\ n \in DOMAIN order /\ n \in Int /\ done \in 0 .. Len(order)
      /\ \A i \in 1 .. n : i \in 1 .. done \/ i = n
      /\ done \in Int /\ done >= 0 /\ queued \in Int /\ res \in Int /\ fsize \in Int
      /\ st_size \in Int /\ Test!EIO = -1
  BY <1>1, TestTypes
<1>3. fsize = done * Block /\ \A i \in 1 .. done : order[i].res = Block
  BY <1>1, <1>2 DEF TestInv, ReadsInv, PlaceInv, CountInv
<1>7. \A i \in 1 .. done : Whole(order[i].read)
  BY <1>2, <1>3, WholeBlock
<1>4. /\ fsize <= st_size /\ fsize >= 0 /\ n * Block = fsize + Block
      /\ (queued - 1) * Block \in Int /\ queued * Block \in Int
      /\ fsize <= (queued - 1) * Block
  <2>1. done * Block <= st_size
    BY <1>2, <1>7, WholeCount
  <2>2. 0 <= done * Block
    BY <1>2, Times
  <2>3. done * Block <= (queued - 1) * Block /\ (queued - 1) * Block \in Int /\ queued * Block \in Int
    <3>1. done <= queued - 1 /\ queued - 1 \in Int
      BY <1>1, <1>2
    <3> QED  BY <1>2, <3>1, Times
  <2>4. n * Block = done * Block + Block
    BY <1>2, Times
  <2> QED  BY <1>3, <2>1, <2>2, <2>3, <2>4
<1>5. CASE res = Block
  <2>1. \A i \in 1 .. n : order[i].res = Block
    BY <1>2, <1>3, <1>5
  <2>2. n * Block <= st_size
    <3>1. n \in 0 .. Len(order) /\ \A i \in 1 .. n : Whole(order[i].read)
      BY <1>2, <2>1, WholeBlock
    <3> HIDE DEF n
    <3> QED  BY <3>1, WholeCount
  <2>3. test' = "wait" /\ fsize' = n * Block /\ fsize' \in Test!EIO .. st_size /\ n \in 0 .. queued
    <3>1. test' = "wait"
      BY <1>1, <1>5 DEF Test!Wanted
    <3>2. fsize' = fsize + Block /\ Block \in Int /\ Block > 0
      BY <1>1, <1>5, Times
    <3> HIDE DEF n, res
    <3> QED  BY <1>2, <1>4, <2>2, <3>1, <3>2
  <2>4. Test!TypeOK' /\ Test!Verdict' /\ Test!Prepared'
    BY <1>1, <2>3 DEF TestInv, ReadsInv, PlaceInv, CountInv, Test!TypeOK, Test!Verdict, Test!Prepared
  <2>5. ReadsInv'
    BY <1>1 DEF TestInv, ReadsInv, Test!Holds
  <2> HIDE DEF n, res
  <2>6. CountInv'
    BY <1>1, <2>1, <2>3 DEF CountInv
  <2>7. PlaceInv'
    BY <1>1, <1>2, <2>3, <2>4 DEF TestInv, PlaceInv
  <2> QED  BY <2>4, <2>5, <2>6, <2>7 DEF TestInv
<1>6. CASE res # Block
  <2> DEFINE r == order[n].read
             x == (queued - 1) * Block
             y == queued * Block
  <2>1. /\ res < Block /\ res >= -1 /\ res <= Test!Holds(r) /\ Test!Holds(r) \in Int
        /\ ~Whole(r) => r = queued - 1 /\ st_size < y /\ Test!Holds(r) = st_size - x
        /\ Whole(r) => Test!Holds(r) = Block
    BY <1>2, <1>6, WholeBlock, Times
  <2>2. Whole(r) => fsize + Block <= st_size
    <3> SUFFICES ASSUME Whole(r) PROVE fsize + Block <= st_size
      OBVIOUS
    <3>1. \A i \in 1 .. n : Whole(order[i].read)
      BY <1>2, <1>7
    <3>2. n \in 0 .. Len(order)
      BY <1>2
    <3>3. n * Block <= st_size
      <4> HIDE DEF n
      <4> QED  BY <3>1, <3>2, WholeCount
    <3> QED  BY <1>4, <3>3
  <2>3. /\ x \in Int /\ y \in Int /\ fsize <= x /\ fsize >= 0 /\ fsize <= st_size
    BY <1>4
  <2>4. fsize + res >= -1 /\ fsize + res <= st_size
    <3> HIDE DEF r, x, y, n, res
    <3>1. CASE Whole(r)
      BY <1>2, <2>1, <2>2, <2>3, <3>1, Times
    <3>2. CASE ~Whole(r)
      BY <1>2, <2>1, <2>3, <3>2
    <3> QED  BY <3>1, <3>2
  <2>5. ReadsInv'
    BY <1>1 DEF TestInv, ReadsInv, Test!Holds
  <2>6. fsize' \in Test!EIO .. st_size /\ n \in 0 .. queued /\ test' \in {"wait", "stopped"}
    BY <1>1, <1>2, <2>4
  <2>7. Test!TypeOK' /\ Test!Prepared'
    <3> HIDE DEF n, res
    <3> QED  BY <1>1, <2>6 DEF TestInv, ReadsInv, PlaceInv, CountInv, Test!TypeOK, Test!Prepared
  <2>8. CASE Test!Wanted(res)
    <3>1. res + fsize = st_size
      BY <1>6, <2>8 DEF Test!Wanted
    <3>2. ~Whole(r) /\ fsize = x /\ st_size < y
      <4> HIDE DEF r, x, y, n, res
      <4>1. ~Whole(r)
        BY <1>2, <2>1, <2>2, <2>3, <3>1, Times
      <4> QED  BY <1>2, <2>1, <2>3, <3>1, <4>1
    <3>3. done = queued - 1
      <4>1. CASE done <= queued - 2
        <5>1. n <= queued - 1 /\ queued - 1 \in Int
          BY <1>2, <4>1
        <5>2. n * Block <= (queued - 1) * Block
          BY <1>2, <5>1, Times
        <5>3. fsize + Block <= fsize
          BY <1>4, <3>2, <5>2
        <5> QED  BY <1>2, <5>3, Times
      <4> QED  BY <1>1, <1>2, <4>1
    <3>4. /\ n = queued /\ \A i \in 1 .. queued - 1 : order[i].res = Block
          /\ st_size < queued * Block /\ fsize' = st_size /\ test' = "wait"
      BY <1>1, <1>2, <1>3, <2>8, <3>1, <3>2, <3>3
    <3>5. Test!Verdict'
      BY <1>1, <3>4 DEF Test!Verdict
    <3> HIDE DEF n, res
    <3> QED  BY <1>1, <1>2, <2>5, <2>7, <3>4, <3>5 DEF TestInv, ReadsInv, PlaceInv, CountInv
  <2>9. CASE ~Test!Wanted(res)
    <3>1. test' = "stopped" /\ res + fsize # st_size
      BY <1>1, <2>9 DEF Test!Wanted
    <3>2. n < queued \/ res < Test!Holds(r)
      <4> SUFFICES ASSUME n = queued, res = Test!Holds(r) PROVE FALSE
        BY <1>2, <2>1
      <4>1. done = queued - 1
        BY <1>2
      <4>2. fsize = x
        BY <1>3, <4>1
      <4>3. ~Whole(r)
        BY <2>1
      <4> QED  BY <1>2, <2>1, <2>3, <3>1, <4>2, <4>3
    <3>3. Test!Verdict'
      <4>1. /\ test' = "stopped" /\ done' = n /\ order'[n].res = res /\ order'[n].read = r
            /\ res < Block /\ queued' = queued /\ st_size' = st_size
        BY <1>1, <2>1, <3>1
      <4> HIDE DEF n, res, r
      <4> QED  BY <3>2, <4>1 DEF Test!Verdict, Test!Holds
    <3>4. n > 0
      BY <1>2
    <3> HIDE DEF n, res
    <3> QED  BY <1>1, <1>2, <2>5, <2>7, <3>1, <3>3, <3>4 DEF TestInv, ReadsInv, PlaceInv, CountInv
  <2> QED  BY <2>8, <2>9
<1> QED  BY <1>5, <1>6

\* The loop is over: what was counted is what the first QD blocks hold.
LEMMA ReturnsStep == ASSUME TestInv, Test!Returns PROVE TestInv'
<1>1. /\ test = "wait" /\ done = queued /\ test' = "returned"
      /\ UNCHANGED <<st_size, queued, flying, order, done, fsize>>
  BY DEF Test!Returns
<1>2. /\ queued \in Int /\ queued > 0 /\ queued <= QD /\ QD \in Int /\ st_size \in Int /\ queued \in 0 .. Len(order)
      /\ queued * Block > st_size \/ queued = QD
      /\ queued * Block \in Int /\ QD * Block \in Int /\ queued * Block <= QD * Block
  <2>1. queued \in Int /\ queued <= QD /\ QD \in Int /\ st_size \in Int /\ queued \in 0 .. Len(order)
    BY <1>1, TestTypes DEF TestInv, ReadsInv, PlaceInv, CountInv
  <2>2. Test!Prepared
    BY <1>1 DEF TestInv, ReadsInv, PlaceInv, CountInv
  <2>3. queued * Block \in Int /\ QD * Block \in Int /\ queued * Block <= QD * Block
    BY <2>1, Times
  <2> QED  BY <2>1, <2>2, <2>3 DEF Test!Prepared
<1>3. /\ fsize = IF st_size < QD * Block THEN st_size ELSE QD * Block
      /\ \A i \in 1 .. queued - 1 : order[i].res = Block
  <2>1. CASE fsize = done * Block /\ \A i \in 1 .. done : order[i].res = Block
    <3>1. queued * Block <= st_size
      <4>1. \A i \in 1 .. queued : Whole(order[i].read)
        BY <1>1, <1>2, <2>1, TestTypes, WholeBlock
      <4> QED  BY <1>2, <4>1, WholeCount
    <3>2. queued = QD
      BY <1>2, <3>1
    <3> QED  BY <1>1, <1>2, <2>1, <3>1, <3>2
  <2>2. CASE /\ done = queued /\ fsize = st_size /\ st_size < queued * Block
             /\ \A i \in 1 .. queued - 1 : order[i].res = Block
    BY <1>2, <2>2
  <2> QED  BY <1>1, <2>1, <2>2 DEF TestInv, ReadsInv, PlaceInv, CountInv
<1>4. Test!TypeOK' /\ Test!Prepared'
  BY <1>1 DEF TestInv, ReadsInv, PlaceInv, CountInv, Test!TypeOK, Test!Prepared
<1>5. Test!Verdict'
  BY <1>1, <1>3 DEF Test!Verdict
<1>6. ReadsInv'
  BY <1>1 DEF TestInv, ReadsInv, Test!Holds
<1> QED  BY <1>1, <1>4, <1>5, <1>6 DEF TestInv, ReadsInv, PlaceInv, CountInv

-----------------------------------------------------------------------------
(* Remainders.                                                              *)

\* Division with remainder: the remainder is below the divisor, ...
LEMMA ModRange ==
  ASSUME NEW a \in Int, NEW n \in Int, n > 0
  PROVE a % n \in Int /\ a % n >= 0 /\ a % n < n
OBVIOUS

\* ... the quotient that goes with it, ...
LEMMA ModDiv ==
  ASSUME NEW a \in Int, NEW n \in Int, n > 0
  PROVE \E q, r \in Int : a = q * n + r /\ r = a % n
<1> DEFINE q == a \div n
           r == a % n
<1>1. q \in Int /\ r = a - n * q
  OBVIOUS
<1>2. r \in Int
  BY ModRange
<1> HIDE DEF q, r
<1>3. a = q * n + r
  BY <1>1, <1>2
<1> QED BY <1>1, <1>2, <1>3 DEF r

\* ... and that there is no other.
LEMMA ModUnique ==
  ASSUME NEW n \in Int, n > 0, NEW q \in Int, NEW r \in Int, 0 <= r, r < n
  PROVE (q * n + r) % n = r
OBVIOUS

\* Numbers a multiple of n apart have the same remainder.
LEMMA ModSame ==
  ASSUME NEW n \in Int, n > 0, NEW a \in Int, NEW k \in Int
  PROVE (a + k * n) % n = a % n
<1>1. PICK q, r \in Int : a = q * n + r /\ r = a % n
  BY ModDiv
<1>2. r \in Int /\ 0 <= r /\ r < n
  BY <1>1, ModRange
<1>3. a = q * n + r
  BY <1>1
<1>4. a + k * n = (q + k) * n + r
  BY <1>2, <1>3
<1>5. q + k \in Int
  OBVIOUS
<1>6. ((q + k) * n + r) % n = r
  BY <1>2, <1>5, ModUnique
<1> QED BY <1>1, <1>4, <1>6

\* A sum may be taken of a remainder, ...
LEMMA ModPlus ==
  ASSUME NEW n \in Int, n > 0, NEW a \in Int, NEW b \in Int
  PROVE ((a % n) + b) % n = (a + b) % n
<1>1. PICK q, r \in Int : a = q * n + r /\ r = a % n
  BY ModDiv
<1>2. r \in Int
  OBVIOUS
<1>3. a = q * n + r
  BY <1>1
<1>4. a + b = (r + b) + q * n /\ r + b \in Int
  BY <1>2, <1>3
<1>5. (r + b + q * n) % n = (r + b) % n
  BY <1>4, ModSame
<1> QED BY <1>1, <1>4, <1>5

\* ... and so may a difference.
LEMMA ModMinus ==
  ASSUME NEW n \in Int, n > 0, NEW a \in Int, NEW b \in Int
  PROVE (b - (a % n)) % n = (b - a) % n
<1>1. PICK q, r \in Int : a = q * n + r /\ r = a % n
  BY ModDiv
<1>2. r \in Int
  OBVIOUS
<1>3. a = q * n + r
  BY <1>1
<1>4. b - r = (b - a) + q * n /\ b - a \in Int
  BY <1>2, <1>3
<1>5. (b - a + q * n) % n = (b - a) % n
  BY <1>4, ModSame
<1> QED BY <1>1, <1>4, <1>5

\* The remainders of numbers that are less than n apart tell their distance.
LEMMA ModDiff ==
  ASSUME NEW n \in Int, n > 0, NEW a \in Int, NEW b \in Int, 0 <= b - a, b - a < n
  PROVE ((b % n) - (a % n)) % n = b - a
<1>1. b % n \in Int /\ b - a \in Int
  BY ModRange
<1>2. ((b % n) - (a % n)) % n = ((b % n) - a) % n
  BY <1>1, ModMinus
<1>3. ((b % n) + (0 - a)) % n = (b + (0 - a)) % n
  <2>1. 0 - a \in Int
    OBVIOUS
  <2> QED BY <2>1, ModPlus
<1>4. (b % n) + (0 - a) = (b % n) - a /\ b + (0 - a) = b - a
  BY <1>1
<1>5. (b - a) % n = b - a
  <2> DEFINE d == b - a
  <2>1. d \in Int /\ d = 0 * n + d /\ 0 <= d /\ d < n
    OBVIOUS
  <2> HIDE DEF d
  <2>2. (0 * n + d) % n = d
    BY <2>1, ModUnique
  <2> QED BY <2>1, <2>2 DEF d
<1> QED BY <1>2, <1>3, <1>4, <1>5

\* Numbers less than n apart have remainders of their own.
LEMMA ModApart ==
  ASSUME NEW n \in Int, n > 0, NEW a \in Int, NEW b \in Int, 0 < b - a, b - a < n
  PROVE b % n # a % n
<1>1. ((b % n) - (a % n)) % n = b - a
  <2>1. 0 <= b - a
    OBVIOUS
  <2> QED BY <2>1, ModDiff
<1>2. b % n \in Int /\ a % n \in Int
  BY ModRange
<1>3. 0 % n = 0
  OBVIOUS
<1> QED BY <1>1, <1>2, <1>3

\* The remainder by n is that of the remainder by a multiple of n.
LEMMA ModMod ==
  ASSUME NEW n \in Int, n > 0, NEW w \in Int, w > 0, w % n = 0, NEW a \in Int
  PROVE (a % w) % n = a % n
<1>1. PICK q, r \in Int : a = q * w + r /\ r = a % w
  BY ModDiv
<1>2. PICK k, z \in Int : w = k * n + z /\ z = w % n
  BY ModDiv
<1>3. r \in Int /\ a = q * w + r /\ w = k * n
  BY <1>1, <1>2
<1>4. q * k \in Int /\ a = r + (q * k) * n
  <2>1. q * (k * n) = (q * k) * n /\ q * k \in Int /\ (q * k) * n \in Int
    OBVIOUS
  <2> QED BY <1>3, <2>1
<1>5. (r + (q * k) * n) % n = r % n
  BY <1>3, <1>4, ModSame
<1> QED BY <1>1, <1>4, <1>5
-----------------------------------------------------------------------------
(* uring_cat.                                                               *)

\* A completion in the ring of a cat.
CatRead == [file : Nat, res : {"whole", "short", "io"}]

\* The index after n entries, and the place of the i-th completion in the ring.
Index(n) == (Wrap - 1 + n) % Wrap
Slot(i) == Index(i - 1) % CqEntries

\* The sizes of the rings, and the modulus.
LEMMA Sizes ==
    /\ Wrap \in Int /\ Wrap > 0 /\ Wrap > 1 /\ SqEntries \in Int /\ SqEntries > 0
    /\ CqEntries \in Int /\ CqEntries > 0 /\ CqEntries < Wrap
    /\ Wrap % SqEntries = 0 /\ Wrap % CqEntries = 0
    /\ Files \in Int /\ Files > 0
BY ProgramsAssumption

\* An index is a number below Wrap, and the next one is that of the next entry.
LEMMA Indices ==
    /\ \A n \in Nat : Index(n) \in 0 .. Wrap - 1 /\ Raw!Next1(Index(n)) = Index(n + 1)
    /\ Index(0) = Wrap - 1
    /\ \A x \in Int : Raw!Next1(x) \in 0 .. Wrap - 1
<1>1. ASSUME NEW n \in Nat PROVE Index(n) \in 0 .. Wrap - 1 /\ Raw!Next1(Index(n)) = Index(n + 1)
  <2> DEFINE a == Wrap - 1 + n
  <2>1. a \in Int /\ Wrap - 1 + (n + 1) = a + 1
    BY Sizes
  <2> HIDE DEF a
  <2>2. a % Wrap \in 0 .. Wrap - 1
    BY <2>1, Sizes, ModRange
  <2>3. ((a % Wrap) + 1) % Wrap = (a + 1) % Wrap
    <3>1. \A b \in Int : ((a % Wrap) + b) % Wrap = (a + b) % Wrap
      BY <2>1, Sizes, ModPlus
    <3> QED  BY <3>1
  <2> QED  BY <2>1, <2>2, <2>3 DEF Index, Raw!Next1, a
<1>2. Index(0) = Wrap - 1
  BY Sizes DEF Index
<1>3. ASSUME NEW x \in Int PROVE Raw!Next1(x) \in 0 .. Wrap - 1
  <2>1. (x + 1) % Wrap \in 0 .. Wrap - 1
    BY Sizes, ModRange
  <2> QED  BY <2>1 DEF Raw!Next1
<1> QED  BY <1>1, <1>2, <1>3

\* The distance of two indices is the number of entries between them.
LEMMA Between ==
    ASSUME NEW k \in Nat, NEW c \in Nat, k <= c, c - k < Wrap
    PROVE  (Index(c) - Index(k)) % Wrap = c - k /\ (Index(c) = Index(k) => c = k)
<1> DEFINE a == Wrap - 1 + k
           b == Wrap - 1 + c
<1>1. a \in Int /\ b \in Int /\ b - a = c - k
  BY Sizes
<1> HIDE DEF a, b
<1>2. 0 <= b - a /\ b - a < Wrap
  BY <1>1
<1>3. ((b % Wrap) - (a % Wrap)) % Wrap = b - a
  BY <1>1, <1>2, Sizes, ModDiff
<1>4. ASSUME b - a # 0 PROVE b % Wrap # a % Wrap
  <2>1. 0 < b - a
    BY <1>1, <1>2, <1>4
  <2> QED  BY <1>1, <1>2, <2>1, Sizes, ModApart
<1> QED  BY <1>1, <1>3, <1>4 DEF Index, a, b

\* Completions that are in the ring together have places of their own.
LEMMA Slots ==
    /\ \A i \in Nat \ {0} : Slot(i) \in 0 .. CqEntries - 1 /\ Slot(i) = Index(i - 1) % CqEntries
    /\ \A i, j \in Nat \ {0} : i < j /\ j - i < CqEntries => Slot(i) # Slot(j)
<1>1. ASSUME NEW i \in Nat \ {0}
      PROVE  Slot(i) = (Wrap - 1 + (i - 1)) % CqEntries /\ Slot(i) \in 0 .. CqEntries - 1
  <2> DEFINE a == Wrap - 1 + (i - 1)
  <2>1. a \in Int
    BY Sizes
  <2> HIDE DEF a
  <2>2. (a % Wrap) % CqEntries = a % CqEntries
    BY <2>1, Sizes, ModMod
  <2>3. a % CqEntries \in 0 .. CqEntries - 1
    BY <2>1, Sizes, ModRange
  <2> QED  BY <2>2, <2>3 DEF Slot, Index, a
<1>2. ASSUME NEW i \in Nat \ {0}, NEW j \in Nat \ {0}, i < j, j - i < CqEntries PROVE Slot(i) # Slot(j)
  <2> DEFINE a == Wrap - 1 + (i - 1)
             b == Wrap - 1 + (j - 1)
  <2>1. a \in Int /\ b \in Int /\ 0 < b - a /\ b - a < CqEntries
    BY <1>2, Sizes
  <2> HIDE DEF a, b
  <2>2. b % CqEntries # a % CqEntries
    BY <2>1, Sizes, ModApart
  <2> QED  BY <1>1, <2>2 DEF a, b
<1> QED  BY <1>1, <1>2 DEF Slot

\* The completions that the kernel may not overwrite yet are those after the k-th.
RingAt(k) ==
    /\ k <= Len(printed) /\ Len(completed) - k <= CqEntries
    /\ cqHead = Index(k)
    /\ cat # "read" => k = Len(printed)
    /\ \A i \in k + 1 .. Len(completed) : cqes[Slot(i)] = completed[i]

\* What is in the completion ring is what was completed and not printed, and the
\* indices say where.
RingInv ==
    /\ completed \in Seq(CatRead) /\ printed \in Seq(CatRead)
    /\ cqes \in [0 .. CqEntries - 1 -> CatRead \cup {Raw!NoFile}]
    /\ cqTail = Index(Len(completed))
    /\ head \in 0 .. Wrap - 1 /\ (cat = "read" => head = Index(Len(printed)))
    /\ Len(printed) <= Len(completed)
    /\ \A i \in 1 .. Len(printed) : printed[i] = completed[i]
    /\ \E k \in Nat : RingAt(k)

\* The submission ring has the file of this turn or nothing.
SubmitInv ==
    /\ cat \in {"submit", "enter", "wait", "read", "done", "failed"}
    /\ turn \in 1 .. Files + 1 /\ flying \subseteq 1 .. Files
    /\ sqes \in [0 .. SqEntries - 1 -> Nat] /\ sqHead \in 0 .. Wrap - 1
    /\ sqTail = sqHead \/ sqTail = Raw!Next1(sqHead)
    /\ cat \in {"submit", "wait", "read", "done"} => sqTail = sqHead
    /\ cat \in {"enter", "wait", "read"} => turn <= Files
    /\ cat = "enter" => sqTail = Raw!Next1(sqHead) /\ sqes[sqHead % SqEntries] = turn

\* Without interrupts a turn leaves nothing to the next one.
TurnInv ==
    "wait" \notin faults =>
        /\ \A i \in 1 .. Len(completed) : completed[i].file = i
        /\ cat \in {"submit", "done", "enter"} => Len(completed) = turn - 1
        /\ cat \notin {"wait", "read"} => flying = {} /\ Len(printed) = Len(completed)
        /\ cat = "wait" =>
              /\ Len(printed) = turn - 1
              /\ \/ Len(completed) = turn - 1 /\ flying = {turn}
                 \/ Len(completed) = turn /\ flying = {}
        /\ cat = "read" => Len(completed) = turn /\ flying = {} /\ Len(printed) >= turn - 1

RawInv == RingInv /\ SubmitInv /\ TurnInv

\* What the invariant says about the types.
LEMMA RawTypes ==
    ASSUME RawInv
    PROVE  /\ Len(completed) \in Nat /\ Len(printed) \in Nat /\ turn \in Int
           /\ DOMAIN completed = 1 .. Len(completed) /\ DOMAIN printed = 1 .. Len(printed)
           /\ sqHead \in Int /\ sqTail \in Int
<1>1. completed \in Seq(CatRead) /\ printed \in Seq(CatRead)
  BY DEF RawInv, RingInv
<1>2. sqHead \in Int /\ (sqTail = sqHead \/ sqTail = Raw!Next1(sqHead)) /\ turn \in 1 .. Files + 1
  BY Sizes DEF RawInv, SubmitInv
<1>3. sqTail \in Int /\ turn \in Int
  BY <1>2, Sizes, Indices
<1> QED  BY <1>1, <1>2, <1>3, LenProperties

\* What the invariant is for.
LEMMA RawPrints == ASSUME RawInv PROVE Raw!TypeOK /\ Raw!PrintsCompletions
<1> DEFINE c == Len(completed)
           n == Len(printed)
<1>1. /\ c \in Nat /\ n \in Nat /\ n <= c /\ cqTail = Index(c)
      /\ printed \in Seq(CatRead) /\ completed \in Seq(CatRead)
      /\ DOMAIN printed = 1 .. n /\ \A i \in 1 .. n : printed[i] = completed[i]
  BY RawTypes DEF RawInv, RingInv
<1>2. PICK k \in Nat : k <= n /\ c - k <= CqEntries /\ cqHead = Index(k)
  BY DEF RawInv, RingInv, RingAt
<1>3. {sqHead, sqTail, cqHead, cqTail, head} \subseteq 0 .. Wrap - 1
  <2>1. cqHead \in 0 .. Wrap - 1 /\ cqTail \in 0 .. Wrap - 1
    BY <1>1, <1>2, Indices
  <2>2. sqHead \in 0 .. Wrap - 1 /\ sqHead \in Int /\ (sqTail = sqHead \/ sqTail = Raw!Next1(sqHead)) /\ head \in 0 .. Wrap - 1
    BY RawTypes DEF RawInv, SubmitInv, RingInv
  <2>3. sqTail \in 0 .. Wrap - 1
    BY <2>2, Indices
  <2> QED  BY <2>1, <2>2, <2>3
<1>4. (cqTail - cqHead) % Wrap <= CqEntries
  <2> HIDE DEF c, n
  <2>1. k <= c /\ c - k < Wrap
    BY <1>1, <1>2, Sizes
  <2>2. (Index(c) - Index(k)) % Wrap = c - k
    BY <1>1, <2>1, Between
  <2> QED  BY <1>1, <1>2, <2>2
<1>5. (sqTail - sqHead) % Wrap <= SqEntries
  <2>1. sqHead \in Int /\ (sqTail = sqHead \/ sqTail = (sqHead + 1) % Wrap)
    BY RawTypes DEF RawInv, SubmitInv, Raw!Next1
  <2>2. CASE sqTail = sqHead
    <3>1. sqTail - sqHead = 0 /\ 0 % Wrap = 0
      BY <2>1, <2>2, Sizes
    <3> QED  BY <3>1, Sizes
  <2>3. CASE sqTail = (sqHead + 1) % Wrap
    <3>1. (((sqHead + 1) % Wrap) + (0 - sqHead)) % Wrap = (sqHead + 1 + (0 - sqHead)) % Wrap
      <4>1. sqHead + 1 \in Int /\ 0 - sqHead \in Int
        BY <2>1
      <4> QED  BY <4>1, Sizes, ModPlus
    <3>2. sqHead + 1 + (0 - sqHead) = 1 /\ 1 % Wrap = 1
      BY <2>1, Sizes
    <3>3. sqTail \in Int
      BY RawTypes
    <3>4. sqTail - sqHead = sqTail + (0 - sqHead)
      BY <2>1, <3>3
    <3> QED  BY <2>3, <3>1, <3>2, <3>4, Sizes
  <2> QED  BY <2>1, <2>2, <2>3
<1>6. Raw!TypeOK
  BY <1>3, <1>4, <1>5 DEF Raw!TypeOK, RawInv, SubmitInv
<1>7. Raw!IsPrefix(printed, completed)
  <2>1. SubSeq(printed, 1, n) = printed
    BY <1>1, SubSeqFull
  <2>2. /\ SubSeq(completed, 1, n) \in Seq(CatRead) /\ Len(SubSeq(completed, 1, n)) = n
        /\ \A i \in 1 .. n : SubSeq(completed, 1, n)[i] = completed[i]
    BY <1>1, SubSeqProperties
  <2>3. SubSeq(completed, 1, n) = printed
    BY <1>1, <2>2, SeqEqual
  <2> QED  BY <1>1, <2>1, <2>3 DEF Raw!IsPrefix
<1>8. cat \in {"submit", "done"} /\ "wait" \notin faults =>
         [i \in DOMAIN printed |-> printed[i].file] = [i \in 1 .. turn - 1 |-> i]
  <2> SUFFICES ASSUME cat \in {"submit", "done"}, "wait" \notin faults
               PROVE  [i \in DOMAIN printed |-> printed[i].file] = [i \in 1 .. turn - 1 |-> i]
    OBVIOUS
  <2>1. n = turn - 1 /\ \A i \in 1 .. n : completed[i].file = i
    BY <1>1 DEF RawInv, TurnInv
  <2> HIDE DEF c, n
  <2> QED  BY <1>1, <2>1
<1> QED  BY <1>6, <1>7, <1>8 DEF Raw!PrintsCompletions

\* What a step that leaves the completion ring alone keeps.
LEMMA RingKept ==
    ASSUME RingInv, UNCHANGED <<cqHead, cqTail, cqes, head, completed, printed>>,
           cat # "read", cat' # "read"
    PROVE  RingInv'
<1>1. PICK k \in Nat : RingAt(k)
  BY DEF RingInv
<1>2. k = Len(printed)
  BY <1>1 DEF RingAt
<1>3. RingAt(k)'
  BY <1>1, <1>2 DEF RingAt
<1> QED  BY <1>3 DEF RingInv

\* The invariant of uring_cat holds at the start, and each of its steps keeps it.
LEMMA RawStarts == Raw!Init => RawInv
<1> SUFFICES ASSUME Raw!Init PROVE RawInv
  OBVIOUS
<1> USE DEF Raw!Init
<1>1. /\ completed = <<>> /\ printed = <<>> /\ Len(completed) = 0 /\ Len(printed) = 0
      /\ completed \in Seq(CatRead) /\ printed \in Seq(CatRead)
  OBVIOUS
<1>2. Index(0) = Wrap - 1 /\ Wrap - 1 \in 0 .. Wrap - 1
  BY Indices, Sizes
<1>3. cqes \in [0 .. CqEntries - 1 -> CatRead \cup {Raw!NoFile}] /\ sqes \in [0 .. SqEntries - 1 -> Nat]
  OBVIOUS
<1>4. RingAt(0)
  BY <1>1, <1>2, Sizes DEF RingAt
<1>5. RingInv
  BY <1>1, <1>2, <1>3, <1>4 DEF RingInv
<1>6. 1 \in 1 .. Files + 1
  BY Sizes
<1>7. SubmitInv
  BY <1>2, <1>3, <1>6 DEF SubmitInv
<1>8. TurnInv
  BY <1>1 DEF TurnInv
<1> QED  BY <1>5, <1>7, <1>8 DEF RawInv

\* submit_to_sq(): the file of this turn is in the submission ring.
LEMMA RawSubmitStep == ASSUME RawInv, Raw!submit_to_sq PROVE RawInv'
<1>1. /\ cat = "submit" /\ turn <= Files /\ sqes' = [sqes EXCEPT ![sqTail % SqEntries] = turn]
      /\ sqTail' = Raw!Next1(sqTail) /\ cat' = "enter"
      /\ UNCHANGED <<faults, turn, sqHead, cqHead, cqTail, cqes, head, flying, completed, printed>>
  BY DEF Raw!submit_to_sq, Raw!NewTail
<1>2. RingInv'
  BY <1>1, RingKept DEF RawInv
<1>3. SubmitInv'
  <2>1. /\ sqTail = sqHead /\ sqHead \in 0 .. Wrap - 1 /\ sqes \in [0 .. SqEntries - 1 -> Nat]
        /\ turn \in 1 .. Files + 1 /\ turn \in Nat /\ flying \subseteq 1 .. Files
    BY <1>1, Sizes DEF RawInv, SubmitInv
  <2>2. sqTail % SqEntries \in 0 .. SqEntries - 1
    BY <2>1, Sizes, RawTypes, ModRange
  <2>3. sqes' \in [0 .. SqEntries - 1 -> Nat] /\ sqes'[sqHead % SqEntries] = turn
    BY <1>1, <2>1, <2>2
  <2> QED  BY <1>1, <2>1, <2>3 DEF SubmitInv
<1>4. TurnInv'
  BY <1>1 DEF RawInv, TurnInv
<1> QED  BY <1>2, <1>3, <1>4 DEF RawInv

\* A call that fails ends the program.
LEMMA RawGivesUpStep == ASSUME RawInv, Raw!GivesUp PROVE RawInv'
<1>1. /\ cat \in {"submit", "enter"} /\ cat' = "failed"
      /\ UNCHANGED <<faults, turn, sqHead, sqTail, sqes, cqHead, cqTail, cqes, head, flying, completed, printed>>
  BY DEF Raw!GivesUp
<1>2. RingInv'
  BY <1>1, RingKept DEF RawInv
<1>3. SubmitInv'
  BY <1>1 DEF RawInv, SubmitInv
<1>4. TurnInv'
  BY <1>1 DEF RawInv, TurnInv
<1> QED  BY <1>2, <1>3, <1>4 DEF RawInv

\* io_uring_enter(): the read is in flight, and nothing else is in the ring.
LEMMA RawEnterStep == ASSUME RawInv, Raw!io_uring_enter PROVE RawInv'
<1>1. /\ cat = "enter" /\ flying' = flying \cup {sqes[sqHead % SqEntries]}
      /\ sqHead' = Raw!Next1(sqHead) /\ cat' = "wait"
      /\ UNCHANGED <<faults, turn, sqTail, sqes, cqHead, cqTail, cqes, head, completed, printed>>
  BY DEF Raw!io_uring_enter
<1>2. RingInv'
  BY <1>1, RingKept DEF RawInv
<1>3. /\ sqTail = Raw!Next1(sqHead) /\ sqes[sqHead % SqEntries] = turn /\ turn <= Files /\ turn \in 1 .. Files + 1
      /\ sqHead \in Int /\ turn \in Int
  BY <1>1, RawTypes DEF RawInv, SubmitInv
<1>4. SubmitInv'
  <2>1. turn \in 1 .. Files
    BY <1>3, Sizes
  <2>2. sqHead' \in 0 .. Wrap - 1
    BY <1>1, <1>3, Indices
  <2> QED  BY <1>1, <1>3, <2>1, <2>2 DEF RawInv, SubmitInv
<1>5. TurnInv'
  BY <1>1, <1>3 DEF RawInv, TurnInv
<1> QED  BY <1>2, <1>4, <1>5 DEF RawInv

\* io_uring_enter() returns, with a completion or interrupted.
LEMMA RawEnterReturnsStep == ASSUME RawInv, Raw!EnterReturns PROVE RawInv'
<1>1. /\ cat = "wait" /\ (cqHead # cqTail \/ "wait" \in faults) /\ head' = cqHead /\ cat' = "read"
      /\ UNCHANGED <<faults, turn, sqHead, sqTail, sqes, cqHead, cqTail, cqes, flying, completed, printed>>
  BY DEF Raw!EnterReturns
<1>2. PICK k \in Nat : RingAt(k)
  BY DEF RawInv, RingInv
<1>3. k = Len(printed) /\ cqHead = Index(k) /\ cqTail = Index(Len(completed))
  BY <1>1, <1>2 DEF RingAt, RawInv, RingInv
<1>4. RingInv'
  <2>1. RingAt(k)'
    BY <1>1, <1>2 DEF RingAt
  <2>2. head' \in 0 .. Wrap - 1 /\ head' = Index(Len(printed'))
    BY <1>1, <1>3, Indices
  <2> QED  BY <1>1, <2>1, <2>2 DEF RawInv, RingInv
<1>5. SubmitInv'
  BY <1>1 DEF RawInv, SubmitInv
<1>6. TurnInv'
  <2>1. "wait" \notin faults => Len(completed) # Len(printed)
    BY <1>1, <1>3
  <2>2. "wait" \notin faults => Len(printed) = turn - 1 /\ Len(completed) = turn /\ flying = {}
    BY <1>1, <2>1 DEF RawInv, TurnInv
  <2> QED  BY <1>1, <2>2, RawTypes DEF RawInv, TurnInv
<1> QED  BY <1>4, <1>5, <1>6 DEF RawInv

\* read_from_cq() prints the completion that is next.
LEMMA RawReadStep == ASSUME RawInv, Raw!read_from_cq PROVE RawInv'
<1> DEFINE n == Len(printed)
           c == Len(completed)
<1>1. /\ cat = "read" /\ head # cqTail /\ printed' = Append(printed, cqes[head % CqEntries])
      /\ head' = Raw!Next1(head)
      /\ UNCHANGED <<faults, cat, turn, sqHead, sqTail, sqes, cqHead, cqTail, cqes, flying, completed>>
  BY DEF Raw!read_from_cq, Raw!Masked
<1>2. PICK k \in Nat : RingAt(k)
  BY DEF RawInv, RingInv
<1>3. /\ head = Index(n) /\ cqTail = Index(c) /\ n \in Nat /\ c \in Nat /\ n <= c
      /\ k <= n /\ c - k <= CqEntries
      /\ \A i \in 1 .. n : printed[i] = completed[i]
      /\ \A i \in k + 1 .. c : cqes[Slot(i)] = completed[i]
      /\ printed \in Seq(CatRead) /\ completed \in Seq(CatRead)
  BY <1>1, <1>2, RawTypes DEF RingAt, RawInv, RingInv
<1>4. n < c
  BY <1>1, <1>3
<1>5. cqes[head % CqEntries] = completed[n + 1] /\ completed[n + 1] \in CatRead
  <2>1. n + 1 \in k + 1 .. c /\ n + 1 \in Nat \ {0} /\ n + 1 - 1 = n
    BY <1>3, <1>4
  <2>2. Slot(n + 1) = Index(n) % CqEntries
    BY <2>1 DEF Slot
  <2>3. completed[n + 1] \in CatRead
    BY <1>3, <1>4, ElementOfSeq
  <2> QED  BY <1>3, <2>1, <2>2, <2>3
<1> DEFINE e == completed[n + 1]
<1>6. /\ printed' \in Seq(CatRead) /\ Len(printed') = n + 1
      /\ printed'[n + 1] = e /\ \A i \in 1 .. n : printed'[i] = printed[i]
  <2>1. printed' = Append(printed, e) /\ e \in CatRead
    BY <1>1, <1>5
  <2> HIDE DEF e
  <2> QED  BY <1>3, <2>1, AppendProperties
<1>7. \A i \in 1 .. n + 1 : printed'[i] = completed[i]
  <2>1. \A i \in 1 .. n + 1 : i = n + 1 \/ i \in 1 .. n
    BY <1>3
  <2> QED  BY <1>3, <1>6, <2>1
<1> HIDE DEF e
<1>8. head' = Index(n + 1) /\ head' \in 0 .. Wrap - 1
  <2>1. n + 1 \in Nat
    BY <1>3
  <2> QED  BY <1>1, <1>3, <2>1, Indices
<1>9. RingAt(k)'
  <2>1. k <= n + 1
    BY <1>3
  <2> QED  BY <1>1, <1>2, <1>6, <2>1 DEF RingAt
<1>10. RingInv'
  <2>1. n + 1 <= c
    BY <1>3, <1>4
  <2> HIDE DEF n
  <2> QED  BY <1>1, <1>6, <1>7, <1>8, <1>9, <2>1 DEF RawInv, RingInv
<1>11. SubmitInv'
  BY <1>1 DEF RawInv, SubmitInv
<1>12. TurnInv'
  <2>1. turn \in Int
    BY RawTypes
  <2> QED  BY <1>1, <1>3, <1>6, <2>1 DEF RawInv, TurnInv
<1> QED  BY <1>10, <1>11, <1>12 DEF RawInv

\* read_from_cq() stores the head: the kernel may use the places again.
LEMMA RawReadEndsStep == ASSUME RawInv, Raw!ReadEnds PROVE RawInv'
<1> DEFINE n == Len(printed)
           c == Len(completed)
<1>1. /\ cat = "read" /\ head = cqTail /\ cqHead' = head /\ turn' = turn + 1 /\ cat' = "submit"
      /\ UNCHANGED <<faults, sqHead, sqTail, sqes, cqTail, cqes, head, flying, completed, printed>>
  BY DEF Raw!ReadEnds
<1>2. PICK k \in Nat : RingAt(k)
  BY DEF RawInv, RingInv
<1>3. /\ head = Index(n) /\ cqTail = Index(c) /\ n \in Nat /\ c \in Nat /\ n <= c
      /\ k <= n /\ c - k <= CqEntries
  BY <1>1, <1>2, RawTypes DEF RingAt, RawInv, RingInv
<1> HIDE DEF n, c
<1>4. n = c
  <2>1. c - n < Wrap
    BY <1>3, Sizes
  <2> QED  BY <1>1, <1>3, <2>1, Between
<1>5. \E m \in Nat : RingAt(m)'
  <2>1. PICK m \in Nat : m = n
    BY <1>3
  <2>2. c - m <= CqEntries /\ m <= n /\ m + 1 .. c = {}
    BY <1>3, <1>4, <2>1, Sizes
  <2>3. RingAt(m)'
    BY <1>1, <1>3, <1>4, <2>1, <2>2 DEF RingAt, n, c
  <2> QED  BY <2>3
<1>6. RingInv'
  BY <1>1, <1>3, <1>5 DEF RawInv, RingInv
<1>7. SubmitInv'
  <2>1. turn \in 1 .. Files + 1 /\ turn <= Files
    BY <1>1 DEF RawInv, SubmitInv
  <2>2. turn + 1 \in 1 .. Files + 1
    BY <2>1, Sizes
  <2> QED  BY <1>1, <2>2 DEF RawInv, SubmitInv
<1>8. TurnInv'
  <2>1. turn \in Int
    BY RawTypes
  <2> QED  BY <1>1, <1>3, <1>4, <2>1 DEF RawInv, TurnInv, n, c
<1> QED  BY <1>6, <1>7, <1>8 DEF RawInv

\* All files have had their turn.
LEMMA RawReturnsStep == ASSUME RawInv, Raw!Returns PROVE RawInv'
<1>1. /\ cat = "submit" /\ cat' = "done"
      /\ UNCHANGED <<faults, turn, sqHead, sqTail, sqes, cqHead, cqTail, cqes, head, flying, completed, printed>>
  BY DEF Raw!Returns
<1>2. RingInv'
  BY <1>1, RingKept DEF RawInv
<1>3. SubmitInv'
  BY <1>1 DEF RawInv, SubmitInv
<1>4. TurnInv'
  BY <1>1 DEF RawInv, TurnInv
<1> QED  BY <1>2, <1>3, <1>4 DEF RawInv

\* The kernel completes a read: its place in the ring is of none that is waiting.
LEMMA RawCompletesStep ==
    ASSUME RawInv, NEW f \in 1 .. Files, NEW res \in {"whole", "short", "io"}, Raw!Completes(f, res)
    PROVE  RawInv'
<1> DEFINE n == Len(printed)
           c == Len(completed)
           e == [file |-> f, res |-> res]
<1>1. /\ f \in flying /\ (cqTail - cqHead) % Wrap < CqEntries
      /\ cqes' = [cqes EXCEPT ![cqTail % CqEntries] = e]
      /\ cqTail' = Raw!Next1(cqTail) /\ flying' = flying \ {f} /\ completed' = Append(completed, e)
      /\ UNCHANGED <<faults, cat, turn, sqHead, sqTail, sqes, cqHead, head, printed>>
  BY DEF Raw!Completes
<1>2. PICK k \in Nat : RingAt(k)
  BY DEF RawInv, RingInv
<1>3. /\ cqTail = Index(c) /\ cqHead = Index(k) /\ n \in Nat /\ c \in Nat /\ n <= c
      /\ k <= n /\ c - k <= CqEntries /\ (cat # "read" => k = n)
      /\ \A i \in 1 .. n : printed[i] = completed[i]
      /\ \A i \in k + 1 .. c : cqes[Slot(i)] = completed[i]
      /\ printed \in Seq(CatRead) /\ completed \in Seq(CatRead)
      /\ cqes \in [0 .. CqEntries - 1 -> CatRead \cup {Raw!NoFile}]
  BY <1>2, RawTypes DEF RingAt, RawInv, RingInv
<1>4. e \in CatRead /\ e.file = f
  BY Sizes DEF CatRead
<1> HIDE DEF n, c, e
<1>5. c + 1 - k <= CqEntries
  <2>1. k <= c /\ c - k < Wrap
    BY <1>3, Sizes
  <2>2. c - k < CqEntries
    BY <1>1, <1>3, <2>1, Between
  <2> QED  BY <1>3, <2>2, Sizes
<1>6. /\ completed' \in Seq(CatRead) /\ Len(completed') = c + 1
      /\ completed'[c + 1] = e /\ \A i \in 1 .. c : completed'[i] = completed[i]
  BY <1>1, <1>3, <1>4, AppendProperties DEF c
<1>7. cqTail' = Index(c + 1)
  BY <1>1, <1>3, Indices
<1>8. cqTail % CqEntries = Slot(c + 1) /\ Slot(c + 1) \in 0 .. CqEntries - 1
  <2>1. c + 1 \in Nat \ {0} /\ c + 1 - 1 = c
    BY <1>3
  <2> QED  BY <1>3, <2>1, Slots
<1>9. ASSUME NEW i \in k + 1 .. c + 1 PROVE cqes'[Slot(i)] = completed'[i]
  <2>1. i \in Nat \ {0} /\ c + 1 \in Nat \ {0} /\ c \in Int
    BY <1>3
  <2>2. CASE i = c + 1
    BY <1>1, <1>3, <1>6, <1>8, <2>2
  <2>3. CASE i # c + 1
    <3>1. i \in k + 1 .. c /\ i \in 1 .. c /\ i < c + 1 /\ c + 1 - i < CqEntries
      BY <1>3, <1>5, <2>1, <2>3, Sizes
    <3>2. Slot(i) # Slot(c + 1) /\ Slot(i) \in 0 .. CqEntries - 1
      BY <2>1, <3>1, Slots
    <3> QED  BY <1>1, <1>3, <1>6, <1>8, <3>1, <3>2
  <2> QED  BY <2>2, <2>3
<1>10. RingAt(k)'
  BY <1>1, <1>3, <1>5, <1>6, <1>9 DEF RingAt, n
<1>11. RingInv'
  <2>1. cqes' \in [0 .. CqEntries - 1 -> CatRead \cup {Raw!NoFile}]
    BY <1>1, <1>3, <1>4, <1>8
  <2>2. n <= c + 1 /\ \A i \in 1 .. n : printed[i] = completed'[i]
    <3>1. n \in Int /\ c \in Int /\ n <= c
      BY <1>3
    <3>2. \A i \in 1 .. n : i \in 1 .. c
      BY <3>1
    <3>3. n <= c + 1
      BY <3>1
    <3> QED  BY <1>3, <1>6, <3>2, <3>3
  <2> QED  BY <1>1, <1>3, <1>6, <1>7, <1>10, <2>1, <2>2 DEF RawInv, RingInv, n
<1>12. SubmitInv'
  BY <1>1 DEF RawInv, SubmitInv
<1>13. TurnInv'
  <2> SUFFICES ASSUME "wait" \notin faults PROVE TurnInv'
    BY <1>1 DEF TurnInv
  <2>1. /\ cat = "wait" /\ n = turn - 1 /\ c = turn - 1 /\ flying = {turn}
        /\ \A i \in 1 .. c : completed[i].file = i
    BY <1>1 DEF RawInv, TurnInv, n, c
  <2>2. f = turn /\ flying' = {} /\ turn \in Int
    BY <1>1, <2>1, RawTypes
  <2>3. \A i \in 1 .. c + 1 : completed'[i].file = i
    <3>1. \A i \in 1 .. c + 1 : i = c + 1 \/ i \in 1 .. c
      <4>1. c \in Int
        BY <1>3
      <4> QED  BY <4>1
    <3> QED  BY <1>3, <1>4, <1>6, <2>1, <2>2, <3>1
  <2>4. c + 1 = turn /\ Len(completed') = turn
    BY <1>6, <2>1, <2>2
  <2> QED  BY <1>1, <1>6, <2>1, <2>2, <2>3, <2>4 DEF TurnInv, n
<1> QED  BY <1>11, <1>12, <1>13 DEF RawInv

\* All steps of uring_cat.
LEMMA RawStep == ASSUME RawInv, Raw!Next PROVE RawInv'
BY RawSubmitStep, RawGivesUpStep, RawEnterStep, RawEnterReturnsStep, RawReadStep, RawReadEndsStep,
   RawReturnsStep, RawCompletesStep DEF Raw!Next, Raw!Program, Raw!Kernel

-----------------------------------------------------------------------------
(* liburing_cat.                                                            *)

\* What is printed and what is not seen yet make up what was completed.
LibInv ==
    /\ Lib!TypeOK
    /\ prepared \in Seq(1 .. Files)
    /\ {printed, queue, completed} \subseteq Seq(CatRead)
    /\ completed = printed \o queue
    /\ \A i \in DOMAIN printed : printed[i].res # "io"
    /\ cat = "wait" => turn <= Files

\* The head of one sequence goes to the end of another.
LEMMA HeadMoves ==
    ASSUME NEW S, NEW s \in Seq(S), NEW t \in Seq(S), t # <<>>
    PROVE  /\ Head(t) \in S /\ Tail(t) \in Seq(S) /\ Append(s, Head(t)) \in Seq(S)
           /\ Append(s, Head(t)) \o Tail(t) = s \o t
<1>1. /\ Head(t) \in S /\ Tail(t) \in Seq(S) /\ t = <<Head(t)>> \o Tail(t)
  BY HeadTailProperties
<1>2. Append(s, Head(t)) = s \o <<Head(t)>> /\ Append(s, Head(t)) \in Seq(S)
  BY <1>1, AppendProperties, AppendIsConcat
<1>3. <<Head(t)>> \in Seq(S)
  BY <1>1
<1>4. (s \o <<Head(t)>>) \o Tail(t) = s \o (<<Head(t)>> \o Tail(t))
  <2> DEFINE u == <<Head(t)>>
             v == Tail(t)
  <2>1. u \in Seq(S) /\ v \in Seq(S)
    BY <1>1, <1>3
  <2> HIDE DEF u, v
  <2>2. (s \o u) \o v = s \o (u \o v)
    BY <2>1, ConcatAssociative
  <2> QED  BY <2>2 DEF u, v
<1> QED  BY <1>1, <1>2, <1>4

\* What is appended to the second of two sequences is appended to both.
LEMMA EndGrows ==
    ASSUME NEW s \in Seq(CatRead), NEW t \in Seq(CatRead), NEW e \in CatRead
    PROVE  Append(t, e) \in Seq(CatRead) /\ Append(s \o t, e) = s \o Append(t, e)
<1> DEFINE S == CatRead
<1> DEFINE u == <<e>>
<1>1. /\ s \in Seq(S) /\ t \in Seq(S) /\ e \in S /\ u \in Seq(S)
      /\ Append(t, e) \in Seq(S) /\ s \o t \in Seq(S)
  BY ConcatProperties, AppendProperties
<1>2. Append(s \o t, e) = (s \o t) \o u /\ Append(t, e) = t \o u
  BY <1>1, AppendIsConcat
<1> HIDE DEF u, S
<1>3. (s \o t) \o u = s \o (t \o u)
  BY <1>1, ConcatAssociative
<1>4. Append(s \o t, e) = s \o Append(t, e)
  BY <1>2, <1>3
<1> QED  BY <1>1, <1>4 DEF S

\* What the invariant is for.
LEMMA LibPrints == ASSUME LibInv PROVE Lib!PrintsCompletions
<1> DEFINE n == Len(printed)
<1>1. /\ printed \in Seq(CatRead) /\ queue \in Seq(CatRead) /\ n \in Nat /\ Len(queue) \in Nat
      /\ completed = printed \o queue
  BY LenProperties DEF LibInv
<1>2. /\ completed \in Seq(CatRead) /\ Len(completed) = n + Len(queue)
      /\ \A i \in 1 .. n : completed[i] = printed[i]
  <2>1. \A i \in 1 .. n : i \in 1 .. n + Len(queue) /\ i <= n
    BY <1>1
  <2> QED  BY <1>1, <2>1, ConcatProperties
<1>3. Lib!IsPrefix(printed, completed)
  <2>1. SubSeq(printed, 1, n) = printed
    BY <1>1, SubSeqFull
  <2>2. /\ SubSeq(completed, 1, n) \in Seq(CatRead) /\ Len(SubSeq(completed, 1, n)) = n
        /\ \A i \in 1 .. n : SubSeq(completed, 1, n)[i] = completed[i]
    BY <1>1, <1>2, SubSeqProperties
  <2>3. SubSeq(completed, 1, n) = printed
    BY <1>1, <1>2, <2>2, SeqEqual
  <2> QED  BY <1>1, <1>2, <2>1, <2>3 DEF Lib!IsPrefix
<1> QED  BY <1>3 DEF LibInv, Lib!PrintsCompletions

\* The invariant of liburing_cat holds at the start, and every step keeps it.
LEMMA LibStarts == Lib!Init => LibInv
<1> SUFFICES ASSUME Lib!Init PROVE LibInv
  OBVIOUS
<1> USE DEF Lib!Init
<1>1. 1 \in 1 .. Files + 1 /\ 0 <= CatDepth /\ Len(<<>>) = 0
  BY ProgramsAssumption
<1>2. Lib!TypeOK
  BY <1>1 DEF Lib!TypeOK
<1> QED  BY <1>2 DEF LibInv

\* All steps of liburing_cat.
LEMMA LibStep == ASSUME LibInv, Lib!Next PROVE LibInv'
<1> USE DEF LibInv
<1>1. /\ prepared \in Seq(1 .. Files) /\ turn \in 1 .. Files + 1 /\ turn \in Int /\ Files \in Int
      /\ Len(prepared) \in Nat /\ CatDepth \in Int /\ CatDepth >= 1 /\ Len(prepared) <= CatDepth
      /\ flying \subseteq 1 .. Files
      /\ printed \in Seq(CatRead) /\ queue \in Seq(CatRead) /\ completed = printed \o queue
      /\ DOMAIN printed = 1 .. Len(printed) /\ Len(printed) \in Nat
  BY ProgramsAssumption, LenProperties DEF Lib!TypeOK
<1>2. CASE Lib!submit_read_request
  <2>1. /\ turn \in 1 .. Files /\ Len(prepared) < CatDepth /\ cat' = "wait"
        /\ UNCHANGED <<turn, queue, completed, printed>>
    BY <1>1, <1>2 DEF Lib!submit_read_request
  <2>2. CASE flying' = flying \cup Lib!ToSet(prepared) \cup {turn} /\ prepared' = <<>>
    <3>1. Lib!ToSet(prepared) \subseteq 1 .. Files
      BY <1>1, ElementOfSeq, LenProperties DEF Lib!ToSet
    <3>2. Len(prepared') <= CatDepth /\ prepared' \in Seq(1 .. Files)
      BY <1>1, <2>2
    <3>3. flying' \subseteq 1 .. Files
      BY <1>1, <2>1, <2>2, <3>1
    <3>4. Lib!TypeOK'
      BY <1>1, <2>1, <3>2, <3>3 DEF Lib!TypeOK
    <3> QED  BY <1>1, <2>1, <3>2, <3>4
  <2>3. CASE prepared' = Append(prepared, turn) /\ UNCHANGED flying
    <3>1. prepared' \in Seq(1 .. Files) /\ Len(prepared') = Len(prepared) + 1
      BY <1>1, <2>1, <2>3, AppendProperties
    <3>2. Len(prepared') <= CatDepth
      BY <1>1, <2>1, <3>1
    <3> QED  BY <1>1, <2>1, <2>3, <3>1, <3>2 DEF Lib!TypeOK
  <2> QED  BY <1>2, <2>2, <2>3 DEF Lib!submit_read_request
<1>3. CASE Lib!NoSqe \/ Lib!GivesUp \/ Lib!Returns
  BY <1>3 DEF Lib!NoSqe, Lib!GivesUp, Lib!Returns, Lib!TypeOK
<1>4. CASE Lib!PrintsNothing
  <2>1. cat = "wait" /\ cat' = "submit" /\ turn' = turn + 1 /\ UNCHANGED <<prepared, flying, queue, completed, printed>>
    BY <1>4 DEF Lib!PrintsNothing, Lib!NextTurn
  <2>2. turn' \in 1 .. Files + 1
    BY <1>1, <2>1
  <2> QED  BY <1>1, <2>1, <2>2 DEF Lib!TypeOK
<1>5. CASE Lib!get_completion_and_print
  <2>1. /\ cat = "wait" /\ cat' = "submit" /\ turn' = turn + 1 /\ UNCHANGED <<prepared, flying, completed>>
        /\ queue # <<>> /\ Head(queue).res # "io"
        /\ printed' = Append(printed, Head(queue)) /\ queue' = Tail(queue)
    BY <1>5 DEF Lib!get_completion_and_print, Lib!NextTurn, Lib!Seen
  <2>2. turn' \in 1 .. Files + 1
    BY <1>1, <2>1
  <2>3. Lib!TypeOK'
    BY <1>1, <2>1, <2>2 DEF Lib!TypeOK
  <2>4. /\ Head(queue) \in CatRead /\ printed' \in Seq(CatRead) /\ queue' \in Seq(CatRead)
        /\ printed' \o queue' = completed
    <3>1. printed \in Seq(CatRead) /\ queue \in Seq(CatRead) /\ queue # <<>>
      BY <1>1, <2>1
    <3>2. /\ Head(queue) \in CatRead /\ Tail(queue) \in Seq(CatRead)
          /\ Append(printed, Head(queue)) \in Seq(CatRead)
          /\ Append(printed, Head(queue)) \o Tail(queue) = printed \o queue
      BY <3>1, HeadMoves
    <3> QED  BY <1>1, <2>1, <3>2
  <2>5. /\ DOMAIN printed' = 1 .. Len(printed) + 1 /\ printed'[Len(printed) + 1] = Head(queue)
        /\ \A i \in 1 .. Len(printed) : printed'[i] = printed[i]
    <3> DEFINE e == Head(queue)
    <3>1. e \in CatRead /\ printed' = Append(printed, e)
      BY <2>1, <2>4
    <3> HIDE DEF e
    <3>2. Len(printed') = Len(printed) + 1 /\ printed' \in Seq(CatRead)
      BY <1>1, <3>1, AppendProperties
    <3>3. printed'[Len(printed) + 1] = e /\ \A i \in 1 .. Len(printed) : printed'[i] = printed[i]
      BY <1>1, <3>1, AppendProperties
    <3> QED  BY <3>2, <3>3, LenProperties DEF e
  <2>6. \A i \in DOMAIN printed' : printed'[i].res # "io"
    <3>1. \A i \in DOMAIN printed' : i = Len(printed) + 1 \/ i \in 1 .. Len(printed)
      BY <1>1, <2>5
    <3> QED  BY <1>1, <2>1, <2>5, <3>1
  <2> QED  BY <1>1, <2>1, <2>3, <2>4, <2>6
<1>6. ASSUME NEW f \in 1 .. Files, NEW res \in {"whole", "short", "io"}, Lib!Completes(f, res) PROVE LibInv'
  <2> DEFINE e == [file |-> f, res |-> res]
  <2>1. /\ flying' = flying \ {f} /\ queue' = Append(queue, e) /\ completed' = Append(completed, e)
        /\ UNCHANGED <<cat, turn, prepared, printed>>
    BY <1>6 DEF Lib!Completes
  <2>2. e \in CatRead
    BY <1>1 DEF CatRead
  <2> HIDE DEF e
  <2>3. queue' \in Seq(CatRead) /\ completed' = printed \o queue'
    <3>1. Append(queue, e) \in Seq(CatRead) /\ Append(printed \o queue, e) = printed \o Append(queue, e)
      BY <2>2, EndGrows, <1>1
    <3> QED  BY <1>1, <2>1, <3>1
  <2>4. completed' \in Seq(CatRead)
    BY <1>1, <2>3, ConcatProperties
  <2>5. Lib!TypeOK'
    BY <1>1, <2>1 DEF Lib!TypeOK
  <2> QED  BY <1>1, <2>1, <2>3, <2>4, <2>5
<1> QED  BY <1>2, <1>3, <1>4, <1>5, <1>6 DEF Lib!Next, Lib!Program, Lib!Kernel


-----------------------------------------------------------------------------
(* One execution is of one of the programs.                                 *)

\* The program that runs keeps its invariant.
ReadersInv ==
    /\ program = "io_uring-test" => TestInv
    /\ program = "uring_cat" => RawInv
    /\ program = "liburing_cat" => LibInv

\* All steps of io_uring-test.
LEMMA TestStep == ASSUME TestInv, Test!Next PROVE TestInv'
BY PrepareStep, SubmitStep, TestGivesUpStep, CompletesStep, CountStep, ReturnsStep DEF Test!Next

\* The invariant of io_uring-test does not look at other variables.
LEMMA TestKept ==
    ASSUME TestInv, UNCHANGED <<testVars, flying>>
    PROVE  TestInv'
BY DEF testVars, TestInv, ReadsInv, PlaceInv, CountInv, Completion, Whole, Test!TypeOK, Test!Verdict,
       Test!Holds, Test!Prepared, Test!EIO

\* The same of uring_cat.
LEMMA RawKept ==
    ASSUME RawInv, UNCHANGED <<rawVars, catVars, flying, faults>>
    PROVE  RawInv'
BY DEF rawVars, catVars, RawInv, RingInv, SubmitInv, TurnInv, RingAt, Slot, Index, Raw!Next1

\* The same of liburing_cat.
LEMMA LibKept ==
    ASSUME LibInv, UNCHANGED <<libVars, catVars, flying>>
    PROVE  LibInv'
BY DEF libVars, catVars, LibInv, Lib!TypeOK

\* At the start all programs have their invariant, and a step is one of the
\* program that runs.
LEMMA ReadersStart == MCInit => ReadersInv
BY TestStarts, RawStarts, LibStarts DEF MCInit, ReadersInv

\* Whichever program it is, its step keeps the invariant.
LEMMA ReadersStep == ASSUME ReadersInv, [MCNext]_mcVars PROVE ReadersInv'
<1>1. CASE Copy(Next)
  BY <1>1, TestKept, RawKept, LibKept DEF Copy, ReadersInv
<1>2. CASE CatRaw(Raw!Next)
  BY <1>2, RawStep DEF CatRaw, ReadersInv
<1>3. CASE CatLib(Lib!Next)
  BY <1>3, LibStep DEF CatLib, ReadersInv
<1>4. CASE Tests(Test!Next)
  BY <1>4, TestStep DEF Tests, ReadersInv
<1>5. CASE UNCHANGED mcVars
  BY <1>5, TestKept, RawKept, LibKept DEF mcVars, ReadersInv
<1> QED  BY <1>1, <1>2, <1>3, <1>4, <1>5 DEF MCNext

\* io_uring-test stops early when and only when a completion tells it to, and
\* otherwise counts what the first QD blocks of the file hold, in whatever
\* order the kernel completes the reads.
THEOREM CountsInAnyOrder == MCSpec => []TestRight
<1>1. ReadersInv => TestRight
  BY DEF ReadersInv, TestRight, TestInv
<1> QED  BY <1>1, ReadersStart, ReadersStep, PTL DEF MCSpec

\* The cats print the completions once each and in their order, for rings of
\* any size and indices that wrap around anywhere.
THEOREM CatsPrint == MCSpec => []PrintsRight
<1>1. ReadersInv => PrintsRight
  <2>1. RawInv => Raw!TypeOK /\ Raw!PrintsCompletions
    BY RawPrints
  <2>2. LibInv => Lib!TypeOK /\ Lib!PrintsCompletions
    BY LibPrints DEF LibInv
  <2> QED  BY <2>1, <2>2 DEF ReadersInv, PrintsRight
<1> QED  BY <1>1, ReadersStart, ReadersStep, PTL DEF MCSpec

=============================================================================
