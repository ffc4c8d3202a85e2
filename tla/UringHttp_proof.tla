-------------------------- MODULE UringHttp_proof --------------------------
(***************************************************************************)
(* Proofs about the io_uring web server: whose turn it is on a connection, *)
(* and what the numbers of descriptors in contexts name, for every number  *)
(* of clients and descriptors, all they may ask, and every order in which  *)
(* the kernel performs requests.                                           *)
(***************************************************************************)
EXTENDS UringHttp, SequenceTheorems, WellFoundedInduction, TLAPS

-----------------------------------------------------------------------------
(* Bags.                                                                    *)

\* One copy of x is taken out.
LEMMA Removed ==
    ASSUME NEW B, IsABag(B), NEW x \in DOMAIN B
    PROVE  LET R == B (-) SetToBag({x})
           IN  /\ IsABag(R)
               /\ DOMAIN R \subseteq DOMAIN B
               /\ DOMAIN B \subseteq DOMAIN R \cup {x}
               /\ B[x] = 1 => x \notin DOMAIN R
               /\ \A y \in DOMAIN R : B[y] = 1 => R[y] = 1
<1> DEFINE C == [e \in DOMAIN B |-> IF e \in {x} THEN B[e] - 1 ELSE B[e]]
           D == {d \in DOMAIN C : C[d] > 0}
<1>1. /\ DOMAIN SetToBag({x}) = {x}
      /\ SetToBag({x})[x] = 1
  BY DEF SetToBag
<1>2. [e \in DOMAIN B |-> IF e \in DOMAIN SetToBag({x}) THEN B[e] - SetToBag({x})[e] ELSE B[e]] = C
  BY <1>1
<1>3. B (-) SetToBag({x}) = [e \in D |-> C[e]]
  BY <1>2, Zenon DEF (-)
<1>4. /\ D \subseteq DOMAIN B
      /\ \A e \in DOMAIN B : B[e] \in Nat /\ B[e] > 0
      /\ \A e \in DOMAIN B : C[e] = IF e = x THEN B[e] - 1 ELSE B[e]
  BY DEF IsABag
<1>5. /\ \A e \in D : C[e] \in {n \in Nat : n > 0}
      /\ DOMAIN B \subseteq D \cup {x}
      /\ B[x] = 1 => x \notin D
      /\ \A y \in D : B[y] = 1 => C[y] = 1
  BY <1>4
<1> HIDE DEF C, D
<1>6. [e \in D |-> C[e]] \in [D -> {n \in Nat : n > 0}]
  BY <1>5
<1>7. DOMAIN [e \in D |-> C[e]] = D /\ \A y \in D : [e \in D |-> C[e]][y] = C[y]
  OBVIOUS
<1> QED  BY <1>3, <1>4, <1>5, <1>6, <1>7 DEF IsABag

\* The elements of S are put in.
LEMMA Added ==
    ASSUME NEW B, IsABag(B), NEW S
    PROVE  LET A == B (+) SetToBag(S)
           IN  /\ IsABag(A)
               /\ DOMAIN A = DOMAIN B \cup S
               /\ \A y \in DOMAIN B \ S : A[y] = B[y]
               /\ \A y \in S \ DOMAIN B : A[y] = 1
<1>1. /\ SetToBag(S) = [e \in S |-> 1]
      /\ DOMAIN SetToBag(S) = S
      /\ \A e \in S : SetToBag(S)[e] = 1
  BY DEF SetToBag
<1>2. B (+) SetToBag(S) =
        [e \in DOMAIN B \cup S |->
            (IF e \in DOMAIN B THEN B[e] ELSE 0) + (IF e \in S THEN SetToBag(S)[e] ELSE 0)]
  BY <1>1 DEF (+)
<1> QED  BY <1>1, <1>2 DEF IsABag

\* A bag into which nothing is put.
LEMMA NoneAdded ==
    ASSUME NEW B, IsABag(B)
    PROVE  B (+) SetToBag({}) = B
<1>1. B (+) SetToBag({}) = [e \in DOMAIN B |-> B[e] + 0]
  BY DEF (+), SetToBag
<1>2. \A e \in DOMAIN B : B[e] + 0 = B[e]
  BY DEF IsABag
<1> QED  BY <1>1, <1>2 DEF IsABag

-----------------------------------------------------------------------------
(* The kernel finds the lowest free number whenever one is free.            *)

\* A set of numbers has a smallest one.
LEMMA Smallest ==
    ASSUME NEW T \in SUBSET Nat, T # {}
    PROVE  \E x \in T : \A y \in T : x <= y
<1>1. IsWellFoundedOn({p \in Nat \X Nat : p[1] < p[2]}, Nat)
  BY NatLessThanWellFounded DEF OpToRel
<1>2. PICK x \in T : \A y \in T : ~(<<y, x>> \in {p \in Nat \X Nat : p[1] < p[2]})
  <2>1. \E x \in T : \A y \in T : ~(<<y, x>> \in {p \in Nat \X Nat : p[1] < p[2]})
    BY <1>1, WFMin
  <2> QED  BY <2>1
<1>3. ASSUME NEW y \in T PROVE x <= y
  <2>1. x \in Nat /\ y \in Nat
    OBVIOUS
  <2>2. ~(<<y, x>> \in {p \in Nat \X Nat : p[1] < p[2]})
    BY <1>2
  <2>3. ~(y < x)
    BY <2>1, <2>2
  <2> QED  BY <2>1, <2>3
<1> QED  BY <1>3

\* What accept() and open() take.
LEMMA Lowest ==
    ASSUME ~Full(fds)
    PROVE  FreeFd(fds) \in Fds /\ fds[FreeFd(fds)] = Free
<1> DEFINE T == {x \in Fds : fds[x] = Free}
<1>1. T \in SUBSET Nat /\ T # {}
  BY ConstantsAssumption DEF Fds, Full
<1>2. PICK x \in T : \A y \in T : x <= y
  <2> HIDE DEF T
  <2> QED  BY <1>1, Smallest
<1>3. x \in Fds /\ fds[x] = Free /\ \A y \in Fds : fds[y] = Free => x <= y
  BY <1>2
<1> QED  BY <1>3 DEF FreeFd

-----------------------------------------------------------------------------
(* Contexts under way, with the kernel or in the completion queue.          *)

UnderWay == BagToSet(ring) \cup {cq[i].context : i \in DOMAIN cq}

\* The context x is under way once at most.
Alone(x) ==
    /\ x \in DOMAIN ring => ring[x] = 1 /\ \A i \in DOMAIN cq : cq[i].context # x
    /\ \A i, j \in DOMAIN cq : cq[i].context = x /\ cq[j].context = x => i = j

\* The kernel puts a context into the completion queue: the same are under way.
LEMMA Performed ==
    ASSUME IsABag(ring), NEW E, cq \in Seq(E), NEW e \in E, e.context \in DOMAIN ring,
           ring' = ring (-) SetToBag({e.context}), cq' = Append(cq, e)
    PROVE  /\ IsABag(ring') /\ cq' \in Seq(E)
           /\ UnderWay' = UnderWay
           /\ \A y : Alone(y) => Alone(y)'
           /\ \A i \in DOMAIN cq' : cq'[i] = e \/ (i \in DOMAIN cq /\ cq'[i] = cq[i])
<1>1. /\ IsABag(ring')
      /\ DOMAIN ring' \subseteq DOMAIN ring
      /\ DOMAIN ring \subseteq DOMAIN ring' \cup {e.context}
      /\ ring[e.context] = 1 => e.context \notin DOMAIN ring'
      /\ \A y \in DOMAIN ring' : ring[y] = 1 => ring'[y] = 1
  BY Removed
<1>2. /\ cq' \in Seq(E)
      /\ DOMAIN cq' = 1 .. Len(cq) + 1 /\ DOMAIN cq = 1 .. Len(cq) /\ Len(cq) \in Nat
      /\ \A i \in DOMAIN cq : i \in DOMAIN cq' /\ cq'[i] = cq[i]
      /\ cq'[Len(cq) + 1] = e /\ Len(cq) + 1 \in DOMAIN cq'
  OBVIOUS
<1>3. \A i \in DOMAIN cq' : i = Len(cq) + 1 \/ (i \in DOMAIN cq /\ cq'[i] = cq[i])
  BY <1>2
<1>4. UnderWay' = UnderWay
  <2>1. /\ \A y : y \in UnderWay <=> y \in DOMAIN ring \/ \E i \in DOMAIN cq : cq[i].context = y
        /\ \A y : y \in UnderWay' <=> y \in DOMAIN ring' \/ \E i \in DOMAIN cq' : cq'[i].context = y
    BY Zenon DEF UnderWay, BagToSet
  <2>2. \A y : (\E i \in DOMAIN cq' : cq'[i].context = y)
                  <=> y = e.context \/ \E i \in DOMAIN cq : cq[i].context = y
    BY <1>2, <1>3
  <2>3. \A y : y \in DOMAIN ring' \/ y = e.context <=> y \in DOMAIN ring
    BY <1>1
  <2>4. \A y : y \in UnderWay' <=> y \in UnderWay
    BY <2>1, <2>2, <2>3, Zenon
  <2> QED  BY <2>4
<1>5. ASSUME NEW y, Alone(y) PROVE Alone(y)'
  <2>1. y \in DOMAIN ring' => ring'[y] = 1 /\ y # e.context
    BY <1>1, <1>5 DEF Alone
  <2>2. y \in DOMAIN ring' => \A i \in DOMAIN cq' : cq'[i].context # y
    BY <1>1, <1>2, <1>3, <1>5, <2>1 DEF Alone
  <2>3. ASSUME NEW i \in DOMAIN cq', NEW j \in DOMAIN cq', cq'[i].context = y, cq'[j].context = y
        PROVE  i = j
    BY <1>2, <1>3, <1>5, <2>3 DEF Alone
  <2> QED  BY <2>1, <2>2, <2>3 DEF Alone
<1> QED  BY <1>1, <1>2, <1>3, <1>4, <1>5

\* The server takes the completion h from the queue and submits contexts.
LEMMA Handled ==
    ASSUME IsABag(ring), NEW E, cq \in Seq(E), cq # <<>>, NEW contexts,
           ring' = ring (+) SetToBag(contexts), cq' = Tail(cq)
    PROVE  /\ IsABag(ring') /\ cq' \in Seq(E)
           /\ Event \in UnderWay
           /\ UnderWay' \subseteq UnderWay \cup contexts
           /\ contexts \subseteq UnderWay' /\ UnderWay \ {Event} \subseteq UnderWay'
           /\ Alone(Event) /\ Event \notin contexts => Event \notin UnderWay'
           /\ \A y : Alone(y) /\ y \notin contexts => Alone(y)'
           /\ \A y \in contexts : y \notin UnderWay \/ (Alone(y) /\ y = Event) => Alone(y)'
           /\ \A i \in DOMAIN cq' : i + 1 \in DOMAIN cq /\ cq'[i] = cq[i + 1]
<1>1. /\ IsABag(ring')
      /\ DOMAIN ring' = DOMAIN ring \cup contexts
      /\ \A y \in DOMAIN ring \ contexts : ring'[y] = ring[y]
      /\ \A y \in contexts \ DOMAIN ring : ring'[y] = 1
  <2> DEFINE A == ring (+) SetToBag(contexts)
  <2>1. /\ IsABag(A)
        /\ DOMAIN A = DOMAIN ring \cup contexts
        /\ \A y \in DOMAIN ring \ contexts : A[y] = ring[y]
        /\ \A y \in contexts \ DOMAIN ring : A[y] = 1
    BY Added, Zenon
  <2>2. ring' = A
    OBVIOUS
  <2> HIDE DEF A
  <2> QED  BY <2>1, <2>2
<1>2. /\ cq' \in Seq(E)
      /\ DOMAIN cq' = 1 .. Len(cq) - 1 /\ DOMAIN cq = 1 .. Len(cq) /\ Len(cq) \in Nat /\ Len(cq) > 0
      /\ \A i \in DOMAIN cq' : i + 1 \in DOMAIN cq /\ i + 1 # 1 /\ cq'[i] = cq[i + 1]
      /\ 1 \in DOMAIN cq /\ Head(cq) = cq[1]
  <2>1. Len(cq) \in Nat /\ Len(cq) > 0 /\ DOMAIN cq = 1 .. Len(cq) /\ Head(cq) = cq[1]
    OBVIOUS
  <2>2. Tail(cq) \in Seq(E) /\ Len(Tail(cq)) = Len(cq) - 1
    BY HeadTailProperties
  <2>3. \A i \in 1 .. Len(Tail(cq)) : Tail(cq)[i] = cq[i + 1]
    BY HeadTailProperties
  <2> QED  BY <2>1, <2>2, <2>3
<1>3. Event = cq[1].context
  BY <1>2 DEF Event
<1>4. \A i \in DOMAIN cq : i = 1 \/ (i - 1 \in DOMAIN cq' /\ cq[i] = cq'[i - 1])
  BY <1>2
<1>5. UnderWay' \subseteq UnderWay \cup contexts
  BY <1>1, <1>2 DEF UnderWay, BagToSet
<1>6. contexts \subseteq UnderWay' /\ UnderWay \ {Event} \subseteq UnderWay'
  BY <1>1, <1>3, <1>4 DEF UnderWay, BagToSet
<1>7. Alone(Event) /\ Event \notin contexts => Event \notin UnderWay'
  BY <1>1, <1>2, <1>3 DEF UnderWay, BagToSet, Alone
<1>8. ASSUME NEW y, Alone(y), y \notin contexts PROVE Alone(y)'
  <2>1. ASSUME NEW i \in DOMAIN cq', NEW j \in DOMAIN cq', cq'[i].context = y, cq'[j].context = y
        PROVE  i = j
    <3>1. i + 1 = j + 1
      BY <1>2, <1>8, <2>1 DEF Alone
    <3> QED  BY <1>2, <3>1
  <2>2. y \in DOMAIN ring' => ring'[y] = 1 /\ \A i \in DOMAIN cq' : cq'[i].context # y
    BY <1>1, <1>2, <1>8 DEF Alone
  <2> QED  BY <2>1, <2>2 DEF Alone
<1>9. ASSUME NEW y \in contexts, y \notin UnderWay \/ (Alone(y) /\ y = Event) PROVE Alone(y)'
  <2>1. y \notin DOMAIN ring /\ \A i \in DOMAIN cq' : cq'[i].context # y
    BY <1>1, <1>2, <1>3, <1>9 DEF UnderWay, BagToSet, Alone
  <2> QED  BY <1>1, <2>1 DEF Alone
<1> QED  BY <1>1, <1>2, <1>3, <1>5, <1>6, <1>7, <1>8, <1>9 DEF UnderWay

-----------------------------------------------------------------------------
(* The inductive invariant.                                                 *)

\* The contexts that are under way once at most: all but those of a header and
\* of a static answer.
Single(x) == x.event # "write" \/ x.what.part = "body"

\* What a context carries, and that the numbers in it still name what they
\* named when it was made: the socket while the context holds the turn, the
\* file while it is read.
Carries(x) ==
    /\ x.event = "accept" => x = AcceptContext
    /\ x.event = "read_sock" => x.on \in Clients /\ x.what = Nothing
    /\ x.event = "read_file" =>
          /\ x.path \in Fds /\ fds[x.path] = File
          /\ x.what = Nothing \/ (x.what.part = "body" /\ x.what.client \in Clients)
    /\ x.event = "write" =>
          /\ x.on \in Clients /\ x.what.client = x.on /\ x.what.part # "nothing"
          /\ IF x.what.part = "body" THEN x.path \in Fds ELSE x.path = 0
    /\ \A c \in Clients : HoldsTurn(x, c) => x.socket \in Fds /\ fds[x.socket] = c

Shaped == \A x \in UnderWay : Carries(x) /\ (Single(x) => Alone(x))
OneHolder == \A c \in Clients : \A x, y \in UnderWay : HoldsTurn(x, c) /\ HoldsTurn(y, c) => x = y

\* A file has one context that reads it, and no other reads from its number.
FilesApart ==
    \A x, y \in UnderWay :
        x.event = "read_file" /\ y.event = "read_file" /\ x.path = y.path => x = y
FilesRead ==
    \A fd \in Fds : fds[fd] = File => \E x \in UnderWay : x.event = "read_file" /\ x.path = fd

\* What was read of a file is the body of an answer.
BodyRead ==
    \A i \in DOMAIN cq :
        cq[i].context.event = "read_file" /\ cq[i].res > 0 => cq[i].context.what.part = "body"

\* A connection that was accepted and is not read yet.
Accepted ==
    \A i \in DOMAIN cq :
        cq[i].context.event = "accept" /\ cq[i].res >= 0 =>
            /\ cq[i].res \in Fds /\ fds[cq[i].res] \in Clients
            /\ \A x \in UnderWay : ~HoldsTurn(x, fds[cq[i].res])

\* A connection has one number, once it is accepted.
Connected ==
    /\ \A fd, g \in Fds : fds[fd] \in Clients /\ fds[fd] = fds[g] => fd = g
    /\ \A fd \in Fds : fds[fd] \in Clients => client[fds[fd]] # "waiting"

WayInv ==
    /\ Shaped /\ OneHolder /\ FilesApart /\ FilesRead /\ BodyRead
    /\ Accepted /\ Connected /\ RightClient

\* path_fd is not set in the contexts of headers and static answers, so the
\* memory they are in decides what they pass for.
Clean == Garbage = {0}

-----------------------------------------------------------------------------
(* What a handler does to it.                                               *)

\* A handler takes the head of the queue and submits contexts.  It may open a
\* file for a context that reads it, close the socket whose turn it had, or close
\* the file it read; a new context is under way already only if it is a write of
\* no body, and has the turn of a connection only from the one handled or from
\* accept().
LEMMA Moves ==
    ASSUME TypeOK, WayInv, cq # <<>>, NEW contexts,
           ring' = ring (+) SetToBag(contexts), cq' = Tail(cq),
           client' = client, stream' = stream,
           \A fd \in Fds :
              \/ fds'[fd] = fds[fd]
              \/ /\ fds[fd] = Free /\ fds'[fd] = File
                 /\ \E y \in contexts : y.event = "read_file" /\ y.path = fd
              \/ fds[fd] \in Clients /\ HoldsTurn(Event, fds[fd]) /\ fds'[fd] = Free
              \/ Event.event = "read_file" /\ Event.path = fd /\ fds'[fd] = Free,
           Event.event = "read_file" => fds'[Event.path] = Free,
           \A y \in contexts : Carries(y)',
           \A y \in contexts :
              \/ ~Single(y)
              \/ y.event = "accept" /\ y = Event
              \/ y.event = "read_file"
              \/ \E c \in Clients : HoldsTurn(y, c),
           \A y \in contexts : y.event = "read_file" => fds[y.path] = Free,
           \A x, y \in contexts : x.event = "read_file" /\ y.event = "read_file" => x = y,
           \A y \in contexts : \A c \in Clients :
              HoldsTurn(y, c) =>
                 \/ HoldsTurn(Event, c)
                 \/ Event.event = "accept" /\ Result >= 0 /\ fds[Result] = c,
           \A x, y \in contexts : \A c \in Clients : HoldsTurn(x, c) /\ HoldsTurn(y, c) => x = y
    PROVE  WayInv'
<1> USE DEF WayInv
<1>1. /\ Event \in UnderWay
      /\ UnderWay' \subseteq UnderWay \cup contexts
      /\ contexts \subseteq UnderWay' /\ UnderWay \ {Event} \subseteq UnderWay'
      /\ Alone(Event) /\ Event \notin contexts => Event \notin UnderWay'
      /\ \A y : Alone(y) /\ y \notin contexts => Alone(y)'
      /\ \A y \in contexts : y \notin UnderWay \/ (Alone(y) /\ y = Event) => Alone(y)'
      /\ \A i \in DOMAIN cq' : i \in Nat \ {0} /\ i + 1 \in DOMAIN cq /\ cq'[i] = cq[i + 1]
  <2>1. IsABag(ring) /\ \E E : cq \in Seq(E)
    BY DEF TypeOK
  <2>2. PICK E : cq \in Seq(E)
    BY <2>1
  <2>3. \A i \in DOMAIN cq' : i \in Nat \ {0}
    BY <2>2
  <2> QED  BY <2>1, <2>2, <2>3, Handled
<1>2. Free # File /\ Free \notin Clients /\ File \notin Clients
  BY ConstantsAssumption
<1>3. \A x \in UnderWay : Carries(x) /\ (Single(x) => Alone(x))
  BY DEF Shaped
<1>4. /\ 1 \in DOMAIN cq /\ Event = cq[1].context /\ Result = cq[1].res
  BY DEF TypeOK, Event, Result
<1>5. \A x, c : HoldsTurn(x, c) => Single(x)
  BY DEF HoldsTurn, Single
<1>6. ASSUME NEW x \in UnderWay', x \notin contexts
      PROVE  x \in UnderWay /\ (x # Event \/ ~Single(x)) /\ (Single(x) => Alone(x)')
  BY <1>1, <1>3, <1>6
<1>7. ASSUME NEW x \in UnderWay, x # Event \/ ~Single(x) PROVE Carries(x)'
  <2>1. Carries(x)
    BY <1>3
  <2>2. ASSUME NEW c \in Clients, HoldsTurn(x, c)
        PROVE  x.socket \in Fds /\ fds'[x.socket] = c
    <3>1. x.socket \in Fds /\ fds[x.socket] = c /\ x # Event
      BY <1>5, <1>7, <2>1, <2>2 DEF Carries
    <3>2. ~HoldsTurn(Event, c)
      BY <1>1, <2>2, <3>1 DEF OneHolder
    <3>3. Event.event = "read_file" => fds[Event.path] = File
      BY <1>1, <1>3 DEF Carries
    <3> QED  BY <1>2, <3>1, <3>2, <3>3
  <2>3. ASSUME x.event = "read_file"
        PROVE  x.path \in Fds /\ fds'[x.path] = File
    <3>1. x.path \in Fds /\ fds[x.path] = File /\ x # Event
      BY <1>7, <2>1, <2>3 DEF Carries, Single
    <3>2. ~(Event.event = "read_file" /\ Event.path = x.path)
      BY <1>1, <2>3, <3>1 DEF FilesApart
    <3> QED  BY <1>2, <3>1, <3>2
  <2> QED  BY <2>1, <2>2, <2>3 DEF Carries, HoldsTurn, AcceptContext, Nothing
<1>8. ASSUME NEW y \in contexts, Single(y) PROVE y \notin UnderWay \/ y = Event
  <2>1. CASE y.event = "read_file"
    BY <1>2, <1>3, <2>1 DEF Carries
  <2>2. CASE \E c \in Clients : HoldsTurn(y, c)
    <3>1. PICK c \in Clients : HoldsTurn(y, c)
      BY <2>2
    <3>2. CASE HoldsTurn(Event, c)
      BY <1>1, <3>1, <3>2 DEF OneHolder
    <3>3. CASE Event.event = "accept" /\ Result >= 0 /\ fds[Result] = c
      BY <1>4, <3>1, <3>3 DEF Accepted
    <3> QED  BY <3>1, <3>2, <3>3
  <2> QED  BY <1>8, <2>1, <2>2
<1>9. \A y \in contexts : Single(y) => Alone(y)'
  BY <1>1, <1>3, <1>8
<1>10. Shaped'
  BY <1>1, <1>6, <1>7, <1>9 DEF Shaped, Single
<1>11. OneHolder'
  <2> SUFFICES ASSUME NEW c \in Clients, NEW x \in UnderWay', NEW y \in UnderWay',
                      HoldsTurn(x, c), HoldsTurn(y, c)
               PROVE  x = y
    BY DEF OneHolder, HoldsTurn
  <2>1. ASSUME NEW w \in contexts, NEW z \in UnderWay', z \notin contexts, HoldsTurn(w, c), HoldsTurn(z, c)
        PROVE  FALSE
    <3>1. z \in UnderWay /\ z # Event
      BY <1>5, <1>6, <2>1
    <3>2. CASE HoldsTurn(Event, c)
      BY <1>1, <2>1, <3>1, <3>2 DEF OneHolder
    <3>3. CASE Event.event = "accept" /\ Result >= 0 /\ fds[Result] = c
      BY <1>4, <2>1, <3>1, <3>3 DEF Accepted
    <3> QED  BY <2>1, <3>2, <3>3
  <2>2. CASE x \in contexts /\ y \in contexts
    BY <2>2
  <2>3. CASE x \notin contexts /\ y \notin contexts
    BY <1>6, <2>3 DEF OneHolder
  <2> QED  BY <2>1, <2>2, <2>3
<1>12. FilesApart'
  <2> SUFFICES ASSUME NEW x \in UnderWay', NEW y \in UnderWay',
                      x.event = "read_file", y.event = "read_file", x.path = y.path
               PROVE  x = y
    BY DEF FilesApart
  <2>1. ASSUME NEW w \in contexts, NEW z \in UnderWay, w.event = "read_file", z.event = "read_file"
        PROVE  w.path # z.path
    <3>1. fds[z.path] = File
      BY <1>3, <2>1 DEF Carries
    <3> QED  BY <1>2, <2>1, <3>1
  <2>2. CASE x \in contexts /\ y \in contexts
    BY <2>2
  <2>3. CASE x \notin contexts /\ y \notin contexts
    BY <1>6, <2>3 DEF FilesApart
  <2> QED  BY <1>6, <2>1, <2>2, <2>3
<1>13. FilesRead'
  <2> SUFFICES ASSUME NEW fd \in Fds, fds'[fd] = File
               PROVE  \E x \in UnderWay' : x.event = "read_file" /\ x.path = fd
    BY DEF FilesRead
  <2>1. CASE fds[fd] = File
    <3>1. PICK x \in UnderWay : x.event = "read_file" /\ x.path = fd
      BY <2>1 DEF FilesRead
    <3>2. x # Event
      BY <1>2, <3>1
    <3> QED  BY <1>1, <3>1, <3>2
  <2>2. CASE \E y \in contexts : y.event = "read_file" /\ y.path = fd
    BY <1>1, <2>2
  <2> QED  BY <1>2, <2>1, <2>2
<1>14. Accepted'
  <2> SUFFICES ASSUME NEW i \in DOMAIN cq', cq'[i].context.event = "accept", cq'[i].res >= 0
               PROVE  /\ cq'[i].res \in Fds /\ fds'[cq'[i].res] \in Clients
                      /\ \A x \in UnderWay' : ~HoldsTurn(x, fds'[cq'[i].res])
    BY DEF Accepted, HoldsTurn
  <2> DEFINE fd == cq[i + 1].res
             c == fds[fd]
  <2>1. /\ i + 1 \in DOMAIN cq /\ i + 1 # 1 /\ cq'[i] = cq[i + 1]
        /\ cq[i + 1].context.event = "accept" /\ fd >= 0
    BY <1>1
  <2>2. fd \in Fds /\ c \in Clients /\ \A x \in UnderWay : ~HoldsTurn(x, c)
    BY <2>1 DEF Accepted
  <2>3. fds'[fd] = c
    <3>1. Event.event = "read_file" => fds[Event.path] = File
      BY <1>1, <1>3 DEF Carries
    <3> QED  BY <1>1, <1>2, <2>2, <3>1
  <2>4. Event.event # "accept"
    <3>1. ASSUME Event.event = "accept" PROVE FALSE
      <4>1. cq[i + 1].context \in UnderWay
        BY <2>1 DEF UnderWay
      <4>2. Event = AcceptContext /\ cq[i + 1].context = AcceptContext
        BY <1>1, <1>3, <2>1, <3>1, <4>1 DEF Carries
      <4>3. Alone(Event)
        BY <1>1, <1>3, <3>1 DEF Single
      <4> QED  BY <1>4, <2>1, <4>2, <4>3 DEF Alone
    <3> QED  BY <3>1
  <2>5. \A x \in UnderWay' : ~HoldsTurn(x, c)
    BY <1>1, <2>2, <2>4
  <2> HIDE DEF fd, c
  <2> QED  BY <2>1, <2>2, <2>3, <2>5 DEF fd
<1>15. Connected'
  <2>1. \A fd \in Fds : fds'[fd] \in Clients => fds'[fd] = fds[fd]
    BY <1>2
  <2> QED  BY <2>1 DEF Connected
<1>16. BodyRead'
  BY <1>1 DEF BodyRead
<1>17. RightClient'
  BY DEF RightClient
<1> QED  BY <1>10, <1>11, <1>12, <1>13, <1>14, <1>15, <1>16, <1>17

-----------------------------------------------------------------------------
(* Types.                                                                   *)

Entry == [context : Context, res : {-1, 0, 1} \cup Fds, got : Kinds \cup {"nothing"}]

\* What the kernel puts into the completion queue.
LEMMA EntryType ==
    ASSUME NEW x \in Context, NEW res \in {-1, 0, 1} \cup Fds, NEW got \in Kinds \cup {"nothing"}
    PROVE  LET e == [context |-> x, res |-> res, got |-> got]
           IN  e \in Entry /\ e.context = x /\ e.res = res /\ e.got = got
BY DEF Entry

\* The completion that is handled.
LEMMA HeadType ==
    ASSUME TypeOK, cq # <<>>
    PROVE  /\ Event \in Context /\ Event \in UnderWay /\ 1 \in DOMAIN cq
           /\ Event = cq[1].context /\ Result = cq[1].res
           /\ Result \in {-1, 0, 1} \cup Fds /\ Result \in Int
<1>1. cq \in Seq(Entry)
  BY DEF TypeOK, Entry
<1>2. 1 \in DOMAIN cq /\ Head(cq) = cq[1] /\ cq[1] \in Entry
  BY <1>1
<1> QED  BY <1>2, ConstantsAssumption DEF Entry, Event, Result, UnderWay, Fds

\* What is written for a client, and the contexts the server makes.
LEMMA ContentType ==
    ASSUME TypeOK, NEW part \in {"header", "body", "static"}, NEW c \in Clients
    PROVE  Content(part, c) \in Answer /\ Content(part, c).part = part /\ Content(part, c).client = c
BY DEF TypeOK, Content, Answer

\* Whatever the server submits is a context, also with what its memory held.
LEMMA ContextType ==
    ASSUME TypeOK
    PROVE  /\ Nothing \in Answer /\ AcceptContext \in Context
           /\ \A fd \in Fds : ReadContext(fd) \in Context
           /\ \A fd \in Fds, path \in Fds \cup {0} \cup Garbage, what \in Answer :
                  WriteContext(fd, path, what) \in Context /\ FileContext(fd, path, what) \in Context
<1>1. Nothing \in Answer
  BY DEF Nothing, Answer
<1>2. \A fd \in Fds : fds[fd] \in Clients \cup {File, Free}
  BY DEF TypeOK
<1> QED  BY <1>1, <1>2 DEF AcceptContext, ReadContext, WriteContext, FileContext, Context

\* What the handlers submit keeps the type of the ring.
LEMMA SubmitsType ==
    ASSUME TypeOK, cq # <<>>, NEW contexts, contexts \subseteq Context,
           ring' = ring (+) SetToBag(contexts), cq' = Tail(cq)
    PROVE  /\ IsABag(ring)' /\ (BagToSet(ring) \subseteq Context)'
           /\ cq' \in Seq([context : Context, res : {-1, 0, 1} \cup Fds, got : Kinds \cup {"nothing"}])
<1>1. cq \in Seq(Entry) /\ IsABag(ring) /\ BagToSet(ring) \subseteq Context
  BY DEF TypeOK, Entry
<1>2. cq' \in Seq(Entry) /\ IsABag(ring')
  BY <1>1, Handled
<1>3. DOMAIN ring' = DOMAIN ring \cup contexts
  BY <1>1, Added
<1> QED  BY <1>1, <1>2, <1>3 DEF Entry, BagToSet

-----------------------------------------------------------------------------
(* The steps of the server.                                                 *)

IInv == TypeOK /\ WayInv

\* The completion at the head, when it is one of a read or a write.
LEMMA HeadFacts ==
    ASSUME IInv, cq # <<>>
    PROVE  /\ Carries(Event)
           /\ Event.event = "read_sock" =>
                 /\ Event.on \in Clients /\ Event.socket \in Fds /\ fds[Event.socket] = Event.on
                 /\ HoldsTurn(Event, Event.on)
           /\ Event.event \in {"read_file", "write"} /\ Event.what.part = "body" =>
                 /\ Event.what.client \in Clients /\ HoldsTurn(Event, Event.what.client)
                 /\ Event.socket \in Fds /\ fds[Event.socket] = Event.what.client
<1>1. Carries(Event)
  BY HeadType DEF IInv, WayInv, Shaped
<1> QED  BY <1>1 DEF Carries, HoldsTurn, Nothing

\* Nothing is under way once the server has ended.
LEMMA ExitsStep == ASSUME IInv, Exits PROVE IInv'
<1>1. /\ ring' = [e \in {} |-> 1] /\ DOMAIN ring' = {}
      /\ cq' = <<>> /\ DOMAIN cq' = {}
  BY DEF Exits, EmptyBag, SetToBag
<1>2. UnderWay' = {}
  BY <1>1 DEF UnderWay, BagToSet
<1>3. TypeOK'
  BY <1>1 DEF IInv, TypeOK, Exits, IsABag, BagToSet
<1>4. \A fd \in Fds : fds'[fd] = Free
  BY DEF Exits
<1>5. WayInv'
  BY <1>1, <1>2, <1>4, ConstantsAssumption
     DEF IInv, WayInv, Shaped, OneHolder, FilesApart, FilesRead, BodyRead, Accepted, Connected, RightClient, Exits
<1> QED  BY <1>3, <1>5 DEF IInv

\* The first read of a connection takes its turn.
LEMMA AcceptStep == ASSUME IInv, HandleAccept PROVE IInv'
<1> DEFINE contexts == {AcceptContext, ReadContext(Result)}
<1>1. /\ cq # <<>> /\ cq' = Tail(cq) /\ ring' = ring (+) SetToBag(contexts)
      /\ Event.event = "accept" /\ Result >= 0
      /\ UNCHANGED <<server, fds, client, asked, input, stream>>
  BY DEF HandleAccept, Handles, Submits
<1>2. /\ Result \in Fds /\ fds[Result] \in Clients /\ Event = AcceptContext
  BY <1>1, HeadType, HeadFacts DEF IInv, WayInv, Accepted, Carries
<1>3. contexts \subseteq Context
  BY <1>2, ContextType DEF IInv
<1>4. /\ ReadContext(Result).event = "read_sock" /\ ReadContext(Result).socket = Result
      /\ ReadContext(Result).on = fds[Result] /\ ReadContext(Result).what = Nothing
      /\ AcceptContext.event = "accept" /\ AcceptContext.what = Nothing
      /\ Nothing.part = "nothing"
  BY DEF ReadContext, AcceptContext, Nothing
<1>5. TypeOK'
  <2> HIDE DEF contexts
  <2> QED  BY <1>1, <1>3, SubmitsType DEF IInv, TypeOK
<1>6. \A y \in contexts : Carries(y)'
  BY <1>1, <1>2, <1>4 DEF Carries, HoldsTurn
<1>7. /\ \A y \in contexts :
           \/ y.event = "accept" /\ y = Event
           \/ \E c \in Clients : HoldsTurn(y, c)
      /\ \A y \in contexts : y.event # "read_file"
      /\ \A y \in contexts : \A c \in Clients : HoldsTurn(y, c) => y = ReadContext(Result) /\ fds[Result] = c
  BY <1>2, <1>4 DEF HoldsTurn
<1>8. WayInv'
  <2> HIDE DEF contexts
  <2> QED  BY <1>1, <1>6, <1>7, Moves DEF IInv
<1> QED  BY <1>5, <1>8 DEF IInv

\* The socket that is closed had its turn: no other context reads it.
LEMMA EofStep == ASSUME IInv, HandleEof PROVE IInv'
<1>1. /\ cq # <<>> /\ cq' = Tail(cq) /\ ring' = ring (+) SetToBag({})
      /\ Event.event = "read_sock" /\ fds' = [fds EXCEPT ![Event.socket] = Free]
      /\ UNCHANGED <<server, client, asked, input, stream>>
  BY NoneAdded DEF HandleEof, Handles, IInv, TypeOK
<1>2. TypeOK'
  <2>1. fds' \in [Fds -> Clients \cup {File, Free}]
    BY <1>1 DEF IInv, TypeOK
  <2> QED  BY <1>1, <2>1, SubmitsType DEF IInv, TypeOK
<1>3. \A fd \in Fds : fds'[fd] = fds[fd] \/ (fds[fd] \in Clients /\ HoldsTurn(Event, fds[fd]) /\ fds'[fd] = Free)
  BY <1>1, HeadFacts DEF IInv, TypeOK
<1>4. WayInv'
  BY <1>1, <1>3, Moves DEF IInv
<1> QED  BY <1>2, <1>4 DEF IInv

\* A static answer ends the turns of its connection.
LEMMA StaticStep ==
    ASSUME Clean, IInv, NEW garbage \in Garbage, HandleStatic(garbage)
    PROVE  IInv'
<1> DEFINE answer == WriteContext(Event.socket, garbage, Content("static", Event.on))
           contexts == {answer}
<1>1. /\ cq # <<>> /\ cq' = Tail(cq) /\ ring' = ring (+) SetToBag(contexts)
      /\ Event.event = "read_sock"
      /\ UNCHANGED <<server, fds, client, asked, input, stream>>
  BY DEF HandleStatic, Handles, Submits
<1>2. Event.on \in Clients /\ Event.socket \in Fds /\ fds[Event.socket] = Event.on
  BY <1>1, HeadFacts
<1>3. answer \in Context
  BY <1>2, ContentType, ContextType DEF IInv
<1>4. /\ answer.event = "write" /\ answer.on = Event.on /\ answer.path = 0
      /\ answer.what.part = "static" /\ answer.what.client = Event.on
  BY <1>2, ContentType DEF WriteContext, Clean, IInv
<1> HIDE DEF answer
<1>5. TypeOK'
  <2>1. contexts \subseteq Context
    BY <1>3
  <2> HIDE DEF contexts
  <2> QED  BY <1>1, <2>1, SubmitsType DEF IInv, TypeOK
<1>6. \A y \in contexts : Carries(y)' /\ ~Single(y) /\ y.event # "read_file" /\ \A c \in Clients : ~HoldsTurn(y, c)
  BY <1>1, <1>2, <1>4 DEF Carries, HoldsTurn, Single
<1>7. WayInv'
  <2> HIDE DEF contexts
  <2> QED  BY <1>1, <1>6, Moves DEF IInv
<1> QED  BY <1>5, <1>7 DEF IInv

\* The read of the file has the turn, unless the file is empty; the header has not.
LEMMA GetStep ==
    ASSUME Clean, IInv, NEW garbage \in Garbage, HandleGet(garbage)
    PROVE  IInv'
<1> DEFINE path == FreeFd(fds)
           body == IF Head(cq).got = "empty" THEN Nothing ELSE Content("body", Event.on)
           header == WriteContext(Event.socket, garbage, Content("header", Event.on))
           read == FileContext(Event.socket, path, body)
           contexts == {header, read}
<1>1. /\ cq # <<>> /\ cq' = Tail(cq) /\ ring' = ring (+) SetToBag(contexts)
      /\ Event.event = "read_sock" /\ ~Full(fds) /\ fds' = [fds EXCEPT ![path] = File]
      /\ UNCHANGED <<server, client, asked, input, stream>>
  BY DEF HandleGet, Handles, Submits, FdsOfGet
<1>2. /\ Event.on \in Clients /\ Event.socket \in Fds /\ fds[Event.socket] = Event.on
      /\ HoldsTurn(Event, Event.on)
  BY <1>1, HeadFacts
<1>3. path \in Fds /\ fds[path] = Free
  BY <1>1, Lowest
<1>4. body \in Answer /\ (body = Nothing \/ (body.part = "body" /\ body.client = Event.on))
  BY <1>2, ContentType, ContextType DEF IInv
<1>5. header \in Context /\ read \in Context
  <2> HIDE DEF path, body
  <2> QED  BY <1>2, <1>3, <1>4, ContentType, ContextType DEF IInv
<1>6. /\ header.event = "write" /\ header.on = Event.on /\ header.path = 0
      /\ header.what.part = "header" /\ header.what.client = Event.on
  BY <1>2, ContentType DEF WriteContext, Clean, IInv
<1>7. /\ read.event = "read_file" /\ read.socket = Event.socket /\ read.path = path /\ read.what = body
  BY DEF FileContext
<1> HIDE DEF path, body, header, read
<1>8. fds' \in [Fds -> Clients \cup {File, Free}]
  BY <1>1, <1>3 DEF IInv, TypeOK
<1>9. TypeOK'
  <2>1. contexts \subseteq Context
    BY <1>5
  <2> HIDE DEF contexts
  <2> QED  BY <1>1, <1>8, <2>1, SubmitsType DEF IInv, TypeOK
<1>10. Nothing.part = "nothing" /\ Free # File /\ Free \notin Clients /\ File \notin Clients
  BY ConstantsAssumption DEF Nothing
<1>11. /\ fds'[path] = File
       /\ \A fd \in Fds : fd # path => fds'[fd] = fds[fd]
  BY <1>1, <1>3 DEF IInv, TypeOK
<1>12. \A c : ~HoldsTurn(header, c) /\ (HoldsTurn(read, c) => c = Event.on)
  BY <1>4, <1>6, <1>7, <1>10 DEF HoldsTurn
<1>13. \A y \in {header} : Carries(y)' /\ ~Single(y) /\ y.event # "read_file"
  BY <1>2, <1>6 DEF Carries, HoldsTurn, Single
<1>14. \A y \in {read} : Carries(y)'
  BY <1>2, <1>3, <1>4, <1>7, <1>10, <1>11 DEF Carries, HoldsTurn
<1>15. \A fd \in Fds :
          \/ fds'[fd] = fds[fd]
          \/ /\ fds[fd] = Free /\ fds'[fd] = File
             /\ \E y \in contexts : y.event = "read_file" /\ y.path = fd
  BY <1>3, <1>7, <1>11
<1>16. /\ \A y \in contexts : Carries(y)' /\ (~Single(y) \/ y.event = "read_file")
       /\ \A y \in contexts : y.event = "read_file" => y = read /\ fds[y.path] = Free
       /\ \A y \in contexts : \A c : HoldsTurn(y, c) => y = read /\ HoldsTurn(Event, c)
  BY <1>2, <1>3, <1>7, <1>12, <1>13, <1>14
<1>17. WayInv'
  <2> HIDE DEF contexts
  <2> QED  BY <1>1, <1>15, <1>16, Moves DEF IInv
<1> QED  BY <1>9, <1>17 DEF IInv

\* A file that was read is closed.
LEMMA Closed ==
    ASSUME IInv, cq # <<>>, Event.event = "read_file", fds' = [fds EXCEPT ![Event.path] = Free]
    PROVE  /\ fds' \in [Fds -> Clients \cup {File, Free}]
           /\ Event.path \in Fds /\ fds'[Event.path] = Free
           /\ \A fd \in Fds : fds'[fd] = fds[fd] \/ (Event.path = fd /\ fds'[fd] = Free)
BY HeadFacts DEF IInv, TypeOK, Carries

\* After an empty file the connection is not read again.
LEMMA EmptyFileStep == ASSUME IInv, HandleEmptyFile PROVE IInv'
<1>1. /\ cq # <<>> /\ cq' = Tail(cq) /\ ring' = ring (+) SetToBag({})
      /\ Event.event = "read_file" /\ fds' = [fds EXCEPT ![Event.path] = Free]
      /\ UNCHANGED <<server, client, asked, input, stream>>
  BY NoneAdded DEF HandleEmptyFile, Handles, IInv, TypeOK
<1>2. TypeOK'
  BY <1>1, Closed, SubmitsType DEF IInv, TypeOK
<1>3. WayInv'
  BY <1>1, Closed, Moves DEF IInv
<1> QED  BY <1>2, <1>3 DEF IInv

\* The turn goes from the read of the file to the write of the body.
LEMMA ReadFileStep == ASSUME IInv, HandleReadFile PROVE IInv'
<1> DEFINE write == WriteContext(Event.socket, Event.path, Event.what)
           contexts == {write}
<1>1. /\ cq # <<>> /\ cq' = Tail(cq) /\ ring' = ring (+) SetToBag(contexts)
      /\ Event.event = "read_file" /\ Result > 0 /\ fds' = [fds EXCEPT ![Event.path] = Free]
      /\ UNCHANGED <<server, client, asked, input, stream>>
  BY DEF HandleReadFile, Handles, Submits
<1>2. Event.what.part = "body"
  BY <1>1, HeadType DEF IInv, WayInv, BodyRead
<1>3. /\ Event.what.client \in Clients /\ HoldsTurn(Event, Event.what.client)
      /\ Event.socket \in Fds /\ fds[Event.socket] = Event.what.client
  BY <1>1, <1>2, HeadFacts
<1>4. Event.path \in Fds /\ fds[Event.path] = File /\ Event.what \in Answer
  BY <1>1, HeadFacts, HeadType DEF Carries, IInv, Context
<1>5. write \in Context
  BY <1>3, <1>4, ContextType DEF IInv
<1>6. /\ write.event = "write" /\ write.on = Event.what.client /\ write.path = Event.path
      /\ write.socket = Event.socket /\ write.what = Event.what
  BY <1>3 DEF WriteContext
<1> HIDE DEF write
<1>7. TypeOK'
  <2>1. contexts \subseteq Context
    BY <1>5
  <2> HIDE DEF contexts
  <2> QED  BY <1>1, <2>1, Closed, SubmitsType DEF IInv, TypeOK
<1>8. fds'[Event.socket] = fds[Event.socket]
  BY <1>1, <1>3, <1>4, Closed, ConstantsAssumption
<1>9. \A y \in contexts : y = write /\ Carries(y)' /\ y.event # "read_file" /\ HoldsTurn(y, Event.what.client)
  BY <1>2, <1>3, <1>4, <1>6, <1>8 DEF Carries, HoldsTurn
<1>10. \A y \in contexts : \A c \in Clients : HoldsTurn(y, c) => HoldsTurn(Event, c)
  BY <1>2, <1>3, <1>6 DEF HoldsTurn
<1>11. WayInv'
  <2> HIDE DEF contexts
  <2> QED  BY <1>1, <1>3, <1>9, <1>10, Closed, Moves DEF IInv
<1> QED  BY <1>7, <1>11 DEF IInv

\* The contexts of headers have no path_fd, so the connection is read again
\* when its body is written.
LEMMA WriteStep == ASSUME IInv, HandleWrite PROVE IInv'
<1> DEFINE read == ReadContext(Event.socket)
<1>1. /\ cq # <<>> /\ cq' = Tail(cq)
      /\ Event.event = "write"
      /\ UNCHANGED <<server, fds, client, asked, input, stream>>
  BY DEF HandleWrite, Handles
<1>2. CASE Event.what.part = "body"
  <2> DEFINE contexts == {read}
  <2>1. /\ Event.what.client \in Clients /\ HoldsTurn(Event, Event.what.client)
        /\ Event.socket \in Fds /\ fds[Event.socket] = Event.what.client
    BY <1>1, <1>2, HeadFacts
  <2>2. Event.path # 0
    BY <1>1, <1>2, HeadFacts, ConstantsAssumption DEF Carries, Fds
  <2>3. ring' = ring (+) SetToBag(contexts)
    BY <2>2 DEF HandleWrite, IsBody, Submits
  <2>4. read \in Context
    BY <2>1, ContextType DEF IInv
  <2>5. /\ read.event = "read_sock" /\ read.socket = Event.socket
        /\ read.on = Event.what.client /\ read.what = Nothing /\ Nothing.part = "nothing"
    BY <2>1 DEF ReadContext, Nothing
  <2> HIDE DEF read
  <2>6. TypeOK'
    <3>1. contexts \subseteq Context
      BY <2>4
    <3> HIDE DEF contexts
    <3> QED  BY <1>1, <2>3, <3>1, SubmitsType DEF IInv, TypeOK
  <2>7. \A y \in contexts : y = read /\ Carries(y)' /\ y.event # "read_file" /\ HoldsTurn(y, Event.what.client)
    BY <1>1, <2>1, <2>5 DEF Carries, HoldsTurn
  <2>8. \A y \in contexts : \A c \in Clients : HoldsTurn(y, c) => HoldsTurn(Event, c)
    BY <2>1, <2>5 DEF HoldsTurn
  <2>9. WayInv'
    <3> HIDE DEF contexts
    <3> QED  BY <1>1, <2>1, <2>3, <2>7, <2>8, Moves DEF IInv
  <2> QED  BY <2>6, <2>9 DEF IInv
<1>3. CASE Event.what.part # "body"
  <2>1. Event.path = 0
    BY <1>1, <1>3, HeadFacts DEF Carries
  <2>2. ring' = ring (+) SetToBag({})
    BY <2>1 DEF HandleWrite, IsBody, Submits
  <2>3. TypeOK'
    BY <1>1, <2>2, SubmitsType DEF IInv, TypeOK
  <2>4. WayInv'
    BY <1>1, <2>2, Moves DEF IInv
  <2> QED  BY <2>3, <2>4 DEF IInv
<1> QED  BY <1>2, <1>3

-----------------------------------------------------------------------------
(* The steps of the kernel and of the clients.                              *)

\* A request that is performed keeps the types of ring and queue.
LEMMA CompletesType ==
    ASSUME TypeOK, NEW x \in BagToSet(ring), NEW res \in {-1, 0, 1} \cup Fds,
           NEW got \in Kinds \cup {"nothing"}, Completes(x, res, got)
    PROVE  /\ IsABag(ring)' /\ (BagToSet(ring) \subseteq Context)'
           /\ cq' \in Seq([context : Context, res : {-1, 0, 1} \cup Fds, got : Kinds \cup {"nothing"}])
           /\ UNCHANGED <<server, asked>>
           /\ UnderWay' = UnderWay
           /\ \A y : Alone(y) => Alone(y)'
           /\ \A i \in DOMAIN cq' :
                 \/ cq'[i].context = x /\ cq'[i].res = res
                 \/ i \in DOMAIN cq /\ cq'[i] = cq[i]
<1> DEFINE e == [context |-> x, res |-> res, got |-> got]
<1>1. cq \in Seq(Entry) /\ IsABag(ring) /\ BagToSet(ring) \subseteq Context
  BY DEF TypeOK, Entry
<1>2. e \in Entry /\ e.context = x /\ e.res = res /\ x \in DOMAIN ring
  BY <1>1, EntryType DEF BagToSet
<1>3. ring' = ring (-) SetToBag({e.context}) /\ cq' = Append(cq, e) /\ UNCHANGED <<server, asked>>
  BY <1>2 DEF Completes
<1> HIDE DEF e
<1>4. /\ IsABag(ring') /\ cq' \in Seq(Entry)
      /\ UnderWay' = UnderWay
      /\ \A y : Alone(y) => Alone(y)'
      /\ \A i \in DOMAIN cq' : cq'[i] = e \/ (i \in DOMAIN cq /\ cq'[i] = cq[i])
  BY <1>1, <1>2, <1>3, Performed
<1>5. DOMAIN ring' \subseteq DOMAIN ring
  BY <1>1, <1>2, <1>3, Removed
<1> QED  BY <1>1, <1>2, <1>3, <1>4, <1>5 DEF Entry, BagToSet

\* What is under way stays so, and no descriptor changes.
LEMMA Stays ==
    ASSUME WayInv, UnderWay' = UnderWay, fds' = fds,
           \A y : Alone(y) => Alone(y)',
           \A c \in Clients : client'[c] = "waiting" => client[c] = "waiting",
           \A i \in DOMAIN cq' :
              \/ i \in DOMAIN cq /\ cq'[i] = cq[i]
              \/ /\ cq'[i].context.event = "accept" => ~(cq'[i].res >= 0)
                 /\ cq'[i].context.event = "read_file" /\ cq'[i].res > 0 =>
                       cq'[i].context.what.part = "body",
           RightClient'
    PROVE  WayInv'
<1> USE DEF WayInv
<1>1. Shaped'
  BY DEF Shaped, Carries, HoldsTurn, Single, AcceptContext, Nothing
<1>2. OneHolder' /\ FilesApart' /\ FilesRead'
  BY DEF OneHolder, FilesApart, FilesRead, HoldsTurn
<1>3. BodyRead' /\ Accepted' /\ Connected'
  BY DEF BodyRead, Accepted, Connected, HoldsTurn
<1> QED  BY <1>1, <1>2, <1>3

\* The number of a new connection was free, so no context with a turn carries it.
LEMMA AcceptsStep ==
    ASSUME IInv, NEW x \in BagToSet(ring), NEW c \in Clients, KernelAccepts(x, c)
    PROVE  IInv'
<1> DEFINE fd == FreeFd(fds)
<1>1. /\ x.event = "accept" /\ client[c] = "waiting" /\ ~Full(fds)
      /\ client' = [client EXCEPT ![c] = "here"]
      /\ fds' = [fds EXCEPT ![fd] = c]
      /\ Completes(x, fd, "nothing")
      /\ UNCHANGED <<input, stream>>
  BY DEF KernelAccepts
<1>2. fd \in Fds /\ fds[fd] = Free
  BY <1>1, Lowest
<1> HIDE DEF fd
<1>3. /\ IsABag(ring)' /\ (BagToSet(ring) \subseteq Context)'
      /\ cq' \in Seq([context : Context, res : {-1, 0, 1} \cup Fds, got : Kinds \cup {"nothing"}])
      /\ UNCHANGED <<server, asked>>
      /\ UnderWay' = UnderWay
      /\ \A y : Alone(y) => Alone(y)'
      /\ \A i \in DOMAIN cq' :
            \/ cq'[i].context = x /\ cq'[i].res = fd
            \/ i \in DOMAIN cq /\ cq'[i] = cq[i]
  BY <1>1, <1>2, CompletesType DEF IInv
<1>4. /\ fds' \in [Fds -> Clients \cup {File, Free}] /\ client' \in [Clients -> {"waiting", "here", "gone"}]
      /\ fds'[fd] = c /\ \A g \in Fds : g # fd => fds'[g] = fds[g]
      /\ client'[c] = "here" /\ \A d \in Clients : d # c => client'[d] = client[d]
  BY <1>1, <1>2 DEF IInv, TypeOK
<1>5. TypeOK'
  BY <1>1, <1>3, <1>4 DEF IInv, TypeOK
<1>6. Free # File /\ Free \notin Clients /\ File \notin Clients
  BY ConstantsAssumption
<1>7. \A g \in Fds : fds[g] # c
  BY <1>1 DEF IInv, WayInv, Connected
<1>8. ASSUME NEW y \in UnderWay PROVE ~HoldsTurn(y, c) /\ Carries(y)' /\ (Single(y) => Alone(y))
  <2>1. Carries(y) /\ (Single(y) => Alone(y))
    BY DEF IInv, WayInv, Shaped
  <2>2. ~HoldsTurn(y, c)
    BY <1>7, <2>1 DEF Carries
  <2>3. \A d \in Clients : HoldsTurn(y, d) => y.socket \in Fds /\ fds'[y.socket] = d
    BY <1>2, <1>4, <1>6, <2>1 DEF Carries
  <2>4. y.event = "read_file" => y.path \in Fds /\ fds'[y.path] = File
    BY <1>2, <1>4, <1>6, <2>1 DEF Carries
  <2> QED  BY <2>1, <2>2, <2>3, <2>4 DEF Carries, HoldsTurn, AcceptContext, Nothing
<1>9. Shaped'
  BY <1>3, <1>8 DEF Shaped, Single
<1>10. OneHolder' /\ FilesApart'
  BY <1>3 DEF IInv, WayInv, OneHolder, FilesApart, HoldsTurn
<1>11. FilesRead'
  BY <1>3, <1>4, <1>6 DEF IInv, WayInv, FilesRead
<1>12. BodyRead'
  BY <1>1, <1>3 DEF IInv, WayInv, BodyRead
<1>13. Accepted'
  <2> SUFFICES ASSUME NEW i \in DOMAIN cq', cq'[i].context.event = "accept", cq'[i].res >= 0
               PROVE  /\ cq'[i].res \in Fds /\ fds'[cq'[i].res] \in Clients
                      /\ \A y \in UnderWay' : ~HoldsTurn(y, fds'[cq'[i].res])
    BY DEF Accepted, HoldsTurn
  <2>1. CASE cq'[i].res = fd
    BY <1>2, <1>3, <1>4, <1>8, <2>1
  <2>2. CASE i \in DOMAIN cq /\ cq'[i] = cq[i]
    <3>1. /\ cq[i].res \in Fds /\ fds[cq[i].res] \in Clients
          /\ \A y \in UnderWay : ~HoldsTurn(y, fds[cq[i].res])
      BY <2>2 DEF IInv, WayInv, Accepted
    <3> QED  BY <1>2, <1>3, <1>4, <1>6, <2>2, <3>1
  <2> QED  BY <1>3, <2>1, <2>2
<1>14. Connected'
  BY <1>2, <1>4, <1>6, <1>7 DEF IInv, WayInv, Connected
<1>15. RightClient'
  BY <1>1 DEF IInv, WayInv, RightClient
<1> QED  BY <1>5, <1>9, <1>10, <1>11, <1>12, <1>13, <1>14, <1>15 DEF IInv, WayInv

\* Every other request is performed without a change of descriptors.
LEMMA PerformsStep ==
    ASSUME IInv, NEW x \in BagToSet(ring), NEW res \in {-1, 0, 1}, NEW got \in Kinds \cup {"nothing"},
           Completes(x, res, got), UNCHANGED <<fds, client>>,
           x.event = "accept" => res = -1,
           x.event = "read_file" /\ res > 0 => x.what.part = "body",
           input' \in [Clients -> Seq(Kinds)],
           stream' \in [Clients -> Seq(Answer \ {Nothing})],
           \A c \in Clients : \A i \in DOMAIN stream'[c] : stream'[c][i].client = c
    PROVE  IInv'
<1>1. /\ IsABag(ring)' /\ (BagToSet(ring) \subseteq Context)'
      /\ cq' \in Seq([context : Context, res : {-1, 0, 1} \cup Fds, got : Kinds \cup {"nothing"}])
      /\ UNCHANGED <<server, asked>>
      /\ UnderWay' = UnderWay
      /\ \A y : Alone(y) => Alone(y)'
      /\ \A i \in DOMAIN cq' :
            \/ cq'[i].context = x /\ cq'[i].res = res
            \/ i \in DOMAIN cq /\ cq'[i] = cq[i]
  BY CompletesType DEF IInv
<1>2. TypeOK'
  BY <1>1 DEF IInv, TypeOK
<1>3. RightClient'
  BY DEF RightClient
<1>4. \A i \in DOMAIN cq' :
         \/ i \in DOMAIN cq /\ cq'[i] = cq[i]
         \/ /\ cq'[i].context.event = "accept" => ~(cq'[i].res >= 0)
            /\ cq'[i].context.event = "read_file" /\ cq'[i].res > 0 => cq'[i].context.what.part = "body"
  BY <1>1
<1>5. WayInv'
  BY <1>1, <1>3, <1>4, Stays DEF IInv
<1> QED  BY <1>2, <1>5 DEF IInv

\* What is under way is typed and carries what it should.
LEMMA WithKernel ==
    ASSUME IInv, NEW x \in BagToSet(ring)
    PROVE  /\ x \in Context /\ Carries(x) /\ x.what \in Answer
           /\ input \in [Clients -> Seq(Kinds)]
           /\ stream \in [Clients -> Seq(Answer \ {Nothing})]
           /\ \A c \in Clients : \A i \in DOMAIN stream[c] : stream[c][i].client = c
BY DEF IInv, TypeOK, WayInv, Shaped, UnderWay, Context, RightClient

\* What the kernel does keeps the invariant.
LEMMA KernelStep ==
    ASSUME IInv, NEW x \in BagToSet(ring), Kernel(x)
    PROVE  IInv'
<1>1. ASSUME NEW c \in Clients, KernelAccepts(x, c) PROVE IInv'
  BY <1>1, AcceptsStep
<1>2. CASE KernelRefuses(x)
  BY <1>2, PerformsStep, WithKernel DEF KernelRefuses
<1>3. CASE KernelReads(x)
  <2>1. PICK res \in {-1, 0, 1}, got \in Kinds \cup {"nothing"} :
           Completes(x, res, got) /\ input' \in [Clients -> Seq(Kinds)]
    <3>1. ASSUME NEW c \in Clients, input[c] # <<>>, Completes(x, 1, Head(input[c])),
                 input' = [input EXCEPT ![c] = <<>>]
          PROVE  \E res \in {-1, 0, 1}, got \in Kinds \cup {"nothing"} :
                    Completes(x, res, got) /\ input' \in [Clients -> Seq(Kinds)]
      <4>1. Head(input[c]) \in Kinds /\ input' \in [Clients -> Seq(Kinds)]
        BY <3>1, WithKernel
      <4> QED  BY <3>1, <4>1
    <3>2. ASSUME NEW res \in {-1, 0, 1}, NEW got \in {"nothing", "other", "malformed"},
                 Completes(x, res, got), UNCHANGED input
          PROVE  \E r \in {-1, 0, 1}, g \in Kinds \cup {"nothing"} :
                    Completes(x, r, g) /\ input' \in [Clients -> Seq(Kinds)]
      <4>1. got \in Kinds \cup {"nothing"} /\ input' \in [Clients -> Seq(Kinds)]
        BY <3>2, WithKernel DEF Kinds
      <4> QED  BY <3>2, <4>1
    <3> QED  BY <1>3, <3>1, <3>2 DEF KernelReads
  <2>2. x.event = "read_sock" /\ UNCHANGED <<fds, client, stream>>
    BY <1>3 DEF KernelReads
  <2> QED  BY <2>1, <2>2, PerformsStep, WithKernel
<1>4. CASE KernelReadsFile(x)
  <2>1. /\ x.event = "read_file" /\ UNCHANGED <<fds, client, input, stream>>
        /\ Completes(x, IF x.what = Nothing THEN 0 ELSE 1, "nothing")
    BY <1>4 DEF KernelReadsFile
  <2>2. x.what = Nothing \/ x.what.part = "body"
    BY <2>1, WithKernel DEF Carries
  <2>3. PICK res \in {-1, 0, 1} : Completes(x, res, "nothing") /\ (res > 0 => x.what.part = "body")
    BY <2>1, <2>2
  <2> QED  BY <2>1, <2>3, PerformsStep, WithKernel
<1>5. CASE KernelWrites(x)
  <2>1. x.event = "write" /\ UNCHANGED <<fds, client, input>>
    BY <1>5 DEF KernelWrites
  <2>2. x.on \in Clients /\ x.what.client = x.on /\ x.what # Nothing
    BY <2>1, WithKernel DEF Carries, Nothing
  <2>3. PICK res \in {-1, 0, 1} :
           Completes(x, res, "nothing") /\ (UNCHANGED stream \/ stream' = [stream EXCEPT ![x.on] = Append(@, x.what)])
    BY <1>5, <2>2 DEF KernelWrites
  <2>4. CASE UNCHANGED stream
    <3>1. /\ stream' \in [Clients -> Seq(Answer \ {Nothing})]
          /\ \A c \in Clients : \A i \in DOMAIN stream'[c] : stream'[c][i].client = c
      BY <2>4, WithKernel
    <3> QED  BY <2>1, <2>3, <3>1, PerformsStep, WithKernel
  <2>5. CASE stream' = [stream EXCEPT ![x.on] = Append(@, x.what)]
    <3> DEFINE s == stream[x.on]
    <3>1. /\ s \in Seq(Answer \ {Nothing}) /\ x.what \in Answer \ {Nothing}
          /\ \A i \in DOMAIN s : s[i].client = x.on
      BY <2>2, WithKernel
    <3>2. /\ Append(s, x.what) \in Seq(Answer \ {Nothing})
          /\ \A i \in DOMAIN Append(s, x.what) : Append(s, x.what)[i].client = x.on
      <4> HIDE DEF s
      <4> QED  BY <2>2, <3>1
    <3>3. /\ stream' \in [Clients -> Seq(Answer \ {Nothing})]
          /\ \A c \in Clients : stream'[c] = IF c = x.on THEN Append(s, x.what) ELSE stream[c]
      BY <2>2, <2>5, <3>2, WithKernel
    <3>4. \A c \in Clients : \A i \in DOMAIN stream'[c] : stream'[c][i].client = c
      <4> HIDE DEF s
      <4> QED  BY <3>2, <3>3, WithKernel
    <3> QED  BY <2>1, <2>3, <3>3, <3>4, PerformsStep, WithKernel
  <2> QED  BY <2>3, <2>4, <2>5
<1> QED  BY <1>1, <1>2, <1>3, <1>4, <1>5 DEF Kernel

\* What the clients do keeps the invariant.
LEMMA ClientStep ==
    ASSUME IInv, NEW c \in Clients, Leaves(c) \/ \E kind \in Kinds : Asking(c, kind)
    PROVE  IInv'
<1>1. /\ UNCHANGED <<server, fds, ring, cq, stream>>
      /\ \A d \in Clients : client'[d] = "waiting" => client[d] = "waiting"
  BY DEF Leaves, Asking, IInv, TypeOK
<1>2. TypeOK'
  <2>1. /\ client' \in [Clients -> {"waiting", "here", "gone"}]
        /\ asked' \in [Clients -> Seq(Kinds)] /\ input' \in [Clients -> Seq(Kinds)]
    <3>1. /\ client \in [Clients -> {"waiting", "here", "gone"}]
          /\ asked \in [Clients -> Seq(Kinds)] /\ input \in [Clients -> Seq(Kinds)]
      BY DEF IInv, TypeOK
    <3>2. CASE Leaves(c)
      BY <3>1, <3>2 DEF Leaves
    <3>3. ASSUME NEW kind \in Kinds, Asking(c, kind)
          PROVE  /\ client' = client
                 /\ asked' \in [Clients -> Seq(Kinds)] /\ input' \in [Clients -> Seq(Kinds)]
      <4>1. /\ client' = client
            /\ asked' = [asked EXCEPT ![c] = Append(@, kind)]
            /\ input' = [input EXCEPT ![c] = Append(@, kind)]
        BY <3>3 DEF Asking
      <4>2. Append(asked[c], kind) \in Seq(Kinds) /\ Append(input[c], kind) \in Seq(Kinds)
        BY <3>1, AppendProperties
      <4> QED  BY <3>1, <4>1, <4>2
    <3> QED  BY <3>1, <3>2, <3>3
  <2> QED  BY <1>1, <2>1 DEF IInv, TypeOK
<1>3. UnderWay' = UnderWay /\ RightClient' /\ \A y : Alone(y) => Alone(y)'
  BY <1>1 DEF UnderWay, Alone, IInv, WayInv, RightClient
<1>4. WayInv'
  BY <1>1, <1>3, Stays DEF IInv
<1> QED  BY <1>2, <1>4 DEF IInv

-----------------------------------------------------------------------------
(* The theorems.                                                            *)

\* At the start one accept is under way and nothing is open.
LEMMA Initially == Init => IInv
<1> SUFFICES ASSUME Init PROVE IInv
  OBVIOUS
<1>1. ring = [e \in {AcceptContext} |-> 1] /\ cq = <<>> /\ DOMAIN cq = {}
  BY DEF Init, SetToBag
<1>2. DOMAIN ring = {AcceptContext} /\ UnderWay = {AcceptContext} /\ ring[AcceptContext] = 1
  BY <1>1 DEF UnderWay, BagToSet
<1>3. AcceptContext \in Context
  BY DEF AcceptContext, Context, Nothing, Answer
<1>4. TypeOK
  <2>1. IsABag(ring) /\ BagToSet(ring) \subseteq Context
    BY <1>1, <1>2, <1>3 DEF IsABag, BagToSet
  <2>2. /\ cq \in Seq([context : Context, res : {-1, 0, 1} \cup Fds, got : Kinds \cup {"nothing"}])
        /\ stream \in [Clients -> Seq(Answer \ {Nothing})]
        /\ asked \in [Clients -> Seq(Kinds)] /\ input \in [Clients -> Seq(Kinds)]
    BY <1>1 DEF Init
  <2>3. /\ server \in {"up", "exited"} /\ fds \in [Fds -> Clients \cup {File, Free}]
        /\ client \in [Clients -> {"waiting", "here", "gone"}]
    BY DEF Init
  <2> QED  BY <2>1, <2>2, <2>3, Zenon DEF TypeOK
<1>5. Carries(AcceptContext) /\ Alone(AcceptContext) /\ AcceptContext.event = "accept"
  BY <1>1, <1>2 DEF Carries, Alone, HoldsTurn, AcceptContext, Nothing
<1>6. WayInv
  BY <1>1, <1>2, <1>5, ConstantsAssumption
     DEF Init, WayInv, Shaped, OneHolder, FilesApart, FilesRead, BodyRead, Accepted, Connected, RightClient
<1> QED  BY <1>4, <1>6 DEF IInv

\* The invariant holds in every execution.
LEMMA Invariant ==
    ASSUME Clean
    PROVE  Spec => []IInv
<1>1. IInv /\ [Next]_vars => IInv'
  <2> SUFFICES ASSUME IInv, [Next]_vars PROVE IInv'
    OBVIOUS
  <2>1. CASE Server
    <3>1. CASE HandleFailure \/ OpenFails
      BY <3>1, ExitsStep DEF HandleFailure, OpenFails
    <3> QED  BY <2>1, <3>1, AcceptStep, EofStep, EmptyFileStep, ReadFileStep, WriteStep, StaticStep, GetStep
             DEF Server
  <2>2. ASSUME NEW x \in BagToSet(ring), Kernel(x) PROVE IInv'
    BY <2>2, KernelStep
  <2>3. ASSUME NEW c \in Clients, Leaves(c) \/ \E kind \in Kinds : Asking(c, kind) PROVE IInv'
    BY <2>3, ClientStep
  <2>4. CASE UNCHANGED vars
    <3>1. UnderWay' = UnderWay /\ RightClient' /\ \A y : Alone(y) => Alone(y)'
      BY <2>4 DEF vars, UnderWay, Alone, IInv, WayInv, RightClient
    <3>2. WayInv'
      BY <2>4, <3>1, Stays DEF vars, IInv
    <3>3. TypeOK'
      BY <2>4 DEF vars, IInv, TypeOK
    <3> QED  BY <3>2, <3>3 DEF IInv
  <2> QED  BY <2>1, <2>2, <2>3, <2>4 DEF Next
<1> QED  BY Initially, <1>1, PTL DEF Spec

\* "path_fd says that it is a body; after the body is written the client socket
\* is put into the read queue" (comment in server_loop), in memory that is zero:
\* a connection is read by one request at a time, and not while the body of its
\* last answer is under way - in whatever order the kernel performs requests,
\* whichever numbers are used again, whatever clients ask and whenever they go.
THEOREM OneAtATime ==
    ASSUME Clean
    PROVE  Spec => []OneTurn
<1>1. IInv => OneTurn
  <2> SUFFICES ASSUME IInv, NEW c \in Clients
               PROVE  /\ Holding(c) = {} \/ Done(c) = {}
                      /\ \A x, y \in Holding(c) : x = y /\ ring[x] = 1
                      /\ \A i, j \in Done(c) : i = j
    BY DEF OneTurn
  <2>1. /\ \A x \in Holding(c) : x \in UnderWay /\ HoldsTurn(x, c) /\ x \in DOMAIN ring
        /\ \A i \in Done(c) : i \in DOMAIN cq /\ cq[i].context \in UnderWay /\ HoldsTurn(cq[i].context, c)
    BY DEF Holding, Done, UnderWay, BagToSet
  <2>2. \A x \in UnderWay : HoldsTurn(x, c) => Alone(x)
    BY DEF IInv, WayInv, Shaped, HoldsTurn, Single
  <2>3. \A x, y \in UnderWay : HoldsTurn(x, c) /\ HoldsTurn(y, c) => x = y
    BY DEF IInv, WayInv, OneHolder
  <2>4. Holding(c) = {} \/ Done(c) = {}
    BY <2>1, <2>2, <2>3 DEF Alone
  <2>5. \A x, y \in Holding(c) : x = y /\ ring[x] = 1
    BY <2>1, <2>2, <2>3 DEF Alone
  <2>6. \A i, j \in Done(c) : i = j
    BY <2>1, <2>2, <2>3 DEF Alone
  <2> QED  BY <2>4, <2>5, <2>6
<1> QED  BY <1>1, Invariant, PTL

\* Numbers of descriptors that are closed are used for the next connection or
\* file while contexts still carry them; nevertheless what is written for a client
\* arrives at that client, and a file is open exactly while it is read, as long
\* as no header passes for a body.
THEOREM RightDescriptors ==
    ASSUME Clean
    PROVE  Spec => []DescriptorsRight
<1>1. IInv => DescriptorsRight
  <2> SUFFICES ASSUME IInv PROVE FilesAccounted
    BY DEF IInv, WayInv, DescriptorsRight
  <2>1. FilesAccounted <=> {fd \in Fds : fds[fd] = File} = {x.path : x \in {y \in UnderWay : y.event = "read_file"}}
    BY DEF FilesAccounted, UnderWay
  <2>2. \A fd \in Fds : fds[fd] = File => \E x \in UnderWay : x.event = "read_file" /\ x.path = fd
    BY DEF IInv, WayInv, FilesRead
  <2>3. \A x \in UnderWay : x.event = "read_file" => x.path \in Fds /\ fds[x.path] = File
    BY DEF IInv, WayInv, Shaped, Carries
  <2> QED  BY <2>1, <2>2, <2>3
<1> QED  BY <1>1, Invariant, PTL

=============================================================================
