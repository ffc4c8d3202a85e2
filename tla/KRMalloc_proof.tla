--------------------------- MODULE KRMalloc_proof ---------------------------
(***************************************************************************)
(* Proofs about the allocator, for every size of memory, all sequences of  *)
(* legal calls and whatever other users of sbrk() take: nothing a client   *)
(* holds is lost, overlapped or resized (Heap), the free list stays one    *)
(* ordered and fully joined circle (FreeListKept), and a search gives up   *)
(* only when nothing fits (SearchesAll).                                   *)
(***************************************************************************)
EXTENDS KRMalloc, WellFoundedInduction, TLAPS

-----------------------------------------------------------------------------
(* The circle of free blocks, as a set L of blocks with their links nx.     *)

\* From each block a link goes to the next one in the order of addresses, from
\* the last one to base.
Circle(L, nx) ==
    /\ L \subseteq Units /\ base \in L
    /\ \A b \in L :
          /\ nx[b] \in L
          /\ \/ b < nx[b] /\ \A c \in L : c <= b \/ nx[b] <= c
             \/ nx[b] = base /\ \A c \in L : c <= b

\* A set of numbers has a smallest one.
LEMMA Smallest ==
    ASSUME NEW T \in SUBSET Nat, T # {}
    PROVE  \E x \in T : \A y \in T : x <= y
<1>1. IsWellFoundedOn({e \in Nat \X Nat : e[1] < e[2]}, Nat)
  BY NatLessThanWellFounded DEF OpToRel
<1>2. \E x \in T : \A y \in T : ~(<<y, x>> \in {e \in Nat \X Nat : e[1] < e[2]})
  BY <1>1, WFMin
<1>3. PICK x \in T : \A y \in T : ~(<<y, x>> \in {e \in Nat \X Nat : e[1] < e[2]})
  BY <1>2
<1>4. ASSUME NEW y \in T PROVE x <= y
  <2>1. x \in Nat /\ y \in Nat
    OBVIOUS
  <2>2. ~(<<y, x>> \in {e \in Nat \X Nat : e[1] < e[2]})
    BY <1>3
  <2>3. ~(y < x)
    BY <2>1, <2>2
  <2> QED  BY <2>1, <2>3
<1> QED  BY <1>4

\* A set of units has a last one.
LEMMA Last ==
    ASSUME NEW S \in SUBSET Units, S # {}
    PROVE  \E m \in S : \A c \in S : c <= m
<1> DEFINE T == {Limit - c : c \in S}
<1>1. T \in SUBSET Nat /\ T # {}
  <2>1. \A c \in S : Limit - c \in Nat
    BY ConstantsAssumption DEF Units
  <2> QED  BY <2>1
<1>2. PICK x \in T : \A y \in T : x <= y
  <2> HIDE DEF T
  <2> QED  BY <1>1, Smallest
<1>3. PICK m \in S : x = Limit - m
  OBVIOUS
<1>4. ASSUME NEW c \in S PROVE c <= m
  <2>1. Limit - c \in T
    OBVIOUS
  <2>2. Limit - m <= Limit - c
    BY <1>2, <1>3, <2>1
  <2>3. c \in Int /\ m \in Int /\ Limit \in Int
    BY ConstantsAssumption DEF Units
  <2> QED  BY <2>2, <2>3
<1> QED  BY <1>4

\* A circle is what can be reached from any of its blocks.
LEMMA Reached ==
    ASSUME NEW L, NEW nx, Circle(L, nx), NEW f \in L,
           NEW S \in SUBSET Units, f \in S, \A b \in S : nx[b] \in S, S \subseteq L
    PROVE  S = L
<1>1. base \in S
  <2>1. PICK m \in S : \A c \in S : c <= m
    BY Last
  <2>2. /\ nx[m] \in S
        /\ \A c \in S : c \in Int
    BY <2>1 DEF Units
  <2>3. ~(m < nx[m])
    BY <2>1, <2>2
  <2> QED  BY <2>1, <2>2, <2>3 DEF Circle
<1>2. SUFFICES ASSUME NEW c \in L, c \notin S PROVE FALSE
  OBVIOUS
<1> DEFINE Below == {b \in S : b < c}
<1>3. base \in Below
  BY <1>1, <1>2 DEF Circle, Units, base
<1>4. PICK d \in Below : \A b \in Below : b <= d
  <2>1. Below \in SUBSET Units /\ Below # {}
    BY <1>3
  <2> HIDE DEF Below
  <2> QED  BY <2>1, Last
<1>5. /\ d \in S /\ d \in L /\ d < c /\ nx[d] \in S
      /\ \A u \in L : u \in Int
  BY DEF Units, Circle
<1>6. d < nx[d] /\ nx[d] <= c
  BY <1>5 DEF Circle
<1>7. nx[d] # c
  BY <1>2, <1>5
<1>8. nx[d] \in Below
  BY <1>5, <1>6, <1>7
<1> QED  BY <1>4, <1>5, <1>6, <1>8

\* So it is the free list.
LEMMA IsFreeList ==
    ASSUME NEW L, NEW nx, Circle(L, nx), NEW f \in L
    PROVE  {u \in Units : \A blocks \in SUBSET Units :
               (f \in blocks /\ \A b \in blocks : nx[b] \in blocks) => u \in blocks} = L
<1> DEFINE R == {u \in Units : \A blocks \in SUBSET Units :
                     (f \in blocks /\ \A b \in blocks : nx[b] \in blocks) => u \in blocks}
<1>1. L \in SUBSET Units /\ \A b \in L : nx[b] \in L
  BY DEF Circle
<1>2. R \subseteq L
  BY <1>1
<1>3. f \in R
  BY <1>1
<1>4. \A b \in R : nx[b] \in R
  BY <1>1, <1>2
<1>5. R \in SUBSET Units
  OBVIOUS
<1> HIDE DEF R
<1>6. R = L
  BY <1>2, <1>3, <1>4, <1>5, Reached
<1> QED  BY <1>6 DEF R

\* A block is linked in behind b, which is the last one below it.
LEMMA LinkedIn ==
    ASSUME NEW L, NEW nx, Circle(L, nx), NEW b \in L, NEW x \in Units,
           b < x, x < nx[b] \/ nx[b] = base,
           NEW nx2, nx2[x] = nx[b], nx2[b] = x, \A c \in L \ {b} : nx2[c] = nx[c]
    PROVE  x \notin L /\ Circle(L \cup {x}, nx2)
<1> USE DEF Units, base
<1>1. /\ L \subseteq Int /\ x \in Int /\ x > 0
      /\ \A c \in L : c \in Int /\ c >= 0 /\ nx[c] \in Int
  <2>1. x \in Int /\ b \in Int /\ x > 0 /\ \A c \in L : c \in Int /\ c >= 0
    BY ConstantsAssumption DEF Circle
  <2>2. \A c \in L : nx[c] \in L
    BY DEF Circle
  <2> QED  BY <2>1, <2>2
<1>2. \A c \in L : c <= b \/ (nx[b] # base /\ nx[b] <= c)
  BY <1>1 DEF Circle
<1>3. x \notin L
  BY <1>1, <1>2
<1>4. /\ nx2[x] \in L
      /\ \/ x < nx2[x] /\ \A c \in L \cup {x} : c <= x \/ nx2[x] <= c
         \/ nx2[x] = base /\ \A c \in L \cup {x} : c <= x
  BY <1>1, <1>2 DEF Circle
<1>5. ASSUME NEW c \in L, c # b
      PROVE  /\ nx2[c] \in L
             /\ \/ c < nx2[c] /\ \A d \in L \cup {x} : d <= c \/ nx2[c] <= d
                \/ nx2[c] = base /\ \A d \in L \cup {x} : d <= c
  <2>1. nx2[c] = nx[c] /\ nx[c] \in L
    BY <1>5 DEF Circle
  <2>2. CASE nx[c] = base /\ \A d \in L : d <= c
    <3>1. b <= c
      BY <2>2
    <3>2. nx[b] # base
      BY <1>1, <1>5, <3>1, <2>2 DEF Circle
    <3>3. nx[b] <= c
      BY <1>1, <1>5, <1>2, <3>1, <3>2
    <3>4. x < c
      BY <1>1, <1>5, <3>2, <3>3
    <3> QED  BY <2>1, <2>2, <3>4, <1>1
  <2>3. CASE c < nx[c] /\ \A d \in L : d <= c \/ nx[c] <= d
    <3>1. x <= c \/ nx[c] <= x
      <4>1. CASE b < c
        BY <4>1, <1>1, <1>2, <1>5 DEF Circle
      <4>2. CASE c < b
        BY <4>2, <2>3, <1>1, <1>5, <2>1
      <4> QED  BY <4>1, <4>2, <1>1, <1>5
    <3> QED  BY <2>1, <2>3, <3>1
  <2> QED  BY <2>1, <2>2, <2>3 DEF Circle
<1>6. /\ nx2[b] = x
      /\ b < nx2[b] /\ \A c \in L \cup {x} : c <= b \/ nx2[b] <= c
  BY <1>1, <1>2
<1>7. L \cup {x} \subseteq Units /\ base \in L \cup {x}
  BY DEF Circle
<1> QED  BY <1>3, <1>4, <1>5, <1>6, <1>7 DEF Circle

\* The block x behind b is unlinked.
LEMMA Unlinked ==
    ASSUME NEW L, NEW nx, Circle(L, nx), NEW b \in L, NEW x \in L, nx[b] = x, x # base,
           NEW nx2, nx2[b] = nx[x], \A c \in L \ {b} : nx2[c] = nx[c]
    PROVE  b \in L \ {x} /\ Circle(L \ {x}, nx2)
<1> USE DEF Units, base
<1>1. \A c \in L : c \in Int /\ c >= 0 /\ nx[c] \in Int
  <2>1. \A c \in L : c \in Int /\ c >= 0
    BY ConstantsAssumption DEF Circle
  <2>2. \A c \in L : nx[c] \in L
    BY DEF Circle
  <2> QED  BY <2>1, <2>2
<1>2. b < x /\ \A c \in L : c <= b \/ x <= c
  BY DEF Circle
<1>3. b \in L \ {x}
  BY <1>1, <1>2
<1>4. /\ nx2[b] \in L \ {x}
      /\ \/ b < nx2[b] /\ \A c \in L \ {x} : c <= b \/ nx2[b] <= c
         \/ nx2[b] = base /\ \A c \in L \ {x} : c <= b
  <2>1. nx[x] \in L /\ nx[x] # x
    BY <1>1 DEF Circle
  <2>2. CASE x < nx[x] /\ \A c \in L : c <= x \/ nx[x] <= c
    BY <1>1, <1>2, <2>1, <2>2
  <2>3. CASE nx[x] = base /\ \A c \in L : c <= x
    BY <1>1, <1>2, <2>1, <2>3
  <2> QED  BY <2>2, <2>3 DEF Circle
<1>5. ASSUME NEW c \in L \ {x}, c # b
      PROVE  /\ nx2[c] \in L \ {x}
             /\ \/ c < nx2[c] /\ \A d \in L \ {x} : d <= c \/ nx2[c] <= d
                \/ nx2[c] = base /\ \A d \in L \ {x} : d <= c
  <2>1. nx2[c] = nx[c] /\ nx[c] \in L
    BY <1>5 DEF Circle
  <2>2. nx[c] # x
    <3> SUFFICES ASSUME nx[c] = x PROVE FALSE
      OBVIOUS
    <3>1. c < x /\ \A d \in L : d <= c \/ x <= d
      BY DEF Circle
    <3> QED  BY <3>1, <1>1, <1>2, <1>5
  <2> QED  BY <2>1, <2>2 DEF Circle
<1>6. L \ {x} \subseteq Units /\ base \in L \ {x}
  BY DEF Circle
<1> QED  BY <1>3, <1>4, <1>5, <1>6 DEF Circle

-----------------------------------------------------------------------------
(* Blocks that tile memory: a set B of headers with the sizes sz.           *)

\* Each block ends where the next one begins, or before, and together they are m.
Tiled(B, sz, m) ==
    /\ \A b \in B : b \in Units \ {base} /\ sz[b] \in Nat \ {0}
    /\ \A b, c \in B : b < c => b + sz[b] <= c
    /\ \A u \in Units : u \in m <=> \E b \in B : b <= u /\ u < b + sz[b]

\* A block is cut at x.
LEMMA CutAt ==
    ASSUME NEW B, NEW sz, NEW m, Tiled(B, sz, m), NEW b \in B, NEW x \in Units,
           b < x, x < b + sz[b],
           NEW sz2, sz2[b] = x - b, sz2[x] = b + sz[b] - x, \A c \in B \ {b} : sz2[c] = sz[c]
    PROVE  x \notin B /\ Tiled(B \cup {x}, sz2, m)
<1> USE DEF Units, base
<1>1. /\ x \in Int /\ b \in Int /\ b > 0 /\ \A c \in B : c \in Int /\ sz[c] \in Int /\ c > 0 /\ sz[c] > 0
      /\ \A c, d \in B : c < d => c + sz[c] <= d
  BY ConstantsAssumption DEF Tiled
<1>2. x \notin B
  BY <1>1
<1>3. \A c \in B \cup {x} : c \in Units \ {base} /\ sz2[c] \in Nat \ {0}
  BY <1>1, <1>2 DEF Tiled
<1>4. ASSUME NEW c \in B \cup {x}, NEW d \in B \cup {x}, c < d PROVE c + sz2[c] <= d
  <2>1. CASE c = x
    BY <1>1, <1>2, <1>4, <2>1
  <2>2. CASE d = x
    BY <1>1, <1>2, <1>4, <2>2
  <2>3. CASE c \in B /\ d \in B
    BY <1>1, <1>4, <2>3
  <2> QED  BY <2>1, <2>2, <2>3
<1>5. ASSUME NEW u \in Units PROVE u \in m <=> \E c \in B \cup {x} : c <= u /\ u < c + sz2[c]
  <2>1. u \in Int
    OBVIOUS
  <2>2. ASSUME NEW c \in B, c <= u, u < c + sz[c] PROVE \E d \in B \cup {x} : d <= u /\ u < d + sz2[d]
    <3>1. CASE c = b /\ u < x
      BY <1>1, <2>1, <2>2, <3>1
    <3>2. CASE c = b /\ x <= u
      BY <1>1, <2>1, <2>2, <3>2
    <3>3. CASE c # b
      BY <2>2, <3>3
    <3> QED  BY <3>1, <3>2, <3>3, <2>1, <1>1
  <2>3. ASSUME NEW d \in B \cup {x}, d <= u, u < d + sz2[d] PROVE \E c \in B : c <= u /\ u < c + sz[c]
    <3>1. CASE d \in {b, x}
      BY <1>1, <2>1, <2>3, <3>1
    <3>2. CASE d \notin {b, x}
      BY <2>3, <3>2
    <3> QED  BY <3>1, <3>2
  <2> QED  BY <2>2, <2>3 DEF Tiled
<1> HIDE DEF Units, base
<1> QED  BY <1>2, <1>3, <1>4, <1>5 DEF Tiled

\* The block x is joined to b, which ends where it begins.
LEMMA JoinedTo ==
    ASSUME NEW B, NEW sz, NEW m, Tiled(B, sz, m), NEW b \in B, NEW x \in B, b + sz[b] = x,
           NEW sz2, sz2[b] = sz[b] + sz[x], \A c \in B \ {b, x} : sz2[c] = sz[c]
    PROVE  Tiled(B \ {x}, sz2, m)
<1> USE DEF Units, base
<1>1. /\ \A c \in B : c \in Int /\ sz[c] \in Int /\ c > 0 /\ sz[c] > 0
      /\ \A c, d \in B : c < d => c + sz[c] <= d
  BY ConstantsAssumption DEF Tiled
<1>2. b < x
  BY <1>1
<1>3. \A c \in B \ {x} : c \in Units \ {base} /\ sz2[c] \in Nat \ {0}
  <2>1. sz2[b] \in Nat \ {0}
    BY <1>1
  <2> QED  BY <2>1 DEF Tiled
<1>4. ASSUME NEW c \in B \ {x}, NEW d \in B \ {x}, c < d PROVE c + sz2[c] <= d
  <2>1. CASE c = b
    <3>1. b + sz[b] <= d
      BY <1>1, <1>4, <2>1
    <3>2. x < d
      BY <1>1, <3>1
    <3> QED  BY <1>1, <2>1, <3>2
  <2>2. CASE c # b
    BY <1>1, <1>4, <2>2
  <2> QED  BY <2>1, <2>2
<1>5. ASSUME NEW u \in Units PROVE u \in m <=> \E c \in B \ {x} : c <= u /\ u < c + sz2[c]
  <2>1. u \in Int
    OBVIOUS
  <2>2. ASSUME NEW c \in B, c <= u, u < c + sz[c] PROVE \E d \in B \ {x} : d <= u /\ u < d + sz2[d]
    <3>1. CASE c \in {b, x}
      BY <1>1, <1>2, <2>1, <2>2, <3>1
    <3>2. CASE c \notin {b, x}
      BY <2>2, <3>2
    <3> QED  BY <3>1, <3>2
  <2>3. ASSUME NEW d \in B \ {x}, d <= u, u < d + sz2[d] PROVE \E c \in B : c <= u /\ u < c + sz[c]
    <3>1. CASE d = b
      BY <1>1, <2>1, <2>3, <3>1
    <3>2. CASE d # b
      BY <2>3, <3>2
    <3> QED  BY <3>1, <3>2
  <2> QED  BY <2>2, <2>3 DEF Tiled
<1> HIDE DEF Units, base
<1> QED  BY <1>3, <1>4, <1>5 DEF Tiled

\* sbrk() gives a block above all others.
LEMMA GrownBy ==
    ASSUME NEW B, NEW sz, NEW m, Tiled(B, sz, m), NEW x \in Units \ {base}, NEW n \in Nat \ {0},
           \A c \in B : c + sz[c] <= x,
           NEW sz2, sz2[x] = n, \A c \in B : sz2[c] = sz[c]
    PROVE  x \notin B /\ Tiled(B \cup {x}, sz2, m \cup (x .. x + n - 1))
<1> USE DEF Units, base
<1>1. /\ x \in Int /\ n \in Int /\ n > 0
      /\ \A c \in B : c \in Int /\ sz[c] \in Int /\ c > 0 /\ sz[c] > 0
      /\ \A c, d \in B : c < d => c + sz[c] <= d
  BY ConstantsAssumption DEF Tiled
<1>2. x \notin B
  BY <1>1
<1>3. \A c \in B \cup {x} : c \in Units \ {base} /\ sz2[c] \in Nat \ {0}
  BY DEF Tiled
<1>4. ASSUME NEW c \in B \cup {x}, NEW d \in B \cup {x}, c < d PROVE c + sz2[c] <= d
  BY <1>1, <1>4
<1>5. ASSUME NEW u \in Units
      PROVE  u \in m \cup (x .. x + n - 1) <=> \E c \in B \cup {x} : c <= u /\ u < c + sz2[c]
  <2>1. u \in Int
    OBVIOUS
  <2>2. u \in x .. x + n - 1 <=> x <= u /\ u < x + sz2[x]
    BY <1>1, <2>1
  <2>3. u \in m <=> \E c \in B : c <= u /\ u < c + sz2[c]
    BY DEF Tiled
  <2> QED  BY <2>2, <2>3
<1> HIDE DEF Units, base
<1> QED  BY <1>2, <1>3, <1>4, <1>5 DEF Tiled

-----------------------------------------------------------------------------
(* The inductive invariant.                                                 *)

\* The block that my_free() has and that is neither held nor free.
Freed == IF pc = "place" THEN {bp} ELSE {}
Blocks == FreeBlocks \cup HeldBlocks \cup Freed

\* Nothing exists before the first call.
NothingYet == pc = "idle" /\ held = {} /\ mine = {}

\* The free list is a circle, no block of it ends where the next one begins, and
\* with what clients hold and what is being freed it is what sbrk() gave.
HeapInv ==
    /\ Circle(FreeList, next) /\ freep \in FreeList
    /\ size[base] = 0
    /\ \A b \in FreeBlocks : b + size[b] # next[b]
    /\ FreeBlocks \cap HeldBlocks = {} /\ Freed \cap (FreeBlocks \cup HeldBlocks) = {}
    /\ Tiled(Blocks, size, mine)
    /\ \A b \in Blocks : b + size[b] <= brk
    /\ HeldUntouched

\* The blocks a search has left behind: from freep to p in the order of the circle.
Passed(b) == IF freep < p THEN freep < b /\ b < p ELSE freep < b \/ b < p

\* The loops are at blocks of the list; what a search has passed did not fit.
CallInv ==
    /\ pc = "search" =>
          /\ prevp \in FreeList /\ p = next[prevp]
          /\ nunits > 0
          /\ \A b \in FreeList : Passed(b) => size[b] < nunits
    /\ pc = "place" => p \in FreeList /\ (caller = "my_morecore" => nunits > 0)

IInv == TypeOK /\ IF freep = NULL THEN NothingYet ELSE HeapInv /\ CallInv

-----------------------------------------------------------------------------
(* Every step keeps the invariant.                                          *)

\* What a circle through freep' is.
LEMMA ListIs ==
    ASSUME NEW L, Circle(L, next'), freep' \in L
    PROVE  FreeList' = L
BY IsFreeList DEF FreeList, Closed

\* Blocks, headers and their units are numbers.
LEMMA Numbers ==
    ASSUME TypeOK
    PROVE  /\ \A u \in Units : u \in Int /\ 0 <= u /\ u <= Limit /\ next[u] \in Units /\ size[u] \in Nat
           /\ Limit \in Int /\ brk \in Int
           /\ base \in Units /\ NULL \notin Units
<1>1. /\ \A u \in Units : u \in Int /\ 0 <= u /\ u <= Limit
      /\ Limit \in Int /\ base \in Units /\ NULL \notin Units
  BY ConstantsAssumption DEF Units, base, NULL
<1>2. next \in [Units -> Units] /\ size \in [Units -> Nat]
  BY DEF TypeOK
<1>3. brk \in Int
  BY ConstantsAssumption DEF TypeOK
<1> QED  BY <1>1, <1>2, <1>3

\* A search that begins one block on from f has passed nothing.
LEMMA NothingPassed ==
    ASSUME NEW L, NEW nx, Circle(L, nx), NEW f \in L, NEW b \in L
    PROVE  ~(IF f < nx[f] THEN f < b /\ b < nx[f] ELSE f < b \/ b < nx[f])
<1>1. /\ \A c \in L : c \in Int /\ 0 <= c
      /\ nx[f] \in L
  BY DEF Circle, Units
<1>2. CASE f < nx[f] /\ \A c \in L : c <= f \/ nx[f] <= c
  BY <1>1, <1>2
<1>3. CASE nx[f] = base /\ \A c \in L : c <= f
  BY <1>1, <1>3 DEF base
<1> QED  BY <1>2, <1>3 DEF Circle

\* A request is for at least the header.
LEMMA SomeUnits == ASSUME NEW nbytes \in Nat PROVE UnitsFor(nbytes) \in Nat \ {0}
<1>1. nbytes + HEADER - 1 \in Nat /\ HEADER \in Nat /\ HEADER > 0
  BY ConstantsAssumption
<1>2. \A n, h \in Nat : h > 0 => n \div h \in Nat
  OBVIOUS
<1> QED  BY <1>1, <1>2 DEF UnitsFor

\* malloc(): the search starts.
LEMMA MallocStep ==
    ASSUME IInv, NEW nbytes \in Requests, my_malloc(nbytes)
    PROVE  IInv'
<1>1. /\ TypeOK /\ pc = "idle" /\ pc' = "search" /\ nunits' \in Nat \ {0}
      /\ UNCHANGED <<brk, mine, held, bp, caller>>
      /\ prevp' = freep' /\ p' = next'[freep']
  BY SomeUnits, ConstantsAssumption DEF IInv, my_malloc, SearchStart
<1>2. /\ Circle(FreeList', next') /\ freep' \in FreeList' /\ freep' # NULL
      /\ next' \in [Units -> Units] /\ size' \in [Units -> Nat]
      /\ HeapInv'
  <2>1. CASE freep = NULL
    <3>1. /\ next' = [next EXCEPT ![base] = base] /\ size' = [size EXCEPT ![base] = 0] /\ freep' = base
          /\ held = {} /\ mine = {}
      BY <2>1 DEF my_malloc, IInv, NothingYet
    <3>2. next' \in [Units -> Units] /\ size' \in [Units -> Nat] /\ next'[base] = base /\ size'[base] = 0
      BY <1>1, <3>1, Numbers DEF TypeOK
    <3>3. Circle({base}, next')
      BY <3>2, Numbers, <1>1 DEF Circle, base
    <3>4. FreeList' = {base}
      BY <3>1, <3>3, ListIs
    <3>5. Blocks' = {} /\ FreeBlocks' = {} /\ HeldBlocks' = {} /\ Freed' = {}
      BY <1>1, <3>1, <3>4 DEF Blocks, FreeBlocks, HeldBlocks, Freed
    <3>6. HeapInv'
      BY <1>1, <3>1, <3>2, <3>3, <3>4, <3>5 DEF HeapInv, Tiled, HeldUntouched
    <3> QED  BY <1>1, <3>1, <3>2, <3>3, <3>4, <3>6, Numbers
  <2>2. CASE freep # NULL
    <3>1. HeapInv /\ UNCHANGED <<next, size, freep>>
      BY <2>2 DEF my_malloc, IInv
    <3>2. FreeList' = FreeList
      BY <3>1 DEF FreeList, Closed
    <3>3. /\ Blocks' = Blocks /\ FreeBlocks' = FreeBlocks /\ HeldBlocks' = HeldBlocks
          /\ Freed' = {} /\ Freed = {}
      BY <1>1, <3>2 DEF Blocks, FreeBlocks, HeldBlocks, Freed
    <3>4. HeapInv'
      BY <1>1, <3>1, <3>2, <3>3 DEF HeapInv, HeldUntouched
    <3> QED  BY <1>1, <2>2, <3>1, <3>2, <3>4 DEF HeapInv, TypeOK
  <2> QED  BY <2>1, <2>2
<1>3. TypeOK'
  BY <1>1, <1>2, Numbers DEF TypeOK, Circle
<1>4. CallInv'
  <2>1. \A b \in FreeList' : ~Passed(b)'
    BY <1>1, <1>2, NothingPassed DEF Passed
  <2> QED  BY <1>1, <1>2, <2>1 DEF CallInv
<1> QED  BY <1>2, <1>3, <1>4 DEF IInv

\* In a search the block at hand is on the list, and base never fits.
LEMMA AtBlock ==
    ASSUME IInv, pc \in {"search", "place"}
    PROVE  /\ freep # NULL /\ HeapInv /\ CallInv /\ TypeOK
           /\ p \in FreeList /\ p \in Units /\ next[p] \in FreeList
           /\ pc = "search" => prevp \in FreeList /\ next[prevp] = p
           /\ pc = "search" /\ Fits => p # base
BY DEF IInv, NothingYet, CallInv, HeapInv, Circle, Fits, TypeOK

\* The search goes on to the next block.
LEMMA SearchOnStep == ASSUME IInv, SearchOn PROVE IInv'
<1>1. /\ freep # NULL /\ HeapInv /\ CallInv /\ TypeOK
      /\ p \in FreeList /\ next[p] \in FreeList /\ size[p] < nunits /\ p # freep
      /\ prevp' = p /\ p' = next[p] /\ pc = "search"
      /\ UNCHANGED <<next, size, freep, brk, mine, held, pc, nunits, bp, caller>>
  <2>1. pc = "search" /\ ~Fits
    BY DEF SearchOn
  <2>2. p \in Units
    BY <2>1, AtBlock
  <2>3. size[p] < nunits
    BY <2>1, <2>2, AtBlock, Numbers DEF Fits, TypeOK
  <2> QED  BY <2>1, <2>3, AtBlock DEF SearchOn
<1>2. FreeList' = FreeList
  BY <1>1 DEF FreeList, Closed
<1>3. Blocks' = Blocks /\ FreeBlocks' = FreeBlocks /\ HeldBlocks' = HeldBlocks /\ Freed' = Freed
  BY <1>1, <1>2 DEF Blocks, FreeBlocks, HeldBlocks, Freed
<1>4. TypeOK'
  <2>1. p \in Units /\ next[p] \in Units
    BY <1>1 DEF TypeOK, HeapInv, Circle
  <2> QED  BY <1>1, <2>1 DEF TypeOK
<1>5. HeapInv'
  BY <1>1, <1>2, <1>3 DEF HeapInv, HeldUntouched
<1>6. ASSUME NEW b \in FreeList, Passed(b)' PROVE Passed(b) \/ b = p
  <2>1. /\ \A c \in FreeList : c \in Int /\ 0 <= c
        /\ freep \in FreeList
    BY <1>1, Numbers DEF HeapInv, Circle
  <2>2. IF freep < next[p] THEN freep < b /\ b < next[p] ELSE freep < b \/ b < next[p]
    BY <1>1, <1>6 DEF Passed
  <2>3. CASE p < next[p] /\ \A c \in FreeList : c <= p \/ next[p] <= c
    BY <1>1, <2>1, <2>2, <2>3 DEF Passed
  <2>4. CASE next[p] = base /\ \A c \in FreeList : c <= p
    BY <1>1, <2>1, <2>2, <2>4 DEF Passed, base
  <2> QED  BY <1>1, <2>3, <2>4 DEF HeapInv, Circle
<1>7. CallInv'
  BY <1>1, <1>2, <1>6 DEF CallInv
<1> QED  BY <1>1, <1>4, <1>5, <1>7 DEF IInv

\* sbrk() gives nothing.
LEMMA OutOfMemoryStep == ASSUME IInv, OutOfMemory PROVE IInv'
<1>1. /\ freep # NULL /\ HeapInv /\ TypeOK /\ pc = "search" /\ Return
      /\ UNCHANGED <<next, size, freep, brk, mine, held>>
  BY AtBlock DEF OutOfMemory, WholeCircle
<1>2. FreeList' = FreeList
  BY <1>1 DEF FreeList, Closed
<1>3. Blocks' = Blocks /\ FreeBlocks' = FreeBlocks /\ HeldBlocks' = HeldBlocks /\ Freed' = Freed
  BY <1>1, <1>2 DEF Blocks, FreeBlocks, HeldBlocks, Freed, Return
<1>4. TypeOK'
  BY <1>1, Numbers DEF TypeOK, Return, base
<1>5. HeapInv'
  BY <1>1, <1>2, <1>3 DEF HeapInv, HeldUntouched
<1>6. CallInv'
  BY <1>1 DEF CallInv, Return
<1> QED  BY <1>1, <1>4, <1>5, <1>6 DEF IInv

\* A free block ends before the next one begins.
LEMMA EndsBefore ==
    ASSUME TypeOK, HeapInv, NEW b \in FreeBlocks
    PROVE  /\ b \in Units /\ next[b] \in Units /\ b > 0 /\ size[b] > 0
           /\ next[b] # base => next[b] \in FreeBlocks /\ b + size[b] < next[b]
<1>1. /\ b \in FreeList /\ b # base /\ next[b] \in FreeList /\ b \in Blocks
      /\ b \in Units /\ next[b] \in Units
  BY DEF FreeBlocks, HeapInv, Circle, Blocks
<1>2. b \in Int /\ b > 0 /\ size[b] \in Int /\ size[b] > 0 /\ next[b] \in Int
  BY <1>1, Numbers DEF HeapInv, Tiled, base
<1>3. ASSUME next[b] # base PROVE next[b] \in FreeBlocks /\ b + size[b] < next[b]
  <2>1. next[b] \in FreeBlocks /\ next[b] \in Blocks
    BY <1>1, <1>3 DEF FreeBlocks, Blocks
  <2>2. b < next[b]
    BY <1>1, <1>3 DEF HeapInv, Circle
  <2>3. b + size[b] <= next[b]
    BY <1>1, <2>1, <2>2 DEF HeapInv, Tiled
  <2>4. b + size[b] # next[b]
    BY DEF HeapInv
  <2> QED  BY <1>2, <2>1, <2>3, <2>4
<1> QED  BY <1>1, <1>2, <1>3

\* A block that fits is taken from the list, or its end is.
LEMMA SearchFitsStep == ASSUME IInv, SearchFits PROVE IInv'
<1> DEFINE rest == size[p] - nunits
           block == p + rest
<1>1. /\ freep # NULL /\ HeapInv /\ CallInv /\ TypeOK /\ pc = "search"
      /\ p \in FreeBlocks /\ p \in FreeList /\ prevp \in FreeList /\ next[prevp] = p /\ p # base
      /\ p \in Units /\ prevp \in Units
      /\ nunits \in Nat /\ nunits > 0 /\ size[p] \in Nat /\ size[p] >= nunits
      /\ pc' = "idle" /\ freep' = prevp /\ held' = held \cup {<<block, nunits>>}
      /\ Return /\ UNCHANGED <<brk, mine>>
  BY AtBlock, Numbers DEF SearchFits, Fits, FreeBlocks, CallInv, TypeOK, Return
<1>2. /\ next' = (IF rest = 0 THEN [next EXCEPT ![prevp] = next[p]] ELSE next)
      /\ size' = (IF rest = 0 THEN size ELSE [size EXCEPT ![p] = rest, ![block] = nunits])
  BY DEF SearchFits
<1>3. /\ p \in Int /\ p > 0 /\ rest \in Int /\ rest >= 0 /\ block \in Int
      /\ p + size[p] <= brk /\ brk \in Int /\ brk <= Limit + 1 /\ Limit \in Int
  BY <1>1, EndsBefore, Numbers DEF HeapInv, Blocks, TypeOK
<1>4. block \in Units
  BY <1>1, <1>3 DEF Units
<1>5. /\ next' \in [Units -> Units] /\ size' \in [Units -> Nat]
      /\ HeldBlocks' = HeldBlocks \cup {block} /\ Freed = {} /\ Freed' = {}
  <2>1. next[p] \in Units /\ rest \in Nat
    BY <1>1, <1>3, Numbers
  <2>2. next' \in [Units -> Units] /\ size' \in [Units -> Nat]
    BY <1>1, <1>2, <1>4, <2>1 DEF TypeOK
  <2>3. HeldBlocks' = HeldBlocks \cup {block}
    <3>1. \A S, x, n : {h[1] : h \in S \cup {<<x, n>>}} = {h[1] : h \in S} \cup {x}
      <4> TAKE S, x, n
      <4>1. <<x, n>>[1] = x
        OBVIOUS
      <4> QED  BY <4>1
    <3>2. HeldBlocks' = {h[1] : h \in held'} /\ HeldBlocks = {h[1] : h \in held}
      BY DEF HeldBlocks
    <3> HIDE DEF block
    <3> QED  BY <1>1, <3>1, <3>2
  <2> QED  BY <1>1, <2>2, <2>3 DEF Freed
<1>6. TypeOK'
  <2>1. /\ held' \subseteq Units \X Nat
        /\ freep' \in Units
    BY <1>1, <1>4 DEF TypeOK
  <2> QED  BY <1>1, <1>5, <2>1, Numbers DEF TypeOK, Return, base
<1>7. HeapInv'
  <2>1. CASE rest = 0
    <3>1. /\ block = p /\ size[p] = nunits /\ size' = size
          /\ next'[prevp] = next[p] /\ \A c \in FreeList \ {prevp} : next'[c] = next[c]
      BY <1>1, <1>2, <1>3, <2>1 DEF HeapInv, Circle, TypeOK
    <3>2. prevp \in FreeList \ {p} /\ Circle(FreeList \ {p}, next')
      BY <1>1, <3>1, Unlinked DEF HeapInv
    <3>3. FreeList' = FreeList \ {p}
      BY <1>1, <3>2, ListIs
    <3>4. FreeBlocks' = FreeBlocks \ {p} /\ HeldBlocks' = HeldBlocks \cup {p} /\ Blocks' = Blocks
      BY <1>1, <1>5, <3>1, <3>3 DEF FreeBlocks, Blocks
    <3>5. ASSUME NEW b \in FreeBlocks' PROVE b + size'[b] # next'[b]
      <4>1. CASE b = prevp
        <5>1. b \in FreeBlocks /\ b + size[b] < p /\ b \in Int /\ size[b] \in Int /\ size[b] > 0 /\ b > 0
          BY <1>1, <3>4, <4>1, EndsBefore, Numbers
        <5>2. next[p] \in Int /\ (next[p] # base => p < next[p])
          <6>1. next[p] \in Int /\ size[p] \in Int /\ size[p] > 0
            BY <1>1, EndsBefore, Numbers
          <6>2. next[p] # base => p + size[p] < next[p]
            BY <1>1, EndsBefore
          <6> QED  BY <1>3, <6>1, <6>2
        <5> QED  BY <1>3, <3>1, <4>1, <5>1, <5>2 DEF base
      <4>2. CASE b # prevp
        BY <3>1, <3>4, <4>2, <1>1 DEF HeapInv, FreeBlocks
      <4> QED  BY <4>1, <4>2
    <3>6. HeldUntouched'
      BY <1>1, <3>1 DEF HeapInv, HeldUntouched
    <3>7. FreeBlocks' \cap HeldBlocks' = {}
      BY <1>1, <3>4 DEF HeapInv
    <3> QED  BY <1>1, <1>5, <3>1, <3>2, <3>3, <3>4, <3>5, <3>6, <3>7 DEF HeapInv
  <2>2. CASE rest # 0
    <3>1. /\ next' = next /\ p < block /\ block < p + size[p]
          /\ size'[p] = block - p /\ size'[block] = p + size[p] - block
          /\ \A c \in Units \ {p, block} : size'[c] = size[c]
      BY <1>1, <1>2, <1>3, <1>4, <2>2 DEF TypeOK
    <3>2. Blocks \subseteq Units /\ p \in Blocks /\ Tiled(Blocks, size, mine)
      BY <1>1 DEF HeapInv, Tiled, Blocks
    <3>3. block \notin Blocks /\ Tiled(Blocks \cup {block}, size', mine)
      <4>1. \A c \in Blocks \ {p} : c = block \/ size'[c] = size[c]
        BY <3>1, <3>2
      <4>2. block \notin Blocks
        BY <1>3, <3>1, <3>2, Numbers DEF Tiled, Units
      <4>3. \A c \in Blocks \ {p} : size'[c] = size[c]
        BY <4>1, <4>2
      <4> HIDE DEF block
      <4> QED  BY <1>4, <3>1, <3>2, <4>3, CutAt
    <3>4. FreeList' = FreeList /\ FreeBlocks' = FreeBlocks
      <4>1. FreeList' = FreeList
        BY <1>1, <3>1, ListIs DEF HeapInv
      <4> QED  BY <4>1 DEF FreeBlocks
    <3>5. Blocks' = Blocks \cup {block}
      BY <1>5, <3>4 DEF Blocks
    <3>6. ASSUME NEW b \in FreeBlocks' PROVE b + size'[b] # next'[b]
      <4>1. CASE b = p
        BY <1>1, <1>3, <3>1, <4>1, EndsBefore, Numbers DEF base
      <4>2. CASE b # p
        <5>1. b \in FreeBlocks /\ b \in Blocks /\ b # block /\ b \in Units
          BY <3>2, <3>3, <3>4 DEF Blocks
        <5> QED  BY <3>1, <4>2, <5>1, <1>1 DEF HeapInv
      <4> QED  BY <4>1, <4>2
    <3>7. HeldUntouched'
      <4>1. ASSUME NEW h \in held PROVE size'[h[1]] = h[2]
        <5>1. h[1] \in HeldBlocks /\ h[1] \in Blocks /\ h[1] # block /\ h[1] # p
          BY <1>1, <3>3 DEF HeldBlocks, Blocks, HeapInv
        <5> QED  BY <1>1, <3>1, <3>2, <5>1 DEF HeapInv, HeldUntouched
      <4>2. size'[block] = nunits
        BY <1>1, <1>3, <3>1
      <4> QED  BY <1>1, <4>1, <4>2 DEF HeldUntouched
    <3>8. FreeBlocks' \cap HeldBlocks' = {}
      BY <1>1, <1>5, <3>3, <3>4 DEF HeapInv, Blocks
    <3>9. \A b \in Blocks' : b + size'[b] <= brk'
      <4>1. ASSUME NEW b \in Blocks PROVE b + size'[b] <= brk
        BY <1>1, <1>3, <3>1, <3>2, <3>3 DEF HeapInv
      <4>2. block + size'[block] <= brk
        BY <1>1, <1>3, <3>1
      <4> QED  BY <1>1, <3>5, <4>1, <4>2
    <3>10. size'[base] = 0
      <4>1. base \notin {p, block}
        BY <1>1, <1>3, <3>1 DEF base
      <4> QED  BY <1>1, <3>1, <4>1, Numbers DEF HeapInv
    <3> QED
      BY <1>1, <1>5, <3>1, <3>3, <3>4, <3>5, <3>6, <3>7, <3>8, <3>9, <3>10 DEF HeapInv
  <2> QED  BY <2>1, <2>2
<1>8. CallInv' /\ freep' # NULL
  BY <1>1, Numbers DEF CallInv
<1> QED  BY <1>6, <1>7, <1>8 DEF IInv

\* free(): the search for the place starts.
LEMMA FreeStep ==
    ASSUME IInv, NEW block \in held, my_free(block)
    PROVE  IInv'
<1>1. /\ TypeOK /\ pc = "idle" /\ pc' = "place" /\ freep # NULL /\ HeapInv
      /\ held' = held \ {block} /\ bp' = block[1] /\ caller' = "client" /\ p' = freep
      /\ UNCHANGED <<next, size, freep, brk, mine, prevp, nunits>>
  BY DEF IInv, my_free, NothingYet
<1>2. FreeList' = FreeList /\ FreeBlocks' = FreeBlocks
  BY <1>1 DEF FreeList, Closed, FreeBlocks
<1>3. HeldBlocks' = HeldBlocks \ {bp'} /\ bp' \in HeldBlocks
  <2>1. \A h \in held : h = <<h[1], h[2]>>
    BY <1>1 DEF TypeOK
  <2>2. \A h \in held : h[1] = bp' => h = block
    BY <1>1, <2>1 DEF HeapInv, HeldUntouched
  <2> QED  BY <1>1, <2>2 DEF HeldBlocks
<1>4. Freed = {} /\ Freed' = {bp'} /\ Blocks' = Blocks
  BY <1>1, <1>2, <1>3 DEF Freed, Blocks
<1>5. TypeOK'
  <2>1. bp' \in Units /\ freep \in Units
    BY <1>1 DEF TypeOK
  <2> QED  BY <1>1, <2>1 DEF TypeOK
<1>6. HeapInv'
  BY <1>1, <1>2, <1>3, <1>4 DEF HeapInv, HeldUntouched
<1>7. CallInv'
  BY <1>1, <1>2 DEF CallInv, HeapInv
<1> QED  BY <1>1, <1>5, <1>6, <1>7 DEF IInv

\* The search for the place goes on.
LEMMA PlaceOnStep == ASSUME IInv, PlaceOn PROVE IInv'
<1>1. /\ freep # NULL /\ HeapInv /\ CallInv /\ TypeOK /\ pc = "place"
      /\ next[p] \in FreeList /\ p' = next[p]
      /\ UNCHANGED <<next, size, freep, brk, mine, held, pc, prevp, nunits, bp, caller>>
  BY AtBlock DEF PlaceOn
<1>2. FreeList' = FreeList
  BY <1>1 DEF FreeList, Closed
<1>3. Blocks' = Blocks /\ FreeBlocks' = FreeBlocks /\ HeldBlocks' = HeldBlocks /\ Freed' = Freed
  BY <1>1, <1>2 DEF Blocks, FreeBlocks, HeldBlocks, Freed
<1>4. TypeOK'
  BY <1>1 DEF TypeOK, HeapInv, Circle
<1>5. HeapInv'
  BY <1>1, <1>2, <1>3 DEF HeapInv, HeldUntouched
<1>6. CallInv'
  BY <1>1, <1>2 DEF CallInv
<1> QED  BY <1>1, <1>4, <1>5, <1>6 DEF IInv

\* The block that sbrk() gives lies above all others.
LEMMA MorecoreStep == ASSUME IInv, my_morecore PROVE IInv'
<1>1. /\ freep # NULL /\ HeapInv /\ CallInv /\ TypeOK /\ pc = "search"
      /\ caller' = "my_morecore" /\ p' = freep /\ pc' = "place"
      /\ UNCHANGED <<next, freep, held, prevp, nunits>>
      /\ nunits \in Nat /\ nunits > 0
  BY AtBlock DEF my_morecore, WholeCircle, CallInv, TypeOK
<1>2. PICK gap \in Gaps :
         /\ brk + gap + MoreUnits <= Limit + 1
         /\ brk' = brk + gap + MoreUnits
         /\ mine' = mine \cup (brk + gap .. brk + gap + MoreUnits - 1)
         /\ size' = [size EXCEPT ![brk + gap] = MoreUnits]
         /\ bp' = brk + gap
  BY DEF my_morecore
<1>3. /\ MoreUnits \in Nat \ {0} /\ gap \in Nat
      /\ brk \in Int /\ brk >= 1 /\ Limit \in Int
  BY <1>1, ConstantsAssumption DEF MoreUnits, Larger, TypeOK
<1>4. bp' \in Units \ {base} /\ brk' \in 1 .. Limit + 1 /\ brk <= bp' /\ bp' + MoreUnits = brk'
  BY <1>2, <1>3 DEF Units, base
<1>5. size'[bp'] = MoreUnits /\ \A u \in Units \ {bp'} : size'[u] = size[u]
  BY <1>1, <1>2, <1>4 DEF TypeOK
<1>6. /\ Tiled(Blocks, size, mine) /\ Freed = {} /\ Blocks \subseteq Units
      /\ \A b \in Blocks : b + size[b] <= brk /\ b + size[b] \in Int /\ b < brk
  BY <1>1, <1>3, Numbers DEF HeapInv, Tiled, Freed
<1>7. bp' \notin Blocks /\ \A b \in Blocks : b + size[b] <= bp'
  <2>1. bp' \in Int /\ \A b \in Blocks : b \in Int
    BY <1>4, <1>6 DEF Units
  <2> QED  BY <1>3, <1>4, <1>6, <2>1
<1>8. Tiled(Blocks \cup {bp'}, size', mine')
  <2> DEFINE x == bp'
             n == MoreUnits
  <2>1. \A c \in Blocks : c + size[c] <= x
    BY <1>7
  <2>2. \A c \in Blocks : size'[c] = size[c]
    BY <1>5, <1>6, <1>7
  <2>3. mine' = mine \cup (x .. x + n - 1) /\ size'[x] = n /\ x \in Units \ {base} /\ n \in Nat \ {0}
    BY <1>2, <1>3, <1>4, <1>5
  <2> HIDE DEF x, n
  <2>4. Tiled(Blocks \cup {x}, size', mine \cup (x .. x + n - 1))
    BY <1>6, <2>1, <2>2, <2>3, GrownBy
  <2> QED  BY <2>3, <2>4 DEF x
<1>9. FreeList' = FreeList /\ FreeBlocks' = FreeBlocks /\ HeldBlocks' = HeldBlocks /\ Freed' = {bp'}
  BY <1>1 DEF FreeList, Closed, FreeBlocks, HeldBlocks, Freed
<1>10. Blocks' = Blocks \cup {bp'}
  BY <1>6, <1>9 DEF Blocks
<1>11. TypeOK'
  <2>1. size' \in [Units -> Nat]
    BY <1>1, <1>2, <1>3 DEF TypeOK
  <2>2. mine' \subseteq Units
    <3>1. brk + gap .. brk + gap + MoreUnits - 1 \subseteq Units
      BY <1>2, <1>3 DEF Units
    <3> QED  BY <1>1, <1>2, <3>1 DEF TypeOK
  <2>3. freep \in Units
    BY <1>1 DEF TypeOK
  <2> QED  BY <1>1, <1>4, <2>1, <2>2, <2>3 DEF TypeOK
<1>12. HeapInv'
  <2>1. \A b \in FreeBlocks' : b + size'[b] # next'[b]
    <3>1. \A b \in FreeBlocks : b \in Blocks /\ b \in Units /\ b # bp'
      BY <1>6, <1>7 DEF Blocks
    <3> QED  BY <1>1, <1>5, <1>9, <3>1 DEF HeapInv
  <2>2. HeldUntouched'
    <3>1. \A h \in held : h[1] \in Blocks /\ h[1] \in Units /\ h[1] # bp'
      BY <1>6, <1>7 DEF Blocks, HeldBlocks
    <3> QED  BY <1>1, <1>5, <3>1 DEF HeapInv, HeldUntouched
  <2>3. \A b \in Blocks' : b + size'[b] <= brk'
    <3>1. ASSUME NEW b \in Blocks PROVE b + size'[b] <= brk'
      <4>1. size'[b] = size[b] /\ b + size[b] <= brk /\ b + size[b] \in Int
        BY <1>5, <1>6, <1>7
      <4>2. brk <= brk' /\ brk' \in Int
        BY <1>2, <1>3
      <4> QED  BY <1>3, <4>1, <4>2
    <3>2. bp' + size'[bp'] <= brk'
      BY <1>3, <1>4, <1>5
    <3> QED  BY <1>10, <3>1, <3>2
  <2>4. size'[base] = 0
    BY <1>1, <1>4, <1>5, Numbers DEF HeapInv
  <2>5. FreeBlocks' \cap HeldBlocks' = {} /\ Freed' \cap (FreeBlocks' \cup HeldBlocks') = {}
    BY <1>1, <1>7, <1>9 DEF HeapInv, Blocks
  <2> QED  BY <1>1, <1>8, <1>9, <1>10, <2>1, <2>2, <2>3, <2>4, <2>5 DEF HeapInv
<1>13. CallInv'
  BY <1>1, <1>9 DEF CallInv, HeapInv
<1> QED  BY <1>1, <1>11, <1>12, <1>13 DEF IInv

\* The place my_free() finds: bp belongs between p and the next block, if any.
LEMMA Place ==
    ASSUME IInv, PlaceHere
    PROVE  /\ freep # NULL /\ HeapInv /\ CallInv /\ TypeOK /\ pc = "place"
           /\ p \in FreeList /\ p \in Units /\ p < bp /\ (bp < next[p] \/ next[p] = base)
           /\ next[p] \in FreeList /\ next[p] \in Units
           /\ next[p] # p \/ p = base
           /\ bp \in Blocks /\ bp \in Units /\ bp # base /\ bp \notin FreeList /\ bp \notin HeldBlocks
           /\ size[bp] \in Nat /\ size[bp] > 0
           /\ JoinsUpper => next[p] \in FreeBlocks
           /\ JoinsLower => p \in FreeBlocks
<1>1. /\ freep # NULL /\ HeapInv /\ CallInv /\ TypeOK /\ pc = "place"
      /\ p \in FreeList /\ p \in Units /\ next[p] \in FreeList /\ next[p] \in Units
  BY AtBlock, Numbers DEF PlaceHere
<1>2. /\ bp \in Blocks /\ bp \in Units /\ bp # base /\ bp \notin FreeList /\ bp \notin HeldBlocks
      /\ size[bp] \in Nat /\ size[bp] > 0
  <2>1. bp \in Freed /\ bp \in Blocks
    BY <1>1 DEF Freed, Blocks
  <2>2. bp \in Units \ {base} /\ size[bp] \in Nat \ {0}
    BY <1>1, <2>1 DEF HeapInv, Tiled
  <2> QED  BY <1>1, <2>1, <2>2 DEF HeapInv, FreeBlocks
<1>3. p \in Int /\ next[p] \in Int /\ bp \in Int /\ bp > 0 /\ p >= 0 /\ next[p] >= 0
  BY <1>1, <1>2, Numbers DEF base
<1>4. p < next[p] \/ next[p] = base
  BY <1>1 DEF HeapInv, Circle
<1>5. p < bp /\ (bp < next[p] \/ next[p] = base)
  <2>1. BelongsHere
    BY DEF PlaceHere
  <2> QED  BY <1>3, <1>4, <2>1 DEF BelongsHere, base
<1>6. JoinsUpper => next[p] \in FreeBlocks
  <2>1. JoinsUpper => next[p] # base
    BY <1>2, <1>3 DEF JoinsUpper, base
  <2> QED  BY <1>1, <2>1 DEF FreeBlocks
<1>7. JoinsLower => p \in FreeBlocks
  <2>1. JoinsLower => p # base
    BY <1>1, <1>3 DEF JoinsLower, base, HeapInv
  <2> QED  BY <1>1, <2>1 DEF FreeBlocks
<1>8. next[p] # p \/ p = base
  BY <1>3, <1>4
<1> QED  BY <1>1, <1>2, <1>5, <1>6, <1>7, <1>8

\* What becomes of list and blocks there: bp is linked in, then joined with the
\* upper neighbour, then with the lower one.
WithUpper(S) == IF JoinsUpper THEN S \ {next[p]} ELSE S
WithLower(S) == IF JoinsLower THEN S \ {bp} ELSE S

\* What free() does to the list and the sizes: the block goes between two
\* neighbours, and joins those it touches.
LEMMA PlaceLinks ==
    ASSUME IInv, PlaceHere
    PROVE  /\ next' \in [Units -> Units] /\ size' \in [Units -> Nat]
           /\ freep' = p /\ FreeList' = WithLower(WithUpper(FreeList \cup {bp}))
           /\ p \in FreeList' /\ Circle(FreeList', next')
           /\ Tiled(WithLower(WithUpper(Blocks)), size', mine)
           /\ next'[IF JoinsLower THEN p ELSE bp] = (IF JoinsUpper THEN next[next[p]] ELSE next[p])
           /\ size'[IF JoinsLower THEN p ELSE bp] =
                 (IF JoinsLower THEN size[p] ELSE 0) + size[bp]
                     + (IF JoinsUpper THEN size[next[p]] ELSE 0)
           /\ ~JoinsLower => next'[p] = bp /\ size'[p] = size[p]
           /\ \A u \in Units \ {p, bp} : next'[u] = next[u] /\ size'[u] = size[u]
<1> DEFINE n == next[p]
           bnext == IF JoinsUpper THEN next[n] ELSE n
           bsize == IF JoinsUpper THEN size[bp] + size[n] ELSE size[bp]
           F1 == FreeList \cup {bp}
           F2 == WithUpper(F1)
           F3 == WithLower(F2)
           nx1 == [next EXCEPT ![bp] = n, ![p] = bp]
           nx2 == [next EXCEPT ![bp] = bnext, ![p] = bp]
           sz2 == [size EXCEPT ![bp] = bsize]
<1>1. /\ HeapInv /\ TypeOK
      /\ p \in FreeList /\ p \in Units /\ p < bp /\ (bp < n \/ n = base)
      /\ n \in FreeList /\ n \in Units
      /\ n # p \/ p = base
      /\ bp \in Blocks /\ bp \in Units /\ bp # base /\ bp \notin FreeList
      /\ JoinsUpper => n \in FreeBlocks
      /\ JoinsLower => p \in FreeBlocks
  BY Place
<1>2. /\ next' = (IF JoinsLower THEN [next EXCEPT ![bp] = bnext, ![p] = bnext] ELSE nx2)
      /\ size' = (IF JoinsLower THEN [size EXCEPT ![bp] = bsize, ![p] = @ + bsize] ELSE sz2)
      /\ freep' = p
  BY DEF PlaceHere
<1>3. /\ p # bp /\ n # bp /\ n \in FreeList /\ n \in Units
      /\ bnext \in Units /\ bsize \in Nat /\ size[p] \in Nat
  <2>1. n \in FreeList /\ n \in Units
    BY Place
  <2>2. size[p] \in Nat /\ size[bp] \in Nat /\ size[n] \in Nat /\ next[n] \in Units
    BY <1>1, <2>1, Numbers
  <2> QED  BY <1>1, <2>1, <2>2
<1>4. /\ next' \in [Units -> Units] /\ size' \in [Units -> Nat]
      /\ ~JoinsLower => next'[p] = bp /\ next'[bp] = bnext /\ size'[p] = size[p] /\ size'[bp] = bsize
      /\ JoinsLower => next'[p] = bnext /\ size'[p] = size[p] + bsize
      /\ \A u \in Units \ {p, bp} : next'[u] = next[u] /\ size'[u] = size[u]
  <2>1. next \in [Units -> Units] /\ size \in [Units -> Nat] /\ p \in Units /\ bp \in Units
    BY <1>1 DEF TypeOK
  <2> HIDE DEF bnext, bsize
  <2>2. size[p] + bsize \in Nat
    BY <1>3
  <2>3. CASE JoinsLower
    BY <1>2, <1>3, <2>1, <2>2, <2>3
  <2>4. CASE ~JoinsLower
    BY <1>2, <1>3, <2>1, <2>2, <2>4
  <2> QED  BY <2>3, <2>4
<1>5. Circle(F1, nx1)
  <2>1. /\ next \in [Units -> Units] /\ FreeList \subseteq Units
    BY <1>1 DEF TypeOK, HeapInv, Circle
  <2>2. nx1[bp] = n /\ nx1[p] = bp /\ \A c \in FreeList \ {p} : nx1[c] = next[c]
    BY <1>1, <1>3, <2>1
  <2>3. Circle(FreeList, next) /\ p \in FreeList /\ bp \in Units /\ p < bp /\ (bp < next[p] \/ next[p] = base)
    BY <1>1 DEF HeapInv
  <2>4. nx1[bp] = next[p] /\ nx1[p] = bp /\ \A c \in FreeList \ {p} : nx1[c] = next[c]
    BY <2>2
  <2> HIDE DEF nx1, n
  <2> QED  BY <2>3, <2>4, LinkedIn
<1>6. p \in F2 /\ bp \in F2 /\ Circle(F2, nx2)
  <2>1. /\ next \in [Units -> Units] /\ FreeList \subseteq Units
    BY <1>1 DEF TypeOK, HeapInv, Circle
  <2>2. CASE JoinsUpper
    <3>1. n # base /\ n # p
      BY <1>1, <2>2 DEF FreeBlocks
    <3>2. /\ nx1[bp] = n /\ nx1[n] = next[n] /\ nx2[bp] = nx1[n]
          /\ \A c \in F1 \ {bp} : nx2[c] = nx1[c]
      BY <1>1, <1>3, <2>1, <2>2, <3>1
    <3>3. F2 = F1 \ {n}
      BY <2>2 DEF WithUpper
    <3> HIDE DEF nx1, nx2
    <3>4. bp \in F1 \ {n} /\ Circle(F1 \ {n}, nx2)
      <4> DEFINE f == F1
                 x == n
      <4>1. bp \in f /\ x \in f /\ x # base
        BY <1>3, <3>1
      <4> HIDE DEF f, x
      <4>2. Circle(f, nx1) /\ nx1[bp] = x /\ nx2[bp] = nx1[x] /\ \A c \in f \ {bp} : nx2[c] = nx1[c]
        BY <1>5, <3>2 DEF f, x
      <4>3. bp \in f \ {x} /\ Circle(f \ {x}, nx2)
        BY <4>1, <4>2, Unlinked
      <4> QED  BY <4>3 DEF f, x
    <3> QED  BY <1>1, <3>1, <3>3, <3>4
  <2>3. CASE ~JoinsUpper
    <3>1. F2 = F1 /\ nx2 = nx1
      BY <2>3 DEF WithUpper
    <3> QED  BY <1>1, <1>5, <3>1
  <2> QED  BY <2>2, <2>3
<1>7. p \in F3 /\ Circle(F3, next')
  <2>1. /\ next \in [Units -> Units] /\ F2 \subseteq Units
    BY <1>1, <1>6 DEF TypeOK, Circle
  <2>2. CASE JoinsLower
    <3>1. nx2[p] = bp /\ next'[p] = nx2[bp] /\ \A c \in F2 \ {p} : c = bp \/ next'[c] = nx2[c]
      BY <1>1, <1>2, <1>3, <2>1, <2>2
    <3>2. next'[bp] = nx2[bp]
      BY <1>1, <1>2, <1>3, <2>1, <2>2
    <3>3. F3 = F2 \ {bp}
      BY <2>2 DEF WithLower
    <3> HIDE DEF nx2, F2
    <3>4. Circle(F2 \ {bp}, next')
      BY <1>1, <1>6, <3>1, <3>2, Unlinked
    <3> QED  BY <1>3, <1>6, <3>3, <3>4
  <2>3. CASE ~JoinsLower
    BY <1>2, <1>6, <2>3 DEF WithLower
  <2> QED  BY <2>2, <2>3
<1>8. FreeList' = F3
  <2> HIDE DEF F3
  <2> QED  BY <1>2, <1>7, ListIs
<1>9. /\ Tiled(WithUpper(Blocks), sz2, mine) /\ bp \in WithUpper(Blocks)
      /\ JoinsLower => p \in WithUpper(Blocks)
  <2>1. Tiled(Blocks, size, mine) /\ Blocks \subseteq Units /\ size \in [Units -> Nat]
    BY <1>1 DEF HeapInv, TypeOK, Tiled
  <2>2. CASE JoinsUpper
    <3>1. /\ n \in Blocks /\ n # base /\ n # p
      BY <1>1, <2>2 DEF Blocks, FreeBlocks
    <3>2. bp + size[bp] = n /\ sz2[bp] = size[bp] + size[n] /\ \A c \in Blocks \ {bp, n} : sz2[c] = size[c]
      BY <1>1, <2>1, <2>2 DEF JoinsUpper
    <3> HIDE DEF sz2
    <3>3. Tiled(Blocks \ {n}, sz2, mine)
      <4> DEFINE x == n
      <4>1. x \in Blocks /\ bp + size[bp] = x /\ sz2[bp] = size[bp] + size[x]
            /\ \A c \in Blocks \ {bp, x} : sz2[c] = size[c]
        BY <3>1, <3>2
      <4> HIDE DEF x
      <4>2. Tiled(Blocks \ {x}, sz2, mine)
        BY <1>1, <2>1, <4>1, JoinedTo
      <4> QED  BY <4>2 DEF x
    <3> QED  BY <1>1, <1>3, <2>2, <3>1, <3>3 DEF WithUpper, Blocks
  <2>3. CASE ~JoinsUpper
    <3>1. sz2 = size
      BY <1>1, <2>1, <2>3
    <3> QED  BY <1>1, <2>1, <2>3, <3>1 DEF WithUpper, Blocks
  <2> QED  BY <2>2, <2>3
<1>10. Tiled(WithLower(WithUpper(Blocks)), size', mine)
  <2>1. WithUpper(Blocks) \subseteq Units /\ size \in [Units -> Nat]
    BY <1>1, <1>9 DEF Tiled, TypeOK
  <2>2. CASE JoinsLower
    <3>1. /\ p + sz2[p] = bp /\ sz2[bp] = bsize
          /\ size'[p] = sz2[p] + sz2[bp] /\ \A c \in WithUpper(Blocks) \ {p, bp} : size'[c] = sz2[c]
      BY <1>1, <1>3, <1>4, <2>1, <2>2 DEF JoinsLower
    <3> HIDE DEF sz2
    <3>2. Tiled(WithUpper(Blocks) \ {bp}, size', mine)
      <4> DEFINE B == WithUpper(Blocks)
      <4>1. Tiled(B, sz2, mine) /\ p \in B /\ bp \in B /\ \A c \in B \ {p, bp} : size'[c] = sz2[c]
        BY <1>9, <2>2, <3>1
      <4> HIDE DEF B
      <4>2. Tiled(B \ {bp}, size', mine)
        BY <3>1, <4>1, JoinedTo
      <4> QED  BY <4>2 DEF B
    <3> QED  BY <2>2, <3>2 DEF WithLower
  <2>3. CASE ~JoinsLower
    BY <1>2, <1>9, <2>3 DEF WithLower
  <2> QED  BY <2>2, <2>3
<1>11. size'[IF JoinsLower THEN p ELSE bp] =
         (IF JoinsLower THEN size[p] ELSE 0) + size[bp] + (IF JoinsUpper THEN size[next[p]] ELSE 0)
  <2>1. size[p] \in Int /\ size[bp] \in Int /\ size[n] \in Int
    BY <1>1, <1>3, Numbers
  <2> QED  BY <1>4, <2>1
<1> QED  BY <1>2, <1>4, <1>7, <1>8, <1>10, <1>11

\* The block is linked in, and joined with those it touches.
LEMMA PlaceHereStep == ASSUME IInv, PlaceHere PROVE IInv'
<1> DEFINE n == next[p]
           c == IF JoinsLower THEN p ELSE bp
<1>1. /\ freep # NULL /\ HeapInv /\ CallInv /\ TypeOK /\ pc = "place"
      /\ p \in FreeList /\ p \in Units /\ p < bp /\ (bp < n \/ n = base)
      /\ n # p \/ p = base
      /\ bp \in Blocks /\ bp \in Units /\ bp # base /\ bp \notin FreeList /\ bp \notin HeldBlocks
      /\ size[bp] \in Nat /\ size[bp] > 0
      /\ JoinsUpper => n \in FreeBlocks
      /\ JoinsLower => p \in FreeBlocks
  BY Place
<1>2. n \in FreeList /\ n \in Units
  BY Place
<1>3. /\ next' \in [Units -> Units] /\ size' \in [Units -> Nat]
      /\ freep' = p /\ p \in FreeList' /\ Circle(FreeList', next')
      /\ FreeList' = WithLower(WithUpper(FreeList \cup {bp}))
      /\ Tiled(WithLower(WithUpper(Blocks)), size', mine)
  BY PlaceLinks
<1>4. /\ next'[c] = (IF JoinsUpper THEN next[n] ELSE n)
      /\ size'[c] = (IF JoinsLower THEN size[p] ELSE 0) + size[bp] + (IF JoinsUpper THEN size[n] ELSE 0)
      /\ ~JoinsLower => next'[p] = bp /\ size'[p] = size[p]
      /\ \A u \in Units \ {p, bp} : next'[u] = next[u] /\ size'[u] = size[u]
  BY PlaceLinks
<1>5. /\ UNCHANGED <<brk, mine, held>>
      /\ IF caller = "my_morecore"
         THEN prevp' = p /\ p' = next'[p] /\ pc' = "search" /\ UNCHANGED <<nunits, bp, caller>>
         ELSE Return
  BY DEF PlaceHere
<1>6. /\ pc' # "place" /\ Freed' = {} /\ HeldBlocks' = HeldBlocks
      /\ FreeBlocks' = WithLower(WithUpper(FreeBlocks \cup {bp}))
      /\ Blocks' = WithLower(WithUpper(Blocks))
  <2>1. pc' # "place"
    BY <1>5 DEF Return
  <2>2. Freed' = {} /\ HeldBlocks' = HeldBlocks
    BY <1>5, <2>1 DEF Freed, HeldBlocks
  <2>3. FreeBlocks' = WithLower(WithUpper(FreeBlocks \cup {bp}))
    BY <1>1, <1>3 DEF FreeBlocks, WithLower, WithUpper
  <2>4. Blocks = FreeBlocks \cup {bp} \cup HeldBlocks
    BY <1>1 DEF Blocks, Freed
  <2>5. JoinsUpper => n \notin HeldBlocks
    BY <1>1 DEF HeapInv
  <2>6. Blocks' = FreeBlocks' \cup HeldBlocks
    BY <2>2 DEF Blocks
  <2> QED  BY <1>1, <2>1, <2>2, <2>3, <2>4, <2>5, <2>6 DEF WithLower, WithUpper
<1>7. TypeOK'
  <2>1. p \in Units /\ next'[p] \in Units
    BY <1>1, <1>3
  <2> QED  BY <1>1, <1>3, <1>5, <2>1, Numbers DEF TypeOK, Return, base
<1>8. /\ p \in Int /\ bp \in Int /\ n \in Int /\ size[p] \in Int /\ size[bp] \in Int /\ size[n] \in Int
      /\ next[n] \in Int /\ p >= 0 /\ bp > 0
  BY <1>1, <1>2, Numbers DEF base
<1>9. ASSUME NEW b \in FreeBlocks' PROVE b + size'[b] # next'[b]
  <2>1. b \in FreeBlocks \cup {bp} /\ (JoinsUpper => b # n) /\ (JoinsLower => b # bp)
    BY <1>6 DEF WithLower, WithUpper
  <2>2. CASE b = c
    <3>1. b + size'[b] = bp + size[bp] + (IF JoinsUpper THEN size[n] ELSE 0)
      BY <1>4, <1>8, <2>2 DEF JoinsLower
    <3>2. CASE JoinsUpper
      BY <1>1, <1>4, <1>8, <2>2, <3>1, <3>2 DEF JoinsUpper, HeapInv
    <3>3. CASE ~JoinsUpper
      BY <1>4, <1>8, <2>2, <3>1, <3>3 DEF JoinsUpper
    <3> QED  BY <3>2, <3>3
  <2>3. CASE b # c /\ b = p
    BY <1>4, <2>3 DEF JoinsLower
  <2>4. CASE b # c /\ b # p
    <3>1. b \in FreeBlocks /\ b \in Units \ {p, bp}
      BY <1>1, <2>1, <2>4 DEF FreeBlocks, HeapInv, Circle
    <3> QED  BY <1>1, <1>4, <3>1 DEF HeapInv
  <2> QED  BY <2>2, <2>3, <2>4
<1>10. ASSUME NEW h \in held PROVE size'[h[1]] = h[2]
  <2>1. h[1] \in HeldBlocks /\ h[1] \in Units
    BY <1>1 DEF HeldBlocks, HeapInv, Tiled, Blocks
  <2>2. h[1] # bp
    BY <1>1, <2>1
  <2>3. CASE h[1] # p
    BY <1>1, <1>4, <2>1, <2>2, <2>3 DEF HeapInv, HeldUntouched
  <2>4. CASE h[1] = p
    <3>1. p = base
      BY <1>1, <2>1, <2>4 DEF HeapInv, FreeBlocks
    <3> QED  BY <1>1, <2>1, <2>4, <3>1 DEF HeapInv, Tiled, Blocks
  <2> QED  BY <2>3, <2>4
<1>11. ASSUME NEW b \in Blocks' PROVE b + size'[b] <= brk
  <2>1. /\ b \in Blocks /\ (JoinsUpper => b # n) /\ (JoinsLower => b # bp)
        /\ bp + size[bp] <= brk /\ b \in Units /\ brk \in Int
        /\ JoinsUpper => n + size[n] <= brk
    BY <1>1, <1>6, Numbers DEF WithLower, WithUpper, HeapInv, Blocks, Tiled
  <2>2. CASE b = c
    <3>1. b + size'[b] = bp + size[bp] + (IF JoinsUpper THEN size[n] ELSE 0)
      BY <1>4, <1>8, <2>2 DEF JoinsLower
    <3> QED  BY <1>8, <2>1, <3>1 DEF JoinsUpper
  <2>3. CASE b # c
    <3>1. size'[b] = size[b]
      BY <1>1, <1>4, <2>1, <2>3
    <3> QED  BY <1>1, <2>1, <3>1 DEF HeapInv
  <2> QED  BY <2>2, <2>3
<1>12. size'[base] = 0
  <2>1. base \in Units /\ base # bp /\ size[base] = 0
    BY <1>1, Numbers DEF HeapInv
  <2>2. CASE base = p
    BY <1>1, <1>4, <2>1, <2>2 DEF FreeBlocks
  <2>3. CASE base # p
    BY <1>4, <2>1, <2>3
  <2> QED  BY <2>2, <2>3
<1>13. HeapInv'
  <2>1. FreeBlocks' \cap HeldBlocks' = {} /\ Freed' \cap (FreeBlocks' \cup HeldBlocks') = {}
    BY <1>1, <1>6 DEF HeapInv, WithLower, WithUpper
  <2>2. HeldUntouched'
    BY <1>5, <1>10 DEF HeldUntouched
  <2> QED  BY <1>3, <1>5, <1>6, <1>9, <1>11, <1>12, <2>1, <2>2 DEF HeapInv
<1>14. CallInv'
  <2>1. CASE caller = "my_morecore"
    <3>1. /\ pc' = "search" /\ prevp' = p /\ p' = next'[p] /\ nunits' = nunits /\ nunits > 0 /\ freep' = p
      BY <1>1, <1>3, <1>5, <2>1 DEF CallInv
    <3>2. \A b \in FreeList' : ~Passed(b)'
      BY <1>3, <3>1, NothingPassed DEF Passed
    <3> QED  BY <1>3, <3>1, <3>2 DEF CallInv
  <2>2. CASE caller # "my_morecore"
    BY <1>5, <2>2 DEF CallInv, Return
  <2> QED  BY <2>1, <2>2
<1> QED  BY <1>1, <1>3, <1>7, <1>13, <1>14, Numbers DEF IInv

-----------------------------------------------------------------------------
(* The theorems.                                                            *)

\* At the start there is neither a list nor a block.
LEMMA Initially == Init => IInv
BY ConstantsAssumption DEF Init, IInv, TypeOK, NothingYet, Units, NULL, base

\* The invariant holds in every execution.
LEMMA Invariant == Spec => []IInv
<1>1. IInv /\ [Next]_vars => IInv'
  <2> SUFFICES ASSUME IInv, [Next]_vars PROVE IInv'
    OBVIOUS
  <2>1. ASSUME NEW nbytes \in Requests, my_malloc(nbytes) PROVE IInv'
    BY <2>1, MallocStep
  <2>2. ASSUME NEW block \in held, my_free(block) PROVE IInv'
    BY <2>2, FreeStep
  <2>3. ASSUME Allocator PROVE IInv'
    BY <2>3, SearchFitsStep, SearchOnStep, MorecoreStep, OutOfMemoryStep, PlaceOnStep, PlaceHereStep
       DEF Allocator
  <2>4. CASE UNCHANGED vars
    <3>1. FreeList' = FreeList
      BY <2>4 DEF vars, FreeList, Closed
    <3>2. Blocks' = Blocks /\ FreeBlocks' = FreeBlocks /\ HeldBlocks' = HeldBlocks /\ Freed' = Freed
      BY <2>4, <3>1 DEF vars, Blocks, FreeBlocks, HeldBlocks, Freed
    <3>3. TypeOK' = TypeOK /\ NothingYet' = NothingYet /\ CallInv' = CallInv
      BY <2>4, <3>1 DEF vars, TypeOK, NothingYet, CallInv, Passed
    <3>4. HeapInv => HeapInv'
      BY <2>4, <3>1, <3>2 DEF vars, HeapInv, HeldUntouched
    <3> QED  BY <2>4, <3>3, <3>4 DEF IInv, vars
  <2> QED  BY <2>1, <2>2, <2>3, <2>4 DEF Next, Client
<1> QED  BY Initially, <1>1, PTL DEF Spec

\* my_malloc() and my_free(): whatever blocks clients take and give back, in any
\* order, every unit got from sbrk() is in one free block or in one block that is
\* held, and nobody writes into the header of a block that is held.
THEOREM Heap == Spec => []HeapSound
<1>1. IInv => HeapSound
  <2> SUFFICES ASSUME IInv, AtRest PROVE Tiling
    BY DEF IInv, HeapSound, Tiling, NothingYet, HeapInv, HeldUntouched
  <2>1. HeapInv /\ TypeOK /\ Blocks = FreeBlocks \cup HeldBlocks
    BY DEF IInv, AtRest, Blocks, Freed
  <2>2. /\ \A b \in Blocks : b \in Int /\ b > 0 /\ size[b] \in Int /\ size[b] > 0 /\ b + size[b] <= brk
        /\ \A a, b \in Blocks : a < b => a + size[a] <= b
        /\ \A u \in Units : u \in mine <=> \E b \in Blocks : b <= u /\ u < b + size[b]
        /\ brk \in Int /\ brk <= Limit + 1 /\ Limit \in Int
    <3>1. \A b \in Blocks : b \in Int /\ b > 0 /\ size[b] \in Int /\ size[b] > 0
      BY <2>1, Numbers DEF HeapInv, Tiled, base
    <3>2. brk \in Int /\ brk <= Limit + 1 /\ Limit \in Int
      BY <2>1, Numbers DEF TypeOK
    <3> QED  BY <2>1, <3>1, <3>2 DEF HeapInv, Tiled
  <2>3. ASSUME NEW a \in Blocks, NEW b \in Blocks, a # b PROVE Extent(a) \cap Extent(b) = {}
    BY <2>2, <2>3 DEF Extent
  <2>4. ASSUME NEW u PROVE u \in mine <=> \E b \in Blocks : u \in Extent(b)
    <3>1. \A b \in Blocks : u \in Extent(b) <=> u \in Int /\ b <= u /\ u < b + size[b]
      BY <2>2 DEF Extent
    <3>2. \A b \in Blocks : u \in Extent(b) => u \in Units
      BY <2>2, <3>1 DEF Units
    <3>3. u \in mine => u \in Units /\ u \in Int
      BY <2>1 DEF TypeOK, Units
    <3> QED  BY <2>2, <3>1, <3>2, <3>3
  <2>5. UNION {Extent(b) : b \in Blocks} = mine
    BY <2>4
  <2> QED  BY <2>1, <2>3, <2>5 DEF Tiling, HeapInv
<1> QED  BY <1>1, Invariant, PTL

\* my_free() joins a block with the neighbours it touches and no others: the list
\* turns once, at base, and no two of its blocks touch.
THEOREM FreeListKept == Spec => []FreeListSound
<1>1. IInv => FreeListSound
  <2> SUFFICES ASSUME IInv, AtRest PROVE OneCircle /\ Joined
    BY DEF FreeListSound, OneCircle, Joined
  <2>1. HeapInv /\ TypeOK
    BY DEF IInv, AtRest
  <2>2. OneCircle
    BY <2>1 DEF OneCircle, HeapInv, Circle
  <2>3. ASSUME NEW b \in FreeBlocks PROVE b + size[b] \notin FreeBlocks
    <3> DEFINE e == b + size[b]
    <3>1. SUFFICES ASSUME e \in FreeBlocks PROVE FALSE
      OBVIOUS
    <3>2. /\ b \in Int /\ size[b] \in Int /\ size[b] > 0 /\ e \in FreeList /\ b \in FreeList
          /\ next[b] \in Int
          /\ next[b] # base => e < next[b]
      BY <2>1, <3>1, EndsBefore, Numbers DEF FreeBlocks
    <3>3. b < e
      BY <3>2
    <3>4. e \in Int
      BY <3>2
    <3> HIDE DEF e
    <3>5. \/ b < next[b] /\ (e <= b \/ next[b] <= e)
          \/ next[b] = base /\ e <= b
      BY <2>1, <3>2 DEF HeapInv, Circle
    <3>6. 0 <= b /\ (next[b] = base => next[b] = 0)
      BY <2>1, <3>2, EndsBefore DEF base
    <3> QED  BY <3>2, <3>3, <3>4, <3>5, <3>6
  <2> QED  BY <2>2, <2>3 DEF Joined
<1> QED  BY <1>1, Invariant, PTL

\* my_malloc() asks the system for memory, or returns NULL, only when no block of
\* the list is large enough, although the search begins anywhere in the circle and
\* freep moves.
THEOREM SearchesAll == Spec => []GivesUpLate
<1>1. IInv => GivesUpLate
  <2> SUFFICES ASSUME IInv, WholeCircle, NEW b \in FreeList PROVE size[b] < nunits
    BY DEF GivesUpLate
  <2>1. HeapInv /\ CallInv /\ TypeOK /\ p \in Units /\ p = freep /\ ~Fits /\ pc = "search"
    BY AtBlock DEF WholeCircle
  <2>2. b \in Int /\ p \in Int /\ size[p] \in Int /\ nunits \in Int
    BY <2>1, Numbers DEF HeapInv, Circle, TypeOK
  <2>3. CASE b = p
    BY <2>1, <2>2, <2>3 DEF Fits
  <2>4. CASE b # p
    <3>1. Passed(b)
      BY <2>1, <2>2, <2>4 DEF Passed
    <3> QED  BY <2>1, <3>1 DEF CallInv
  <2> QED  BY <2>3, <2>4
<1> QED  BY <1>1, Invariant, PTL

=============================================================================
