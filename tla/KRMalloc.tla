------------------------------ MODULE KRMalloc ------------------------------
(***************************************************************************)
(* The storage allocator of system_call/malloc_method.c (the same file is  *)
(* basic/22_malloc.c): a circular list of free blocks in address order,    *)
(* searched from where the last search ended.  Memory is counted in units  *)
(* of one Header; a pointer is the number of its unit and base is 0, below *)
(* everything sbrk() returns.  Each turn of a loop is one step.            *)
(***************************************************************************)
EXTENDS Integers, FiniteSets

CONSTANTS
    HEADER,    \* sizeof(Header)
    NALLOC,    \* least number of units asked from the system
    Limit,     \* bound: the last unit sbrk() can give
    Requests,  \* byte counts the client asks for
    Gaps       \* units other users of sbrk() take before a call of ours

ASSUME ConstantsAssumption ==
    /\ HEADER \in Nat \ {0}
    /\ NALLOC \in Nat \ {0}
    /\ Limit \in Nat
    /\ Requests \subseteq Nat
    /\ Gaps \subseteq Nat

VARIABLES
    next,    \* s.next_block_header of the header at each unit
    size,    \* s.size of the header at each unit
    freep,   \* static freep; NULL before the first call
    brk,     \* the next unit sbrk() gives
    mine,    \* the units sbrk() gave to the allocator
    held,    \* <<header, units>> of each block the client holds
    pc,      \* "idle", "search": in my_malloc(), "place": in my_free()
    p,       \* local p of the loop
    prevp,   \* local prevp of my_malloc()
    nunits,  \* local nunits of my_malloc()
    bp,      \* local bp of my_free()
    caller   \* who called my_free(): "client" or "my_morecore"

vars == <<next, size, freep, brk, mine, held, pc, p, prevp, nunits, bp, caller>>
locals == <<p, prevp, nunits, bp, caller>>

\* A call returns; its locals are gone.
Return == pc' = "idle" /\ p' = 0 /\ prevp' = 0 /\ nunits' = 0 /\ bp' = 0 /\ caller' = "client"

base == 0
NULL == -1
Units == 0 .. Limit

Larger(a, b) == IF a > b THEN a ELSE b

-----------------------------------------------------------------------------
\* The units a request needs: its bytes rounded up, and one for the header.
UnitsFor(nbytes) == (nbytes + HEADER - 1) \div HEADER + 1

\* Mutant: the search begins at the block where it must end.
SearchStartAtEnd == freep'

\* The search begins one block on from freep.
SearchStart == next'[freep']

\* my_malloc() begins; the first call makes the empty list.
my_malloc(nbytes) ==
    /\ pc = "idle"
    /\ nunits' = UnitsFor(nbytes)
    /\ IF freep = NULL
       THEN /\ next' = [next EXCEPT ![base] = base]
            /\ size' = [size EXCEPT ![base] = 0]
            /\ freep' = base
       ELSE UNCHANGED <<next, size, freep>>
    /\ prevp' = freep'
    /\ p' = SearchStart
    /\ pc' = "search"
    /\ UNCHANGED <<brk, mine, held, bp, caller>>

\* Mutant: a block one unit too small is taken.
AlmostFits == size[p] + 1 >= nunits

Fits == size[p] >= nunits

\* The block p fits: unlinked whole, or cut at its end.
SearchFits ==
    /\ pc = "search"
    /\ Fits
    /\ LET rest == size[p] - nunits
           block == p + rest IN
       /\ next' = IF rest = 0 THEN [next EXCEPT ![prevp] = next[p]] ELSE next
       /\ size' = IF rest = 0 THEN size ELSE [size EXCEPT ![p] = rest, ![block] = nunits]
       /\ held' = held \cup {<<block, nunits>>}
    /\ freep' = prevp
    /\ Return
    /\ UNCHANGED <<brk, mine>>

\* It does not: on to the next block.
SearchOn ==
    /\ pc = "search"
    /\ ~Fits
    /\ p # freep
    /\ prevp' = p
    /\ p' = next[p]
    /\ UNCHANGED <<next, size, freep, brk, mine, held, pc, nunits, bp, caller>>

WholeCircle == pc = "search" /\ ~Fits /\ p = freep

MoreUnits == Larger(nunits, NALLOC)

\* Once round: my_morecore() gets a new block and gives it to my_free().
my_morecore ==
    /\ WholeCircle
    /\ \E gap \in Gaps :
         LET up == brk + gap IN
         /\ up + MoreUnits <= Limit + 1
         /\ brk' = up + MoreUnits
         /\ mine' = mine \cup (up .. up + MoreUnits - 1)
         /\ size' = [size EXCEPT ![up] = MoreUnits]
         /\ bp' = up
    /\ caller' = "my_morecore"
    /\ p' = freep
    /\ pc' = "place"
    /\ UNCHANGED <<next, freep, held, prevp, nunits>>

\* sbrk() fails: my_malloc() returns NULL.
OutOfMemory ==
    /\ WholeCircle
    /\ brk + MoreUnits > Limit + 1
    /\ Return
    /\ UNCHANGED <<next, size, freep, brk, mine, held>>

-----------------------------------------------------------------------------
\* my_free() begins, with a block the client holds.
my_free(block) ==
    /\ pc = "idle"
    /\ block \in held
    /\ held' = held \ {block}
    /\ bp' = block[1]
    /\ caller' = "client"
    /\ p' = freep
    /\ pc' = "place"
    /\ UNCHANGED <<next, size, freep, brk, mine, prevp, nunits>>

\* Mutant: the turn of the circle is not seen.
BetweenOnly == p < bp /\ bp < next[p]

\* Mutant: a free block goes to the front of the list.
AnyPlace == TRUE

\* The block belongs after p: between p and its successor, or at one end of
\* the list, where the addresses turn.
BelongsHere ==
    \/ p < bp /\ bp < next[p]
    \/ p >= next[p] /\ (p < bp \/ bp < next[p])

PlaceOn ==
    /\ pc = "place"
    /\ ~BelongsHere
    /\ p' = next[p]
    /\ UNCHANGED <<next, size, freep, brk, mine, held, pc, prevp, nunits, bp, caller>>

\* Mutant: the lower neighbour is joined without a look at its end.
JoinsLowerAlways == p # base

\* Mutant: the upper neighbour is never joined.
JoinsUpperNever == FALSE

\* The neighbours that touch the block.
JoinsUpper == bp + size[bp] = next[p]
JoinsLower == p + size[p] = bp

\* The block is linked in, joined with the neighbours that touch it; a call
\* from my_morecore() goes back into the search, one block on from freep.
PlaceHere ==
    /\ pc = "place"
    /\ BelongsHere
    /\ LET bsize == IF JoinsUpper THEN size[bp] + size[next[p]] ELSE size[bp]
           bnext == IF JoinsUpper THEN next[next[p]] ELSE next[p] IN
       IF JoinsLower
       THEN /\ next' = [next EXCEPT ![bp] = bnext, ![p] = bnext]
            /\ size' = [size EXCEPT ![bp] = bsize, ![p] = @ + bsize]
       ELSE /\ next' = [next EXCEPT ![bp] = bnext, ![p] = bp]
            /\ size' = [size EXCEPT ![bp] = bsize]
    /\ freep' = p
    /\ IF caller = "my_morecore"
       THEN /\ prevp' = p
            /\ p' = next'[p]
            /\ pc' = "search"
            /\ UNCHANGED <<nunits, bp, caller>>
       ELSE Return
    /\ UNCHANGED <<brk, mine, held>>

-----------------------------------------------------------------------------
Init ==
    /\ next = [u \in Units |-> 0]
    /\ size = [u \in Units |-> 0]
    /\ freep = NULL
    /\ brk = 1
    /\ mine = {}
    /\ held = {}
    /\ pc = "idle"
    /\ p = 0
    /\ prevp = 0
    /\ nunits = 0
    /\ bp = 0
    /\ caller = "client"

Client ==
    \/ \E nbytes \in Requests : my_malloc(nbytes)
    \/ \E block \in held : my_free(block)

Allocator ==
    \/ SearchFits \/ SearchOn \/ my_morecore \/ OutOfMemory \/ PlaceOn \/ PlaceHere

Next == Client \/ Allocator

\* A call that has begun is executed.
Spec == Init /\ [][Next]_vars /\ WF_vars(Allocator)

-----------------------------------------------------------------------------
(* Properties.                                                              *)

\* The blocks on the free list: the least set that has freep and, with a block,
\* the next one.
Closed(blocks) == freep \in blocks /\ \A b \in blocks : next[b] \in blocks
FreeList == {u \in Units : \A blocks \in SUBSET Units : Closed(blocks) => u \in blocks}
FreeBlocks == FreeList \ {base}
HeldBlocks == {block[1] : block \in held}
Extent(b) == b .. b + size[b] - 1

\* Between calls, once the list exists.
AtRest == pc = "idle" /\ freep # NULL

\* Every variable has its type.
TypeOK ==
    /\ next \in [Units -> Units]
    /\ size \in [Units -> Nat]
    /\ freep \in Units \cup {NULL}
    /\ brk \in 1 .. Limit + 1
    /\ mine \subseteq Units
    /\ held \subseteq Units \X Nat
    /\ pc \in {"idle", "search", "place"}
    /\ p \in Units /\ prevp \in Units /\ bp \in Units
    /\ nunits \in Nat
    /\ caller \in {"client", "my_morecore"}

\* After any sequence of legal calls the memory got from the system is tiled
\* by the free blocks and the blocks that clients hold: no two overlap, and
\* no unit is lost by cutting or joining.
Tiling ==
    AtRest =>
        LET blocks == FreeBlocks \cup HeldBlocks IN
        /\ FreeBlocks \cap HeldBlocks = {}
        /\ \A a, b \in blocks : a # b => Extent(a) \cap Extent(b) = {}
        /\ UNION {Extent(b) : b \in blocks} = mine

\* A client's block keeps the size it was given while the client holds it.
HeldUntouched == \A block \in held : size[block[1]] = block[2]

\* Nothing a client holds is lost, overlapped or resized by any sequence of
\* legal calls.
HeapSound == TypeOK /\ Tiling /\ HeldUntouched

\* The free list is one circle in the order of addresses that turns once, at
\* base, whichever neighbours my_free() joined.
OneCircle ==
    AtRest =>
        /\ base \in FreeList
        /\ \A b \in FreeList : b < next[b] \/ next[b] = base

\* No two free blocks touch: memory that was cut is joined again when freed.
Joined == AtRest => \A b \in FreeBlocks : b + size[b] \notin FreeBlocks

\* The list stays ordered and fully joined, so the search and the place of a
\* freed block are right.
FreeListSound == OneCircle /\ Joined

\* The search gives up only after the whole list: then no free block fits, no
\* matter where the search began and that my_morecore() changed freep.
GivesUpLate == WholeCircle => \A b \in FreeList : size[b] < nunits

\* Every call returns: neither loop runs round the circle for ever.
CallsReturn == pc # "idle" ~> pc = "idle"

=============================================================================
