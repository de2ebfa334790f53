-------------------------------- MODULE Heap --------------------------------
(***************************************************************************)
(* The kernel heap, src/src/mm/heap.c: a doubly linked list of blocks in   *)
(* one pool, first fit, splitting, and immediate coalescing on free.       *)
(*                                                                         *)
(* Nothing preempts the allocator (no interrupt handler allocates), so a   *)
(* call is one step; realloc, calloc and heap_self_test call malloc and    *)
(* free, so the calls are functions from heap to heap.  A heap is a record *)
(* of the header fields, each a function of the header's address relative  *)
(* to heap_base:                                                           *)
(*   magic      the addresses that hold HEAP_MAGIC.  Headers absorbed by a *)
(*              neighbour stay in memory, with their old fields, until     *)
(*              something is written over them                             *)
(*   size, is_free, next, prev   the fields                                *)
(*   blocks     the headers on the list; first fit follows the list from   *)
(*              heap_head, which visits them by increasing address: the    *)
(*              blocks tile the pool and next leads to the block where one *)
(*              ends (ListSound)                                           *)
(*   used, count   heap_used_bytes and heap_alloc_count                    *)
(***************************************************************************)
EXTENDS Integers, Sequences, FiniteSets

CONSTANTS HEAP_TOTAL,       \* 16 MiB in the program
          HEAP_ALIGNMENT,   \* 16
          HDR,              \* sizeof(struct heap_block), 48: the struct is
                            \* padded to a multiple of the alignment
          SIZE_MOD,         \* 2^64: size_t arithmetic wraps there
          Requests,         \* the sizes clients ask for
          TestSizes         \* the five sizes of heap_self_test

ASSUME HeapAssumption ==
    /\ HEAP_ALIGNMENT \in Nat \ {0}
    /\ HDR \in Nat \ {0} /\ HDR % HEAP_ALIGNMENT = 0
    /\ HEAP_TOTAL \in Nat /\ HEAP_TOTAL > HDR
    /\ SIZE_MOD \in Nat /\ SIZE_MOD > HEAP_TOTAL
    /\ Requests \subseteq 0..(SIZE_MOD - 1)

VARIABLES heap,
          live,      \* payload pointers clients hold, with the size asked for
          stale,     \* payload pointers clients have freed at some time
          mangled    \* history: old headers of which a client that has the
                     \* memory now has overwritten is_free and not the magic

vars == <<heap, live, stale, mangled>>

NULL  == -1
Addrs == 0..(HEAP_TOTAL - 1)

(* ((sz) + (A - 1)) & ~(A - 1) on size_t                                   *)
HEAP_ALIGN(n) ==
    LET x == (n + HEAP_ALIGNMENT - 1) % SIZE_MOD
    IN  x - (x % HEAP_ALIGNMENT)

(* The byte behind a block.                                                *)
End(h, a) == a + HDR + h.size[a]

heap_init ==
    [magic   |-> {0},
     size    |-> [a \in Addrs |-> IF a = 0 THEN HEAP_TOTAL - HDR ELSE 0],
     is_free |-> [a \in Addrs |-> TRUE],
     next    |-> [a \in Addrs |-> NULL],
     prev    |-> [a \in Addrs |-> NULL],
     blocks  |-> {0},
     used    |-> 0,
     count   |-> 0]

-----------------------------------------------------------------------------
(* malloc                                                                  *)

Fits(h, n) == {a \in h.blocks : h.is_free[a] /\ h.size[a] >= n}

(* The first block of the list that fits.                                  *)
FirstFit(h, n) == CHOOSE a \in Fits(h, n) : \A b \in Fits(h, n) : a <= b

(* Cut a free block behind n bytes of payload.  Writing the new header     *)
(* destroys the magic word of any old header it overlaps.                  *)
Split(h, a, n) ==
    LET rem == a + HDR + n
    IN  [h EXCEPT
           !.magic = (@ \ ((rem + 1)..(rem + HDR - 1))) \cup {rem},
           !.size = [@ EXCEPT ![rem] = h.size[a] - n - HDR, ![a] = n],
           !.is_free = [@ EXCEPT ![rem] = TRUE],
           !.next = [@ EXCEPT ![rem] = h.next[a], ![a] = rem],
           !.prev = [x \in Addrs |-> IF x = rem THEN a
                                     ELSE IF x = h.next[a] THEN rem
                                     ELSE @[x]],
           !.blocks = @ \cup {rem}]

SplitIfWorth(h, a, n) ==
    IF h.size[a] >= n + HDR + HEAP_ALIGNMENT THEN Split(h, a, n) ELSE h

Take(h, a) ==
    [h EXCEPT !.is_free = [@ EXCEPT ![a] = FALSE],
              !.used = @ + h.size[a],
              !.count = @ + 1]

(* The heap afterwards and the pointer returned.                           *)
malloc(h, n) ==
    LET size == HEAP_ALIGN(n)
        a    == FirstFit(h, size)
    IN  IF n = 0 \/ Fits(h, size) = {}
        THEN [heap |-> h, ptr |-> NULL]
        ELSE [heap |-> Take(SplitIfWorth(h, a, size), a), ptr |-> a + HDR]

-----------------------------------------------------------------------------
(* free                                                                    *)

Mark(h, b) ==
    [h EXCEPT !.is_free = [@ EXCEPT ![b] = TRUE],
              !.used = IF @ >= h.size[b] THEN @ - h.size[b] ELSE 0,
              !.count = IF @ > 0 THEN @ - 1 ELSE @]

(* Mutant: the link over the swallowed block is not made.                  *)
AbsorbNoNext(h, b, n) ==
    [h EXCEPT !.size = [@ EXCEPT ![b] = h.size[b] + HDR + h.size[n]],
              !.prev = [x \in Addrs |-> IF x = h.next[n] THEN b ELSE @[x]],
              !.blocks = @ \ {n}]

(* Block b swallows its successor n.                                       *)
Absorb(h, b, n) ==
    [h EXCEPT !.size = [@ EXCEPT ![b] = h.size[b] + HDR + h.size[n]],
              !.next = [@ EXCEPT ![b] = h.next[n]],
              !.prev = [x \in Addrs |-> IF x = h.next[n] THEN b ELSE @[x]],
              !.blocks = @ \ {n}]

MergeNext(h, b) ==
    IF h.next[b] # NULL /\ h.is_free[h.next[b]]
    THEN Absorb(h, b, h.next[b]) ELSE h

(* Mutant: only forward coalescing.                                        *)
MergePrevNever(h, b) == h

MergePrev(h, b) ==
    IF h.prev[b] # NULL /\ h.is_free[h.prev[b]]
    THEN Absorb(h, h.prev[b], b) ELSE h

(* Mutant: the double-free test is missing.                                *)
FreeUnguarded(h, p) ==
    IF p = NULL \/ p < HDR \/ p >= HEAP_TOTAL THEN h
    ELSE LET b == p - HDR
         IN  IF b \notin h.magic THEN h
             ELSE MergePrev(MergeNext(Mark(h, b), b), b)

(* Mutant: only the block that is left after merging is marked free.       *)
FreeMarksLast(h, p) ==
    IF p = NULL \/ p < HDR \/ p >= HEAP_TOTAL THEN h
    ELSE LET b == p - HDR
             g == MergePrev(MergeNext(Mark(h, b), b), b)
         IN  IF b \notin h.magic \/ h.is_free[b] THEN h
             ELSE IF b \in g.blocks THEN g
             ELSE [g EXCEPT !.is_free = [@ EXCEPT ![b] = FALSE]]

free(h, p) ==
    IF p = NULL \/ p < HDR \/ p >= HEAP_TOTAL THEN h
    ELSE LET b == p - HDR
         IN  IF b \notin h.magic \/ h.is_free[b] THEN h
             ELSE MergePrev(MergeNext(Mark(h, b), b), b)

-----------------------------------------------------------------------------
(* calloc and realloc                                                      *)

(* memset or memcpy of len payload bytes: old headers in there are lost.   *)
(* (Old headers among the bytes that realloc copies come along; the copies *)
(* are not followed.)                                                      *)
Fill(h, p, len) == [h EXCEPT !.magic = @ \ (p..(p + len - 1))]

calloc(h, nmemb, size) ==
    LET m == malloc(h, nmemb * size)
    IN  IF nmemb # 0 /\ size > (SIZE_MOD - 1) \div nmemb
        THEN [heap |-> h, ptr |-> NULL]
        ELSE IF m.ptr = NULL THEN m
        ELSE [heap |-> Fill(m.heap, m.ptr, nmemb * size), ptr |-> m.ptr]

(* Mutant: the old block is not released after the move.                   *)
ReallocLeak(h, p, n) ==
    IF p = NULL THEN malloc(h, n)
    ELSE IF n = 0 THEN [heap |-> free(h, p), ptr |-> NULL]
    ELSE IF p - HDR \notin h.magic THEN [heap |-> h, ptr |-> NULL]
    ELSE IF h.size[p - HDR] >= n THEN [heap |-> h, ptr |-> p]
    ELSE malloc(h, n)

realloc(h, p, n) ==
    IF p = NULL THEN malloc(h, n)
    ELSE IF n = 0 THEN [heap |-> free(h, p), ptr |-> NULL]
    ELSE IF p - HDR \notin h.magic THEN [heap |-> h, ptr |-> NULL]
    ELSE IF h.size[p - HDR] >= n THEN [heap |-> h, ptr |-> p]
    ELSE LET m == malloc(h, n)
         IN  IF m.ptr = NULL THEN m
             ELSE [heap |-> free(Fill(m.heap, m.ptr, h.size[p - HDR]), p),
                   ptr  |-> m.ptr]

-----------------------------------------------------------------------------
(* heap_self_test.  The loops that compare the payloads with the patterns  *)
(* written to them cannot fail while blocks do not overlap, so what is     *)
(* left are the exits taken when an allocation fails.                      *)

Free2(h, p, q) == free(free(h, p), q)

heap_self_test(h) ==
    LET m1 == malloc(h, TestSizes[1])
        m2 == malloc(m1.heap, TestSizes[2])
        m3 == malloc(m2.heap, TestSizes[3])
        h3 == Fill(Fill(Fill(m3.heap, m1.ptr, TestSizes[1]),
                        m2.ptr, TestSizes[2]), m3.ptr, TestSizes[3])
        m4 == calloc(h3, 1, TestSizes[4])
        r1 == realloc(m4.heap, m1.ptr, TestSizes[5])
    IN  IF m1.ptr = NULL
        THEN [heap |-> h, code |-> 1]
        ELSE IF m2.ptr = NULL
        THEN [heap |-> free(m2.heap, m1.ptr), code |-> 2]
        ELSE IF m3.ptr = NULL
        THEN [heap |-> Free2(m3.heap, m1.ptr, m2.ptr), code |-> 3]
        ELSE IF m4.ptr = NULL
        THEN [heap |-> free(Free2(h3, m1.ptr, m2.ptr), m3.ptr), code |-> 7]
        ELSE IF r1.ptr = NULL
        THEN [heap |-> Free2(Free2(m4.heap, m1.ptr, m2.ptr), m3.ptr, m4.ptr),
              code |-> 9]
        ELSE [heap |-> Free2(Free2(r1.heap, r1.ptr, m2.ptr), m3.ptr, m4.ptr),
              code |-> 0]

-----------------------------------------------------------------------------
(* Clients of the allocator.  They use the pointers they hold; the one     *)
(* mistake they may make is to free a pointer they have freed before.      *)

Init ==
    /\ heap = heap_init
    /\ live = [p \in {} |-> 0]
    /\ stale = {}
    /\ mangled = {}

(* A header the allocator writes anew is not mangled any more.             *)
Renewed == mangled' = mangled \ heap'.blocks

(* A client takes over the pointer of an allocation of n bytes.            *)
Acquire(r, n) ==
    /\ heap' = r.heap
    /\ live' = IF r.ptr = NULL THEN live
               ELSE [p \in DOMAIN live \cup {r.ptr} |->
                        IF p = r.ptr THEN n ELSE live[p]]
    /\ UNCHANGED stale /\ Renewed

Without(p) == [q \in DOMAIN live \ {p} |-> live[q]]

Malloc(n) == Acquire(malloc(heap, n), n)

Calloc(nmemb, size) == Acquire(calloc(heap, nmemb, size), nmemb * size)

Free(p) ==
    /\ p \in DOMAIN live
    /\ heap' = free(heap, p)
    /\ live' = Without(p)
    /\ stale' = stale \cup {p}
    /\ Renewed

(* The second free that free can notice: what the heap is like after one   *)
(* it cannot notice (DoubleFreeNoticed) is not followed.                   *)
DoubleFree(p) ==
    /\ p \in stale \ DOMAIN live
    /\ p - HDR \notin mangled
    /\ heap' = free(heap, p)
    /\ UNCHANGED <<live, stale>> /\ Renewed

(* The caller keeps its block when realloc fails, loses it for size 0 and  *)
(* has a moved block otherwise.                                            *)
Realloc(p, n) ==
    LET r == realloc(heap, p, n)
    IN  /\ p \in DOMAIN live
        /\ heap' = r.heap
        /\ live' = IF n = 0 THEN Without(p)
                   ELSE IF r.ptr = NULL THEN live
                   ELSE [q \in (DOMAIN live \ {p}) \cup {r.ptr} |->
                            IF q = r.ptr THEN n ELSE live[q]]
        /\ stale' = IF n = 0 \/ r.ptr \notin {NULL, p}
                    THEN stale \cup {p} ELSE stale
        /\ Renewed

(* The old headers in the bytes a client asked for.                        *)
OldHeaders(p) == {a \in heap.magic : p <= a /\ a < p + live[p]}

(* A client overwrites an old header in its bytes: the magic number is     *)
(* lost, or only is_free becomes 0.  A write over several of them is       *)
(* several such steps; what a header without the magic says is of no       *)
(* account.                                                                *)
Write(p) ==
    /\ p \in DOMAIN live
    /\ \E a \in OldHeaders(p) :
          \/ /\ heap' = [heap EXCEPT !.magic = @ \ {a},
                                    !.is_free = [@ EXCEPT ![a] = TRUE]]
             /\ mangled' = mangled \ {a}
          \/ /\ heap' = [heap EXCEPT !.is_free = [@ EXCEPT ![a] = FALSE]]
             /\ mangled' = mangled \cup {a}
    /\ UNCHANGED <<live, stale>>

SelfTest ==
    /\ heap' = heap_self_test(heap).heap
    /\ UNCHANGED <<live, stale>> /\ Renewed

Next ==
    \/ \E n \in Requests : Malloc(n)
    \/ \E nmemb \in {1, 2}, n \in Requests : Calloc(nmemb, n)
    \/ \E p \in Addrs : Free(p) \/ DoubleFree(p) \/ Write(p)
    \/ \E p \in Addrs, k \in {1, 2}, n \in Requests : Realloc(p, k * n)
    \/ SelfTest

Spec == Init /\ [][Next]_vars

-----------------------------------------------------------------------------
Allocated(h) == {a \in h.blocks : ~h.is_free[a]}

(* The blocks tile the pool: each ends where its successor starts, the     *)
(* last one at the end of the pool, and no two overlap.                    *)
Tiled(h) ==
    /\ 0 \in h.blocks
    /\ \A a \in h.blocks :
          \/ End(h, a) = HEAP_TOTAL /\ h.next[a] = NULL
          \/ End(h, a) \in h.blocks /\ h.next[a] = End(h, a)
    /\ \A a, b \in h.blocks : a < b => End(h, a) <= b

(* The back links undo the forward links.                                  *)
BackLinked(h) ==
    /\ h.prev[0] = NULL
    /\ \A a \in h.blocks \ {0} : h.prev[a] \in h.blocks /\ h.next[h.prev[a]] = a
    /\ \A a \in h.blocks : h.next[a] # NULL => h.prev[h.next[a]] = a

(* Headers on the list are intact, and an intact header that is not on the *)
(* list says "free" unless a client has overwritten that.                  *)
HeadersSound(h) ==
    /\ h.blocks \subseteq h.magic
    /\ \A a \in (h.magic \ h.blocks) \ mangled : h.is_free[a]

(* Two neighbours are never both free.                                     *)
Coalesced(h) ==
    \A a \in h.blocks : h.is_free[a] /\ h.next[a] # NULL => ~h.is_free[h.next[a]]

(* The list is a tiling of the pool with sound links and headers, and free *)
(* merges with both neighbours at once, whatever calls (double frees       *)
(* included) have been made.                                               *)
ListSound ==
    Tiled(heap) /\ BackLinked(heap) /\ HeadersSound(heap) /\ Coalesced(heap)

(* Clients hold exactly the blocks marked allocated, each at least as      *)
(* large as what was asked for: with ListSound, no two clients share a     *)
(* byte and no block is lost.                                              *)
ClientsOwnBlocks ==
    /\ DOMAIN live = {a + HDR : a \in Allocated(heap)}
    /\ \A p \in DOMAIN live : heap.size[p - HDR] >= live[p]

(* A second free changes nothing, with two exceptions that the test of     *)
(* heap.c:78 cannot tell from a first one: the address has been handed out *)
(* again, and the block of its new owner is freed; or the client that has  *)
(* the memory now overwrote is_free of the old header and left the magic   *)
(* number.  The allocator itself never leaves such a header behind, however*)
(* blocks are split and absorbed.                                          *)
DoubleFreeNoticed ==
    \A p \in stale :
        \/ free(heap, p) = heap
        \/ p \in DOMAIN live
        \/ p - HDR \in mangled

(* The counters the heap command prints: the payload bytes of the live     *)
(* blocks and their number.  Total adds up a weight over the pool; it is a *)
(* recursive function rather than a fold so that it can be proved about.   *)
Total(w) ==
    LET sum[n \in 0..HEAP_TOTAL] == IF n = 0 THEN 0 ELSE sum[n - 1] + w[n - 1]
    IN  sum[HEAP_TOTAL]

Payload(h) == [a \in Addrs |-> IF a \in Allocated(h) THEN h.size[a] ELSE 0]

Accounted(h) ==
    /\ h.used = Total(Payload(h))
    /\ h.count = Cardinality(Allocated(h))

Accounting == Accounted(heap)

(* malloc fails only if no gap between allocated blocks is large enough:   *)
(* coalescing leaves no fragmentation that a request could trip over.      *)
GapFor(h, n) ==
    \E x \in Addrs :
        /\ x % HEAP_ALIGNMENT = 0
        /\ x + HDR + n <= HEAP_TOTAL
        /\ \A a \in Allocated(h) : x + HDR + n <= a \/ End(h, a) <= x

FailsOnlyWhenFull ==
    \A n \in Requests \ {0} :
        malloc(heap, n).ptr = NULL <=> ~GapFor(heap, HEAP_ALIGN(n))

(* The list-level state of a heap.                                         *)
View(h) == [a \in h.blocks |-> <<h.size[a], h.is_free[a], h.next[a], h.prev[a]>>]

(* heap test leaves the heap as it found it, whichever exit it takes.      *)
SelfTestRestores ==
    LET h == heap_self_test(heap).heap
    IN  View(h) = View(heap) /\ h.used = heap.used /\ h.count = heap.count
=============================================================================
