----------------------------- MODULE HeapProofs -----------------------------
(***************************************************************************)
(* Theorems about the kernel heap for every pool, header and alignment:    *)
(* as long as no request is so large that size_t arithmetic wraps, the     *)
(* list stays a coalesced tiling of the pool, clients own exactly the      *)
(* allocated blocks, a double free that free can notice changes nothing,   *)
(* the counters are right, an allocation fails only when there is no room  *)
(* for it, and the heap test leaves the heap as it found it.               *)
(*                                                                         *)
(* The heap is a record of functions and the calls are functions on it, so *)
(* the proof has two floors.  Below, lemmas say what splitting, marking    *)
(* and absorbing a block do to a well-formed heap.  Above, MallocEffect,   *)
(* FreeEffect, CallocEffect, ReallocEffect and SelfTestEffect say what     *)
(* each call does to the set of allocated blocks, which is all that the    *)
(* clients' invariant needs to know.                                       *)
(***************************************************************************)
EXTENDS Heap, TLAPS, WellFoundedInduction, FiniteSetTheorems

HeapTypes ==
    [magic   : SUBSET Addrs,
     size    : [Addrs -> Nat],
     is_free : [Addrs -> BOOLEAN],
     next    : [Addrs -> Addrs \cup {NULL}],
     prev    : [Addrs -> Addrs \cup {NULL}],
     blocks  : SUBSET Addrs,
     used    : Nat,
     count   : Nat]

(* Multiples of the alignment.                                             *)
Aligned == {x \in Nat : x % HEAP_ALIGNMENT = 0}

(* Well-formed: all but the coalescing and the counters, which are not     *)
(* right in the middle of a call.                                          *)
WellFormed(h) ==
    /\ h \in HeapTypes
    /\ Tiled(h)
    /\ BackLinked(h)
    /\ HeadersSound(h)
    /\ \A a \in h.blocks : h.size[a] > 0
    /\ h.blocks \subseteq Aligned

HeapOK(h) == WellFormed(h) /\ Coalesced(h) /\ Accounted(h)

(* The largest rounded size does not wrap.                                 *)
Below(n) == n + HEAP_ALIGNMENT - 1 < SIZE_MOD

NoWrap ==
    /\ \A n \in Requests : Below(2 * n)
    /\ TestSizes \in [1..5 -> Nat \ {0}]
    /\ \A i \in 1..5 : Below(TestSizes[i])

-----------------------------------------------------------------------------
(* Arithmetic of the pool                                                  *)

LEMMA Constants ==
    /\ HEAP_TOTAL \in Nat /\ HDR \in Nat /\ HDR > 0 /\ HEAP_TOTAL > HDR
    /\ HEAP_ALIGNMENT \in Nat /\ HEAP_ALIGNMENT > 0
    /\ SIZE_MOD \in Nat /\ SIZE_MOD > HEAP_TOTAL
    /\ Requests \subseteq Nat
    /\ Addrs \subseteq Nat
    /\ NULL \notin Addrs
    /\ 0 \in Addrs
  BY HeapAssumption DEF Addrs, NULL

(* A number below the modulus is its own remainder.                        *)
LEMMA SmallMod ==
    ASSUME NEW x \in Nat, NEW m \in Nat, x < m
    PROVE  x % m = x
  OBVIOUS

LEMMA ModBounds ==
    ASSUME NEW x \in Nat, NEW m \in Nat \ {0}
    PROVE  x % m \in 0..(m - 1) /\ x % m <= x
  OBVIOUS

(* A set of addresses that is not empty has a least element.               *)
LEMMA LeastAddr ==
    ASSUME NEW S \in SUBSET Nat, S # {}
    PROVE  \E a \in S : \A b \in S : a <= b
<1> DEFINE R == {ss \in Nat \X Nat : ss[1] < ss[2]}
<1>1. IsWellFoundedOn(R, Nat)
  BY NatLessThanWellFounded DEF OpToRel
<1>2. PICK x \in S : \A y \in S : ~ (<<y, x>> \in R)
  BY <1>1, WFMin
<1>3. ASSUME NEW y \in S PROVE x <= y
  <2>1. y \in Nat /\ x \in Nat
    OBVIOUS
  <2>2. <<y, x>> \in Nat \X Nat /\ <<y, x>>[1] = y /\ <<y, x>>[2] = x
    BY <2>1
  <2>3. ~ (y < x)
    BY <1>2, <2>2
  <2> QED
    BY <2>1, <2>3
<1> QED
  BY <1>3

LEMMA Quotient ==
    ASSUME NEW x \in Nat
    PROVE  /\ x = HEAP_ALIGNMENT * (x \div HEAP_ALIGNMENT) + (x % HEAP_ALIGNMENT)
           /\ x \div HEAP_ALIGNMENT \in Nat
           /\ x % HEAP_ALIGNMENT \in 0..(HEAP_ALIGNMENT - 1)
  BY Constants

LEMMA MultipleIsAligned ==
    ASSUME NEW q \in Nat
    PROVE  HEAP_ALIGNMENT * q \in Aligned
<1> DEFINE x == HEAP_ALIGNMENT * q
           d == x \div HEAP_ALIGNMENT
           r == x % HEAP_ALIGNMENT
<1>1. x \in Nat
  BY Constants
<1>2. x = HEAP_ALIGNMENT * d + r /\ d \in Nat /\ r \in 0..(HEAP_ALIGNMENT - 1)
  BY <1>1, Quotient
<1>3. x = HEAP_ALIGNMENT * q
  OBVIOUS
<1> HIDE DEF x, d, r
<1>4. r = HEAP_ALIGNMENT * (q - d)
  BY <1>2, <1>3, Constants
<1>5. q - d >= 1 => HEAP_ALIGNMENT * (q - d) >= HEAP_ALIGNMENT
  BY <1>2, Constants
<1>6. q - d <= -1 => HEAP_ALIGNMENT * (q - d) <= -HEAP_ALIGNMENT
  BY <1>2, Constants
<1>7. r = 0
  <2>1. q - d = 0
    BY <1>2, <1>4, <1>5, <1>6, Constants
  <2> QED
    BY <1>4, <2>1, Constants
<1> QED
  BY <1>1, <1>3, <1>7 DEF Aligned, r

LEMMA AlignedIsMultiple ==
    ASSUME NEW x \in Aligned
    PROVE  \E q \in Nat : x = HEAP_ALIGNMENT * q
<1> DEFINE d == x \div HEAP_ALIGNMENT
<1>1. x \in Nat /\ x % HEAP_ALIGNMENT = 0
  BY DEF Aligned
<1>2. x = HEAP_ALIGNMENT * d + 0 /\ d \in Nat
  BY <1>1, Quotient
<1> HIDE DEF d
<1>3. x = HEAP_ALIGNMENT * d
  BY <1>2, Constants
<1> QED
  BY <1>2, <1>3

LEMMA AlignedSum ==
    ASSUME NEW x \in Aligned, NEW y \in Aligned
    PROVE  x + y \in Aligned
<1>1. PICK p \in Nat : x = HEAP_ALIGNMENT * p
  BY AlignedIsMultiple
<1>2. PICK q \in Nat : y = HEAP_ALIGNMENT * q
  BY AlignedIsMultiple
<1>3. x + y = HEAP_ALIGNMENT * (p + q) /\ p + q \in Nat
  BY <1>1, <1>2, Constants
<1> QED
  BY <1>3, MultipleIsAligned

LEMMA RoundedIsAligned ==
    ASSUME NEW x \in Nat
    PROVE  x - (x % HEAP_ALIGNMENT) \in Aligned
<1> DEFINE d == x \div HEAP_ALIGNMENT
           r == x % HEAP_ALIGNMENT
<1>1. x = HEAP_ALIGNMENT * d + r /\ d \in Nat /\ r \in Nat
  BY Quotient
<1> HIDE DEF d, r
<1>2. x - r = HEAP_ALIGNMENT * d
  BY <1>1, Constants
<1>3. x - r \in Aligned
  BY <1>1, <1>2, MultipleIsAligned
<1> QED
  BY <1>3 DEF r

(* Headers start at multiples of the alignment, as their size is one.      *)
LEMMA HeaderAligned == HDR \in Aligned /\ 0 \in Aligned
<1>1. HDR \in Aligned
  BY HeapAssumption DEF Aligned
<1>2. HEAP_ALIGNMENT * 0 = 0
  BY Constants
<1> QED
  BY <1>1, <1>2, MultipleIsAligned

(* Rounding up gives a multiple of the alignment, and at least what was    *)
(* asked for.                                                              *)
LEMMA AlignUp ==
    ASSUME NEW n \in Nat, Below(n)
    PROVE  HEAP_ALIGN(n) \in Aligned /\ HEAP_ALIGN(n) \in Nat /\ HEAP_ALIGN(n) >= n
<1> DEFINE x == n + HEAP_ALIGNMENT - 1
<1>1. x \in Nat /\ x < SIZE_MOD
  BY Constants DEF Below
<1>2. x % SIZE_MOD = x
  BY <1>1, Constants, SmallMod
<1>3. x % HEAP_ALIGNMENT \in 0..(HEAP_ALIGNMENT - 1) /\ x % HEAP_ALIGNMENT <= x
  BY <1>1, Constants, ModBounds
<1>4. HEAP_ALIGN(n) = x - (x % HEAP_ALIGNMENT)
  BY <1>2 DEF HEAP_ALIGN
<1>5. x - (x % HEAP_ALIGNMENT) \in Aligned
  BY <1>1, RoundedIsAligned
<1> QED
  BY <1>1, <1>3, <1>4, <1>5, Constants

(* First fit returns a block that fits.                                    *)
LEMMA FirstFits ==
    ASSUME NEW h \in HeapTypes, NEW n \in Nat, Fits(h, n) # {}
    PROVE  FirstFit(h, n) \in Fits(h, n)
<1>1. Fits(h, n) \in SUBSET Nat
  BY Constants DEF Fits, HeapTypes
<1>2. \E a \in Fits(h, n) : \A b \in Fits(h, n) : a <= b
  BY <1>1, LeastAddr
<1> QED
  BY <1>2 DEF FirstFit

-----------------------------------------------------------------------------
(* Sums over the pool                                                      *)

(* f is the running sum of w.                                              *)
RunningSum(f, w) ==
    /\ f \in [0..HEAP_TOTAL -> Nat]
    /\ f[0] = 0
    /\ \A i \in 1..HEAP_TOTAL : f[i] = f[i - 1] + w[i - 1]

LEMMA RunningSumExists ==
    ASSUME NEW w \in [Addrs -> Nat], NEW n \in 0..HEAP_TOTAL
    PROVE  \E f \in [0..n -> Nat] :
              f[0] = 0 /\ \A i \in 1..n : f[i] = f[i - 1] + w[i - 1]
<1> DEFINE OK(m) == \E f \in [0..m -> Nat] :
              f[0] = 0 /\ \A i \in 1..m : f[i] = f[i - 1] + w[i - 1]
           Bad == {m \in 0..HEAP_TOTAL : ~OK(m)}
<1> SUFFICES ASSUME Bad # {} PROVE FALSE
  OBVIOUS
<1>0. Bad \in SUBSET Nat
  BY Constants
<1> PICK m \in Bad : \A b \in Bad : m <= b
  BY <1>0, LeastAddr
<1>1. m \in 0..HEAP_TOTAL /\ ~OK(m) /\ m \in Nat
  BY Constants
<1>2. CASE m = 0
  <2> DEFINE f == [x \in 0..0 |-> 0]
  <2>1. f \in [0..0 -> Nat] /\ f[0] = 0 /\ \A i \in 1..0 : f[i] = f[i - 1] + w[i - 1]
    OBVIOUS
  <2>2. OK(0)
    BY <2>1
  <2> QED
    BY <1>1, <1>2, <2>2
<1>3. CASE m > 0
  <2>1. m - 1 \in 0..HEAP_TOTAL /\ m - 1 \notin Bad
    <3> HIDE DEF Bad
    <3>1. m - 1 \in Bad => m <= m - 1
      OBVIOUS
    <3> QED
      BY <3>1, <1>1, <1>3, Constants
  <2>2. OK(m - 1)
    BY <2>1
  <2>3. PICK g \in [0..(m - 1) -> Nat] :
           g[0] = 0 /\ \A i \in 1..(m - 1) : g[i] = g[i - 1] + w[i - 1]
    BY <2>2
  <2> DEFINE f == [x \in 0..m |-> IF x = m THEN g[m - 1] + w[m - 1] ELSE g[x]]
  <2>4. w[m - 1] \in Nat /\ g[m - 1] \in Nat
    BY <1>1, <1>3, Constants DEF Addrs
  <2>5. f \in [0..m -> Nat]
    BY <2>4, <1>1
  <2>6. f[0] = 0 /\ \A i \in 1..m : f[i] = f[i - 1] + w[i - 1]
    BY <2>3, <1>1, <1>3
  <2>7. OK(m)
    BY <2>5, <2>6
  <2> QED
    BY <1>1, <2>7
<1> QED
  BY <1>1, <1>2, <1>3

LEMMA TotalIsRunningSum ==
    ASSUME NEW w \in [Addrs -> Nat]
    PROVE  \E f : RunningSum(f, w) /\ Total(w) = f[HEAP_TOTAL]
<1> DEFINE Rec(f) == f = [n \in 0..HEAP_TOTAL |->
                            IF n = 0 THEN 0 ELSE f[n - 1] + w[n - 1]]
           s == CHOOSE f : Rec(f)
<1>1. \E f : Rec(f)
  <2>1. HEAP_TOTAL \in 0..HEAP_TOTAL
    BY Constants
  <2>2. PICK f \in [0..HEAP_TOTAL -> Nat] :
           f[0] = 0 /\ \A i \in 1..HEAP_TOTAL : f[i] = f[i - 1] + w[i - 1]
    BY <2>1, RunningSumExists
  <2>3. \A n \in 0..HEAP_TOTAL :
           f[n] = IF n = 0 THEN 0 ELSE f[n - 1] + w[n - 1]
    BY <2>2, Constants
  <2>4. Rec(f)
    BY <2>2, <2>3
  <2> QED
    BY <2>4
<1>2. Rec(s)
  BY <1>1
<1>3. Total(w) = s[HEAP_TOTAL]
  BY DEF Total
<1> HIDE DEF s
<1>4. /\ DOMAIN s = 0..HEAP_TOTAL
      /\ \A n \in 0..HEAP_TOTAL : s[n] = IF n = 0 THEN 0 ELSE s[n - 1] + w[n - 1]
  BY <1>2
<1>5. \A n \in 0..HEAP_TOTAL : s[n] \in Nat
  <2> DEFINE Bad == {n \in 0..HEAP_TOTAL : s[n] \notin Nat}
  <2> SUFFICES ASSUME Bad # {} PROVE FALSE
    OBVIOUS
  <2>1. Bad \in SUBSET Nat
    BY Constants
  <2> PICK m \in Bad : \A b \in Bad : m <= b
    BY <2>1, LeastAddr
  <2>2. m \in 0..HEAP_TOTAL /\ m # 0 /\ s[m] = s[m - 1] + w[m - 1]
    BY <1>4
  <2>3. m - 1 \in 0..HEAP_TOTAL /\ m - 1 \notin Bad /\ m - 1 \in Addrs
    BY <2>2, Constants DEF Addrs
  <2>4. s[m - 1] \in Nat /\ w[m - 1] \in Nat
    BY <2>3
  <2> QED
    BY <2>2, <2>4
<1>6. RunningSum(s, w)
  <2>1. s \in [0..HEAP_TOTAL -> Nat]
    BY <1>2, <1>5
  <2>2. 0 \in 0..HEAP_TOTAL /\ \A i \in 1..HEAP_TOTAL : i \in 0..HEAP_TOTAL /\ i # 0
    BY Constants
  <2>3. s[0] = 0 /\ \A i \in 1..HEAP_TOTAL : s[i] = s[i - 1] + w[i - 1]
    BY <1>4, <2>2
  <2> QED
    BY <2>1, <2>3 DEF RunningSum
<1> QED
  BY <1>3, <1>6

(* One weight raised raises the total by as much.                          *)
LEMMA TotalShift ==
    ASSUME NEW w \in [Addrs -> Nat], NEW v \in [Addrs -> Nat],
           NEW a \in Addrs, NEW d \in Nat, v[a] = w[a] + d,
           \A x \in Addrs \ {a} : v[x] = w[x]
    PROVE  /\ Total(v) = Total(w) + d
           /\ Total(v) \in Nat /\ Total(w) \in Nat
<1>1. PICK f : RunningSum(f, w) /\ Total(w) = f[HEAP_TOTAL]
  BY TotalIsRunningSum
<1>2. PICK g : RunningSum(g, v) /\ Total(v) = g[HEAP_TOTAL]
  BY TotalIsRunningSum
<1>3. /\ f \in [0..HEAP_TOTAL -> Nat] /\ f[0] = 0
      /\ \A i \in 1..HEAP_TOTAL : f[i] = f[i - 1] + w[i - 1]
  BY <1>1 DEF RunningSum
<1>4. /\ g \in [0..HEAP_TOTAL -> Nat] /\ g[0] = 0
      /\ \A i \in 1..HEAP_TOTAL : g[i] = g[i - 1] + v[i - 1]
  BY <1>2 DEF RunningSum
<1>5. \A n \in 0..HEAP_TOTAL : g[n] = f[n] + IF n > a THEN d ELSE 0
  <2> DEFINE Bad == {n \in 0..HEAP_TOTAL : g[n] # f[n] + IF n > a THEN d ELSE 0}
  <2> SUFFICES ASSUME Bad # {} PROVE FALSE
    OBVIOUS
  <2>1. Bad \in SUBSET Nat /\ a \in Nat
    BY Constants
  <2> PICK m \in Bad : \A b \in Bad : m <= b
    BY <2>1, LeastAddr
  <2>2. m \in 0..HEAP_TOTAL /\ m \in Nat /\ g[m] # f[m] + IF m > a THEN d ELSE 0
    BY Constants
  <2>3. m # 0
    BY <1>3, <1>4, <2>1, <2>2
  <2>4. m - 1 \in 0..HEAP_TOTAL /\ m - 1 \notin Bad
    <3> HIDE DEF Bad
    <3>1. m - 1 \in Bad => m <= m - 1
      OBVIOUS
    <3> QED
      BY <3>1, <2>2, <2>3, Constants
  <2>5. g[m - 1] = f[m - 1] + IF m - 1 > a THEN d ELSE 0
    BY <2>4
  <2>6. m \in 1..HEAP_TOTAL /\ m - 1 \in Addrs
    BY <2>2, <2>3, Constants DEF Addrs
  <2>7. g[m] = g[m - 1] + v[m - 1] /\ f[m] = f[m - 1] + w[m - 1]
    BY <1>3, <1>4, <2>6
  <2>8. /\ f[m - 1] \in Nat /\ w[m - 1] \in Nat /\ v[m - 1] \in Nat
        /\ g[m - 1] \in Nat
    BY <1>3, <1>4, <2>4, <2>6
  <2>9. CASE m - 1 = a
    BY <2>1, <2>2, <2>5, <2>7, <2>8, <2>9
  <2>10. CASE m - 1 # a
    <3>1. v[m - 1] = w[m - 1]
      BY <2>6, <2>10
    <3> QED
      BY <2>1, <2>2, <2>5, <2>7, <2>8, <2>10, <3>1
  <2> QED
    BY <2>9, <2>10
<1>6. HEAP_TOTAL \in 0..HEAP_TOTAL /\ HEAP_TOTAL > a
  BY Constants DEF Addrs
<1>7. g[HEAP_TOTAL] = f[HEAP_TOTAL] + d
  BY <1>5, <1>6
<1> QED
  BY <1>1, <1>2, <1>3, <1>4, <1>6, <1>7

LEMMA TotalZero ==
    ASSUME NEW w \in [Addrs -> Nat], \A x \in Addrs : w[x] = 0
    PROVE  Total(w) = 0
<1>1. PICK f : RunningSum(f, w) /\ Total(w) = f[HEAP_TOTAL]
  BY TotalIsRunningSum
<1>2. /\ f \in [0..HEAP_TOTAL -> Nat] /\ f[0] = 0
      /\ \A i \in 1..HEAP_TOTAL : f[i] = f[i - 1] + w[i - 1]
  BY <1>1 DEF RunningSum
<1> DEFINE Bad == {n \in 0..HEAP_TOTAL : f[n] # 0}
<1>3. Bad = {}
  <2> SUFFICES ASSUME Bad # {} PROVE FALSE
    OBVIOUS
  <2>1. Bad \in SUBSET Nat
    BY Constants
  <2> PICK m \in Bad : \A b \in Bad : m <= b
    BY <2>1, LeastAddr
  <2>2. m \in 0..HEAP_TOTAL /\ m \in Nat /\ f[m] # 0 /\ m # 0
    BY <1>2, Constants
  <2>3. m - 1 \in 0..HEAP_TOTAL /\ m - 1 \notin Bad
    <3> HIDE DEF Bad
    <3>1. m - 1 \in Bad => m <= m - 1
      OBVIOUS
    <3> QED
      BY <3>1, <2>2, Constants
  <2>4. m \in 1..HEAP_TOTAL /\ m - 1 \in Addrs
    BY <2>2, Constants DEF Addrs
  <2>5. f[m - 1] = 0 /\ f[m] = f[m - 1] + w[m - 1] /\ w[m - 1] = 0
    BY <1>2, <2>3, <2>4
  <2> QED
    BY <2>2, <2>5
<1>4. HEAP_TOTAL \in 0..HEAP_TOTAL
  BY Constants
<1> QED
  BY <1>1, <1>3, <1>4

-----------------------------------------------------------------------------
(* The blocks of a well-formed heap                                        *)

LEMMA Fields ==
    ASSUME NEW h \in HeapTypes
    PROVE  /\ h.magic \subseteq Addrs /\ h.blocks \subseteq Addrs
           /\ h.size \in [Addrs -> Nat] /\ h.is_free \in [Addrs -> BOOLEAN]
           /\ h.next \in [Addrs -> Addrs \cup {NULL}]
           /\ h.prev \in [Addrs -> Addrs \cup {NULL}]
           /\ h.used \in Nat /\ h.count \in Nat
  BY DEF HeapTypes

LEMMA PayloadWeights ==
    ASSUME NEW h \in HeapTypes
    PROVE  /\ Payload(h) \in [Addrs -> Nat]
           /\ \A x \in Addrs :
                 Payload(h)[x] = IF x \in Allocated(h) THEN h.size[x] ELSE 0
           /\ Allocated(h) \subseteq Addrs
           /\ IsFiniteSet(Allocated(h))
<1>1. Allocated(h) \subseteq Addrs
  BY Fields DEF Allocated
<1>2. IsFiniteSet(Addrs)
  BY Constants, FS_Interval DEF Addrs
<1>3. IsFiniteSet(Allocated(h))
  BY <1>1, <1>2, FS_Subset
<1>4. Payload(h) \in [Addrs -> Nat]
  BY Fields DEF Payload
<1>5. \A x \in Addrs :
         Payload(h)[x] = IF x \in Allocated(h) THEN h.size[x] ELSE 0
  BY DEF Payload
<1> QED
  BY <1>1, <1>3, <1>4, <1>5

(* The counters depend on the allocated blocks and their sizes only.       *)
LEMMA AccountedSame ==
    ASSUME NEW h \in HeapTypes, NEW g \in HeapTypes, Accounted(h),
           Allocated(g) = Allocated(h), g.used = h.used, g.count = h.count,
           \A x \in Allocated(h) : g.size[x] = h.size[x]
    PROVE  Accounted(g)
<1>1. Payload(g) = Payload(h)
  BY DEF Payload
<1> QED
  BY <1>1 DEF Accounted

LEMMA AccountedTake ==
    ASSUME NEW h \in HeapTypes, NEW g \in HeapTypes, Accounted(h),
           NEW a \in Addrs \ Allocated(h),
           Allocated(g) = Allocated(h) \cup {a},
           g.used = h.used + g.size[a], g.count = h.count + 1,
           \A x \in Allocated(h) : g.size[x] = h.size[x]
    PROVE  Accounted(g)
<1> DEFINE w == Payload(h)
           v == Payload(g)
<1>1. /\ w \in [Addrs -> Nat] /\ v \in [Addrs -> Nat]
      /\ \A x \in Addrs : w[x] = IF x \in Allocated(h) THEN h.size[x] ELSE 0
      /\ \A x \in Addrs : v[x] = IF x \in Allocated(g) THEN g.size[x] ELSE 0
      /\ IsFiniteSet(Allocated(h))
  BY PayloadWeights
<1>2. g.size[a] \in Nat
  BY Fields
<1> HIDE DEF w, v
<1>3. v[a] = w[a] + g.size[a] /\ \A x \in Addrs \ {a} : v[x] = w[x]
  BY <1>1, <1>2
<1>4. Total(v) = Total(w) + g.size[a]
  BY <1>1, <1>2, <1>3, TotalShift
<1>5. Cardinality(Allocated(g)) = Cardinality(Allocated(h)) + 1
  BY <1>1, FS_AddElement
<1> QED
  BY <1>4, <1>5 DEF Accounted, w, v

LEMMA AccountedRelease ==
    ASSUME NEW h \in HeapTypes, NEW g \in HeapTypes, Accounted(h),
           NEW b \in Allocated(h),
           Allocated(g) = Allocated(h) \ {b},
           g.used = IF h.used >= h.size[b] THEN h.used - h.size[b] ELSE 0,
           g.count = IF h.count > 0 THEN h.count - 1 ELSE h.count,
           \A x \in Allocated(g) : g.size[x] = h.size[x]
    PROVE  Accounted(g)
<1> DEFINE w == Payload(h)
           v == Payload(g)
<1>1. /\ w \in [Addrs -> Nat] /\ v \in [Addrs -> Nat]
      /\ \A x \in Addrs : w[x] = IF x \in Allocated(h) THEN h.size[x] ELSE 0
      /\ \A x \in Addrs : v[x] = IF x \in Allocated(g) THEN g.size[x] ELSE 0
      /\ IsFiniteSet(Allocated(h)) /\ b \in Addrs
  BY PayloadWeights
<1>2. h.size[b] \in Nat
  BY <1>1, Fields
<1> HIDE DEF w, v
<1>3. w[b] = v[b] + h.size[b] /\ \A x \in Addrs \ {b} : w[x] = v[x]
  BY <1>1, <1>2
<1>4. Total(w) = Total(v) + h.size[b] /\ Total(v) \in Nat
  BY <1>1, <1>2, <1>3, TotalShift
<1>5. /\ Cardinality(Allocated(g)) = Cardinality(Allocated(h)) - 1
      /\ Cardinality(Allocated(h)) \in Nat
  BY <1>1, FS_RemoveElement, FS_CardinalityType
<1>6. Cardinality(Allocated(g)) \in Nat
  BY <1>1, FS_RemoveElement, FS_CardinalityType
<1>7. h.used = Total(w) /\ h.count = Cardinality(Allocated(h))
  BY DEF Accounted, w
<1>8. g.used = Total(v)
  BY <1>2, <1>4, <1>7
<1>9. g.count = Cardinality(Allocated(g))
  BY <1>5, <1>6, <1>7
<1> QED
  BY <1>8, <1>9 DEF Accounted, v

(* A block lies in the pool, and what next names begins where it ends.     *)
LEMMA Geometry ==
    ASSUME NEW h, WellFormed(h), NEW a \in h.blocks
    PROVE  /\ a \in Addrs /\ a \in Nat /\ h.size[a] \in Nat
           /\ End(h, a) = a + HDR + h.size[a]
           /\ End(h, a) \in Nat /\ End(h, a) > a + HDR
           /\ End(h, a) <= HEAP_TOTAL
           /\ h.next[a] # NULL =>
                 h.next[a] \in h.blocks /\ h.next[a] = End(h, a)
<1>1. a \in Addrs /\ a \in Nat /\ h.size[a] \in Nat /\ h.size[a] > 0
  BY Constants, Fields DEF WellFormed
<1>2. h.blocks \subseteq Addrs
  BY Fields DEF WellFormed
<1>3. End(h, a) = HEAP_TOTAL \/ End(h, a) \in Addrs
  BY <1>2 DEF WellFormed, Tiled
<1>4. h.next[a] # NULL => h.next[a] \in h.blocks /\ h.next[a] = End(h, a)
  BY DEF WellFormed, Tiled
<1> QED
  BY <1>1, <1>3, <1>4, Constants DEF End, Addrs

(* What the cut of a block does to the fields.                             *)
IsSplit(h, g, a, n, rem) ==
    /\ g \in HeapTypes
    /\ g.magic = (h.magic \ ((rem + 1)..(rem + HDR - 1))) \cup {rem}
    /\ g.blocks = h.blocks \cup {rem}
    /\ g.size[rem] = h.size[a] - n - HDR /\ g.size[a] = n
    /\ g.next[rem] = h.next[a] /\ g.next[a] = rem
    /\ \A x \in Addrs \ {a, rem} :
          g.size[x] = h.size[x] /\ g.next[x] = h.next[x]
    /\ g.is_free[rem] = TRUE
    /\ \A x \in Addrs \ {rem} : g.is_free[x] = h.is_free[x]
    /\ g.prev[rem] = a
    /\ \A x \in Addrs \ {rem} :
          g.prev[x] = IF x = h.next[a] THEN rem ELSE h.prev[x]
    /\ g.used = h.used /\ g.count = h.count

LEMMA SplitFields ==
    ASSUME NEW h \in HeapTypes, NEW a \in Addrs, NEW n \in Nat,
           a + HDR + n \in Addrs, h.size[a] >= n + HDR
    PROVE  IsSplit(h, Split(h, a, n), a, n, a + HDR + n)
<1> DEFINE rem == a + HDR + n
<1>1. rem \in Addrs /\ rem # a /\ h.size[a] - n - HDR \in Nat
  BY Fields, Constants
<1> DEFINE m == (h.magic \ ((rem + 1)..(rem + HDR - 1))) \cup {rem}
           s == [h.size EXCEPT ![rem] = h.size[a] - n - HDR, ![a] = n]
           f == [h.is_free EXCEPT ![rem] = TRUE]
           x == [h.next EXCEPT ![rem] = h.next[a], ![a] = rem]
           p == [z \in Addrs |-> IF z = rem THEN a
                                 ELSE IF z = h.next[a] THEN rem
                                 ELSE h.prev[z]]
           b == h.blocks \cup {rem}
<1>2. /\ m \in SUBSET Addrs /\ b \in SUBSET Addrs
      /\ s \in [Addrs -> Nat] /\ f \in [Addrs -> BOOLEAN]
      /\ x \in [Addrs -> Addrs \cup {NULL}]
      /\ p \in [Addrs -> Addrs \cup {NULL}]
  BY <1>1, Fields
<1>3. Split(h, a, n) =
        [h EXCEPT !.magic = m, !.size = s, !.is_free = f, !.next = x,
                  !.prev = p, !.blocks = b]
  BY DEF Split
<1>4. s[rem] = h.size[a] - n - HDR /\ s[a] = n /\ f[rem] = TRUE
  BY <1>1, Fields
<1>5. x[rem] = h.next[a] /\ x[a] = rem /\ p[rem] = a
  BY <1>1, Fields
<1>6. \A y \in Addrs \ {a, rem} : s[y] = h.size[y] /\ x[y] = h.next[y]
  BY <1>1, Fields
<1>7. \A y \in Addrs \ {rem} :
         /\ f[y] = h.is_free[y]
         /\ p[y] = IF y = h.next[a] THEN rem ELSE h.prev[y]
  BY <1>1, Fields
<1> HIDE DEF s, f, x, p
<1>8. [h EXCEPT !.magic = m, !.size = s, !.is_free = f, !.next = x,
                !.prev = p, !.blocks = b] \in HeapTypes
  BY <1>2 DEF HeapTypes
<1> DEFINE g == Split(h, a, n)
<1>9. /\ g.magic = m /\ g.size = s /\ g.is_free = f /\ g.next = x
      /\ g.prev = p /\ g.blocks = b /\ g.used = h.used /\ g.count = h.count
  BY <1>3 DEF HeapTypes
<1> HIDE DEF g
<1> QED
  BY <1>3, <1>4, <1>5, <1>6, <1>7, <1>8, <1>9 DEF g, IsSplit

(* What marking a block, one way or the other, does to the fields.         *)
IsMarked(h, g, a, mark) ==
    /\ g \in HeapTypes
    /\ g.magic = h.magic /\ g.blocks = h.blocks /\ g.size = h.size
    /\ g.next = h.next /\ g.prev = h.prev
    /\ g.is_free[a] = mark
    /\ \A x \in Addrs \ {a} : g.is_free[x] = h.is_free[x]

(* Taken: marked allocated and counted; given up: marked free and counted  *)
(* out, the counters stopping at 0.                                        *)
IsTaken(h, g, a) ==
    /\ IsMarked(h, g, a, FALSE)
    /\ g.used = h.used + h.size[a] /\ g.count = h.count + 1

IsGivenUp(h, g, b) ==
    /\ IsMarked(h, g, b, TRUE)
    /\ g.used = IF h.used >= h.size[b] THEN h.used - h.size[b] ELSE 0
    /\ g.count = IF h.count > 0 THEN h.count - 1 ELSE h.count

LEMMA TakeFields ==
    ASSUME NEW h \in HeapTypes, NEW a \in Addrs
    PROVE  IsTaken(h, Take(h, a), a)
<1> DEFINE f == [h.is_free EXCEPT ![a] = FALSE]
           u == h.used + h.size[a]
           c == h.count + 1
           g == Take(h, a)
<1>1. f \in [Addrs -> BOOLEAN] /\ u \in Nat /\ c \in Nat
  BY Fields
<1>2. f[a] = FALSE /\ \A x \in Addrs \ {a} : f[x] = h.is_free[x]
  BY Fields
<1>3. g = [h EXCEPT !.is_free = f, !.used = u, !.count = c]
  BY DEF Take
<1> HIDE DEF f, u, c
<1>4. [h EXCEPT !.is_free = f, !.used = u, !.count = c] \in HeapTypes
  BY <1>1 DEF HeapTypes
<1>5. /\ g.magic = h.magic /\ g.blocks = h.blocks /\ g.size = h.size
      /\ g.next = h.next /\ g.prev = h.prev /\ g.is_free = f
      /\ g.used = u /\ g.count = c
  BY <1>3 DEF HeapTypes
<1> HIDE DEF g
<1>6. IsMarked(h, g, a, FALSE)
  BY <1>2, <1>3, <1>4, <1>5 DEF IsMarked
<1>7. g.used = u /\ g.count = c
  BY <1>5
<1> QED
  BY <1>6, <1>7 DEF g, u, c, IsTaken

LEMMA MarkFields ==
    ASSUME NEW h \in HeapTypes, NEW b \in Addrs
    PROVE  IsGivenUp(h, Mark(h, b), b)
<1> DEFINE f == [h.is_free EXCEPT ![b] = TRUE]
           u == IF h.used >= h.size[b] THEN h.used - h.size[b] ELSE 0
           c == IF h.count > 0 THEN h.count - 1 ELSE h.count
           g == Mark(h, b)
<1>1. f \in [Addrs -> BOOLEAN] /\ u \in Nat /\ c \in Nat
  BY Fields
<1>2. f[b] = TRUE /\ \A x \in Addrs \ {b} : f[x] = h.is_free[x]
  BY Fields
<1>3. g = [h EXCEPT !.is_free = f, !.used = u, !.count = c]
  BY DEF Mark
<1> HIDE DEF f, u, c
<1>4. [h EXCEPT !.is_free = f, !.used = u, !.count = c] \in HeapTypes
  BY <1>1 DEF HeapTypes
<1>5. /\ g.magic = h.magic /\ g.blocks = h.blocks /\ g.size = h.size
      /\ g.next = h.next /\ g.prev = h.prev /\ g.is_free = f
      /\ g.used = u /\ g.count = c
  BY <1>3 DEF HeapTypes
<1> HIDE DEF g
<1>6. IsMarked(h, g, b, TRUE)
  BY <1>2, <1>3, <1>4, <1>5 DEF IsMarked
<1>7. g.used = u /\ g.count = c
  BY <1>5
<1> QED
  BY <1>6, <1>7 DEF g, u, c, IsGivenUp

(* What swallowing a block does to the fields.                             *)
IsAbsorbed(h, g, b, n) ==
    /\ g \in HeapTypes
    /\ g.magic = h.magic /\ g.is_free = h.is_free
    /\ g.blocks = h.blocks \ {n}
    /\ g.size[b] = h.size[b] + HDR + h.size[n]
    /\ g.next[b] = h.next[n]
    /\ \A x \in Addrs \ {b} :
          g.size[x] = h.size[x] /\ g.next[x] = h.next[x]
    /\ \A x \in Addrs :
          g.prev[x] = IF x = h.next[n] THEN b ELSE h.prev[x]
    /\ g.used = h.used /\ g.count = h.count

LEMMA AbsorbFields ==
    ASSUME NEW h \in HeapTypes, NEW b \in Addrs, NEW n \in Addrs
    PROVE  IsAbsorbed(h, Absorb(h, b, n), b, n)
<1> DEFINE s == [h.size EXCEPT ![b] = h.size[b] + HDR + h.size[n]]
           x == [h.next EXCEPT ![b] = h.next[n]]
           p == [z \in Addrs |-> IF z = h.next[n] THEN b ELSE h.prev[z]]
           k == h.blocks \ {n}
           g == Absorb(h, b, n)
<1>1. /\ s \in [Addrs -> Nat] /\ x \in [Addrs -> Addrs \cup {NULL}]
      /\ p \in [Addrs -> Addrs \cup {NULL}] /\ k \in SUBSET Addrs
  BY Fields, Constants
<1>2. s[b] = h.size[b] + HDR + h.size[n] /\ x[b] = h.next[n]
  BY Fields
<1>3. \A y \in Addrs \ {b} : s[y] = h.size[y] /\ x[y] = h.next[y]
  BY Fields
<1>4. \A y \in Addrs : p[y] = IF y = h.next[n] THEN b ELSE h.prev[y]
  OBVIOUS
<1>5. h.prev = [z \in Addrs |-> h.prev[z]]
  BY Fields
<1>6. g = [h EXCEPT !.size = s, !.next = x, !.prev = p, !.blocks = k]
  BY DEF Absorb
<1> HIDE DEF s, x, p
<1>7. [h EXCEPT !.size = s, !.next = x, !.prev = p, !.blocks = k] \in HeapTypes
  BY <1>1 DEF HeapTypes
<1>8. /\ g.magic = h.magic /\ g.is_free = h.is_free /\ g.blocks = k
      /\ g.size = s /\ g.next = x /\ g.prev = p
      /\ g.used = h.used /\ g.count = h.count
  BY <1>6 DEF HeapTypes
<1> HIDE DEF g
<1> QED
  BY <1>2, <1>3, <1>4, <1>6, <1>7, <1>8 DEF g, IsAbsorbed

-----------------------------------------------------------------------------
(* The steps of malloc                                                     *)

(* Cutting a large enough free block leaves a well-formed heap: the cut is *)
(* inside the block, and the header written there destroys no header of    *)
(* another block.                                                          *)
WellCut(h, g, a, n, rem) ==
    /\ WellFormed(g)
    /\ rem \in Addrs /\ rem \notin h.blocks /\ rem # a
    /\ g.blocks = h.blocks \cup {rem}
    /\ g.size[a] = n /\ g.next[a] = rem /\ g.next[rem] = h.next[a]
    /\ g.is_free[rem] = TRUE
    /\ \A x \in h.blocks : g.is_free[x] = h.is_free[x]
    /\ \A x \in h.blocks \ {a} :
          g.size[x] = h.size[x] /\ g.next[x] = h.next[x]
    /\ g.used = h.used /\ g.count = h.count

LEMMA SplitWell ==
    ASSUME NEW h, WellFormed(h), NEW a \in h.blocks, h.is_free[a] = TRUE,
           NEW n \in Aligned, n \in Nat, n > 0,
           h.size[a] >= n + HDR + HEAP_ALIGNMENT
    PROVE  WellCut(h, Split(h, a, n), a, n, a + HDR + n)
<1> DEFINE g == Split(h, a, n)
           rem == a + HDR + n
<1>1. h \in HeapTypes /\ Tiled(h) /\ BackLinked(h) /\ HeadersSound(h)
  BY DEF WellFormed
<1>2. \A x \in h.blocks :
         /\ x \in Addrs /\ x \in Nat /\ h.size[x] \in Nat
         /\ End(h, x) = x + HDR + h.size[x]
         /\ End(h, x) > x + HDR /\ End(h, x) <= HEAP_TOTAL
         /\ End(h, x) \in Nat
         /\ h.next[x] # NULL => h.next[x] \in h.blocks /\ h.next[x] = End(h, x)
  BY Geometry
<1>3. rem \in Nat /\ rem > a /\ rem + HDR < End(h, a) /\ rem \in Addrs
  BY <1>2, Constants DEF Addrs
<1>4. \A x, y \in h.blocks : x < y => End(h, x) <= y
  BY <1>1 DEF Tiled
<1>5. rem \notin h.blocks
  BY <1>2, <1>3, <1>4, Constants
<1>split. IsSplit(h, g, a, n, rem)
  <2>1. h \in HeapTypes /\ a \in Addrs
    BY <1>1, <1>2
  <2>2. a + HDR + n \in Addrs /\ h.size[a] >= n + HDR
    BY <1>2, <1>3, Constants
  <2> QED
    BY <2>1, <2>2, SplitFields
<1> HIDE DEF g
<1>6. /\ g \in HeapTypes
      /\ g.magic = (h.magic \ ((rem + 1)..(rem + HDR - 1))) \cup {rem}
      /\ g.blocks = h.blocks \cup {rem}
      /\ g.size[rem] = h.size[a] - n - HDR /\ g.size[a] = n
      /\ g.next[rem] = h.next[a] /\ g.next[a] = rem
      /\ \A x \in Addrs \ {a, rem} :
            g.size[x] = h.size[x] /\ g.next[x] = h.next[x]
      /\ g.is_free[rem] = TRUE
      /\ \A x \in Addrs \ {rem} : g.is_free[x] = h.is_free[x]
      /\ g.prev[rem] = a
      /\ \A x \in Addrs \ {rem} :
            g.prev[x] = IF x = h.next[a] THEN rem ELSE h.prev[x]
      /\ g.used = h.used /\ g.count = h.count
  BY <1>split DEF IsSplit
<1>7. /\ End(g, rem) = End(h, a) /\ End(g, a) = rem
      /\ \A x \in h.blocks \ {a} : End(g, x) = End(h, x)
  BY <1>2, <1>3, <1>5, <1>6, Constants DEF End
<1>8. Tiled(g)
  <2>1. 0 \in g.blocks
    BY <1>1, <1>6 DEF Tiled
  <2>2. ASSUME NEW x \in g.blocks
        PROVE  \/ End(g, x) = HEAP_TOTAL /\ g.next[x] = NULL
               \/ End(g, x) \in g.blocks /\ g.next[x] = End(g, x)
    <3>1. \A y \in h.blocks :
             \/ End(h, y) = HEAP_TOTAL /\ h.next[y] = NULL
             \/ End(h, y) \in h.blocks /\ h.next[y] = End(h, y)
      BY <1>1 DEF Tiled
    <3>2. CASE x = rem
      BY <3>1, <3>2, <1>6, <1>7
    <3>3. CASE x = a
      BY <3>3, <1>6, <1>7
    <3>4. CASE x \in h.blocks \ {a}
      BY <3>1, <3>4, <1>2, <1>5, <1>6, <1>7
    <3> QED
      BY <3>2, <3>3, <3>4, <1>6
  <2>3. ASSUME NEW x \in g.blocks, NEW y \in g.blocks, x < y
        PROVE  End(g, x) <= y
    <3>1. CASE x = rem
      BY <2>3, <3>1, <1>2, <1>3, <1>4, <1>6, <1>7
    <3>2. CASE y = rem
      BY <2>3, <3>2, <1>2, <1>3, <1>4, <1>6, <1>7, Constants
    <3>3. CASE x \in h.blocks /\ y \in h.blocks /\ x = a
      BY <2>3, <3>3, <1>2, <1>3, <1>4, <1>7, Constants
    <3>4. CASE x \in h.blocks \ {a} /\ y \in h.blocks
      BY <2>3, <3>4, <1>4, <1>7
    <3> QED
      BY <3>1, <3>2, <3>3, <3>4, <1>6
  <2> QED
    BY <2>1, <2>2, <2>3 DEF Tiled
<1>9. BackLinked(g)
  <2>1. /\ h.prev[0] = NULL
        /\ \A y \in h.blocks \ {0} :
              h.prev[y] \in h.blocks /\ h.next[h.prev[y]] = y
        /\ \A y \in h.blocks : h.next[y] # NULL => h.prev[h.next[y]] = y
    BY <1>1 DEF BackLinked
  <2>2. g.prev[0] = NULL
    BY <2>1, <1>2, <1>3, <1>6, Constants
  <2>3. ASSUME NEW y \in g.blocks \ {0}
        PROVE  g.prev[y] \in g.blocks /\ g.next[g.prev[y]] = y
    <3>1. CASE y = rem
      BY <3>1, <1>6
    <3>2. CASE y # rem /\ y = h.next[a]
      BY <3>2, <1>2, <1>6
    <3>3. CASE y # rem /\ y # h.next[a]
      <4>1. y \in h.blocks \ {0} /\ y \in Addrs \ {rem}
        BY <3>3, <1>2, <1>6
      <4>2. g.prev[y] = h.prev[y] /\ h.prev[y] \in h.blocks \ {a}
        BY <4>1, <3>3, <2>1, <1>6
      <4> QED
        BY <4>1, <4>2, <2>1, <1>2, <1>5, <1>6
    <3> QED
      BY <3>1, <3>2, <3>3
  <2>4. ASSUME NEW y \in g.blocks, g.next[y] # NULL
        PROVE  g.prev[g.next[y]] = y
    <3>1. CASE y = a
      BY <3>1, <1>6
    <3>2. CASE y = rem
      BY <2>4, <3>2, <1>2, <1>5, <1>6
    <3>3. CASE y \in h.blocks \ {a}
      <4>1. g.next[y] = h.next[y]
        BY <3>3, <1>2, <1>5, <1>6
      <4>2. h.next[y] \in h.blocks /\ h.prev[h.next[y]] = y
        BY <2>4, <4>1, <3>3, <2>1, <1>2
      <4>3. h.next[y] # h.next[a]
        BY <2>4, <4>1, <4>2, <3>3, <2>1
      <4> QED
        BY <4>1, <4>2, <4>3, <1>2, <1>5, <1>6
    <3> QED
      BY <3>1, <3>2, <3>3, <1>6
  <2> QED
    BY <2>2, <2>3, <2>4 DEF BackLinked
<1>10. HeadersSound(g)
  <2>1. /\ h.blocks \subseteq h.magic
        /\ \A x \in (h.magic \ h.blocks) \ mangled : h.is_free[x]
    BY <1>1 DEF HeadersSound
  <2>2. ASSUME NEW x \in h.blocks
        PROVE  x \notin (rem + 1)..(rem + HDR - 1)
    <3>1. x <= a \/ End(h, a) <= x
      BY <1>2, <1>4
    <3> QED
      BY <3>1, <1>2, <1>3, Constants
  <2>3. g.blocks \subseteq g.magic
    BY <2>1, <2>2, <1>6
  <2>4. \A x \in (g.magic \ g.blocks) \ mangled : g.is_free[x]
    BY <2>1, <1>1, <1>6, Fields
  <2> QED
    BY <2>3, <2>4 DEF HeadersSound
<1>11. \A x \in g.blocks : g.size[x] > 0
  BY <1>2, <1>5, <1>6, Constants DEF WellFormed
<1>12. \A x \in h.blocks : g.is_free[x] = h.is_free[x]
  BY <1>2, <1>5, <1>6
<1>13. \A x \in h.blocks \ {a} : g.size[x] = h.size[x] /\ g.next[x] = h.next[x]
  BY <1>2, <1>5, <1>6
<1>14. g.blocks \subseteq Aligned
  <2>1. h.blocks \subseteq Aligned
    BY DEF WellFormed
  <2>2. a + HDR + n \in Aligned
    BY <2>1, AlignedSum, HeaderAligned
  <2> QED
    BY <2>1, <2>2, <1>6
<1>15. WellFormed(g)
  BY <1>6, <1>8, <1>9, <1>10, <1>11, <1>14 DEF WellFormed
<1> QED
  BY <1>3, <1>5, <1>6, <1>12, <1>13, <1>15 DEF g, WellCut

(* Marking a block on the list changes nothing of the list.                *)
LEMMA MarkedWell ==
    ASSUME NEW h, WellFormed(h), NEW a \in h.blocks, NEW mark \in BOOLEAN,
           NEW g, IsMarked(h, g, a, mark)
    PROVE  WellFormed(g)
<1>1. h \in HeapTypes /\ Tiled(h) /\ BackLinked(h) /\ HeadersSound(h)
  BY DEF WellFormed
<1>2. /\ g \in HeapTypes
      /\ g.magic = h.magic /\ g.blocks = h.blocks /\ g.size = h.size
      /\ g.next = h.next /\ g.prev = h.prev
      /\ \A x \in Addrs \ {a} : g.is_free[x] = h.is_free[x]
  BY DEF IsMarked
<1>3. Tiled(g)
  BY <1>1, <1>2 DEF Tiled, End
<1>4. BackLinked(g)
  BY <1>1, <1>2 DEF BackLinked
<1>5. HeadersSound(g)
  BY <1>1, <1>2, Fields DEF HeadersSound
<1> QED
  BY <1>2, <1>3, <1>4, <1>5 DEF WellFormed

-----------------------------------------------------------------------------
(* The steps of free                                                       *)

(* Swallowing a free successor leaves a well-formed heap.                  *)
WellAbsorbed(h, g, b) ==
    /\ WellFormed(g)
    /\ \A x \in g.blocks \ {b} :
          g.size[x] = h.size[x] /\ g.next[x] = h.next[x]
    /\ g.used = h.used /\ g.count = h.count

LEMMA AbsorbWell ==
    ASSUME NEW h, WellFormed(h), NEW b \in h.blocks,
           h.next[b] # NULL, h.is_free[h.next[b]] = TRUE,
           NEW n, n = h.next[b], NEW g, IsAbsorbed(h, g, b, n)
    PROVE  WellAbsorbed(h, g, b)
<1>1. h \in HeapTypes /\ Tiled(h) /\ BackLinked(h) /\ HeadersSound(h)
  BY DEF WellFormed
<1>2. \A x \in h.blocks :
         /\ x \in Addrs /\ x \in Nat /\ h.size[x] \in Nat
         /\ End(h, x) = x + HDR + h.size[x]
         /\ End(h, x) > x + HDR /\ End(h, x) <= HEAP_TOTAL
         /\ End(h, x) \in Nat
         /\ h.next[x] # NULL => h.next[x] \in h.blocks /\ h.next[x] = End(h, x)
  BY Geometry
<1>3. n \in h.blocks /\ n = End(h, b) /\ n > b /\ n \in Addrs /\ n \in Nat
  BY <1>2, Constants
<1>4. /\ g \in HeapTypes /\ g.used = h.used /\ g.count = h.count
      /\ g.magic = h.magic /\ g.is_free = h.is_free
      /\ g.blocks = h.blocks \ {n}
      /\ g.size[b] = h.size[b] + HDR + h.size[n]
      /\ g.next[b] = h.next[n]
      /\ \A x \in Addrs \ {b} :
            g.size[x] = h.size[x] /\ g.next[x] = h.next[x]
      /\ \A x \in Addrs :
            g.prev[x] = IF x = h.next[n] THEN b ELSE h.prev[x]
  BY DEF IsAbsorbed
<1>5. \A x, y \in h.blocks : x < y => End(h, x) <= y
  BY <1>1 DEF Tiled
<1>6. /\ End(g, b) = End(h, n)
      /\ \A x \in h.blocks \ {b} : End(g, x) = End(h, x)
  BY <1>2, <1>3, <1>4, Constants DEF End
<1>7. /\ h.prev[0] = NULL
      /\ \A y \in h.blocks \ {0} :
            h.prev[y] \in h.blocks /\ h.next[h.prev[y]] = y
      /\ \A y \in h.blocks : h.next[y] # NULL => h.prev[h.next[y]] = y
  BY <1>1 DEF BackLinked
(* Only b links to n.                                                      *)
<1>8. \A x \in h.blocks : h.next[x] = n => x = b
  <2>1. n # NULL /\ h.prev[n] = b
    BY <1>7
  <2> QED
    BY <2>1, <1>7
<1>9. Tiled(g)
  <2>1. 0 \in g.blocks
    BY <1>1, <1>2, <1>3, <1>4 DEF Tiled
  <2>2. ASSUME NEW x \in g.blocks
        PROVE  \/ End(g, x) = HEAP_TOTAL /\ g.next[x] = NULL
               \/ End(g, x) \in g.blocks /\ g.next[x] = End(g, x)
    <3>1. \A y \in h.blocks :
             \/ End(h, y) = HEAP_TOTAL /\ h.next[y] = NULL
             \/ End(h, y) \in h.blocks /\ h.next[y] = End(h, y)
      BY <1>1 DEF Tiled
    <3>2. CASE x = b
      <4>1. End(h, n) # n
        BY <1>2, <1>3, Constants
      <4> QED
        BY <3>1, <3>2, <4>1, <1>3, <1>4, <1>6
    <3>3. CASE x # b
      BY <3>1, <3>3, <1>2, <1>4, <1>6, <1>8
    <3> QED
      BY <3>2, <3>3
  <2>3. ASSUME NEW x \in g.blocks, NEW y \in g.blocks, x < y
        PROVE  End(g, x) <= y
    <3>1. CASE x = b
      <4>1. n <= y /\ y # n
        BY <2>3, <3>1, <1>3, <1>4, <1>5
      <4>2. n < y
        BY <4>1, <1>2, <1>3, <1>4
      <4> QED
        BY <3>1, <4>2, <1>3, <1>4, <1>5, <1>6
    <3>2. CASE x # b
      BY <2>3, <3>2, <1>4, <1>5, <1>6
    <3> QED
      BY <3>1, <3>2
  <2> QED
    BY <2>1, <2>2, <2>3 DEF Tiled
<1>10. BackLinked(g)
  <2>1. 0 \in h.blocks
    BY <1>1 DEF Tiled
  <2>2. g.prev[0] = NULL
    BY <1>2, <1>3, <1>4, <1>7, <2>1, Constants
  <2>3. ASSUME NEW y \in g.blocks \ {0}
        PROVE  g.prev[y] \in g.blocks /\ g.next[g.prev[y]] = y
    <3>1. CASE y = h.next[n]
      BY <3>1, <1>2, <1>3, <1>4, <2>3
    <3>2. CASE y # h.next[n]
      <4>1. y \in h.blocks \ {0} /\ y # n /\ g.prev[y] = h.prev[y]
        BY <3>2, <1>2, <1>4
      <4>2. h.prev[y] # n /\ h.prev[y] \in h.blocks /\ h.next[h.prev[y]] = y
        BY <3>2, <4>1, <1>7
      <4>3. h.prev[y] # b
        BY <4>1, <4>2
      <4> QED
        BY <4>1, <4>2, <4>3, <1>2, <1>4
    <3> QED
      BY <3>1, <3>2
  <2>4. ASSUME NEW y \in g.blocks, g.next[y] # NULL
        PROVE  g.prev[g.next[y]] = y
    <3>1. CASE y = b
      BY <2>4, <3>1, <1>2, <1>3, <1>4
    <3>2. CASE y # b
      <4>1. /\ y \in h.blocks /\ g.next[y] = h.next[y]
            /\ h.next[y] \in h.blocks /\ h.prev[h.next[y]] = y /\ y # n
        BY <2>4, <3>2, <1>2, <1>4, <1>7
      <4>2. h.next[y] # h.next[n]
        BY <2>4, <4>1, <1>3, <1>7
      <4> QED
        BY <4>1, <4>2, <1>2, <1>4
    <3> QED
      BY <3>1, <3>2
  <2> QED
    BY <2>2, <2>3, <2>4 DEF BackLinked
<1>11. HeadersSound(g)
  BY <1>1, <1>4 DEF HeadersSound
<1>12. \A x \in g.blocks : g.size[x] > 0
  BY <1>2, <1>3, <1>4, Constants DEF WellFormed
<1>13. \A x \in g.blocks \ {b} :
          g.size[x] = h.size[x] /\ g.next[x] = h.next[x]
  BY <1>2, <1>4
<1>14. WellFormed(g)
  BY <1>4, <1>9, <1>10, <1>11, <1>12 DEF WellFormed
<1> QED
  BY <1>4, <1>13, <1>14 DEF WellAbsorbed

-----------------------------------------------------------------------------
(* What the calls do to the set of allocated blocks                        *)

(* The heap g is sound, its allocated blocks are those in A, and blocks    *)
(* that were allocated in h have kept their sizes.                         *)
Effect(h, g, A) ==
    /\ HeapOK(g)
    /\ Allocated(g) = A
    /\ \A x \in A \cap Allocated(h) : g.size[x] = h.size[x]

(* The result r of a call that allocates n bytes.                          *)
IsAllocation(h, r, n) ==
    \/ r.ptr = NULL /\ r.heap = h
    \/ \E a \in Addrs \ Allocated(h) :
          /\ n > 0 /\ r.ptr = a + HDR
          /\ Effect(h, r.heap, Allocated(h) \cup {a})
          /\ r.heap.size[a] >= n

(* The result g of releasing p.                                            *)
IsRelease(h, g, p) ==
    /\ p - HDR \in Allocated(h) => Effect(h, g, Allocated(h) \ {p - HDR})
    /\ p - HDR \notin Allocated(h) => g = h

(* Free neighbours can only meet at b.                                     *)
CoalescedBut(h, b) ==
    \A x \in h.blocks :
       (h.is_free[x] /\ h.next[x] # NULL /\ x # b /\ h.next[x] # b)
          => ~h.is_free[h.next[x]]

(* After the optional cut, block a is still free and its neighbours are    *)
(* the only ones that may be.                                              *)
IsFitted(h, g, a, k) ==
    /\ WellFormed(g) /\ CoalescedBut(g, a)
    /\ a \in g.blocks /\ g.size[a] >= k
    /\ Allocated(g) = Allocated(h) /\ Accounted(g)
    /\ \A x \in Allocated(h) : g.size[x] = h.size[x]

LEMMA SplitIfWorthEffect ==
    ASSUME NEW h, HeapOK(h), NEW a \in h.blocks, h.is_free[a] = TRUE,
           NEW k \in Aligned, k \in Nat, k > 0, h.size[a] >= k
    PROVE  IsFitted(h, SplitIfWorth(h, a, k), a, k)
<1>1. WellFormed(h) /\ Coalesced(h) /\ Accounted(h) /\ h \in HeapTypes
  BY DEF HeapOK, WellFormed
<1>2. \A x \in h.blocks :
         /\ x \in Addrs /\ x \in Nat /\ h.size[x] \in Nat
         /\ h.next[x] # NULL => h.next[x] \in h.blocks /\ h.next[x] > x
  BY <1>1, Geometry, Constants
<1>3. CASE h.size[a] < k + HDR + HEAP_ALIGNMENT
  <2>1. SplitIfWorth(h, a, k) = h
    BY <1>2, <1>3, Constants DEF SplitIfWorth
  <2>2. CoalescedBut(h, a)
    BY <1>1 DEF Coalesced, CoalescedBut
  <2> QED
    BY <1>1, <1>2, <2>1, <2>2 DEF IsFitted
<1>4. CASE h.size[a] >= k + HDR + HEAP_ALIGNMENT
  <2> DEFINE g == Split(h, a, k)
             rem == a + HDR + k
  <2>1. SplitIfWorth(h, a, k) = g
    BY <1>2, <1>4, Constants DEF SplitIfWorth
  <2>cut. WellCut(h, g, a, k, rem)
    BY <1>1, <1>4, SplitWell
  <2> HIDE DEF g, rem
  <2>2. /\ WellFormed(g)
        /\ rem \in Addrs /\ rem \notin h.blocks /\ rem # a
        /\ g.blocks = h.blocks \cup {rem}
        /\ g.size[a] = k /\ g.next[a] = rem /\ g.next[rem] = h.next[a]
        /\ g.is_free[rem] = TRUE
        /\ \A x \in h.blocks : g.is_free[x] = h.is_free[x]
        /\ \A x \in h.blocks \ {a} :
              g.size[x] = h.size[x] /\ g.next[x] = h.next[x]
        /\ g.used = h.used /\ g.count = h.count
    BY <2>cut DEF WellCut
  <2>3. CoalescedBut(g, a)
    <3>1. ASSUME NEW x \in g.blocks, g.is_free[x], g.next[x] # NULL,
                 x # a, g.next[x] # a
          PROVE  ~g.is_free[g.next[x]]
      <4>1. CASE x = rem
        BY <3>1, <4>1, <1>1, <1>2, <2>2 DEF Coalesced
      <4>2. CASE x \in h.blocks
        BY <3>1, <4>2, <1>1, <1>2, <2>2 DEF Coalesced
      <4> QED
        BY <4>1, <4>2, <2>2
    <3> QED
      BY <3>1 DEF CoalescedBut
  <2>4. Allocated(g) = Allocated(h)
    BY <2>2 DEF Allocated
  <2>5. \A x \in Allocated(h) : g.size[x] = h.size[x]
    BY <2>2 DEF Allocated
  <2>6. a \in g.blocks /\ g.size[a] >= k
    BY <2>2
  <2>7. Accounted(g)
    <3>1. g \in HeapTypes
      BY <2>2 DEF WellFormed
    <3> QED
      BY <1>1, <2>2, <2>4, <2>5, <3>1, AccountedSame
  <2> QED
    BY <2>1, <2>2, <2>3, <2>4, <2>5, <2>6, <2>7 DEF IsFitted
<1> QED
  BY <1>2, <1>3, <1>4, Constants

LEMMA MallocEffect ==
    ASSUME NEW h, HeapOK(h), NEW n \in Nat, Below(n)
    PROVE  IsAllocation(h, malloc(h, n), n)
<1> DEFINE k == HEAP_ALIGN(n)
           a == FirstFit(h, k)
           s == SplitIfWorth(h, a, k)
           g == Take(s, a)
<1>1. k \in Aligned /\ k \in Nat /\ k >= n
  BY AlignUp
<1> HIDE DEF k
<1>2. CASE n = 0 \/ Fits(h, k) = {}
  <2>1. malloc(h, n) = [heap |-> h, ptr |-> NULL]
    BY <1>2 DEF malloc, k
  <2> QED
    BY <2>1 DEF IsAllocation
<1>3. CASE n > 0 /\ Fits(h, k) # {}
  <2>1. malloc(h, n) = [heap |-> g, ptr |-> a + HDR]
    BY <1>3 DEF malloc, k
  <2>2. h \in HeapTypes
    BY DEF HeapOK, WellFormed
  <2>3. a \in Fits(h, k)
    BY <1>1, <1>3, <2>2, FirstFits
  <2> HIDE DEF a
  <2>4. a \in h.blocks /\ h.is_free[a] = TRUE /\ h.size[a] >= k /\ a \in Addrs
    BY <2>2, <2>3, Fields DEF Fits
  <2>fit. IsFitted(h, s, a, k)
    <3>1. k > 0 /\ h.is_free[a] = TRUE /\ h.size[a] >= k
      BY <1>1, <1>3, <2>4
    <3> QED
      BY <1>1, <2>4, <3>1, SplitIfWorthEffect
  <2> HIDE DEF s
  <2>5. /\ WellFormed(s) /\ CoalescedBut(s, a)
        /\ a \in s.blocks /\ s.size[a] >= k
        /\ Allocated(s) = Allocated(h) /\ Accounted(s)
        /\ \A x \in Allocated(h) : s.size[x] = h.size[x]
    BY <2>fit DEF IsFitted
  <2>6. s \in HeapTypes
    BY <2>5 DEF WellFormed
  <2>taken. IsTaken(s, g, a)
    BY <2>4, <2>6, TakeFields
  <2> HIDE DEF g
  <2>7. /\ IsMarked(s, g, a, FALSE)
        /\ g.used = s.used + s.size[a] /\ g.count = s.count + 1
    BY <2>taken DEF IsTaken
  <2>8. WellFormed(g)
    BY <2>5, <2>7, MarkedWell
  <2>9. /\ g.blocks = s.blocks /\ g.size = s.size /\ g.next = s.next
        /\ g.is_free[a] = FALSE
        /\ \A x \in Addrs \ {a} : g.is_free[x] = s.is_free[x]
    BY <2>7 DEF IsMarked
  <2>10. s.blocks \subseteq Addrs /\ s.next \in [Addrs -> Addrs \cup {NULL}]
    BY <2>6, Fields
  <2>11. Coalesced(g)
    BY <2>5, <2>9, <2>10 DEF Coalesced, CoalescedBut
  <2>12. Allocated(g) = Allocated(h) \cup {a}
    BY <2>5, <2>9, <2>10 DEF Allocated
  <2>13. a \notin Allocated(h)
    BY <2>4 DEF Allocated
  <2>accounted. Accounted(g)
    <3>1. g \in HeapTypes /\ a \in Addrs \ Allocated(s)
      BY <2>4, <2>5, <2>8, <2>13 DEF WellFormed
    <3>2. g.used = s.used + g.size[a] /\ g.count = s.count + 1
      BY <2>7, <2>9
    <3>3. Allocated(g) = Allocated(s) \cup {a}
      BY <2>5, <2>12
    <3>4. \A x \in Allocated(s) : g.size[x] = s.size[x]
      BY <2>9
    <3> QED
      BY <2>5, <2>6, <3>1, <3>2, <3>3, <3>4, AccountedTake
  <2>14. Effect(h, g, Allocated(h) \cup {a})
    BY <2>5, <2>8, <2>9, <2>11, <2>12, <2>13, <2>accounted DEF Effect, HeapOK
  <2>15. g.size[a] >= n
    <3>1. g.size[a] \in Nat
      BY <2>4, <2>8, Fields DEF WellFormed
    <3> QED
      BY <3>1, <1>1, <2>5, <2>9
  <2>16. a \in Addrs \ Allocated(h)
    BY <2>4, <2>13
  <2> DEFINE r == malloc(h, n)
  <2>17. r.ptr = a + HDR /\ r.heap = g
    BY <2>1
  <2> HIDE DEF g, r
  <2>18. IsAllocation(h, r, n)
    BY <1>3, <2>14, <2>15, <2>16, <2>17 DEF IsAllocation
  <2> QED
    BY <2>18 DEF r
<1> QED
  BY <1>2, <1>3

(* Merging with the successor leaves b as the only block whose predecessor *)
(* may be free as well.                                                    *)
IsMergedNext(h, g, b) ==
    /\ WellFormed(g) /\ b \in g.blocks /\ g.is_free[b] = TRUE
    /\ \A x \in g.blocks :
          (g.is_free[x] /\ g.next[x] # NULL /\ g.next[x] # b)
             => ~g.is_free[g.next[x]]
    /\ Allocated(g) = Allocated(h) /\ Accounted(g)
    /\ \A x \in Allocated(h) : g.size[x] = h.size[x]

LEMMA MergeNextEffect ==
    ASSUME NEW h, WellFormed(h), Accounted(h), NEW b \in h.blocks, h.is_free[b] = TRUE,
           CoalescedBut(h, b)
    PROVE  IsMergedNext(h, MergeNext(h, b), b)
<1> DEFINE n == h.next[b]
           g == Absorb(h, b, n)
<1>1. h \in HeapTypes /\ b \in Addrs
  BY Geometry DEF WellFormed
<1>2. \A x \in h.blocks :
         /\ x \in Addrs /\ x \in Nat
         /\ h.next[x] # NULL => h.next[x] \in h.blocks /\ h.next[x] > x
  BY Geometry, Constants
<1>3. CASE ~(n # NULL /\ h.is_free[n])
  <2>1. MergeNext(h, b) = h
    BY <1>3 DEF MergeNext
  <2> QED
    BY <1>3, <2>1 DEF CoalescedBut, IsMergedNext
<1>4. CASE n # NULL /\ h.is_free[n]
  <2>1. MergeNext(h, b) = g
    BY <1>4 DEF MergeNext
  <2>2. n \in h.blocks /\ n \in Addrs /\ n > b
    BY <1>2, <1>4
  <2>3. h.is_free[n] = TRUE
    BY <1>1, <1>4, <2>2, Fields
  <2>4. IsAbsorbed(h, g, b, n)
    BY <1>1, <2>2, AbsorbFields
  <2> HIDE DEF g
  <2>abs. WellAbsorbed(h, g, b)
    BY <1>4, <2>3, <2>4, AbsorbWell
  <2>5. /\ WellFormed(g)
        /\ \A x \in g.blocks \ {b} :
              g.size[x] = h.size[x] /\ g.next[x] = h.next[x]
    BY <2>abs DEF WellAbsorbed
  <2>counters. g.used = h.used /\ g.count = h.count /\ g \in HeapTypes
    BY <2>abs DEF WellAbsorbed, WellFormed
  <2>6. /\ g.is_free = h.is_free /\ g.blocks = h.blocks \ {n}
        /\ g.next[b] = h.next[n]
    BY <2>4 DEF IsAbsorbed
  <2>7. b # n
    BY <1>2, <2>2
  <2>8. ASSUME NEW x \in g.blocks,
               g.is_free[x], g.next[x] # NULL, g.next[x] # b
        PROVE  ~g.is_free[g.next[x]]
    <3>1. CASE x = b
      BY <2>8, <3>1, <1>2, <2>2, <2>3, <2>6, <2>7 DEF CoalescedBut
    <3>2. CASE x # b
      BY <2>8, <3>2, <2>5, <2>6 DEF CoalescedBut
    <3> QED
      BY <3>1, <3>2
  <2>9. Allocated(g) = Allocated(h)
    BY <2>3, <2>6 DEF Allocated
  <2>10. \A x \in Allocated(h) : g.size[x] = h.size[x]
    BY <2>3, <2>5, <2>6 DEF Allocated
  <2>11. Accounted(g)
    BY <1>1, <2>counters, <2>9, <2>10, AccountedSame
  <2> QED
    BY <2>1, <2>5, <2>6, <2>7, <2>8, <2>9, <2>10, <2>11 DEF IsMergedNext
<1> QED
  BY <1>3, <1>4

(* Merging with the predecessor then leaves no free neighbours at all.     *)
LEMMA MergePrevEffect ==
    ASSUME NEW h, WellFormed(h), Accounted(h), NEW b \in h.blocks, h.is_free[b] = TRUE,
           \A x \in h.blocks :
              (h.is_free[x] /\ h.next[x] # NULL /\ h.next[x] # b)
                 => ~h.is_free[h.next[x]]
    PROVE  Effect(h, MergePrev(h, b), Allocated(h))
<1> DEFINE p == h.prev[b]
           g == Absorb(h, p, b)
<1>1. h \in HeapTypes /\ b \in Addrs /\ BackLinked(h) /\ Tiled(h)
  BY Geometry DEF WellFormed
<1>2. \A x \in h.blocks :
         /\ x \in Addrs /\ x \in Nat
         /\ h.next[x] # NULL => h.next[x] \in h.blocks /\ h.next[x] > x
  BY Geometry, Constants
<1>3. /\ h.prev[0] = NULL
      /\ \A y \in h.blocks \ {0} :
            h.prev[y] \in h.blocks /\ h.next[h.prev[y]] = y
      /\ \A y \in h.blocks : h.next[y] # NULL => h.prev[h.next[y]] = y
  BY <1>1 DEF BackLinked
<1>4. CASE ~(p # NULL /\ h.is_free[p])
  <2>1. MergePrev(h, b) = h
    BY <1>4 DEF MergePrev
  <2>2. ASSUME NEW x \in h.blocks, h.is_free[x], h.next[x] # NULL
        PROVE  ~h.is_free[h.next[x]]
    <3>1. CASE h.next[x] = b
      <4>1. p = x
        BY <2>2, <3>1, <1>3
      <4> QED
        BY <2>2, <4>1, <1>2, <1>4, Constants
    <3>2. CASE h.next[x] # b
      BY <2>2, <3>2
    <3> QED
      BY <3>1, <3>2
  <2>3. Coalesced(h)
    BY <2>2 DEF Coalesced
  <2> QED
    BY <2>1, <2>3 DEF Effect, HeapOK
<1>5. CASE p # NULL /\ h.is_free[p]
  <2>1. MergePrev(h, b) = g
    BY <1>5 DEF MergePrev
  <2>2. b # 0 /\ p \in h.blocks /\ h.next[p] = b /\ p \in Addrs /\ b > p
    BY <1>2, <1>3, <1>5, Constants
  <2>3. h.is_free[p] = TRUE
    BY <1>1, <1>5, <2>2, Fields
  <2>4. IsAbsorbed(h, g, p, b)
    BY <1>1, <2>2, AbsorbFields
  <2> HIDE DEF g, p
  <2>5. h.next[p] # NULL
    BY <1>1, <2>2, Constants
  <2>abs. WellAbsorbed(h, g, p)
    <3>1. h.is_free[h.next[p]] = TRUE
      BY <2>2
    <3> QED
      BY <2>2, <2>4, <2>5, <3>1, AbsorbWell
  <2>6. /\ WellFormed(g)
        /\ \A x \in g.blocks \ {p} :
              g.size[x] = h.size[x] /\ g.next[x] = h.next[x]
    BY <2>abs DEF WellAbsorbed
  <2>counters. g.used = h.used /\ g.count = h.count /\ g \in HeapTypes
    BY <2>abs DEF WellAbsorbed, WellFormed
  <2>7. /\ g.is_free = h.is_free /\ g.blocks = h.blocks \ {b}
        /\ g.next[p] = h.next[b]
    BY <2>4 DEF IsAbsorbed
  <2>8. ASSUME NEW x \in g.blocks, g.is_free[x], g.next[x] # NULL
        PROVE  ~g.is_free[g.next[x]]
    <3>1. CASE x = p
      <4>1. h.next[b] # b
        BY <1>2, <2>8, <3>1, <2>7
      <4> QED
        BY <2>8, <3>1, <4>1, <2>7
    <3>2. CASE x # p
      <4>1. x \in h.blocks /\ g.next[x] = h.next[x]
        BY <3>2, <2>6, <2>7
      <4>2. h.next[x] # b
        BY <2>2, <2>5, <2>8, <3>2, <4>1, <1>3
      <4> QED
        BY <2>8, <4>1, <4>2, <2>7
    <3> QED
      BY <3>1, <3>2
  <2>9. Coalesced(g)
    BY <2>8 DEF Coalesced
  <2>10. Allocated(g) = Allocated(h)
    BY <2>7 DEF Allocated
  <2>11. \A x \in Allocated(h) : g.size[x] = h.size[x]
    BY <2>3, <2>6, <2>7 DEF Allocated
  <2>12. Accounted(g)
    BY <1>1, <2>counters, <2>10, <2>11, AccountedSame
  <2> QED
    BY <2>1, <2>6, <2>9, <2>10, <2>11, <2>12 DEF Effect, HeapOK
<1> QED
  BY <1>4, <1>5

LEMMA FreeEffect ==
    ASSUME NEW h, HeapOK(h), NEW p \in Int,
           p - HDR \in mangled => p - HDR \in Allocated(h)
    PROVE  IsRelease(h, free(h, p), p)
<1> DEFINE b == p - HDR
           h1 == Mark(h, b)
           h2 == MergeNext(h1, b)
           h3 == MergePrev(h2, b)
<1>1. /\ WellFormed(h) /\ Coalesced(h) /\ h \in HeapTypes /\ HeadersSound(h)
      /\ Accounted(h)
  BY DEF HeapOK, WellFormed
<1>2. b \in Int /\ p = b + HDR
  BY Constants
<1>3. CASE b \in Allocated(h)
  <2>1. b \in h.blocks /\ ~h.is_free[b]
    BY <1>3 DEF Allocated
  <2>2. b \in Addrs /\ b \in Nat /\ b + HDR < HEAP_TOTAL
    BY <1>1, <2>1, Geometry, Constants
  <2>3. b \in h.magic
    BY <1>1, <2>1 DEF HeadersSound
  <2>4. free(h, p) = h3
    BY <1>2, <2>1, <2>2, <2>3, Constants DEF free, NULL
  <2> HIDE DEF b
  <2>given. IsGivenUp(h, h1, b)
    BY <1>1, <2>2, MarkFields
  <2> HIDE DEF h1
  <2>5. /\ IsMarked(h, h1, b, TRUE)
        /\ h1.used = IF h.used >= h.size[b] THEN h.used - h.size[b] ELSE 0
        /\ h1.count = IF h.count > 0 THEN h.count - 1 ELSE h.count
    BY <2>given DEF IsGivenUp
  <2>6. WellFormed(h1)
    BY <1>1, <2>1, <2>5, MarkedWell
  <2>7. /\ h1.blocks = h.blocks /\ h1.size = h.size /\ h1.next = h.next
        /\ h1.is_free[b] = TRUE
        /\ \A x \in Addrs \ {b} : h1.is_free[x] = h.is_free[x]
    BY <2>5 DEF IsMarked
  <2>8. h.blocks \subseteq Addrs /\ h.next \in [Addrs -> Addrs \cup {NULL}]
    BY <1>1, Fields
  <2>9. CoalescedBut(h1, b)
    BY <1>1, <2>7, <2>8 DEF Coalesced, CoalescedBut
  <2>10. Allocated(h1) = Allocated(h) \ {b}
    BY <2>7, <2>8 DEF Allocated
  <2>accounted. Accounted(h1)
    <3>1. h1 \in HeapTypes
      BY <2>6 DEF WellFormed
    <3>2. \A x \in Allocated(h1) : h1.size[x] = h.size[x]
      BY <2>7
    <3> QED
      BY <1>1, <1>3, <2>5, <2>10, <3>1, <3>2, AccountedRelease
  <2>merged. IsMergedNext(h1, h2, b)
    BY <2>1, <2>6, <2>7, <2>9, <2>accounted, MergeNextEffect
  <2> HIDE DEF h2
  <2>11. /\ WellFormed(h2) /\ b \in h2.blocks /\ h2.is_free[b] = TRUE
         /\ \A x \in h2.blocks :
               (h2.is_free[x] /\ h2.next[x] # NULL /\ h2.next[x] # b)
                  => ~h2.is_free[h2.next[x]]
         /\ Allocated(h2) = Allocated(h1) /\ Accounted(h2)
         /\ \A x \in Allocated(h1) : h2.size[x] = h1.size[x]
    BY <2>merged DEF IsMergedNext
  <2>12. Effect(h2, h3, Allocated(h2))
    BY <2>11, MergePrevEffect
  <2> HIDE DEF h3
  <2>13. Effect(h, h3, Allocated(h) \ {b})
    BY <2>7, <2>10, <2>11, <2>12 DEF Effect
  <2> QED
    BY <1>3, <2>4, <2>13 DEF IsRelease, b
<1>4. CASE b \notin Allocated(h)
  <2>1. CASE p = NULL \/ p < HDR \/ p >= HEAP_TOTAL
    <3>1. free(h, p) = h
      BY <2>1 DEF free
    <3> QED
      BY <1>4, <3>1 DEF IsRelease
  <2>2. CASE ~(p = NULL \/ p < HDR \/ p >= HEAP_TOTAL)
    <3>1. b \notin h.magic \/ h.is_free[b]
      BY <1>1, <1>4 DEF HeadersSound, Allocated, b
    <3>2. free(h, p) = h
      BY <2>2, <3>1 DEF free
    <3> QED
      BY <1>4, <3>2 DEF IsRelease
  <2> QED
    BY <2>1, <2>2
<1> QED
  BY <1>3, <1>4

(* Writing to the payload of an allocated block changes no header on the   *)
(* list.                                                                   *)
LEMMA FillEffect ==
    ASSUME NEW h, HeapOK(h), NEW a \in Allocated(h),
           NEW len \in Nat, len <= h.size[a]
    PROVE  /\ Effect(h, Fill(h, a + HDR, len), Allocated(h))
           /\ Fill(h, a + HDR, len).size = h.size
<1> DEFINE p == a + HDR
           g == Fill(h, p, len)
           m == h.magic \ (p..(p + len - 1))
<1>1. WellFormed(h) /\ Coalesced(h) /\ h \in HeapTypes /\ Accounted(h)
  BY DEF HeapOK, WellFormed
<1>2. Tiled(h) /\ BackLinked(h) /\ HeadersSound(h)
  BY <1>1 DEF WellFormed
<1>3. a \in h.blocks
  BY DEF Allocated
<1>4. g = [h EXCEPT !.magic = m]
  BY DEF Fill
<1>5. m \in SUBSET Addrs
  BY <1>1, Fields
<1>6. g \in HeapTypes
  BY <1>1, <1>4, <1>5 DEF HeapTypes
<1>7. /\ g.magic = m /\ g.blocks = h.blocks /\ g.size = h.size
      /\ g.is_free = h.is_free /\ g.next = h.next /\ g.prev = h.prev
      /\ g.used = h.used /\ g.count = h.count
  BY <1>1, <1>4 DEF HeapTypes
<1>8. ASSUME NEW x \in h.blocks PROVE x \notin p..(p + len - 1)
  <2>1. x \in Nat /\ a \in Nat /\ End(h, a) = a + HDR + h.size[a]
    BY <1>1, <1>3, Geometry
  <2>2. h.size[a] \in Nat
    BY <1>1, <1>3, Geometry
  <2>3. x <= a \/ End(h, a) <= x
    BY <1>2, <1>3, <2>1 DEF Tiled
  <2> QED
    BY <2>1, <2>2, <2>3, Constants
<1> HIDE DEF g
<1>9. HeadersSound(g)
  BY <1>2, <1>7, <1>8 DEF HeadersSound
<1>10. Tiled(g) /\ BackLinked(g) /\ Coalesced(g)
  BY <1>1, <1>2, <1>7 DEF Tiled, BackLinked, Coalesced, End
<1>11. Allocated(g) = Allocated(h)
  BY <1>7 DEF Allocated
<1>12. HeapOK(g)
  <2>1. Accounted(g)
    BY <1>1, <1>6, <1>7, <1>11, AccountedSame
  <2> QED
    BY <1>1, <1>6, <1>7, <1>9, <1>10, <2>1 DEF HeapOK, WellFormed
<1>13. Effect(h, g, Allocated(h)) /\ g.size = h.size
  BY <1>7, <1>11, <1>12 DEF Effect
<1> QED
  BY <1>13 DEF g

(* What calls hand out is not the null pointer.                            *)
LEMMA PointerNotNull ==
    ASSUME NEW a \in Addrs
    PROVE  a + HDR \in Nat /\ a + HDR # NULL /\ a + HDR - HDR = a
  BY Constants DEF NULL

LEMMA CallocEffect ==
    ASSUME NEW h, HeapOK(h), NEW nmemb \in Nat, NEW size \in Nat,
           nmemb * size \in Nat, Below(nmemb * size)
    PROVE  IsAllocation(h, calloc(h, nmemb, size), nmemb * size)
<1> DEFINE n == nmemb * size
           m == malloc(h, n)
           c == calloc(h, nmemb, size)
<1>1. IsAllocation(h, m, n)
  BY MallocEffect
<1>2. CASE nmemb # 0 /\ size > (SIZE_MOD - 1) \div nmemb
  <2>1. c.ptr = NULL /\ c.heap = h
    BY <1>2 DEF calloc
  <2> QED
    BY <2>1 DEF IsAllocation
<1>3. CASE ~(nmemb # 0 /\ size > (SIZE_MOD - 1) \div nmemb) /\ m.ptr = NULL
  <2>1. c = m
    BY <1>3 DEF calloc
  <2> QED
    BY <1>1, <2>1
<1>4. CASE ~(nmemb # 0 /\ size > (SIZE_MOD - 1) \div nmemb) /\ m.ptr # NULL
  <2>1. c = [heap |-> Fill(m.heap, m.ptr, n), ptr |-> m.ptr]
    BY <1>4 DEF calloc
  <2> DEFINE g == Fill(m.heap, m.ptr, n)
  <2>2. c.ptr = m.ptr /\ c.heap = g
    BY <2>1
  <2> HIDE DEF m, c, n
  <2>3. PICK a \in Addrs \ Allocated(h) :
           /\ n > 0 /\ m.ptr = a + HDR
           /\ Effect(h, m.heap, Allocated(h) \cup {a})
           /\ m.heap.size[a] >= n
    BY <1>1, <1>4 DEF IsAllocation
  <2>4. HeapOK(m.heap) /\ a \in Allocated(m.heap) /\ n \in Nat
    BY <2>3 DEF Effect, n
  <2>5. Effect(m.heap, g, Allocated(m.heap)) /\ g.size = m.heap.size
    BY <2>3, <2>4, FillEffect
  <2> HIDE DEF g
  <2>6. Effect(h, g, Allocated(h) \cup {a})
    BY <2>3, <2>5 DEF Effect
  <2>7. IsAllocation(h, c, n)
    BY <2>2, <2>3, <2>5, <2>6 DEF IsAllocation
  <2> QED
    BY <2>7 DEF n, c
<1> QED
  BY <1>2, <1>3, <1>4

(* The result r of resizing the block a that a client holds to n bytes.    *)
IsResizing(h, r, a, n) ==
    \/ n = 0 /\ r.ptr = NULL /\ Effect(h, r.heap, Allocated(h) \ {a})
    \/ n > 0 /\ r.ptr = NULL /\ r.heap = h
    \/ n > 0 /\ r.ptr = a + HDR /\ r.heap = h /\ h.size[a] >= n
    \/ \E b \in Addrs \ Allocated(h) :
          /\ n > 0 /\ r.ptr = b + HDR
          /\ Effect(h, r.heap, (Allocated(h) \cup {b}) \ {a})
          /\ r.heap.size[b] >= n

LEMMA ReallocEffect ==
    ASSUME NEW h, HeapOK(h), NEW a \in Allocated(h), NEW n \in Nat, Below(n)
    PROVE  IsResizing(h, realloc(h, a + HDR, n), a, n)
<1> DEFINE p == a + HDR
           r == realloc(h, p, n)
<1>1. WellFormed(h) /\ HeadersSound(h) /\ a \in h.blocks
  BY DEF HeapOK, WellFormed, Allocated
<1>2. a \in Addrs /\ h.size[a] \in Nat /\ a \in h.magic
  BY <1>1, Geometry DEF HeadersSound
<1>3. p \in Nat /\ p # NULL /\ p - HDR = a
  BY <1>2, Constants DEF NULL
<1>4. CASE n = 0
  <2>1. r = [heap |-> free(h, p), ptr |-> NULL]
    BY <1>3, <1>4 DEF realloc
  <2>2. IsRelease(h, free(h, p), p)
    BY <1>3, FreeEffect
  <2>3. Effect(h, r.heap, Allocated(h) \ {a}) /\ r.ptr = NULL
    BY <1>3, <2>1, <2>2 DEF IsRelease
  <2> HIDE DEF r
  <2>4. IsResizing(h, r, a, n)
    BY <1>4, <2>3 DEF IsResizing
  <2> QED
    BY <2>4 DEF r
<1>5. CASE n > 0 /\ h.size[a] >= n
  <2>1. r = [heap |-> h, ptr |-> p]
    BY <1>2, <1>3, <1>5 DEF realloc
  <2>2. r.heap = h /\ r.ptr = a + HDR
    BY <2>1
  <2> HIDE DEF r
  <2>3. IsResizing(h, r, a, n)
    BY <1>5, <2>2 DEF IsResizing
  <2> QED
    BY <2>3 DEF r
<1>6. CASE n > 0 /\ h.size[a] < n
  <2> DEFINE m == malloc(h, n)
             f == Fill(m.heap, m.ptr, h.size[a])
             g == free(f, p)
  <2>1. r = IF m.ptr = NULL THEN m ELSE [heap |-> g, ptr |-> m.ptr]
    BY <1>2, <1>3, <1>6 DEF realloc
  <2>2. IsAllocation(h, m, n)
    BY MallocEffect
  <2> HIDE DEF m, r
  <2>3. CASE m.ptr = NULL
    <3>1. r.ptr = NULL /\ r.heap = h
      BY <2>1, <2>2, <2>3, PointerNotNull DEF IsAllocation
    <3>2. IsResizing(h, r, a, n)
      BY <1>6, <3>1 DEF IsResizing
    <3> QED
      BY <3>2 DEF r
  <2>4. CASE m.ptr # NULL
    <3>1. PICK b \in Addrs \ Allocated(h) :
             /\ n > 0 /\ m.ptr = b + HDR
             /\ Effect(h, m.heap, Allocated(h) \cup {b})
             /\ m.heap.size[b] >= n
      BY <2>2, <2>4 DEF IsAllocation
    <3>2. HeapOK(m.heap) /\ b \in Allocated(m.heap)
      BY <3>1 DEF Effect
    <3>3. m.heap.size[b] \in Nat
      BY <3>1, <3>2, Fields DEF HeapOK, WellFormed
    <3>4. h.size[a] <= m.heap.size[b]
      BY <1>2, <1>6, <3>1, <3>3
    <3>5. Effect(m.heap, f, Allocated(m.heap)) /\ f.size = m.heap.size
      BY <1>2, <3>1, <3>2, <3>4, FillEffect
    <3> HIDE DEF f
    <3>6. HeapOK(f) /\ Allocated(f) = Allocated(h) \cup {b}
      BY <3>1, <3>5 DEF Effect
    <3>7. Effect(f, g, Allocated(f) \ {a})
      BY <1>3, <3>6, FreeEffect DEF IsRelease
    <3> HIDE DEF g
    <3>8. Effect(h, g, (Allocated(h) \cup {b}) \ {a}) /\ g.size[b] >= n
      BY <3>1, <3>5, <3>6, <3>7 DEF Effect
    <3>9. r.ptr = b + HDR /\ r.heap = g
      BY <2>1, <2>4, <3>1
    <3>10. IsResizing(h, r, a, n)
      BY <3>1, <3>8, <3>9 DEF IsResizing
    <3> QED
      BY <3>10 DEF r
  <2> QED
    BY <2>3, <2>4
<1> QED
  BY <1>2, <1>4, <1>5, <1>6

-----------------------------------------------------------------------------
(* heap_self_test                                                          *)

(* The test holds the blocks of T besides those that were allocated when   *)
(* it began.                                                               *)
Borrowed(h, g, T) ==
    /\ T \subseteq Addrs /\ T \cap Allocated(h) = {}
    /\ Effect(h, g, Allocated(h) \cup T)

(* The allocation r of n bytes has added block a to those in T.            *)
HasBorrowed(h, g, T, r, n, a) ==
    /\ r.ptr = a + HDR /\ r.heap.size[a] >= n
    /\ Borrowed(h, r.heap, T \cup {a})
    /\ \A x \in T : r.heap.size[x] = g.size[x]

LEMMA BorrowMore ==
    ASSUME NEW h, NEW g, NEW T, Borrowed(h, g, T), NEW n,
           NEW r, IsAllocation(g, r, n), r.ptr # NULL
    PROVE  \E a \in Addrs \ T : HasBorrowed(h, g, T, r, n, a)
<1>1. PICK a \in Addrs \ Allocated(g) :
         /\ n > 0 /\ r.ptr = a + HDR
         /\ Effect(g, r.heap, Allocated(g) \cup {a})
         /\ r.heap.size[a] >= n
  BY DEF IsAllocation
<1>2. Allocated(g) = Allocated(h) \cup T
  BY DEF Borrowed, Effect
<1>3. a \notin T /\ a \notin Allocated(h)
  BY <1>1, <1>2
<1>4. Effect(h, r.heap, Allocated(h) \cup (T \cup {a}))
  BY <1>1, <1>2 DEF Effect, Borrowed
<1>5. Borrowed(h, r.heap, T \cup {a})
  BY <1>3, <1>4 DEF Borrowed
<1>6. \A x \in T : r.heap.size[x] = g.size[x]
  BY <1>1, <1>2 DEF Effect
<1> QED
  BY <1>1, <1>3, <1>5, <1>6 DEF HasBorrowed

LEMMA BorrowFails ==
    ASSUME NEW g, NEW n, NEW r, IsAllocation(g, r, n), r.ptr = NULL
    PROVE  r.heap = g
  BY PointerNotNull DEF IsAllocation

LEMMA BorrowFilled ==
    ASSUME NEW h, NEW g, NEW T, Borrowed(h, g, T), NEW a \in T,
           NEW len \in Nat, len <= g.size[a]
    PROVE  /\ Borrowed(h, Fill(g, a + HDR, len), T)
           /\ Fill(g, a + HDR, len).size = g.size
<1> DEFINE f == Fill(g, a + HDR, len)
<1>1. HeapOK(g) /\ Allocated(g) = Allocated(h) \cup T /\ a \in Allocated(g)
  BY DEF Borrowed, Effect
<1>2. Effect(g, f, Allocated(g)) /\ f.size = g.size
  BY <1>1, FillEffect
<1> HIDE DEF f
<1>3. Borrowed(h, f, T) /\ f.size = g.size
  BY <1>1, <1>2 DEF Borrowed, Effect
<1> QED
  BY <1>3 DEF f

LEMMA GiveBack ==
    ASSUME NEW h, NEW g, NEW T, Borrowed(h, g, T), NEW a \in T
    PROVE  Borrowed(h, free(g, a + HDR), T \ {a})
<1> DEFINE f == free(g, a + HDR)
<1>1. HeapOK(g) /\ Allocated(g) = Allocated(h) \cup T /\ a \in Allocated(g)
  BY DEF Borrowed, Effect
<1>2. a \in Addrs /\ a \notin Allocated(h)
  BY DEF Borrowed
<1> DEFINE p == a + HDR
<1>3. p \in Int /\ p - HDR = a
  BY <1>2, Constants
<1> HIDE DEF p
<1> DEFINE k == free(g, p)
<1>rel. IsRelease(g, k, p)
  BY <1>1, <1>3, FreeEffect
<1>same. k = f
  BY DEF p
<1> HIDE DEF f, k
<1>4. Effect(g, f, Allocated(g) \ {a})
  BY <1>1, <1>3, <1>rel, <1>same DEF IsRelease
<1>5. Effect(h, f, Allocated(h) \cup (T \ {a}))
  BY <1>1, <1>2, <1>4 DEF Effect, Borrowed
<1>6. Borrowed(h, f, T \ {a})
  BY <1>2, <1>5 DEF Borrowed
<1> QED
  BY <1>6 DEF f

LEMMA AllGivenBack ==
    ASSUME NEW h, NEW g, Borrowed(h, g, {})
    PROVE  Effect(h, g, Allocated(h))
<1>1. Allocated(h) \cup {} = Allocated(h)
  OBVIOUS
<1> QED
  BY <1>1 DEF Borrowed

(* Whichever exit it takes, the test leaves the allocated blocks and their *)
(* sizes as they were.                                                     *)
LEMMA SelfTestEffect ==
    ASSUME NEW h, HeapOK(h), NoWrap
    PROVE  Effect(h, heap_self_test(h).heap, Allocated(h))
<1> DEFINE m1 == malloc(h, TestSizes[1])
           m2 == malloc(m1.heap, TestSizes[2])
           m3 == malloc(m2.heap, TestSizes[3])
           f1 == Fill(m3.heap, m1.ptr, TestSizes[1])
           f2 == Fill(f1, m2.ptr, TestSizes[2])
           h3 == Fill(f2, m3.ptr, TestSizes[3])
           m4 == calloc(h3, 1, TestSizes[4])
           r1 == realloc(m4.heap, m1.ptr, TestSizes[5])
           t  == heap_self_test(h).heap
<1>1. \A i \in 1..5 :
         TestSizes[i] \in Nat /\ TestSizes[i] > 0 /\ Below(TestSizes[i])
  BY DEF NoWrap
<1>2. Borrowed(h, h, {})
  <2>1. Allocated(h) \cup {} = Allocated(h)
    OBVIOUS
  <2> QED
    BY <2>1 DEF Borrowed, Effect
<1>3. IsAllocation(h, m1, TestSizes[1])
  BY <1>1, MallocEffect
<1>4. CASE m1.ptr = NULL
  <2>1. t = h
    BY <1>4 DEF heap_self_test
  <2> QED
    BY <1>2, <2>1, AllGivenBack
<1>5. CASE m1.ptr # NULL
  <2> HIDE DEF m1
  <2>1. PICK a1 \in Addrs : /\ m1.ptr = a1 + HDR /\ Borrowed(h, m1.heap, {a1})
                            /\ m1.heap.size[a1] >= TestSizes[1]
    <3>1. PICK a \in Addrs \ {} : HasBorrowed(h, h, {}, m1, TestSizes[1], a)
      BY <1>2, <1>3, <1>5, BorrowMore
    <3>2. {} \cup {a} = {a}
      OBVIOUS
    <3> QED
      BY <3>1, <3>2 DEF HasBorrowed
  <2>2. HeapOK(m1.heap)
    BY <2>1 DEF Borrowed, Effect
  <2>3. IsAllocation(m1.heap, m2, TestSizes[2])
    BY <1>1, <2>2, MallocEffect
  <2>4. CASE m2.ptr = NULL
    <3>1. t = free(m2.heap, m1.ptr)
      BY <1>5, <2>4 DEF heap_self_test, m1
    <3>2. m2.heap = m1.heap
      BY <2>3, <2>4, BorrowFails
    <3>3. Borrowed(h, t, {a1} \ {a1})
      BY <2>1, <3>1, <3>2, GiveBack
    <3>4. {a1} \ {a1} = {}
      OBVIOUS
    <3> QED
      BY <3>3, <3>4, AllGivenBack
  <2>5. CASE m2.ptr # NULL
    <3> HIDE DEF m2
    <3>1. PICK a2 \in Addrs \ {a1} :
             /\ m2.ptr = a2 + HDR /\ m2.heap.size[a2] >= TestSizes[2]
             /\ Borrowed(h, m2.heap, {a1} \cup {a2})
             /\ \A x \in {a1} : m2.heap.size[x] = m1.heap.size[x]
      <4>1. Borrowed(h, m1.heap, {a1})
        BY <2>1
      <4>2. \E a \in Addrs \ {a1} :
               HasBorrowed(h, m1.heap, {a1}, m2, TestSizes[2], a)
        BY <2>3, <2>5, <4>1, BorrowMore
      <4> QED
        BY <4>2 DEF HasBorrowed
    <3>2. HeapOK(m2.heap)
      BY <3>1 DEF Borrowed, Effect
    <3>3. IsAllocation(m2.heap, m3, TestSizes[3])
      BY <1>1, <3>2, MallocEffect
    <3>4. CASE m3.ptr = NULL
      <4>1. t = free(free(m3.heap, m1.ptr), m2.ptr)
        BY <1>5, <2>5, <3>4 DEF heap_self_test, m1, m2, Free2
      <4>2. m3.heap = m2.heap
        BY <3>3, <3>4, BorrowFails
      <4>3. Borrowed(h, free(m3.heap, m1.ptr), {a2})
        <5>1. ({a1} \cup {a2}) \ {a1} = {a2}
          BY <3>1
        <5> QED
          BY <2>1, <3>1, <4>2, <5>1, GiveBack
      <4>4. Borrowed(h, t, {a2} \ {a2})
        BY <3>1, <4>1, <4>3, GiveBack
      <4>5. {a2} \ {a2} = {}
        OBVIOUS
      <4> QED
        BY <4>4, <4>5, AllGivenBack
    <3>5. CASE m3.ptr # NULL
      <4> HIDE DEF m3
      <4>1. PICK a3 \in Addrs \ ({a1} \cup {a2}) :
               /\ m3.ptr = a3 + HDR /\ m3.heap.size[a3] >= TestSizes[3]
               /\ Borrowed(h, m3.heap, ({a1} \cup {a2}) \cup {a3})
               /\ \A x \in {a1} \cup {a2} : m3.heap.size[x] = m2.heap.size[x]
        <5>1. Borrowed(h, m2.heap, {a1} \cup {a2})
          BY <3>1
        <5>2. \E a \in Addrs \ ({a1} \cup {a2}) :
                 HasBorrowed(h, m2.heap, {a1} \cup {a2}, m3, TestSizes[3], a)
          BY <3>3, <3>5, <5>1, BorrowMore
        <5> QED
          BY <5>2 DEF HasBorrowed
      <4> DEFINE T == ({a1} \cup {a2}) \cup {a3}
      <4>2. /\ m3.heap.size[a1] >= TestSizes[1]
            /\ m3.heap.size[a2] >= TestSizes[2]
        BY <2>1, <3>1, <4>1
      <4>3. Borrowed(h, f1, T) /\ f1.size = m3.heap.size
        <5>1. a1 \in T /\ m1.ptr = a1 + HDR /\ TestSizes[1] \in Nat
          BY <1>1, <2>1
        <5>2. Borrowed(h, m3.heap, T)
          BY <4>1
        <5> HIDE DEF T
        <5> QED
          BY <4>2, <5>1, <5>2, BorrowFilled
      <4> HIDE DEF f1
      <4>4. Borrowed(h, f2, T) /\ f2.size = m3.heap.size
        BY <1>1, <3>1, <4>2, <4>3, BorrowFilled
      <4> HIDE DEF f2
      <4>5. Borrowed(h, h3, T)
        BY <1>1, <4>1, <4>4, BorrowFilled
      <4> HIDE DEF h3
      <4>6. HeapOK(h3)
        BY <4>5 DEF Borrowed, Effect
      <4>7. IsAllocation(h3, m4, TestSizes[4])
        <5>1. 1 * TestSizes[4] = TestSizes[4]
          BY <1>1
        <5> QED
          BY <1>1, <4>6, <5>1, CallocEffect
      <4>8. ASSUME NEW g, NEW S, Borrowed(h, g, S), a1 \in S, a2 \in S
            PROVE  Borrowed(h, Free2(g, m1.ptr, m2.ptr), S \ {a1, a2})
        <5>1. Borrowed(h, free(g, m1.ptr), S \ {a1})
          BY <2>1, <4>8, GiveBack
        <5>2. a2 \in S \ {a1}
          BY <3>1, <4>8
        <5>3. Borrowed(h, Free2(g, m1.ptr, m2.ptr), (S \ {a1}) \ {a2})
          BY <3>1, <5>1, <5>2, GiveBack DEF Free2
        <5>4. (S \ {a1}) \ {a2} = S \ {a1, a2}
          OBVIOUS
        <5> QED
          BY <5>3, <5>4
      <4>9. CASE m4.ptr = NULL
        <5>1. t = free(Free2(h3, m1.ptr, m2.ptr), m3.ptr)
          BY <1>5, <2>5, <3>5, <4>9 DEF heap_self_test, m1, m2, m3, f1, f2, h3
        <5>2. Borrowed(h, Free2(h3, m1.ptr, m2.ptr), T \ {a1, a2})
          BY <4>5, <4>8
        <5>3. a3 \in T \ {a1, a2} /\ (T \ {a1, a2}) \ {a3} = {}
          BY <4>1
        <5>4. Borrowed(h, t, {})
          BY <4>1, <5>1, <5>2, <5>3, GiveBack
        <5> QED
          BY <5>4, AllGivenBack
      <4>10. CASE m4.ptr # NULL
        <5> HIDE DEF m4
        <5>1. PICK a4 \in Addrs \ T :
                 m4.ptr = a4 + HDR /\ Borrowed(h, m4.heap, T \cup {a4})
          <6>1. \E a \in Addrs \ T :
                   HasBorrowed(h, h3, T, m4, TestSizes[4], a)
            BY <4>5, <4>7, <4>10, BorrowMore
          <6> QED
            BY <6>1 DEF HasBorrowed
        <5> DEFINE U == T \cup {a4}
        <5>2. HeapOK(m4.heap) /\ Allocated(m4.heap) = Allocated(h) \cup U
          BY <5>1 DEF Borrowed, Effect
        <5>3. IsResizing(m4.heap, r1, a1, TestSizes[5])
          BY <1>1, <2>1, <5>2, ReallocEffect
        <5>4. ASSUME NEW g, NEW S, Borrowed(h, g, S), a3 \in S, a4 \in S
              PROVE  Borrowed(h, Free2(g, m3.ptr, m4.ptr), S \ {a3, a4})
          <6>1. Borrowed(h, free(g, m3.ptr), S \ {a3})
            BY <4>1, <5>4, GiveBack
          <6>2. a4 \in S \ {a3}
            BY <5>1, <5>4
          <6>3. Borrowed(h, Free2(g, m3.ptr, m4.ptr), (S \ {a3}) \ {a4})
            BY <5>1, <6>1, <6>2, GiveBack DEF Free2
          <6>4. (S \ {a3}) \ {a4} = S \ {a3, a4}
            OBVIOUS
          <6> QED
            BY <6>3, <6>4
        <5>5. CASE r1.ptr = NULL
          <6>1. t = Free2(Free2(m4.heap, m1.ptr, m2.ptr), m3.ptr, m4.ptr)
            BY <1>5, <2>5, <3>5, <4>10, <5>5
               DEF heap_self_test, m1, m2, m3, m4, f1, f2, h3
          <6>2. Borrowed(h, Free2(m4.heap, m1.ptr, m2.ptr), U \ {a1, a2})
            BY <4>8, <5>1
          <6>3. a3 \in U \ {a1, a2} /\ a4 \in U \ {a1, a2}
            BY <4>1, <5>1
          <6>4. (U \ {a1, a2}) \ {a3, a4} = {}
            OBVIOUS
          <6>5. Borrowed(h, t, {})
            BY <5>4, <6>1, <6>2, <6>3, <6>4
          <6> QED
            BY <6>5, AllGivenBack
        <5>6. CASE r1.ptr # NULL
          <6>1. t = Free2(Free2(r1.heap, r1.ptr, m2.ptr), m3.ptr, m4.ptr)
            BY <1>5, <2>5, <3>5, <4>10, <5>6
               DEF heap_self_test, m1, m2, m3, m4, f1, f2, h3, r1
          <6> HIDE DEF r1, t, T
          (* The resized block is a1, or one nobody held.                  *)
          <6>2. \E b \in Addrs :
                   /\ r1.ptr = b + HDR /\ b \notin {a2, a3, a4}
                   /\ Borrowed(h, r1.heap, {b, a2, a3, a4})
            <7>1. CASE r1.ptr = a1 + HDR /\ r1.heap = m4.heap
              <8>1. U = {a1, a2, a3, a4} /\ a1 \notin {a2, a3, a4}
                BY <3>1, <4>1, <5>1 DEF T
              <8> QED
                BY <2>1, <5>1, <7>1, <8>1
            <7>2. CASE \E b \in Addrs \ Allocated(m4.heap) :
                          /\ r1.ptr = b + HDR
                          /\ Effect(m4.heap, r1.heap,
                                    (Allocated(m4.heap) \cup {b}) \ {a1})
              <8>1. PICK b \in Addrs \ Allocated(m4.heap) :
                       /\ r1.ptr = b + HDR
                       /\ Effect(m4.heap, r1.heap,
                                 (Allocated(m4.heap) \cup {b}) \ {a1})
                BY <7>2
              <8> DEFINE V == {b, a2, a3, a4}
              <8>2. b \notin Allocated(h) /\ b \notin {a1, a2, a3, a4}
                BY <5>2, <8>1 DEF T
              <8>3. U \cap Allocated(h) = {} /\ U \subseteq Addrs
                BY <5>1 DEF Borrowed
              <8>4. V \cap Allocated(h) = {} /\ V \subseteq Addrs
                BY <8>1, <8>2, <8>3 DEF T
              <8>5. (Allocated(m4.heap) \cup {b}) \ {a1} = Allocated(h) \cup V
                BY <3>1, <4>1, <5>1, <5>2, <8>2, <8>3 DEF T
              <8>6. \A x \in Allocated(h) : m4.heap.size[x] = h.size[x]
                BY <5>1 DEF Borrowed, Effect
              <8>7. \A x \in Allocated(h) : r1.heap.size[x] = h.size[x]
                BY <5>2, <8>1, <8>5, <8>6 DEF Effect
              <8>8. Effect(h, r1.heap, Allocated(h) \cup V)
                BY <8>1, <8>5, <8>7 DEF Effect
              <8>9. Borrowed(h, r1.heap, V)
                BY <8>4, <8>8 DEF Borrowed
              <8> QED
                BY <8>1, <8>2, <8>9
            <7> QED
              BY <1>1, <5>3, <5>6, <7>1, <7>2 DEF IsResizing
          <6>3. PICK b \in Addrs : /\ r1.ptr = b + HDR /\ b \notin {a2, a3, a4}
                                   /\ Borrowed(h, r1.heap, {b, a2, a3, a4})
            BY <6>2
          <6>4. Borrowed(h, free(r1.heap, r1.ptr), {a2, a3, a4})
            <7>1. {b, a2, a3, a4} \ {b} = {a2, a3, a4}
              BY <6>3
            <7> QED
              BY <6>3, <7>1, GiveBack
          <6>5. Borrowed(h, Free2(r1.heap, r1.ptr, m2.ptr), {a3, a4})
            <7>1. {a2, a3, a4} \ {a2} = {a3, a4}
              BY <3>1, <4>1, <5>1 DEF T
            <7> QED
              BY <3>1, <6>4, <7>1, GiveBack DEF Free2
          <6>6. {a3, a4} \ {a3, a4} = {}
            OBVIOUS
          <6>7. Borrowed(h, t, {})
            BY <5>4, <6>1, <6>5, <6>6
          <6> QED
            BY <6>7, AllGivenBack DEF t
        <5> QED
          BY <5>5, <5>6
      <4> QED
        BY <4>9, <4>10
    <3> QED
      BY <3>4, <3>5
  <2> QED
    BY <2>4, <2>5
<1> QED
  BY <1>4, <1>5

-----------------------------------------------------------------------------
(* The allocated blocks determine the list                                 *)

(* In a sound heap a free block that is not the first starts where an      *)
(* allocated one ends; so it is on every sound list with the same          *)
(* allocated blocks.                                                       *)
LEMMA FreeBlocksForced ==
    ASSUME NEW h, NEW g, HeapOK(h), HeapOK(g), Allocated(g) = Allocated(h),
           \A x \in Allocated(h) : g.size[x] = h.size[x],
           NEW x \in h.blocks
    PROVE  x \in g.blocks /\ g.is_free[x] = h.is_free[x]
<1>1. /\ WellFormed(h) /\ Coalesced(h) /\ BackLinked(h) /\ h \in HeapTypes
      /\ WellFormed(g) /\ Tiled(g) /\ g \in HeapTypes
  BY DEF HeapOK, WellFormed
<1>2. /\ h.blocks \subseteq Addrs /\ g.blocks \subseteq Addrs
      /\ h.is_free \in [Addrs -> BOOLEAN] /\ g.is_free \in [Addrs -> BOOLEAN]
  BY <1>1, Fields
<1>3. x \in Addrs /\ (x \in Allocated(h) <=> ~h.is_free[x])
  BY <1>2 DEF Allocated
<1>4. \A y \in g.blocks : y \in Allocated(g) <=> ~g.is_free[y]
  BY DEF Allocated
<1>5. x \in g.blocks
  <2>1. CASE x \in Allocated(h)
    BY <2>1 DEF Allocated
  <2>2. CASE x = 0
    BY <1>1, <2>2 DEF Tiled
  <2>3. CASE x \notin Allocated(h) /\ x # 0
    <3> DEFINE q == h.prev[x]
    <3>1. q \in h.blocks /\ h.next[q] = x
      BY <1>1, <2>3 DEF BackLinked
    <3> HIDE DEF q
    <3>2. x # NULL
      BY <1>3, Constants
    <3>3. q \in Allocated(h) /\ q \in Allocated(g) /\ q \in g.blocks
      BY <1>1, <1>3, <2>3, <3>1, <3>2 DEF Coalesced, Allocated
    <3>4. x = End(h, q)
      BY <1>1, <3>1, <3>2, Geometry
    <3>5. End(g, q) = End(h, q)
      BY <3>3 DEF End
    <3>6. x # HEAP_TOTAL
      BY <1>3, Constants DEF Addrs
    <3> QED
      BY <1>1, <3>3, <3>4, <3>5, <3>6 DEF Tiled
  <2> QED
    BY <2>1, <2>2, <2>3
<1>6. g.is_free[x] = h.is_free[x]
  <2>1. g.is_free[x] <=> h.is_free[x]
    BY <1>3, <1>4, <1>5
  <2> QED
    BY <1>2, <1>3, <2>1
<1> QED
  BY <1>5, <1>6

(* Where the blocks of two tilings are the same, so is what ends where.    *)
LEMMA EndsForced ==
    ASSUME NEW h, NEW g, WellFormed(h), WellFormed(g), g.blocks = h.blocks,
           NEW x \in h.blocks
    PROVE  End(g, x) <= End(h, x)
<1>1. Tiled(h) /\ Tiled(g)
  BY DEF WellFormed
<1>2. /\ End(h, x) \in Nat /\ End(h, x) > x + HDR
      /\ End(g, x) \in Nat /\ End(g, x) <= HEAP_TOTAL /\ x \in Nat
  BY Geometry
<1>3. CASE End(h, x) = HEAP_TOTAL
  BY <1>2, <1>3
<1>4. CASE End(h, x) \in h.blocks
  <2>1. x < End(h, x)
    BY <1>2, Constants
  <2> QED
    BY <1>1, <1>4, <2>1 DEF Tiled
<1> QED
  BY <1>1, <1>3, <1>4 DEF Tiled

(* Two sound heaps with the same allocated blocks have the same list.      *)
LEMMA ListForced ==
    ASSUME NEW h, NEW g, HeapOK(h), HeapOK(g), Allocated(g) = Allocated(h),
           \A x \in Allocated(h) : g.size[x] = h.size[x]
    PROVE  View(g) = View(h)
<1>1. /\ WellFormed(h) /\ Tiled(h) /\ BackLinked(h)
      /\ WellFormed(g) /\ Tiled(g) /\ BackLinked(g)
  BY DEF HeapOK, WellFormed
<1>2. /\ \A x \in h.blocks : x \in g.blocks /\ g.is_free[x] = h.is_free[x]
      /\ \A x \in g.blocks : x \in h.blocks
  BY FreeBlocksForced
<1>3. g.blocks = h.blocks
  BY <1>2
<1>4. ASSUME NEW x \in h.blocks
      PROVE  End(g, x) = End(h, x) /\ g.size[x] = h.size[x]
  <2>1. /\ x \in Nat /\ h.size[x] \in Nat /\ g.size[x] \in Nat
        /\ End(h, x) \in Nat /\ End(g, x) \in Nat
        /\ End(h, x) = x + HDR + h.size[x] /\ End(g, x) = x + HDR + g.size[x]
    BY <1>1, <1>3, Geometry
  <2>2. End(g, x) <= End(h, x) /\ End(h, x) <= End(g, x)
    BY <1>1, <1>3, EndsForced
  <2> QED
    BY <2>1, <2>2, Constants
<1>5. ASSUME NEW x \in h.blocks PROVE g.next[x] = h.next[x]
  <2>1. h.blocks \subseteq Addrs /\ HEAP_TOTAL \notin Addrs
    BY <1>1, Geometry, Constants DEF Addrs
  <2> QED
    BY <1>1, <1>3, <1>4, <2>1 DEF Tiled
<1>6. ASSUME NEW x \in h.blocks PROVE g.prev[x] = h.prev[x]
  <2>1. CASE x = 0
    BY <1>1, <2>1 DEF BackLinked
  <2>2. CASE x # 0
    <3> DEFINE q == h.prev[x]
    <3>1. q \in h.blocks /\ h.next[q] = x
      BY <1>1, <2>2 DEF BackLinked
    <3>2. x # NULL
      BY <1>1, Geometry, Constants
    <3>3. g.prev[g.next[q]] = q
      BY <1>1, <1>3, <1>5, <3>1, <3>2 DEF BackLinked
    <3> QED
      BY <1>5, <3>1, <3>3
  <2> QED
    BY <2>1, <2>2
<1> QED
  BY <1>2, <1>3, <1>4, <1>5, <1>6 DEF View

-----------------------------------------------------------------------------
(* Free space that a request can use                                       *)

(* The block an address lies in.                                           *)
LEMMA BlockAt ==
    ASSUME NEW h, WellFormed(h), NEW x \in Addrs
    PROVE  \E b \in h.blocks : b <= x /\ x < End(h, b)
<1> DEFINE S == {n \in Nat : n <= x /\ x - n \in h.blocks}
<1>1. h.blocks \subseteq Addrs /\ Tiled(h) /\ x \in Nat
  BY Fields, Constants DEF WellFormed
<1>2. S \in SUBSET Nat /\ x \in S
  <2>1. x - x = 0 /\ x <= x
    BY <1>1
  <2> QED
    BY <1>1, <2>1 DEF Tiled
<1>3. PICK n \in S : \A m \in S : n <= m
  BY <1>2, LeastAddr
<1> DEFINE b == x - n
<1>4. b \in h.blocks /\ b <= x /\ n \in Nat
  BY <1>1, <1>3
<1>5. \A y \in h.blocks : y <= x => y <= b
  <2> TAKE y \in h.blocks
  <2> HAVE y <= x
  <2>1. y \in Nat
    BY <1>1, Constants
  <2>2. x - y \in Nat /\ x - (x - y) = y
    BY <1>1, <2>1
  <2>3. x - y \in S
    BY <1>1, <2>1, <2>2
  <2>4. n <= x - y
    BY <1>3, <2>3
  <2> QED
    BY <1>1, <1>4, <2>1, <2>4
<1> HIDE DEF S, b
<1>6. x < End(h, b)
  <2>1. b \in Nat /\ End(h, b) \in Nat /\ End(h, b) > b + HDR
    BY <1>4, Geometry
  <2>2. CASE End(h, b) = HEAP_TOTAL
    BY <2>2, Constants DEF Addrs
  <2>3. CASE End(h, b) \in h.blocks
    <3>1. End(h, b) <= x => End(h, b) <= b
      BY <1>5, <2>3
    <3> QED
      BY <1>1, <2>1, <3>1, Constants
  <2> QED
    BY <1>1, <1>4, <2>2, <2>3 DEF Tiled
<1> QED
  BY <1>4, <1>6

(* A gap between allocated blocks lies inside one free block, and a free   *)
(* block is such a gap.                                                    *)
LEMMA GapIsFreeBlock ==
    ASSUME NEW h, HeapOK(h), NEW k \in Nat
    PROVE  GapFor(h, k) <=> Fits(h, k) # {}
<1>1. /\ WellFormed(h) /\ Tiled(h) /\ Coalesced(h) /\ h \in HeapTypes
      /\ h.blocks \subseteq Aligned
  BY DEF HeapOK, WellFormed
<1>2. \A a, b \in h.blocks : a < b => End(h, a) <= b
  BY <1>1 DEF Tiled
<1>3. ASSUME NEW a \in Fits(h, k) PROVE GapFor(h, k)
  <2>1. a \in h.blocks /\ h.is_free[a] /\ h.size[a] >= k
    BY DEF Fits
  <2>2. /\ a \in Addrs /\ a \in Nat /\ h.size[a] \in Nat
        /\ End(h, a) = a + HDR + h.size[a] /\ End(h, a) <= HEAP_TOTAL
    BY <1>1, <2>1, Geometry
  <2>3. a % HEAP_ALIGNMENT = 0
    BY <1>1, <2>1 DEF Aligned
  <2>4. a + HDR + k <= End(h, a)
    BY <2>1, <2>2, Constants
  <2>5. ASSUME NEW c \in Allocated(h)
        PROVE  a + HDR + k <= c \/ End(h, c) <= a
    <3>1. c \in h.blocks /\ c # a
      BY <2>1 DEF Allocated
    <3>2. c \in Nat
      BY <1>1, <3>1, Geometry
    <3>3. CASE c < a
      BY <1>2, <2>1, <3>1, <3>3
    <3>4. CASE a < c
      <4>1. End(h, a) <= c
        BY <1>2, <2>1, <3>1, <3>4
      <4> QED
        BY <2>2, <2>4, <3>2, <4>1, Constants
    <3> QED
      BY <2>2, <3>1, <3>2, <3>3, <3>4
  <2>6. a + HDR + k <= HEAP_TOTAL
    BY <2>2, <2>4, Constants
  <2> QED
    BY <2>2, <2>3, <2>5, <2>6 DEF GapFor
<1>4. ASSUME GapFor(h, k) PROVE Fits(h, k) # {}
  <2>1. PICK x \in Addrs :
           /\ x + HDR + k <= HEAP_TOTAL
           /\ \A a \in Allocated(h) : x + HDR + k <= a \/ End(h, a) <= x
    BY <1>4 DEF GapFor
  <2>2. PICK b \in h.blocks : b <= x /\ x < End(h, b)
    BY <1>1, BlockAt
  <2>3. /\ b \in Addrs /\ b \in Nat /\ h.size[b] \in Nat /\ x \in Nat
        /\ End(h, b) = b + HDR + h.size[b] /\ End(h, b) \in Nat
    BY <1>1, Geometry, Constants
  <2>4. b \notin Allocated(h)
    <3>1. x + HDR + k > b /\ End(h, b) > x
      BY <2>2, <2>3, Constants
    <3> QED
      BY <2>1, <2>3, <3>1, Constants
  <2>5. h.is_free[b]
    BY <2>4 DEF Allocated
  <2>6. x + HDR + k <= End(h, b)
    <3>1. CASE End(h, b) = HEAP_TOTAL
      BY <2>1, <3>1
    <3>2. CASE End(h, b) \in h.blocks /\ h.next[b] = End(h, b)
      <4> DEFINE c == End(h, b)
      <4>1. c # NULL
        BY <2>3 DEF NULL
      <4>2. c \in Allocated(h)
        BY <1>1, <2>5, <3>2, <4>1 DEF Coalesced, Allocated
      <4>3. End(h, c) > c + HDR /\ End(h, c) \in Nat
        BY <1>1, <3>2, Geometry
      <4>4. ~(End(h, c) <= x)
        <5> HIDE DEF c
        <5>1. c \in Nat /\ x < c
          BY <2>2, <2>3 DEF c
        <5> QED
          BY <2>3, <4>3, <5>1, Constants
      <4> QED
        BY <2>1, <4>2, <4>4
    <3> QED
      BY <1>1, <3>1, <3>2 DEF Tiled
  <2>7. h.size[b] >= k
    BY <2>2, <2>3, <2>6, Constants
  <2> QED
    BY <2>5, <2>7 DEF Fits
<1> QED
  BY <1>3, <1>4

-----------------------------------------------------------------------------
(* The clients                                                             *)

(* Besides the properties themselves: the map of live pointers gives       *)
(* sizes, and no client holds a pointer that counts as freed.              *)
HeapInv ==
    /\ HeapOK(heap)
    /\ ClientsOwnBlocks
    /\ live \in [DOMAIN live -> Nat]
    /\ stale \subseteq Nat

LEMMA RequestSizes ==
    ASSUME NoWrap, NEW n \in Requests, NEW k \in {1, 2}
    PROVE  /\ n \in Nat /\ Below(n)
           /\ k \in Nat /\ k * n \in Nat /\ Below(k * n)
<1>1. n \in Nat /\ n + n \in Nat /\ 2 * n = n + n /\ 1 * n = n
  BY Constants
<1>2. Below(n + n)
  BY <1>1 DEF NoWrap
<1>3. Below(n)
  BY <1>1, <1>2, Constants DEF Below
<1> QED
  BY <1>1, <1>2, <1>3

LEMMA InitInv == Init => HeapInv
<1> SUFFICES ASSUME Init PROVE HeapInv
  OBVIOUS
<1>1. /\ heap = heap_init /\ DOMAIN live = {} /\ stale = {}
      /\ live \in [DOMAIN live -> Nat]
  BY DEF Init
<1>2. heap \in HeapTypes
  BY <1>1, Constants DEF heap_init, HeapTypes
<1>3. /\ heap.blocks = {0} /\ heap.magic = {0} /\ heap.size[0] = HEAP_TOTAL - HDR
      /\ heap.is_free[0] = TRUE /\ heap.next[0] = NULL /\ heap.prev[0] = NULL
  BY <1>1, Constants DEF heap_init
<1>4. Tiled(heap)
  BY <1>3, Constants DEF Tiled, End
<1>5. BackLinked(heap) /\ HeadersSound(heap) /\ Coalesced(heap)
  BY <1>3 DEF BackLinked, HeadersSound, Coalesced
<1>6. Allocated(heap) = {}
  BY <1>3 DEF Allocated
<1>7. HeapOK(heap)
  <2>1. Total(Payload(heap)) = 0
    BY <1>2, <1>6, PayloadWeights, TotalZero
  <2>2. heap.used = 0 /\ heap.count = 0
    BY <1>1 DEF heap_init
  <2>3. Accounted(heap)
    BY <1>6, <2>1, <2>2, FS_EmptySet DEF Accounted
  <2>4. heap.blocks \subseteq Aligned
    BY <1>3, HeaderAligned
  <2> QED
    BY <1>2, <1>3, <1>4, <1>5, <2>3, <2>4, Constants DEF HeapOK, WellFormed
<1>8. ClientsOwnBlocks
  BY <1>1, <1>6 DEF ClientsOwnBlocks
<1> QED
  BY <1>1, <1>7, <1>8 DEF HeapInv

(* Distinct blocks have distinct payload pointers.                         *)
LEMMA Pointers ==
    ASSUME HeapInv
    PROVE  /\ Allocated(heap) \subseteq Addrs
           /\ \A a \in Addrs : a + HDR \in DOMAIN live <=> a \in Allocated(heap)
           /\ \A p \in DOMAIN live :
                 /\ p \in Nat /\ p - HDR \in Allocated(heap)
                 /\ p - HDR + HDR = p
           /\ \A a, b \in Addrs : a + HDR = b + HDR => a = b
<1>1. Allocated(heap) \subseteq Addrs
  BY Fields DEF HeapInv, HeapOK, WellFormed, Allocated
<1>2. DOMAIN live = {a + HDR : a \in Allocated(heap)}
  BY DEF HeapInv, ClientsOwnBlocks
<1>3. \A a, b \in Addrs : a + HDR = b + HDR => a = b
  BY Constants
<1>4. \A a \in Addrs : a + HDR \in Nat /\ a + HDR - HDR = a
  BY Constants
<1>5. \A a \in Addrs : a + HDR \in DOMAIN live <=> a \in Allocated(heap)
  <2> SUFFICES ASSUME NEW a \in Addrs, a + HDR \in DOMAIN live
               PROVE  a \in Allocated(heap)
    BY <1>2
  <2>1. PICK b \in Allocated(heap) : a + HDR = b + HDR
    BY <1>2
  <2> QED
    BY <2>1, <1>1, <1>3
<1>6. ASSUME NEW p \in DOMAIN live
      PROVE  p \in Nat /\ p - HDR \in Allocated(heap) /\ p - HDR + HDR = p
  <2>1. PICK a \in Allocated(heap) : p = a + HDR
    BY <1>2
  <2>2. a \in Addrs
    BY <1>1
  <2>3. a \in Nat /\ HDR \in Nat
    BY <2>2, Constants
  <2>4. p \in Nat /\ p - HDR = a
    BY <2>1, <2>3
  <2> QED
    BY <2>1, <2>3, <2>4
<1> QED
  BY <1>1, <1>3, <1>5, <1>6

(* The heap after a call is judged with the headers that are mangled then. *)
LEMMA RenewedOK ==
    ASSUME HeapOK(heap'), Renewed
    PROVE  HeapOK(heap)'
<1>1. HeadersSound(heap') /\ mangled' = mangled \ heap'.blocks
  BY DEF HeapOK, WellFormed, Renewed
<1>2. HeadersSound(heap)'
  BY <1>1 DEF HeadersSound
<1> QED
  BY <1>2 DEF HeapOK, WellFormed

(* A client that is given a new block.                                     *)
LEMMA AcquireInv ==
    ASSUME HeapInv, NEW r, NEW n \in Nat, IsAllocation(heap, r, n),
           Acquire(r, n)
    PROVE  HeapInv'
<1>1. CASE r.ptr = NULL
  <2>1. r.heap = heap
    BY <1>1, PointerNotNull DEF IsAllocation
  <2>2. heap' = heap /\ live' = live /\ stale' = stale /\ Renewed
    BY <1>1, <2>1 DEF Acquire
  <2>3. HeapOK(heap')
    BY <2>2 DEF HeapInv
  <2> QED
    BY <2>2, <2>3, RenewedOK DEF HeapInv, ClientsOwnBlocks
<1>2. CASE r.ptr # NULL
  <2>1. PICK a \in Addrs \ Allocated(heap) :
           /\ r.ptr = a + HDR
           /\ Effect(heap, r.heap, Allocated(heap) \cup {a})
           /\ r.heap.size[a] >= n
    BY <1>2 DEF IsAllocation
  <2> DEFINE p == a + HDR
  <2>2. /\ heap' = r.heap
        /\ live' = [q \in DOMAIN live \cup {p} |->
                       IF q = p THEN n ELSE live[q]]
        /\ stale' = stale /\ Renewed
    BY <1>2, <2>1 DEF Acquire
  <2>3. /\ HeapOK(heap') /\ Allocated(heap') = Allocated(heap) \cup {a}
        /\ \A x \in Allocated(heap) : heap'.size[x] = heap.size[x]
        /\ heap'.size[a] >= n
    BY <2>1, <2>2 DEF Effect
  <2>4. /\ DOMAIN live = {x + HDR : x \in Allocated(heap)}
        /\ \A q \in DOMAIN live : heap.size[q - HDR] >= live[q]
        /\ live \in [DOMAIN live -> Nat]
        /\ stale \subseteq Nat
    BY DEF HeapInv, ClientsOwnBlocks
  <2>5. p - HDR = a
    BY <2>1, Constants
  <2>6. DOMAIN live' = {x + HDR : x \in Allocated(heap')}
    BY <2>2, <2>3, <2>4
  <2>7. ASSUME NEW q \in DOMAIN live'
        PROVE  heap'.size[q - HDR] >= live'[q]
    <3>1. CASE q = p
      BY <3>1, <2>2, <2>3, <2>5
    <3>2. CASE q \in DOMAIN live /\ q # p
      BY <3>2, <2>2, <2>3, <2>4, Pointers
    <3> QED
      BY <3>1, <3>2, <2>2
  <2>8. live' \in [DOMAIN live' -> Nat]
    BY <2>2, <2>4
  <2>9. stale' \subseteq Nat
    BY <2>2, <2>4
  <2> QED
    BY <2>2, <2>3, <2>6, <2>7, <2>8, <2>9, RenewedOK DEF HeapInv, ClientsOwnBlocks
<1> QED
  BY <1>1, <1>2

(* A client that keeps its blocks while the heap changes underneath.       *)
LEMMA UndisturbedInv ==
    ASSUME HeapInv, Effect(heap, heap', Allocated(heap)),
           UNCHANGED <<live, stale>>, Renewed
    PROVE  HeapInv'
<1>1. /\ HeapOK(heap') /\ Allocated(heap') = Allocated(heap)
      /\ \A x \in Allocated(heap) : heap'.size[x] = heap.size[x]
  BY DEF Effect
<1>2. ClientsOwnBlocks'
  BY <1>1, Pointers DEF HeapInv, ClientsOwnBlocks
<1> QED
  BY <1>1, <1>2, RenewedOK DEF HeapInv

(* A client that gives its block up.                                       *)
LEMMA ReleaseInv ==
    ASSUME HeapInv, NEW p \in DOMAIN live,
           Effect(heap, heap', Allocated(heap) \ {p - HDR}),
           live' = Without(p), stale' = stale \cup {p}, Renewed
    PROVE  HeapInv'
<1>1. /\ HeapOK(heap') /\ Allocated(heap') = Allocated(heap) \ {p - HDR}
      /\ \A x \in Allocated(heap') : heap'.size[x] = heap.size[x]
  BY DEF Effect
<1>2. /\ DOMAIN live = {x + HDR : x \in Allocated(heap)}
      /\ \A q \in DOMAIN live : heap.size[q - HDR] >= live[q]
      /\ live \in [DOMAIN live -> Nat]
      /\ stale \subseteq Nat
  BY DEF HeapInv, ClientsOwnBlocks
<1>3. DOMAIN live' = DOMAIN live \ {p}
      /\ \A q \in DOMAIN live' : live'[q] = live[q]
  BY DEF Without
<1>4. \A q \in DOMAIN live : q # p => q - HDR # p - HDR
  BY Pointers, Constants
<1>5. \A q \in DOMAIN live' : q - HDR \in Allocated(heap')
  BY <1>1, <1>3, <1>4, Pointers
<1>6. DOMAIN live' = {x + HDR : x \in Allocated(heap')}
  BY <1>1, <1>2, <1>3, <1>5, Pointers
<1>7. \A q \in DOMAIN live' : heap'.size[q - HDR] >= live'[q]
  BY <1>1, <1>2, <1>3, <1>5
<1>8. live' \in [DOMAIN live' -> Nat]
  BY <1>2 DEF Without
<1>9. stale' \subseteq Nat
  BY <1>2, <1>3, Pointers
<1> QED
  BY <1>1, <1>6, <1>7, <1>8, <1>9, RenewedOK DEF HeapInv, ClientsOwnBlocks

(* A client that resizes its block.                                        *)
LEMMA ReallocInv ==
    ASSUME HeapInv, NEW p, NEW n \in Nat, Below(n), Realloc(p, n)
    PROVE  HeapInv'
<1> DEFINE r == realloc(heap, p, n)
           a == p - HDR
<1>1. /\ p \in DOMAIN live
      /\ heap' = r.heap
      /\ live' = IF n = 0 THEN Without(p)
                 ELSE IF r.ptr = NULL THEN live
                 ELSE [q \in (DOMAIN live \ {p}) \cup {r.ptr} |->
                          IF q = r.ptr THEN n ELSE live[q]]
      /\ stale' = IF n = 0 \/ r.ptr \notin {NULL, p}
                  THEN stale \cup {p} ELSE stale
      /\ Renewed
  BY DEF Realloc
<1>2. HeapOK(heap) /\ a \in Allocated(heap) /\ a + HDR = p /\ p \in Nat
  BY <1>1, Pointers DEF HeapInv
<1>3. IsResizing(heap, r, a, n)
  <2>1. IsResizing(heap, realloc(heap, a + HDR, n), a, n)
    BY <1>2, ReallocEffect
  <2> QED
    BY <1>2, <2>1
<1> HIDE DEF r
<1>4. /\ DOMAIN live = {x + HDR : x \in Allocated(heap)}
      /\ \A q \in DOMAIN live : heap.size[q - HDR] >= live[q]
      /\ live \in [DOMAIN live -> Nat]
      /\ stale \subseteq Nat
  BY DEF HeapInv, ClientsOwnBlocks
<1>5. CASE n = 0 /\ r.ptr = NULL /\ Effect(heap, r.heap, Allocated(heap) \ {a})
  <2>2. stale' = stale \cup {p} /\ live' = Without(p)
    BY <1>1, <1>5
  <2>3. Effect(heap, heap', Allocated(heap) \ {p - HDR})
    BY <1>1, <1>5
  <2> QED
    BY <1>1, <2>2, <2>3, ReleaseInv
<1>6. CASE n > 0 /\ r.ptr = NULL /\ r.heap = heap
  <2>1. heap' = heap /\ live' = live /\ stale' = stale
    BY <1>1, <1>6
  <2>2. HeapOK(heap')
    BY <1>2, <2>1
  <2> QED
    BY <1>1, <2>1, <2>2, RenewedOK DEF HeapInv, ClientsOwnBlocks
<1>7. CASE n > 0 /\ r.ptr = a + HDR /\ r.heap = heap /\ heap.size[a] >= n
  <2>1. r.ptr = p /\ r.ptr # NULL
    BY <1>2, <1>7 DEF NULL
  <2>2. /\ heap' = heap /\ stale' = stale
        /\ live' = [q \in DOMAIN live |-> IF q = p THEN n ELSE live[q]]
    <3>1. (DOMAIN live \ {p}) \cup {p} = DOMAIN live
      BY <1>1
    <3> QED
      BY <1>1, <1>7, <2>1, <3>1
  <2>3. \A q \in DOMAIN live' : heap'.size[q - HDR] >= live'[q]
    BY <1>4, <1>7, <2>2
  <2>4. live' \in [DOMAIN live' -> Nat] /\ DOMAIN live' = DOMAIN live
    BY <1>4, <2>2
  <2>5. HeapOK(heap')
    BY <1>2, <2>2
  <2> QED
    BY <1>1, <1>2, <1>4, <2>2, <2>3, <2>4, <2>5, RenewedOK
       DEF HeapInv, ClientsOwnBlocks
<1>8. CASE \E b \in Addrs \ Allocated(heap) :
              /\ n > 0 /\ r.ptr = b + HDR
              /\ Effect(heap, r.heap, (Allocated(heap) \cup {b}) \ {a})
              /\ r.heap.size[b] >= n
  <2>1. PICK b \in Addrs \ Allocated(heap) :
           /\ n > 0 /\ r.ptr = b + HDR
           /\ Effect(heap, r.heap, (Allocated(heap) \cup {b}) \ {a})
           /\ r.heap.size[b] >= n
    BY <1>8
  <2>2. PICK s \in Nat : s = b + HDR /\ s - HDR = b /\ s # NULL
    BY <2>1, Constants DEF NULL
  <2>3. s \notin DOMAIN live /\ s # p
    BY <1>1, <2>1, <2>2, Pointers
  <2>4. /\ stale' = stale \cup {p}
        /\ live' = [q \in (DOMAIN live \ {p}) \cup {s} |->
                       IF q = s THEN n ELSE live[q]]
    BY <1>1, <2>1, <2>2, <2>3
  <2>5. /\ HeapOK(heap')
        /\ Allocated(heap') = (Allocated(heap) \cup {b}) \ {a}
        /\ \A x \in Allocated(heap) \ {a} : heap'.size[x] = heap.size[x]
        /\ heap'.size[b] >= n
    BY <1>1, <2>1 DEF Effect
  <2>6. \A q \in DOMAIN live \ {p} : q - HDR \in Allocated(heap) \ {a}
    BY <1>1, Pointers, Constants
  <2>7. DOMAIN live' = {x + HDR : x \in Allocated(heap')}
    <3>1. ASSUME NEW q \in DOMAIN live'
          PROVE  q \in {x + HDR : x \in Allocated(heap')}
      <4>1. CASE q = s
        BY <4>1, <1>2, <2>1, <2>2, <2>5
      <4>2. CASE q \in DOMAIN live \ {p}
        <5>1. q - HDR \in Allocated(heap') /\ q - HDR + HDR = q
          BY <4>2, <2>5, <2>6, Pointers
        <5> QED
          BY <5>1
      <4> QED
        BY <4>1, <4>2, <2>4
    <3>2. ASSUME NEW x \in Allocated(heap')
          PROVE  x + HDR \in DOMAIN live'
      <4>1. CASE x = b
        BY <4>1, <2>2, <2>4
      <4>2. CASE x \in Allocated(heap) \ {a}
        <5>1. x + HDR \in DOMAIN live
          BY <4>2, <1>4
        <5>2. x \in Addrs /\ a \in Addrs
          BY <4>2, <1>2, Pointers
        <5>3. x + HDR # p
          BY <4>2, <5>2, <1>2, Pointers
        <5> QED
          BY <5>1, <5>3, <2>4
      <4> QED
        BY <4>1, <4>2, <2>5
    <3> QED
      BY <3>1, <3>2
  <2>8. ASSUME NEW q \in DOMAIN live'
        PROVE  heap'.size[q - HDR] >= live'[q]
    <3>1. CASE q = s
      BY <3>1, <2>2, <2>4, <2>5
    <3>2. CASE q \in DOMAIN live \ {p}
      BY <3>2, <1>4, <2>3, <2>4, <2>5, <2>6
    <3> QED
      BY <3>1, <3>2, <2>4
  <2>9. live' \in [DOMAIN live' -> Nat]
    BY <1>4, <2>4
  <2>10. stale' \subseteq Nat
    BY <1>2, <1>4, <2>4
  <2> QED
    BY <1>1, <2>5, <2>7, <2>8, <2>9, <2>10, RenewedOK DEF HeapInv, ClientsOwnBlocks
<1> QED
  BY <1>3, <1>5, <1>6, <1>7, <1>8 DEF IsResizing

(* The block below an address no client holds is not allocated.            *)
LEMMA NotHeld ==
    ASSUME HeapInv, NEW p \in Nat, p \notin DOMAIN live
    PROVE  p - HDR \notin Allocated(heap)
<1>1. DOMAIN live = {x + HDR : x \in Allocated(heap)}
  BY DEF HeapInv, ClientsOwnBlocks
<1>2. p - HDR + HDR = p
  BY Constants
<1> QED
  BY <1>1, <1>2

(* An old header in the bytes of a client is not on the list.              *)
LEMMA OldOffList ==
    ASSUME HeapInv, NEW p \in DOMAIN live, NEW x \in OldHeaders(p)
    PROVE  x \in heap.magic \ heap.blocks
<1> DEFINE a == p - HDR
<1>1. a \in Allocated(heap) /\ a + HDR = p /\ p \in Nat
  BY Pointers
<1>2. a \in heap.blocks /\ WellFormed(heap) /\ Tiled(heap) /\ heap \in HeapTypes
  BY <1>1 DEF Allocated, HeapInv, HeapOK, WellFormed
<1>3. live[p] \in Nat /\ heap.size[a] >= live[p]
  BY DEF HeapInv, ClientsOwnBlocks
<1> HIDE DEF a
<1>4. heap.size[a] \in Nat /\ a \in Nat /\ End(heap, a) = p + heap.size[a]
  BY <1>1, <1>2, Geometry, Constants DEF End
<1>5. x \in heap.magic /\ p <= x /\ x < p + live[p]
  BY DEF OldHeaders
<1>6. ASSUME x \in heap.blocks PROVE FALSE
  <2>1. x \in Nat
    BY <1>2, <1>6, Geometry
  <2>2. x <= a \/ End(heap, a) <= x
    BY <1>2, <1>4, <1>6, <2>1 DEF Tiled
  <2> QED
    BY <1>1, <1>3, <1>4, <1>5, <2>1, <2>2, Constants
<1> QED
  BY <1>5, <1>6

(* What a client does to an old header touches no block of the list.       *)
LEMMA OldHeaderInv ==
    ASSUME HeapInv, NEW a \in heap.magic \ heap.blocks, UNCHANGED <<live, stale>>,
           \/ /\ heap' = [heap EXCEPT !.magic = @ \ {a},
                                     !.is_free = [@ EXCEPT ![a] = TRUE]]
              /\ mangled' = mangled \ {a}
           \/ /\ heap' = [heap EXCEPT !.is_free = [@ EXCEPT ![a] = FALSE]]
              /\ mangled' = mangled \cup {a}
    PROVE  HeapInv'
<1>1. /\ WellFormed(heap) /\ Coalesced(heap) /\ heap \in HeapTypes
      /\ Accounted(heap)
      /\ Tiled(heap) /\ BackLinked(heap) /\ HeadersSound(heap)
  BY DEF HeapInv, HeapOK, WellFormed
<1>2. heap.blocks \subseteq Addrs /\ heap.magic \subseteq Addrs /\ a \in Addrs
  BY <1>1 DEF HeapTypes
<1>3. /\ heap' \in HeapTypes
      /\ heap'.blocks = heap.blocks /\ heap'.size = heap.size
      /\ heap'.next = heap.next /\ heap'.prev = heap.prev
      /\ heap'.used = heap.used /\ heap'.count = heap.count
      /\ \A x \in Addrs \ {a} : heap'.is_free[x] = heap.is_free[x]
      /\ \/ heap'.magic = heap.magic \ {a} /\ mangled' = mangled \ {a}
         \/ heap'.magic = heap.magic /\ mangled' = mangled \cup {a}
  <2> DEFINE m == heap.magic \ {a}
             t == [heap.is_free EXCEPT ![a] = TRUE]
             f == [heap.is_free EXCEPT ![a] = FALSE]
  <2>1. m \in SUBSET Addrs
    BY <1>2
  <2>2. heap.is_free \in [Addrs -> BOOLEAN]
    BY <1>1, Fields
  <2>3. /\ t \in [Addrs -> BOOLEAN] /\ f \in [Addrs -> BOOLEAN]
        /\ \A x \in Addrs \ {a} : t[x] = heap.is_free[x] /\ f[x] = heap.is_free[x]
    BY <2>2, Zenon
  <2>4. \/ heap' = [heap EXCEPT !.magic = m, !.is_free = t] /\ mangled' = mangled \ {a}
        \/ heap' = [heap EXCEPT !.is_free = f] /\ mangled' = mangled \cup {a}
    OBVIOUS
  <2> HIDE DEF m, t, f
  <2>5. CASE heap' = [heap EXCEPT !.magic = m, !.is_free = t] /\ mangled' = mangled \ {a}
    <3>1. heap' \in HeapTypes /\ heap'.magic = m /\ heap'.is_free = t
          /\ heap'.blocks = heap.blocks /\ heap'.size = heap.size
          /\ heap'.next = heap.next /\ heap'.prev = heap.prev
          /\ heap'.used = heap.used /\ heap'.count = heap.count
      BY <2>1, <2>3, <2>5, <1>1 DEF HeapTypes
    <3> QED
      BY <2>3, <2>5, <3>1 DEF m
  <2>6. CASE heap' = [heap EXCEPT !.is_free = f] /\ mangled' = mangled \cup {a}
    <3>1. heap' \in HeapTypes /\ heap'.magic = heap.magic /\ heap'.is_free = f
          /\ heap'.blocks = heap.blocks /\ heap'.size = heap.size
          /\ heap'.next = heap.next /\ heap'.prev = heap.prev
          /\ heap'.used = heap.used /\ heap'.count = heap.count
      BY <2>3, <2>6, <1>1 DEF HeapTypes
    <3> QED
      BY <2>3, <2>6, <3>1
  <2> QED
    BY <2>4, <2>5, <2>6
<1>4. \A x \in heap.blocks : heap'.is_free[x] = heap.is_free[x]
  BY <1>2, <1>3
<1>5. HeadersSound(heap)'
  BY <1>1, <1>2, <1>3 DEF HeadersSound
<1>6. Tiled(heap') /\ BackLinked(heap')
  BY <1>1, <1>3 DEF Tiled, BackLinked, End
<1>7. Coalesced(heap')
  <2>1. \A x \in heap.blocks : heap.next[x] # NULL => heap.next[x] \in heap.blocks
    BY <1>1 DEF Tiled
  <2> QED
    BY <1>1, <1>3, <1>4, <2>1 DEF Coalesced
<1>8. Allocated(heap') = Allocated(heap)
  BY <1>3, <1>4 DEF Allocated
<1>9. Accounted(heap')
  BY <1>1, <1>3, <1>8, AccountedSame
<1>10. HeapOK(heap)'
  BY <1>1, <1>3, <1>5, <1>6, <1>7, <1>9 DEF HeapOK, WellFormed
<1> QED
  BY <1>3, <1>8, <1>10 DEF HeapInv, ClientsOwnBlocks

LEMMA StepInv == NoWrap /\ HeapInv /\ [Next]_vars => HeapInv'
<1> SUFFICES ASSUME NoWrap, HeapInv, [Next]_vars PROVE HeapInv'
  OBVIOUS
<1> HeapOK(heap)
  BY DEF HeapInv
<1>1. ASSUME NEW n \in Requests, Malloc(n) PROVE HeapInv'
  <2>1. n \in Nat /\ Below(n)
    BY RequestSizes
  <2>2. IsAllocation(heap, malloc(heap, n), n)
    BY <2>1, MallocEffect
  <2> QED
    BY <1>1, <2>1, <2>2, AcquireInv DEF Malloc
<1>2. ASSUME NEW k \in {1, 2}, NEW n \in Requests, Calloc(k, n)
      PROVE  HeapInv'
  <2>1. n \in Nat /\ k \in Nat /\ k * n \in Nat /\ Below(k * n)
    BY RequestSizes
  <2>2. IsAllocation(heap, calloc(heap, k, n), k * n)
    BY <2>1, CallocEffect
  <2> QED
    BY <1>2, <2>1, <2>2, AcquireInv DEF Calloc
<1>3. ASSUME NEW p \in Addrs, Free(p) PROVE HeapInv'
  <2>1. /\ p \in DOMAIN live /\ heap' = free(heap, p)
        /\ live' = Without(p) /\ stale' = stale \cup {p} /\ Renewed
    BY <1>3 DEF Free
  <2>2. p \in Int /\ p - HDR \in Allocated(heap)
    BY <2>1, Pointers
  <2>3. IsRelease(heap, heap', p)
    BY <2>1, <2>2, FreeEffect
  <2>4. Effect(heap, heap', Allocated(heap) \ {p - HDR})
    BY <2>2, <2>3 DEF IsRelease
  <2> QED
    BY <2>1, <2>4, ReleaseInv
<1>4. ASSUME NEW p \in Addrs, DoubleFree(p) PROVE HeapInv'
  <2>1. p \in Nat /\ p \notin DOMAIN live /\ p - HDR \notin mangled
    BY <1>4 DEF HeapInv, DoubleFree
  <2>2. p - HDR \notin Allocated(heap)
    BY <2>1, NotHeld
  <2>3. IsRelease(heap, free(heap, p), p)
    BY <2>1, FreeEffect
  <2>4. heap' = heap /\ live' = live /\ stale' = stale /\ Renewed
    BY <1>4, <2>2, <2>3 DEF IsRelease, DoubleFree
  <2>5. HeapOK(heap')
    BY <2>4
  <2> QED
    BY <2>4, <2>5, RenewedOK DEF HeapInv, ClientsOwnBlocks
<1>5. ASSUME NEW p \in Addrs, Write(p) PROVE HeapInv'
  <2>1. /\ p \in DOMAIN live /\ UNCHANGED <<live, stale>>
        /\ \E a \in OldHeaders(p) :
              \/ /\ heap' = [heap EXCEPT !.magic = @ \ {a},
                                        !.is_free = [@ EXCEPT ![a] = TRUE]]
                 /\ mangled' = mangled \ {a}
              \/ /\ heap' = [heap EXCEPT !.is_free = [@ EXCEPT ![a] = FALSE]]
                 /\ mangled' = mangled \cup {a}
    BY <1>5 DEF Write
  <2>2. PICK a \in OldHeaders(p) :
              \/ /\ heap' = [heap EXCEPT !.magic = @ \ {a},
                                        !.is_free = [@ EXCEPT ![a] = TRUE]]
                 /\ mangled' = mangled \ {a}
              \/ /\ heap' = [heap EXCEPT !.is_free = [@ EXCEPT ![a] = FALSE]]
                 /\ mangled' = mangled \cup {a}
    BY <2>1
  <2>3. a \in heap.magic \ heap.blocks
    BY <2>1, OldOffList
  <2> QED
    BY <2>1, <2>2, <2>3, OldHeaderInv
<1>6. ASSUME NEW p \in Addrs, NEW k \in {1, 2}, NEW n \in Requests,
             Realloc(p, k * n)
      PROVE  HeapInv'
  <2>1. k * n \in Nat /\ Below(k * n)
    BY RequestSizes
  <2> QED
    BY <1>6, <2>1, ReallocInv
<1>7. CASE SelfTest
  <2>1. Effect(heap, heap', Allocated(heap)) /\ UNCHANGED <<live, stale>> /\ Renewed
    BY <1>7, SelfTestEffect DEF SelfTest
  <2> QED
    BY <2>1, UndisturbedInv
<1>8. CASE UNCHANGED vars
  BY <1>8 DEF vars, HeapInv, ClientsOwnBlocks, HeapOK, WellFormed, HeadersSound
<1> QED
  BY <1>1, <1>2, <1>3, <1>4, <1>5, <1>6, <1>7, <1>8 DEF Next

LEMMA HeapInvariant == NoWrap => (Spec => []HeapInv)
<1>1. Init => HeapInv
  BY InitInv
<1>2. NoWrap /\ HeapInv /\ [Next]_vars => HeapInv'
  BY StepInv
<1> SUFFICES ASSUME NoWrap PROVE Spec => []HeapInv
  OBVIOUS
<1>3. HeapInv /\ [Next]_vars => HeapInv'
  BY <1>2
<1> QED
  BY <1>1, <1>3, PTL DEF Spec

-----------------------------------------------------------------------------
(* The theorems                                                            *)

(* Whatever calls are made, double frees, resizes and self-tests among     *)
(* them, the list tiles the pool, its back links undo its forward links,   *)
(* its headers are intact and no two neighbours are both free.             *)
THEOREM ListStaysSound == NoWrap => (Spec => []ListSound)
<1>1. HeapInv => ListSound
  BY DEF HeapInv, HeapOK, WellFormed, ListSound
<1> QED
  BY <1>1, HeapInvariant, PTL

(* Clients hold exactly the allocated blocks, each as large as asked for:  *)
(* with ListStaysSound, no byte has two owners and no block is lost.       *)
THEOREM BlocksHaveOneOwner == NoWrap => (Spec => []ClientsOwnBlocks)
<1>1. HeapInv => ClientsOwnBlocks
  BY DEF HeapInv
<1> QED
  BY <1>1, HeapInvariant, PTL

(* A second free is noticed and changes nothing, unless the address has    *)
(* been handed out again or a client that has the memory now overwrote     *)
(* is_free of the old header and left its magic number: no history of      *)
(* splits and merges makes the allocator itself forget that a block that   *)
(* was swallowed by its neighbour is free.                                 *)
THEOREM SecondFreeIsNoticed == NoWrap => (Spec => []DoubleFreeNoticed)
<1>1. ASSUME HeapInv PROVE DoubleFreeNoticed
  <2> SUFFICES ASSUME NEW p \in stale, p \notin DOMAIN live, p - HDR \notin mangled
               PROVE  free(heap, p) = heap
    BY DEF DoubleFreeNoticed
  <2>1. HeapOK(heap) /\ p \in Nat
    BY <1>1 DEF HeapInv
  <2>2. p - HDR \notin Allocated(heap)
    BY <1>1, <2>1, NotHeld
  <2> QED
    BY <2>1, <2>2, FreeEffect DEF IsRelease
<1> QED
  BY <1>1, HeapInvariant, PTL

(* The counters the heap command prints are right after every call: free   *)
(* never has to stop them at 0, and calls that fail do not count.          *)
THEOREM CountersAgree == NoWrap => (Spec => []Accounting)
<1>1. HeapInv => Accounting
  BY DEF HeapInv, HeapOK, Accounting
<1> QED
  BY <1>1, HeapInvariant, PTL

(* An allocation fails only when no gap between the blocks in use has room *)
(* for it: the allocator does not lose memory to fragmentation of its own. *)
THEOREM AllocationFailsOnlyWhenFull == NoWrap => (Spec => []FailsOnlyWhenFull)
<1>1. ASSUME NoWrap, HeapInv PROVE FailsOnlyWhenFull
  <2> SUFFICES ASSUME NEW n \in Requests \ {0}
               PROVE  malloc(heap, n).ptr = NULL <=> ~GapFor(heap, HEAP_ALIGN(n))
    BY DEF FailsOnlyWhenFull
  <2> DEFINE k == HEAP_ALIGN(n)
  <2>1. n \in Nat /\ Below(n) /\ n # 0
    BY <1>1, RequestSizes
  <2>2. k \in Nat
    BY <2>1, AlignUp
  <2> HIDE DEF k
  <2>3. HeapOK(heap) /\ heap \in HeapTypes
    BY <1>1 DEF HeapInv, HeapOK, WellFormed
  <2>4. GapFor(heap, k) <=> Fits(heap, k) # {}
    BY <2>2, <2>3, GapIsFreeBlock
  <2>5. malloc(heap, n).ptr = NULL <=> Fits(heap, k) = {}
    <3>1. CASE Fits(heap, k) = {}
      BY <3>1 DEF malloc, k
    <3>2. CASE Fits(heap, k) # {}
      <4>1. malloc(heap, n).ptr = FirstFit(heap, k) + HDR
        BY <2>1, <3>2 DEF malloc, k
      <4>2. FirstFit(heap, k) \in Addrs
        BY <2>2, <2>3, <3>2, FirstFits, Fields DEF Fits
      <4>3. FirstFit(heap, k) + HDR # NULL
        BY <4>2, PointerNotNull
      <4> QED
        BY <3>2, <4>1, <4>3
    <3> QED
      BY <3>1, <3>2
  <2> QED
    BY <2>4, <2>5 DEF k
<1>2. NoWrap => (HeapInv => FailsOnlyWhenFull)
  BY <1>1
<1> SUFFICES ASSUME NoWrap PROVE Spec => []FailsOnlyWhenFull
  OBVIOUS
<1>3. HeapInv => FailsOnlyWhenFull
  BY <1>2
<1>4. Spec => []HeapInv
  BY HeapInvariant
<1> QED
  BY <1>3, <1>4, PTL

(* The heap test gives back what it took: the same blocks with the same    *)
(* sizes, marks and links, and the same counters, whichever of its exits   *)
(* it takes.                                                               *)
THEOREM SelfTestLeavesHeap == NoWrap => (Spec => []SelfTestRestores)
<1>1. ASSUME NoWrap, HeapInv PROVE SelfTestRestores
  <2> DEFINE t == heap_self_test(heap).heap
  <2>1. HeapOK(heap)
    BY <1>1 DEF HeapInv
  <2>2. Effect(heap, t, Allocated(heap))
    BY <1>1, <2>1, SelfTestEffect
  <2> HIDE DEF t
  <2>3. /\ HeapOK(t) /\ Allocated(t) = Allocated(heap)
        /\ \A x \in Allocated(heap) : t.size[x] = heap.size[x]
    BY <2>2 DEF Effect
  <2>4. View(t) = View(heap)
    BY <2>1, <2>3, ListForced
  <2>5. Payload(t) = Payload(heap)
    BY <2>3 DEF Payload
  <2>6. t.used = heap.used /\ t.count = heap.count
    BY <2>1, <2>3, <2>5 DEF HeapOK, Accounted
  <2> QED
    BY <2>4, <2>6 DEF SelfTestRestores, t
<1>2. NoWrap => (HeapInv => SelfTestRestores)
  BY <1>1
<1> SUFFICES ASSUME NoWrap PROVE Spec => []SelfTestRestores
  OBVIOUS
<1>3. HeapInv => SelfTestRestores
  BY <1>2
<1>4. Spec => []HeapInv
  BY HeapInvariant
<1> QED
  BY <1>3, <1>4, PTL
=============================================================================
