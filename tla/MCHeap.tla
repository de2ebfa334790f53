------------------------------- MODULE MCHeap -------------------------------
(* A pool of a few blocks.  The five sizes of the heap test just fit when  *)
(* nothing else is allocated, so the test meets each of its exits as       *)
(* clients fill the pool.                                                  *)
EXTENDS Heap

MCTestSizes == <<1, 2, 1, 2, 3>>

(* What the calls and the properties can read.  The fields of addresses    *)
(* that hold no header of the list are left over from earlier headers, and *)
(* no action reads them but is_free of those that kept their magic number; *)
(* states that differ in nothing else are the same.                        *)
HeapView ==
    <<heap.magic, [a \in heap.magic |-> heap.is_free[a]], View(heap),
      heap.used, heap.count, live, stale, mangled>>
=============================================================================
