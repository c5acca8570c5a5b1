---------------------------- MODULE MCHeapPaging ----------------------------
(* Heaps a and b overlap at page 2, as two heaps registered at the same    *)
(* base address do.                                                        *)
EXTENDS HeapPaging, TLC

CONSTANTS a, b

ThreadSymmetry == Permutations(Threads)

MCArea == [q \in Heaps |-> IF q = a THEN {1, 2} ELSE {2}]
=============================================================================
