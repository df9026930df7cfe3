------------------------------ MODULE MCMemory ------------------------------
(* Page directory entries, and page table entries, are interchangeable. *)
EXTENDS Memory, TLC

Symmetry == Permutations(Tabs) \cup Permutations(Slots)
=============================================================================
