----------------------------- MODULE MCSurface -----------------------------
EXTENDS Surface, TLC

(* Blocks, buffers and identifiers are interchangeable. *)
Symmetry == Permutations(Blocks) \cup Permutations(Buffers) \cup Permutations(GMRIDs)

(* Nothing is claimed of what follows. *)
NotOverlapped == ~overlapped
=============================================================================
