------------------------------ MODULE MCIDPool ------------------------------
(* Small instances of IDPool. *)
EXTENDS IDPool, TLC

CONSTANTS h1, h2, h3, h4, h5

MCHolder == {h1, h2, h3, h4, h5}

(* mask_array64 with a device limit in the middle of the second word. *)
MCMasked == {<<1, 1>>}

HolderSymmetry == Permutations(MCHolder)
=============================================================================
