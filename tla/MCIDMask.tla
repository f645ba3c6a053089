------------------------------ MODULE MCIDMask ------------------------------
(* Small instances of IDMask. *)
EXTENDS IDMask

CONSTANTS h1, h2, h3, h4, h5, h6

MCHolder == {h1, h2, h3, h4, h5, h6}
=============================================================================
