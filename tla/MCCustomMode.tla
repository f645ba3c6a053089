---------------------------- MODULE MCCustomMode ----------------------------
(* Small instances of CustomMode. *)
EXTENDS CustomMode

CONSTANTS c1, c2, small, large

MCClient == {c1, c2}
MCSize == {small, large}
MCMode == {2, 3}
MCSizeOf == [m \in MCMode |-> IF m = 2 THEN small ELSE large]
=============================================================================
