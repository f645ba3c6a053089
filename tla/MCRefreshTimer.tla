--------------------------- MODULE MCRefreshTimer ---------------------------
(* Small instances of RefreshTimer. *)
EXTENDS RefreshTimer

CONSTANTS c1, c2, k1, k2, t1, t2

MCContext == {c1, c2}
MCTask == {k1, k2}
MCTaskOf == [c \in MCContext |-> IF c = c2 THEN k2 ELSE k1]
MCThread == {t1, t2}
=============================================================================
