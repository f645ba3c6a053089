----------------------------- MODULE MCSVGAFifo -----------------------------
(* Small instances of SVGAFifo: a ring of a few words, two word values. *)
EXTENDS SVGAFifo

CONSTANTS w1, w2

MCWord == {w1, w2}
=============================================================================
