---------------------------- MODULE MCSVGAFence ----------------------------
(* A small instance of SVGAFence: one buffer, one thread in sync of it     *)
(* beside whoever submits, 3-bit fences.                                   *)
EXTENDS SVGAFence

CONSTANTS b1, t1

MCBuffer == {b1}
MCThread == {t1}
=============================================================================
