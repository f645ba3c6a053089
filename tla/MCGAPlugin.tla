----------------------------- MODULE MCGAPlugin -----------------------------
(* The WindowServer's own surface and two that an application draws to. *)
EXTENDS GAPlugin

CONSTANTS desk, s1, s2, small, large, b1, b2

MCSurfaces == {desk, s1, s2}
MCModes == {small, large}
MCStreams == {0, 1}
MCBlits == {b1, b2}

Symmetric ==
  Permutations({s1, s2}) \cup Permutations({b1, b2}) \cup Permutations({small, large})
=============================================================================
