---------------------------- MODULE MCAccelCalls ----------------------------
(* Small inputs for the calls of the accelerator *)
EXTENDS AccelCalls

MCHaves == [three : BOOLEAN, screen : BOOLEAN, fence : BOOLEAN, wanted : BOOLEAN]

(* Pages in runs that begin at the first page and at those in "breaks", one below the other *)
Runs(n, breaks, top) ==
  [i \in 1..n |-> top - 10 * Cardinality({b \in breaks : b <= i}) + i]

MCDescriptors ==
  UNION {{[pages |-> Runs(n, breaks, top), start |-> start, end |-> end] :
            breaks \in SUBSET (2..n), top \in {60, 97}, start \in {0, 1}, end \in {1, 2}} :
         n \in 1..6}
MCHelpers == UNION {{Runs(n, breaks, 90) : breaks \in SUBSET (2..n)} : n \in 1..3}

MCRects ==
  {r \in [x : 0..Width - 1, y : 0..Height - 1, w : 1..Width, h : 1..Height] :
     r.x + r.w <= Width /\ r.y + r.h <= Height}

Around(r, s) ==
  LET x == Min({r.x, s.x})
      y == Min({r.y, s.y})
  IN [x |-> x, y |-> y, w |-> Max({r.x + r.w, s.x + s.w}) - x,
      h |-> Max({r.y + r.h, s.y + s.h}) - y]

MCRegions ==
  {[bounds |-> r, rects |-> <<r>>] : r \in MCRects}
  \cup {[bounds |-> Around(o[1], o[2]), rects |-> o] :
          o \in {q \in MCRects \X MCRects : Cells(q[1]) \cap Cells(q[2]) = {}}}

(* A client's memory has rows of 5 pixels and starts at an offset. *)
Scale(x, y, w, h, client) ==
  [source |-> [w |-> x + w, h |-> y + h], buffer |-> [x |-> x, y |-> y, w |-> w, h |-> h],
   client |-> client, rowbytes |-> 5, offset |-> IF client THEN 1 ELSE 0]

MCScales ==
  {Scale(0, 0, w, h, FALSE) : w \in 1..3, h \in 1..2}
  \cup {Scale(1, 1, w, h, TRUE) : w \in 1..3, h \in 1..2}
MCCopyScales == {Scale(0, 0, 2, 2, FALSE), Scale(1, 1, 3, 1, TRUE)}
MCSourceScales == {Scale(0, 1, 3, 2, FALSE), Scale(1, 0, 2, 1, TRUE)}
MCDests == {-1, 1} \X {-1, 0, 1}

Request(type, sourceType, source, target) ==
  [type |-> type, sourceType |-> sourceType, source |-> source, target |-> target]

MCRequests ==
  {Request("region", "CGSSurface", s, t) : s \in {0, 7, 8}, t \in {"framebuffer", "surface"}}
  \cup {Request("region", "Framebuffer", 7, t) : t \in {"framebuffer", "surface", "no surface"}}
  \cup {Request("region", "other", 7, "surface"), Request("copy", "Default", 0, "framebuffer"),
        Request("region", "Default", 8, "surface")}
=============================================================================
