------------------------------- MODULE Blits -------------------------------
(***************************************************************************)
(* What the copies of the accelerator and of surfaces move where:          *)
(* genericBlitCopy and blitGFB (AC/VMsvga2Accel.cpp), the output paths of  *)
(* surface_flush, and the copies into a surface (AC/UC/VMsvga2Surface.cpp),*)
(* down to what the device does with the commands (external).              *)
(*                                                                         *)
(* A picture maps points <<x, y>> to what is seen there; a memory maps     *)
(* addresses, counted in pixels.  A rectangle (IOAccelBounds) is           *)
(* [x, y, w, h]; a region is its bounds and a sequence of rectangles.      *)
(***************************************************************************)
EXTENDS Integers, Sequences, FiniteSets, FiniteSetsExt, SequencesExt

CONSTANTS Width, Height,   \* of the screen
          FBPitch,         \* m_svga->getCurrentPitch()
          BackingSize      \* of the memory that backs a surface

ASSUME BlitsAssumption ==
  /\ Width \in Nat \ {0} /\ Height \in Nat \ {0}
  /\ FBPitch \in Nat /\ FBPitch >= Width /\ BackingSize \in Nat

Cells(r) == (r.x..(r.x + r.w - 1)) \X (r.y..(r.y + r.h - 1))
CellsOf(rects) == UNION {Cells(rects[i]) : i \in DOMAIN rects}

Moved(r, dx, dy) == [r EXCEPT !.x = @ + dx, !.y = @ + dy]

(* set_region *)
set_region(x, y, w, h) ==
  LET b == [x |-> x, y |-> y, w |-> w, h |-> h] IN [bounds |-> b, rects |-> <<b>>]

-----------------------------------------------------------------------------
(* Pictures and memories; the device *)

Screen0 == [p \in (0..Width - 1) \X (0..Height - 1) |-> <<"screen", p>>]
Backing0 == [a \in 0..BackingSize - 1 |-> <<"backing", a>>]

Seen(picture, p) == IF p \in DOMAIN picture THEN picture[p] ELSE <<"outside", p>>
Read(memory, a) == IF a \in DOMAIN memory THEN memory[a] ELSE <<"outside", a>>

(* An image in a memory: its first pixel is at "base". *)
Address(image, p) == image.base + p[2] * image.pitch + p[1]
Picture(memory, image, w, h) ==
  [p \in (0..w - 1) \X (0..h - 1) |-> Read(memory, Address(image, p))]

(* Each point of rects[i] gets from(i, point). *)
Painted(picture, rects, from(_, _)) ==
  [p \in DOMAIN picture |->
    LET on == {i \in DOMAIN rects : p \in Cells(rects[i])}
    IN IF on = {} THEN picture[p] ELSE from(Max(on), p)]

(* The same in a memory *)
Stored(memory, image, rects, from(_, _)) ==
  [a \in DOMAIN memory |->
    LET on == {i \in DOMAIN rects : \E p \in Cells(rects[i]) : Address(image, p) = a}
        points == {p \in Cells(rects[Max(on)]) : Address(image, p) = a}
        last == CHOOSE p \in points : \A q \in points : p[2] >= q[2]
    IN IF on = {} THEN memory[a] ELSE from(Max(on), last)]

Plus(p, d) == <<p[1] + d[1], p[2] + d[2]>>

(* Boxes as surfaceDMA2D, surfaceCopy and surfacePresentAutoSync fill them in *)
Boxes(region, src, dst) ==
  [i \in DOMAIN region.rects |->
    [to |-> Moved(region.rects[i], dst[1], dst[2]),
     srcx |-> region.rects[i].x + src[1], srcy |-> region.rects[i].y + src[2]]]

SourceOf(box, p) == <<p[1] - box.to.x + box.srcx, p[2] - box.to.y + box.srcy>>
Targets(boxes) == [i \in DOMAIN boxes |-> boxes[i].to]

(* SURFACE_DMA to the host: the guest image is the source of a box *)
WriteHost(host, memory, image, boxes) ==
  Painted(host, Targets(boxes), LAMBDA i, p : Read(memory, Address(image, SourceOf(boxes[i], p))))

(* SURFACE_DMA from the host: the guest image is still the "source" of a box *)
ReadHost(memory, image, host, boxes) ==
  LET guest == [i \in DOMAIN boxes |->
                 [boxes[i].to EXCEPT !.x = boxes[i].srcx, !.y = boxes[i].srcy]]
      back(i, p) == <<p[1] - boxes[i].srcx + boxes[i].to.x, p[2] - boxes[i].srcy + boxes[i].to.y>>
  IN Stored(memory, image, guest, LAMBDA i, p : Seen(host, back(i, p)))

(* SURFACE_COPY and PRESENT *)
CopyBoxes(to, source, boxes) ==
  Painted(to, Targets(boxes), LAMBDA i, p : Seen(source, SourceOf(boxes[i], p)))

(* The pixel of an sw x sh image that falls on p of a dw x dh one *)
Scaled(p, s, d) == <<(p[1] * s.w) \div d.w, (p[2] * s.h) \div d.h>>

(* SURFACE_STRETCHBLT of one whole surface to another *)
Stretched(source, s, d) ==
  [p \in (0..d.w - 1) \X (0..d.h - 1) |-> Seen(source, Scaled(p, s, d))]

-----------------------------------------------------------------------------
(* genericBlitCopy *)

(* An image to copy from or to: its memory from "base" on, for "limit" *)
RowInside(image, r, delta, j) ==
  LET a == (r.y + delta[2] + j) * image.pitch + r.x + delta[1]
  IN a >= 0 /\ a + r.w <= image.limit

(* A row outside stops the rectangle: the addresses do not advance past it. *)
RowsCopied(r, dst, dst_delta, src, src_delta) ==
  LET rows == 0..r.h - 1
      inside(j) == RowInside(dst, r, dst_delta, j) /\ RowInside(src, r, src_delta, j)
      out == {j \in rows : ~inside(j)}
  IN IF out = {} THEN r.h ELSE Min(out)

genericBlitCopy(to, dst, dst_delta, from, src, src_delta, region) ==
  LET copied == [i \in DOMAIN region.rects |->
                  LET r == region.rects[i]
                  IN IF r.w <= 0 \/ r.h <= 0 THEN [r EXCEPT !.w = 0]
                     ELSE [r EXCEPT !.h = RowsCopied(r, dst, dst_delta, src, src_delta)]]
      source(p) == <<p[1] - dst_delta[1] + src_delta[1], p[2] - dst_delta[2] + src_delta[2]>>
  IN Stored(to, dst, [i \in DOMAIN copied |-> Moved(copied[i], dst_delta[1], dst_delta[2])],
            LAMBDA i, p : Read(from, Address(src, source(p))))

(* The framebuffer in VRAM *)
GFB == [base |-> 0, pitch |-> FBPitch, limit |-> FBPitch * Height]
GFBMemory(screen) ==
  [a \in 0..GFB.limit - 1 |-> Seen(screen, <<a % FBPitch, a \div FBPitch>>)]

(* Towards the framebuffer if "out", from it otherwise; dst_delta applies to the other side. *)
blitGFB(out, memory, image, gmr_delta, screen, region) ==
  IF out THEN genericBlitCopy(GFBMemory(screen), GFB, <<0, 0>>, memory, image, gmr_delta, region)
  ELSE genericBlitCopy(memory, image, gmr_delta, GFBMemory(screen), GFB, <<0, 0>>, region)

-----------------------------------------------------------------------------
(* The backing of a surface: "scale" has the size of the source, the       *)
(* buffer shown in it, whether a client provides the memory and with how   *)
(* many pixels to a row, and the offset of the surface in its memory.      *)

SourcePitch(scale) == IF scale.client THEN scale.rowbytes ELSE scale.source.w

(* A mutant: the buffer is taken to begin at the start of a row. *)
OffsetOfRow(scale) == scale.buffer.y * SourcePitch(scale)

(* calculateScaleParameters: m_scale.reserved[2] *)
BufferOffset(scale) == scale.buffer.y * SourcePitch(scale) + scale.buffer.x

(* What DMA uses, and (with the limit) obtainKernelPtrs *)
BackingImage(scale) ==
  LET t == scale.offset + BufferOffset(scale)
  IN [base |-> t, pitch |-> SourcePitch(scale), limit |-> BackingSize - t]

(* A mutant: what is cut off at the top is cut off at the bottom of the source. *)
ClipKeepsTop(r, buffer, dx, dy) ==
  LET x == r.x + dx
      y == r.y + dy
      left == IF x < 0 THEN [r EXCEPT !.x = -dx, !.w = @ + x] ELSE r
      top == IF y < 0 THEN [left EXCEPT !.h = @ + y] ELSE left
  IN [top EXCEPT !.w = Max({Min({@, buffer.w - Max({x, 0})}), 0}),
                 !.h = Max({Min({@, buffer.h - Max({y, 0})}), 0})]

clipRectToBuffer(r, buffer, dx, dy) ==
  LET x == r.x + dx
      y == r.y + dy
      left == IF x < 0 THEN [r EXCEPT !.x = -dx, !.w = @ + x] ELSE r
      top == IF y < 0 THEN [left EXCEPT !.y = -dy, !.h = @ + y] ELSE left
      x0 == Max({x, 0})
      y0 == Max({y, 0})
      right == IF x0 + top.w > buffer.w THEN [top EXCEPT !.w = buffer.w - x0] ELSE top
      all == IF y0 + right.h > buffer.h THEN [right EXCEPT !.h = buffer.h - y0] ELSE right
  IN [all EXCEPT !.w = Max({@, 0}), !.h = Max({@, 0})]

clipRegionToBuffer(region, buffer, dx, dy) ==
  [region EXCEPT !.rects = [i \in DOMAIN @ |-> clipRectToBuffer(@[i], buffer, dx, dy)]]

-----------------------------------------------------------------------------
(* Output: surface_flush, with the backing to the screen *)

ToOrigin(region) == <<-region.bounds.x, -region.bounds.y>>
Master0 == [p \in DOMAIN Screen0 |-> <<"master", p>>]
Fresh(w, h) == [p \in (0..w - 1) \X (0..h - 1) |-> <<"undefined", p>>]

doPresent(master, region) == CopyBoxes(Screen0, master, Boxes(region, <<0, 0>>, <<0, 0>>))

DMAOutDirect(scale, region) ==
  doPresent(WriteHost(Master0, Backing0, BackingImage(scale),
                      Boxes(region, ToOrigin(region), <<0, 0>>)), region)

DMAOutWithCopy(scale, region) ==
  LET delta == ToOrigin(region)
      aux == WriteHost(Fresh(scale.buffer.w, scale.buffer.h), Backing0, BackingImage(scale),
                       Boxes(region, delta, delta))
  IN doPresent(CopyBoxes(Master0, aux, Boxes(region, delta, <<0, 0>>)), region)

(* The whole buffer in a surface of its size *)
BufferSurface(scale) ==
  WriteHost(Fresh(scale.buffer.w, scale.buffer.h), Backing0, BackingImage(scale),
            Boxes(set_region(0, 0, scale.buffer.w, scale.buffer.h), <<0, 0>>, <<0, 0>>))

DMAOutStretchWithCopy(scale, region) ==
  LET stretched == Stretched(BufferSurface(scale), scale.buffer, region.bounds)
  IN doPresent(CopyBoxes(Master0, stretched, Boxes(region, ToOrigin(region), <<0, 0>>)), region)

(* DEFINE_GMRFB at the backing, a BLIT_GMRFB_TO_SCREEN for each rectangle *)
ScreenObjectOutDirect(scale, region) ==
  WriteHost(Screen0, Backing0, BackingImage(scale), Boxes(region, ToOrigin(region), <<0, 0>>))

(* BLIT_SURFACE_TO_SCREEN: the clip rectangles are relative to the destination. *)
ScreenObjectOutVia3D(scale, region) ==
  LET b == region.bounds
      clips == [i \in DOMAIN region.rects |-> Moved(region.rects[i], -b.x, -b.y)]
  IN Painted(Screen0, [i \in DOMAIN clips |-> Moved(clips[i], b.x, b.y)],
       LAMBDA i, p : Seen(BufferSurface(scale),
                          Scaled(<<p[1] - b.x, p[2] - b.y>>, scale.buffer, b)))

(* What the framebuffer holds is seen where it is updated: the bounds. *)
GFBOutDirect(scale, region) ==
  LET gfb == blitGFB(TRUE, Backing0, BackingImage(scale), ToOrigin(region), Screen0, region)
  IN Painted(Screen0, <<region.bounds>>, LAMBDA i, p : Read(gfb, Address(GFB, p)))

-----------------------------------------------------------------------------
(* Input: copies into the backing of a surface *)

(* From the screen, the master surface (which shows the same) or the framebuffer *)
copy_framebuffer_region_to_self(from, scale, destX, destY, region) ==
  LET image == BackingImage(scale)
      delta == <<destX - region.bounds.x, destY - region.bounds.y>>
      clipped == clipRegionToBuffer(region, scale.buffer, delta[1], delta[2])
  IN CASE from = "screen" ->   \* BLIT_SCREEN_TO_GMRFB
            Stored(Backing0, image, Targets(Boxes(clipped, <<0, 0>>, delta)),
              LAMBDA i, p : Seen(Screen0, <<p[1] - delta[1], p[2] - delta[2]>>))
       [] from = "master" ->   \* the deltas change places, as the DMA's source is the guest
            ReadHost(Backing0, image, Screen0, Boxes(clipped, delta, <<0, 0>>))
       [] OTHER -> blitGFB(FALSE, Backing0, image, delta, Screen0, clipped)

(* Without rectangles the bounds, not clipped, are taken for the only one. *)
copy_surface_region_to_self(source, scale, destX, destY, region) ==
  LET delta == <<destX - region.bounds.x, destY - region.bounds.y>>
      clipped == clipRegionToBuffer(region, scale.buffer, delta[1], delta[2])
      rgn == IF clipped.rects = <<>> THEN [clipped EXCEPT !.rects = <<region.bounds>>] ELSE clipped
      memory == [a \in DOMAIN Backing0 |-> <<"source", a>>]
  IN genericBlitCopy(Backing0, BackingImage(scale), delta, memory, BackingImage(source), <<0, 0>>, rgn)

-----------------------------------------------------------------------------
(* CopyRegion of the accelerator: RECT_COPY within the screen, in order *)

DeviceCopy(screen, r, dx, dy) ==
  Painted(screen, <<Moved(r, dx, dy)>>, LAMBDA i, p : Seen(screen, <<p[1] - dx, p[2] - dy>>))

(* With a front buffer, of 3D or of screen objects, it copies nothing. *)
CopyRegionOnScreen(haveFrontBuffer, boundsCopy, destX, destY, region) ==
  LET dx == destX - region.bounds.x
      dy == destY - region.bounds.y
  IN IF haveFrontBuffer THEN Screen0
     ELSE IF boundsCopy THEN DeviceCopy(Screen0, region.bounds, dx, dy)
     ELSE FoldLeft(LAMBDA screen, r : DeviceCopy(screen, r, dx, dy), Screen0, region.rects)

(* Whether it says that it has succeeded: it does so, too, with a front buffer *)
(* ("pretend to work..."), and without rectangles it returns an rc never set.  *)
CopyRegionAnswers(haveFrontBuffer, boundsCopy, region) ==
  IF haveFrontBuffer \/ boundsCopy \/ region.rects # <<>> THEN {TRUE} ELSE BOOLEAN
=============================================================================
