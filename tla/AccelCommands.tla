---------------------------- MODULE AccelCommands ----------------------------
(***************************************************************************)
(* The methods of AC/VMsvga2Accel.cpp that issue commands, as the commands *)
(* they issue, and what each of those commands has to say.                 *)
(*                                                                         *)
(* "have" tells what the device has (3D, screen objects, fences) and       *)
(* whether the caller of a method wants a fence, "n" counts rectangles,    *)
(* boxes or states.                                                        *)
(***************************************************************************)
EXTENDS Commands

NoCommand == <<>>

HaveFrontBuffer(have) == have.three \/ have.screen

If3D(have, cmds) == IF have.three THEN cmds ELSE NoCommand
IfScreen(have, cmds) == IF have.screen THEN cmds ELSE NoCommand
Fence(have) == IF have.wanted THEN InsertFence(have.fence) ELSE NoCommand

Arg(e, m) == Value(e, m, 1)[1]
Args(e, ms) == [i \in DOMAIN ms |-> Arg(e, ms[i])]

-----------------------------------------------------------------------------
(* 2D methods *)

copyRect(i) == Args(i, <<"x", "y", "x+delta", "y+delta", "w", "h">>)

(* With a front buffer nothing is done, and success is pretended. *)
CopyRegion(have, boundsCopy, n) ==
  IF HaveFrontBuffer(have) THEN NoCommand
  ELSE IF boundsCopy THEN <<DeviceRectCopy(copyRect(0))>>
  ELSE [i \in 1..n |-> DeviceRectCopy(copyRect(i))]

IOBlitCopyRectangle(i) == Args(i, <<"sourceX", "sourceY", "x", "y", "width", "height">>)

RectCopy(have, n) ==
  IF HaveFrontBuffer(have) THEN FlattenSeq([i \in 1..n |-> CopyRegion(have, FALSE, 1)])
  ELSE [i \in 1..n |-> DeviceRectCopy(IOBlitCopyRectangle(i))]

IOBlitRectangle(i) == Args(i, <<"x", "y", "width", "height">>)

RectFill(n) == [i \in 1..n |-> DeviceRectFill(i, IOBlitRectangle(i))]

UpdateFramebufferAutoRing(have) ==
  IF HaveFrontBuffer(have) THEN NoCommand ELSE <<UpdateFramebuffer2(IOBlitRectangle(0))>>

-----------------------------------------------------------------------------
(* Surfaces *)

createSurface(have) ==
  LET faces == OffsetOf(SVGA3dCmdDefineSurface, "face")
      mipSizes == SizeOf(SVGA3dCmdDefineSurface)
  IN If3D(have, <<With(BeginDefineSurface(1),
       Store(faces, <<Num(1)>>)
       \o Members(SVGA3dSize, mipSizes, 0, <<"width", "height">>)
       \o Assign(SVGA3dSize, mipSizes, "depth", <<Num(1)>>))>>)

destroySurface(have) == If3D(have, <<DestroySurface>>)

(* What surfaceDMA2D and surfaceCopy store in a box: z and srcz they do not. *)
BoxStores(at, n) ==
  Each(n, LAMBDA i :
    LET box == at + (i - 1) * SizeOf(SVGA3dCopyBox)
    IN Members(SVGA3dCopyBox, box, i, <<"srcx", "srcy", "x", "y", "w", "h">>)
       \o Assign(SVGA3dCopyBox, box, "d", <<Num(1)>>))

surfaceDMA2D(have, n) ==
  If3D(have, <<With(BeginSurfaceDMA(n), BoxStores(BoxesAt, n))>> \o Fence(have))

surfaceDMA3DEx(have) ==
  If3D(have, <<With(BeginSurfaceDMAwithSuffix(1), CopyOf(SVGA3dCopyBox, BoxesAt, 1))>>
             \o Fence(have))

surfaceCopy(have, n) ==
  If3D(have, <<With(BeginSurfaceCopy(n), BoxStores(SizeOf(SVGA3dCmdSurfaceCopy), n))>>)

surfaceStretch(have) == If3D(have, <<SurfaceStretchBlt>>)

RectStores(layout, at, n, members) ==
  Each(n, LAMBDA i : Members(layout, at + (i - 1) * SizeOf(layout), i, members))

(* A fence is inserted for the present tracker whatever the caller wants. *)
surfacePresentAutoSync(have, n) ==
  LET rects == SizeOf(SVGA3dCmdPresent)
  IN If3D(have, <<With(BeginPresent(n), RectStores(SVGA3dCopyRect, rects, n,
                    <<"srcx", "srcy", "x", "y", "w", "h">>))>>
                \o InsertFence(have.fence))

surfacePresentReadback(have, n) ==
  If3D(have, <<With(BeginPresentReadback(n),
                    RectStores(SVGA3dRect, 0, n, <<"x", "y", "w", "h">>))>>)

setRenderTarget(have) == If3D(have, <<SetRenderTarget>>)

clear(have, n) ==
  If3D(have, <<With(BeginClear(n),
    RectStores(SVGA3dRect, SizeOf(SVGA3dCmdClear), n, <<"x", "y", "w", "h">>))>>)

createContext(have) == If3D(have, <<DefineContext>>)
destroyContext(have) == If3D(have, <<DestroyContext>>)

drawPrimitives(have, n, m) ==
  LET decls == SizeOf(SVGA3dCmdDrawPrimitives)
      ranges == decls + n * SizeOf(SVGA3dVertexDecl)
  IN If3D(have, <<With(BeginDrawPrimitives(n, m),
       CopyOf(SVGA3dVertexDecl, decls, n) \o CopyOf(SVGA3dPrimitiveRange, ranges, m))>>)

setTextureState(have, n) ==
  If3D(have, <<With(BeginSetTextureState(n),
    CopyOf(SVGA3dTextureState, SizeOf(SVGA3dCmdSetTextureState), n))>>)

setRenderState(have, n) ==
  If3D(have, <<With(BeginSetRenderState(n),
    CopyOf(SVGA3dRenderState, SizeOf(SVGA3dCmdSetRenderState), n))>>)

-----------------------------------------------------------------------------
(* Screen objects *)

NewScreen ==
  [structSize |-> <<Num(SizeOf(SVGAScreenObject))>>, id |-> <<Num(0)>>,
   flags |-> <<Name("HAS_ROOT|IS_PRIMARY")>>, root |-> <<Num(0), Num(0)>>,
   backingStore |-> <<Name("GMR_VRAM"), Num(0), Name("pitch of the width")>>,
   cloneCount |-> <<Num(0)>>]

(* bzero of the structure, then its members *)
createPrimaryScreen(have) ==
  IfScreen(have, <<DefineScreen(Struct(SVGAScreenObject, 0, NewScreen))>>)

blitFromScreen(have, n) ==
  IfScreen(have, <<DefineGMRFB>> \o [i \in 1..n |-> BlitToGMRFB(i)] \o Fence(have))

blitToScreen(have, n) ==
  IfScreen(have, <<DefineGMRFB>> \o [i \in 1..n |-> BlitFromGMRFB(i)] \o Fence(have))

blitSurfaceToScreen(have, n) ==
  IfScreen(have, <<With(BeginBlitSurfaceToScreen(n),
    RectStores(SVGASignedRect, SizeOf(SVGA3dCmdBlitSurfaceToScreen), n,
               <<"left", "right", "top", "bottom">>))>>)

-----------------------------------------------------------------------------
(* Video: "unit" is the SVGAOverlayUnit of a surface, as its words *)

AccelVideoSetRegsInRange(have, unit, regMin, regMax) ==
  VideoSetRegsInRange(unit, regMin, regMax) \o <<VideoFlush>> \o Fence(have)

(* No registers: only a flush *)
AccelVideoFlush(have) == <<VideoFlush>> \o Fence(have)

AccelVideoSetReg(have, r, value) == <<DeviceVideoSetReg(r, value), VideoFlush>> \o Fence(have)

(* From the backing and the scale of the surface, after a bzero of the unit *)
setVideoRegs ==
  LET from == <<<<"dataOffset", "backing.offset">>, <<"format", "vmware_pixel_format">>,
                <<"width", "source.w">>, <<"height", "source.h">>,
                <<"srcX", "buffer.x">>, <<"srcY", "buffer.y">>,
                <<"srcWidth", "buffer.w">>, <<"srcHeight", "buffer.h">>,
                <<"pitches", "pitch">>, <<"size", "source.h*pitch">>,
                <<"dataGMRId", "gmr_id">>, <<"dstScreenId", "framebufferIndex">>>>
  IN Zeros(0, SizeOf(SVGAOverlayUnit))
     \o Each(Len(from), LAMBDA i : Assign(SVGAOverlayUnit, 0, from[i][1], <<Arg(0, from[i][2])>>))

(* All or nothing: the whole frame over the bounds of the region, or no frame *)
setVideoDest(empty) ==
  LET at == OffsetOf(SVGAOverlayUnit, "dstX")
  IN IF empty THEN Zeros(at, 4)
     ELSE Store(at, Args(0, <<"bounds.x", "bounds.y", "bounds.w", "bounds.h">>))

Overlay(stores) == Filled(SizeOf(SVGAOverlayUnit), stores)
WithItsFence(have) == [have EXCEPT !.wanted = TRUE]

(* An enabled overlay is only flushed, though what its registers stand for may have changed. *)
surface_flush_video(have, enabled, empty) ==
  IF enabled THEN AccelVideoFlush(WithItsFence(have))
  ELSE LET unit == Overlay(setVideoRegs \o setVideoDest(empty)
                           \o Assign(SVGAOverlayUnit, 0, "enabled", <<Num(1)>>))
       IN AccelVideoSetRegsInRange(WithItsFence(have), unit, 0, 20)

videoReshape(have, enabled, empty) ==
  IF ~enabled THEN NoCommand
  ELSE AccelVideoSetRegsInRange(WithItsFence(have), Overlay(setVideoDest(empty)), 12, 15)

surface_video_off(have, enabled) ==
  IF ~enabled THEN NoCommand ELSE AccelVideoSetReg([have EXCEPT !.wanted = FALSE], 0, Num(0))

-----------------------------------------------------------------------------
(* Guest memory regions *)

DefineAndRemapGMR2(numPages) ==
  <<With(DefineGMR2, Assign(SVGAFifoCmdDefineGMR2, 0, "numPages", <<Num(numPages)>>)),
    RemapGMR2(numPages)>>
=============================================================================
