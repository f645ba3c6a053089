------------------------------ MODULE Commands ------------------------------
(***************************************************************************)
(* The encoders of device commands: AC/SVGA3D.cpp, AC/SVGAScreen.cpp and   *)
(* the command methods of FB/SVGADevice.cpp, with the accelerator methods  *)
(* that fill in what they leave open.                                      *)
(*                                                                         *)
(* An encoder reserves room in the FIFO and stores words in it; what it    *)
(* does not store is what the FIFO held before.  A command is therefore    *)
(* the words of its header, the words reserved after it, the stores made   *)
(* there in their order, and how many words are committed.                 *)
(*                                                                         *)
(* A word is a number, a name, word k of argument m, <<e, m, k>>, or       *)
(* stale; e counts the rectangles, boxes or states of a call, and is 0 for *)
(* the call's own arguments.  Reservations are not refused here (SVGAFifo  *)
(* has that).                                                              *)
(***************************************************************************)
EXTENDS CommandLayouts

Num(v) == <<"number", v>>
Name(s) == <<s>>
Stale == <<>>

Value(e, m, width) == [k \in 1..width |-> <<e, m, k>>]

(* A whole structure, its members in order; "given" has those whose value is fixed. *)
Struct(layout, e, given) ==
  FlattenSeq([i \in DOMAIN layout |->
    IF layout[i][1] \in DOMAIN given THEN given[layout[i][1]]
    ELSE Value(e, layout[i][1], layout[i][2])])

Plain(layout, e) == Struct(layout, e, <<>>)

Store(at, words) == <<[at |-> at, words |-> words]>>
Zeros(at, n) == Store(at, [k \in 1..n |-> Num(0)])

(* Assignments to some members of the structure at "at" *)
Members(layout, at, e, members) ==
  [i \in DOMAIN members |->
    [at |-> at + OffsetOf(layout, members[i]),
     words |-> Value(e, members[i], WordsOf(layout, members[i]))]]

Assign(layout, at, member, words) == Store(at + OffsetOf(layout, member), words)

(* stores(i) for each of n elements, one after the other *)
Each(n, stores(_)) == FlattenSeq([i \in 1..n |-> stores(i)])

(* memcpy of n structures *)
CopyOf(layout, at, n) == Each(n, LAMBDA i : Store(at + (i - 1) * SizeOf(layout), Plain(layout, i)))

Reserve(header, size) ==
  [header |-> header, size |-> size, stores |-> <<>>, committed |-> Len(header) + size]

FIFOReserve3D(id, size) ==
  Reserve(Struct(SVGA3dCmdHeader, 0, [id |-> <<Name(id)>>, size |-> <<Num(size)>>]), size)
FIFOReserveCmd(id, size) == Reserve(<<Name(id)>>, size)
FIFOReserveEscape(nsid, size) ==
  Reserve(<<Name("ESCAPE")>>
          \o Struct(SVGAFifoCmdEscape, 0, [nsid |-> <<Name(nsid)>>, size |-> <<Num(size)>>]), size)

With(cmd, stores) == [cmd EXCEPT !.stores = @ \o stores]
Commit(cmd, words) == [cmd EXCEPT !.committed = words]

(* "size" words after stores to them: one that was not stored is stale. *)
Filled(size, stores) ==
  [k \in 1..size |->
    LET at == {i \in DOMAIN stores :
                k > stores[i].at /\ k <= stores[i].at + Len(stores[i].words)}
    IN IF at = {} THEN Stale ELSE stores[Max(at)].words[k - stores[Max(at)].at]]

(* What the device then finds *)
Published(cmd) == SubSeq(cmd.header \o Filled(cmd.size, cmd.stores), 1, cmd.committed)

-----------------------------------------------------------------------------
(* SVGA3D.cpp *)

(* A command that is one structure, every member of it assigned or copied *)
Fixed3D(id, members) ==
  LET layout == Commands3D[id]
  IN With(FIFOReserve3D(id, SizeOf(layout)), Members(layout, 0, 0, members))

BeginDefineSurface(numMipSizes) ==
  LET cmd == SVGA3dCmdDefineSurface
      mips == SizeOf(cmd)
  IN With(FIFOReserve3D("SURFACE_DEFINE", SizeOf(cmd) + numMipSizes * SizeOf(SVGA3dSize)),
          Members(cmd, 0, 0, <<"sid", "surfaceFlags", "format">>)
          \o Zeros(OffsetOf(cmd, "face"), WordsOf(cmd, "face"))
          \o Zeros(mips, numMipSizes * SizeOf(SVGA3dSize)))

DestroySurface == Fixed3D("SURFACE_DESTROY", <<"sid">>)

BoxesAt == SizeOf(SVGA3dCmdSurfaceDMA)

(* A mutant: the boxes are left as they are, as in BeginSurfaceDMAwithSuffix. *)
SurfaceDMAUncleared(numBoxes) ==
  With(FIFOReserve3D("SURFACE_DMA", BoxesAt + numBoxes * SizeOf(SVGA3dCopyBox)),
       Members(SVGA3dCmdSurfaceDMA, 0, 0, <<"guest", "host", "transfer">>))

BeginSurfaceDMA(numBoxes) ==
  LET boxes == numBoxes * SizeOf(SVGA3dCopyBox)
  IN With(FIFOReserve3D("SURFACE_DMA", SizeOf(SVGA3dCmdSurfaceDMA) + boxes),
          Members(SVGA3dCmdSurfaceDMA, 0, 0, <<"guest", "host", "transfer">>)
          \o Zeros(BoxesAt, boxes))

(* The boxes are not zeroed; the suffix follows them. *)
BeginSurfaceDMAwithSuffix(numBoxes) ==
  LET boxes == numBoxes * SizeOf(SVGA3dCopyBox)
      suffix == SVGA3dCmdSurfaceDMASuffix
      at == BoxesAt + boxes
  IN With(FIFOReserve3D("SURFACE_DMA", SizeOf(SVGA3dCmdSurfaceDMA) + boxes + SizeOf(suffix)),
          Members(SVGA3dCmdSurfaceDMA, 0, 0, <<"guest", "host", "transfer">>)
          \o Assign(suffix, at, "suffixSize", <<Num(SizeOf(suffix))>>)
          \o Members(suffix, at, 0, <<"maximumOffset", "flags">>))

DefineContext == Fixed3D("CONTEXT_DEFINE", <<"cid">>)
DestroyContext == Fixed3D("CONTEXT_DESTROY", <<"cid">>)
SetRenderTarget == Fixed3D("SETRENDERTARGET", <<"cid", "type", "target">>)
SetTransform == Fixed3D("SETTRANSFORM", <<"cid", "type", "matrix">>)
SetMaterial == Fixed3D("SETMATERIAL", <<"cid", "face", "material">>)
SetLightEnabled == Fixed3D("SETLIGHTENABLED", <<"cid", "index", "enabled">>)
SetLightData == Fixed3D("SETLIGHTDATA", <<"cid", "index", "data">>)

(* "bytes" of bytecode: refused unless they are whole words *)
DefineShader(bytes) ==
  LET cmd == SVGA3dCmdDefineShader
  IN IF bytes % 4 # 0 THEN <<>>
     ELSE <<With(FIFOReserve3D("SHADER_DEFINE", SizeOf(cmd) + bytes \div 4),
                 Members(cmd, 0, 0, <<"cid", "shid", "type">>)
                 \o Store(SizeOf(cmd), Value(0, "bytecode", bytes \div 4)))>>

DestroyShader == Fixed3D("SHADER_DESTROY", <<"cid", "shid", "type">>)

(* A constant of a type that does not exist: the reservation is committed empty. *)
SetShaderConst(ctype) ==
  LET cmd == SVGA3dCmdSetShaderConst
      values == OffsetOf(cmd, "values")
      reserved == With(FIFOReserve3D("SET_SHADER_CONST", SizeOf(cmd)),
                       Members(cmd, 0, 0, <<"cid", "reg", "type", "ctype">>))
  IN CASE ctype \in {"FLOAT", "INT"} -> With(reserved, Members(cmd, 0, 0, <<"values">>))
       [] ctype = "BOOL" -> With(reserved, Zeros(values, WordsOf(cmd, "values"))
                                           \o Store(values, Value(0, "values", 1)))
       [] OTHER -> Commit(reserved, 0)

SetShader == Fixed3D("SET_SHADER", <<"cid", "type", "shid">>)

BeginPresent(numRects) ==
  With(FIFOReserve3D("PRESENT", SizeOf(SVGA3dCmdPresent) + numRects * SizeOf(SVGA3dCopyRect)),
       Members(SVGA3dCmdPresent, 0, 0, <<"sid">>))

BeginClear(numRects) ==
  With(FIFOReserve3D("CLEAR", SizeOf(SVGA3dCmdClear) + numRects * SizeOf(SVGA3dRect)),
       Members(SVGA3dCmdClear, 0, 0, <<"cid", "clearFlag", "color", "depth", "stencil">>))

BeginDrawPrimitives(numVertexDecls, numRanges) ==
  LET cmd == SVGA3dCmdDrawPrimitives
  IN With(FIFOReserve3D("DRAW_PRIMITIVES",
            SizeOf(cmd) + numVertexDecls * SizeOf(SVGA3dVertexDecl)
            + numRanges * SizeOf(SVGA3dPrimitiveRange)),
          Members(cmd, 0, 0, <<"cid">>)
          \o Assign(cmd, 0, "numVertexDecls", <<Num(numVertexDecls)>>)
          \o Assign(cmd, 0, "numRanges", <<Num(numRanges)>>))

BeginSurfaceCopy(numBoxes) ==
  LET boxes == numBoxes * SizeOf(SVGA3dCopyBox)
  IN With(FIFOReserve3D("SURFACE_COPY", SizeOf(SVGA3dCmdSurfaceCopy) + boxes),
          Members(SVGA3dCmdSurfaceCopy, 0, 0, <<"src", "dest">>)
          \o Zeros(SizeOf(SVGA3dCmdSurfaceCopy), boxes))

SurfaceStretchBlt ==
  Fixed3D("SURFACE_STRETCHBLT", <<"src", "dest", "boxSrc", "boxDest", "mode">>)

SetViewport == Fixed3D("SETVIEWPORT", <<"cid", "rect">>)
SetScissorRect == Fixed3D("SETSCISSORRECT", <<"cid", "rect">>)
SetZRange == Fixed3D("SETZRANGE", <<"cid", "zRange">>)
SetClipPlane == Fixed3D("SETCLIPPLANE", <<"cid", "index", "plane">>)

BeginSetTextureState(numStates) ==
  With(FIFOReserve3D("SETTEXTURESTATE",
         SizeOf(SVGA3dCmdSetTextureState) + numStates * SizeOf(SVGA3dTextureState)),
       Members(SVGA3dCmdSetTextureState, 0, 0, <<"cid">>))

BeginSetRenderState(numStates) ==
  With(FIFOReserve3D("SETRENDERSTATE",
         SizeOf(SVGA3dCmdSetRenderState) + numStates * SizeOf(SVGA3dRenderState)),
       Members(SVGA3dCmdSetRenderState, 0, 0, <<"cid">>))

BeginPresentReadback(numRects) ==
  FIFOReserve3D("PRESENT_READBACK", numRects * SizeOf(SVGA3dRect))

BeginBlitSurfaceToScreen(numClipRects) ==
  LET cmd == SVGA3dCmdBlitSurfaceToScreen
  IN With(FIFOReserve3D("BLIT_SURFACE_TO_SCREEN",
                        SizeOf(cmd) + numClipRects * SizeOf(SVGASignedRect)),
          Members(cmd, 0, 0, <<"srcImage", "srcRect", "destScreenId", "destRect">>))

BeginQuery == Fixed3D("BEGIN_QUERY", <<"cid", "type">>)
EndQuery == Fixed3D("END_QUERY", <<"cid", "type", "guestResult">>)
WaitForQuery == Fixed3D("WAIT_FOR_QUERY", <<"cid", "type", "guestResult">>)

-----------------------------------------------------------------------------
(* SVGAScreen.cpp and the command methods of SVGADevice.cpp *)

Fixed2D(id, e, members) ==
  LET layout == Commands2D[id]
  IN With(FIFOReserveCmd(id, SizeOf(layout)), Members(layout, 0, e, members))

(* screen->structSize bytes of *screen, as the caller left it *)
DefineScreen(screen) ==
  With(FIFOReserveCmd("DEFINE_SCREEN", screen[1][2]), Store(0, SubSeq(screen, 1, screen[1][2])))

DestroyScreen == Fixed2D("DESTROY_SCREEN", 0, <<"screenId">>)
DefineGMRFB == Fixed2D("DEFINE_GMRFB", 0, <<"ptr", "bytesPerLine", "format">>)
BlitFromGMRFB(e) == Fixed2D("BLIT_GMRFB_TO_SCREEN", e, <<"srcOrigin", "destRect", "destScreenId">>)
BlitToGMRFB(e) == Fixed2D("BLIT_SCREEN_TO_GMRFB", e, <<"destOrigin", "srcRect", "srcScreenId">>)
AnnotateFill == Fixed2D("ANNOTATION_FILL", 0, <<"color">>)
AnnotateCopy == Fixed2D("ANNOTATION_COPY", 0, <<"srcOrigin", "srcScreenId">>)

(* Without the capability there is nothing to insert. *)
InsertFence(hasCap) ==
  IF hasCap THEN <<With(Reserve(<<>>, 2), Store(0, <<Name("FENCE")>> \o Value(0, "fence", 1)))>>
  ELSE <<>>

UpdateFramebuffer == Fixed2D("UPDATE", 0, <<"x", "y", "width", "height">>)

(* memcpy of the caller's words over the members from "first" on *)
Over(id, first, words) == Assign(Commands2D[id], 0, first, words)

UpdateFramebuffer2(rect) ==
  With(FIFOReserveCmd("UPDATE", SizeOf(SVGAFifoCmdUpdate)), Over("UPDATE", "x", rect))

DeviceRectCopy(copyRect) ==
  With(FIFOReserveCmd("RECT_COPY", SizeOf(SVGAFifoCmdRectCopy)), Over("RECT_COPY", "srcX", copyRect))

DeviceRectFill(e, rect) ==
  With(FIFOReserveCmd("FRONT_ROP_FILL", SizeOf(SVGAFifoCmdFrontRopFill)),
       Over("FRONT_ROP_FILL", "color", Value(0, "color", 1))
       \o Over("FRONT_ROP_FILL", "x", rect)
       \o Over("FRONT_ROP_FILL", "rop", <<Name("SVGA_ROP_COPY")>>))

(* Begin reserves, the caller copies the image, End stores the rest and commits. *)
BeginDefineAlphaCursor(width, height) ==
  FIFOReserveCmd("DEFINE_ALPHA_CURSOR", SizeOf(SVGAFifoCmdDefineAlphaCursor) + width * height)

EndDefineAlphaCursor(cmd, width, height) ==
  LET layout == SVGAFifoCmdDefineAlphaCursor
  IN Commit(With(cmd, Assign(layout, 0, "id", <<Num(1)>>)
                      \o Members(layout, 0, 0, <<"hotspotX", "hotspotY">>)
                      \o Assign(layout, 0, "width", <<Num(width)>>)
                      \o Assign(layout, 0, "height", <<Num(height)>>)),
            1 + SizeOf(layout) + width * height)

setCursorImage(width, height) ==
  LET image == Store(SizeOf(SVGAFifoCmdDefineAlphaCursor), Value(0, "image", width * height))
  IN EndDefineAlphaCursor(With(BeginDefineAlphaCursor(width, height), image), width, height)

BeginVideoSetRegs(numItems) ==
  With(FIFOReserveEscape("VMWARE", SizeOf(SVGAEscapeVideo) + numItems * SizeOf(SVGAEscapeVideoItem)),
       Assign(SVGAEscapeVideo, 0, "cmdType", <<Name("VIDEO_SET_REGS")>>)
       \o Members(SVGAEscapeVideo, 0, 0, <<"streamId">>))

Item(i) == SizeOf(SVGAEscapeVideo) + (i - 1) * SizeOf(SVGAEscapeVideoItem)

(* regArray[r]: the overlay unit seen as an array from 0 *)
RegArray(unit, r) == unit[r + 1]

VideoSetRegsInRange(unit, minReg, maxReg) ==
  LET numRegs == maxReg - minReg + 1
  IN IF minReg > maxReg THEN <<>>
     ELSE <<With(BeginVideoSetRegs(numRegs),
                 Each(numRegs, LAMBDA i :
                   Store(Item(i), <<Num(i - 1 + minReg), RegArray(unit, i - 1 + minReg)>>)))>>

VideoSetRegsWithMask(unit, regs) ==
  IF regs = {} THEN <<>>
  ELSE <<With(BeginVideoSetRegs(Cardinality(regs)),
              Each(Cardinality(regs), LAMBDA i :
                LET r == CHOOSE r \in regs : Cardinality({s \in regs : s < r}) = i - 1
                IN Store(Item(i), <<Num(r), RegArray(unit, r)>>)))>>

DeviceVideoSetReg(r, value) ==
  With(BeginVideoSetRegs(1), Store(Item(1), <<Num(r), value>>))

VideoFlush ==
  With(FIFOReserveEscape("VMWARE", SizeOf(SVGAEscapeVideo)),
       Assign(SVGAEscapeVideo, 0, "cmdType", <<Name("VIDEO_FLUSH")>>)
       \o Members(SVGAEscapeVideo, 0, 0, <<"streamId">>))

DefineGMR2 == Fixed2D("DEFINE_GMR2", 0, <<"gmrId", "numPages">>)

(* The suffix lists "numPages" pages of one word each. *)
RemapGMR2(numPages) ==
  LET layout == SVGAFifoCmdRemapGMR2
  IN With(FIFOReserveCmd("REMAP_GMR2", SizeOf(layout) + numPages),
          Members(layout, 0, 0, <<"gmrId", "flags", "offsetPages">>)
          \o Assign(layout, 0, "numPages", <<Num(numPages)>>)
          \o Store(SizeOf(layout), Value(0, "ppn", numPages)))
=============================================================================
