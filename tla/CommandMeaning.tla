--------------------------- MODULE CommandMeaning ---------------------------
(***************************************************************************)
(* What the calls that issue commands have to tell the device, stated      *)
(* without the encoders: a command is its header and the whole of every    *)
(* structure it is made of, in order, each member with its argument.  And  *)
(* how many words the device takes for a command it finds in the FIFO.     *)
(***************************************************************************)
EXTENDS BlitDispatch

Meant3D(id, given, tail) ==
  <<Name(id), Num(SizeOf(Commands3D[id]) + Len(tail))>> \o Struct(Commands3D[id], 0, given) \o tail

Meant2D(id, e, given, tail) == <<Name(id)>> \o Struct(Commands2D[id], e, given) \o tail

MeantEscape(id, tail) ==
  <<Name("ESCAPE"), Name("VMWARE"), Num(SizeOf(Escapes[id]) + Len(tail))>>
  \o Struct(Escapes[id], 0, [cmdType |-> <<Name(id)>>]) \o tail

(* n structures, one after the other *)
List(layout, n, given) == FlattenSeq([i \in 1..n |-> Struct(layout, i, given)])

(* A box of a 2D image *)
Flat == [z |-> <<Num(0)>>, srcz |-> <<Num(0)>>, d |-> <<Num(1)>>]

(* One face, with one level of depth 1 *)
OneFace == [face |-> <<Num(1), Num(0), Num(0), Num(0), Num(0), Num(0)>>]
OneLevel == Struct(SVGA3dSize, 0, [depth |-> <<Num(1)>>])

DMASuffix ==
  Struct(SVGA3dCmdSurfaceDMASuffix, 0, [suffixSize |-> <<Num(SizeOf(SVGA3dCmdSurfaceDMASuffix))>>])

(* The words that a member of the source takes the place of *)
From(i, names) == [m \in DOMAIN names |-> <<Arg(i, names[m])>>]

RegionCopy(i) ==
  Meant2D("RECT_COPY", i, From(i, [srcX |-> "x", srcY |-> "y", destX |-> "x+delta",
    destY |-> "y+delta", width |-> "w", height |-> "h"]), <<>>)

BlitterCopy(i) ==
  Meant2D("RECT_COPY", i, From(i, [srcX |-> "sourceX", srcY |-> "sourceY", destX |-> "x",
    destY |-> "y"]), <<>>)

Fill(i) ==
  Meant2D("FRONT_ROP_FILL", i, [color |-> <<Arg(0, "color")>>, rop |-> <<Name("SVGA_ROP_COPY")>>], <<>>)

MeantFence == Meant2D("FENCE", 0, <<>>, <<>>)

(* The registers of an overlay, in order, are the words of an overlay unit: *)
(* what each of these gets, where "given" fixes some.                       *)
Registers(regs, given) ==
  FlattenSeq([i \in DOMAIN regs |-> <<Num(regs[i]), Struct(SVGAOverlayUnit, 0, given)[regs[i] + 1]>>])

Span(first, last) == [i \in 1..last - first + 1 |-> first + i - 1]
SetRegs(regs, given) == MeantEscape("VIDEO_SET_REGS", Registers(regs, given))
Disable == SetRegs(<<0>>, [enabled |-> <<Num(0)>>])

(* An overlay over the bounds of its region, or nowhere if the region is empty *)
DestOf(empty) ==
  IF empty THEN [m \in {"dstX", "dstY", "dstWidth", "dstHeight"} |-> <<Num(0)>>]
  ELSE From(0, [dstX |-> "bounds.x", dstY |-> "bounds.y", dstWidth |-> "bounds.w",
                dstHeight |-> "bounds.h"])

(* The buffer of the surface within its backing; other planes have no pitch. *)
SourceOfOverlay ==
  From(0, [dataOffset |-> "backing.offset", format |-> "vmware_pixel_format",
           size |-> "source.h*pitch", width |-> "source.w", height |-> "source.h",
           srcX |-> "buffer.x", srcY |-> "buffer.y", srcWidth |-> "buffer.w",
           srcHeight |-> "buffer.h", dataGMRId |-> "gmr_id", dstScreenId |-> "framebufferIndex"])
  @@ [enabled |-> <<Num(1)>>, flags |-> <<Num(0)>>, colorKey |-> <<Num(0)>>,
      pitches |-> <<Arg(0, "pitch"), Num(0), Num(0)>>]

Flush == MeantEscape("VIDEO_FLUSH", <<>>)

-----------------------------------------------------------------------------
(* The calls: what the code does, and what it has to say when the device can do it *)

Can(have, needs) ==
  CASE needs = "3D" -> have.three
    [] needs = "screen objects" -> have.screen
    [] needs = "no front buffer" -> ~have.three /\ ~have.screen
    [] OTHER -> TRUE

Op(have, needs, commands, meant) ==
  [commands |-> commands, meant |-> IF Can(have, needs) THEN meant ELSE <<>>]

WithFence(have) == IF have.wanted /\ have.fence THEN <<MeantFence>> ELSE <<>>

Blits2D(have, n) ==
  {Op(have, "no front buffer", CopyRegion(have, FALSE, n), [i \in 1..n |-> RegionCopy(i)]),
   Op(have, "no front buffer", CopyRegion(have, TRUE, n), <<RegionCopy(0)>>),
   Op(have, "no front buffer", UpdateFramebufferAutoRing(have),
      <<Meant2D("UPDATE", 0, <<>>, <<>>)>>)}
  \cup
  UNION {{Op(have, "no front buffer", vmCopy(type, target, have, n),
             IF type = "copy" /\ target = "framebuffer" THEN [i \in 1..n |-> BlitterCopy(i)] ELSE <<>>),
          Op(have, "nothing", vmFill(type, target, n),
             IF type = "copy" /\ target = "framebuffer" THEN [i \in 1..n |-> Fill(i)] ELSE <<>>)} :
         type \in {"copy", "other"}, target \in {"framebuffer", "surface"}}

SurfaceCommands(have, n) ==
  {Op(have, "3D", createSurface(have), <<Meant3D("SURFACE_DEFINE", OneFace, OneLevel)>>),
   Op(have, "3D", destroySurface(have), <<Meant3D("SURFACE_DESTROY", <<>>, <<>>)>>),
   Op(have, "3D", surfaceDMA2D(have, n),
      <<Meant3D("SURFACE_DMA", <<>>, List(SVGA3dCopyBox, n, Flat))>> \o WithFence(have)),
   Op(have, "3D", surfaceDMA3DEx(have),
      <<Meant3D("SURFACE_DMA", <<>>, List(SVGA3dCopyBox, 1, <<>>) \o DMASuffix)>> \o WithFence(have)),
   Op(have, "3D", surfaceCopy(have, n),
      <<Meant3D("SURFACE_COPY", <<>>, List(SVGA3dCopyBox, n, Flat))>>),
   Op(have, "3D", surfaceStretch(have), <<Meant3D("SURFACE_STRETCHBLT", <<>>, <<>>)>>),
   Op(have, "3D", surfacePresentAutoSync(have, n),
      <<Meant3D("PRESENT", <<>>, List(SVGA3dCopyRect, n, <<>>))>>
      \o (IF have.fence THEN <<MeantFence>> ELSE <<>>)),
   Op(have, "3D", surfacePresentReadback(have, n),
      <<Meant3D("PRESENT_READBACK", <<>>, List(SVGA3dRect, n, <<>>))>>)}

ContextCommands(have, n) ==
  {Op(have, "3D", createContext(have), <<Meant3D("CONTEXT_DEFINE", <<>>, <<>>)>>),
   Op(have, "3D", destroyContext(have), <<Meant3D("CONTEXT_DESTROY", <<>>, <<>>)>>),
   Op(have, "3D", setRenderTarget(have), <<Meant3D("SETRENDERTARGET", <<>>, <<>>)>>),
   Op(have, "3D", clear(have, n), <<Meant3D("CLEAR", <<>>, List(SVGA3dRect, n, <<>>))>>),
   Op(have, "3D", drawPrimitives(have, n, 2 - n),
      <<Meant3D("DRAW_PRIMITIVES", [numVertexDecls |-> <<Num(n)>>, numRanges |-> <<Num(2 - n)>>],
          List(SVGA3dVertexDecl, n, <<>>) \o List(SVGA3dPrimitiveRange, 2 - n, <<>>))>>),
   Op(have, "3D", setTextureState(have, n),
      <<Meant3D("SETTEXTURESTATE", <<>>, List(SVGA3dTextureState, n, <<>>))>>),
   Op(have, "3D", setRenderState(have, n),
      <<Meant3D("SETRENDERSTATE", <<>>, List(SVGA3dRenderState, n, <<>>))>>)}

ScreenCommands(have, n) ==
  {Op(have, "screen objects", createPrimaryScreen(have),
      <<Meant2D("DEFINE_SCREEN", 0, NewScreen, <<>>)>>),
   Op(have, "screen objects", blitFromScreen(have, n),
      <<Meant2D("DEFINE_GMRFB", 0, <<>>, <<>>)>>
      \o [i \in 1..n |-> Meant2D("BLIT_SCREEN_TO_GMRFB", i, <<>>, <<>>)] \o WithFence(have)),
   Op(have, "screen objects", blitToScreen(have, n),
      <<Meant2D("DEFINE_GMRFB", 0, <<>>, <<>>)>>
      \o [i \in 1..n |-> Meant2D("BLIT_GMRFB_TO_SCREEN", i, <<>>, <<>>)] \o WithFence(have)),
   Op(have, "screen objects", blitSurfaceToScreen(have, n),
      <<Meant3D("BLIT_SURFACE_TO_SCREEN", <<>>, List(SVGASignedRect, n, <<>>))>>),
   Op(have, "nothing", <<DestroyScreen>>, <<Meant2D("DESTROY_SCREEN", 0, <<>>, <<>>)>>),
   Op(have, "nothing", <<AnnotateFill>>, <<Meant2D("ANNOTATION_FILL", 0, <<>>, <<>>)>>),
   Op(have, "nothing", <<AnnotateCopy>>, <<Meant2D("ANNOTATION_COPY", 0, <<>>, <<>>)>>)}

(* An overlay is off (n = 0), or on with a region that is empty (n = 1) or not. *)
OverlayCommands(have, n) ==
  LET fence == IF have.fence THEN <<MeantFence>> ELSE <<>>
      empty == n = 1
  IN {Op(have, "nothing", surface_flush_video(have, FALSE, empty),
        <<SetRegs(Span(0, 20), DestOf(empty) @@ SourceOfOverlay), Flush>> \o fence),
      Op(have, "nothing", surface_flush_video(have, n > 0, empty),
        (IF n > 0 THEN <<>> ELSE <<SetRegs(Span(0, 20), DestOf(empty) @@ SourceOfOverlay)>>)
        \o <<Flush>> \o fence),
      Op(have, "nothing", videoReshape(have, n > 0, empty),
        IF n = 0 THEN <<>> ELSE <<SetRegs(Span(12, 15), DestOf(empty)), Flush>> \o fence),
      Op(have, "nothing", surface_video_off(have, n > 0),
        IF n = 0 THEN <<>> ELSE <<Disable, Flush>>)}

VideoCommands(have, n) ==
  LET unit == Plain(SVGAOverlayUnit, 0)
      regs == <<<<>>, <<3, 17>>, <<6, 17>>>>[n + 1]
  IN OverlayCommands(have, n)
     \cup
     {Op(have, "nothing", AccelVideoSetRegsInRange(have, unit, 12 - n, 15 + n),
         <<SetRegs(Span(12 - n, 15 + n), <<>>), Flush>> \o WithFence(have)),
      Op(have, "nothing", VideoSetRegsInRange(unit, n, 1),
         IF n > 1 THEN <<>> ELSE <<SetRegs(Span(n, 1), <<>>)>>),
      Op(have, "nothing", VideoSetRegsWithMask(unit, Range(regs)),
         IF n = 0 THEN <<>> ELSE <<SetRegs(regs, <<>>)>>)}

(* The encoders no accelerator method calls, and the framebuffer's own *)
OtherCommands(have, n) ==
  {Op(have, "nothing", <<c[1]>>, <<Meant3D(c[2], <<>>, <<>>)>>) :
     c \in {<<SetTransform, "SETTRANSFORM">>, <<SetMaterial, "SETMATERIAL">>,
            <<SetLightEnabled, "SETLIGHTENABLED">>, <<SetLightData, "SETLIGHTDATA">>,
            <<DestroyShader, "SHADER_DESTROY">>, <<SetShader, "SET_SHADER">>,
            <<SetViewport, "SETVIEWPORT">>, <<SetScissorRect, "SETSCISSORRECT">>,
            <<SetZRange, "SETZRANGE">>, <<SetClipPlane, "SETCLIPPLANE">>,
            <<BeginQuery, "BEGIN_QUERY">>, <<EndQuery, "END_QUERY">>,
            <<WaitForQuery, "WAIT_FOR_QUERY">>}}
  \cup
  {Op(have, "nothing", DefineShader(2 * n),
      IF n = 1 THEN <<>> ELSE <<Meant3D("SHADER_DEFINE", <<>>, Value(0, "bytecode", n \div 2))>>),
   Op(have, "nothing", <<SetShaderConst(<<"FLOAT", "BOOL", "unknown">>[n + 1])>>,
      CASE n = 0 -> <<Meant3D("SET_SHADER_CONST", <<>>, <<>>)>>
        [] n = 1 -> <<Meant3D("SET_SHADER_CONST",
             [values |-> <<<<0, "values", 1>>, Num(0), Num(0), Num(0)>>], <<>>)>>
        [] OTHER -> <<>>),
   Op(have, "nothing", <<setCursorImage(n + 1, 2)>>,
      <<Meant2D("DEFINE_ALPHA_CURSOR", 0,
          [id |-> <<Num(0)>>, width |-> <<Num(n + 1)>>, height |-> <<Num(2)>>],
          Value(0, "image", 2 * (n + 1)))>>),
   Op(have, "nothing", DefineAndRemapGMR2(n + 1),
      <<Meant2D("DEFINE_GMR2", 0, [numPages |-> <<Num(n + 1)>>], <<>>),
        Meant2D("REMAP_GMR2", 0, [numPages |-> <<Num(n + 1)>>], Value(0, "ppn", n + 1))>>),
   Op(have, "nothing", <<UpdateFramebuffer>>, <<Meant2D("UPDATE", 0, <<>>, <<>>)>>),
   Op(have, "nothing", InsertFence(have.fence), IF have.fence THEN <<MeantFence>> ELSE <<>>)}

-----------------------------------------------------------------------------
(* The device, as it takes commands out of the FIFO *)

(* A count that is not a number tells nothing. *)
Number(w) == IF Len(w) = 2 THEN w[2] ELSE 0

(* How many words it takes for the command at the head of these *)
Extent(words) ==
  LET id == IF Len(words[1]) = 1 THEN words[1][1] ELSE "none"
      member(m) == Number(words[2 + OffsetOf(Commands2D[id], m)])
  IN CASE id \in DOMAIN Commands3D -> 2 + Number(words[2])
       [] id = "ESCAPE" -> 3 + Number(words[3])
       [] id = "DEFINE_SCREEN" -> 1 + member("structSize")
       [] id = "DEFINE_ALPHA_CURSOR" -> 1 + SizeOf(Commands2D[id]) + member("width") * member("height")
       [] id = "REMAP_GMR2" -> 1 + SizeOf(Commands2D[id]) + member("numPages")
       [] id \in DOMAIN Commands2D -> 1 + SizeOf(Commands2D[id])
       [] OTHER -> 1
=============================================================================
