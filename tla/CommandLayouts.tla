--------------------------- MODULE CommandLayouts ---------------------------
(***************************************************************************)
(* The structures of vminclude/svga3d_reg.h, svga_reg.h and svga_overlay.h *)
(* that commands are made of, as the C compiler lays them out.  Every      *)
(* scalar member takes one 32-bit word, so a layout is the sequence of     *)
(* its members, each with its number of words.                             *)
(***************************************************************************)
EXTENDS Integers, Sequences, FiniteSets, FiniteSetsExt, SequencesExt, Functions

Words(members) == [i \in DOMAIN members |-> <<members[i], 1>>]

(* sizeof, in words *)
SizeOf(layout) == FoldLeft(LAMBDA n, m : n + m[2], 0, layout)

(* offsetof and sizeof a member *)
OffsetOf(layout, member) ==
  LET before == SelectInSeq(layout, LAMBDA m : m[1] = member) - 1
  IN SizeOf(SubSeq(layout, 1, before))

WordsOf(layout, member) ==
  LET i == SelectInSeq(layout, LAMBDA m : m[1] = member) IN layout[i][2]

-----------------------------------------------------------------------------
(* Structures in commands *)

SVGAGuestPtr == Words(<<"gmrId", "offset">>)
SVGASignedRect == Words(<<"left", "top", "right", "bottom">>)
SVGASignedPoint == Words(<<"x", "y">>)
SVGAGuestImage == << <<"ptr", SizeOf(SVGAGuestPtr)>>, <<"pitch", 1>> >>
SVGA3dSurfaceImageId == Words(<<"sid", "face", "mipmap">>)
SVGA3dSize == Words(<<"width", "height", "depth">>)
SVGA3dCopyRect == Words(<<"x", "y", "w", "h", "srcx", "srcy">>)
SVGA3dCopyBox == Words(<<"x", "y", "z", "w", "h", "d", "srcx", "srcy", "srcz">>)
SVGA3dRect == Words(<<"x", "y", "w", "h">>)
SVGA3dBox == Words(<<"x", "y", "z", "w", "h", "d">>)
SVGA3dRenderState == Words(<<"state", "value">>)
SVGA3dTextureState == Words(<<"stage", "name", "value">>)
SVGA3dArray == Words(<<"surfaceId", "offset", "stride">>)
SVGA3dVertexDecl == << <<"identity", 4>>, <<"array", SizeOf(SVGA3dArray)>>, <<"rangeHint", 2>> >>

SVGA3dPrimitiveRange ==
  << <<"primType", 1>>, <<"primitiveCount", 1>>, <<"indexArray", SizeOf(SVGA3dArray)>>,
     <<"indexWidth", 1>>, <<"indexBias", 1>> >>

SVGA3dLightData ==
  << <<"type", 1>>, <<"inWorldSpace", 1>>, <<"diffuse", 4>>, <<"specular", 4>>,
     <<"ambient", 4>>, <<"position", 4>>, <<"direction", 4>>, <<"range", 1>>,
     <<"falloff", 1>>, <<"attenuation", 3>>, <<"theta", 1>>, <<"phi", 1>> >>

SVGA3dMaterial ==
  << <<"diffuse", 4>>, <<"ambient", 4>>, <<"specular", 4>>, <<"emissive", 4>>,
     <<"shininess", 1>> >>

SVGA3dCmdSurfaceDMASuffix == Words(<<"suffixSize", "maximumOffset", "flags">>)
SVGAEscapeVideoItem == Words(<<"registerId", "value">>)

SVGAScreenObject ==
  << <<"structSize", 1>>, <<"id", 1>>, <<"flags", 1>>, <<"size", 2>>, <<"root", 2>>,
     <<"backingStore", SizeOf(SVGAGuestImage)>>, <<"cloneCount", 1>> >>

SVGAOverlayUnit ==
  Words(<<"enabled", "flags", "dataOffset", "format", "colorKey", "size", "width",
          "height", "srcX", "srcY", "srcWidth", "srcHeight", "dstX", "dstY",
          "dstWidth", "dstHeight">>)
  \o << <<"pitches", 3>>, <<"dataGMRId", 1>>, <<"dstScreenId", 1>> >>

-----------------------------------------------------------------------------
(* What a command begins with, after its identifier *)

SVGA3dCmdHeader == Words(<<"id", "size">>)
SVGAFifoCmdEscape == Words(<<"nsid", "size">>)

SVGA3dCmdDefineSurface ==
  << <<"sid", 1>>, <<"surfaceFlags", 1>>, <<"format", 1>>, <<"face", 6>> >>
SVGA3dCmdDestroySurface == Words(<<"sid">>)
SVGA3dCmdSurfaceCopy ==
  << <<"src", SizeOf(SVGA3dSurfaceImageId)>>, <<"dest", SizeOf(SVGA3dSurfaceImageId)>> >>
SVGA3dCmdSurfaceStretchBlt ==
  SVGA3dCmdSurfaceCopy
  \o << <<"boxSrc", SizeOf(SVGA3dBox)>>, <<"boxDest", SizeOf(SVGA3dBox)>>, <<"mode", 1>> >>
SVGA3dCmdSurfaceDMA ==
  << <<"guest", SizeOf(SVGAGuestImage)>>, <<"host", SizeOf(SVGA3dSurfaceImageId)>>,
     <<"transfer", 1>> >>
SVGA3dCmdDefineContext == Words(<<"cid">>)
SVGA3dCmdDestroyContext == Words(<<"cid">>)
SVGA3dCmdPresent == Words(<<"sid">>)
SVGA3dCmdClear == Words(<<"cid", "clearFlag", "color", "depth", "stencil">>)
SVGA3dCmdSetRenderTarget ==
  << <<"cid", 1>>, <<"type", 1>>, <<"target", SizeOf(SVGA3dSurfaceImageId)>> >>
SVGA3dCmdDrawPrimitives == Words(<<"cid", "numVertexDecls", "numRanges">>)
SVGA3dCmdSetRenderState == Words(<<"cid">>)
SVGA3dCmdSetTextureState == Words(<<"cid">>)
SVGA3dCmdSetTransform == << <<"cid", 1>>, <<"type", 1>>, <<"matrix", 16>> >>
SVGA3dZRange == Words(<<"min", "max">>)
SVGA3dCmdSetZRange == << <<"cid", 1>>, <<"zRange", SizeOf(SVGA3dZRange)>> >>
SVGA3dCmdSetMaterial == << <<"cid", 1>>, <<"face", 1>>, <<"material", SizeOf(SVGA3dMaterial)>> >>
SVGA3dCmdSetLightData == << <<"cid", 1>>, <<"index", 1>>, <<"data", SizeOf(SVGA3dLightData)>> >>
SVGA3dCmdSetLightEnabled == Words(<<"cid", "index", "enabled">>)
SVGA3dCmdSetViewport == << <<"cid", 1>>, <<"rect", SizeOf(SVGA3dRect)>> >>
SVGA3dCmdSetScissorRect == << <<"cid", 1>>, <<"rect", SizeOf(SVGA3dRect)>> >>
SVGA3dCmdSetClipPlane == << <<"cid", 1>>, <<"index", 1>>, <<"plane", 4>> >>
SVGA3dCmdDefineShader == Words(<<"cid", "shid", "type">>)
SVGA3dCmdDestroyShader == Words(<<"cid", "shid", "type">>)
SVGA3dCmdSetShaderConst ==
  << <<"cid", 1>>, <<"reg", 1>>, <<"type", 1>>, <<"ctype", 1>>, <<"values", 4>> >>
SVGA3dCmdSetShader == Words(<<"cid", "type", "shid">>)
SVGA3dCmdBeginQuery == Words(<<"cid", "type">>)
SVGA3dCmdEndQuery ==
  << <<"cid", 1>>, <<"type", 1>>, <<"guestResult", SizeOf(SVGAGuestPtr)>> >>
SVGA3dCmdWaitForQuery ==
  << <<"cid", 1>>, <<"type", 1>>, <<"guestResult", SizeOf(SVGAGuestPtr)>> >>
SVGA3dCmdBlitSurfaceToScreen ==
  << <<"srcImage", SizeOf(SVGA3dSurfaceImageId)>>, <<"srcRect", SizeOf(SVGASignedRect)>>,
     <<"destScreenId", 1>>, <<"destRect", SizeOf(SVGASignedRect)>> >>

SVGAFifoCmdUpdate == Words(<<"x", "y", "width", "height">>)
SVGAFifoCmdRectCopy == Words(<<"srcX", "srcY", "destX", "destY", "width", "height">>)
SVGAFifoCmdDefineAlphaCursor == Words(<<"id", "hotspotX", "hotspotY", "width", "height">>)
SVGAFifoCmdFrontRopFill == Words(<<"color", "x", "y", "width", "height", "rop">>)
SVGAFifoCmdFence == Words(<<"fence">>)
SVGAFifoCmdDefineScreen == SVGAScreenObject
SVGAFifoCmdDestroyScreen == Words(<<"screenId">>)
SVGAFifoCmdDefineGMRFB ==
  << <<"ptr", SizeOf(SVGAGuestPtr)>>, <<"bytesPerLine", 1>>, <<"format", 1>> >>
SVGAFifoCmdBlitGMRFBToScreen ==
  << <<"srcOrigin", SizeOf(SVGASignedPoint)>>, <<"destRect", SizeOf(SVGASignedRect)>>,
     <<"destScreenId", 1>> >>
SVGAFifoCmdBlitScreenToGMRFB ==
  << <<"destOrigin", SizeOf(SVGASignedPoint)>>, <<"srcRect", SizeOf(SVGASignedRect)>>,
     <<"srcScreenId", 1>> >>
SVGAFifoCmdAnnotationFill == Words(<<"color">>)
SVGAFifoCmdAnnotationCopy ==
  << <<"srcOrigin", SizeOf(SVGASignedPoint)>>, <<"srcScreenId", 1>> >>
SVGAFifoCmdDefineGMR2 == Words(<<"gmrId", "numPages">>)
SVGAFifoCmdRemapGMR2 == Words(<<"gmrId", "flags", "offsetPages", "numPages">>)
SVGAEscapeVideo == Words(<<"cmdType", "streamId">>)

Commands3D ==
  [SURFACE_DEFINE |-> SVGA3dCmdDefineSurface, SURFACE_DESTROY |-> SVGA3dCmdDestroySurface,
   SURFACE_COPY |-> SVGA3dCmdSurfaceCopy, SURFACE_STRETCHBLT |-> SVGA3dCmdSurfaceStretchBlt,
   SURFACE_DMA |-> SVGA3dCmdSurfaceDMA, CONTEXT_DEFINE |-> SVGA3dCmdDefineContext,
   CONTEXT_DESTROY |-> SVGA3dCmdDestroyContext, SETTRANSFORM |-> SVGA3dCmdSetTransform,
   SETZRANGE |-> SVGA3dCmdSetZRange, SETRENDERSTATE |-> SVGA3dCmdSetRenderState,
   SETRENDERTARGET |-> SVGA3dCmdSetRenderTarget, SETTEXTURESTATE |-> SVGA3dCmdSetTextureState,
   SETMATERIAL |-> SVGA3dCmdSetMaterial, SETLIGHTDATA |-> SVGA3dCmdSetLightData,
   SETLIGHTENABLED |-> SVGA3dCmdSetLightEnabled, SETVIEWPORT |-> SVGA3dCmdSetViewport,
   SETCLIPPLANE |-> SVGA3dCmdSetClipPlane, CLEAR |-> SVGA3dCmdClear,
   PRESENT |-> SVGA3dCmdPresent, SHADER_DEFINE |-> SVGA3dCmdDefineShader,
   SHADER_DESTROY |-> SVGA3dCmdDestroyShader, SET_SHADER |-> SVGA3dCmdSetShader,
   SET_SHADER_CONST |-> SVGA3dCmdSetShaderConst, DRAW_PRIMITIVES |-> SVGA3dCmdDrawPrimitives,
   SETSCISSORRECT |-> SVGA3dCmdSetScissorRect, BEGIN_QUERY |-> SVGA3dCmdBeginQuery,
   END_QUERY |-> SVGA3dCmdEndQuery, WAIT_FOR_QUERY |-> SVGA3dCmdWaitForQuery,
   PRESENT_READBACK |-> <<>>, BLIT_SURFACE_TO_SCREEN |-> SVGA3dCmdBlitSurfaceToScreen]

Commands2D ==
  [UPDATE |-> SVGAFifoCmdUpdate, RECT_COPY |-> SVGAFifoCmdRectCopy,
   DEFINE_ALPHA_CURSOR |-> SVGAFifoCmdDefineAlphaCursor,
   FRONT_ROP_FILL |-> SVGAFifoCmdFrontRopFill, FENCE |-> SVGAFifoCmdFence,
   DEFINE_SCREEN |-> SVGAFifoCmdDefineScreen, DESTROY_SCREEN |-> SVGAFifoCmdDestroyScreen,
   DEFINE_GMRFB |-> SVGAFifoCmdDefineGMRFB,
   BLIT_GMRFB_TO_SCREEN |-> SVGAFifoCmdBlitGMRFBToScreen,
   BLIT_SCREEN_TO_GMRFB |-> SVGAFifoCmdBlitScreenToGMRFB,
   ANNOTATION_FILL |-> SVGAFifoCmdAnnotationFill, ANNOTATION_COPY |-> SVGAFifoCmdAnnotationCopy,
   DEFINE_GMR2 |-> SVGAFifoCmdDefineGMR2, REMAP_GMR2 |-> SVGAFifoCmdRemapGMR2]

Escapes == [VIDEO_SET_REGS |-> SVGAEscapeVideo, VIDEO_FLUSH |-> SVGAEscapeVideo]
=============================================================================
