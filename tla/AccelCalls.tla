----------------------------- MODULE AccelCalls -----------------------------
(***************************************************************************)
(* The calls of the accelerator that leave nothing behind in the driver:   *)
(* one at a time, each with what the device or the memory has afterwards.  *)
(* A call that issues commands leaves them in the FIFO, where the device   *)
(* takes them one by one; a call that copies leaves a picture or a memory; *)
(* one that defines a guest memory region leaves its description.          *)
(***************************************************************************)
EXTENDS CommandMeaning, GuestRegions, Blits

CONSTANTS Haves,         \* what devices have, and whether a fence is wanted
          Counts,        \* of rectangles, boxes or states
          Descriptors,   \* memory descriptors
          Helpers,       \* sequences of pages that a helper buffer may get
          Regions,       \* regions within the screen
          Scales,        \* backings of a surface, for its output
          CopyScales,    \* backings of a surface that is copied to
          SourceScales,  \* backings of a surface that is copied from
          Dests,         \* where a copied region goes
          Requests,      \* blits of a region that clients ask for
          Surfaces       \* identifiers of surfaces

VARIABLES
  call,      \* the call in progress and its arguments
  fifo,      \* words the device has not taken yet
  taken,     \* the commands it has taken
  gmr,       \* the description of a region the device was given last
  result     \* the picture or memory after a copy

vars == <<call, fifo, taken, gmr, result>>

Idle == [op |-> "none"]

Init ==
  /\ call = Idle
  /\ fifo = <<>> /\ taken = <<>>
  /\ gmr = Refused
  /\ result = <<>>

-----------------------------------------------------------------------------
(* Calls that issue commands *)

Issue(commands(_, _)) ==
  /\ call = Idle
  /\ \E have \in Haves, n \in Counts : \E op \in commands(have, n) :
       /\ call' = [op |-> "commands", meant |-> op.meant]
       /\ fifo' = FlattenSeq([i \in DOMAIN op.commands |-> Published(op.commands[i])])
  /\ UNCHANGED <<taken, gmr, result>>

Issue2D == Issue(Blits2D)
IssueSurface == Issue(SurfaceCommands)
IssueContext == Issue(ContextCommands)
IssueScreen == Issue(ScreenCommands)
IssueVideo == Issue(VideoCommands)
IssueOther == Issue(OtherCommands)

(* The device takes the command at the head. *)
Take ==
  /\ fifo # <<>>
  /\ LET n == Min({Max({Extent(fifo), 1}), Len(fifo)})
     IN /\ taken' = Append(taken, SubSeq(fifo, 1, n))
        /\ fifo' = SubSeq(fifo, n + 1, Len(fifo))
  /\ UNCHANGED <<call, gmr, result>>

-----------------------------------------------------------------------------
(* Calls that define guest memory regions *)

CreateGMR ==
  /\ call = Idle
  /\ \E md \in Descriptors, hasCap \in BOOLEAN :
       \E helper \in {h \in Helpers : Len(h) = NumPages(md)} :
         /\ call' = [op |-> "createGMR", md |-> md, hasCap |-> hasCap]
         /\ gmr' = createGMR(hasCap, md, helper)
  /\ UNCHANGED <<fifo, taken, result>>

(* Only of memory that starts with a page, as the code's note says *)
CreateGMR2 ==
  /\ call = Idle
  /\ \E md \in {d \in Descriptors : d.start = 0}, hasCap \in BOOLEAN :
       /\ call' = [op |-> "createGMR2", md |-> md, hasCap |-> hasCap]
       /\ result' = createGMR2(hasCap, md)
  /\ UNCHANGED <<fifo, taken, gmr>>

DestroyGMR ==
  /\ call.op = "createGMR"
  /\ gmr # Refused
  /\ call' = [op |-> "destroyGMR"]
  /\ gmr' = Refused
  /\ UNCHANGED <<fifo, taken, result>>

-----------------------------------------------------------------------------
(* Calls that copy, and show what they copied on the screen or in a memory *)

isIdentityScale(scale, region) ==
  scale.buffer.w = region.bounds.w /\ scale.buffer.h = region.bounds.h

(* What a surface draws to, whether its format is that of the screen, and bDirectBlit *)
Fronts == {"screen", "screen without 3D", "master", "framebuffer"}

surface_flush(front, plain, direct, scale, region) ==
  LET identity == isIdentityScale(scale, region)
  IN CASE front \in {"screen", "screen without 3D"} ->
            IF plain /\ identity THEN ScreenObjectOutDirect(scale, region)
            ELSE IF front = "screen" THEN ScreenObjectOutVia3D(scale, region)
            ELSE Screen0
       [] front = "master" ->
            IF ~identity THEN DMAOutStretchWithCopy(scale, region)
            ELSE IF plain /\ direct THEN DMAOutDirect(scale, region)
            ELSE DMAOutWithCopy(scale, region)
       [] OTHER -> IF plain /\ identity THEN GFBOutDirect(scale, region) ELSE Screen0

FlushSurface ==
  /\ call = Idle
  /\ \E front \in Fronts, plain, direct \in BOOLEAN, scale \in Scales, region \in Regions :
       /\ call' = [op |-> "surface_flush", front |-> front, plain |-> plain,
                   scale |-> scale, region |-> region]
       /\ result' = surface_flush(front, plain, direct, scale, region)
  /\ UNCHANGED <<fifo, taken, gmr>>

WithoutRects(regions) == {[r EXCEPT !.rects = <<>>] : r \in regions}

(* A region is copied to where its client asked: from the screen or a surface, *)
(* and to the screen or the surface that is the target.                        *)
CopyRegionBlit ==
  /\ call = Idle
  /\ \E request \in Requests, dest \in Dests, region \in Regions :
       LET route == vmCopyRegion(request.type, request.sourceType, request.source,
                                 request.target, Surfaces)
           asked == [op |-> "vmCopyRegion", request |-> request, dest |-> dest, region |-> region]
       IN \/ /\ route = "CopyRegion"
             /\ \E front, boundsCopy \in BOOLEAN, rgn \in {region} \cup WithoutRects({region}) :
                  \E succeeded \in CopyRegionAnswers(front, boundsCopy, rgn) :
                    /\ call' = [asked EXCEPT !.region = rgn]
                               @@ [front |-> front, boundsCopy |-> boundsCopy, succeeded |-> succeeded]
                    /\ result' = CopyRegionOnScreen(front, boundsCopy, dest[1], dest[2], rgn)
          \/ /\ route = "copy_framebuffer_region_to_self"
             /\ \E from \in {"screen", "master", "framebuffer"}, scale \in CopyScales :
                  /\ call' = asked @@ [scale |-> scale]
                  /\ result' = copy_framebuffer_region_to_self(from, scale, dest[1], dest[2], region)
          \/ /\ route = "copy_surface_region_to_self"
             /\ \E source \in SourceScales, scale \in CopyScales,
                   rgn \in {region} \cup WithoutRects({region}) :
                  /\ call' = [asked EXCEPT !.region = rgn] @@ [source |-> source, scale |-> scale]
                  /\ result' = copy_surface_region_to_self(source, scale, dest[1], dest[2], rgn)
          \/ /\ route = "refused"
             /\ call' = asked
             /\ result' = <<>>
  /\ UNCHANGED <<fifo, taken, gmr>>

-----------------------------------------------------------------------------
Return ==
  /\ call # Idle /\ fifo = <<>> /\ gmr = Refused
  /\ call' = Idle
  /\ taken' = <<>> /\ result' = <<>>
  /\ UNCHANGED <<fifo, gmr>>

Next ==
  \/ Issue2D \/ IssueSurface \/ IssueContext \/ IssueScreen \/ IssueVideo \/ IssueOther
  \/ Take
  \/ CreateGMR \/ CreateGMR2 \/ DestroyGMR
  \/ FlushSurface \/ CopyRegionBlit
  \/ Return

Spec == Init /\ [][Next]_vars

-----------------------------------------------------------------------------
(* Properties *)

(* One word is not judged: the id of a cursor, which is 1 (SVGADevice.cpp:618) *)
(* where the header says "Reserved, must be zero" (svga_reg.h:1135).          *)
CursorId == 2 + OffsetOf(SVGAFifoCmdDefineAlphaCursor, "id")
Judged(commands) ==
  [i \in DOMAIN commands |->
     IF commands[i][1] = <<"DEFINE_ALPHA_CURSOR">> THEN [commands[i] EXCEPT ![CursorId] = Stale]
     ELSE commands[i]]

(* The device takes the commands a call is to issue, whole and in order, and  *)
(* nothing else: each is as long as its encoder reserved, has every member of *)
(* every structure in its place, but for the one word above, and no word left *)
(* over from an earlier use of the FIFO.  Some encoders zero what the caller  *)
(* does not store, some do not.                                               *)
CommandsArrive ==
  call.op = "commands" =>
    /\ IsPrefix(Judged(taken), Judged(call.meant))
    /\ fifo = <<>> => Judged(taken) = Judged(call.meant)

(* A region the device was given is the memory of its descriptor, page by     *)
(* page, however the memory and the pages of descriptors lie, within the      *)
(* number of descriptors the device reads; and a small region is not refused. *)
GMRDescribesMemory ==
  LET fits == call.hasCap /\ \A i \in DOMAIN call.md.pages : call.md.pages[i] < PPNLimit
      n == Len(call.md.pages)
  IN /\ call.op = "createGMR" =>
          /\ gmr # Refused => Walk(gmr) = call.md.pages
          /\ fits /\ 2 * n <= MaxDescriptorLength => gmr # Refused
     /\ call.op = "createGMR2" =>
          /\ result # <<>> => result = call.md.pages
          /\ fits /\ n <= MaxGMRPages => result # <<>>

(* The pixel of the backing that a flush is to show at p *)
BackingAt(scale, region, p) ==
  LET q == Scaled(<<p[1] - region.bounds.x, p[2] - region.bounds.y>>, scale.buffer, region.bounds)
  IN Backing0[scale.offset + (scale.buffer.y + q[2]) * SourcePitch(scale) + scale.buffer.x + q[1]]

(* Whichever way the output takes - a direct transfer, one or two auxiliary   *)
(* surfaces, a screen object, the framebuffer in VRAM - the screen shows the  *)
(* buffer of the surface in the shape of the surface, scaled to its bounds,   *)
(* and is as before elsewhere; or it is as before, where output is refused.   *)
OutputShowsBacking ==
  call.op = "surface_flush" =>
    \/ result = [p \in DOMAIN Screen0 |->
                   IF p \in CellsOf(call.region.rects) THEN BackingAt(call.scale, call.region, p)
                   ELSE Screen0[p]]
    \/ /\ result = Screen0
       /\ call.front \in {"screen without 3D", "framebuffer"}
       /\ ~call.plain \/ ~isIdentityScale(call.scale, call.region)

(* Where the points of a region go in the buffer *)
Delta == <<call.dest[1] - call.region.bounds.x, call.dest[2] - call.region.bounds.y>>
InBuffer(scale) == (0..scale.buffer.w - 1) \X (0..scale.buffer.h - 1)
Landing(scale, a) ==
  {p \in CellsOf(call.region.rects) :
     Plus(p, Delta) \in InBuffer(scale) /\ Address(BackingImage(scale), Plus(p, Delta)) = a}

FramebufferArrives ==
  result = [a \in DOMAIN Backing0 |->
              IF Landing(call.scale, a) = {} THEN Backing0[a]
              ELSE Screen0[CHOOSE p \in Landing(call.scale, a) : TRUE]]

(* Of a surface that shows less than what is to be copied there may come less. *)
SurfaceArrives ==
  LET shown(p) == <<"source", Address(BackingImage(call.source), p)>>
      whole == CellsOf(call.region.rects) \subseteq InBuffer(call.source)
      landing(a) == IF call.region.rects = <<>>
                    THEN {p \in Cells(call.region.bounds) :
                            Address(BackingImage(call.scale), Plus(p, Delta)) = a}
                    ELSE Landing(call.scale, a)
  IN \A a \in DOMAIN Backing0 :
       \/ \E p \in landing(a) : result[a] = shown(p)
       \/ result[a] = Backing0[a] /\ (landing(a) = {} \/ ~whole \/ call.region.rects = <<>>)

(* A rectangle may be copied onto one that is still to be copied. *)
InOrder ==
  \A i, j \in DOMAIN call.region.rects :
    i < j => Cells(Moved(call.region.rects[i], Delta[1], Delta[2]))
             \cap Cells(call.region.rects[j]) = {}

(* With a front buffer success is answered and nothing copied; where an error  *)
(* is answered, nothing is copied either.                                     *)
ScrollArrives ==
  LET from(p) == <<p[1] - Delta[1], p[2] - Delta[2]>>
      rects == call.region.rects
  IN \A p \in DOMAIN Screen0 :
       IF call.front \/ ~call.succeeded THEN result[p] = Screen0[p]
       ELSE IF from(p) \in CellsOf(rects)
       THEN InOrder \/ call.boundsCopy => result[p] = Screen0[from(p)]
       ELSE call.boundsCopy \/ result[p] = Screen0[p]

(* What a request asks for, and whether it can be had *)
FromSurface(request) == request.sourceType = "CGSSurface" /\ request.source # 0
Possible(request) ==
  /\ request.type = "region" /\ request.sourceType # "other"
  /\ request.target # "no surface"
  /\ FromSurface(request) => request.source \in Surfaces /\ request.target = "surface"

(* A blit of a region copies what its source type and source name to where    *)
(* the context points; or it is refused if it cannot be done; or, within the  *)
(* screen of a device with a front buffer, it is answered with success and    *)
(* leaves all as it was (VMsvga2Accel.cpp:990-993, "pretend to work").  It is *)
(* never done from or to another place.  A copy of the screen or of a surface into a     *)
(* surface fills the part of the buffer that the region falls on with what    *)
(* was seen at its source, and nothing else in the memory; without rectangles *)
(* it writes what is right, if not only in the buffer.  A copy within the     *)
(* screen without a front buffer moves the region, unless a rectangle is copied onto one still to be *)
(* copied.                                                                    *)
CopiesArrive ==
  call.op = "vmCopyRegion" =>
    IF ~Possible(call.request) THEN result = <<>>
    ELSE IF FromSurface(call.request) THEN SurfaceArrives
    ELSE IF call.request.target = "surface" THEN FramebufferArrives
    ELSE ScrollArrives
=============================================================================
