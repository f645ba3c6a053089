--------------------------- MODULE SurfaceOutput ---------------------------
(***************************************************************************)
(* How surfaces (AC/UC/VMsvga2Surface.cpp) get to the screen: the front    *)
(* buffer each of them draws to (a screen object, the accelerator's master *)
(* surface, or the guest framebuffer), the video overlay streams, and the  *)
(* commands this sends to the device, through AC/VMsvga2Accel.cpp.         *)
(*                                                                         *)
(* The FIFO is a queue of whole commands (SVGAFifo), so a command takes    *)
(* effect here when it is issued.  Calls do not overlap: the WindowServer  *)
(* makes them all but a 2D context's, and retainMasterSurface is not made  *)
(* for two at once.  Backing and scale of a surface are module Surface's;  *)
(* a flush of a surface without backing returns at once and is left out,   *)
(* and whether the scale is the identity is any choice at each flush.      *)
(***************************************************************************)
EXTENDS Integers, Sequences, FiniteSets, SequencesExt

CONSTANTS
  Surfaces,  \* objects of class VMsvga2Surface
  Desk,      \* the one the WindowServer calls surface 1
  Modes,     \* sizes of the display
  Streams,   \* video streams of the device
  NONE

ASSUME OutputAssumption ==
  /\ Desk \in Surfaces
  /\ IsFiniteSet(Surfaces)
  /\ Streams \subseteq Nat
  /\ NONE \notin Surfaces \cup Modes \cup Streams
  /\ NONE \notin {"none", "empty", "some", "probe", "buffer", "bounds"}

VARIABLES
  caps,    \* what the device has, and options of the accelerator
  surf,    \* the surfaces
  accel,   \* members of the accelerator
  device,  \* what the device has been told, and the mode it is in
  lost     \* streams that no surface remembers

vars == <<caps, surf, accel, device, lost>>

(* The master surface and two auxiliary ones at a time; the number that    *)
(* detectBlitBug uses.                                                     *)
SurfaceIDs == 0..2
ProbeID == 666
INVALID == -1

Regions == {"none", "empty", "some"}

(* front is bHaveScreenObject and bHaveMasterSurface, stream is stream_id  *)
(* while m_video.unit.enabled, region is m_last_region.  format is one of  *)
(* "X8R8G8B8", "YUV", "other".  bDirectBlit is what the cached             *)
(* result says and needs no variable.                                      *)
Closed ==
  [open |-> FALSE, bHaveID |-> FALSE, front |-> "none", bVideoMode |-> FALSE,
   stream |-> NONE, format |-> "other", region |-> "none"]

(* Screen objects, 3D, YUV formats, and blits straight to the master       *)
(* surface: allowed by option, tried out and found good, or found bad.     *)
(* These matter only where a master surface is used.                       *)
Caps ==
  {c \in [screen : BOOLEAN, three : BOOLEAN, yuv : BOOLEAN, blit : {"direct", "good", "bad"}] :
     c.screen \/ ~c.three => c.blit = "direct"}

Init ==
  /\ caps \in Caps
  /\ surf = [s \in Surfaces |-> Closed]
  /\ accel = [retain |-> 0, master |-> INVALID, surfaceIDs |-> {}, streams |-> {},
              blitbug |-> "NotFound", primary |-> NONE]
  /\ \E m \in Modes :
       device = [mode |-> m,
                 defined |-> [i \in SurfaceIDs \cup {ProbeID} |-> NONE],
                 screen |-> NONE,
                 overlay |-> [k \in Streams |-> NONE],
                 stray |-> {}]
  /\ lost = {}

-----------------------------------------------------------------------------
(* The device and the commands it gets *)

Define(id, size) == [cmd |-> "define", id |-> id, size |-> size]
Destroy(id) == [cmd |-> "destroy", id |-> id]
Use(id) == [cmd |-> "use", id |-> id]
Present(id) == [cmd |-> "present", id |-> id]
Screen(size) == [cmd |-> "screen", size |-> size]
UseScreen == [cmd |-> "use screen"]
Overlay(k, dest) == [cmd |-> "overlay", stream |-> k, dest |-> dest]

(* A command the device cannot carry out as meant: it names a surface or a *)
(* screen it does not know, takes the number of one it knows, or shows a   *)
(* surface of another size than the display's.                             *)
Stray(d, c) ==
  \/ c.cmd = "define" /\ d.defined[c.id] # NONE
  \/ c.cmd \in {"destroy", "use"} /\ d.defined[c.id] = NONE
  \/ c.cmd = "present" /\ d.defined[c.id] # d.mode
  \/ c.cmd = "use screen" /\ d.screen # d.mode

Execute(d, c) ==
  CASE Stray(d, c) -> [d EXCEPT !.stray = @ \cup {c}]
    [] ~Stray(d, c) /\ c.cmd = "define" -> [d EXCEPT !.defined[c.id] = c.size]
    [] ~Stray(d, c) /\ c.cmd = "destroy" -> [d EXCEPT !.defined[c.id] = NONE]
    [] c.cmd = "screen" -> [d EXCEPT !.screen = c.size]
    [] c.cmd = "overlay" -> [d EXCEPT !.overlay[c.stream] = c.dest]
    [] OTHER -> d

Issue(cmds) == FoldLeft(Execute, device, cmds)

Lowest(ids) == CHOOSE i \in ids : \A j \in ids : i <= j

(* What AllocSurfaceID returns, and what it returns next (see IDPool).     *)
FreshID == Lowest(SurfaceIDs \ accel.surfaceIDs)
NextID == Lowest(SurfaceIDs \ (accel.surfaceIDs \cup {FreshID}))

-----------------------------------------------------------------------------
(* The master surface *)

(* VMsvga2Accel::retainMasterSurface and createMasterSurface *)
RetainCommands == IF accel.retain = 0 THEN <<Define(FreshID, device.mode)>> ELSE <<>>

Retained(a) ==
  IF a.retain = 0
  THEN [a EXCEPT !.retain = 1, !.master = FreshID, !.surfaceIDs = @ \cup {FreshID}]
  ELSE [a EXCEPT !.retain = @ + 1]

(* VMsvga2Accel::releaseMasterSurface and destroyMasterSurface *)
ReleaseCommands == IF accel.retain = 1 THEN <<Destroy(accel.master)>> ELSE <<>>

Released ==
  CASE accel.retain = 1 ->
         [accel EXCEPT !.retain = 0, !.master = INVALID, !.surfaceIDs = @ \ {accel.master}]
    [] accel.retain > 1 -> [accel EXCEPT !.retain = @ - 1]
    [] OTHER -> accel

(* VMsvga2Surface::detectBlitBug, once; without memory the answer is that  *)
(* there is a bug, and this answer is kept.                                *)
MustProbe == caps.blit # "direct" /\ accel.blitbug = "NotFound"

ProbeCommands(memory) ==
  CASE ~MustProbe -> <<>>
    [] MustProbe /\ memory ->
         <<Define(ProbeID, "probe"), Use(ProbeID), Use(ProbeID), Destroy(ProbeID)>>
    [] OTHER -> <<Define(ProbeID, "probe"), Destroy(ProbeID)>>

Probed(memory, a) ==
  IF MustProbe
  THEN [a EXCEPT !.blitbug = IF memory /\ caps.blit = "good" THEN "Success" ELSE "Error"]
  ELSE a

bDirectBlit == caps.blit = "direct" \/ accel.blitbug = "Success"

haveFrontBuffer(t) == t.front # "none"

(* VMsvga2Surface::Start3D: the front buffer that it finds, the commands   *)
(* it issues, and what becomes of the accelerator a.                       *)
FrontFound == CASE caps.screen -> "screen"
           [] ~caps.screen /\ caps.three -> "master"
           [] OTHER -> "none"

Start3DCommands(memory) ==
  IF FrontFound = "master" THEN RetainCommands \o ProbeCommands(memory) ELSE <<>>

Start3D(memory, a) == IF FrontFound = "master" THEN Probed(memory, Retained(a)) ELSE a

(* VMsvga2Surface::Cleanup3D *)
Cleanup3DCommands(s) == IF surf[s].front = "master" THEN ReleaseCommands ELSE <<>>

CleanedUp3D(s) == IF surf[s].front = "master" THEN Released ELSE accel

(* VMsvga2Surface::surface_video_off *)
VideoOffCommands(s) ==
  IF surf[s].stream # NONE THEN <<Overlay(surf[s].stream, NONE)>> ELSE <<>>

(* Mutant: the stream is not given back. *)
VideoOffKeepsStream(s, a) == a

VideoOff(s, a) == [a EXCEPT !.streams = @ \ {surf[s].stream}]

-----------------------------------------------------------------------------
(* Calls of the WindowServer *)

(* VMsvga2Surface::start *)
Open(s, memory) ==
  /\ ~surf[s].open
  /\ surf' = [surf EXCEPT ![s] = [Closed EXCEPT !.open = TRUE, !.front = FrontFound]]
  /\ accel' = Start3D(memory, accel)
  /\ device' = Issue(Start3DCommands(memory))
  /\ UNCHANGED <<caps, lost>>

(* VMsvga2Surface::clientClose and Cleanup *)
Close(s) ==
  /\ surf[s].open
  /\ surf' = [surf EXCEPT ![s] = Closed]
  /\ accel' = VideoOff(s, CleanedUp3D(s))
  /\ device' = Issue(Cleanup3DCommands(s) \o VideoOffCommands(s))
  /\ UNCHANGED <<caps, lost>>

(* VMsvga2Accel::createPrimaryScreen has nothing to do. *)
PrimaryFits(size) == accel.primary = size

(* VMsvga2Surface::set_id_mode.  m_screenInfo holds the mode: the surface  *)
(* called 1 has been opened in it (see ModeChange).                        *)
SetIDMode(s, format) ==
  /\ surf[s].open
  /\ s = Desk => haveFrontBuffer(surf[s])
  /\ surf' = [surf EXCEPT ![s].bHaveID = TRUE, ![s].format = format]
  /\ IF s = Desk /\ surf[s].front = "screen" /\ ~PrimaryFits(device.mode)
     THEN /\ accel' = [accel EXCEPT !.primary = device.mode]
          /\ device' = Issue(<<Screen(device.mode)>>)
     ELSE UNCHANGED <<accel, device>>
  /\ UNCHANGED <<caps, lost>>

(* VMsvga2Surface::videoReshape *)
ReshapeCommands(s, region) ==
  IF surf[s].stream # NONE THEN <<Overlay(surf[s].stream, region)>> ELSE <<>>

(* VMsvga2Surface::set_shape_backing_length_ext: an empty region is kept   *)
(* only while the surface is used for video.                               *)
SetShape(s, region) ==
  /\ surf[s].open
  /\ region # "none"
  /\ IF (region = "empty" /\ ~surf[s].bVideoMode) \/ ~surf[s].bHaveID
     THEN /\ surf' = [surf EXCEPT ![s].region = "none"]
          /\ UNCHANGED device
     ELSE /\ surf' = [surf EXCEPT ![s].region = region]
          /\ device' = Issue(ReshapeCommands(s, region))
  /\ UNCHANGED <<caps, accel, lost>>

(* The same when the shape cannot be kept for want of memory. *)
SetShapeFails(s) ==
  /\ surf[s].open
  /\ surf' = [surf EXCEPT ![s].region = "none"]
  /\ UNCHANGED <<caps, accel, device, lost>>

-----------------------------------------------------------------------------
(* VMsvga2Surface::surface_flush: the command sequences it may issue.  The *)
(* auxiliary surfaces are gone, and their numbers free, when it returns.   *)

DMAOutDirect == <<Use(accel.master)>>

DMAOutWithCopy ==
  <<Define(FreshID, "buffer"), Use(FreshID), Use(FreshID), Use(accel.master),
    Destroy(FreshID)>>

DMAOutStretchWithCopy ==
  <<Define(FreshID, "buffer"), Use(FreshID),
    Define(NextID, "bounds"), Use(FreshID), Use(NextID), Destroy(FreshID),
    Use(NextID), Use(accel.master), Destroy(NextID)>>

ScreenObjectOutVia3D ==
  <<Define(FreshID, "buffer"), Use(FreshID), Use(FreshID), UseScreen, Destroy(FreshID)>>

(* surfacePresentAutoSync; without a front buffer the CPU copies. *)
FlushCommands(t, identity) ==
  CASE t.front = "screen" ->
         IF t.format = "X8R8G8B8" /\ identity THEN <<UseScreen>>
         ELSE IF caps.three THEN ScreenObjectOutVia3D ELSE <<>>
    [] t.front = "master" ->
         (IF ~identity THEN DMAOutStretchWithCopy
          ELSE IF t.format = "X8R8G8B8" /\ bDirectBlit THEN DMAOutDirect
          ELSE DMAOutWithCopy) \o <<Present(accel.master)>>
    [] OTHER -> <<>>

Flush(s, identity) ==
  /\ surf[s].bHaveID
  /\ surf[s].region # "none"
  /\ device' = IF surf[s].bVideoMode THEN device
               ELSE Issue(FlushCommands(surf[s], identity))
  /\ UNCHANGED <<caps, surf, accel, lost>>

-----------------------------------------------------------------------------
(* Calls that come through a 2D context *)

(* Mutant: a surface used for video keeps the master surface.              *)
SetVideoKeepsFront(s) ==
  /\ surf' = [surf EXCEPT ![s].bVideoMode = TRUE, ![s].stream = NONE,
                          ![s].format = "YUV"]
  /\ lost' = lost \cup ({surf[s].stream} \ {NONE})
  /\ UNCHANGED <<caps, accel, device>>

(* Mutant: bHaveMasterSurface stays set when the surface is released.      *)
SetVideoFlagStays(s) ==
  /\ surf' = [surf EXCEPT ![s].bVideoMode = TRUE, ![s].stream = NONE,
                          ![s].format = "YUV"]
  /\ accel' = CleanedUp3D(s)
  /\ device' = Issue(Cleanup3DCommands(s))
  /\ lost' = lost \cup ({surf[s].stream} \ {NONE})
  /\ UNCHANGED caps

(* VMsvga2Surface::context_set_surface with a YUV format: enabled is       *)
(* cleared, and the stream it stood for goes on unknown to anybody.        *)
SetVideo(s) ==
  /\ surf' = [surf EXCEPT ![s].bVideoMode = TRUE, ![s].stream = NONE,
                          ![s].format = "YUV", ![s].front = "none"]
  /\ accel' = CleanedUp3D(s)
  /\ device' = Issue(Cleanup3DCommands(s))
  /\ lost' = lost \cup ({surf[s].stream} \ {NONE})
  /\ UNCHANGED caps

(* context_set_surface with another format: BGRA, or the one it has *)
SetPlain(s, bgra, memory) ==
  /\ surf' = [surf EXCEPT ![s].bVideoMode = FALSE, ![s].stream = NONE,
                          ![s].format = IF bgra THEN "other" ELSE @,
                          ![s].front = IF haveFrontBuffer(surf[s]) THEN @ ELSE FrontFound]
  /\ IF haveFrontBuffer(surf[s])
     THEN /\ accel' = VideoOff(s, accel)
          /\ device' = Issue(VideoOffCommands(s))
     ELSE /\ accel' = Start3D(memory, VideoOff(s, accel))
          /\ device' = Issue(VideoOffCommands(s) \o Start3DCommands(memory))
  /\ UNCHANGED <<caps, lost>>

FreeStreams == Streams \ accel.streams

(* VMsvga2Surface::surface_flush_video: the first flush gets a stream and  *)
(* sets all its registers; without one nothing is shown, nor reported.     *)
FlushVideo(s) ==
  /\ surf[s].bHaveID /\ surf[s].region # "none" /\ surf[s].bVideoMode
  /\ surf[s].stream = NONE /\ FreeStreams # {}
  /\ surf' = [surf EXCEPT ![s].stream = Lowest(FreeStreams)]
  /\ accel' = [accel EXCEPT !.streams = @ \cup {Lowest(FreeStreams)}]
  /\ device' = Issue(<<Overlay(Lowest(FreeStreams), surf[s].region)>>)
  /\ UNCHANGED <<caps, lost>>

(* VMsvga2Surface::copy_framebuffer_region_to_self *)
CopyFromFront(s) ==
  /\ surf[s].bHaveID /\ ~surf[s].bVideoMode /\ surf[s].format = "X8R8G8B8"
  /\ device' = CASE accel.primary # NONE -> Issue(<<UseScreen>>)
                 [] accel.primary = NONE /\ surf[s].front = "master" -> Issue(<<Use(accel.master)>>)
                 [] OTHER -> device
  /\ UNCHANGED <<caps, surf, accel, lost>>
=============================================================================
