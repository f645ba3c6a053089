------------------------------ MODULE GAPlugin ------------------------------
(***************************************************************************)
(* An application's way to a surface: the GA plug-in in its own address    *)
(* space (GA/VMsvga2GA.cpp) and the 2D context it opens in the kernel      *)
(* (AC/UC/VMsvga22DContext.cpp), composed with SurfaceOutput, on which the *)
(* WindowServer calls at the same time.                                    *)
(*                                                                         *)
(* Both the plug-in and the context keep a destination: the plug-in to     *)
(* know what vmFreeSurface has to take back, the context to draw on.       *)
(* An application calls the plug-in from one thread.                       *)
(***************************************************************************)
EXTENDS SurfaceOutput

CONSTANT Blits  \* IOBlitSurface structures of the application

ASSUME PluginAssumption == NONE \notin Blits

VARIABLES
  context,  \* the 2D context: bTargetIsCGSSurface, m_surface_client
  ga        \* the plug-in, its blit surfaces, and the last answer it gave

gaVars == <<vars, context, ga>>

(* What a blit surface's pixelFormat says to vmSetSurface. *)
PixelFormats == {"YUV", "BGRA", "plain"}

Framebuffer == [target |-> FALSE, client |-> NONE]

(* surface is me->_surface.  info is interfaceRef: the cgsSurfaceID of the *)
(* SurfaceInfo there, which the model takes for the surface itself.        *)
Stopped ==
  [open |-> FALSE, surface |-> NONE, ok |-> TRUE, info |-> [b \in Blits |-> NONE]]

GAInit ==
  /\ Init
  /\ context = Framebuffer
  /\ ga = Stopped

-----------------------------------------------------------------------------
(* The WindowServer *)

(* Its own surface comes first: nothing is drawn by others before.         *)
DeskReady == surf[Desk].bHaveID \/ ~(caps.screen \/ caps.three)

(* A new object for every surface: not one that the context still holds.   *)
WSOpen == \E s \in Surfaces, memory \in BOOLEAN :
  /\ context.client # s
  /\ s = Desk \/ DeskReady
  /\ Open(s, memory)
  /\ UNCHANGED <<context, ga>>

WSClose == \E s \in Surfaces : Close(s) /\ UNCHANGED <<context, ga>>

WSSetIDMode == \E s \in Surfaces, f \in {"X8R8G8B8", "other"} :
  /\ ~surf[s].bHaveID
  /\ s = Desk => f = "X8R8G8B8"
  /\ SetIDMode(s, f)
  /\ UNCHANGED <<context, ga>>

WSSetShape == \E s \in Surfaces, r \in Regions :
  SetShape(s, r) /\ UNCHANGED <<context, ga>>

WSSetShapeFails == \E s \in Surfaces : SetShapeFails(s) /\ UNCHANGED <<context, ga>>

WSFlush == \E s \in Surfaces, identity \in BOOLEAN :
  DeskReady /\ Flush(s, identity) /\ UNCHANGED <<context, ga>>

(* The WindowServer changes the mode when only surfaces used for video are *)
(* left ("release the master surface so that a YUV surface doesn't thwart  *)
(* resolution changes", VMsvga2Surface.cpp:1706).                          *)
ModeChange == \E m \in Modes \ {device.mode} :
  /\ \A s \in Surfaces : surf[s].open => surf[s].bVideoMode
  /\ device' = [device EXCEPT !.mode = m]
  /\ UNCHANGED <<caps, surf, accel, lost, context, ga>>

-----------------------------------------------------------------------------
(* The 2D context *)

(* VMsvga2Accel::findSurfaceForID asks each surface through message.       *)
Found(s) == surf[s].open /\ surf[s].bHaveID

(* VMsvga22DContext::set_surface for surface s: what the context is left   *)
(* with, whatever it answers.                                              *)
Target(s, format) == [target |-> TRUE, client |-> IF Found(s) THEN s ELSE NONE]

(* set_surface succeeds: no YUV formats with VMW_OPTION_AC_NO_YUV.         *)
Accepted(s, format) == Found(s) /\ (format = "YUV" => caps.yuv)

set_surface(s, format) ==
  /\ context' = Target(s, format)
  /\ CASE ~Accepted(s, format) -> UNCHANGED vars
       [] Accepted(s, format) /\ format = "YUV" -> SetVideo(s)
       [] OTHER -> SetPlain(s, format = "BGRA", TRUE)

-----------------------------------------------------------------------------
(* The plug-in *)

(* vmStart: IOServiceOpen, get_config, read_configs.  vmStop: the context  *)
(* goes through clientClose, and the instance is released.                 *)
vmStart ==
  /\ ~ga.open
  /\ ga' = [Stopped EXCEPT !.open = TRUE]
  /\ UNCHANGED <<vars, context>>

vmStop ==
  /\ ga.open
  /\ ga' = Stopped
  /\ context' = Framebuffer
  /\ UNCHANGED vars

(* vmSetSurface: _surface changes only when the kernel has agreed. *)
vmSetSurface(b, s, format) ==
  /\ set_surface(s, format)
  /\ ga' = [ga EXCEPT !.ok = Accepted(s, format),
                      !.surface = IF Accepted(s, format) THEN b ELSE @,
                      !.info[b] = IF Accepted(s, format) THEN s ELSE @]

(* vmAllocateSurface of a CGS surface: on failure the SurfaceInfo is freed *)
(* again.  scale_surface, which follows, cannot fail (see Surface).        *)
vmAllocateSurface == \E b \in Blits, s \in Surfaces \ {Desk}, f \in PixelFormats :
  /\ ga.open /\ ga.info[b] = NONE
  /\ vmSetSurface(b, s, f)

(* vmSetDestination with kIOBlitSurfaceDestination *)
vmSetDestination == \E b \in Blits, f \in PixelFormats :
  /\ ga.open /\ ga.info[b] # NONE
  /\ vmSetSurface(b, ga.info[b], f)

vmSetFramebuffer ==
  /\ ga.open
  /\ context' = Framebuffer
  /\ ga' = [ga EXCEPT !.surface = NONE, !.ok = TRUE]
  /\ UNCHANGED vars

(* Mutant: the destination is taken back only from its own blit surface,   *)
(* but forgotten all the same.                                             *)
FreeSurfaceForgets(b) ==
  /\ ga' = [ga EXCEPT !.info[b] = NONE, !.surface = NONE, !.ok = TRUE]
  /\ context' = IF ga.surface = b THEN Framebuffer ELSE context

(* vmFreeSurface: any destination that is a surface is taken back, be it   *)
(* the one freed or not.                                                   *)
FreeSurface(b) ==
  IF ga.surface # NONE
  THEN /\ ga' = [ga EXCEPT !.info[b] = NONE, !.surface = NONE, !.ok = TRUE]
       /\ context' = Framebuffer
  ELSE /\ ga' = [ga EXCEPT !.info[b] = NONE]
       /\ UNCHANGED context

vmFreeSurface == \E b \in Blits :
  /\ ga.open /\ ga.info[b] # NONE
  /\ FreeSurface(b)
  /\ UNCHANGED vars

(* vmSwapSurface and VMsvga22DContext::swap_surface, which drops the       *)
(* result of surface_flush_video.                                          *)
vmSwapSurface == \E b \in Blits :
  /\ ga.open /\ ga.info[b] # NONE
  /\ context.target /\ context.client # NONE
  /\ FlushVideo(context.client)
  /\ UNCHANGED <<context, ga>>

(* vmCopyRegion from the framebuffer, VMsvga22DContext::CopyRegion.  The   *)
(* blits to the framebuffer need no surface, and vmCopy and vmFill refuse  *)
(* a destination that is one.                                              *)
vmCopyRegion ==
  /\ ga.open /\ DeskReady
  /\ context.target /\ context.client # NONE
  /\ CopyFromFront(context.client)
  /\ UNCHANGED <<context, ga>>

-----------------------------------------------------------------------------

Next ==
  \/ WSOpen \/ WSClose \/ WSSetIDMode \/ WSSetShape \/ WSSetShapeFails \/ WSFlush
  \/ ModeChange
  \/ vmStart \/ vmStop
  \/ vmAllocateSurface \/ vmSetDestination \/ vmSetFramebuffer \/ vmFreeSurface
  \/ vmSwapSurface \/ vmCopyRegion

Spec == GAInit /\ [][Next]_gaVars

-----------------------------------------------------------------------------
(* Properties *)

Enabled == {s \in Surfaces : surf[s].stream # NONE}

(* Every command reaches the device while the surfaces and the screen it   *)
(* names exist and fit the display, through every order of opening,        *)
(* closing, turning to video and back, and changing the mode.              *)
NoStrayCommand == device.stray = {}

(* The master surface exists exactly while some open surface draws to it,  *)
(* counts them, and is all that keeps a surface identifier or a surface of *)
(* the device between two calls.                                           *)
MasterAccounted ==
  /\ accel.retain = Cardinality({s \in Surfaces : surf[s].front = "master"})
  /\ accel.retain = 0 <=> accel.master = INVALID
  /\ accel.surfaceIDs = {accel.master} \ {INVALID}
  /\ {i \in SurfaceIDs \cup {ProbeID} : device.defined[i] # NONE} = accel.surfaceIDs

(* Each stream in use belongs to one surface, or to none any more (those   *)
(* of SetVideo); the device shows exactly these, and shows the surface's   *)
(* where its region is.                                                    *)
OverlayOwned ==
  /\ \A s, t \in Enabled : surf[s].stream = surf[t].stream => s = t
  /\ \A s \in Enabled : surf[s].bVideoMode /\ surf[s].stream \notin lost
  /\ accel.streams = {surf[s].stream : s \in Enabled} \cup lost
  /\ {k \in Streams : device.overlay[k] # NONE} = accel.streams
  /\ \A s \in Enabled :
       surf[s].region \in {"none", device.overlay[surf[s].stream]}

(* After every call that succeeded, what the plug-in takes for the         *)
(* destination is what the context draws on.                               *)
DestinationAgreed ==
  ga.ok =>
    context = IF ga.surface = NONE THEN Framebuffer
              ELSE [target |-> TRUE, client |-> ga.info[ga.surface]]
=============================================================================
