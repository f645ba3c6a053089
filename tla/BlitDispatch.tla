---------------------------- MODULE BlitDispatch ----------------------------
(***************************************************************************)
(* How a blit of the GA plug-in (GA/VMsvga2GA.cpp) finds its way through   *)
(* the 2D context (AC/UC/VMsvga22DContext.cpp) to the method that does it. *)
(*                                                                         *)
(* "type" is the operation in the type of the blit: "copy" if it has the   *)
(* code of a copy operation, "region" if that of a region.  "target" is    *)
(* where the context points: the framebuffer, a surface, or "no surface"   *)
(* after the choice of one failed.                                         *)
(***************************************************************************)
EXTENDS AccelCommands

ContextRectCopy(target, have, n) ==
  IF target = "framebuffer" THEN RectCopy(have, n) ELSE NoCommand

ContextRectFill(target, n) == IF target = "framebuffer" THEN RectFill(n) ELSE NoCommand

(* Without rectangles there is nothing to copy, and an error. *)
vmCopy(type, target, have, n) ==
  IF type # "copy" \/ n = 0 THEN NoCommand ELSE ContextRectCopy(target, have, n)

vmFill(type, target, n) ==
  IF type # "copy" \/ n = 0 THEN NoCommand ELSE ContextRectFill(target, n)

(* Not supported *)
copy_self_region_to_framebuffer == "refused"

(* CopyRegion of the 2D context: which method copies *)
ContextCopyRegion(source, target, surfaces) ==
  CASE target = "no surface" -> "refused"
    [] target = "surface" /\ source = 0 -> "copy_framebuffer_region_to_self"
    [] target = "surface" /\ source \in surfaces -> "copy_surface_region_to_self"
    [] target = "framebuffer" /\ source = 0 -> "CopyRegion"
    [] target = "framebuffer" /\ source \in surfaces -> copy_self_region_to_framebuffer
    [] OTHER -> "refused"   \* not found

(* Only a surface is looked for by the source the blit names. *)
vmCopyRegion(type, sourceType, source, target, surfaces) ==
  CASE type # "region" \/ sourceType = "other" -> "refused"
    [] sourceType \in {"Default", "Framebuffer"} -> ContextCopyRegion(0, target, surfaces)
    [] sourceType = "CGSSurface" -> ContextCopyRegion(source, target, surfaces)
=============================================================================
