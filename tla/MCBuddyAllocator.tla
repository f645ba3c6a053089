-------------------------- MODULE MCBuddyAllocator --------------------------
EXTENDS BuddyAllocator

(* A VRAM smaller than the part reserved for the framebuffer, and a larger *)
(* one that ends with an incomplete block.                                 *)
MCPoolSizes == {3, 7}
=============================================================================
