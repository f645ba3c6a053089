----------------------------- MODULE BuddyPool -----------------------------
(***************************************************************************)
(* What the VRAM allocator promises (VMsvga2Allocator.h, the comment on    *)
(* the buddy system): a pool of storage from which blocks of 2^k units     *)
(* are allocated, each at a multiple of its size; "if this allocator       *)
(* fails, there is no way to place a block of the size requested".         *)
(***************************************************************************)
EXTENDS Integers

CONSTANT numSizes  \* blocks have 2^0 .. 2^(numSizes - 1) units

VARIABLES
  owned,   \* the units handed over to the allocator so far
  busy,    \* the allocated blocks, <<offset, bits>>
  answer   \* the last answer to a caller, and the size it asked for

vars == <<owned, busy, answer>>

Extent(b) == b[1]..(b[1] + 2^b[2] - 1)

Used == UNION {Extent(b) : b \in busy}

(* The blocks of a size that could be allocated. *)
Places(bits) ==
  IF bits >= numSizes THEN {}
  ELSE {b \in owned \X {bits} : b[1] % 2^bits = 0 /\ Extent(b) \subseteq owned \ Used}

Init ==
  /\ owned = {}
  /\ busy = {}
  /\ answer = <<"none", 0>>

(* More storage is handed over. *)
Release ==
  /\ owned \subseteq owned'
  /\ UNCHANGED <<busy, answer>>

Malloc(bits) ==
  /\ \E b \in Places(bits) : busy' = busy \cup {b}
  /\ answer' = <<"success", bits>>
  /\ UNCHANGED owned

(* Only where there is no place. *)
Refuse(bits) ==
  /\ Places(bits) = {}
  /\ answer' = <<"no memory", bits>>
  /\ UNCHANGED <<owned, busy>>

Free(b) ==
  /\ busy' = busy \ {b}
  /\ answer' = <<"success", b[2]>>
  /\ UNCHANGED owned

(* A block shrinks, or keeps its size, where it is. *)
Shrink(b, bits) ==
  /\ bits <= b[2]
  /\ busy' = (busy \ {b}) \cup {<<b[1], bits>>}
  /\ answer' = <<"success", bits>>
  /\ UNCHANGED owned

(* A block that grows is moved. *)
Grow(b, bits) ==
  /\ bits > b[2]
  /\ \E c \in Places(bits) : busy' = (busy \ {b}) \cup {c}
  /\ answer' = <<"success", bits>>
  /\ UNCHANGED owned

Next ==
  \/ Release
  \/ \E bits \in 0..numSizes : Malloc(bits) \/ Refuse(bits)
  \/ \E b \in busy : Free(b) \/ \E bits \in 0..numSizes : Shrink(b, bits) \/ Grow(b, bits)

Spec == Init /\ [][Next]_vars
=============================================================================
