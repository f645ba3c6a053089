--------------------------- MODULE BuddyAllocator ---------------------------
(***************************************************************************)
(* The VRAM allocator (AC/VMsvga2Allocator.cpp): a buddy system with a bit *)
(* map and doubly linked free lists whose links lie in the free storage    *)
(* itself.  The build defines FRAGILE, so nothing is cleared and fewer     *)
(* consistency checks are made.  BuddyPool says what it promises.          *)
(*                                                                         *)
(* Offsets and sizes count smallest blocks (pages, minBits = 12); storage  *)
(* whose contents the allocator does not know, because a caller uses or    *)
(* has used it, holds Junk.  A test of Junk for the magic number fails.    *)
(* VMsvga2Accel calls every function under lockAccel, so each is one step. *)
(***************************************************************************)
EXTENDS Integers, FiniteSets

CONSTANTS
  numSizes,   \* block sizes 2^0 .. 2^(numSizes - 1), 13 in the code
  PoolSizes,  \* the sizes of the VRAM that are considered
  bytes_reserve,  \* SVGA_FB_MAX_TRACEABLE_SIZE, in blocks
  OURNULL,    \* no offset
  Junk        \* contents that are neither links nor a size

ASSUME AllocatorAssumption ==
  /\ numSizes \in Nat \ {0}
  /\ PoolSizes \subseteq Nat \ {0}
  /\ bytes_reserve \in Nat
  /\ bytes_reserve % 2^(numSizes - 1) = 0
  /\ OURNULL \notin Nat
  /\ Junk \notin Nat
  /\ Junk \notin [prev : Nat \cup {OURNULL}, next : Nat \cup {OURNULL}]

VARIABLES
  poolBlocks,       \* blocks in the pool
  HaveFrontBuffer,  \* the framebuffer is not in this memory
  pool,             \* map, freeList[], free blocks' links and freeBytes
  setup,            \* how far setupAllocator has come
  held,             \* the pointers that callers have
  answer            \* the last answer to a caller, and the size it asked for

vars == <<poolBlocks, HaveFrontBuffer, pool, setup, held, answer>>

Blocks == 0..(poolBlocks - 1)
Sizes == 0..(numSizes - 1)
Extent(o, k) == o..(o + 2^k - 1)

-----------------------------------------------------------------------------
(* Free lists.  A free block starts with its links (header) and ends with  *)
(* its size (trailer, named by the offset past the block).                 *)

(* Mutant: a new first element is not linked back to. *)
LinkForward(p, o, k) ==
  [p EXCEPT !.freeList[k] = o,
            !.header[o] = [prev |-> OURNULL, next |-> p.freeList[k]],
            !.trailer[o + 2^k] = k]

(* The block becomes the first of the free list of its size. *)
Link(p, o, k) ==
  LET next == p.freeList[k] IN
  [p EXCEPT !.freeList[k] = o,
            !.header = [b \in Blocks |->
              IF b = o THEN [prev |-> OURNULL, next |-> next]
              ELSE IF b = next /\ @[b] # Junk THEN [@[b] EXCEPT !.prev = o] ELSE @[b]],
            !.trailer[o + 2^k] = k]

(* The block leaves its free list, and its storage is nobody's. *)
Unlink(p, o, k) ==
  LET prev == p.header[o].prev
      next == p.header[o].next
  IN  [p EXCEPT !.freeList[k] = IF prev = OURNULL THEN next ELSE @,
                !.header = [b \in Blocks |->
                  IF b = o THEN Junk
                  ELSE IF b = prev THEN [@[b] EXCEPT !.next = next]
                  ELSE IF b = next THEN [@[b] EXCEPT !.prev = prev] ELSE @[b]],
                !.trailer[o + 2^k] = Junk]

(* The tests made before a block is taken out of its list; where they fail *)
(* the function returns kIOReturnInternalError.                            *)
Intact(p, o, k) ==
  /\ o \in Blocks
  /\ p.header[o] # Junk
  /\ p.trailer[o + 2^k] = k
  /\ LET prev == p.header[o].prev
         next == p.header[o].next
     IN  /\ prev # OURNULL => prev \in Blocks /\ p.header[prev] # Junk /\ p.header[prev].next = o
         /\ next # OURNULL => next \in Blocks /\ p.header[next] # Junk /\ p.header[next].prev = o

MakeFree(p, o, k) == [Link(p, o, k) EXCEPT !.freeBytes = @ + 2^k]

(* The largest aligned blocks within a range. *)
Fits(first, past) ==
  {b \in (first..(past - 1)) \X Sizes : b[1] % 2^b[2] = 0 /\ b[1] + 2^b[2] <= past}

Pieces(first, past) ==
  {b \in Fits(first, past) :
     \A c \in Fits(first, past) : Extent(b[1], b[2]) \subseteq Extent(c[1], c[2]) => c = b}

(* toFree cuts a range into them, from the lowest up. *)
ToFree(p, first, past) ==
  LET freed[i \in first..past] ==  \* after the pieces that begin before i
        IF i = first THEN p
        ELSE IF \E k \in Sizes : <<i - 1, k>> \in Pieces(first, past)
        THEN MakeFree(freed[i - 1], i - 1,
                      CHOOSE k \in Sizes : <<i - 1, k>> \in Pieces(first, past))
        ELSE freed[i - 1]
  IN  freed[past]

-----------------------------------------------------------------------------
(* VMsvga2Allocator::Init and Release, as setupAllocator calls them *)

(* The map says that everything is allocated. *)
Init ==
  /\ poolBlocks \in PoolSizes
  /\ HaveFrontBuffer \in BOOLEAN
  /\ pool = [map |-> Blocks,
             freeList |-> [k \in Sizes |-> OURNULL],
             header |-> [b \in Blocks |-> Junk],
             trailer |-> [past \in 1..poolBlocks |-> Junk],
             freeBytes |-> 0]
  /\ setup = "init"
  /\ held = {}
  /\ answer = <<"none", 0>>

(* clearCheck finds all bits set, and the range goes to the free lists. *)
Release(first, past) ==
  /\ first..(past - 1) \subseteq pool.map
  /\ pool' = ToFree([pool EXCEPT !.map = @ \ (first..(past - 1))], first, past)

(* What lies past the part of the VRAM that may hold the framebuffer. *)
SetupUpper ==
  /\ setup = "init"
  /\ IF bytes_reserve < poolBlocks THEN Release(bytes_reserve, poolBlocks) ELSE UNCHANGED pool
  /\ setup' = "upper"
  /\ UNCHANGED <<poolBlocks, HaveFrontBuffer, held, answer>>

(* And that part, where the framebuffer is elsewhere. *)
SetupFront ==
  /\ setup = "upper"
  /\ IF HaveFrontBuffer
     THEN Release(0, IF bytes_reserve < poolBlocks THEN bytes_reserve ELSE poolBlocks)
     ELSE UNCHANGED pool
  /\ setup' = "done"
  /\ UNCHANGED <<poolBlocks, HaveFrontBuffer, held, answer>>

-----------------------------------------------------------------------------
(* VMsvga2Allocator::BuddyMalloc *)

(* The lists that have a block big enough. *)
Stocked(p, bits) == {k \in Sizes : k >= bits /\ p.freeList[k] # OURNULL}

HasMemory(p, bits) == p.freeBytes >= 2^bits /\ Stocked(p, bits) # {}

BestSize(p, bits) == CHOOSE k \in Stocked(p, bits) : \A l \in Stocked(p, bits) : k <= l

(* The first block of the best list. *)
Found(p, bits) == p.freeList[BestSize(p, bits)]

CanAllocate(p, bits) ==
  /\ Intact(p, Found(p, bits), BestSize(p, bits))
  /\ p.header[Found(p, bits)].prev = OURNULL

(* Its start is allocated and the rest freed again. *)
Allocate(p, bits) ==
  LET o == Found(p, bits)
      k == BestSize(p, bits)
  IN  ToFree([Unlink(p, o, k) EXCEPT !.map = @ \cup {o + 2^bits - 1}, !.freeBytes = @ - 2^k],
             o + 2^bits, o + 2^k)

-----------------------------------------------------------------------------
(* VMsvga2Allocator::BuddyAllocSize and Free *)

(* The ends that a block at o may have in the map. *)
Ends(p, o) ==
  {k \in Sizes : /\ o % 2^k = 0
                 /\ o + 2^k <= poolBlocks
                 /\ o + 2^k - 1 \in p.map}

AllocSize(p, o) == CHOOSE k \in Ends(p, o) : \A l \in Ends(p, o) : k <= l

(* The block of 2^k units that contains o, and its buddy. *)
Base(o, k) == (o \div 2^k) * 2^k

Buddy(o, k) == IF (o \div 2^k) % 2 = 0 THEN Base(o, k) + 2^k ELSE Base(o, k) - 2^k

(* The end of the buddy is in the pool and not allocated. *)
BuddyEndFree(p, o, k) ==
  /\ Buddy(o, k) + 2^k <= poolBlocks
  /\ Buddy(o, k) + 2^k - 1 \notin p.map

(* Mutant: blocks are not merged to the largest size. *)
BuddyFreeOffByOne(p, o, k) ==
  /\ k < numSizes - 2
  /\ BuddyEndFree(p, o, k)
  /\ p.trailer[Buddy(o, k) + 2^k] = k

(* The buddy is free as a whole. *)
BuddyFree(p, o, k) ==
  /\ k < numSizes - 1
  /\ BuddyEndFree(p, o, k)
  /\ p.trailer[Buddy(o, k) + 2^k] = k

(* The size to which a block of 2^bits units grows by merging. *)
MergedSize(p, o, bits) ==
  CHOOSE k \in bits..(numSizes - 1) :
    ~BuddyFree(p, o, k) /\ \A j \in bits..(k - 1) : BuddyFree(p, o, j)

(* Everything that Free reads of the free storage is as it ought to be. *)
CanFree(p, o) ==
  LET bits == AllocSize(p, o)
      top == MergedSize(p, o, bits)
      first == p.freeList[top]
  IN  /\ \A k \in bits..(top - 1) : Intact(p, Buddy(o, k), k) /\ p.freeList[k] # OURNULL
      /\ top < numSizes - 1 /\ BuddyEndFree(p, o, top) =>
           p.trailer[Buddy(o, top) + 2^top] # Junk
      /\ first # OURNULL =>
           first \in Blocks /\ p.header[first] # Junk /\ p.header[first].prev = OURNULL

(* Mutant: the merged buddies are counted again. *)
FreedMerged(p, o) == 2^MergedSize(p, o, AllocSize(p, o))

(* What Free adds to freeBytes. *)
Freed(p, o) == 2^AllocSize(p, o)

(* The buddies leave their lists, and the merged block joins one. *)
FreeBlock(p, o) ==
  LET bits == AllocSize(p, o)
      top == MergedSize(p, o, bits)
      merged[k \in bits..top] ==  \* without the buddies of smaller sizes
        IF k = bits THEN p ELSE Unlink(merged[k - 1], Buddy(o, k - 1), k - 1)
  IN  [Link(merged[top], Base(o, top), top) EXCEPT
         !.map = @ \ {o + 2^bits - 1}, !.freeBytes = @ + Freed(p, o)]

-----------------------------------------------------------------------------
(* The functions that callers use.  bits is the size asked for, numSizes   *)
(* one that is too big.                                                    *)

Requests == 0..numSizes

Answer(what, bits) ==
  /\ answer' = <<what, bits>>
  /\ setup = "done"
  /\ UNCHANGED <<poolBlocks, HaveFrontBuffer, setup>>

Malloc(bits) ==
  /\ HasMemory(pool, bits)
  /\ CanAllocate(pool, bits)
  /\ pool' = Allocate(pool, bits)
  /\ held' = held \cup {Found(pool, bits)}
  /\ Answer("success", bits)

(* Malloc, or Realloc of a block that would have to grow. *)
NoMemory(bits) ==
  /\ ~HasMemory(pool, bits)
  /\ Answer("no memory", bits)
  /\ UNCHANGED <<pool, held>>

Free(o) ==
  /\ Ends(pool, o) # {}
  /\ CanFree(pool, o)
  /\ pool' = FreeBlock(pool, o)
  /\ held' = held \ {o}
  /\ Answer("success", AllocSize(pool, o))

(* Mutant: the old end stays in the map. *)
ReallocShrinkOldEnd(o, bits) ==
  /\ Ends(pool, o) # {}
  /\ bits <= AllocSize(pool, o)
  /\ pool' = LET old == AllocSize(pool, o)
                 map == pool.map \cup {o + 2^bits - 1}
             IN  ToFree([pool EXCEPT !.map = map], o + 2^bits, o + 2^old)
  /\ Answer("success", bits)
  /\ UNCHANGED held

(* Realloc to the same or a smaller size: the rest is freed. *)
ReallocShrink(o, bits) ==
  /\ Ends(pool, o) # {}
  /\ bits <= AllocSize(pool, o)
  /\ pool' = LET old == AllocSize(pool, o)
                 map == (pool.map \ {o + 2^old - 1}) \cup {o + 2^bits - 1}
             IN  ToFree([pool EXCEPT !.map = map], o + 2^bits, o + 2^old)
  /\ Answer("success", bits)
  /\ UNCHANGED held

(* Realloc to a larger size: Malloc, memcpy, Free. *)
ReallocGrow(o, bits) ==
  /\ Ends(pool, o) # {}
  /\ bits > AllocSize(pool, o)
  /\ HasMemory(pool, bits)
  /\ CanAllocate(pool, bits)
  /\ CanFree(Allocate(pool, bits), o)
  /\ pool' = FreeBlock(Allocate(pool, bits), o)
  /\ held' = (held \ {o}) \cup {Found(pool, bits)}
  /\ Answer("success", bits)

Next ==
  \/ SetupUpper
  \/ SetupFront
  \/ \E bits \in Requests : Malloc(bits) \/ NoMemory(bits)
  \/ \E o \in held : Free(o) \/ \E bits \in Requests : ReallocShrink(o, bits) \/ ReallocGrow(o, bits)

Spec == Init /\ [][Next]_vars

-----------------------------------------------------------------------------
(* Properties *)

(* Every field has its type: offsets, sizes and the count of free storage  *)
(* stay within the pool.                                                   *)
TypeOK ==
  /\ poolBlocks \in PoolSizes
  /\ HaveFrontBuffer \in BOOLEAN
  /\ pool.map \subseteq Blocks
  /\ pool.freeList \in [Sizes -> Blocks \cup {OURNULL}]
  /\ pool.header \in
       [Blocks -> [prev : Blocks \cup {OURNULL}, next : Blocks \cup {OURNULL}] \cup {Junk}]
  /\ pool.trailer \in [1..poolBlocks -> Sizes \cup {Junk}]
  /\ pool.freeBytes \in 0..poolBlocks
  /\ setup \in {"init", "upper", "done"}
  /\ held \subseteq Blocks
  /\ answer \in {"none", "success", "no memory"} \X Requests

(* No call with a pointer the caller owns meets a corrupted free list or   *)
(* reads storage of a caller where it expects its own links, and none is   *)
(* refused as a bad pointer (kIOReturnInternalError, kIOReturnNotAligned). *)
NoCallFails ==
  /\ \A bits \in Requests : HasMemory(pool, bits) => CanAllocate(pool, bits)
  /\ \A o \in held :
       /\ Ends(pool, o) # {}
       /\ CanFree(pool, o)
       /\ \A bits \in (AllocSize(pool, o) + 1)..numSizes :
            HasMemory(pool, bits) => CanFree(Allocate(pool, bits), o)

(* The n-th element of a free list. *)
Element(k) ==
  LET walk[n \in 0..poolBlocks] ==
        IF n = 0 THEN pool.freeList[k]
        ELSE IF walk[n - 1] \in Blocks /\ pool.header[walk[n - 1]] # Junk
        THEN pool.header[walk[n - 1]].next
        ELSE OURNULL
  IN  walk

Listed(k) == {n \in 0..(poolBlocks - 1) : Element(k)[n] # OURNULL}

(* The units of the elements of all lists, each as its list, its element   *)
(* and where it is: what two elements shared would count twice.            *)
Seen ==
  {s \in Sizes \X Blocks \X Blocks :
     s[2] \in Listed(s[1]) /\ s[3] \in Extent(Element(s[1])[s[2]], s[1])}

(* VMsvga2Allocator::Check would succeed after every call: the lists end,  *)
(* hold free blocks with the right links and sizes, and account for all    *)
(* the free storage.                                                       *)
CheckSucceeds ==
  /\ \A k \in Sizes :
       /\ Element(k)[poolBlocks \div 2^k] = OURNULL
       /\ \A n \in Listed(k) :
            /\ Intact(pool, Element(k)[n], k)
            /\ Extent(Element(k)[n], k) \cap pool.map = {}
            /\ pool.header[Element(k)[n]].prev =
                 IF n = 0 THEN OURNULL ELSE Element(k)[n - 1]
  /\ Cardinality(Seen) = pool.freeBytes

(* The storage handed over, as far as setupAllocator has come. *)
Owned ==
  {b \in Blocks : IF b >= bytes_reserve THEN setup # "init" ELSE setup = "done" /\ HaveFrontBuffer}

(* Blocks do not overlap, are aligned and have the size asked for, and a   *)
(* call fails for want of memory only where there is no way to place the   *)
(* block: free storage is never lost and always merged.                    *)
Promise == INSTANCE BuddyPool WITH
  owned <- Owned,
  busy <- {<<o, AllocSize(pool, o)>> : o \in held}

BuddyPoolSpec == Promise!Spec
=============================================================================
