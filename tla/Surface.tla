------------------------------ MODULE Surface ------------------------------
(***************************************************************************)
(* The backing store of a surface (AC/UC/VMsvga2Surface.cpp) with its      *)
(* transfer buffer (AC/VendorTransferBuffer.cpp): where it lies, who has   *)
(* it mapped and locked, and the DMA that the device has yet to do on it.  *)
(*                                                                         *)
(* The WindowServer owns the surface; an application reaches it through a  *)
(* 2D context.  There is no lock around the surface's methods: a call is   *)
(* divided where it reads or writes m_backing in the middle of allocating, *)
(* and the calls of both overlap as they please; overlapped remembers      *)
(* whether one of them has changed what the other was at work with.        *)
(*                                                                         *)
(* The surface has its identifier, is not used for video, and shows on a   *)
(* screen object or the master surface (without either the CPU copies).    *)
(* Fences work; SVGAFence is about devices without.                        *)
(***************************************************************************)
EXTENDS Integers, Sequences, FiniteSets

CONSTANTS
  Blocks,      \* blocks of VRAM
  Buffers,     \* kernel memory for IOBufferMemoryDescriptor
  Clients,     \* addresses in the owner that may serve as backing
  GMRIDs,      \* guest memory regions of the device
  MaxSize,     \* bound on the size of a surface
  ScreenSize,  \* size of a surface as large as the screen
  MaxPending,  \* DMA commands that fit into the FIFO
  NULL, INVALID, VRAM

ASSUME SurfaceAssumption ==
  /\ MaxSize \in Nat \ {0}
  /\ ScreenSize \in 1..MaxSize
  /\ MaxPending \in Nat \ {0}
  /\ INVALID # VRAM /\ {INVALID, VRAM} \cap GMRIDs = {}
  /\ NULL \notin Blocks \cup Buffers \cup Clients

VARIABLES
  wID1,           \* m_wID = 1, without VMW_OPTION_AC_PACKED_BACKING
  backing,        \* m_backing
  clientBacking,  \* m_client_backing, or NULL
  size,           \* m_scale.reserved[0], 0 while the source is not valid
  hasOffset,      \* m_scale.reserved[2] # 0, the source starts inside the backing
  lastRegion,     \* m_last_region # 0
  bIsLocked,      \* the bits that are set
  bSkipWriteLockOnce,
  proc,           \* what each task executes
  vram,           \* blocks allocated by the allocator
  usedIDs,        \* GMR identifiers allocated
  wired,          \* memory with a prepared descriptor
  gmrs,           \* what the device takes each GMR for
  fifo,           \* DMA commands the device has not executed
  drawn,          \* memory handed out since the last change of scale
  lost,           \* blocks left behind by a failed VRAMRealloc
  overlapped      \* two calls have got in each other's way

object == <<wID1, clientBacking, size, hasOffset, lastRegion>>
locks == <<bIsLocked, bSkipWriteLockOnce>>
memory == <<vram, usedIDs, wired, gmrs>>
vars == <<object, locks, memory, backing, proc, fifo, drawn, lost, overlapped>>

Tasks == {"owner", "context"}
Sizes == 1..MaxSize
Locks == {"read", "write", "context"}
Memory == Blocks \cup Buffers \cup Clients

(* map[0] is the owner's, map[1] the context's.  fence counts the commands *)
(* in the FIFO up to the one it stands for; 0 is none, or one passed.      *)
NoBacking ==
  [self |-> NULL, offset |-> NULL, size |-> 0, md |-> NULL, gart_ptr |-> 0,
   gmr_id |-> INVALID, fence |-> 0, map |-> [t \in Tasks |-> NULL]]

Idle == [step |-> "idle", call |-> "none", block |-> NULL]

(* A surface that start and set_id_mode have been called of. *)
Init ==
  /\ wID1 \in BOOLEAN
  /\ backing = NoBacking
  /\ clientBacking = NULL
  /\ size = 0
  /\ hasOffset = FALSE
  /\ lastRegion = FALSE
  /\ bIsLocked = {}
  /\ bSkipWriteLockOnce = FALSE
  /\ drawn = NULL
  /\ proc = [t \in Tasks |-> Idle]
  /\ vram = {}
  /\ usedIDs = {}
  /\ wired = {}
  /\ gmrs = [id \in GMRIDs |-> NULL]
  /\ fifo = <<>>
  /\ lost = {}
  /\ overlapped = FALSE

-----------------------------------------------------------------------------
(* Support methods *)

(* 0 - no backing, 1 - backing in kernel, 2 - backing in client *)
classifyBacking ==
  IF backing.self # NULL THEN 1
  ELSE IF backing.md = NULL THEN 0 ELSE IF backing.gart_ptr = 0 THEN 1 ELSE 2

isBackingValid == backing.self # NULL \/ backing.md # NULL

(* Mutant: a backing one page too small will do. *)
hasSourceGrownByMore == size > backing.size + 1

hasSourceGrown == size > backing.size

(* allocBacking and wrapClientBacking leave the backing as it is. *)
Fits ==
  IF clientBacking # NULL
  THEN classifyBacking = 2 /\ backing.gart_ptr = 1
  ELSE classifyBacking = 1 /\ ~hasSourceGrown

(* What the device reads or writes, and what mapBacking maps. *)
Target == IF backing.gmr_id = VRAM THEN backing.offset ELSE backing.md
Mapped == IF backing.self # NULL THEN backing.offset ELSE backing.md

(* The FIFO when the fence of the backing has passed. *)
Drained == SubSeq(fifo, backing.fence + 1, Len(fifo))

(* VendorTransferBuffer::sync *)
Synced(b) == [b EXCEPT !.fence = 0]

(* Mutant: complete does not wait for the fence. *)
CompleteNoSync ==
  /\ gmrs' = [id \in GMRIDs |-> IF id = backing.gmr_id THEN NULL ELSE gmrs[id]]
  /\ usedIDs' = usedIDs \ {backing.gmr_id}
  /\ wired' = wired \ {backing.md}
  /\ UNCHANGED fifo

(* VendorTransferBuffer::complete and discard *)
Complete ==
  /\ fifo' = Drained
  /\ gmrs' = [id \in GMRIDs |-> IF id = backing.gmr_id THEN NULL ELSE gmrs[id]]
  /\ usedIDs' = usedIDs \ {backing.gmr_id}
  /\ wired' = wired \ {backing.md}

releaseBacking ==
  /\ Complete
  /\ vram' = vram \ {backing.self}
  /\ backing' = NoBacking

-----------------------------------------------------------------------------
(* A call *)

Starts(t) == proc[t] = Idle

At(t, step) == proc[t].step = step

(* In these steps of a call the old backing is gone, and the new one is    *)
(* not there yet.                                                          *)
Building(t) == proc[t].step \in {"realloc", "store", "gmr", "wrap"}

(* The call has looked at the backing.                                     *)
Busy(t) == proc[t].step \notin {"idle", "alloc"}

(* One task builds the backing that the other builds or uses.              *)
Collide == \E t \in Tasks : Building(t) /\ \E u \in Tasks \ {t} : Busy(u)

Collides == overlapped' = (overlapped \/ Collide')

Goto(t, step) == proc' = [proc EXCEPT ![t].step = step]

(* Where a call goes when there is a backing. *)
Allocated(t) ==
  CASE proc[t].call \in Locks -> "map"
    [] proc[t].call = "copy" -> "dma"
    [] proc[t].call = "blit" -> "answer"

(* kIOReturnNoMemory, kIOReturnNoResources *)
Fails(t) ==
  /\ proc' = [proc EXCEPT ![t] = Idle]
  /\ bIsLocked' = bIsLocked \ {proc[t].call}
  /\ UNCHANGED bSkipWriteLockOnce

(* The calls that allocate the backing.  The owner is given the memory it  *)
(* has put up itself.                                                      *)
Begin(t, call) ==
  /\ Starts(t)
  /\ size # 0
  /\ proc' = [proc EXCEPT ![t] =
       [step |-> IF call \in {"read", "write"} /\ clientBacking # NULL THEN "answer" ELSE "alloc",
        call |-> call, block |-> NULL]]
  /\ Collides
  /\ UNCHANGED <<object, memory, backing, fifo, drawn, lost>>

(* surface_read_lock, surface_write_lock, context_lock_memory; if the bit  *)
(* is set they return kIOReturnCannotLock.                                 *)
Lock(t, call) ==
  /\ Begin(t, call)
  /\ call = "write" => ~bSkipWriteLockOnce
  /\ call \notin bIsLocked
  /\ bIsLocked' = bIsLocked \cup {call}
  /\ UNCHANGED bSkipWriteLockOnce

(* "ad-hoc code to prevent a deadlock in the WindowServer" *)
LockSkipped(t) ==
  /\ Begin(t, "write")
  /\ bSkipWriteLockOnce
  /\ bSkipWriteLockOnce' = FALSE
  /\ UNCHANGED bIsLocked

(* copy_framebuffer_region_to_self and copy_surface_region_to_self *)
CopyToSelf(t, call) ==
  /\ Begin(t, call)
  /\ UNCHANGED locks

(* allocBacking, or wrapClientBacking, finds what it needs. *)
Reuse(t) ==
  /\ At(t, "alloc")
  /\ Fits
  /\ Goto(t, Allocated(t))
  /\ Collides
  /\ UNCHANGED <<object, locks, memory, backing, fifo, drawn, lost>>

(* Mutant: a backing that grows keeps its mappings. *)
GrownKeepsMaps ==
  [Synced(backing) EXCEPT !.md = NULL, !.gmr_id = IF @ \in GMRIDs THEN INVALID ELSE @]

(* A backing in the kernel before it grows. *)
Grown ==
  [Synced(backing) EXCEPT !.md = NULL, !.gmr_id = IF @ \in GMRIDs THEN INVALID ELSE @,
                          !.map = [u \in Tasks |-> NULL]]

Grow(t) ==
  /\ At(t, "alloc")
  /\ clientBacking = NULL
  /\ classifyBacking = 1
  /\ hasSourceGrown
  /\ Complete
  /\ backing' = Grown
  /\ Goto(t, "realloc")
  /\ Collides
  /\ UNCHANGED <<object, locks, vram, drawn, lost>>

(* The backing is of the wrong kind, or there is none. *)
Replace(t) ==
  /\ At(t, "alloc")
  /\ ~Fits
  /\ clientBacking = NULL => classifyBacking # 1
  /\ IF classifyBacking = 0 THEN UNCHANGED <<memory, backing, fifo>> ELSE releaseBacking
  /\ Goto(t, IF clientBacking # NULL THEN "wrap" ELSE "realloc")
  /\ Collides
  /\ UNCHANGED <<object, locks, drawn, lost>>

(* VRAMRealloc leaves the block where it is, which it must if that is big  *)
(* enough, moves it, or fails.                                             *)
BigEnough == backing.self # NULL /\ ~hasSourceGrown

Realloc(t) ==
  /\ At(t, "realloc")
  /\ \E result \in IF BigEnough THEN {backing.self}
                    ELSE (Blocks \ vram) \cup ({backing.self} \ {NULL}) :
       /\ proc' = [proc EXCEPT ![t].step = "store", ![t].block = result]
       /\ vram' = (vram \ {backing.self}) \cup {result}
  /\ backing' = [backing EXCEPT !.size = size]
  /\ UNCHANGED <<object, locks, usedIDs, wired, gmrs, fifo, drawn, lost, overlapped>>

ReallocFails(t) ==
  /\ At(t, "realloc")
  /\ ~BigEnough
  /\ Goto(t, "store")
  /\ backing' = [backing EXCEPT !.size = size]
  /\ lost' = lost \cup ({backing.self} \ {NULL})
  /\ UNCHANGED <<object, locks, memory, fifo, drawn, overlapped>>

(* m_backing.self is assigned.  Without VRAM the memory is allocated from  *)
(* the kernel.                                                             *)
Store(t) ==
  /\ At(t, "store")
  /\ backing' = IF proc[t].block = NULL THEN [backing EXCEPT !.self = NULL]
                ELSE [backing EXCEPT !.self = proc[t].block, !.offset = proc[t].block,
                                     !.gmr_id = VRAM, !.fence = 0]
  /\ Goto(t, IF proc[t].block = NULL THEN "gmr" ELSE Allocated(t))
  /\ UNCHANGED <<object, locks, memory, fifo, drawn, lost, overlapped>>

(* VendorTransferBuffer::prepare of a new descriptor.  It does nothing if  *)
(* there is an identifier already.                                         *)
Prepare(t, mem, gart) ==
  \E id \in IF backing.gmr_id \in GMRIDs THEN {backing.gmr_id} ELSE GMRIDs \ usedIDs :
    /\ usedIDs' = usedIDs \cup {id}
    /\ IF id = backing.gmr_id THEN UNCHANGED <<wired, gmrs>>
       ELSE wired' = wired \cup {mem} /\ gmrs' = [gmrs EXCEPT ![id] = mem]
    /\ backing' = [backing EXCEPT !.offset = NULL, !.size = size, !.md = mem, !.gmr_id = id,
                                  !.gart_ptr = gart, !.fence = 0]
    /\ Goto(t, Allocated(t))
    /\ UNCHANGED <<object, locks, vram, fifo, drawn, lost, overlapped>>

(* Mutant: the identifier is not given back. *)
UsedAfterFailureKept ==
  IF usedIDs = GMRIDs THEN usedIDs ELSE usedIDs \cup {CHOOSE id \in GMRIDs : id \notin usedIDs}

(* AllocGMRID, the descriptor's prepare or createGMR have failed. *)
UsedAfterFailure == usedIDs

PrepareFails(t) ==
  /\ backing.gmr_id \notin GMRIDs
  /\ usedIDs' = UsedAfterFailure
  /\ backing' = [backing EXCEPT !.offset = NULL, !.size = size, !.md = NULL, !.gmr_id = INVALID]
  /\ Fails(t)
  /\ UNCHANGED <<object, vram, wired, gmrs, fifo, drawn, lost, overlapped>>

(* There is no memory for the descriptor. *)
NoDescriptor(t) ==
  /\ backing' = [backing EXCEPT !.offset = IF At(t, "wrap") THEN NULL ELSE @, !.size = size]
  /\ Fails(t)
  /\ UNCHANGED <<object, memory, fifo, drawn, lost, overlapped>>

(* wrapClientBacking *)
WrapClient(t) ==
  /\ At(t, "wrap")
  /\ \/ clientBacking # NULL /\ Prepare(t, clientBacking.addr, 1)
     \/ PrepareFails(t)
     \/ NoDescriptor(t)

allocGMRBacking(t) ==
  /\ At(t, "gmr")
  /\ \/ \E mem \in Buffers \ wired : Prepare(t, mem, 0)
     \/ PrepareFails(t)
     \/ NoDescriptor(t)

mapBacking(t) ==
  /\ At(t, "map")
  /\ backing.map[t] # NULL \/ Mapped # NULL
  /\ backing' = [backing EXCEPT !.map[t] = IF @ = NULL THEN Mapped ELSE @]
  /\ Goto(t, "answer")
  /\ UNCHANGED <<object, locks, memory, fifo, drawn, lost, overlapped>>

mapBackingFails(t) ==
  /\ At(t, "map")
  /\ backing.map[t] = NULL
  /\ Fails(t)
  /\ UNCHANGED <<object, memory, backing, fifo, drawn, lost, overlapped>>

(* "If we're not using packed backing, we let the Window Server run free   *)
(* over its shadow framebuffer without syncing": a source with an offset   *)
(* is one in a backing that is not packed.                                 *)
WaitsForDMA(t) == proc[t].call = "copy" \/ (proc[t].call = "write" /\ ~hasOffset)

(* VendorTransferBuffer::sync clears the fence it has read before it has   *)
(* waited, with the device lock taken and dropped in between: a command    *)
(* that is queued meanwhile loses its fence.  A backing that is given up   *)
(* is synced, too.                                                         *)
Syncs(t) == (At(t, "answer") /\ WaitsForDMA(t)) \/ (At(t, "alloc") /\ ~Fits)

(* Mutant: a command without a fence. *)
PushNoFence ==
  /\ Len(fifo) < MaxPending
  /\ fifo' = Append(fifo, [gmr |-> backing.gmr_id, mem |-> Target])
  /\ UNCHANGED <<backing, overlapped>>

(* A DMA command and its fence; FIFOReserve waits while there is no room. *)
Push ==
  /\ Len(fifo) < MaxPending
  /\ fifo' = Append(fifo, [gmr |-> backing.gmr_id, mem |-> Target])
  /\ backing' = [backing EXCEPT !.fence = Len(fifo) + 1]
  /\ overlapped' = (overlapped \/ \E t \in Tasks : Syncs(t))

(* copy_framebuffer_region_to_self *)
CopyDMA(t) ==
  /\ At(t, "dma")
  /\ Push
  /\ Goto(t, "answer")
  /\ UNCHANGED <<object, locks, memory, drawn, lost>>

(* What the caller draws on, or the driver for it. *)
Handed(t) ==
  IF proc[t].call \in {"read", "write"} /\ clientBacking # NULL THEN clientBacking.addr
  ELSE IF proc[t].call \in Locks THEN backing.map[t] ELSE Target

Answer(t) ==
  /\ At(t, "answer")
  /\ IF WaitsForDMA(t)
     THEN fifo' = Drained /\ backing' = Synced(backing)
     ELSE UNCHANGED <<fifo, backing>>
  /\ drawn' = Handed(t)
  /\ proc' = [proc EXCEPT ![t] = Idle]
  /\ UNCHANGED <<object, locks, memory, lost, overlapped>>

-----------------------------------------------------------------------------
(* The other calls *)

(* surface_read_unlock, surface_write_unlock *)
Unlock(call) ==
  /\ Starts("owner")
  /\ call \in bIsLocked
  /\ bIsLocked' = bIsLocked \ {call}
  /\ UNCHANGED <<object, bSkipWriteLockOnce, memory, backing, proc, fifo, drawn, lost, overlapped>>

(* context_unlock_memory *)
UnlockContext ==
  /\ Starts("context")
  /\ "context" \in bIsLocked
  /\ bIsLocked' = bIsLocked \ {"context"}
  /\ backing' = [backing EXCEPT !.map["context"] = NULL]
  /\ UNCHANGED <<object, bSkipWriteLockOnce, memory, proc, fifo, drawn, lost, overlapped>>

(* "it is probably incorrect logic for the client to grow the source while *)
(* holding a lock on the surface": callers are taken not to, nor to put up *)
(* memory then, even the same again: it would be wrapped anew.  Nothing    *)
(* keeps the other task from being at work with what changes.              *)
Rescale(client, s, offset) ==
  /\ bIsLocked = {} \/ (client = NULL /\ clientBacking = NULL /\ s <= backing.size)
  /\ clientBacking' = client
  /\ size' = s
  /\ hasOffset' = offset
  /\ drawn' = IF client = clientBacking /\ s = size THEN drawn ELSE NULL
  /\ overlapped' = (overlapped \/ \E t \in Tasks : Busy(t))

ClientBackings == {NULL} \cup [addr : Clients, size : Sizes]

(* set_shape of an empty region, or with a backing that is too small *)
SetShapeEmpty ==
  /\ Starts("owner")
  /\ Rescale(NULL, size, hasOffset)
  /\ lastRegion' = FALSE
  /\ UNCHANGED <<wID1, locks, memory, backing, proc, fifo, lost>>

(* A client backing that was wrapped is marked changed. *)
Reshape(client) ==
  /\ Starts("owner")
  /\ lastRegion' = TRUE
  /\ backing' = IF client # NULL /\ backing.gart_ptr # 0
                THEN [backing EXCEPT !.gart_ptr = 2] ELSE backing
  /\ UNCHANGED <<wID1, bIsLocked, memory, proc, fifo, lost>>

(* set_shape without kIOAccelSurfaceShapeIdentityScaleBit *)
SetShape(client) ==
  /\ Reshape(client)
  /\ Rescale(client, size, hasOffset)
  /\ UNCHANGED bSkipWriteLockOnce

(* set_shape with it, of a window *)
SetShapeScale(client, s) ==
  /\ ~wID1
  /\ Reshape(client)
  /\ Rescale(client, IF client = NULL THEN s ELSE client.size, FALSE)
  /\ UNCHANGED bSkipWriteLockOnce

(* and of the WindowServer's own surface, a part of the screen *)
SetShapeScreen(client, offset, grab) ==
  /\ wID1
  /\ Reshape(client)
  /\ Rescale(client, ScreenSize, offset)
  /\ bSkipWriteLockOnce' = (bSkipWriteLockOnce \/ grab)

(* set_scale, and context_scale_surface, where the buffer has no offset *)
SetScale(t, s, offset) ==
  /\ Starts(t)
  /\ t = "context" => ~offset
  /\ Rescale(clientBacking, IF clientBacking = NULL THEN s ELSE clientBacking.size, offset)
  /\ UNCHANGED <<wID1, lastRegion, locks, memory, backing, proc, fifo, lost>>

(* surface_flush.  The owner is taken to flush what it has drawn, except   *)
(* in memory of its own.                                                   *)
Flush ==
  /\ Starts("owner")
  /\ lastRegion
  /\ isBackingValid
  /\ drawn # NULL \/ clientBacking # NULL
  /\ Push
  /\ UNCHANGED <<object, locks, memory, proc, drawn, lost>>

(* clientClose, when the 2D context has let go of the surface; the next    *)
(* surface is opened.                                                      *)
Close ==
  /\ \A t \in Tasks : proc[t] = Idle
  /\ "context" \notin bIsLocked
  /\ releaseBacking
  /\ wID1' \in BOOLEAN
  /\ clientBacking' = NULL
  /\ size' = 0
  /\ hasOffset' = FALSE
  /\ lastRegion' = FALSE
  /\ bIsLocked' = {}
  /\ bSkipWriteLockOnce' = FALSE
  /\ drawn' = NULL
  /\ UNCHANGED <<proc, lost, overlapped>>

(* The device executes a command. *)
HostDMA ==
  /\ fifo # <<>>
  /\ fifo' = Tail(fifo)
  /\ backing' = [backing EXCEPT !.fence = IF @ = 0 THEN 0 ELSE @ - 1]
  /\ UNCHANGED <<object, locks, memory, proc, drawn, lost, overlapped>>

CallStep(t) ==
  \/ Reuse(t) \/ Grow(t) \/ Replace(t)
  \/ Realloc(t) \/ ReallocFails(t) \/ Store(t)
  \/ WrapClient(t) \/ allocGMRBacking(t)
  \/ mapBacking(t) \/ mapBackingFails(t)
  \/ CopyDMA(t) \/ Answer(t)

Next ==
  \/ \E call \in {"read", "write"} : Lock("owner", call) \/ Unlock(call)
  \/ LockSkipped("owner")
  \/ Lock("context", "context")
  \/ UnlockContext
  \/ \E t \in Tasks : CallStep(t) \/ \E call \in {"copy", "blit"} : CopyToSelf(t, call)
  \/ SetShapeEmpty
  \/ \E client \in ClientBackings :
       \/ SetShape(client)
       \/ \E s \in Sizes : SetShapeScale(client, s)
       \/ \E offset, grab \in BOOLEAN : SetShapeScreen(client, offset, grab)
  \/ \E t \in Tasks, s \in Sizes, offset \in BOOLEAN : SetScale(t, s, offset)
  \/ Flush
  \/ Close
  \/ HostDMA

Spec == Init /\ [][Next]_vars

-----------------------------------------------------------------------------
(* Properties *)

(* allocBacking, mapBacking and sync take no lock, so that two calls at    *)
(* once can lose a block, a mapping or a fence (BothTasksView is the run   *)
(* that shows it).  The properties speak of the surfaces this has not      *)
(* happened to: as long as no task builds the backing or changes the scale *)
(* while the other is building or using the backing, and none queues a     *)
(* command while the other syncs.  Calls may overlap in every other way.   *)

AllIdle == \A t \in Tasks : proc[t] = Idle

(* The device never works on memory that has been given back: until it has *)
(* executed a command, the block stays allocated, or the GMR stays defined *)
(* as the memory it was meant for and that memory wired.                   *)
DMAHitsItsMemory ==
  ~overlapped =>
    \A i \in 1..Len(fifo) :
      IF fifo[i].gmr = VRAM THEN fifo[i].mem \in vram
      ELSE gmrs[fifo[i].gmr] = fifo[i].mem /\ fifo[i].mem \in wired

(* Between calls everything that is allocated belongs to the backing, after *)
(* failures too.  lost is what the code leaks: the block of a VRAMRealloc  *)
(* that could not enlarge it, which the surface has forgotten.             *)
NothingElseLost ==
  ~overlapped /\ AllIdle =>
    /\ vram = lost \cup ({backing.self} \ {NULL})
    /\ usedIDs = {backing.gmr_id} \cap GMRIDs
    /\ wired = {backing.md} \ {NULL}
    /\ \A id \in GMRIDs : gmrs[id] = IF id = backing.gmr_id THEN backing.md ELSE NULL

(* Both tasks can hold a lock at the same time; what each has mapped is    *)
(* the memory that will be shown.                                          *)
MapsShowBacking ==
  ~overlapped /\ AllIdle =>
    /\ "context" \in bIsLocked => backing.map["context"] = Target
    /\ bIsLocked \cap {"read", "write"} # {} /\ clientBacking = NULL =>
         backing.map["owner"] = Target

(* "the application expects to be able to 'lock' the surface from two      *)
(* different tasks ... at the same time, and provide each a view": when    *)
(* both have it locked, they look at the same memory, however their calls  *)
(* came together.                                                          *)
BothTasksView ==
  AllIdle /\ "context" \in bIsLocked /\ bIsLocked \cap {"read", "write"} # {}
  /\ clientBacking = NULL =>
    backing.map["owner"] = backing.map["context"]

(* When a write lock of a buffer that starts with its source is granted,   *)
(* no DMA on the memory is pending, so that what was flushed before is not *)
(* overwritten; a copy from the framebuffer has arrived when the call      *)
(* returns.  The write lock of a source inside its backing, which is not   *)
(* packed, does not wait.                                                  *)
QuietOnReturn ==
  [][\A t \in Tasks :
       ~overlapped /\ At(t, "answer") /\ WaitsForDMA(t) /\ proc'[t] = Idle =>
         \A i \in 1..Len(fifo') : fifo'[i].mem # Handed(t)]_vars

(* A flush shows the memory that was drawn on, and no more than there is.  *)
FlushShowsDrawn ==
  [][Flush /\ ~overlapped' /\ clientBacking = NULL =>
       fifo'[Len(fifo')].mem = drawn /\ size <= backing.size]_vars
=============================================================================
