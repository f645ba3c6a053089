# VMsvga2: specification and proofs

VMsvga2 is a display driver for Mac OS X guests on VMware's SVGA device. It
consists of two kernel extensions (the framebuffer `src/FB` and the accelerator
`src/AC`), a user-space 2D plug-in (`src/GA`), a GL driver bundle (`src/GLD`)
and helpers (`src/blit`, `src/vmutil`). This directory holds TLA+ modules of
the parts of the driver whose correctness depends on order, on other threads or
on the device, TLC configurations that check them, and proofs for TLAPS.

Every definition is translated from the source; `PROJECT.json` ("map") gives
the lines each one stands for. The device itself, the kernel's thread calls and
the WindowServer are not in the repository: they are modelled from what the
code and `svga_reg.h` rely on, and marked external.

## The system

| Component | Source | State | Operations | Modules |
|---|---|---|---|---|
| Command FIFO | `FB/SVGADevice.cpp` | ring and FIFO registers shared with the device; bounce buffer, open reservation | FIFOInit, FIFOReserve, FIFOCommit, FIFOFull, SyncFIFO | `SVGAFifo`, `CmdQueue` |
| Fences and doorbell | `FB/SVGADevice.cpp`, `AC/FenceTracker.h`, `AC/VMsvga2Accel.cpp`, `AC/VendorTransferBuffer.cpp` | FENCE, BUSY, next fence number, fence of each buffer, ring of present fences | InsertFence, SyncToFence, RingDoorBell, FenceTracker before/after, sync | `SVGAFence` |
| Identifier pools | `AC/VMsvga2Accel.cpp` | bit masks, index of the first word not full, counter of unmanaged identifiers | Alloc/Free of surface, context, stream, GMR identifiers | `IDPool`, `IDMask` |
| Screen refresh | `FB/VMsvga2.cpp`, `AC/VMsvga2Accel.cpp` | `m_accel_updates`, `m_updating_ga`, the refresh thread call, SVGA_REG_TRACES | refreshTimerAction, schedule/cancel, useAccelUpdates, setDisplayMode | `RefreshTimer` |
| Custom resolutions | `FB/VMsvga2.cpp`, `FB/UC/VMsvga2Client.cpp` | custom mode, mode list, `m_custom_switch`, hardware mode | CustomMode, CustomSwitchStepSet/Wait, RestoreAllModes, setDisplayMode, setAttribute | `CustomMode` |
| VRAM allocator | `AC/VMsvga2Allocator.cpp` | free lists, block map, block headers inside VRAM | Init, Malloc, Realloc, Free, Release, Check | `BuddyAllocator`, `BuddyPool` |
| Surfaces: memory | `AC/UC/VMsvga2Surface.cpp` | backing store, mappings, locks, GMR | lock/unlock, shape, scale, flush, copies, close | `Surface` |
| Surfaces: output | `AC/UC/VMsvga2Surface.cpp`, `AC/VMsvga2Accel.cpp` | front buffer of each surface, master surface and its count, primary screen, video streams, what was found out about blits | Start3D, Cleanup3D, retain/release, surface_flush, context_set_surface, surface_flush_video, videoReshape | `SurfaceOutput` |
| 2D context and GA plug-in | `AC/UC/VMsvga22DContext.cpp`, `GA/VMsvga2GA.cpp` | the target surface, kept in both | vmStart/vmStop, allocate, free, destination, swap, blits | `GAPlugin`, `BlitDispatch` |
| Command encoders | `AC/SVGA3D.cpp`, `AC/SVGAScreen.cpp`, `FB/SVGADevice.cpp`, `vminclude/svga3d_reg.h`, `svga_reg.h`, `svga_overlay.h` | none | reserve, fill, commit | `CommandLayouts`, `Commands` |
| Accelerator methods | `AC/VMsvga2Accel.cpp` | none of their own | 2D, surfaces, contexts, screen objects, video; CopyRegion, blitGFB, genericBlitCopy | `AccelCommands`, `CommandMeaning`, `Blits`, `AccelCalls` |
| Transfer buffers, GMRs | `AC/VendorTransferBuffer.cpp`, `AC/VMsvga2Accel.cpp` | prepared state, GMR identifier, fence; the list of pages | prepare, complete, sync, discard; createGMR, createGMR2, destroyGMR | `Surface`, `SVGAFence`, `GuestRegions` |
| DVD, OCD contexts | `AC/UC` | nothing | answer with constants | not modelled |
| GL context and device | `AC/UC` | mapped buffers; most methods unfinished | | not modelled |
| Cursor, EDID, mode table | `FB` | tables | conversions | the cursor command in `Commands`, the mode list in `CustomMode` |
| GLD, vmutil | `src/GLD`, `src/vmutil` | user space, logging | forwarding | not modelled |

How they interact. A user client calls the accelerator, which takes the device
lock of the framebuffer (`VMsvga2::m_iolock`, `lockDevice`), encodes commands
into the FIFO with `SVGA3D`/`SVGAScreen` and remembers a fence. The device
reads the FIFO at its own pace and answers through registers only. The
WindowServer reaches the framebuffer through IOFramebuffer (`setDisplayMode`,
`setAttribute`), the accelerator through the GA plug-in; the kernel calls the
refresh timer and the delayed `RestoreAllModes` on threads of its own.

What is hard here:

* the device runs concurrently with the driver and shares memory with it: what
  `FIFOReserve` has read is old when `FIFOCommit` writes;
* fence numbers wrap, and a fence may be so old that it looks new;
* the device lock covers single methods only: `VendorTransferBuffer::sync` reads
  and clears a fence outside of it, and `useAccelUpdates` and the methods of a
  surface run without any lock, for two tasks at once;
* a timer that rearms itself is cancelled from elsewhere, without a lock and
  without waiting for it;
* a user client waits, uninterruptibly, for a handshake of three other parties;
* caches that tell where to look (the first word not full) must never be ahead
  of the truth;
* several surfaces share one master surface and a few overlay streams, and come
  and go, turn to video and back, in any order, at the call of two processes;
* what an encoder does not store in a command is what the FIFO held before;
* output and copies take one of several ways, each with offsets of its own.

`PROJECT.json` ("hazards") lists them at their lines, with the properties that
would catch each, or the reason why none does yet.

## The modules

### SVGAFifo and CmdQueue

`SVGAFifo` is the driver's side of the ring buffer, one action per step that
the device could see between: the tests of `FIFOReserve` (`FIFOReserve`,
`FIFOReserveRefused`), one turn of its loop (`ReserveInPlace`, `ReserveBounce`,
`FIFOFull`), the caller filling the buffer word by word (`Fill`), `FIFOCommit`
with its two `memcpy`s (`CopyChunk`, `CopyRest`), the update of NEXT_CMD (`PublishCommand`) and of RESERVED
(`Unreserve`), and `FIFOCommit(0)` (`FIFOAbandon`). The device is `HostTake`
(one word read) and `HostDrained` (BUSY falls).

Sizes count words. The driver is one process because every caller holds the
device lock from `FIFOReserve` to `FIFOCommit`. `FIFOInit` refuses a device
without SVGA_FIFO_CAP_RESERVE (`SVGADevice.cpp:340`), so the branches of
`FIFOReserve` and `FIFOCommit` for one are dead and left out.

`CmdQueue` is what the FIFO promises: commands arrive whole, in order, once.
`QueueSpec` is the refinement: the words between STOP and NEXT_CMD are the
queue.

### SVGAFence

The FIFO is a queue of commands here. The driver's operations are the ones that
use fences: DMA from a transfer buffer (`SurfaceDMA2D`, `BlitToScreen`), its
`sync`, and presents throttled by `FenceTracker<N>` (`PresentAutoSync`,
`SubmitPresent`). `SyncToFence` is `SyncAtOnce`, `SyncStart` and `SyncEnd`;
`RingDoorBell` is split where the device can come between the test of FIFO_BUSY
and the write of SYNC. These hold the device lock and are one process (`pc`). The
device is a thread that is asleep, awake, or taking a last look at the FIFO
before it sleeps.

`VendorTransferBuffer::sync` holds no lock of its own (lines 91-98). A thread in
it (`call`) reads the fence of its buffer, then waits in `SyncToFence`
(`BufferSync`), and sets the fence to 0 some time after the lock was dropped
(`FenceCleared`); meanwhile others may submit DMA of the same buffer. So a newer
fence can be set to 0 with its DMA still in the FIFO. The model contains this;
the history variables `renewed` and `erased` say of which buffers it is true, and
`NoFenceNoDMA` holds for all others.

### IDPool and IDMask

`IDPool` describes the four pairs of `Alloc*ID`/`Free*ID` as one algorithm with
parameters (table in the module). `IDMask` is the arithmetic: machine words,
the lowest clear bit by `~x & (x + 1)`, bit numbers relative to the word the
search started at, `mask_array64`. `PoolSpec` says that it implements `IDPool`,
and the assumption `MaskArrayCorrect` evaluates `mask_array64` for every limit.
All of them run under `lockAccel`, so one call is one step.

### RefreshTimer

Each invocation of `refreshTimerAction`, `setDisplayMode` and each context's
`useAccelUpdates` is a process with a step per access of shared state;
a section under `m_iolock` is one step. A thread call is armed or not; it can be
armed again while an invocation runs, and cancelling does not wait.

Calls of `useAccelUpdates` overlap freely: nothing locks the test and the
assignment of `m_updating_ga` (`VMsvga2Accel.cpp:776-781`), and the `clientClose` of
any task's 2D context makes such a call (`VMsvga22DContext.cpp:119`). What two of
them leave behind may be wrong: updates off with the timer cancelled last, so
that nobody refreshes the screen. The history variables `mixed` and `disturbed`
follow such calls, until a switch was made that no other call overlapped;
`ScreenRefreshed`, `AccelOwned` and `TimerGoesOn` say that this one puts all right,
whatever it found. `asked` is what each task asked for last.

### CustomMode

The user client (`CustomModeRequest` ... `CustomModeReturn`, with
`CustomSwitchStepWait` as test, `assert_wait`, second test and `thread_block`),
the WindowServer (`WSNotices` ... `WSReleases`), and the delayed
`RestoreAllModes` (`RestoreTest`, `RestoreSwap`, `RestoreSet`). The mode list is
read in one step. The WindowServer is taken to listen (an interrupt handler is
registered), as the driver itself takes it to. A thread call that was cancelled
can still be running, so that `armed` and `restore` are separate; an invocation of
`RestoreAllModes` is taken to be through before it is due again, 2 s later.

Clients ask whenever they like, also while `m_custom_mode_switched` is on and mode
changes stay in the driver (`FB/VMsvga2.cpp:686-693`). The history variable `crossed`
says that one has asked before the last custom mode was over; `HardwareMatchesMode`
holds unless this has happened, and again once a mode has reached the device.

### BuddyAllocator and BuddyPool

`BuddyAllocator` keeps what the allocator keeps: the bit map, the heads of the
free lists, and the links and sizes that lie in the free storage itself. A page
that a caller uses or has used holds `Junk`, of which every test of the
consistency checks fails; so a run that never meets `Junk` (`NoCallFails`) shows
that the checks never trip over the contents of old blocks. The calls run under
`lockAccel` and are one step each; `SetupUpper` and `SetupFront` are the two
`Release` calls of `setupAllocator`. `toFree` is stated by what it computes: the
largest aligned blocks within the range (`Pieces`), freed from the lowest up.

`BuddyPool` is the promise of the header file: blocks are disjoint and aligned,
and "if this allocator fails, there is no way to place a block of the size
requested". `BuddyPoolSpec` is the refinement; in it a block's size is what
`BuddyAllocSize` reads off the map. `CheckSucceeds` is what
`VMsvga2Allocator::Check` verifies, after every call.

### Surface

One surface with its backing, at the level of memory: a block of VRAM, a kernel
buffer behind a GMR, or the owner's own memory behind one. `Begin` and the
actions of `CallStep` are the calls that need the backing (`surface_read_lock`,
`surface_write_lock`, `context_lock_memory` and the two copies): `Reuse`, `Grow`
and `Replace` are the cases of `allocBacking` and `wrapClientBacking`, `Realloc`
the call of the allocator, `Store` the assignment of its result, `WrapClient`
and `allocGMRBacking` the calls of `VendorTransferBuffer::prepare` with their
failures, `mapBacking`, `CopyDMA` and `Answer` the rest. The other calls do not
allocate and are one step. The allocator is any that keeps a block that is big
enough; `BuddyAllocator` is the one there is. The GMRs are a function from
identifiers to memory, the FIFO a queue of DMA commands that remember which
memory they were meant for.

The methods take no lock, and the calls of the owner and of the context overlap
as they please: a call is divided where it reads or writes `m_backing` between two
calls of others. What goes wrong then, `surface_overlap` shows. The history variable
`overlapped` says that two calls have got in each other's way: one builds a backing
(`Collide`) or changes the scale (`Rescale`) while the other is at work with the
backing, or one queues a command while the other syncs (`Push`; the sync sets the newer
fence to 0, as in `SVGAFence`). The properties of the run `surface` speak of surfaces
this has not happened to, those of any other overlap included. Without `Collide`, or
without the part of `Rescale`, TLC finds `NothingElseLost` or `FlushShowsDrawn`
violated; that of `Push` is there because the model syncs in one step and does not
follow what the fence set to 0 leads to.

`hasOffset` is `m_scale.reserved[2] # 0`: the source starts inside its backing. With
packed backing it never does. A write lock of such a surface does not wait for DMA
(`VMsvga2Surface.cpp:1267-1271`), and `QuietOnReturn` does not say that it does.

Growing or wrapping while a lock is held is excluded (`Rescale`): the comment in
`copy_framebuffer_region_to_self` calls it incorrect, and the driver answers it
by dropping the mapping that the holder draws through. `Close` expects the 2D
context to have unlocked, and `Flush` the owner to flush what it has drawn.

### SurfaceOutput and GAPlugin

`SurfaceOutput` has several surfaces at once, what of the accelerator they
share, and what the device has been told. `Start3D` finds a front buffer for a
surface and, once per driver, tries out whether blits work (`detectBlitBug`);
`Cleanup3D` and `VideoOff` give up what a surface holds; `Flush`, `FlushVideo`
and `CopyFromFront` issue the commands of the way they take. `Execute` is the
device: a command that names a surface or a screen it does not have is kept in
`device.stray`. Streams that `context_set_surface` forgets are kept in `lost`.

`GAPlugin` composes it with the two callers: the WindowServer (`WS...` and
`ModeChange`) and an application's plug-in (`vm...`), whose 2D context has a
target of its own. Each call is one step, failures of `locateSurface` and of YUV
formats included.

Assumed of the callers: the WindowServer's own surface is the first to get an
identifier and is never used for video; a surface object is not used again while
a context still holds it; the display mode changes only when the open surfaces
are all used for video (what the note at `VMsvga2Surface.cpp:1706` is there for).

### CommandLayouts, Commands, AccelCommands, CommandMeaning

`CommandLayouts` has the structures of the device's headers, member by member,
with their sizes and offsets. `Commands` has the encoders: each is the words it
reserves, the stores it makes in them in their order, and the words it commits.
`AccelCommands` has the methods of the accelerator, and of surfaces for video,
that fill in the rest. A word is a number, a name, a word of an argument, or
stale; reservations are not refused here, which `SVGAFifo` covers.

`CommandMeaning` says for each call what it has to tell the device, without
stores and offsets: the header, then every structure whole, each member with its
argument. It also has the device's side: how many words it takes for the
command at the head of the FIFO, found from the words themselves.

### GuestRegions

`createGMR` lists the physical runs of a memory descriptor in linked pages of a
helper buffer, itself made of runs (`Put`, `Link`, `Describe`); `Walk` is the
device following the list (`svga_reg.h`). `createGMR2` takes the pages as they
are; it is called from nowhere, and starts at offset 0 of the first page, so
that it is only checked for memory that starts with a page.

### Blits and BlitDispatch

`Blits` has what output and copies move: pictures map points, memories map
addresses (in pixels). `DMAOutDirect`, `DMAOutWithCopy`, `DMAOutStretchWithCopy`,
`ScreenObjectOutDirect`, `ScreenObjectOutVia3D` and `GFBOutDirect` are the ways
of `surface_flush`; `copy_framebuffer_region_to_self` (three sources),
`copy_surface_region_to_self` and `CopyRegionOnScreen` (with a front buffer it copies
nothing, and `CopyRegionAnswers` success) are the copies, with
`clipRegionToBuffer` and the row test of `genericBlitCopy`. What the device does
with boxes, images and blits is external. `BlitDispatch` is the way of a blit
from the plug-in through the 2D context to the method that does it.

### AccelCalls

One call at a time of all these: a call that issues commands leaves their words
in the FIFO, where the device takes them one by one (`Take`); the others leave a
description of a region, or a picture or memory.

## The runs

| Run | Question | Bounds |
|---|---|---|
| `fifo` | Does the ring implement a queue of whole commands, leave unread words alone, announce unpublished ones, and let every reservation end? | data area of 4 words, bounce buffer 4, commands of 1 to 5 words, 2 word values |
| `fence` | Is a synced buffer free of DMA unless a newer fence was erased, are presents bounded, does SyncToFence return, is a doorbell heard, across the wrap of the counter and on devices without fences? | 6 fence numbers, 1 buffer, 1 thread in sync of it beside the process that submits, FenceTracker<1>, 3 commands in the FIFO |
| `idpool` | Are identifiers unique, supported, and never forgotten? | 2 words of 2 bits, one identifier not supported, 5 holders |
| `idmask` | Does the arithmetic implement the pool? | 2 words of 2 bits, 2 unmanaged numbers, 6 holders |
| `refresh` | Does somebody refresh the screen and own the updates, again after calls that overlapped, and does the timer stop when it should? | 2 contexts of 2 tasks whose calls overlap, 2 invocations of the timer, with and without traces |
| `custom` | Does each call of CustomMode return, does the hardware follow the mode, do all modes come back? | 2 clients that ask at any time, 2 sizes, 2 modes; older and newer systems |
| `custom_again` | Does RestoreAllModes leave a new request alone? It does not (a finding) | 1 client, which asks again at once |
| `buddy` | Are blocks disjoint, lists intact, and calls refused only where no block can be placed? | blocks of 1, 2 and 4 pages; VRAM of 3 or 7 pages, 4 of them reserved; framebuffer in it or not |
| `surface` | Does the device, and does each task, always work on memory that is still the surface's; is nothing left allocated but by a failed `VRAMRealloc`? | 2 blocks of VRAM, 2 buffers, 2 GMRs, 1 client address; sizes 1 and 2; 2 DMA commands in the FIFO; both tasks call at any time, and a behaviour is followed until it is `overlapped` (`NotOverlapped`: nothing is claimed after that) |
| `gaplugin` | Does every command name what the device has, are master surface and streams accounted for, do plug-in and context agree on the destination? | the desk and 2 surfaces, 2 blit surfaces, 2 modes, 2 streams; with and without screen objects, 3D, YUV formats, direct blits |
| `calls` | Is each command whole, does each region describe its memory, does the screen or the memory get what was to be shown or copied? | 0 to 2 rectangles, boxes or states; up to 6 pages in any runs, 2 descriptors to a page; screen of 3 x 3, backing of 20 pixels, one or two rectangles in a region |
| `surface_overlap` | Do the owner and the context see the same memory if their calls overlap? They do not (a finding) | 2 blocks of VRAM, one size |

Why the bounds are enough. In a ring of 4 words commands of 1 to 4 words meet
every combination of the comparisons in `FIFOReserve`: in place up to the end,
in place before STOP, split by the bounce buffer, no room; a command of 4 words
waits for ever and one of 5 is refused. Six fence numbers with three commands in
the FIFO let a fence be older than half the counter; one buffer, whose DMA one
process submits and another thread syncs, has every overlap of the two (two threads in
sync of it, and other buffers, are in the proof). Two words of two bits are
the least with a full word before one that is not, and the holders exhaust them.
In `refresh` two invocations of the timer overlap, and so do the calls of two
tasks (contexts of one task, and more of them, are in the proof). Of two sizes one
is the current, so that two clients ask for a size, for the other one before the
first is set, and back. Blocks of three sizes merge twice, and a
pool of 7 pages ends with an incomplete block; the state space of `buddy` has no
other bound. In `surface` two sizes make a backing grow, two blocks and two
buffers make it move, and two commands leave one behind when the other has passed.
In `gaplugin` three surfaces are the least of which one can keep the master surface
while another leaves it and a third cannot have it; two streams let one be lost
and another used, and run out. In `calls` two elements show where the second
starts; six pages, in runs of every length, fill three pages of descriptors, with
and without a link between them, or exceed the limits of the device. In a
picture of 3 x 3 a region can have every pair of disjoint rectangles, lie over each
edge of the buffer, and be narrower or wider than its source.

`EveryCommandEnds` excludes the command of exactly MAX - MIN words:
`FIFOReserve` admits it, but the ring keeps one word free and the loop never
ends. The real bounce buffer is far smaller than the ring.

### Fairness

* The driver's thread goes on once it has begun (`DriverStep`, `DriverGoesOn`,
  `ModeStep`, `UseStep`, `ClientStep`): kernel threads are scheduled. No process
  is obliged to begin an operation.
* The device works off the FIFO while BUSY is set ("every read from this
  register causes us to synchronously process FIFO commands", `svga_reg.h`) or
  its thread is awake; at other times it may, but need not.
* An armed thread call fires (`TimerFires`, `RestoreStep`).
* The WindowServer reacts to the interrupt it gets (`WSStep`). The driver waits
  for it in THREAD_UNINT and so relies on exactly this.
* Nothing is assumed of the user (`UserChooses`).

### What the runs found

`custom_again`: `RestoreAllModes` tests `m_custom_switch` and later sets it to
0, with no lock in between. It can thus overwrite the request of a client that
asks again within the two seconds of the delayed call, which the test is meant
to leave alone; the client then waits for a 2 that does not come.

`surface_overlap`: `allocBacking` is not serialised. Two tasks that lock a
surface without a backing at the same time both get a block; the later
assignment to `m_backing.self` wins, and the other task draws on memory that
is neither shown nor freed again. A comment in `VMsvga2Surface.cpp` says that
applications do expect to be able to lock from both tasks at the same time.

Beside the findings, `ReallocFails` shows a leak: `VRAMRealloc` returns 0 when it
cannot enlarge a block, `allocBacking` stores the 0 and falls back on a GMR, and
nobody knows the old block any more. `NothingElseLost` admits these blocks (`lost`)
and says that nothing else is left behind.

Modelling the rest met some more that no run is spent on:

* `context_set_surface` with a YUV format clears `m_video.unit.enabled`
  (`VMsvga2Surface.cpp:1694`) without freeing the stream: the overlay stays on the
  screen and its stream is lost. `OverlayOwned` counts such streams.
* A flush of an overlay that is on sends no registers (`surface_flush_video`), so
  a backing that has moved or grown meanwhile is not shown.
* `VendorTransferBuffer::sync` may set a newer fence to 0 than it has waited for
  (`VendorTransferBuffer.cpp:97`); the buffer's memory can then be reused with the
  DMA pending. `NoFenceNoDMA` names the case (`erased`).
* Two calls of `useAccelUpdates` that overlap can leave the screen to nobody
  (`VMsvga2Accel.cpp:776-781`, `FB/VMsvga2.cpp:1174`), until the next switch.
* `setDisplayMode` compares the custom mode with `customMode`, which a client may have
  changed since `m_custom_mode_switched` was set (`FB/VMsvga2.cpp:687`): the device then
  keeps the old size while the mode has the new one. `HardwareMatchesMode` exempts
  it (`crossed`).
* `EndDefineAlphaCursor` sends the cursor's `id` as 1 (`SVGADevice.cpp:618`), of which
  `svga_reg.h:1135` says "Reserved, must be zero". `CommandMeaning` has the 0 of the
  header, and `CommandsArrive` does not judge this one word (`Judged`).
* With a front buffer `CopyRegion` copies nothing and "pretends to work"
  (`VMsvga2Accel.cpp:990-993`): `CopiesArrive` demands that nothing changes then, not
  that an error is answered. Without rectangles it returns a variable that was never
  set.
* A copied region is clipped in the structure of the caller, and without
  rectangles `copy_surface_region_to_self` takes the bounds, which are not clipped.
* `CopyRegion` copies the rectangles of a region in their order, and a copy may
  land on a rectangle that is still to be copied. `CopiesArrive` excludes this.

Assumed in `calls`: regions are within the screen and their rectangles are
disjoint, with the box around them as bounds; the buffer of a surface is inside its
source; two surfaces have different memories; `createGMR2` gets memory that
starts with a page.

The assumptions of `surface` and `custom` are described with the modules. No run
assumes that calls which the code lets overlap do not: where the code goes wrong
with them, a history variable (`erased`, `disturbed`, `crossed`, `overlapped`) marks it
as it happens, and the property says what holds before it and, but for `Surface`,
what makes it hold again. Each mark is needed: without it TLC finds the property
violated.

## The proofs

Each `..._proofs` module extends the module it is about, states an inductive
invariant with its parts by name, proves `Init => Inv` and, action by action,
`Inv /\ [Next]_vars => Inv'`, and derives from it the properties that the runs
check. Each invariant was checked by TLC on the instance of its run first
(`BuddyInv` with blocks near the pool only, and with "no list runs in a circle"
stated by following the links, as `Ordered` speaks of all numberings). The
theorems hold for every value of the constants that satisfies the module's
assumption: sizes and numbers of things are naturals, and not 0 where the code
needs one; sets are finite where the code counts or lists them; names like NONE
are not members of the sets they stand beside (no offset is OURNULL, and Junk is
none of the links that the allocator writes); the part of the VRAM kept for the
framebuffer is a multiple of the largest block; and the FIFO holds fewer commands
than half the fence numbers (`FenceAssumption`: in the code, a few megabytes
against 2^31), without which a fence could not be told from one long passed.

| Module | Invariant, and what it adds | Theorems about properties |
|---|---|---|
| `SVGAFifo_proofs` | `FifoInv`, for every size of ring and bounce buffer. `TypeOK` is not inductive: that NEXT_CMD stays in the ring after FIFOCommit needs that the command still fits. Added: where the command is in each state of the driver (`CmdInv`), that the room found by `FIFOReserve` is still there although the device has moved STOP since (`RoomInv`), what RESERVED holds (`ReservedInv`), that nothing is submitted while `SyncFIFO` polls (`SyncInv`) | `TypeOK`, `ReservedCoversUnpublished`, `UnreadIntact`, `SyncDrains`, `QueueSpec` |
| `IDPool_proofs` | `PoolInv`, for every pool. `UniqueIDs` alone needs that a bit is set exactly when its identifier is masked or held, that no word below the index has a clear bit, and that unmanaged numbers still to come are held by nobody | `TypeOK`, `UniqueIDs`, `NeverMasked`, `NoneForgotten` |
| `SVGAFence_proofs` | `FenceInv`, for every number of fence numbers, buffers, present fences and threads in sync. With fences, commands and fences alternate in the FIFO and the fences are the next ones after FENCE, past the wrap and without the 0 (`OrderInv`); a present is followed by a fence that the tracker remembers, whose next slot is free (`PresentInv`). Without, `SyncToFence` waits for the whole FIFO, and the slots fill up between two such waits (`NoFencesInv`). A DMA in the FIFO is covered (`Covered`) by the fence its buffer remembers, unless it was erased, and by what a thread in sync of the buffer still waits for, unless the fence was renewed since it was read | `NoFenceNoDMA`, `PresentsBounded` |
| `RefreshTimer_proofs` | `RefreshInv`, for every set of contexts, tasks and invocations, and every overlap of calls: which calls can be lone (`MixedInv`), how far a lone one has come and what follows its argument already (`LoneCallInv`), whose the updates are (`OwnerInv`), and who must still arm or trace (`TimerInv`, `TracesInv`) | `ScreenRefreshed`, `AccelOwned` |
| `CustomMode_proofs` | The mode list stays a permutation, and no wakeup is lost, for any clients; `ModeInv`, for clients that ask at any time, relates the step of the handshake to the place of client, WindowServer and delayed call, and to what the device shows, until a request has crossed the last custom mode | `ModesKept`, `HardwareMatchesMode` |
| `Surface_proofs` | `SurfaceInv` until `overlapped`, for every set of blocks, buffers, identifiers, addresses and sizes and any calls of both tasks: what each kind of backing consists of (`KindInv`), what a call that is half through has and has not yet stored (`CallInv`, `BuildingInv`), who owns each block, buffer and identifier (`MemoryInv`), what the commands in the FIFO and the backing's fence have to do with each other (`FifoInv`), what locks hold (`LockInv`) and what was drawn where (`DrawnInv`) | `DMAHitsItsMemory`, `NothingElseLost`, `MapsShowBacking`, `QuietOnReturn`, `FlushShowsDrawn` |
| `GAPlugin_proofs` | `GAInv`, for every number of surfaces, modes, streams and blit surfaces: the front buffer of a surface follows from whether it is used for video (`SurfInv`), the master surface is as large as the display and counted (`MasterInv`), the screen object fits once the WindowServer has its surface (`ScreenInv`), an instance that is not open has no destination (`InstanceInv`) | `NoStrayCommand`, `MasterAccounted`, `OverlayOwned`, `DestinationAgreed` |
| `BuddyAllocator_proofs` | `BuddyInv`, for every size of pool and number of block sizes: the storage that is not busy has its largest aligned blocks (`Maximal`) in the free lists, each in the list of its size, and no others (`Lists`: links and sizes are written where a free block begins and ends and nowhere else, links lead back, and no list runs in a circle); the map has a bit for the last unit of each busy block and for what is not handed over, and `freeBytes` is what remains (`Layout`) | `TypeOK`, `NoCallFails`, `CheckSucceeds`, `BuddyPoolSpec` |

Arguments that several of these need:

* `FifoImplementsQueue` uses the refinement mapping of `QueueSpec`. `DataInv` says
  where each word of the command under way is (bounce buffer or ring, before or
  after the wrap); then NEXT_CMD moving over it appends exactly the command
  (`PublishAppends`), and STOP moving removes the first word
  (`HostTakesFirst`); every other step stutters (`InFlightStays`).
* `Issue` folds `Execute` over a sequence of commands. `RunExists` and `RunsAgree`
  show that the function the fold is defined by exists and is the same on every
  set of positions; from it come `AfterOneMore` and `AfterBoth`, by which the
  commands of a call are followed one by one, or one sequence after the other.
* The provers know 2^k only as the number of subsets of a set of k (`PowersOfTwo`).
  From it come that powers divide each other (`PowerDivides`), that two aligned
  blocks are disjoint or one is in the other (`BlocksNested`), and so that every
  unit of a set is in exactly one of its largest blocks (`MaximalCovers`,
  `MaximalDisjoint`). Each operation on the pool replaces some blocks of the set
  that the lists hold: `LinkKeepsLists` and `UnlinkKeepsLists` for one block,
  `ToFreeFrees` for the pieces of a range, `MergeSteps` and `MergeIsMaximal` for
  the merging of `Free`; `BuddyFreeIs` says that the tests for a free buddy find
  exactly the free blocks.
* `CheckSucceeds` follows a list from its head. The walk meets free blocks only
  (`ElementWalks`), none twice (`WalkDistinct`), and hence no more than fit
  (`WalkEnds`); the first block of a list, in its order, that the walk missed
  would have no predecessor or one that was met (`WalkReaches`). So the units met
  are the free units, each once (`SeenCounted`).
* Induction over natural numbers is done on sets: a set of naturals that is not
  empty has a least member (`LeastNat`, from the well-foundedness of <), hence
  one with 0 and closed under successor is all of Nat (`SetInduction`).

Only model-checked:

* Liveness, which is out of the prover's reach: `EveryCommandEnds`,
  `SyncReturnsEventually`, `DoorbellHeard`, `TimerStops`, `TimerGoesOn`,
  `EveryCallReturns`, `AllModesAgain`.
* `PoolSpec` of `IDMask` and what the run `calls` checks: they use Bitwise and
  recursive operators of the community modules, which no prover has.

## Not modelled

* The DVD and OCD contexts answer with constants.
* The GL context and device are unfinished in the source: most methods return
  `kIOReturnUnsupported`, `submit_command_buffer` discards the commands and sets
  its memory type back to 0 so that a second submit finds another type,
  `do_get_data` always fails because `get_data_buffer` does. A model would have to
  guess at what is intended.
* The GLD bundle forwards every entry point; vmutil writes log lines.
* Pixel conversions of the cursor, EDID, mode table, options, accessors, the
  IORegistry and IOKit's matching have no control state worth a model.
* Of surfaces: the trick buffer of video surfaces (`setup_trick_buffer`),
  `surface_control`, the queries. Of the plug-in: COM plumbing, capabilities,
  `vmLockSurface` (it locks the current target, whichever surface it is given), the
  waits. Locks of a surface after its `clientClose` are excluded.
* `stop` and `Cleanup` of the drivers: the extensions are not unloaded while in use.
* What a surface is like once overlapping calls have got in each other's way, apart
  from `surface_overlap`; and overlapping calls on several surfaces (`GAPlugin` takes
  calls one at a time).

## Plan

1. Calls on several surfaces at once: what `retainMasterSurface` would have to
   hold for them.
2. `AccelCalls` for regions of any number of rectangles; its modules would have to
   do without the recursive operators of the community modules first.
