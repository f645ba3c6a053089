------------------------------ MODULE SVGAFence ------------------------------
(***************************************************************************)
(* Fences, synchronization and the doorbell of the SVGA device             *)
(* (FB/SVGADevice.cpp), and the driver operations built on them: DMA from  *)
(* a transfer buffer that is reused after VendorTransferBuffer::sync, and  *)
(* presents throttled by FenceTracker (VMsvga2Accel.cpp).                  *)
(*                                                                         *)
(* The ring buffer is SVGAFifo; here it is the queue of commands it        *)
(* implements.  Submitting, SyncToFence and RingDoorBell hold the device   *)
(* lock (VMsvga2::m_iolock), so their steps belong to one sequential       *)
(* process, pc; the device runs concurrently with it.                      *)
(* VendorTransferBuffer::sync holds no lock: it reads and clears the       *)
(* buffer's fence before and after the locked SyncToFence, while others    *)
(* use the FIFO, for the same buffer too.  Fence numbers are 32-bit in the *)
(* code and FenceModulus wide here.                                        *)
(***************************************************************************)
EXTENDS Integers, Sequences, FiniteSets

CONSTANTS
  Buffer,       \* transfer buffers (VendorTransferBuffer objects)
  Thread,       \* threads that may be in VendorTransferBuffer::sync
  HalfModulus,  \* half the number of fence values, 2^31 in the code
  Presents,     \* the N of FenceTracker<N>
  QueueMax      \* commands that fit into the FIFO

FenceModulus == 2 * HalfModulus

ASSUME FenceAssumption ==
  /\ HalfModulus \in Nat
  /\ Presents \in Nat \ {0}
  /\ QueueMax \in Nat \ {0, 1}
  /\ QueueMax < 2 * (HalfModulus - 1)
  /\ {"present", "nobody"} \cap Buffer = {}
  /\ {"present", "nobody"} \cap Thread = {}
  /\ Buffer \cap Thread = {}

VARIABLES
  HasFence,      \* FIFO register CAPABILITIES: SVGA_FIFO_CAP_FENCE
  queue,         \* commands submitted and not yet executed, oldest first
  FENCE,         \* FIFO register: the last fence the device executed
  FIFO_BUSY,     \* FIFO register: the device will notice new commands
  REG_BUSY,      \* SVGA_REG_BUSY
  mks,           \* the device's thread
  m_next_fence,  \* SVGADevice member
  fence,         \* the member "fence" of each transfer buffer
  tracker,       \* m_present_tracker: [counter, fences]
  pc,            \* where the driver is
  target,        \* the argument of the current SyncToFence
  caller,        \* whose operation it is: a DMA of a buffer, a sync of a
                 \* thread, "present", or "nobody"
  call           \* where each thread is in VendorTransferBuffer::sync

(* History variables, for the properties only.                             *)
VARIABLES
  renewed,       \* threads in sync whose buffer got a newer fence meanwhile
  erased         \* buffers whose newer fence such a sync set to 0

deviceVars == <<HasFence, FENCE, FIFO_BUSY, REG_BUSY, mks>>
syncVars == <<target, caller>>
callVars == <<call, renewed, erased>>
vars == <<queue, deviceVars, m_next_fence, fence, tracker, pc, syncVars, callVars>>

Fences == 0..(FenceModulus - 1)

(* A thread outside of sync; one that has read a buffer's fence; one that  *)
(* is in SyncToFence, which has that fence as its target, or back from it. *)
Outside == [at |-> "outside"]
Called(b, f) == [at |-> "called", buffer |-> b, fence |-> f]
Waiting(b) == [at |-> "waiting", buffer |-> b]
Returned(b) == [at |-> "returned", buffer |-> b]

(* Commands, as far as they matter here.  "rung" marks the fence of an     *)
(* operation that goes on to ring the doorbell.                            *)
DMA(b) == [kind |-> "dma", buffer |-> b]
Present == [kind |-> "present"]
FenceCmd(f, rung) == [kind |-> "fence", value |-> f, rung |-> rung]

-----------------------------------------------------------------------------

Init ==
  /\ HasFence \in BOOLEAN
  /\ queue = <<>>
  /\ FENCE = 0
  /\ FIFO_BUSY = FALSE
  /\ REG_BUSY = FALSE
  /\ mks = "asleep"
  /\ m_next_fence = 1
  /\ fence = [b \in Buffer |-> 0]
  /\ tracker = [counter |-> 0, fences |-> [i \in 0..(Presents - 1) |-> 0]]
  /\ pc = "idle"
  /\ target = 0
  /\ caller = "nobody"
  /\ call = [t \in Thread |-> Outside]
  /\ renewed = {}
  /\ erased = {}

-----------------------------------------------------------------------------
(* SVGADevice::InsertFence *)

(* Mutant: the wrapped-around 0 is handed out. *)
NextFenceMaybe0 == m_next_fence

(* The number of the next fence: never 0, which means "no fence". *)
NextFence == IF m_next_fence = 0 THEN 1 ELSE m_next_fence

(* What InsertFence returns. *)
InsertedFence == IF HasFence THEN NextFence ELSE 1

(* m_present_tracker.after(f) *)
After(f) ==
  [counter |-> IF tracker.counter + 1 = Presents THEN 0 ELSE tracker.counter + 1,
   fences |-> [tracker.fences EXCEPT ![tracker.counter] = f]]

HasRoom == Len(queue) < QueueMax

(* The threads that are in sync of a buffer. *)
SyncsOf(b) == {t \in Thread : call[t].at # "outside" /\ call[t].buffer = b}

(* InsertFence at the end of an operation, which keeps the result. *)
InsertFence ==
  /\ pc \in {"fence", "fence_ring"}
  /\ IF HasFence
     THEN /\ HasRoom
          /\ queue' = Append(queue, FenceCmd(NextFence, pc = "fence_ring"))
          /\ m_next_fence' = (NextFence + 1) % FenceModulus
     ELSE UNCHANGED <<queue, m_next_fence>>
  /\ IF caller = "present"
     THEN tracker' = After(InsertedFence) /\ UNCHANGED <<fence, renewed, erased>>
     ELSE /\ fence' = [fence EXCEPT ![caller] = InsertedFence]
          /\ renewed' = renewed \cup SyncsOf(caller)
          /\ erased' = erased \ {caller}
          /\ UNCHANGED tracker
  /\ pc' = IF pc = "fence_ring" THEN "ring" ELSE "idle"
  /\ caller' = "nobody"
  /\ UNCHANGED <<deviceVars, target, call>>

(* A write to SVGA_REG_SYNC: BUSY is set and the device's thread woken. *)
WriteSync == REG_BUSY' = TRUE /\ mks' = "awake"

(* FIFOReserve finds no room, for a command or for a fence. *)
FIFOFull ==
  /\ pc \in {"idle", "present", "fence", "fence_ring"}
  /\ pc \in {"fence", "fence_ring"} => HasFence
  /\ ~HasRoom
  /\ WriteSync
  /\ UNCHANGED <<HasFence, queue, FENCE, FIFO_BUSY, m_next_fence, fence, tracker, pc, syncVars, callVars>>

-----------------------------------------------------------------------------
(* DMA from a transfer buffer *)

(* Submit a command; the operation goes on with InsertFence. *)
Submit(command, for, next) ==
  /\ HasRoom
  /\ queue' = Append(queue, command)
  /\ caller' = for
  /\ pc' = next
  /\ UNCHANGED <<deviceVars, m_next_fence, fence, tracker, target, callVars>>

(* VMsvga2Accel::surfaceDMA2D, surfaceDMA3DEx *)
SurfaceDMA2D(b) == pc = "idle" /\ Submit(DMA(b), b, "fence")

(* VMsvga2Accel::blitToScreen, which rings the doorbell. *)
BlitToScreen(b) == pc = "idle" /\ Submit(DMA(b), b, "fence_ring")

-----------------------------------------------------------------------------
(* SVGADevice::RingDoorBell.  FIFOInit leaves room for all FIFO registers, *)
(* so SVGA_FIFO_BUSY is always valid.                                      *)

(* Mutant: FIFO_BUSY is set but the device not woken. *)
RingDoorBellNoSync ==
  /\ pc = "ring"
  /\ pc' = "idle"
  /\ FIFO_BUSY' = TRUE
  /\ UNCHANGED <<HasFence, queue, FENCE, REG_BUSY, mks, m_next_fence, fence, tracker, syncVars, callVars>>

RingDoorBell ==
  /\ pc = "ring"
  /\ IF FIFO_BUSY
     THEN pc' = "idle" /\ UNCHANGED FIFO_BUSY
     ELSE pc' = "ring_sync" /\ FIFO_BUSY' = TRUE
  /\ UNCHANGED <<HasFence, queue, FENCE, REG_BUSY, mks, m_next_fence, fence, tracker, syncVars, callVars>>

RingDoorBellSync ==
  /\ pc = "ring_sync"
  /\ WriteSync
  /\ pc' = "idle"
  /\ UNCHANGED <<HasFence, queue, FENCE, FIFO_BUSY, m_next_fence, fence, tracker, syncVars, callVars>>

-----------------------------------------------------------------------------
(* SVGADevice::SyncToFence *)

(* Mutant: fences compared as numbers. *)
HasFencePassedUnsigned(f) == FENCE >= f

(* HasFencePassedUnguarded: the difference as a signed integer is not      *)
(* negative.                                                               *)
HasFencePassed(f) == (FENCE - f) % FenceModulus < HalfModulus

(* SyncToFence returns: surfacePresentAutoSync goes on under the lock, a   *)
(* thread in VendorTransferBuffer::sync gives it up.                       *)
SyncReturns ==
  /\ target' = 0
  /\ caller' = "nobody"
  /\ IF caller = "present"
     THEN pc' = "present" /\ UNCHANGED call
     ELSE pc' = "idle" /\ call' = [call EXCEPT ![caller] = Returned(@.buffer)]
  /\ UNCHANGED <<HasFence, queue, FENCE, FIFO_BUSY, m_next_fence, fence, tracker, renewed, erased>>

(* Nothing to wait for. *)
SyncAtOnce ==
  /\ pc = "sync"
  /\ target = 0 \/ (HasFence /\ HasFencePassed(target))
  /\ SyncReturns
  /\ UNCHANGED <<REG_BUSY, mks>>

(* Mutant: SYNC is written again and again until the fence passes, and     *)
(* BUSY is not looked at.                                                  *)
SyncStartAgain ==
  /\ pc = "sync"
  /\ target # 0
  /\ HasFence => ~HasFencePassed(target)
  /\ WriteSync
  /\ UNCHANGED <<HasFence, queue, FENCE, FIFO_BUSY, m_next_fence, fence, tracker, pc, syncVars, callVars>>

SyncStart ==
  /\ pc = "sync"
  /\ target # 0
  /\ HasFence => ~HasFencePassed(target)
  /\ WriteSync
  /\ pc' = "sync_loop"
  /\ UNCHANGED <<HasFence, queue, FENCE, FIFO_BUSY, m_next_fence, fence, tracker, syncVars, callVars>>

(* The polling loop ends when the fence has passed or BUSY reads as zero. *)
SyncEnd ==
  /\ pc = "sync_loop"
  /\ ~REG_BUSY \/ (HasFence /\ HasFencePassed(target))
  /\ SyncReturns
  /\ UNCHANGED <<REG_BUSY, mks>>

-----------------------------------------------------------------------------
(* VendorTransferBuffer::sync, which holds no lock of its own *)

(* The fence is read; it is not looked at again (a build that reads the    *)
(* member once: nothing is called between the test and the argument).      *)
SyncCalled(t, b) ==
  /\ call[t] = Outside
  /\ fence[b] # 0
  /\ call' = [call EXCEPT ![t] = Called(b, fence[b])]
  /\ UNCHANGED <<queue, deviceVars, m_next_fence, fence, tracker, pc, syncVars, renewed, erased>>

(* VMsvga2Accel::SyncToFence gets the device lock. *)
BufferSync(t) ==
  /\ pc = "idle"
  /\ call[t].at = "called"
  /\ target' = call[t].fence
  /\ caller' = t
  /\ pc' = "sync"
  /\ call' = [call EXCEPT ![t] = Waiting(@.buffer)]
  /\ UNCHANGED <<queue, deviceVars, m_next_fence, fence, tracker, renewed, erased>>

(* The fence is set to 0, whatever it is by now. *)
FenceCleared(t) ==
  /\ call[t].at = "returned"
  /\ fence' = [fence EXCEPT ![call[t].buffer] = 0]
  /\ call' = [call EXCEPT ![t] = Outside]
  /\ renewed' = renewed \ {t}
  /\ erased' = IF t \in renewed THEN erased \cup {call[t].buffer}
               ELSE erased \ {call[t].buffer}
  /\ UNCHANGED <<queue, deviceVars, m_next_fence, tracker, pc, syncVars>>

-----------------------------------------------------------------------------
(* VMsvga2Accel::surfacePresentAutoSync and FenceTracker *)

(* SyncToFence(m_present_tracker.before()) *)
PresentAutoSync ==
  /\ pc = "idle"
  /\ target' = tracker.fences[tracker.counter]
  /\ caller' = "present"
  /\ pc' = "sync"
  /\ UNCHANGED <<queue, deviceVars, m_next_fence, fence, tracker, callVars>>

(* The present itself, once SyncToFence has returned. *)
SubmitPresent == pc = "present" /\ Submit(Present, "present", "fence")

-----------------------------------------------------------------------------
(* The device: code outside this repository, modelled from svga_reg.h. *)

(* The oldest command is executed; an awake thread is bound to do so, but  *)
(* the device may also poll.                                               *)
HostExecute ==
  /\ queue # <<>>
  /\ queue' = Tail(queue)
  /\ FENCE' = IF Head(queue).kind = "fence" THEN Head(queue).value ELSE FENCE
  /\ UNCHANGED <<HasFence, FIFO_BUSY, REG_BUSY, mks, m_next_fence, fence, tracker, pc, syncVars, callVars>>

(* The FIFO is drained: BUSY reads as zero, FIFO_BUSY promises no more. *)
HostDrained ==
  /\ mks = "awake"
  /\ queue = <<>>
  /\ REG_BUSY' = FALSE
  /\ FIFO_BUSY' = FALSE
  /\ mks' = "checking"
  /\ UNCHANGED <<HasFence, queue, FENCE, m_next_fence, fence, tracker, pc, syncVars, callVars>>

(* A last look at the FIFO before the thread goes back to sleep. *)
HostSleep ==
  /\ mks = "checking"
  /\ IF queue # <<>>
     THEN mks' = "awake" /\ FIFO_BUSY' = TRUE
     ELSE mks' = "asleep" /\ UNCHANGED FIFO_BUSY
  /\ UNCHANGED <<HasFence, queue, FENCE, REG_BUSY, m_next_fence, fence, tracker, pc, syncVars, callVars>>

-----------------------------------------------------------------------------

Next ==
  \/ \E b \in Buffer : SurfaceDMA2D(b)
  \/ \E b \in Buffer : BlitToScreen(b)
  \/ \E t \in Thread, b \in Buffer : SyncCalled(t, b)
  \/ \E t \in Thread : BufferSync(t)
  \/ \E t \in Thread : FenceCleared(t)
  \/ FIFOFull
  \/ InsertFence
  \/ RingDoorBell
  \/ RingDoorBellSync
  \/ SyncAtOnce
  \/ SyncStart
  \/ SyncEnd
  \/ PresentAutoSync
  \/ SubmitPresent
  \/ HostExecute
  \/ HostDrained
  \/ HostSleep

Spec == Init /\ [][Next]_vars

(* The driver finishes the operation it is in; an awake device thread      *)
(* works.  Nobody is obliged to start another operation.                   *)
DriverGoesOn ==
  \/ RingDoorBell \/ RingDoorBellSync
  \/ SyncAtOnce \/ SyncStart \/ SyncEnd
  \/ SubmitPresent \/ InsertFence
  \/ pc # "idle" /\ FIFOFull

Fairness ==
  /\ WF_vars(DriverGoesOn)
  /\ WF_vars(mks = "awake" /\ HostExecute)
  /\ WF_vars(HostDrained)
  /\ WF_vars(HostSleep)

FairSpec == Spec /\ Fairness

-----------------------------------------------------------------------------
(* Properties *)

Pending(command) == \E i \in 1..Len(queue) : queue[i] = command

(* A transfer buffer without a fence (never used, or synced since) that no *)
(* operation is using has no DMA left in the FIFO: the driver may unmap,   *)
(* free or rewrite the memory, however the fence counter wrapped and       *)
(* however syncs and new DMA of the buffer overlap -- with the one         *)
(* exception that the unlocked "fence = 0" makes: while a sync is on its   *)
(* way the buffer got a newer fence, which that sync then set to 0, and no *)
(* fence was stored nor a later fence waited for since.                    *)
NoFenceNoDMA ==
  \A b \in Buffer : fence[b] = 0 /\ caller # b /\ b \notin erased => ~Pending(DMA(b))

(* FenceTracker<N> lets at most N presents pile up in the FIFO. *)
PresentsBounded ==
  Cardinality({i \in 1..Len(queue) : queue[i].kind = "present"}) <= Presents

(* SyncToFence always returns, even if the fence looks as if it had not    *)
(* passed (a fence older than half the modulus).                           *)
SyncReturnsEventually == pc \in {"sync", "sync_loop"} ~> pc \notin {"sync", "sync_loop"}

(* What was submitted before a RingDoorBell is executed although nobody    *)
(* ever polls for it: the device does not fall asleep on it.               *)
DoorbellHeard ==
  \A f \in Fences : Pending(FenceCmd(f, TRUE)) ~> ~Pending(FenceCmd(f, TRUE))
=============================================================================
