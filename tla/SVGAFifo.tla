------------------------------ MODULE SVGAFifo ------------------------------
(***************************************************************************)
(* The SVGA command FIFO of FB/SVGADevice.cpp: the driver's side           *)
(* (FIFOReserve, the caller filling the buffer it was given, FIFOCommit)   *)
(* and the device that reads the ring concurrently.                        *)
(*                                                                         *)
(* Sizes and ring positions count 32-bit words where the code counts       *)
(* bytes: every caller reserves whole words (FIFOReserveEscape pads), so   *)
(* the two "% sizeof(uint32_t)" tests never fire and are left out.         *)
(* Every caller holds VMsvga2::m_iolock (lockDevice) from FIFOReserve to   *)
(* FIFOCommit, so the driver is one sequential process here.               *)
(*                                                                         *)
(* FIFOInit refuses a device without SVGA_FIFO_CAP_RESERVE, so the         *)
(* branches of FIFOReserve and FIFOCommit for one are dead and left out.   *)
(***************************************************************************)
EXTENDS Integers, Sequences

CONSTANTS
  MIN, MAX,           \* the data area of the FIFO is MIN .. MAX - 1
  BOUNCE_BUFFER_SIZE, \* words in the bounce buffer
  Word,               \* the values of a word that the model tells apart
  ReserveSizes        \* the command sizes that callers ask for

ASSUME FifoAssumption ==
  /\ MIN \in Nat
  /\ MAX \in Nat
  /\ MIN < MAX
  /\ BOUNCE_BUFFER_SIZE \in Nat
  /\ Word # {}
  /\ ReserveSizes \subseteq Nat \ {0}

VARIABLES
  fifo,                   \* the ring's data area, shared with the device
  NEXT_CMD,               \* register: where the next command goes
  STOP,                   \* register: the next word the device will read
  RESERVED,               \* register: words past NEXT_CMD with real contents
  busy,                   \* register SVGA_REG_BUSY
  m_reserved_size,        \* SVGADevice member: size of the open reservation
  m_using_bounce_buffer,  \* SVGADevice member
  m_bounce_buffer,        \* SVGADevice member
  pc,                     \* where the driver is
  cmd,                    \* the command the caller is submitting
  done                    \* its words handled so far by the current loop

registers == <<NEXT_CMD, STOP, RESERVED>>
device == <<m_reserved_size, m_using_bounce_buffer>>
buffers == <<fifo, m_bounce_buffer>>
vars == <<buffers, registers, busy, device, pc, cmd, done>>

Slots == MIN..(MAX - 1)

-----------------------------------------------------------------------------
(* SVGADevice::FIFOInit.  What is in the ring and in the bounce buffer at *)
(* that point is whatever the memory held.                                *)

Init ==
  /\ fifo \in [Slots -> Word]
  /\ NEXT_CMD = MIN
  /\ STOP = MIN
  /\ RESERVED = 0
  /\ busy = FALSE
  /\ m_reserved_size = 0
  /\ m_using_bounce_buffer = FALSE
  /\ m_bounce_buffer \in [1..BOUNCE_BUFFER_SIZE -> Word]
  /\ pc = "idle"
  /\ cmd = <<>>
  /\ done = 0

-----------------------------------------------------------------------------
(* SVGADevice::FIFOReserve *)

(* The tests made once, before the loop. *)
Admitted(n) ==
  /\ n <= BOUNCE_BUFFER_SIZE
  /\ n <= MAX - MIN
  /\ m_reserved_size = 0

(* Mutant: a ring filled to the last word looks empty. *)
FitsInPlaceUpToStop(n) ==
  IF NEXT_CMD >= STOP THEN NEXT_CMD + n <= MAX ELSE NEXT_CMD + n < STOP

(* The command fits between NEXT_CMD and the end of the ring or STOP. *)
FitsInPlace(n) ==
  IF NEXT_CMD >= STOP
  THEN \/ NEXT_CMD + n < MAX
       \/ NEXT_CMD + n = MAX /\ STOP > MIN
  ELSE NEXT_CMD + n < STOP

(* Mutant: when the free words lie in the middle, the bounce buffer is     *)
(* used where there is no room at all.                                     *)
MustWaitNotInMiddle(n) ==
  /\ NEXT_CMD >= STOP
  /\ ~FitsInPlace(n)
  /\ (MAX - NEXT_CMD) + (STOP - MIN) <= n

(* The command fits nowhere until the device has read some more. *)
MustWait(n) ==
  IF NEXT_CMD >= STOP
  THEN ~FitsInPlace(n) /\ (MAX - NEXT_CMD) + (STOP - MIN) <= n
  ELSE ~FitsInPlace(n)

(* Mutant: RESERVED is never written. *)
AnnounceNothing(n) == UNCHANGED RESERVED

(* RESERVED tells the device how many words past NEXT_CMD are in use. *)
Announce(n) == RESERVED' = n

FIFOReserve(words) ==
  /\ pc = "idle"
  /\ Admitted(Len(words))
  /\ m_reserved_size' = Len(words)
  /\ cmd' = words
  /\ pc' = "reserve"
  /\ UNCHANGED <<buffers, registers, busy, m_using_bounce_buffer, done>>

(* FIFOReserve returns 0 and its caller forgets the command. *)
FIFOReserveRefused(n) ==
  /\ pc = "idle"
  /\ ~Admitted(n)
  /\ UNCHANGED vars

ReserveInPlace ==
  /\ pc = "reserve"
  /\ FitsInPlace(m_reserved_size)
  /\ m_using_bounce_buffer' = FALSE
  /\ Announce(m_reserved_size)
  /\ pc' = "fill"
  /\ UNCHANGED <<buffers, NEXT_CMD, STOP, busy, m_reserved_size, cmd, done>>

ReserveBounce ==
  /\ pc = "reserve"
  /\ ~MustWait(m_reserved_size)
  /\ ~FitsInPlace(m_reserved_size)
  /\ m_using_bounce_buffer' = TRUE
  /\ pc' = "fill"
  /\ UNCHANGED <<buffers, registers, busy, m_reserved_size, cmd, done>>

(* Mutant: the loop turns without waking the device. *)
FIFOFullNoSync ==
  /\ pc = "reserve"
  /\ MustWait(m_reserved_size)
  /\ UNCHANGED vars

(* SVGADevice::FIFOFull, and another turn of the loop. *)
FIFOFull ==
  /\ pc = "reserve"
  /\ MustWait(m_reserved_size)
  /\ busy' = TRUE
  /\ UNCHANGED <<buffers, registers, device, pc, cmd, done>>

-----------------------------------------------------------------------------
(* The caller writes its command through the pointer it was given. *)

Fill ==
  /\ pc = "fill"
  /\ done < Len(cmd)
  /\ done' = done + 1
  /\ IF m_using_bounce_buffer
     THEN /\ m_bounce_buffer' = [m_bounce_buffer EXCEPT ![done + 1] = cmd[done + 1]]
          /\ UNCHANGED fifo
     ELSE /\ fifo' = [fifo EXCEPT ![NEXT_CMD + done] = cmd[done + 1]]
          /\ UNCHANGED m_bounce_buffer
  /\ UNCHANGED <<registers, busy, device, pc, cmd>>

-----------------------------------------------------------------------------
(* SVGADevice::FIFOCommitAll, that is FIFOCommit(m_reserved_size) *)

(* Mutant: NEXT_CMD is left at the end of the ring. *)
WrapOffByOne(i) == IF i > MAX THEN i - (MAX - MIN) ELSE i

Wrap(i) == IF i >= MAX THEN i - (MAX - MIN) ELSE i

FIFOCommit ==
  /\ pc = "fill"
  /\ done = Len(cmd)
  /\ m_reserved_size' = 0
  /\ done' = 0
  /\ \/ /\ ~m_using_bounce_buffer
        /\ pc' = "publish"
        /\ UNCHANGED RESERVED
     \/ /\ m_using_bounce_buffer
        /\ Announce(Len(cmd))
        /\ pc' = "copy"
  /\ UNCHANGED <<buffers, NEXT_CMD, STOP, busy, m_using_bounce_buffer, cmd>>

(* The first memcpy: as much as fits before the end of the ring. *)
ChunkSize == IF Len(cmd) < MAX - NEXT_CMD THEN Len(cmd) ELSE MAX - NEXT_CMD

CopyChunk ==
  /\ pc = "copy"
  /\ fifo' = [i \in Slots |->
                IF i - NEXT_CMD \in 0..(ChunkSize - 1)
                THEN m_bounce_buffer[i - NEXT_CMD + 1] ELSE fifo[i]]
  /\ pc' = "copy_rest"
  /\ UNCHANGED <<m_bounce_buffer, registers, busy, device, cmd, done>>

(* The second memcpy: what is left, at the start of the ring. *)
CopyRest ==
  /\ pc = "copy_rest"
  /\ fifo' = [i \in Slots |->
                IF i - MIN < Len(cmd) - ChunkSize
                THEN m_bounce_buffer[ChunkSize + i - MIN + 1] ELSE fifo[i]]
  /\ pc' = "publish"
  /\ UNCHANGED <<m_bounce_buffer, registers, busy, device, cmd, done>>

(* NEXT_CMD moves past the command, which the device can now read. *)
PublishCommand ==
  /\ pc = "publish"
  /\ NEXT_CMD' = Wrap(NEXT_CMD + Len(cmd))
  /\ cmd' = <<>>
  /\ pc' = "unreserve"
  /\ UNCHANGED <<buffers, STOP, RESERVED, busy, device, done>>

Unreserve ==
  /\ pc = "unreserve"
  /\ Announce(0)
  /\ pc' = "idle"
  /\ UNCHANGED <<buffers, NEXT_CMD, STOP, busy, device, cmd, done>>

(* FIFOCommit(0): SVGA3D::SetShaderConst gives up a reserved command. *)
FIFOAbandon ==
  /\ pc = "fill"
  /\ m_reserved_size' = 0
  /\ Announce(0)
  /\ cmd' = <<>>
  /\ done' = 0
  /\ pc' = "idle"
  /\ UNCHANGED <<buffers, NEXT_CMD, STOP, busy, m_using_bounce_buffer>>

-----------------------------------------------------------------------------
(* SVGADevice::SyncFIFO: write SVGA_REG_SYNC, then poll SVGA_REG_BUSY. *)
SyncFIFO ==
  /\ pc = "idle"
  /\ busy' = TRUE
  /\ pc' = "sync"
  /\ UNCHANGED <<buffers, registers, device, cmd, done>>

(* Mutant: SyncFIFO does not poll. *)
SyncFIFONoPoll ==
  /\ pc = "sync"
  /\ pc' = "idle"
  /\ UNCHANGED <<buffers, registers, busy, device, cmd, done>>

SyncFIFODone ==
  /\ pc = "sync"
  /\ ~busy
  /\ pc' = "idle"
  /\ UNCHANGED <<buffers, registers, busy, device, cmd, done>>

-----------------------------------------------------------------------------
(* The device: code outside this repository, modelled from svga_reg.h. *)

(* The device reads one word; it may do so whenever there is one. *)
HostTake ==
  /\ STOP # NEXT_CMD
  /\ STOP' = IF STOP + 1 = MAX THEN MIN ELSE STOP + 1
  /\ UNCHANGED <<buffers, NEXT_CMD, RESERVED, busy, device, pc, cmd, done>>

(* BUSY reads as zero once the FIFO has been drained. *)
HostDrained ==
  /\ busy
  /\ STOP = NEXT_CMD
  /\ busy' = FALSE
  /\ UNCHANGED <<buffers, registers, device, pc, cmd, done>>

-----------------------------------------------------------------------------

ReserveLoop == ReserveInPlace \/ ReserveBounce \/ FIFOFull
CommitSteps == CopyChunk \/ CopyRest \/ PublishCommand \/ Unreserve

(* What the driver does once it has called FIFOReserve or SyncFIFO. *)
DriverStep == ReserveLoop \/ Fill \/ FIFOCommit \/ CommitSteps \/ SyncFIFODone

Next ==
  \/ \E n \in ReserveSizes : \E words \in [1..n -> Word] : FIFOReserve(words)
  \/ \E n \in ReserveSizes : FIFOReserveRefused(n)
  \/ ReserveInPlace
  \/ ReserveBounce
  \/ FIFOFull
  \/ Fill
  \/ FIFOCommit
  \/ CopyChunk
  \/ CopyRest
  \/ PublishCommand
  \/ Unreserve
  \/ FIFOAbandon
  \/ SyncFIFO
  \/ SyncFIFODone
  \/ HostTake
  \/ HostDrained

Spec == Init /\ [][Next]_vars

(***************************************************************************)
(* The driver's thread runs on; the device works off the FIFO while BUSY   *)
(* is set ("every read from this register causes us to synchronously       *)
(* process FIFO commands", svga_reg.h), and otherwise when it likes.       *)
(***************************************************************************)
Fairness ==
  /\ WF_vars(DriverStep)
  /\ WF_vars(busy /\ HostTake)
  /\ WF_vars(HostDrained)

FairSpec == Spec /\ Fairness

-----------------------------------------------------------------------------
(* Properties *)

DriverStates ==
  {"idle", "reserve", "fill", "copy", "copy_rest", "publish", "unreserve",
   "sync"}

(* Every register and member has its type; the two ring pointers stay      *)
(* inside the data area, whatever FIFOCommit adds to them.                 *)
TypeOK ==
  /\ fifo \in [Slots -> Word]
  /\ NEXT_CMD \in Slots
  /\ STOP \in Slots
  /\ RESERVED \in 0..BOUNCE_BUFFER_SIZE
  /\ busy \in BOOLEAN
  /\ m_reserved_size \in 0..BOUNCE_BUFFER_SIZE
  /\ m_using_bounce_buffer \in BOOLEAN
  /\ m_bounce_buffer \in [1..BOUNCE_BUFFER_SIZE -> Word]
  /\ pc \in DriverStates
  /\ cmd \in Seq(Word)
  /\ done \in 0..BOUNCE_BUFFER_SIZE

(* The slots the device has been told to read and has not read yet. *)
Unread ==
  {i \in Slots : IF STOP <= NEXT_CMD THEN STOP <= i /\ i < NEXT_CMD
                                     ELSE STOP <= i \/ i < NEXT_CMD}

InFlight ==
  [k \in 1..(IF STOP <= NEXT_CMD THEN NEXT_CMD - STOP
                                 ELSE NEXT_CMD - STOP + (MAX - MIN))
     |-> fifo[Wrap(STOP + k - 1)]]

(* No step of the driver (a caller filling its in-place reservation, a     *)
(* memcpy of FIFOCommit) changes a word the device has yet to read, however *)
(* far the device has moved STOP since FIFOReserve looked at it.           *)
UnreadIntact == [][\A i \in Unread : fifo'[i] = fifo[i]]_vars

(* Words the caller or FIFOCommit has put into the ring and that are not   *)
(* published yet are announced to the device in RESERVED ("bytes past      *)
(* NEXT_CMD with real contents", svga_reg.h:504), which is what lets it    *)
(* save the ring's contents at any moment.  Between two commands nothing   *)
(* is announced and no reservation is left open: an open one makes every   *)
(* later FIFOReserve fail ("FIFOReserve before FIFOCommit").               *)
ReservedCoversUnpublished ==
  /\ pc = "fill" /\ ~m_using_bounce_buffer => RESERVED >= done
  /\ pc \in {"copy_rest", "publish"} => RESERVED >= Len(cmd)
  /\ pc \in {"idle", "sync"} => m_reserved_size = 0 /\ RESERVED = 0

(* When SyncFIFO's polling loop ends, the device has read every command. *)
SyncDrains == [][pc = "sync" /\ pc' # "sync" => InFlight = <<>>]_vars

(* The device is given the commands' words in order, each once, nothing    *)
(* else, and never more of them than the ring can hold.                    *)
Queue == INSTANCE CmdQueue WITH
  Capacity <- MAX - MIN,
  queue <- InFlight

QueueSpec == Queue!Spec

(* A command smaller than the ring that FIFOReserve has admitted is        *)
(* submitted or given up: the loop around FIFOFull ends.  (A command of    *)
(* exactly MAX - MIN words is admitted too and would wait for ever.)       *)
EveryCommandEnds == Len(cmd) \in 1..(MAX - MIN - 1) ~> cmd = <<>>

-----------------------------------------------------------------------------
(* The inductive invariant behind the safety properties *)

(* n words past NEXT_CMD, cyclically, and STOP is still not reached.       *)
RoomFor(n) ==
  IF NEXT_CMD >= STOP
  THEN (MAX - NEXT_CMD) + (STOP - MIN) > n
  ELSE NEXT_CMD + n < STOP

(* The command in each state of the driver, and how far it has got.        *)
CmdInv ==
  /\ pc \in {"idle", "sync", "unreserve"} => cmd = <<>>
  /\ pc \notin {"idle", "sync", "unreserve"} =>
       /\ Len(cmd) \in 1..BOUNCE_BUFFER_SIZE
       /\ Len(cmd) <= MAX - MIN
  /\ pc \in {"reserve", "fill"} => m_reserved_size = Len(cmd)
  /\ pc \notin {"reserve", "fill"} => m_reserved_size = 0
  /\ pc = "fill" => done <= Len(cmd)
  /\ pc # "fill" => done = 0

(* The room that FIFOReserve found is there until FIFOCommit is through,   *)
(* although the device moves STOP meanwhile; an in-place reservation does  *)
(* not run over the end of the ring.                                       *)
RoomInv ==
  /\ pc \in {"fill", "copy", "copy_rest", "publish"} => RoomFor(Len(cmd))
  /\ pc = "fill" /\ ~m_using_bounce_buffer => NEXT_CMD + Len(cmd) <= MAX

(* RESERVED holds the size of what is in the ring past NEXT_CMD.           *)
ReservedInv ==
  /\ pc \in {"idle", "reserve", "sync"} => RESERVED = 0
  /\ pc = "fill" /\ ~m_using_bounce_buffer => RESERVED = Len(cmd)
  /\ pc \in {"copy", "copy_rest", "publish"} => RESERVED = Len(cmd)

(* While SyncFIFO polls nothing is submitted.                              *)
SyncInv == pc = "sync" /\ ~busy => STOP = NEXT_CMD

FifoInv == TypeOK /\ CmdInv /\ RoomInv /\ ReservedInv /\ SyncInv

=============================================================================
