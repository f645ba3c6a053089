--------------------------- MODULE SVGAFifo_proofs ---------------------------
(***************************************************************************)
(* Proofs about SVGAFifo, for every size of the ring and of the bounce     *)
(* buffer.                                                                 *)
(***************************************************************************)
EXTENDS SVGAFifo, SequenceTheorems, TLAPS

USE FifoAssumption

(* What FIFOReserve is given is a sequence of words.                       *)
LEMMA WordsAreSeq ==
  ASSUME NEW n \in Nat, NEW words \in [1..n -> Word]
  PROVE  words \in Seq(Word) /\ Len(words) = n
OBVIOUS

(* FIFOInit establishes the invariant.                                     *)
LEMMA InitFifoInv == Init => FifoInv
<1> SUFFICES ASSUME Init PROVE FifoInv
  OBVIOUS
<1>1. TypeOK
  <2>1. cmd \in Seq(Word)
    BY DEF Init
  <2>2. NEXT_CMD \in Slots /\ STOP \in Slots
    BY DEF Init, Slots
  <2>3. pc \in DriverStates
    BY DEF Init, DriverStates
  <2>4. fifo \in [Slots -> Word] /\ m_bounce_buffer \in [1..BOUNCE_BUFFER_SIZE -> Word]
    BY DEF Init
  <2>5. {RESERVED, m_reserved_size, done} \subseteq 0..BOUNCE_BUFFER_SIZE
    BY DEF Init
  <2>6. {busy, m_using_bounce_buffer} \subseteq BOOLEAN
    BY DEF Init
  <2> QED
    BY <2>1, <2>2, <2>3, <2>4, <2>5, <2>6 DEF TypeOK
<1> QED
  BY <1>1 DEF Init, FifoInv, CmdInv, RoomInv, ReservedInv, SyncInv

-----------------------------------------------------------------------------
(* One lemma per group of actions: each preserves the invariant.           *)

(* FIFOReserve and its loop: the room it finds is room past NEXT_CMD.      *)
LEMMA ReserveFifoInv ==
  ASSUME FifoInv, NEW n \in ReserveSizes, NEW words \in [1..n -> Word],
         FIFOReserve(words)
  PROVE  FifoInv'
<1>1. words \in Seq(Word) /\ Len(words) = n /\ n \in Nat \ {0}
  BY WordsAreSeq
<1> QED
  BY <1>1 DEF FIFOReserve, Admitted, buffers, registers, FifoInv, TypeOK, CmdInv,
     RoomInv, ReservedInv, SyncInv, Slots, DriverStates

LEMMA ReserveLoopFifoInv ==
  ASSUME FifoInv, ReserveLoop
  PROVE  FifoInv'
<1>1. CASE ReserveInPlace
  <2>1. Len(cmd) \in Nat /\ m_reserved_size = Len(cmd)
    BY <1>1 DEF ReserveInPlace, FifoInv, TypeOK, CmdInv
  <2>2. RoomFor(Len(cmd)) /\ NEXT_CMD + Len(cmd) <= MAX
    BY <1>1, <2>1 DEF ReserveInPlace, FitsInPlace, RoomFor, FifoInv, TypeOK, Slots
  <2>3. RoomInv'
    BY <1>1, <2>2 DEF ReserveInPlace, buffers, RoomInv, RoomFor
  <2>4. pc' \in DriverStates
    BY <1>1 DEF ReserveInPlace, DriverStates
  <2>5. TypeOK'
    BY <1>1, <2>4 DEF ReserveInPlace, Announce, buffers, FifoInv, TypeOK
  <2>6. CmdInv' /\ SyncInv'
    BY <1>1 DEF ReserveInPlace, Announce, buffers, FifoInv, CmdInv, SyncInv
  <2>7. ReservedInv'
    BY <1>1, <2>1 DEF ReserveInPlace, Announce, FifoInv, ReservedInv
  <2> QED
    BY <2>3, <2>5, <2>6, <2>7 DEF FifoInv
<1>2. CASE ReserveBounce
  <2>1. Len(cmd) \in Nat /\ m_reserved_size = Len(cmd) /\ ~MustWait(Len(cmd))
    BY <1>2 DEF ReserveBounce, FifoInv, TypeOK, CmdInv
  <2>2. RoomFor(Len(cmd))
    BY <2>1 DEF MustWait, FitsInPlace, RoomFor, FifoInv, TypeOK, Slots
  <2>3. RoomInv'
    BY <1>2, <2>2 DEF ReserveBounce, buffers, registers, RoomInv, RoomFor
  <2>4. pc' \in DriverStates
    BY <1>2 DEF ReserveBounce, DriverStates
  <2> QED
    BY <1>2, <2>1, <2>3, <2>4 DEF ReserveBounce, buffers, registers, FifoInv, TypeOK, CmdInv,
       ReservedInv, SyncInv
<1>3. CASE FIFOFull
  BY <1>3 DEF FIFOFull, buffers, registers, device, FifoInv, TypeOK, CmdInv,
     RoomInv, ReservedInv, SyncInv
<1> QED
  BY <1>1, <1>2, <1>3 DEF ReserveLoop

(* The caller writes one of the words it has reserved, into the ring or    *)
(* into the bounce buffer, inside its bounds.                              *)
LEMMA FillFifoInv ==
  ASSUME FifoInv, Fill
  PROVE  FifoInv'
<1>1. /\ cmd \in Seq(Word) /\ done \in Nat /\ done + 1 \in 1..Len(cmd)
      /\ Len(cmd) \in 1..BOUNCE_BUFFER_SIZE
  BY DEF Fill, FifoInv, TypeOK, CmdInv
<1>2. cmd[done + 1] \in Word
  BY <1>1, ElementOfSeq
<1>3. m_bounce_buffer' \in [1..BOUNCE_BUFFER_SIZE -> Word] /\ fifo' \in [Slots -> Word]
  BY <1>1, <1>2 DEF Fill, FifoInv, TypeOK
<1>4. RoomInv'
  BY DEF Fill, registers, device, FifoInv, RoomInv, RoomFor
<1> QED
  BY <1>1, <1>3, <1>4 DEF Fill, registers, device, FifoInv, TypeOK, CmdInv,
     ReservedInv, SyncInv

(* FIFOCommit: the copies stay inside the ring, and NEXT_CMD comes back    *)
(* into it.                                                                *)
LEMMA CommitFifoInv ==
  ASSUME FifoInv, FIFOCommit \/ FIFOAbandon
  PROVE  FifoInv'
<1>1. <<>> \in Seq(Word)
  OBVIOUS
<1>2. CASE FIFOCommit
  BY <1>2 DEF FIFOCommit, Announce, buffers, registers, FifoInv, TypeOK, CmdInv, RoomInv, RoomFor,
     ReservedInv, SyncInv, Slots, DriverStates
<1>3. CASE FIFOAbandon
  BY <1>1, <1>3 DEF FIFOAbandon, Announce, buffers, FifoInv, TypeOK, CmdInv, RoomInv,
     ReservedInv, SyncInv, DriverStates
<1> QED
  BY <1>2, <1>3

LEMMA ChunkBounds ==
  ASSUME FifoInv, pc \in {"copy", "copy_rest"}
  PROVE  /\ ChunkSize \in 1..Len(cmd)
         /\ NEXT_CMD + ChunkSize <= MAX
         /\ Len(cmd) <= BOUNCE_BUFFER_SIZE
BY DEF ChunkSize, FifoInv, TypeOK, CmdInv, Slots

LEMMA CopyChunkFifoInv ==
  ASSUME FifoInv, CopyChunk
  PROVE  FifoInv'
<1>1. ChunkSize \in 1..Len(cmd) /\ Len(cmd) <= BOUNCE_BUFFER_SIZE
  BY ChunkBounds DEF CopyChunk
<1>2. \A i \in Slots : i - NEXT_CMD \in 0..(ChunkSize - 1)
                         => m_bounce_buffer[i - NEXT_CMD + 1] \in Word
  BY <1>1 DEF FifoInv, TypeOK, Slots
<1>3. fifo' \in [Slots -> Word]
  BY <1>2 DEF CopyChunk, FifoInv, TypeOK
<1>4. RoomInv'
  BY DEF CopyChunk, registers, device, FifoInv, RoomInv, RoomFor
<1> QED
  BY <1>3, <1>4 DEF CopyChunk, registers, device, FifoInv, TypeOK, CmdInv,
     ReservedInv, SyncInv, DriverStates

LEMMA CopyRestFifoInv ==
  ASSUME FifoInv, CopyRest
  PROVE  FifoInv'
<1>1. ChunkSize \in 1..Len(cmd) /\ Len(cmd) <= BOUNCE_BUFFER_SIZE
  BY ChunkBounds DEF CopyRest
<1>2. \A i \in Slots : i - MIN < Len(cmd) - ChunkSize
                         => m_bounce_buffer[ChunkSize + i - MIN + 1] \in Word
  BY <1>1 DEF FifoInv, TypeOK, Slots
<1>3. fifo' \in [Slots -> Word]
  BY <1>2 DEF CopyRest, FifoInv, TypeOK
<1>4. RoomInv'
  BY DEF CopyRest, registers, device, FifoInv, RoomInv, RoomFor
<1> QED
  BY <1>3, <1>4 DEF CopyRest, registers, device, FifoInv, TypeOK, CmdInv,
     ReservedInv, SyncInv, DriverStates

LEMMA PublishFifoInv ==
  ASSUME FifoInv, PublishCommand \/ Unreserve
  PROVE  FifoInv'
<1>1. <<>> \in Seq(Word)
  OBVIOUS
<1>2. CASE PublishCommand
  BY <1>1, <1>2 DEF PublishCommand, Wrap, buffers, device, FifoInv, TypeOK, CmdInv,
     RoomInv, ReservedInv, SyncInv, Slots, DriverStates
<1>3. CASE Unreserve
  BY <1>3 DEF Unreserve, Announce, buffers, device, FifoInv, TypeOK, CmdInv, RoomInv,
     ReservedInv, SyncInv, DriverStates
<1> QED
  BY <1>2, <1>3

(* SyncFIFO, and the device: reading words only makes more room.           *)
LEMMA SyncFifoInv ==
  ASSUME FifoInv, SyncFIFO \/ SyncFIFODone
  PROVE  FifoInv'
BY DEF SyncFIFO, SyncFIFODone, buffers, registers, device, FifoInv, TypeOK, CmdInv,
   RoomInv, ReservedInv, SyncInv, DriverStates

LEMMA HostFifoInv ==
  ASSUME FifoInv, HostTake \/ HostDrained
  PROVE  FifoInv'
<1>1. CASE HostTake
  <2>1. STOP' \in Slots
    BY <1>1 DEF HostTake, FifoInv, TypeOK, Slots
  <2>2. \A n \in Nat : RoomFor(n) => RoomFor(n)'
    BY <1>1, <2>1 DEF HostTake, FifoInv, TypeOK, Slots, RoomFor
  <2>3. RoomInv'
    BY <1>1, <2>2 DEF HostTake, buffers, device, FifoInv, TypeOK, CmdInv, RoomInv
  <2> QED
    BY <1>1, <2>1, <2>3 DEF HostTake, buffers, device, FifoInv, TypeOK, CmdInv,
       ReservedInv, SyncInv
<1>2. CASE HostDrained
  BY <1>2 DEF HostDrained, buffers, registers, device, FifoInv, TypeOK, CmdInv,
     RoomInv, RoomFor, ReservedInv, SyncInv
<1> QED
  BY <1>1, <1>2

(* Every step preserves the invariant.                                     *)
LEMMA NextFifoInv == FifoInv /\ [Next]_vars => FifoInv'
<1> SUFFICES ASSUME FifoInv, [Next]_vars PROVE FifoInv'
  OBVIOUS
<1>1. CASE UNCHANGED vars
  BY <1>1 DEF vars, buffers, registers, device, FifoInv, TypeOK, CmdInv, RoomInv,
     RoomFor, ReservedInv, SyncInv
<1>2. CASE \E n \in ReserveSizes : FIFOReserveRefused(n)
  BY <1>1, <1>2 DEF FIFOReserveRefused
<1>3. CASE \E n \in ReserveSizes : \E words \in [1..n -> Word] : FIFOReserve(words)
  BY <1>3, ReserveFifoInv
<1>4. CASE ReserveInPlace \/ ReserveBounce \/ FIFOFull
  BY <1>4, ReserveLoopFifoInv DEF ReserveLoop
<1>5. CASE CopyChunk \/ CopyRest
  BY <1>5, CopyChunkFifoInv, CopyRestFifoInv
<1> QED
  BY <1>1, <1>2, <1>3, <1>4, <1>5, FillFifoInv, CommitFifoInv, PublishFifoInv,
     SyncFifoInv, HostFifoInv DEF Next

-----------------------------------------------------------------------------

(* What FIFOReserve promises holds until FIFOCommit is through: the room   *)
(* for the command, and what the members and registers say about it.       *)
THEOREM FifoInvariant == Spec => []FifoInv
BY InitFifoInv, NextFifoInv, PTL DEF Spec

(* The registers and members always have their type; NEXT_CMD and STOP     *)
(* stay inside the ring.                                                   *)
THEOREM TypeCorrect == Spec => []TypeOK
<1>1. FifoInv => TypeOK
  BY DEF FifoInv
<1> QED
  BY <1>1, FifoInvariant, PTL

(* RESERVED announces every word that is in the ring and not published,    *)
(* and no reservation stays open when an operation of the driver is over.  *)
THEOREM ReservedCovers == Spec => []ReservedCoversUnpublished
<1>1. FifoInv => ReservedCoversUnpublished
  BY DEF FifoInv, TypeOK, CmdInv, ReservedInv, ReservedCoversUnpublished
<1> QED
  BY <1>1, FifoInvariant, PTL

-----------------------------------------------------------------------------
(* Steps *)

(* The n words from NEXT_CMD on are none of those the device has yet to    *)
(* read when there is room for n; nor, when they run over the end of the   *)
(* ring, are those at its start where they go on.                          *)
LEMMA RoomIsFree ==
  ASSUME FifoInv, NEW n \in Nat, RoomFor(n), NEW i \in Unread
  PROVE  /\ i - NEXT_CMD \notin 0..(n - 1)
         /\ \A c \in Int : NEXT_CMD + c = MAX => i - MIN >= n - c
BY DEF FifoInv, TypeOK, Slots, RoomFor, Unread

(* No step of the driver or of the device changes an unread word.          *)
LEMMA StepUnreadIntact ==
  ASSUME FifoInv, [Next]_vars, NEW i \in Unread
  PROVE  fifo'[i] = fifo[i]
<1>1. i \in Slots /\ NEXT_CMD \in Slots /\ fifo \in [Slots -> Word]
  BY DEF Unread, FifoInv, TypeOK
<1>2. pc = "fill" \/ pc = "copy" \/ pc = "copy_rest" =>
        Len(cmd) \in Nat \ {0} /\ RoomFor(Len(cmd))
  BY DEF FifoInv, TypeOK, CmdInv, RoomInv
<1>3. CASE Fill
  <2>1. CASE m_using_bounce_buffer
    BY <1>3, <2>1 DEF Fill
  <2>2. CASE ~m_using_bounce_buffer
    <3>1. done \in Nat /\ done < Len(cmd)
      BY <1>3 DEF Fill, FifoInv, TypeOK
    <3>2. i # NEXT_CMD + done
      <4>1. i - NEXT_CMD \notin 0..(Len(cmd) - 1)
        BY <1>2, <1>3, RoomIsFree DEF Fill
      <4> QED
        BY <1>1, <1>2, <1>3, <3>1, <4>1 DEF Fill, Slots
    <3> QED
      BY <1>1, <1>3, <2>2, <3>2 DEF Fill
  <2> QED
    BY <2>1, <2>2
<1>4. CASE CopyChunk
  <2>1. i - NEXT_CMD \notin 0..(Len(cmd) - 1)
    BY <1>2, <1>4, RoomIsFree DEF CopyChunk
  <2>2. ChunkSize \in 1..Len(cmd)
    BY <1>4, ChunkBounds DEF CopyChunk
  <2>3. i - NEXT_CMD \notin 0..(ChunkSize - 1)
    BY <1>1, <1>2, <1>4, <2>1, <2>2 DEF CopyChunk, Slots
  <2> QED
    BY <1>1, <1>4, <2>3 DEF CopyChunk
<1>5. CASE CopyRest
  <2>1. ~(i - MIN < Len(cmd) - ChunkSize)
    <3>1. CASE ChunkSize = Len(cmd)
      BY <1>1, <1>2, <1>5, <3>1 DEF CopyRest, Slots
    <3>2. CASE ChunkSize # Len(cmd)
      <4>1. ChunkSize \in Int /\ NEXT_CMD + ChunkSize = MAX
        BY <1>1, <1>2, <1>5, <3>2 DEF CopyRest, ChunkSize, Slots
      <4>2. i - MIN >= Len(cmd) - ChunkSize
        BY <1>2, <1>5, <4>1, RoomIsFree DEF CopyRest
      <4> QED
        BY <1>1, <1>2, <1>5, <4>1, <4>2 DEF CopyRest, Slots
    <3> QED
      BY <3>1, <3>2
  <2> QED
    BY <1>1, <1>5, <2>1 DEF CopyRest
<1>6. ASSUME ~Fill, ~CopyChunk, ~CopyRest PROVE fifo' = fifo
  BY <1>6 DEF Next, FIFOReserve, FIFOReserveRefused, ReserveInPlace, ReserveBounce,
     FIFOFull, FIFOCommit, PublishCommand, Unreserve, FIFOAbandon, SyncFIFO,
     SyncFIFODone, HostTake, HostDrained, buffers, vars
<1> QED
  BY <1>3, <1>4, <1>5, <1>6

(* A command in preparation never overwrites one the device has yet to     *)
(* read.                                                                   *)
THEOREM NoOverwrite == Spec => UnreadIntact
<1>1. FifoInv /\ [Next]_vars => [\A i \in Unread : fifo'[i] = fifo[i]]_vars
  BY StepUnreadIntact
<1> QED
  BY <1>1, FifoInvariant, PTL DEF Spec, UnreadIntact

(* SyncFIFO returns only when the device has read every command.           *)
THEOREM SyncMeansDrained == Spec => SyncDrains
<1>1. FifoInv /\ [Next]_vars => [pc = "sync" /\ pc' # "sync" => InFlight = <<>>]_vars
  <2> SUFFICES ASSUME FifoInv, Next, pc = "sync", pc' # "sync"
               PROVE  InFlight = <<>>
    BY DEF vars
  <2>1. SyncFIFODone
    BY DEF Next, FIFOReserve, FIFOReserveRefused, ReserveInPlace, ReserveBounce,
       FIFOFull, Fill, FIFOCommit, CopyChunk, CopyRest, PublishCommand,
       Unreserve, FIFOAbandon, SyncFIFO, HostTake, HostDrained, vars
  <2>2. STOP = NEXT_CMD /\ STOP \in Int
    BY <2>1 DEF SyncFIFODone, FifoInv, TypeOK, SyncInv, Slots
  <2> QED
    BY <2>2 DEF InFlight
<1> QED
  BY <1>1, FifoInvariant, PTL DEF Spec, SyncDrains

-----------------------------------------------------------------------------
(* The ring implements the queue of CmdQueue *)

(* The first n words of the command are where the device will find them,   *)
(* or wait in the bounce buffer.                                           *)
InRing(n) == \A k \in 1..n : fifo[Wrap(NEXT_CMD + k - 1)] = cmd[k]
InBounce(n) == \A k \in 1..n : m_bounce_buffer[k] = cmd[k]

(* Where the words of the command are, up to the moment it is published.   *)
DataInv ==
  /\ pc = "fill" => (m_using_bounce_buffer => InBounce(done))
  /\ pc = "fill" => (~m_using_bounce_buffer => InRing(done))
  /\ pc \in {"copy", "copy_rest"} => InBounce(Len(cmd))
  /\ pc = "copy_rest" => InRing(ChunkSize)
  /\ pc = "publish" => InRing(Len(cmd))

(* The caller's next word joins those before it.                           *)
LEMMA FillData ==
  ASSUME FifoInv, DataInv, Fill
  PROVE  DataInv'
<1>1. /\ cmd \in Seq(Word) /\ done \in Nat /\ done < Len(cmd) /\ Len(cmd) <= BOUNCE_BUFFER_SIZE
      /\ NEXT_CMD \in Slots /\ pc = "fill"
      /\ fifo \in [Slots -> Word] /\ m_bounce_buffer \in [1..BOUNCE_BUFFER_SIZE -> Word]
      /\ done' = done + 1 /\ UNCHANGED <<registers, device, pc, cmd>>
  BY DEF Fill, FifoInv, TypeOK, CmdInv
<1>2. CASE m_using_bounce_buffer
  <2>1. m_bounce_buffer' = [m_bounce_buffer EXCEPT ![done + 1] = cmd[done + 1]]
    BY <1>2 DEF Fill
  <2>2. InBounce(done)
    BY <1>1, <1>2 DEF DataInv
  <2>3. \A k \in 1..(done + 1) : m_bounce_buffer'[k] = cmd[k]
    BY <1>1, <2>1, <2>2 DEF InBounce
  <2> QED
    BY <1>1, <1>2, <2>3 DEF DataInv, InBounce, device
<1>3. CASE ~m_using_bounce_buffer
  <2>1. fifo' = [fifo EXCEPT ![NEXT_CMD + done] = cmd[done + 1]]
    BY <1>3 DEF Fill
  <2>2. InRing(done)
    BY <1>1, <1>3 DEF DataInv
  <2>3. NEXT_CMD + Len(cmd) <= MAX
    BY <1>1, <1>3 DEF FifoInv, RoomInv
  <2>4. \A k \in 1..(done + 1) : Wrap(NEXT_CMD + k - 1) = NEXT_CMD + k - 1 /\ NEXT_CMD + k - 1 \in Slots
    BY <1>1, <2>3 DEF Wrap, Slots
  <2>5. \A k \in 1..(done + 1) : fifo'[NEXT_CMD + k - 1] = cmd[k]
    <3> SUFFICES ASSUME NEW k \in 1..(done + 1)
                 PROVE  fifo'[NEXT_CMD + k - 1] = cmd[k]
      OBVIOUS
    <3>1. CASE k = done + 1
      <4>1. NEXT_CMD + done \in Slots /\ NEXT_CMD + k - 1 = NEXT_CMD + done
        BY <1>1, <2>3, <3>1 DEF Slots
      <4> QED
        BY <1>1, <2>1, <3>1, <4>1
    <3>2. CASE k # done + 1
      <4>1. k \in 1..done /\ NEXT_CMD + k - 1 # NEXT_CMD + done
        BY <1>1, <3>2 DEF Slots
      <4> QED
        BY <1>1, <2>1, <2>2, <2>4, <4>1 DEF InRing
    <3> QED
      BY <3>1, <3>2
  <2>6. \A k \in 1..(done + 1) : fifo'[Wrap(NEXT_CMD + k - 1)] = cmd[k]
    BY <2>4, <2>5
  <2> QED
    BY <1>1, <1>3, <2>6 DEF DataInv, InRing, device, registers, Wrap
<1> QED
  BY <1>2, <1>3

(* The two copies of FIFOCommit put the command together again.            *)
LEMMA CopyData ==
  ASSUME FifoInv, DataInv, CopyChunk \/ CopyRest
  PROVE  DataInv'
<1>1. /\ cmd \in Seq(Word) /\ Len(cmd) \in Nat /\ NEXT_CMD \in Slots
      /\ fifo \in [Slots -> Word]
      /\ UNCHANGED <<m_bounce_buffer, registers, device, cmd>>
  BY DEF CopyChunk, CopyRest, FifoInv, TypeOK
<1>2. /\ ChunkSize \in 1..Len(cmd) /\ NEXT_CMD + ChunkSize <= MAX
      /\ InBounce(Len(cmd))
      /\ Len(cmd) < MAX - MIN
  <2>1. pc \in {"copy", "copy_rest"}
    BY DEF CopyChunk, CopyRest
  <2>2. Len(cmd) < MAX - MIN
    BY <1>1, <2>1 DEF FifoInv, TypeOK, RoomInv, RoomFor, Slots
  <2> QED
    BY <2>1, <2>2, ChunkBounds DEF DataInv
<1>3. ChunkSize' = ChunkSize
  BY <1>1 DEF ChunkSize, registers
<1>4. CASE CopyChunk
  <2>1. pc' = "copy_rest"
    BY <1>4 DEF CopyChunk
  <2>2. \A k \in 1..ChunkSize : fifo'[Wrap(NEXT_CMD + k - 1)] = cmd[k]
    <3> SUFFICES ASSUME NEW k \in 1..ChunkSize
                 PROVE  fifo'[Wrap(NEXT_CMD + k - 1)] = cmd[k]
      OBVIOUS
    <3>1. Wrap(NEXT_CMD + k - 1) = NEXT_CMD + k - 1 /\ NEXT_CMD + k - 1 \in Slots
      BY <1>1, <1>2 DEF Wrap, Slots
    <3>2. (NEXT_CMD + k - 1) - NEXT_CMD \in 0..(ChunkSize - 1)
          /\ (NEXT_CMD + k - 1) - NEXT_CMD + 1 = k
      BY <1>1, <1>2 DEF Slots
    <3>3. fifo'[NEXT_CMD + k - 1] = m_bounce_buffer[k]
      BY <1>4, <3>1, <3>2 DEF CopyChunk
    <3>4. k \in 1..Len(cmd)
      BY <1>1, <1>2
    <3> QED
      BY <1>2, <3>1, <3>3, <3>4 DEF InBounce
  <2> QED
    BY <1>1, <1>2, <1>3, <2>1, <2>2 DEF DataInv, InBounce, InRing, registers, Wrap
<1>5. CASE CopyRest
  <2>1. pc = "copy_rest" /\ pc' = "publish" /\ InRing(ChunkSize)
    BY <1>5 DEF CopyRest, DataInv
  <2>2. \A k \in 1..Len(cmd) : fifo'[Wrap(NEXT_CMD + k - 1)] = cmd[k]
    <3> SUFFICES ASSUME NEW k \in 1..Len(cmd)
                 PROVE  fifo'[Wrap(NEXT_CMD + k - 1)] = cmd[k]
      OBVIOUS
    <3>1. CASE k <= ChunkSize
      <4>1. Wrap(NEXT_CMD + k - 1) = NEXT_CMD + k - 1 /\ NEXT_CMD + k - 1 \in Slots
        BY <1>1, <1>2, <3>1 DEF Wrap, Slots
      <4>2. ~((NEXT_CMD + k - 1) - MIN < Len(cmd) - ChunkSize)
        <5>1. ChunkSize = Len(cmd) \/ ChunkSize = MAX - NEXT_CMD
          BY DEF ChunkSize
        <5> QED
          BY <1>1, <1>2, <5>1 DEF Slots
      <4>3. fifo'[NEXT_CMD + k - 1] = fifo[NEXT_CMD + k - 1]
        BY <1>5, <4>1, <4>2 DEF CopyRest
      <4> QED
        BY <1>2, <2>1, <3>1, <4>1, <4>3 DEF InRing
    <3>2. CASE ~(k <= ChunkSize)
      <4>1. ChunkSize = MAX - NEXT_CMD
        BY <1>1, <1>2, <3>2 DEF ChunkSize, Slots
      <4> DEFINE i == MIN + (k - 1 - ChunkSize)
      <4>2. /\ Wrap(NEXT_CMD + k - 1) = i /\ i \in Slots
            /\ i - MIN < Len(cmd) - ChunkSize /\ ChunkSize + i - MIN + 1 = k
        BY <1>1, <1>2, <3>2, <4>1 DEF Wrap, Slots
      <4> HIDE DEF i
      <4>3. fifo'[i] = m_bounce_buffer[k]
        BY <1>5, <4>2 DEF CopyRest
      <4> QED
        BY <1>2, <4>2, <4>3 DEF InBounce
    <3> QED
      BY <3>1, <3>2
  <2> QED
    BY <1>1, <2>1, <2>2 DEF DataInv, InRing, registers, Wrap
<1> QED
  BY <1>4, <1>5

(* The other steps touch neither the words of the command nor NEXT_CMD     *)
(* while there is one.                                                     *)
LEMMA NextData ==
  ASSUME FifoInv, DataInv, [Next]_vars
  PROVE  DataInv'
<1>1. CASE Fill \/ CopyChunk \/ CopyRest
  BY <1>1, FillData, CopyData
<1>2. CASE UNCHANGED vars \/ HostTake \/ HostDrained \/ \E n \in ReserveSizes : FIFOReserveRefused(n)
  <2>1. UNCHANGED <<buffers, NEXT_CMD, m_using_bounce_buffer, pc, cmd, done>>
    BY <1>2 DEF vars, registers, device, HostTake, HostDrained, FIFOReserveRefused
  <2> QED
    BY <2>1 DEF DataInv, InRing, InBounce, ChunkSize, Wrap, buffers
<1>3. CASE \/ \E n \in ReserveSizes : \E words \in [1..n -> Word] : FIFOReserve(words)
           \/ FIFOFull \/ PublishCommand \/ Unreserve \/ FIFOAbandon \/ SyncFIFO \/ SyncFIFODone
  <2>1. pc' \notin {"fill", "copy", "copy_rest", "publish"}
    BY <1>3 DEF FIFOReserve, FIFOFull, PublishCommand, Unreserve, FIFOAbandon, SyncFIFO, SyncFIFODone
  <2> QED
    BY <2>1 DEF DataInv
<1>4. CASE ReserveInPlace \/ ReserveBounce
  <2>1. pc' = "fill" /\ done' = 0
    BY <1>4 DEF ReserveInPlace, ReserveBounce, FifoInv, CmdInv
  <2> QED
    BY <2>1 DEF DataInv, InRing, InBounce
<1>5. CASE FIFOCommit
  <2>1. UNCHANGED <<fifo, m_bounce_buffer, NEXT_CMD, m_using_bounce_buffer, cmd>>
        /\ pc = "fill" /\ done = Len(cmd)
    BY <1>5 DEF FIFOCommit, buffers
  <2>2. CASE m_using_bounce_buffer
    <3>1. pc' = "copy" /\ InBounce(Len(cmd))
      BY <1>5, <2>1, <2>2 DEF FIFOCommit, DataInv
    <3> QED
      BY <2>1, <3>1 DEF DataInv, InBounce
  <2>3. CASE ~m_using_bounce_buffer
    <3>1. pc' = "publish" /\ InRing(Len(cmd))
      BY <1>5, <2>1, <2>3 DEF FIFOCommit, DataInv
    <3> QED
      BY <2>1, <3>1 DEF DataInv, InRing, Wrap
  <2> QED
    BY <2>2, <2>3
<1> QED
  BY <1>1, <1>2, <1>3, <1>4, <1>5 DEF Next

LEMMA SeqIsFunction ==
  ASSUME NEW S, NEW s \in Seq(S)
  PROVE  s = [k \in 1..Len(s) |-> s[k]]
BY LenProperties

(* The number of words in flight.                                          *)
Behind == IF STOP <= NEXT_CMD THEN NEXT_CMD - STOP ELSE NEXT_CMD - STOP + (MAX - MIN)

LEMMA InFlightIs ==
  ASSUME FifoInv
  PROVE  /\ Behind \in 0..(MAX - MIN - 1)
         /\ InFlight \in Seq(Word) /\ Len(InFlight) = Behind
         /\ \A k \in 1..Behind : /\ InFlight[k] = fifo[Wrap(STOP + k - 1)]
                                 /\ Wrap(STOP + k - 1) \in Unread
<1>1. /\ STOP \in Slots /\ NEXT_CMD \in Slots /\ fifo \in [Slots -> Word]
  BY DEF FifoInv, TypeOK
<1>2. Behind \in 0..(MAX - MIN - 1)
  BY <1>1 DEF Behind, Slots
<1>3. InFlight = [k \in 1..Behind |-> fifo[Wrap(STOP + k - 1)]]
  BY DEF InFlight, Behind
<1>4. \A k \in 1..Behind : Wrap(STOP + k - 1) \in Unread
  BY <1>1 DEF Behind, Wrap, Unread, Slots
<1>5. \A k \in 1..Behind : fifo[Wrap(STOP + k - 1)] \in Word
  BY <1>1, <1>4 DEF Unread
<1> HIDE DEF InFlight, Behind
<1>6. InFlight \in [1..Behind -> Word]
  BY <1>3, <1>5
<1> QED
  BY <1>2, <1>3, <1>4, <1>6

(* Words in flight change only when NEXT_CMD or STOP moves.                *)
LEMMA InFlightStays ==
  ASSUME FifoInv, FifoInv', [Next]_vars, UNCHANGED <<NEXT_CMD, STOP>>
  PROVE  InFlight' = InFlight
<1>1. \A i \in Unread : fifo'[i] = fifo[i]
  BY StepUnreadIntact
<1>2. \A k \in 1..Behind : Wrap(STOP + k - 1) \in Unread
  BY InFlightIs
<1>3. InFlight = [k \in 1..Behind |-> fifo[Wrap(STOP + k - 1)]]
  BY DEF InFlight, Behind
<1>4. InFlight' = [k \in 1..Behind |-> fifo'[Wrap(STOP + k - 1)]]
  BY DEF InFlight, Behind, Wrap
<1> QED
  BY <1>1, <1>2, <1>3, <1>4

(* PublishCommand puts the command's words behind those in flight.         *)
LEMMA PublishAppends ==
  ASSUME FifoInv, FifoInv', DataInv, PublishCommand
  PROVE  /\ InFlight' = InFlight \o cmd
         /\ cmd # <<>> /\ cmd' = <<>>
         /\ Len(InFlight) + Len(cmd) < MAX - MIN
<1>1. /\ STOP \in Slots /\ NEXT_CMD \in Slots /\ cmd \in Seq(Word) /\ Len(cmd) \in Nat \ {0}
      /\ RoomFor(Len(cmd)) /\ InRing(Len(cmd))
      /\ NEXT_CMD' = Wrap(NEXT_CMD + Len(cmd)) /\ cmd' = <<>>
      /\ STOP' = STOP /\ fifo' = fifo
  BY DEF PublishCommand, FifoInv, TypeOK, CmdInv, RoomInv, DataInv, buffers
<1>2. Behind + Len(cmd) < MAX - MIN
  BY <1>1 DEF RoomFor, Behind, Slots
<1>3. Behind' = Behind + Len(cmd)
  BY <1>1 DEF RoomFor, Behind, Wrap, Slots
<1>4. /\ InFlight \in Seq(Word) /\ Len(InFlight) = Behind /\ Behind \in Nat
      /\ \A k \in 1..Behind : InFlight[k] = fifo[Wrap(STOP + k - 1)]
  BY InFlightIs
<1>5. InFlight' = [k \in 1..(Behind + Len(cmd)) |-> fifo[Wrap(STOP + k - 1)]]
  <2>1. InFlight' = [k \in 1..Behind' |-> fifo'[Wrap(STOP' + k - 1)]]
    BY DEF InFlight, Behind, Wrap
  <2> QED
    BY <1>1, <1>3, <2>1
<1>6. \A k \in (Behind + 1)..(Behind + Len(cmd)) :
        /\ Wrap(STOP + k - 1) = Wrap(NEXT_CMD + (k - Behind) - 1)
        /\ k - Behind \in 1..Len(cmd)
  <2>1. CASE STOP <= NEXT_CMD
    <3>1. Behind = NEXT_CMD - STOP
      BY <2>1 DEF Behind
    <3> QED
      BY <1>1, <3>1 DEF Slots
  <2>2. CASE ~(STOP <= NEXT_CMD)
    <3>1. Behind = NEXT_CMD - STOP + (MAX - MIN)
      BY <2>2 DEF Behind
    <3> QED
      BY <1>1, <1>2, <2>2, <3>1 DEF Wrap, Slots
  <2> QED
    BY <2>1, <2>2
<1>7. InFlight \o cmd = [k \in 1..(Behind + Len(cmd)) |->
                           IF k <= Behind THEN InFlight[k] ELSE cmd[k - Behind]]
  <2>1. /\ InFlight \o cmd \in Seq(Word) /\ Len(InFlight \o cmd) = Behind + Len(cmd)
        /\ \A k \in 1..(Behind + Len(cmd)) :
             (InFlight \o cmd)[k] = IF k <= Behind THEN InFlight[k] ELSE cmd[k - Behind]
    BY <1>1, <1>4, ConcatProperties
  <2> QED
    BY <2>1, SeqIsFunction
<1>8. \A k \in 1..(Behind + Len(cmd)) :
        fifo[Wrap(STOP + k - 1)] = IF k <= Behind THEN InFlight[k] ELSE cmd[k - Behind]
  <2> SUFFICES ASSUME NEW k \in 1..(Behind + Len(cmd))
               PROVE  fifo[Wrap(STOP + k - 1)] = IF k <= Behind THEN InFlight[k] ELSE cmd[k - Behind]
    OBVIOUS
  <2>1. CASE k <= Behind
    BY <1>4, <2>1
  <2>2. CASE ~(k <= Behind)
    <3>1. k \in (Behind + 1)..(Behind + Len(cmd))
      BY <1>1, <1>4, <2>2
    <3>2. fifo[Wrap(NEXT_CMD + (k - Behind) - 1)] = cmd[k - Behind]
      BY <1>1, <1>6, <3>1 DEF InRing
    <3> QED
      BY <1>6, <2>2, <3>1, <3>2
  <2> QED
    BY <2>1, <2>2
<1> QED
  BY <1>1, <1>2, <1>4, <1>5, <1>7, <1>8

(* The device takes the oldest word.                                       *)
LEMMA HostTakesFirst ==
  ASSUME FifoInv, HostTake
  PROVE  InFlight # <<>> /\ InFlight' = Tail(InFlight)
<1>1. /\ STOP \in Slots /\ NEXT_CMD \in Slots /\ STOP # NEXT_CMD
      /\ STOP' = (IF STOP + 1 = MAX THEN MIN ELSE STOP + 1)
      /\ NEXT_CMD' = NEXT_CMD /\ fifo' = fifo
  BY DEF HostTake, FifoInv, TypeOK, buffers
<1>2. Behind \in Nat \ {0} /\ Behind' = Behind - 1
  BY <1>1 DEF Behind, Slots
<1>3. InFlight \in Seq(Word) /\ Len(InFlight) = Behind
  BY InFlightIs
<1>4. InFlight = [k \in 1..Behind |-> fifo[Wrap(STOP + k - 1)]]
  BY DEF InFlight, Behind
<1>5. InFlight' = [k \in 1..(Behind - 1) |-> fifo[Wrap(STOP' + k - 1)]]
  <2>1. InFlight' = [k \in 1..Behind' |-> fifo'[Wrap(STOP' + k - 1)]]
    BY DEF InFlight, Behind, Wrap
  <2> QED
    BY <1>1, <1>2, <2>1
<1>6. \A k \in 1..(Behind - 1) : Wrap(STOP' + k - 1) = Wrap(STOP + (k + 1) - 1)
  BY <1>1 DEF Behind, Wrap, Slots
<1>7. Tail(InFlight) = [k \in 1..(Behind - 1) |-> InFlight[k + 1]]
  <2>1. InFlight # <<>>
    BY <1>2, <1>3
  <2>2. /\ Tail(InFlight) \in Seq(Word) /\ Len(Tail(InFlight)) = Behind - 1
        /\ \A k \in 1..(Behind - 1) : Tail(InFlight)[k] = InFlight[k + 1]
    BY <1>3, <2>1, HeadTailProperties
  <2> QED
    BY <2>2, SeqIsFunction
<1>8. \A k \in 1..(Behind - 1) : InFlight[k + 1] = fifo[Wrap(STOP + (k + 1) - 1)]
  BY <1>2, <1>4
<1> QED
  BY <1>2, <1>3, <1>5, <1>6, <1>7, <1>8

(* Each step of the ring is a step of the queue, or the queue does not     *)
(* notice it.                                                              *)
LEMMA StepOfQueue ==
  ASSUME FifoInv, FifoInv', DataInv, [Next]_vars
  PROVE  [Queue!Next]_(Queue!vars)
<1>1. CASE HostTake
  <2>1. InFlight # <<>> /\ InFlight' = Tail(InFlight) /\ cmd' = cmd
    BY <1>1, HostTakesFirst DEF HostTake
  <2> QED
    BY <2>1 DEF Queue!Next, Queue!Take
<1>2. CASE PublishCommand
  BY <1>2, PublishAppends DEF Queue!Next, Queue!Publish
<1>3. ASSUME ~HostTake, ~PublishCommand
      PROVE  InFlight' = InFlight
  <2>1. UNCHANGED <<NEXT_CMD, STOP>>
    BY <1>3 DEF Next, FIFOReserve, FIFOReserveRefused, ReserveInPlace, ReserveBounce,
       FIFOFull, Fill, FIFOCommit, CopyChunk, CopyRest, Unreserve, FIFOAbandon, SyncFIFO,
       SyncFIFODone, HostDrained, vars, registers, Announce
  <2> QED
    BY <2>1, InFlightStays
<1>4. CASE \E n \in ReserveSizes : \E words \in [1..n -> Word] : FIFOReserve(words)
  <2>1. PICK n \in ReserveSizes : \E words \in [1..n -> Word] : FIFOReserve(words)
    BY <1>4
  <2>2. PICK words \in [1..n -> Word] : FIFOReserve(words)
    BY <2>1
  <2>3. words \in Seq(Word) /\ Len(words) # 0
    BY WordsAreSeq
  <2>4. cmd = <<>> /\ cmd' = words /\ ~HostTake /\ ~PublishCommand
    BY <2>2 DEF FIFOReserve, FifoInv, CmdInv, HostTake, PublishCommand
  <2> QED
    BY <1>3, <2>3, <2>4 DEF Queue!Next, Queue!Begin
<1>5. CASE FIFOAbandon
  <2>1. cmd # <<>> /\ cmd' = <<>>
    BY <1>5 DEF FIFOAbandon, FifoInv, CmdInv
  <2>2. InFlight' = InFlight
    BY <1>3, <1>5 DEF FIFOAbandon, HostTake, PublishCommand
  <2> QED
    BY <2>1, <2>2 DEF Queue!Next, Queue!Drop
<1>6. CASE /\ ~HostTake /\ ~PublishCommand /\ ~FIFOAbandon
           /\ ~\E n \in ReserveSizes : \E words \in [1..n -> Word] : FIFOReserve(words)
  <2>1. cmd' = cmd
    BY <1>6 DEF Next, FIFOReserveRefused, ReserveInPlace, ReserveBounce,
       FIFOFull, Fill, FIFOCommit, CopyChunk, CopyRest, Unreserve, SyncFIFO,
       SyncFIFODone, HostDrained, vars
  <2> QED
    BY <1>3, <1>6, <2>1 DEF Queue!vars
<1> QED
  BY <1>1, <1>2, <1>4, <1>5, <1>6

(* The ring, its bounce buffer and its two registers are the queue that    *)
(* CmdQueue describes: the device gets the words of every command that is  *)
(* committed, in order and each once, and nothing of one given up.         *)
THEOREM FifoImplementsQueue == Spec => QueueSpec
<1>1. Init => DataInv
  BY DEF Init, DataInv
<1>2. Init => Queue!Init
  <2> SUFFICES ASSUME Init
               PROVE  Queue!Init
    OBVIOUS
  <2>1. Behind = 0
    BY DEF Init, Behind
  <2>2. FifoInv
    BY InitFifoInv
  <2>3. InFlight = <<>>
    BY <2>1, <2>2, InFlightIs
  <2> QED
    BY <2>3 DEF Init, Queue!Init
<1>3. Spec => []DataInv
  BY <1>1, NextData, FifoInvariant, PTL DEF Spec
<1> QED
  BY <1>2, <1>3, StepOfQueue, FifoInvariant, PTL DEF Spec, QueueSpec, Queue!Spec
=============================================================================
