---------------------------- MODULE SVGAFence_proofs ----------------------------
(***************************************************************************)
(* Proofs about SVGAFence, for every modulus of the fence numbers, every   *)
(* set of transfer buffers and every depth of FenceTracker: SyncToFence    *)
(* does not take a fence for passed that is still in the FIFO, however the *)
(* counter has wrapped around and skipped 0.  Any number of threads may be *)
(* in VendorTransferBuffer::sync, of the same buffer too, while others     *)
(* submit new DMA of it.                                                   *)
(***************************************************************************)
EXTENDS SVGAFence, FiniteSetTheorems, TLAPS

-----------------------------------------------------------------------------
(* The inductive invariant *)

Slots == 0..(Presents - 1)

Commands ==
  {DMA(b) : b \in Buffer} \cup {Present}
  \cup {FenceCmd(f, rung) : f \in Fences, rung \in BOOLEAN}

Calls ==
  {Outside} \cup {Called(b, f) : b \in Buffer, f \in Fences}
  \cup {Waiting(b) : b \in Buffer} \cup {Returned(b) : b \in Buffer}

TypeOK ==
  /\ HasFence \in BOOLEAN
  /\ queue \in Seq(Commands)
  /\ Len(queue) <= QueueMax
  /\ FENCE \in Fences
  /\ REG_BUSY \in BOOLEAN
  /\ m_next_fence \in Fences
  /\ fence \in [Buffer -> Fences]
  /\ tracker \in [counter : Slots, fences : [Slots -> Fences]]
  /\ pc \in {"idle", "fence", "fence_ring", "ring", "ring_sync", "sync", "sync_loop", "present"}
  /\ target \in Fences
  /\ caller \in Buffer \cup Thread \cup {"present", "nobody"}
  /\ call \in [Thread -> Calls]
  /\ renewed \subseteq Thread
  /\ erased \subseteq Buffer

(* A command is submitted and its fence is not.                            *)
Fencing == pc \in {"fence", "fence_ring"}
Syncing == pc \in {"sync", "sync_loop"}
Presenting == pc = "present" \/ (Fencing /\ caller = "present")

(* Which fence SyncToFence waits for, and for whom.                        *)
CallInv ==
  /\ caller = "nobody" <=> ~(Fencing \/ Syncing)
  /\ Fencing => caller \in Buffer \cup {"present"}
  /\ Syncing => caller \in Thread \cup {"present"}
  /\ \A t \in Thread : call[t].at = "waiting" <=> Syncing /\ caller = t
  /\ Syncing /\ caller = "present" => target = tracker.fences[tracker.counter]
  /\ pc = "sync_loop" /\ ~REG_BUSY => queue = <<>>
  /\ pc = "fence_ring" => caller # "present"

IsFence(i) == queue[i].kind = "fence"

(* The k-th fence after f: 0 is skipped. *)
FenceAfter(f, k) == IF f + k < FenceModulus THEN f + k ELSE f + k - (FenceModulus - 1)

(* The fence that the operation has not submitted yet. *)
Owed == IF Fencing THEN 1 ELSE 0

(* Commands and fences alternate in the FIFO (counted from the end, where  *)
(* a fence may be missing), and the fences are the next ones after the     *)
(* last that the device has executed.                                      *)
OrderInv ==
  /\ \A i \in 1..Len(queue) :
       IsFence(i) <=> (Len(queue) + Owed - i) % 2 = 0
  /\ \A i \in 1..Len(queue) : IsFence(i) => queue[i].value = FenceAfter(FENCE, (i + 1) \div 2)
  /\ NextFence = FenceAfter(FENCE, (Len(queue) + 3 - Owed) \div 2)

(* A present in the FIFO is followed by a fence that the tracker           *)
(* remembers; the slot for the next one holds a fence that has passed.     *)
PresentInv ==
  /\ \A i \in 1..Len(queue) :
       queue[i].kind = "present" =>
         IF i = Len(queue) THEN Fencing /\ caller = "present"
         ELSE \E s \in Slots : tracker.fences[s] = queue[i + 1].value
  /\ Presenting =>
       \A i \in 1..Len(queue) :
         IsFence(i) => queue[i].value # tracker.fences[tracker.counter]

(* Without fences in the FIFO, SyncToFence waits until it is empty.        *)
PresentsIn(q) == {i \in 1..Len(q) : q[i].kind = "present"}

NoFencesInv ==
  /\ \A i \in 1..Len(queue) : ~IsFence(i)
  /\ Cardinality(PresentsIn(queue)) <= Presents
  /\ IF tracker.fences[tracker.counter] = 0
     THEN /\ \A s \in Slots : tracker.fences[s] = 0 <=> s >= tracker.counter
          /\ Cardinality(PresentsIn(queue))
               <= tracker.counter + (IF Fencing /\ caller = "present" THEN 1 ELSE 0)
     ELSE /\ \A s \in Slots : tracker.fences[s] # 0
          /\ pc = "present" => Cardinality(PresentsIn(queue)) = 0
          /\ Fencing /\ caller = "present" => Cardinality(PresentsIn(queue)) <= 1

QueueInv ==
  /\ TypeOK
  /\ CallInv
  /\ HasFence => OrderInv /\ PresentInv
  /\ ~HasFence => NoFencesInv

(* In the queue q, who waits for the fence f waits for every DMA of the    *)
(* buffer b, unless its operation is open, that is, has not submitted its  *)
(* fence.  With fences, f follows the DMA; without, any wait is for the    *)
(* whole FIFO.                                                             *)
Covered(q, open, has, b, f) ==
  \A i \in 1..Len(q) :
    q[i] = DMA(b) =>
      \/ open
      \/ IF has THEN \E j \in (i + 1)..Len(q) : q[j].kind = "fence" /\ q[j].value = f
                ELSE f # 0

Open(b) == Fencing /\ caller = b

(* What a thread in sync still has to wait for; none after SyncToFence.    *)
Awaited(t) ==
  IF call[t].at = "called" THEN call[t].fence
  ELSE IF call[t].at = "waiting" THEN target ELSE 0

(* A buffer's fence covers its DMA, unless a newer one was set to 0; what  *)
(* a thread in sync waits for does, unless the buffer got a newer one.     *)
BufferInv(b) ==
  IF b \in erased THEN fence[b] = 0 ELSE Covered(queue, Open(b), HasFence, b, fence[b])

ThreadInv(t) ==
  call[t].at # "outside" /\ t \notin renewed =>
    Covered(queue, Open(call[t].buffer), HasFence, call[t].buffer, Awaited(t))

DMAInv == (\A b \in Buffer : BufferInv(b)) /\ (\A t \in Thread : ThreadInv(t))

FenceInv == QueueInv /\ DMAInv

-----------------------------------------------------------------------------
(* Fence numbers *)

LEMMA ModulusType ==
  /\ HalfModulus \in Nat /\ FenceModulus = 2 * HalfModulus /\ HalfModulus >= 3
  /\ QueueMax \in Nat /\ QueueMax <= 2 * HalfModulus - 3
  /\ FenceModulus \in Nat /\ FenceModulus >= 6
BY FenceAssumption DEF FenceModulus

(* The next fences after one are fences, and none of them is 0. *)
LEMMA FenceAfterType ==
  ASSUME NEW f \in Fences, NEW k \in 1..(FenceModulus - 1)
  PROVE  FenceAfter(f, k) \in Fences /\ FenceAfter(f, k) # 0
BY ModulusType DEF Fences, FenceAfter

(* They are counted one after another, and differ. *)
LEMMA FenceAfterAfter ==
  ASSUME NEW f \in Fences, NEW k \in 1..(FenceModulus - 2)
  PROVE  FenceAfter(FenceAfter(f, 1), k) = FenceAfter(f, k + 1)
BY ModulusType DEF Fences, FenceAfter

LEMMA FenceAfterInjective ==
  ASSUME NEW f \in Fences, NEW k \in 1..(FenceModulus - 1), NEW l \in 1..(FenceModulus - 1),
         FenceAfter(f, k) = FenceAfter(f, l)
  PROVE  k = l
BY ModulusType DEF Fences, FenceAfter

(* SyncToFence waits for each of the next HalfModulus - 1 fences. *)
LEMMA NextNotPassed ==
  ASSUME FENCE \in Fences, NEW k \in 1..(HalfModulus - 1)
  PROVE  ~HasFencePassed(FenceAfter(FENCE, k))
<1>1. ASSUME NEW M \in Nat \ {0}, NEW x \in (-M)..(-1)
      PROVE  x % M = x + M
  OBVIOUS
<1>2. ASSUME NEW M \in Nat \ {0}, NEW x \in 0..(M - 1)
      PROVE  x % M = x
  OBVIOUS
<1>3. CASE FENCE + k < FenceModulus
  <2>1. FENCE - FenceAfter(FENCE, k) = - k
    BY <1>3, ModulusType DEF Fences, FenceAfter
  <2>2. (- k) % FenceModulus = FenceModulus - k
    BY <1>1, ModulusType
  <2> QED
    BY <2>1, <2>2, ModulusType DEF HasFencePassed
<1>4. CASE ~(FENCE + k < FenceModulus)
  <2>1. FENCE - FenceAfter(FENCE, k) = FenceModulus - 1 - k
    BY <1>4, ModulusType DEF Fences, FenceAfter
  <2>2. (FenceModulus - 1 - k) % FenceModulus = FenceModulus - 1 - k
    BY <1>2, ModulusType
  <2> QED
    BY <2>1, <2>2, ModulusType DEF HasFencePassed
<1> QED
  BY <1>3, <1>4

(* What InsertFence leaves in m_next_fence. *)
LEMMA NextFenceStep ==
  ASSUME m_next_fence \in Fences
  PROVE  /\ NextFence \in Fences /\ NextFence # 0
         /\ (NextFence + 1) % FenceModulus =
              IF NextFence + 1 = FenceModulus THEN 0 ELSE NextFence + 1
         /\ (NextFence + 1) % FenceModulus \in Fences
<1>1. NextFence \in Fences /\ NextFence # 0
  BY ModulusType DEF NextFence, Fences
<1>2. ASSUME NEW M \in Nat \ {0}, NEW x \in 0..M
      PROVE  x % M = IF x = M THEN 0 ELSE x
  OBVIOUS
<1>3. NextFence + 1 \in 0..FenceModulus
  BY <1>1, ModulusType DEF Fences
<1>4. (NextFence + 1) % FenceModulus =
        IF NextFence + 1 = FenceModulus THEN 0 ELSE NextFence + 1
  BY <1>2, <1>3, ModulusType
<1> QED
  BY <1>1, <1>4, ModulusType DEF Fences

-----------------------------------------------------------------------------
(* Commands in the FIFO *)

LEMMA CommandKinds ==
  ASSUME NEW c \in Commands
  PROVE  /\ c.kind = "fence" => c.value \in Fences
         /\ c.kind = "present" => c = Present
         /\ \A b \in Buffer : c = DMA(b) => c.kind = "dma"
BY DEF Commands, DMA, Present, FenceCmd

LEMMA CommandTypes ==
  /\ \A b \in Buffer : DMA(b) \in Commands /\ DMA(b).kind = "dma"
  /\ Present \in Commands /\ Present.kind = "present"
  /\ \A f \in Fences, rung \in BOOLEAN :
       /\ FenceCmd(f, rung) \in Commands
       /\ FenceCmd(f, rung).kind = "fence" /\ FenceCmd(f, rung).value = f
<1>1. \A f, rung : FenceCmd(f, rung).kind = "fence" /\ FenceCmd(f, rung).value = f
  BY DEF FenceCmd
<1>2. \A f \in Fences, rung \in BOOLEAN : FenceCmd(f, rung) \in Commands
  BY DEF Commands
<1>3. \A b \in Buffer : DMA(b) \in Commands /\ DMA(b).kind = "dma"
  BY DEF Commands, DMA
<1>4. Present \in Commands /\ Present.kind = "present"
  BY DEF Commands, Present
<1> QED
  BY <1>1, <1>2, <1>3, <1>4

LEMMA CallKinds ==
  /\ Outside.at = "outside"
  /\ \A b \in Buffer, f \in Fences :
       /\ Called(b, f) \in Calls /\ Called(b, f).at = "called"
       /\ Called(b, f).buffer = b /\ Called(b, f).fence = f
  /\ \A b \in Buffer :
       /\ Waiting(b) \in Calls /\ Waiting(b).at = "waiting" /\ Waiting(b).buffer = b
       /\ Returned(b) \in Calls /\ Returned(b).at = "returned" /\ Returned(b).buffer = b
  /\ \A c \in Calls :
       \/ c.at = "outside"
       \/ c.at \in {"called", "waiting", "returned"} /\ c.buffer \in Buffer
  /\ \A c \in Calls : c.at = "called" => c.fence \in Fences
  /\ Outside \in Calls
<1>1. /\ \A b, f : /\ Called(b, f).at = "called" /\ Called(b, f).buffer = b
                    /\ Called(b, f).fence = f
      /\ \A b : /\ Waiting(b).at = "waiting" /\ Waiting(b).buffer = b
                 /\ Returned(b).at = "returned" /\ Returned(b).buffer = b
      /\ Outside.at = "outside"
  BY DEF Outside, Called, Waiting, Returned
<1>2. \A b \in Buffer, f \in Fences : Called(b, f) \in Calls
  BY DEF Calls
<1>3. \A b \in Buffer : Waiting(b) \in Calls /\ Returned(b) \in Calls
  BY DEF Calls
<1>4. Outside \in Calls
  BY DEF Calls
<1>5. ASSUME NEW c \in Calls
      PROVE  \/ c = Outside
             \/ \E b \in Buffer, f \in Fences : c = Called(b, f)
             \/ \E b \in Buffer : c = Waiting(b) \/ c = Returned(b)
  BY DEF Calls
<1> QED
  BY <1>1, <1>2, <1>3, <1>4, <1>5

LEMMA PresentsFinite ==
  ASSUME NEW q \in Seq(Commands)
  PROVE  IsFiniteSet(PresentsIn(q)) /\ Cardinality(PresentsIn(q)) \in Nat
<1>1. IsFiniteSet(1..Len(q))
  BY FS_Interval
<1>2. PresentsIn(q) \subseteq 1..Len(q)
  BY DEF PresentsIn
<1> QED
  BY <1>1, <1>2, FS_Subset, FS_CardinalityType

LEMMA PresentsAppend ==
  ASSUME NEW q \in Seq(Commands), NEW c \in Commands
  PROVE  Cardinality(PresentsIn(Append(q, c))) =
           Cardinality(PresentsIn(q)) + (IF c.kind = "present" THEN 1 ELSE 0)
<1>1. PresentsIn(Append(q, c)) =
        IF c.kind = "present" THEN PresentsIn(q) \cup {Len(q) + 1} ELSE PresentsIn(q)
  <2>1. Len(Append(q, c)) = Len(q) + 1 /\ Len(q) \in Nat
    OBVIOUS
  <2>2. \A i \in 1..(Len(q) + 1) : Append(q, c)[i] = IF i = Len(q) + 1 THEN c ELSE q[i]
    OBVIOUS
  <2> QED
    BY <2>1, <2>2 DEF PresentsIn
<1>2. Len(q) + 1 \notin PresentsIn(q)
  BY DEF PresentsIn
<1>3. Cardinality(PresentsIn(q) \cup {Len(q) + 1}) = Cardinality(PresentsIn(q)) + 1
  BY <1>2, PresentsFinite, FS_AddElement
<1> QED
  BY <1>1, <1>3, PresentsFinite

LEMMA PresentsTail ==
  ASSUME NEW q \in Seq(Commands), q # <<>>
  PROVE  Cardinality(PresentsIn(Tail(q))) <= Cardinality(PresentsIn(q))
<1> DEFINE f == [i \in PresentsIn(Tail(q)) |-> i + 1]
<1>1. Len(Tail(q)) = Len(q) - 1 /\ Len(q) \in Nat /\ Tail(q) \in Seq(Commands)
  OBVIOUS
<1>2. \A i \in 1..(Len(q) - 1) : Tail(q)[i] = q[i + 1]
  OBVIOUS
<1>3. \A i \in PresentsIn(Tail(q)) : i \in Nat /\ i + 1 \in PresentsIn(q)
  BY <1>1, <1>2 DEF PresentsIn
<1>4. f \in Injection(PresentsIn(Tail(q)), PresentsIn(q))
  BY <1>3 DEF Injection, IsInjective
<1> HIDE DEF f
<1> QED
  BY <1>1, <1>4, PresentsFinite, FS_Injection

-----------------------------------------------------------------------------
(* The steps *)

(* A command is submitted. *)
LEMMA SubmitKeepsOrder ==
  ASSUME TypeOK, OrderInv, ~Fencing, NEW c \in Commands, c.kind # "fence",
         NEW for \in Buffer \cup {"present"}, NEW next \in {"fence", "fence_ring"},
         Submit(c, for, next)
  PROVE  TypeOK' /\ OrderInv'
<1>1. queue \in Seq(Commands) /\ Len(queue) \in Nat /\ Len(queue) < QueueMax
  BY ModulusType DEF TypeOK, Submit, HasRoom
<1>2. /\ queue' = Append(queue, c) /\ Len(queue') = Len(queue) + 1
      /\ queue' \in Seq(Commands)
      /\ \A i \in 1..Len(queue') : queue'[i] = IF i = Len(queue') THEN c ELSE queue[i]
  BY <1>1 DEF Submit
<1>3. Fencing' /\ FENCE' = FENCE /\ NextFence' = NextFence
  BY DEF Submit, Fencing, deviceVars, NextFence
<1>4. TypeOK'
  <2>1. Len(queue') <= QueueMax
    BY <1>1, <1>2, ModulusType
  <2> QED
    BY <1>2, <2>1 DEF TypeOK, Submit, deviceVars, callVars, Slots
<1>5. OrderInv'
  <2>1. ASSUME NEW i \in 1..Len(queue')
        PROVE  /\ IsFence(i)' <=> (Len(queue') + 1 - i) % 2 = 0
               /\ IsFence(i)' => queue'[i].value = FenceAfter(FENCE, (i + 1) \div 2)
    <3>1. CASE i = Len(queue')
      BY <1>1, <1>2, <3>1 DEF IsFence
    <3>2. CASE i # Len(queue')
      <4>1. i \in 1..Len(queue) /\ (IsFence(i)' <=> IsFence(i)) /\ queue'[i] = queue[i]
        BY <1>1, <1>2, <3>2 DEF IsFence
      <4>2. IsFence(i) <=> (Len(queue) - i) % 2 = 0
        BY <1>1, <4>1 DEF OrderInv, Owed
      <4>3. IsFence(i) => queue[i].value = FenceAfter(FENCE, (i + 1) \div 2)
        BY <4>1 DEF OrderInv
      <4>4. Len(queue') + 1 - i = Len(queue) - i + 2 /\ Len(queue) - i \in Nat
        BY <1>1, <1>2, <4>1
      <4>5. (Len(queue') + 1 - i) % 2 = (Len(queue) - i) % 2
        BY <4>4
      <4> QED
        BY <4>1, <4>2, <4>3, <4>5
    <3> QED
      BY <3>1, <3>2
  <2>2. NextFence' = FenceAfter(FENCE, (Len(queue') + 2) \div 2)
    BY <1>1, <1>2, <1>3 DEF OrderInv, Owed
  <2> QED
    BY <1>1, <1>2, <1>3, <2>1, <2>2 DEF OrderInv, FenceAfter, Owed
<1> QED
  BY <1>4, <1>5

LEMMA SubmitDMAKeeps ==
  ASSUME QueueInv, pc = "idle", NEW b \in Buffer, NEW next \in {"fence", "fence_ring"},
         Submit(DMA(b), b, next)
  PROVE  QueueInv'
<1> DEFINE c == DMA(b)
<1>1. ~Fencing /\ ~Syncing /\ ~Presenting
  BY DEF Fencing, Syncing, Presenting
<1>2. c \in Commands /\ c.kind = "dma"
  BY CommandTypes
<1>3. TypeOK /\ queue \in Seq(Commands) /\ Len(queue) \in Nat
  BY DEF QueueInv, TypeOK
<1>4. /\ queue' = Append(queue, c) /\ Len(queue') = Len(queue) + 1
      /\ \A i \in 1..Len(queue) : queue'[i] = queue[i] /\ i \in 1..Len(queue')
      /\ \A i \in 1..Len(queue') : queue'[i] = IF i = Len(queue') THEN c ELSE queue[i]
  BY <1>3 DEF Submit
<1>5. /\ caller' = b /\ Fencing' /\ ~Syncing' /\ ~Presenting'
      /\ b # "present" /\ b # "nobody"
      /\ UNCHANGED <<HasFence, fence, tracker, call>>
  BY FenceAssumption DEF Submit, Fencing, Syncing, Presenting, deviceVars, callVars
<1>6. CallInv'
  BY <1>1, <1>5 DEF QueueInv, CallInv, Submit, Syncing
<1>7. ASSUME HasFence
      PROVE  TypeOK' /\ OrderInv'
  BY <1>1, <1>2, <1>3, <1>7, SubmitKeepsOrder DEF QueueInv
<1>8. TypeOK'
  BY <1>2, <1>3, <1>4, ModulusType DEF TypeOK, Submit, deviceVars, callVars, Slots, HasRoom
<1>10. ASSUME HasFence
       PROVE  PresentInv'
  <2>1. ASSUME NEW i \in 1..Len(queue'), queue'[i].kind = "present"
        PROVE  i # Len(queue') /\ \E s \in Slots : tracker'.fences[s] = queue'[i + 1].value
    <3>1. i \in 1..Len(queue) /\ queue[i].kind = "present"
      BY <1>2, <1>3, <1>4, <2>1
    <3>2. i # Len(queue) /\ \E s \in Slots : tracker.fences[s] = queue[i + 1].value
      BY <1>1, <1>10, <3>1 DEF QueueInv, PresentInv
    <3> QED
      BY <1>3, <1>4, <1>5, <3>1, <3>2
  <2> QED
    BY <1>5, <2>1 DEF PresentInv, Slots
<1>11. ASSUME ~HasFence
       PROVE  NoFencesInv'
  <2>1. \A i \in 1..Len(queue') : ~IsFence(i)'
    BY <1>2, <1>3, <1>4, <1>11 DEF QueueInv, NoFencesInv, IsFence
  <2>3. Cardinality(PresentsIn(queue')) = Cardinality(PresentsIn(queue))
    BY <1>2, <1>3, <1>4, PresentsAppend, PresentsFinite
  <2>4. NoFencesInv
    BY <1>11 DEF QueueInv
  <2> QED
    BY <1>1, <1>5, <2>1, <2>3, <2>4 DEF NoFencesInv, PresentsIn, DMA, Slots, Fencing, Presenting
<1> QED
  BY <1>5, <1>6, <1>7, <1>8, <1>10, <1>11 DEF QueueInv

LEMMA SubmitPresentKeeps ==
  ASSUME QueueInv, SubmitPresent
  PROVE  QueueInv'
<1>1. ~Fencing /\ ~Syncing /\ Presenting /\ pc = "present"
  BY DEF Fencing, Syncing, Presenting, SubmitPresent
<1>2. Present \in Commands /\ Present.kind = "present"
  BY CommandTypes
<1>3. TypeOK /\ queue \in Seq(Commands) /\ Len(queue) \in Nat
  BY DEF QueueInv, TypeOK
<1>4. /\ queue' = Append(queue, Present) /\ Len(queue') = Len(queue) + 1
      /\ \A i \in 1..Len(queue) : queue'[i] = queue[i] /\ i \in 1..Len(queue')
      /\ \A i \in 1..Len(queue') : queue'[i] = IF i = Len(queue') THEN Present ELSE queue[i]
  BY <1>3 DEF SubmitPresent, Submit
<1>5. /\ caller' = "present" /\ pc' = "fence" /\ Fencing' /\ ~Syncing' /\ Presenting'
      /\ UNCHANGED <<HasFence, fence, tracker, call>>
  BY DEF SubmitPresent, Submit, Fencing, Syncing, Presenting, deviceVars, callVars
<1>6. CallInv'
  BY <1>1, <1>5 DEF QueueInv, CallInv, Syncing
<1>7. ASSUME HasFence
      PROVE  TypeOK' /\ OrderInv'
  BY <1>1, <1>2, <1>3, <1>7, SubmitKeepsOrder DEF QueueInv, SubmitPresent
<1>8. TypeOK'
  BY <1>2, <1>3, <1>4, ModulusType DEF TypeOK, SubmitPresent, Submit, deviceVars, callVars, Slots, HasRoom
<1>10. ASSUME HasFence
       PROVE  PresentInv'
  <2>1. ASSUME NEW i \in 1..Len(queue'), queue'[i].kind = "present", i # Len(queue')
        PROVE  \E s \in Slots : tracker'.fences[s] = queue'[i + 1].value
    <3>1. i \in 1..Len(queue) /\ queue[i].kind = "present"
      BY <1>2, <1>3, <1>4, <2>1
    <3>2. i # Len(queue) /\ \E s \in Slots : tracker.fences[s] = queue[i + 1].value
      BY <1>1, <1>10, <3>1 DEF QueueInv, PresentInv
    <3> QED
      BY <1>3, <1>4, <1>5, <3>1, <3>2
  <2>2. ASSUME NEW i \in 1..Len(queue'), IsFence(i)'
        PROVE  queue'[i].value # tracker'.fences[tracker'.counter]
    <3>1. i \in 1..Len(queue) /\ IsFence(i) /\ queue'[i] = queue[i]
      BY <1>2, <1>3, <1>4, <2>2 DEF IsFence
    <3> QED
      BY <1>1, <1>5, <1>10, <3>1 DEF QueueInv, PresentInv
  <2> QED
    BY <1>5, <2>1, <2>2 DEF PresentInv, Slots
<1>11. ASSUME ~HasFence
       PROVE  NoFencesInv'
  <2>1. \A i \in 1..Len(queue') : ~IsFence(i)'
    BY <1>2, <1>3, <1>4, <1>11 DEF QueueInv, NoFencesInv, IsFence
  <2>3. Cardinality(PresentsIn(queue')) = Cardinality(PresentsIn(queue)) + 1
    BY <1>2, <1>3, <1>4, PresentsAppend
  <2>4. NoFencesInv /\ Cardinality(PresentsIn(queue)) \in Nat
    BY <1>3, <1>11, PresentsFinite DEF QueueInv
  <2>5. tracker.counter \in Slots /\ Presents \in Nat \ {0}
    BY <1>3, FenceAssumption DEF TypeOK
  <2>6. Cardinality(PresentsIn(queue)) + 1 <= Presents
    BY <1>1, <2>4, <2>5 DEF NoFencesInv, Slots
  <2>7. IF tracker'.fences[tracker'.counter] = 0
        THEN /\ \A s \in Slots : tracker'.fences[s] = 0 <=> s >= tracker'.counter
             /\ Cardinality(PresentsIn(queue')) <= tracker'.counter + 1
        ELSE /\ \A s \in Slots : tracker'.fences[s] # 0
             /\ Cardinality(PresentsIn(queue')) <= 1
    BY <1>1, <1>5, <2>3, <2>4, <2>5 DEF NoFencesInv, Slots
  <2> QED
    BY <1>5, <2>1, <2>3, <2>6, <2>7 DEF NoFencesInv, PresentsIn, DMA, Slots
<1> QED
  BY <1>5, <1>6, <1>7, <1>8, <1>10, <1>11 DEF QueueInv

(* SyncToFence waits for a fence that is in the FIFO. *)
LEMMA PendingNotPassed ==
  ASSUME TypeOK, OrderInv, NEW i \in 1..Len(queue), IsFence(i)
  PROVE  queue[i].value # 0 /\ ~HasFencePassed(queue[i].value)
<1>1. Len(queue) \in Nat /\ Len(queue) <= QueueMax /\ FENCE \in Fences
  BY DEF TypeOK
<1>2. queue[i].value = FenceAfter(FENCE, (i + 1) \div 2)
  BY DEF OrderInv
<1>3. (i + 1) \div 2 \in 1..(HalfModulus - 1)
  BY <1>1, ModulusType
<1> QED
  BY <1>1, <1>2, <1>3, ModulusType, FenceAfterType, NextNotPassed

(* SyncToFence returns: its fence is not in the FIFO, or nothing is.       *)
LEMMA SyncReturnsKeeps ==
  ASSUME QueueInv, Syncing, SyncReturns, UNCHANGED REG_BUSY,
         \/ target = 0
         \/ HasFence /\ HasFencePassed(target)
         \/ queue = <<>>
  PROVE  QueueInv'
<1>1. TypeOK /\ queue \in Seq(Commands) /\ Len(queue) \in Nat /\ 0 \in Fences
  BY ModulusType DEF QueueInv, TypeOK, Fences
<1>2. /\ UNCHANGED <<HasFence, queue, FENCE, m_next_fence, tracker>>
      /\ ~Fencing /\ ~Fencing' /\ ~Syncing' /\ pc' \in {"present", "idle"}
      /\ caller' = "nobody" /\ target' = 0
  BY DEF SyncReturns, Fencing, Syncing
<1>3. caller \in Thread \cup {"present"}
  BY DEF QueueInv, CallInv
<1>4. /\ \A t \in Thread : call'[t] \in Calls /\ call'[t].at # "waiting"
      /\ call' \in [Thread -> Calls]
  <2>1. CASE caller = "present"
    <3>1. call' = call /\ "present" \notin Thread
      BY <2>1, FenceAssumption DEF SyncReturns
    <3>2. \A t \in Thread : call[t].at # "waiting"
      BY <2>1, <3>1 DEF QueueInv, CallInv
    <3> QED
      BY <1>1, <3>1, <3>2 DEF TypeOK
  <2>2. CASE caller # "present"
    <3>1. caller \in Thread /\ call' = [call EXCEPT ![caller] = Returned(call[caller].buffer)]
      BY <1>3, <2>2 DEF SyncReturns
    <3>2. call[caller].at = "waiting" /\ call[caller] \in Calls
      BY <1>1, <3>1 DEF QueueInv, CallInv, TypeOK
    <3>3. Returned(call[caller].buffer) \in Calls /\ Returned(call[caller].buffer).at = "returned"
      BY <3>2, CallKinds
    <3>4. \A t \in Thread : t # caller => call[t].at # "waiting"
      BY <3>1 DEF QueueInv, CallInv
    <3> QED
      BY <1>1, <3>1, <3>3, <3>4 DEF TypeOK
  <2> QED
    BY <2>1, <2>2
<1>5. TypeOK'
  BY <1>1, <1>2, <1>4 DEF TypeOK, SyncReturns
<1>6. CallInv'
  BY <1>2, <1>4 DEF CallInv
<1>7. ASSUME HasFence
      PROVE  OrderInv'
  <2>1. OrderInv
    BY <1>7 DEF QueueInv
  <2> QED
    BY <1>2, <2>1 DEF OrderInv, NextFence, IsFence, FenceAfter, Owed
<1>8. ASSUME HasFence, NEW i \in 1..Len(queue), IsFence(i)
      PROVE  queue[i].value # target
  <2>1. queue # <<>>
    BY <1>1, <1>8
  <2> QED
    BY <1>1, <1>8, <2>1, PendingNotPassed DEF QueueInv
<1>10. ASSUME HasFence
       PROVE  PresentInv'
  <2>1. Presenting' => target = tracker.fences[tracker.counter]
    BY <1>2, FenceAssumption DEF Presenting, SyncReturns, QueueInv, CallInv
  <2>2. PresentInv
    BY <1>10 DEF QueueInv
  <2> QED
    BY <1>2, <1>8, <1>10, <2>1, <2>2 DEF PresentInv, IsFence, Slots
<1>11. ASSUME ~HasFence
       PROVE  NoFencesInv'
  <2>1. NoFencesInv
    BY <1>11 DEF QueueInv
  <2>2. target # 0 => queue = <<>>
    BY <1>11
  <2>3. \A i \in 1..Len(queue') : ~IsFence(i)'
    BY <1>2, <2>1 DEF NoFencesInv, IsFence
  <2>5. pc' = "present" /\ tracker.fences[tracker.counter] # 0 =>
          Cardinality(PresentsIn(queue)) = 0
    <3>1. pc' = "present" /\ tracker.fences[tracker.counter] # 0 => queue = <<>>
      BY <1>2, <2>2 DEF SyncReturns, QueueInv, CallInv
    <3>2. PresentsIn(<<>>) = {}
      BY DEF PresentsIn
    <3> QED
      BY <3>1, <3>2, FS_EmptySet
  <2>6. IF tracker.fences[tracker.counter] = 0
        THEN /\ \A s \in Slots : tracker.fences[s] = 0 <=> s >= tracker.counter
             /\ Cardinality(PresentsIn(queue)) <= tracker.counter + 0
        ELSE \A s \in Slots : tracker.fences[s] # 0
    BY <1>2, <2>1 DEF NoFencesInv
  <2>7. Cardinality(PresentsIn(queue)) <= Presents
    BY <2>1 DEF NoFencesInv
  <2> QED
    BY <1>2, <2>3, <2>5, <2>6, <2>7 DEF NoFencesInv, PresentsIn, DMA, Slots
<1> QED
  BY <1>2, <1>5, <1>6, <1>7, <1>10, <1>11 DEF QueueInv

(* InsertFence writes the fence that the operation still owes. *)
LEMMA InsertKeepsOrder ==
  ASSUME TypeOK, OrderInv, HasFence, InsertFence
  PROVE  TypeOK' /\ OrderInv'
<1> DEFINE c == FenceCmd(NextFence, pc = "fence_ring")
<1>1. queue \in Seq(Commands) /\ Len(queue) \in Nat /\ Len(queue) < QueueMax /\ Fencing
  BY ModulusType DEF TypeOK, InsertFence, HasRoom, Fencing
<1>2. /\ NextFence \in Fences
      /\ m_next_fence' = IF NextFence + 1 = FenceModulus THEN 0 ELSE NextFence + 1
      /\ m_next_fence' \in Fences
  BY NextFenceStep DEF TypeOK, InsertFence
<1>3. c \in Commands /\ c.kind = "fence" /\ c.value = NextFence
  BY <1>2, CommandTypes
<1>4. /\ queue' = Append(queue, c) /\ Len(queue') = Len(queue) + 1
      /\ queue' \in Seq(Commands)
      /\ \A i \in 1..Len(queue') : queue'[i] = IF i = Len(queue') THEN c ELSE queue[i]
  <2>1. queue' = Append(queue, c)
    BY DEF InsertFence
  <2> HIDE DEF c
  <2> QED
    BY <1>1, <1>3, <2>1
<1>5. ~Fencing' /\ FENCE' = FENCE /\ FENCE \in Fences
  BY DEF InsertFence, Fencing, deviceVars, TypeOK
<1> HIDE DEF c
<1>6. TypeOK'
  <2>1. Len(queue') <= QueueMax
    BY <1>1, <1>4, ModulusType
  <2>2. tracker' \in [counter : Slots, fences : [Slots -> Fences]]
    <3>1. Presents \in Nat \ {0} /\ tracker \in [counter : Slots, fences : [Slots -> Fences]]
      BY FenceAssumption DEF TypeOK
    <3>2. tracker' = tracker \/ tracker' = After(NextFence)
      BY DEF InsertFence, InsertedFence
    <3>3. After(NextFence) \in [counter : Slots, fences : [Slots -> Fences]]
      BY <1>2, <3>1 DEF After, Slots
    <3> QED
      BY <3>1, <3>2, <3>3
  <2>3. fence' \in [Buffer -> Fences]
    BY <1>2 DEF TypeOK, InsertFence, InsertedFence
  <2>4. renewed' \subseteq Thread /\ erased' \subseteq Buffer
    BY DEF TypeOK, InsertFence, SyncsOf
  <2> QED
    BY <1>2, <1>4, <2>1, <2>2, <2>3, <2>4 DEF TypeOK, InsertFence, deviceVars
<1>7. OrderInv'
  <2>1. ASSUME NEW i \in 1..Len(queue')
        PROVE  /\ IsFence(i)' <=> (Len(queue') - i) % 2 = 0
               /\ IsFence(i)' => queue'[i].value = FenceAfter(FENCE, (i + 1) \div 2)
    <3>1. CASE i = Len(queue')
      <4>1. NextFence = FenceAfter(FENCE, (Len(queue) + 2) \div 2)
        BY <1>1 DEF OrderInv, Owed
      <4> QED
        BY <1>1, <1>3, <1>4, <3>1, <4>1 DEF IsFence
    <3>2. CASE i # Len(queue')
      <4>1. i \in 1..Len(queue) /\ (IsFence(i)' <=> IsFence(i)) /\ queue'[i] = queue[i]
        BY <1>1, <1>4, <3>2 DEF IsFence
      <4>2. IsFence(i) <=> (Len(queue) + 1 - i) % 2 = 0
        BY <1>1, <4>1 DEF OrderInv, Owed
      <4>3. IsFence(i) => queue[i].value = FenceAfter(FENCE, (i + 1) \div 2)
        BY <4>1 DEF OrderInv
      <4>4. Len(queue') - i = Len(queue) + 1 - i
        BY <1>1, <1>4, <4>1
      <4> QED
        BY <4>1, <4>2, <4>3, <4>4
    <3> QED
      BY <3>1, <3>2
  <2>2. NextFence' = FenceAfter(FENCE, (Len(queue') + 3) \div 2)
    <3> DEFINE k == (Len(queue) + 2) \div 2
    <3>1. NextFence = FenceAfter(FENCE, k) /\ (Len(queue') + 3) \div 2 = k + 1
      BY <1>1, <1>4 DEF OrderInv, Owed
    <3>2. k \in 1..(FenceModulus - 2)
      BY <1>1, ModulusType
    <3>3. NextFence' = IF m_next_fence' = 0 THEN 1 ELSE m_next_fence'
      BY DEF NextFence
    <3> HIDE DEF k
    <3> QED
      BY <1>2, <1>5, <3>1, <3>2, <3>3, ModulusType DEF Fences, FenceAfter
  <2> QED
    BY <1>1, <1>4, <1>5, <2>1, <2>2 DEF OrderInv, FenceAfter, Owed
<1> QED
  BY <1>6, <1>7

(* Fences in the FIFO differ from one another. *)
LEMMA PendingFencesDiffer ==
  ASSUME TypeOK, OrderInv,
         NEW i \in 1..Len(queue), NEW j \in 1..Len(queue), IsFence(i), IsFence(j),
         queue[i].value = queue[j].value
  PROVE  i = j
<1>1. Len(queue) \in Nat /\ Len(queue) <= QueueMax /\ FENCE \in Fences
  BY DEF TypeOK
<1>2. FenceAfter(FENCE, (i + 1) \div 2) = FenceAfter(FENCE, (j + 1) \div 2)
  BY DEF OrderInv
<1>3. /\ (i + 1) \div 2 \in 1..(FenceModulus - 1)
      /\ (j + 1) \div 2 \in 1..(FenceModulus - 1)
  BY <1>1, ModulusType
<1>4. (i + 1) \div 2 = (j + 1) \div 2
  BY <1>1, <1>2, <1>3, FenceAfterInjective
<1>5. Owed \in {0, 1} /\ (Len(queue) + Owed - i) % 2 = 0 /\ (Len(queue) + Owed - j) % 2 = 0
  BY DEF OrderInv, Owed
<1> QED
  BY <1>1, <1>4, <1>5

LEMMA InsertFenceKeeps ==
  ASSUME QueueInv, HasFence, InsertFence
  PROVE  QueueInv'
<1>1. /\ TypeOK /\ OrderInv /\ PresentInv /\ CallInv
      /\ Fencing /\ ~Fencing' /\ ~Syncing' /\ ~Presenting' /\ caller' = "nobody"
      /\ HasFence' /\ InsertedFence = NextFence
  BY DEF QueueInv, InsertFence, Fencing, Syncing, Presenting, deviceVars, InsertedFence
<1>2. TypeOK' /\ OrderInv'
  BY <1>1, InsertKeepsOrder
<1>3. queue \in Seq(Commands) /\ Len(queue) \in Nat /\ NextFence \in Fences
  BY <1>1, NextFenceStep DEF TypeOK
<1>4. PICK c \in Commands : c.kind = "fence" /\ c.value = NextFence /\ queue' = Append(queue, c)
  BY <1>1, <1>3, CommandTypes DEF InsertFence
<1>5. /\ Len(queue') = Len(queue) + 1
      /\ \A i \in 1..Len(queue) : queue'[i] = queue[i] /\ i \in 1..Len(queue')
      /\ queue'[Len(queue')] = c
  BY <1>3, <1>4
<1>6. CallInv'
  BY <1>1 DEF CallInv, InsertFence, Fencing, Syncing
<1>8. PresentInv'
  <2>1. tracker.counter \in Slots /\ tracker.fences \in [Slots -> Fences]
    BY <1>1 DEF TypeOK
  <2>2. caller = "present" =>
          tracker'.fences = [tracker.fences EXCEPT ![tracker.counter] = NextFence]
    BY <1>1 DEF InsertFence, After
  <2>3. caller # "present" => tracker' = tracker
    BY DEF InsertFence
  <2>4. ASSUME NEW i \in 1..Len(queue'), queue'[i].kind = "present"
        PROVE  i # Len(queue') /\ \E s \in Slots : tracker'.fences[s] = queue'[i + 1].value
    <3>1. i \in 1..Len(queue) /\ queue[i].kind = "present" /\ i # Len(queue')
      BY <1>3, <1>4, <1>5, <2>4
    <3>2. CASE i = Len(queue)
      <4>1. caller = "present"
        BY <1>1, <3>1, <3>2 DEF PresentInv
      <4> QED
        BY <1>3, <1>4, <1>5, <2>1, <2>2, <3>1, <3>2, <4>1
    <3>3. CASE i # Len(queue)
      <4>1. PICK s \in Slots : tracker.fences[s] = queue[i + 1].value
        BY <1>1, <3>1, <3>3 DEF PresentInv
      <4>2. i + 1 \in 1..Len(queue) /\ queue'[i + 1] = queue[i + 1]
        BY <1>3, <1>5, <3>1, <3>3
      <4>3. IsFence(i + 1)
        <5>1. ~IsFence(i)
          BY <3>1 DEF IsFence
        <5>2. /\ IsFence(i) <=> (Len(queue) + 1 - i) % 2 = 0
              /\ IsFence(i + 1) <=> (Len(queue) + 1 - (i + 1)) % 2 = 0
          BY <1>1, <3>1, <4>2 DEF OrderInv, Owed
        <5> QED
          BY <1>3, <3>1, <5>1, <5>2
      <4>4. tracker'.fences[s] = tracker.fences[s]
        <5>1. CASE caller = "present"
          <6>1. s # tracker.counter
            BY <1>1, <4>1, <4>2, <4>3, <5>1 DEF PresentInv, Presenting
          <6> QED
            BY <2>1, <2>2, <5>1, <6>1
        <5> QED
          BY <2>3, <5>1
      <4> QED
        BY <3>1, <4>1, <4>2, <4>4
    <3> QED
      BY <3>2, <3>3
  <2> QED
    BY <1>1, <2>4 DEF PresentInv, Slots
<1> QED
  BY <1>1, <1>2, <1>6, <1>8 DEF QueueInv

(* Without SVGA_FIFO_CAP_FENCE, InsertFence writes nothing. *)
LEMMA NoFenceInserted ==
  ASSUME QueueInv, ~HasFence, InsertFence
  PROVE  QueueInv'
<1>1. /\ TypeOK /\ NoFencesInv /\ Fencing /\ ~Fencing' /\ ~Syncing' /\ ~Presenting'
      /\ caller' = "nobody" /\ pc' # "present" /\ UNCHANGED <<HasFence, queue>>
      /\ InsertedFence = 1 /\ 1 \in Fences
  BY ModulusType DEF QueueInv, InsertFence, Fencing, Syncing, Presenting, deviceVars,
     InsertedFence, Fences
<1>2. /\ Presents \in Nat \ {0} /\ tracker \in [counter : Slots, fences : [Slots -> Fences]]
      /\ Cardinality(PresentsIn(queue)) \in Nat
  BY <1>1, FenceAssumption, PresentsFinite DEF TypeOK
<1>3. tracker' = IF caller = "present" THEN After(1) ELSE tracker
  BY <1>1 DEF InsertFence
<1>4. After(1) \in [counter : Slots, fences : [Slots -> Fences]]
  BY <1>1, <1>2 DEF After, Slots
<1>6. TypeOK'
  <2>1. fence' \in [Buffer -> Fences]
    BY <1>1 DEF TypeOK, InsertFence
  <2>2. renewed' \subseteq Thread /\ erased' \subseteq Buffer
    BY <1>1 DEF TypeOK, InsertFence, SyncsOf
  <2> QED
    BY <1>1, <1>2, <1>3, <1>4, <2>1, <2>2 DEF TypeOK, InsertFence, deviceVars
<1>7. CallInv'
  BY <1>1 DEF QueueInv, CallInv, InsertFence, Fencing, Syncing
<1>9. IF tracker'.fences[tracker'.counter] = 0
      THEN /\ \A s \in Slots : tracker'.fences[s] = 0 <=> s >= tracker'.counter
           /\ Cardinality(PresentsIn(queue)) <= tracker'.counter + 0
      ELSE \A s \in Slots : tracker'.fences[s] # 0
  <2>1. CASE caller = "present"
    <3>1. /\ tracker'.counter = IF tracker.counter + 1 = Presents THEN 0 ELSE tracker.counter + 1
          /\ \A s \in Slots :
               tracker'.fences[s] = IF s = tracker.counter THEN 1 ELSE tracker.fences[s]
          /\ tracker.counter \in Slots /\ tracker'.counter \in Slots
      BY <1>2, <1>3, <1>4, <2>1 DEF After
    <3>2. CASE tracker.fences[tracker.counter] = 0
      <4>1. /\ \A s \in Slots : tracker.fences[s] = 0 <=> s >= tracker.counter
            /\ Cardinality(PresentsIn(queue)) <= tracker.counter + 1
        BY <1>1, <2>1, <3>2 DEF NoFencesInv
      <4>2. CASE tracker.counter + 1 = Presents
        <5>1. \A s \in Slots : tracker'.fences[s] # 0
          BY <1>2, <3>1, <4>1, <4>2 DEF Slots
        <5> QED
          BY <3>1, <5>1
      <4>3. CASE tracker.counter + 1 # Presents
        <5>1. tracker'.counter = tracker.counter + 1
          BY <3>1, <4>3
        <5>2. \A s \in Slots : tracker'.fences[s] = 0 <=> s >= tracker.counter + 1
          BY <1>2, <3>1, <4>1 DEF Slots
        <5>3. tracker'.fences[tracker'.counter] = 0
          BY <1>2, <3>1, <5>1, <5>2 DEF Slots
        <5> QED
          BY <1>2, <3>1, <4>1, <5>1, <5>2, <5>3 DEF Slots
      <4> QED
        BY <4>2, <4>3
    <3>3. CASE tracker.fences[tracker.counter] # 0
      BY <1>1, <3>1, <3>3 DEF NoFencesInv
    <3> QED
      BY <3>2, <3>3
  <2>2. CASE caller # "present"
    BY <1>1, <1>3, <2>2 DEF NoFencesInv
  <2> QED
    BY <2>1, <2>2
<1>10. NoFencesInv'
  BY <1>1, <1>9 DEF NoFencesInv, IsFence, PresentsIn, DMA, Slots
<1> QED
  BY <1>1, <1>6, <1>7, <1>10 DEF QueueInv

(* The device executes the oldest command; a fence that it executes is the *)
(* one after its last.                                                     *)
LEMMA ExecuteKeepsOrder ==
  ASSUME TypeOK, OrderInv, HostExecute
  PROVE  TypeOK' /\ OrderInv'
<1>1. /\ queue \in Seq(Commands) /\ Len(queue) \in Nat /\ Len(queue) > 0
      /\ Len(queue) <= QueueMax /\ FENCE \in Fences /\ 1 \in 1..Len(queue)
  BY DEF TypeOK, HostExecute
<1>2. /\ queue' = Tail(queue) /\ Len(queue') = Len(queue) - 1 /\ queue' \in Seq(Commands)
      /\ \A i \in 1..Len(queue') : queue'[i] = queue[i + 1] /\ i + 1 \in 1..Len(queue)
      /\ Head(queue) = queue[1] /\ queue[1] \in Commands
  BY <1>1 DEF HostExecute
<1>3. (Fencing' <=> Fencing) /\ NextFence' = NextFence
  BY DEF HostExecute, Fencing, NextFence
<1>4. FENCE' = IF IsFence(1) THEN FenceAfter(FENCE, 1) ELSE FENCE
  <2>1. IsFence(1) => queue[1].value = FenceAfter(FENCE, 1)
    BY <1>1 DEF OrderInv
  <2> QED
    BY <1>2, <2>1 DEF HostExecute, IsFence
<1>5. FENCE' \in Fences
  BY <1>1, <1>4, ModulusType, FenceAfterType
<1>6. TypeOK'
  BY <1>1, <1>2, <1>5, ModulusType DEF TypeOK, HostExecute, Slots, syncVars, callVars
<1>7. ASSUME NEW k \in 1..(FenceModulus - 2)
      PROVE  FenceAfter(FENCE', k) = FenceAfter(FENCE, IF IsFence(1) THEN k + 1 ELSE k)
  BY <1>1, <1>4, <1>7, FenceAfterAfter
<1>8. /\ Owed \in {0, 1} /\ Owed' = Owed
      /\ \A i \in 1..Len(queue) : IsFence(i) <=> (Len(queue) + Owed - i) % 2 = 0
      /\ NextFence = FenceAfter(FENCE, (Len(queue) + 3 - Owed) \div 2)
  BY <1>3 DEF OrderInv, Owed
<1>9. ASSUME NEW i \in 1..Len(queue')
      PROVE  /\ IsFence(i)' <=> (Len(queue') + Owed - i) % 2 = 0
             /\ IsFence(i)' => queue'[i].value = FenceAfter(FENCE', (i + 1) \div 2)
  <2>1. i + 1 \in 1..Len(queue) /\ queue'[i] = queue[i + 1] /\ (IsFence(i)' <=> IsFence(i + 1))
    BY <1>2 DEF IsFence
  <2>2. IsFence(i + 1) <=> (Len(queue') + Owed - i) % 2 = 0
    BY <1>1, <1>2, <1>8, <2>1
  <2>3. ASSUME IsFence(i + 1)
        PROVE  queue[i + 1].value = FenceAfter(FENCE', (i + 1) \div 2)
    <3>1. queue[i + 1].value = FenceAfter(FENCE, (i + 2) \div 2)
      <4>1. queue[i + 1].value = FenceAfter(FENCE, ((i + 1) + 1) \div 2)
        BY <2>1, <2>3 DEF OrderInv
      <4> QED
        BY <4>1
    <3>2. (i + 2) \div 2 = IF IsFence(1) THEN ((i + 1) \div 2) + 1 ELSE (i + 1) \div 2
      <4>1. (Len(queue) + Owed - (i + 1)) % 2 = 0
        BY <1>8, <2>1, <2>3
      <4>2. IsFence(1) <=> (Len(queue) + Owed - 1) % 2 = 0
        BY <1>1, <1>8
      <4> QED
        BY <1>1, <1>8, <4>1, <4>2
    <3>3. (i + 1) \div 2 \in 1..(FenceModulus - 2)
      BY <1>1, <1>2, ModulusType
    <3> QED
      BY <1>7, <3>1, <3>2, <3>3
  <2> QED
    BY <2>1, <2>2, <2>3
<1>10. NextFence = FenceAfter(FENCE', (Len(queue') + 3 - Owed) \div 2)
  <2>1. (Len(queue) + 3 - Owed) \div 2 =
          IF IsFence(1) THEN ((Len(queue') + 3 - Owed) \div 2) + 1 ELSE (Len(queue') + 3 - Owed) \div 2
    <3>1. IsFence(1) <=> (Len(queue) + Owed - 1) % 2 = 0
      BY <1>1, <1>8
    <3>2. CASE Owed = 0
      BY <1>1, <1>2, <3>1, <3>2
    <3>3. CASE Owed = 1
      BY <1>1, <1>2, <3>1, <3>3
    <3> QED
      BY <1>8, <3>2, <3>3
  <2>2. (Len(queue') + 3 - Owed) \div 2 \in 1..(FenceModulus - 2)
    BY <1>1, <1>2, <1>8, ModulusType
  <2> QED
    BY <1>7, <1>8, <2>1, <2>2
<1>11. OrderInv'
  BY <1>3, <1>8, <1>9, <1>10 DEF OrderInv, FenceAfter
<1> QED
  BY <1>6, <1>11

LEMMA HostExecuteKeeps ==
  ASSUME QueueInv, HostExecute
  PROVE  QueueInv'
<1>1. TypeOK /\ queue \in Seq(Commands) /\ Len(queue) \in Nat /\ Len(queue) > 0 /\ queue # <<>>
  BY DEF QueueInv, TypeOK, HostExecute
<1>2. /\ queue' = Tail(queue) /\ Len(queue') = Len(queue) - 1 /\ queue' \in Seq(Commands)
      /\ \A i \in 1..Len(queue') : queue'[i] = queue[i + 1] /\ i + 1 \in 1..Len(queue)
      /\ \A i \in 1..Len(queue') : IsFence(i)' <=> IsFence(i + 1)
  BY <1>1 DEF HostExecute, IsFence
<1>3. /\ UNCHANGED <<HasFence, REG_BUSY, fence, tracker, pc, target, caller, call>>
      /\ (Fencing' <=> Fencing) /\ (Syncing' <=> Syncing) /\ (Presenting' <=> Presenting)
  BY DEF HostExecute, Fencing, Syncing, Presenting, syncVars, callVars
<1>4. CallInv'
  BY <1>1, <1>3 DEF QueueInv, CallInv
<1>5. ASSUME HasFence
      PROVE  TypeOK' /\ OrderInv'
  BY <1>1, <1>5, ExecuteKeepsOrder DEF QueueInv
<1>7. ASSUME HasFence
      PROVE  PresentInv'
  <2>1. ASSUME NEW i \in 1..Len(queue'), queue'[i].kind = "present"
        PROVE  IF i = Len(queue') THEN Fencing /\ caller = "present"
               ELSE \E s \in Slots : tracker.fences[s] = queue'[i + 1].value
    <3>1. IF i + 1 = Len(queue) THEN Fencing /\ caller = "present"
          ELSE \E s \in Slots : tracker.fences[s] = queue[(i + 1) + 1].value
      BY <1>2, <1>7, <2>1 DEF QueueInv, PresentInv
    <3>2. Len(queue') \in Nat /\ (i + 1 = Len(queue) <=> i = Len(queue'))
      BY <1>1, <1>2
    <3>3. CASE i = Len(queue')
      BY <3>1, <3>2, <3>3
    <3>4. CASE i # Len(queue')
      <4>1. i + 1 \in 1..Len(queue')
        BY <3>2, <3>4
      <4>2. queue'[i + 1] = queue[(i + 1) + 1]
        BY <1>2, <4>1
      <4> QED
        BY <3>1, <3>2, <3>4, <4>2
    <3> QED
      BY <3>3, <3>4
  <2>2. Presenting => \A i \in 1..Len(queue') :
          IsFence(i)' => queue'[i].value # tracker.fences[tracker.counter]
    BY <1>2, <1>7 DEF QueueInv, PresentInv
  <2> QED
    BY <1>3, <2>1, <2>2 DEF PresentInv, Slots
<1>8. ASSUME ~HasFence
      PROVE  TypeOK' /\ NoFencesInv'
  <2>1. NoFencesInv
    BY <1>8 DEF QueueInv
  <2>2. FENCE' = FENCE
    <3>1. 1 \in 1..Len(queue) /\ Head(queue) = queue[1]
      BY <1>1
    <3> QED
      BY <2>1, <3>1 DEF NoFencesInv, IsFence, HostExecute
  <2>3. TypeOK'
    BY <1>1, <1>2, <2>2, ModulusType DEF TypeOK, HostExecute, Slots, syncVars, callVars
  <2>4. Cardinality(PresentsIn(queue')) <= Cardinality(PresentsIn(queue))
    BY <1>1, <1>2, PresentsTail
  <2>5. /\ Cardinality(PresentsIn(queue)) \in Nat /\ Cardinality(PresentsIn(queue')) \in Nat
        /\ Presents \in Nat /\ tracker.counter \in Nat
    <3>1. Presents \in Nat /\ tracker.counter \in Nat
      BY <1>1, FenceAssumption DEF TypeOK, Slots
    <3> QED
      BY <1>1, <1>2, <3>1, PresentsFinite
  <2>6. \A i \in 1..Len(queue') : ~IsFence(i)'
    BY <1>2, <2>1 DEF NoFencesInv
  <2>7. Cardinality(PresentsIn(queue')) <= Presents
    BY <2>1, <2>4, <2>5 DEF NoFencesInv
  <2>8. IF tracker.fences[tracker.counter] = 0
        THEN /\ \A s \in Slots : tracker.fences[s] = 0 <=> s >= tracker.counter
             /\ Cardinality(PresentsIn(queue'))
                  <= tracker.counter + (IF Fencing /\ caller = "present" THEN 1 ELSE 0)
        ELSE /\ \A s \in Slots : tracker.fences[s] # 0
             /\ pc = "present" => Cardinality(PresentsIn(queue')) = 0
             /\ Fencing /\ caller = "present" => Cardinality(PresentsIn(queue')) <= 1
    BY <2>1, <2>4, <2>5 DEF NoFencesInv
  <2> QED
    BY <1>3, <2>3, <2>6, <2>7, <2>8 DEF NoFencesInv, PresentsIn, DMA, Slots
<1> QED
  BY <1>3, <1>4, <1>5, <1>7, <1>8 DEF QueueInv

LEMMA SyncEndsKeep ==
  ASSUME QueueInv, SyncAtOnce \/ SyncEnd
  PROVE  QueueInv'
<1>1. CASE SyncAtOnce
  <2>1. Syncing /\ SyncReturns /\ UNCHANGED REG_BUSY
    BY <1>1 DEF SyncAtOnce, Syncing
  <2> QED
    BY <1>1, <2>1, SyncReturnsKeeps DEF SyncAtOnce
<1>2. CASE SyncEnd
  <2>1. Syncing /\ SyncReturns /\ UNCHANGED REG_BUSY
    BY <1>2 DEF SyncEnd, Syncing
  <2>2. \/ HasFence /\ HasFencePassed(target)
        \/ queue = <<>>
    BY <1>2 DEF SyncEnd, QueueInv, CallInv
  <2> QED
    BY <2>1, <2>2, SyncReturnsKeeps
<1> QED
  BY <1>1, <1>2

(* The other steps leave the FIFO, the fences and the tracker alone. *)
LEMMA NothingMoves ==
  ASSUME QueueInv, CallInv', ~Fencing, ~Fencing', ~Presenting, ~Presenting',
         REG_BUSY' \in BOOLEAN, target' \in Fences,
         pc' \in {"idle", "ring", "ring_sync", "sync", "sync_loop"},
         caller' \in Buffer \cup Thread \cup {"present", "nobody"},
         call' \in [Thread -> Calls],
         UNCHANGED <<HasFence, queue, FENCE, m_next_fence, fence, tracker, renewed, erased>>
  PROVE  QueueInv'
<1>1. TypeOK'
  BY DEF QueueInv, TypeOK
<1>2. ASSUME HasFence
      PROVE  OrderInv' /\ PresentInv'
  <2>1. OrderInv /\ PresentInv
    BY <1>2 DEF QueueInv
  <2>2. OrderInv'
    BY <2>1 DEF OrderInv, Owed, IsFence, NextFence, FenceAfter
  <2>4. PresentInv'
    BY <2>1 DEF PresentInv, Slots
  <2> QED
    BY <2>2, <2>4
<1>3. ASSUME ~HasFence
      PROVE  NoFencesInv'
  <2>1. NoFencesInv
    BY <1>3 DEF QueueInv
  <2>2. pc' # "present"
    OBVIOUS
  <2> QED
    BY <2>1, <2>2 DEF NoFencesInv, IsFence, DMA, PresentsIn, Slots
<1> QED
  BY <1>1, <1>2, <1>3 DEF QueueInv

(* The steps that only change FIFO_BUSY, SVGA_REG_BUSY and the threads. *)
LEMMA SignalsKeep ==
  ASSUME QueueInv, UNCHANGED <<HasFence, queue, FENCE, m_next_fence, fence, tracker, pc, syncVars, callVars>>,
         REG_BUSY' \in BOOLEAN, pc = "sync_loop" /\ ~REG_BUSY' => queue = <<>>
  PROVE  QueueInv'
<1>1. (Fencing' <=> Fencing) /\ (Syncing' <=> Syncing) /\ (Presenting' <=> Presenting)
      /\ UNCHANGED <<HasFence, queue, FENCE, m_next_fence, fence, tracker, pc, target, caller, call, renewed, erased>>
  BY DEF Fencing, Syncing, Presenting, syncVars, callVars
<1>2. CallInv'
  BY <1>1 DEF QueueInv, CallInv
<1>3. TypeOK'
  BY <1>1 DEF QueueInv, TypeOK
<1>4. ASSUME HasFence
      PROVE  OrderInv' /\ PresentInv'
  <2>1. OrderInv /\ PresentInv
    BY <1>4 DEF QueueInv
  <2>2. OrderInv'
    BY <1>1, <2>1 DEF OrderInv, Owed, IsFence, NextFence, FenceAfter
  <2>4. PresentInv'
    BY <1>1, <2>1 DEF PresentInv, Slots, IsFence
  <2> QED
    BY <2>2, <2>4
<1>5. ~HasFence => NoFencesInv'
  BY <1>1 DEF QueueInv, NoFencesInv, IsFence, DMA, PresentsIn, Slots
<1> QED
  BY <1>1, <1>2, <1>3, <1>4, <1>5 DEF QueueInv

-----------------------------------------------------------------------------
(* The DMA of the buffers *)

LEMMA CoveredAppend ==
  ASSUME NEW q \in Seq(Commands), NEW c \in Commands, NEW has \in BOOLEAN,
         NEW open \in BOOLEAN, NEW b, NEW f,
         Covered(q, FALSE, has, b, f), c = DMA(b) => open
  PROVE  Covered(Append(q, c), open, has, b, f)
<1>1. /\ Len(Append(q, c)) = Len(q) + 1 /\ Len(q) \in Nat
      /\ \A i \in 1..(Len(q) + 1) : Append(q, c)[i] = IF i = Len(q) + 1 THEN c ELSE q[i]
  OBVIOUS
<1>2. ASSUME NEW i \in 1..(Len(q) + 1), Append(q, c)[i] = DMA(b), ~open
      PROVE  IF has THEN \E j \in (i + 1)..(Len(q) + 1) :
                           Append(q, c)[j].kind = "fence" /\ Append(q, c)[j].value = f
             ELSE f # 0
  <2>1. i \in 1..Len(q) /\ q[i] = DMA(b)
    BY <1>1, <1>2
  <2>2. CASE has
    <3>1. PICK j \in (i + 1)..Len(q) : q[j].kind = "fence" /\ q[j].value = f
      BY <2>1, <2>2 DEF Covered
    <3>2. j \in (i + 1)..(Len(q) + 1) /\ Append(q, c)[j] = q[j]
      BY <1>1, <2>1, <3>1
    <3> QED
      BY <2>2, <3>1, <3>2
  <2>3. CASE ~has
    BY <2>1, <2>3 DEF Covered
  <2> QED
    BY <2>2, <2>3
<1> QED
  BY <1>1, <1>2 DEF Covered

LEMMA CoveredByLast ==
  ASSUME NEW q \in Seq(Commands), NEW c \in Commands, NEW b \in Buffer, c.kind = "fence"
  PROVE  Covered(Append(q, c), FALSE, TRUE, b, c.value)
<1>1. /\ Len(Append(q, c)) = Len(q) + 1 /\ Len(q) \in Nat
      /\ Append(q, c)[Len(q) + 1] = c
  OBVIOUS
<1>2. c # DMA(b)
  BY CommandKinds
<1>3. ASSUME NEW i \in 1..(Len(q) + 1), Append(q, c)[i] = DMA(b)
      PROVE  Len(q) + 1 \in (i + 1)..(Len(q) + 1)
  BY <1>1, <1>2, <1>3
<1> QED
  BY <1>1, <1>3 DEF Covered

LEMMA CoveredTail ==
  ASSUME NEW q \in Seq(Commands), q # <<>>, NEW has \in BOOLEAN, NEW open \in BOOLEAN,
         NEW b, NEW f, Covered(q, open, has, b, f)
  PROVE  Covered(Tail(q), open, has, b, f)
<1>1. /\ Len(Tail(q)) = Len(q) - 1 /\ Len(q) \in Nat
      /\ \A i \in 1..(Len(q) - 1) : Tail(q)[i] = q[i + 1]
  OBVIOUS
<1>2. ASSUME NEW i \in 1..Len(Tail(q)), Tail(q)[i] = DMA(b), ~open
      PROVE  IF has THEN \E j \in (i + 1)..Len(Tail(q)) :
                           Tail(q)[j].kind = "fence" /\ Tail(q)[j].value = f
             ELSE f # 0
  <2>1. i + 1 \in 1..Len(q) /\ q[i + 1] = DMA(b)
    BY <1>1, <1>2
  <2>2. CASE has
    <3>1. PICK j \in ((i + 1) + 1)..Len(q) : q[j].kind = "fence" /\ q[j].value = f
      BY <1>2, <2>1, <2>2 DEF Covered
    <3>2. j - 1 \in (i + 1)..Len(Tail(q)) /\ Tail(q)[j - 1] = q[j]
      BY <1>1, <2>1, <3>1
    <3> QED
      BY <2>2, <3>1, <3>2
  <2>3. CASE ~has
    BY <1>2, <2>1, <2>3 DEF Covered
  <2> QED
    BY <2>2, <2>3
<1> QED
  BY <1>2 DEF Covered

(* Once SyncToFence has waited for the fence, no DMA it covers is left.    *)
LEMMA WaitedFor ==
  ASSUME QueueInv, NEW b \in Buffer, NEW f, NEW i \in 1..Len(queue), queue[i] = DMA(b),
         Covered(queue, FALSE, HasFence, b, f),
         f = 0 \/ (HasFence /\ HasFencePassed(f)) \/ queue = <<>>
  PROVE  FALSE
<1>1. TypeOK /\ Len(queue) \in Nat /\ queue # <<>>
  BY DEF QueueInv, TypeOK
<1>2. CASE HasFence
  <2>1. PICK j \in (i + 1)..Len(queue) : queue[j].kind = "fence" /\ queue[j].value = f
    BY <1>2 DEF Covered
  <2>2. j \in 1..Len(queue) /\ IsFence(j)
    BY <1>1, <2>1 DEF IsFence
  <2>3. f # 0 /\ ~HasFencePassed(f)
    BY <1>1, <1>2, <2>1, <2>2, PendingNotPassed DEF QueueInv
  <2> QED
    BY <1>1, <2>3
<1>3. CASE ~HasFence
  BY <1>1, <1>3 DEF Covered
<1> QED
  BY <1>2, <1>3

LEMMA StateTypes ==
  ASSUME QueueInv
  PROVE  /\ queue \in Seq(Commands) /\ HasFence \in BOOLEAN
         /\ \A b \in Buffer : Open(b) \in BOOLEAN /\ b # "present"
         /\ \A t \in Thread :
              /\ t # "present"
              /\ call[t].at = "outside" \/ call[t].buffer \in Buffer
              /\ call[t].at = "waiting" <=> Syncing /\ caller = t
BY CallKinds, FenceAssumption DEF QueueInv, TypeOK, CallInv, Open, Fencing

(* A submitted DMA is open until its fence is submitted.                   *)
LEMMA SubmitKeepsDMA ==
  ASSUME FenceInv, ~Fencing, NEW c \in Commands, NEW for \in Buffer \cup {"present"},
         NEW next \in {"fence", "fence_ring"}, Submit(c, for, next),
         \A b \in Buffer : c = DMA(b) => for = b
  PROVE  DMAInv'
<1>1. /\ QueueInv /\ DMAInv /\ queue' = Append(queue, c)
      /\ UNCHANGED <<HasFence, fence, call, target, renewed, erased>>
  BY DEF FenceInv, Submit, deviceVars, callVars
<1>2. \A b \in Buffer : ~Open(b) /\ (Open(b)' <=> for = b) /\ Open(b)' \in BOOLEAN
  BY DEF Open, Fencing, Submit
<1>3. ASSUME NEW b \in Buffer, NEW f, Covered(queue, Open(b), HasFence, b, f)
      PROVE  Covered(queue', Open(b)', HasFence, b, f)
  <2>1. Covered(queue, FALSE, HasFence, b, f)
    BY <1>2, <1>3 DEF Covered
  <2> QED
    BY <1>1, <1>2, <2>1, CoveredAppend, StateTypes
<1>4. ASSUME NEW b \in Buffer
      PROVE  BufferInv(b)'
  BY <1>1, <1>3 DEF DMAInv, BufferInv
<1>5. ASSUME NEW t \in Thread
      PROVE  ThreadInv(t)'
  <2>1. Awaited(t)' = Awaited(t)
    BY <1>1 DEF Awaited
  <2> QED
    BY <1>1, <1>3, <2>1, StateTypes DEF DMAInv, ThreadInv, Open
<1> QED
  BY <1>4, <1>5 DEF DMAInv

(* The fence of an operation covers all the DMA of its buffer, and only    *)
(* the threads that are in sync of the buffer do not wait for it.          *)
LEMMA InsertKeepsDMA ==
  ASSUME FenceInv, InsertFence
  PROVE  DMAInv'
<1>1. /\ QueueInv /\ DMAInv /\ TypeOK /\ Fencing /\ ~Fencing' /\ caller \in Buffer \cup {"present"}
      /\ UNCHANGED <<HasFence, call, target>> /\ queue \in Seq(Commands)
  BY DEF FenceInv, QueueInv, TypeOK, CallInv, InsertFence, Fencing, deviceVars
<1>2. NextFence \in Fences /\ NextFence # 0
  BY <1>1, NextFenceStep DEF TypeOK
<1>3. /\ HasFence => \E c \in Commands :
                       c.kind = "fence" /\ c.value = NextFence /\ queue' = Append(queue, c)
      /\ ~HasFence => queue' = queue
  BY <1>1, <1>2, CommandTypes DEF InsertFence
<1>4. \A b \in Buffer : (Open(b) <=> caller = b) /\ ~Open(b)'
  BY <1>1 DEF Open
<1>5. ASSUME NEW b \in Buffer, NEW f, caller # b, Covered(queue, Open(b), HasFence, b, f)
      PROVE  Covered(queue', FALSE, HasFence, b, f)
  <2>1. Covered(queue, FALSE, HasFence, b, f)
    BY <1>4, <1>5 DEF Covered
  <2>2. CASE HasFence
    <3>1. PICK c \in Commands : c.kind = "fence" /\ queue' = Append(queue, c)
      BY <1>3, <2>2
    <3>2. c # DMA(b)
      BY <3>1, CommandKinds
    <3> QED
      BY <1>1, <2>1, <2>2, <3>1, <3>2, CoveredAppend
  <2>3. CASE ~HasFence
    BY <1>3, <2>1, <2>3
  <2> QED
    BY <2>2, <2>3
<1>6. ASSUME NEW b \in Buffer
      PROVE  BufferInv(b)'
  <2>1. CASE caller = b
    <3>1. fence'[b] = InsertedFence /\ b \notin erased'
      BY <1>1, <2>1, StateTypes DEF InsertFence, TypeOK
    <3>2. Covered(queue', FALSE, HasFence, b, InsertedFence)
      <4>1. CASE HasFence
        <5>1. InsertedFence = NextFence
          BY <4>1 DEF InsertedFence
        <5> QED
          BY <1>1, <1>3, <4>1, <5>1, CoveredByLast
      <4>2. CASE ~HasFence
        BY <4>2 DEF Covered, InsertedFence
      <4> QED
        BY <4>1, <4>2
    <3> QED
      BY <1>1, <1>4, <3>1, <3>2 DEF BufferInv, Covered
  <2>2. CASE caller # b
    <3>1. fence'[b] = fence[b] /\ (b \in erased' <=> b \in erased)
      BY <1>1, <2>2 DEF InsertFence, TypeOK
    <3>2. BufferInv(b)
      BY <1>1 DEF DMAInv
    <3>3. b \notin erased => Covered(queue', FALSE, HasFence, b, fence[b])
      BY <1>5, <2>2, <3>2 DEF BufferInv
    <3> QED
      BY <1>1, <1>4, <3>1, <3>2, <3>3 DEF BufferInv, Covered
  <2> QED
    BY <2>1, <2>2
<1>7. ASSUME NEW t \in Thread, call[t].at # "outside", t \notin renewed'
      PROVE  Covered(queue', FALSE, HasFence, call[t].buffer, Awaited(t))
  <2>1. call[t].buffer \in Buffer /\ t \notin renewed /\ caller # call[t].buffer
    BY <1>1, <1>7, StateTypes DEF InsertFence, SyncsOf
  <2>2. Covered(queue, Open(call[t].buffer), HasFence, call[t].buffer, Awaited(t))
    BY <1>1, <1>7, <2>1 DEF DMAInv, ThreadInv
  <2> QED
    BY <1>5, <2>1, <2>2
<1>8. ASSUME NEW t \in Thread
      PROVE  ThreadInv(t)'
  <2>1. Awaited(t)' = Awaited(t)
    BY <1>1 DEF Awaited
  <2> QED
    BY <1>1, <1>7, <2>1 DEF ThreadInv, Covered
<1> QED
  BY <1>6, <1>8 DEF DMAInv

LEMMA ExecuteKeepsDMA ==
  ASSUME FenceInv, HostExecute
  PROVE  DMAInv'
<1>1. /\ QueueInv /\ DMAInv /\ queue # <<>> /\ queue' = Tail(queue)
      /\ UNCHANGED <<HasFence, fence, pc, target, caller, call, renewed, erased>>
  BY DEF FenceInv, HostExecute, syncVars, callVars
<1>2. ASSUME NEW b \in Buffer, NEW f, Covered(queue, Open(b), HasFence, b, f)
      PROVE  Covered(queue', Open(b), HasFence, b, f)
  BY <1>1, <1>2, CoveredTail, StateTypes
<1>3. \A b : Open(b)' = Open(b)
  BY <1>1 DEF Open, Fencing
<1>4. ASSUME NEW b \in Buffer
      PROVE  BufferInv(b)'
  BY <1>1, <1>2, <1>3 DEF DMAInv, BufferInv
<1>5. ASSUME NEW t \in Thread
      PROVE  ThreadInv(t)'
  <2>1. Awaited(t)' = Awaited(t)
    BY <1>1 DEF Awaited
  <2> QED
    BY <1>1, <1>2, <2>1, StateTypes DEF DMAInv, ThreadInv, Open, Fencing
<1> QED
  BY <1>4, <1>5 DEF DMAInv

(* After SyncToFence no DMA is left that the thread waited for.            *)
LEMMA SyncReturnsKeepsDMA ==
  ASSUME FenceInv, Syncing, SyncReturns,
         \/ target = 0
         \/ HasFence /\ HasFencePassed(target)
         \/ queue = <<>>
  PROVE  DMAInv'
<1>1. /\ QueueInv /\ DMAInv /\ TypeOK /\ ~Fencing /\ ~Fencing'
      /\ UNCHANGED <<HasFence, queue, fence, renewed, erased>>
      /\ call \in [Thread -> Calls] /\ caller \in Thread \cup {"present"}
  BY DEF FenceInv, QueueInv, TypeOK, CallInv, SyncReturns, Fencing, Syncing
<1>2. \A b : ~Open(b) /\ ~Open(b)'
  BY <1>1 DEF Open
<1>3. ASSUME NEW b \in Buffer
      PROVE  BufferInv(b)'
  BY <1>1, <1>2 DEF DMAInv, BufferInv, Covered
<1>4. ASSUME NEW t \in Thread, call'[t].at # "outside", t \notin renewed
      PROVE  Covered(queue, FALSE, HasFence, call'[t].buffer, Awaited(t)')
  <2>1. CASE caller = t
    <3>1. call[t].at = "waiting" /\ call[t].buffer \in Buffer /\ caller # "present"
      BY <1>1, <2>1, StateTypes
    <3>2. call'[t] = Returned(call[t].buffer)
      BY <1>1, <2>1, <3>1 DEF SyncReturns
    <3>3. call'[t].buffer = call[t].buffer
      BY <3>1, <3>2, CallKinds
    <3>4. Covered(queue, FALSE, HasFence, call[t].buffer, target)
      <4>1. ThreadInv(t) /\ Awaited(t) = target
        BY <1>1, <3>1 DEF DMAInv, Awaited
      <4> QED
        BY <1>2, <1>4, <3>1, <4>1 DEF ThreadInv, Covered
    <3>5. \A i \in 1..Len(queue) : queue[i] # DMA(call[t].buffer)
      BY <1>1, <3>1, <3>4, WaitedFor
    <3> QED
      BY <3>3, <3>5 DEF Covered
  <2>2. CASE caller # t
    <3>1. call'[t] = call[t] /\ call[t].at # "waiting"
      BY <1>1, <2>2, StateTypes DEF SyncReturns
    <3>2. Awaited(t)' = Awaited(t)
      BY <3>1 DEF Awaited
    <3> QED
      BY <1>1, <1>2, <1>4, <3>1, <3>2 DEF DMAInv, ThreadInv, Covered
  <2> QED
    BY <2>1, <2>2
<1>5. ASSUME NEW t \in Thread
      PROVE  ThreadInv(t)'
  BY <1>1, <1>4 DEF ThreadInv, Covered
<1> QED
  BY <1>3, <1>5 DEF DMAInv

(* The steps of VendorTransferBuffer::sync outside of the lock. *)
LEMMA CallsKeepQueue ==
  ASSUME QueueInv, UNCHANGED <<queue, deviceVars, m_next_fence, tracker, pc, syncVars>>,
         fence' \in [Buffer -> Fences], renewed' \subseteq Thread, erased' \subseteq Buffer,
         NEW t \in Thread, NEW c \in Calls, call' = [call EXCEPT ![t] = c],
         call[t].at # "waiting", c.at # "waiting"
  PROVE  QueueInv'
<1>1. UNCHANGED <<queue, HasFence, FENCE, REG_BUSY, m_next_fence, tracker, pc, target, caller>>
  BY DEF deviceVars, syncVars
<1>2. TypeOK'
  BY <1>1 DEF QueueInv, TypeOK
<1>3. CallInv'
  <2>1. \A s \in Thread : call'[s].at = "waiting" <=> call[s].at = "waiting"
    BY DEF QueueInv, TypeOK
  <2> QED
    BY <1>1, <2>1 DEF QueueInv, CallInv, Fencing, Syncing
<1>4. ASSUME HasFence
      PROVE  OrderInv' /\ PresentInv'
  <2>1. OrderInv /\ PresentInv
    BY <1>4 DEF QueueInv
  <2>2. OrderInv'
    BY <1>1, <2>1 DEF OrderInv, Owed, Fencing, IsFence, NextFence, FenceAfter
  <2> QED
    BY <1>1, <2>1, <2>2 DEF PresentInv, Presenting, Fencing, Slots, IsFence
<1>5. ~HasFence => NoFencesInv'
  BY <1>1 DEF QueueInv, NoFencesInv, Fencing, IsFence, DMA, PresentsIn, Slots
<1> QED
  BY <1>1, <1>2, <1>3, <1>4, <1>5 DEF QueueInv

LEMMA SyncCalledKeeps ==
  ASSUME FenceInv, NEW t \in Thread, NEW b \in Buffer, SyncCalled(t, b)
  PROVE  FenceInv'
<1>1. /\ QueueInv /\ DMAInv /\ TypeOK /\ call \in [Thread -> Calls]
      /\ fence[b] \in Fences /\ fence[b] # 0 /\ call[t] = Outside
      /\ call' = [call EXCEPT ![t] = Called(b, fence[b])]
      /\ UNCHANGED <<queue, HasFence, pc, target, caller, fence, renewed, erased>>
  BY DEF FenceInv, QueueInv, TypeOK, SyncCalled, deviceVars, syncVars
<1>2. QueueInv'
  <2>1. Called(b, fence[b]) \in Calls /\ Called(b, fence[b]).at = "called" /\ Outside.at = "outside"
    BY <1>1, CallKinds
  <2>2. fence' \in [Buffer -> Fences] /\ renewed' \subseteq Thread /\ erased' \subseteq Buffer
    BY <1>1 DEF TypeOK
  <2>3. UNCHANGED <<queue, deviceVars, m_next_fence, tracker, pc, syncVars>>
    BY DEF SyncCalled
  <2> QED
    BY <1>1, <2>1, <2>2, <2>3, CallsKeepQueue
<1>3. \A e : Open(e)' = Open(e)
  BY <1>1 DEF Open, Fencing
<1>4. ASSUME NEW e \in Buffer
      PROVE  BufferInv(e)'
  BY <1>1, <1>3 DEF DMAInv, BufferInv
<1>5. ASSUME NEW s \in Thread, call'[s].at # "outside", s \notin renewed
      PROVE  Covered(queue, Open(call'[s].buffer), HasFence, call'[s].buffer, Awaited(s)')
  <2>1. CASE s = t
    <3>1. call'[s] = Called(b, fence[b])
      BY <1>1, <2>1
    <3>2. call'[s].buffer = b /\ Awaited(s)' = fence[b]
      BY <1>1, <3>1, CallKinds DEF Awaited
    <3>3. BufferInv(b)
      BY <1>1 DEF DMAInv
    <3> QED
      BY <1>1, <3>2, <3>3 DEF BufferInv
  <2>2. CASE s # t
    <3>1. call'[s] = call[s] /\ ThreadInv(s)
      BY <1>1, <2>2 DEF DMAInv
    <3>2. Awaited(s)' = Awaited(s)
      BY <1>1, <3>1 DEF Awaited
    <3> QED
      BY <1>5, <3>1, <3>2 DEF ThreadInv
  <2> QED
    BY <2>1, <2>2
<1>6. ASSUME NEW s \in Thread
      PROVE  ThreadInv(s)'
  BY <1>1, <1>5 DEF ThreadInv, Open, Fencing
<1> QED
  BY <1>2, <1>4, <1>6 DEF FenceInv, DMAInv

(* A thread sets the fence to 0: no DMA is left, or the buffer is erased.  *)
LEMMA FenceClearedKeeps ==
  ASSUME FenceInv, NEW t \in Thread, FenceCleared(t)
  PROVE  FenceInv'
<1> DEFINE b == call[t].buffer
<1>1. /\ QueueInv /\ DMAInv /\ TypeOK /\ call \in [Thread -> Calls] /\ fence \in [Buffer -> Fences]
      /\ call[t].at = "returned" /\ call' = [call EXCEPT ![t] = Outside]
      /\ UNCHANGED <<queue, HasFence, pc, target, caller>>
      /\ fence' = [fence EXCEPT ![b] = 0] /\ renewed' = renewed \ {t}
      /\ erased' = IF t \in renewed THEN erased \cup {b} ELSE erased \ {b}
  BY DEF FenceInv, QueueInv, TypeOK, FenceCleared, deviceVars, syncVars
<1>2. b \in Buffer
  BY <1>1, StateTypes
<1> HIDE DEF b
<1>3. QueueInv'
  <2>1. fence' \in [Buffer -> Fences] /\ renewed' \subseteq Thread /\ erased' \subseteq Buffer
    BY <1>1, <1>2, ModulusType DEF TypeOK, Fences
  <2> QED
    BY <1>1, <2>1, CallsKeepQueue, CallKinds DEF FenceCleared
<1>4. \A e : Open(e)' = Open(e)
  BY <1>1 DEF Open, Fencing
<1>5. ASSUME NEW e \in Buffer
      PROVE  BufferInv(e)'
  <2>1. CASE e = b
    <3>1. fence'[e] = 0
      BY <1>1, <1>2, <2>1
    <3>2. t \notin renewed => Covered(queue, Open(b), HasFence, b, 0)
      <4>1. ThreadInv(t) /\ Awaited(t) = 0
        BY <1>1 DEF DMAInv, Awaited
      <4> QED
        BY <1>1, <4>1 DEF ThreadInv, b
    <3> QED
      BY <1>1, <1>4, <2>1, <3>1, <3>2 DEF BufferInv
  <2>2. CASE e # b
    <3>1. fence'[e] = fence[e] /\ (e \in erased' <=> e \in erased) /\ BufferInv(e)
      BY <1>1, <2>2 DEF DMAInv
    <3> QED
      BY <1>1, <1>4, <3>1 DEF BufferInv
  <2> QED
    BY <2>1, <2>2
<1>6. ASSUME NEW s \in Thread
      PROVE  ThreadInv(s)'
  <2>1. CASE s = t
    BY <1>1, <2>1, CallKinds DEF ThreadInv
  <2>2. CASE s # t
    <3>1. call'[s] = call[s] /\ ThreadInv(s) /\ (s \in renewed' <=> s \in renewed)
      BY <1>1, <2>2 DEF DMAInv
    <3>2. Awaited(s)' = Awaited(s)
      BY <1>1, <3>1 DEF Awaited
    <3> QED
      BY <1>1, <3>1, <3>2 DEF ThreadInv, Open, Fencing
  <2> QED
    BY <2>1, <2>2
<1> QED
  BY <1>3, <1>5, <1>6 DEF FenceInv, DMAInv

(* A thread in sync gets the lock; SyncToFence waits for what it has read. *)
LEMMA BufferSyncKeeps ==
  ASSUME FenceInv, NEW t \in Thread, BufferSync(t)
  PROVE  FenceInv'
<1>1. /\ QueueInv /\ DMAInv /\ TypeOK /\ call \in [Thread -> Calls] /\ pc = "idle" /\ pc' = "sync"
      /\ call[t].at = "called" /\ call[t].buffer \in Buffer /\ call[t].fence \in Fences
      /\ call' = [call EXCEPT ![t] = Waiting(call[t].buffer)]
      /\ target' = call[t].fence /\ caller' = t
      /\ UNCHANGED <<queue, HasFence, FENCE, REG_BUSY, m_next_fence, fence, tracker, renewed, erased>>
  BY CallKinds DEF FenceInv, QueueInv, TypeOK, BufferSync, deviceVars
<1>2. ~Fencing /\ ~Fencing' /\ ~Syncing /\ Syncing' /\ ~Presenting /\ ~Presenting'
  BY <1>1 DEF Fencing, Syncing, Presenting
<1>3. /\ call'[t] = Waiting(call[t].buffer) /\ call'[t].at = "waiting"
      /\ call'[t].buffer = call[t].buffer /\ call' \in [Thread -> Calls]
      /\ \A s \in Thread : call[s].at # "waiting"
      /\ \A s \in Thread : s # t => call'[s] = call[s]
  BY <1>1, <1>2, CallKinds, StateTypes
<1>4. CallInv'
  BY <1>1, <1>2, <1>3, FenceAssumption DEF CallInv
<1>5. QueueInv'
  BY <1>1, <1>2, <1>3, <1>4, NothingMoves DEF TypeOK
<1>6. ASSUME NEW e \in Buffer
      PROVE  BufferInv(e)'
  BY <1>1, <1>2 DEF DMAInv, BufferInv, Open, Covered
<1>7. ASSUME NEW s \in Thread
      PROVE  ThreadInv(s)'
  <2>1. Awaited(s)' = Awaited(s) /\ call'[s].buffer = call[s].buffer
    BY <1>1, <1>3 DEF Awaited
  <2>2. call'[s].at = "outside" <=> call[s].at = "outside"
    BY <1>1, <1>3
  <2>3. ThreadInv(s)
    BY <1>1 DEF DMAInv
  <2> QED
    BY <1>1, <1>2, <2>1, <2>2, <2>3 DEF ThreadInv, Open, Covered
<1> QED
  BY <1>5, <1>6, <1>7 DEF FenceInv, DMAInv

(* The other steps leave the DMA, the fences and the calls alone.          *)
LEMMA DMAStays ==
  ASSUME FenceInv, UNCHANGED <<HasFence, queue, fence, call, renewed, erased>>,
         \A b \in Buffer : Open(b)' = Open(b),
         target' = target \/ ~Syncing
  PROVE  DMAInv'
<1>1. QueueInv /\ DMAInv
  BY DEF FenceInv
<1>2. ASSUME NEW e \in Buffer
      PROVE  BufferInv(e)'
  BY <1>1 DEF DMAInv, BufferInv
<1>3. ASSUME NEW s \in Thread
      PROVE  ThreadInv(s)'
  <2>1. Awaited(s)' = Awaited(s)
    BY <1>1, StateTypes DEF Awaited
  <2>2. ThreadInv(s)
    BY <1>1 DEF DMAInv
  <2>3. CASE call[s].at = "outside"
    BY <2>3 DEF ThreadInv
  <2>4. CASE call[s].at # "outside"
    <3>1. call[s].buffer \in Buffer
      BY <1>1, <2>4, StateTypes
    <3>2. Open(call[s].buffer)' = Open(call[s].buffer)
      BY <3>1 DEF Open
    <3> QED
      BY <2>1, <2>2, <3>2 DEF ThreadInv, Open
  <2> QED
    BY <2>3, <2>4
<1> QED
  BY <1>2, <1>3 DEF DMAInv

-----------------------------------------------------------------------------
(* The fences that are remembered lead, and no fence in the FIFO is taken  *)
(* for one that has passed, however the numbers wrap around and however    *)
(* syncs of a buffer overlap with its DMA and with one another.            *)
THEOREM FenceInvariant == Spec => []FenceInv
<1>1. Init => FenceInv
  <2> SUFFICES ASSUME Init
               PROVE  FenceInv
    OBVIOUS
  <2>1. Len(queue) = 0 /\ queue \in Seq(Commands) /\ ~Fencing /\ ~Syncing /\ ~Presenting
    BY DEF Init, Fencing, Syncing, Presenting
  <2>2. TypeOK
    <3>1. 0 \in Fences /\ 1 \in Fences /\ 0 \in Slots
      BY ModulusType, FenceAssumption DEF Fences, Slots
    <3>2. tracker \in [counter : Slots, fences : [Slots -> Fences]]
      BY <3>1 DEF Init, Slots
    <3>3. fence \in [Buffer -> Fences]
      BY <3>1 DEF Init
    <3>4. call \in [Thread -> Calls]
      BY CallKinds DEF Init
    <3> QED
      BY <2>1, <3>1, <3>2, <3>3, <3>4, ModulusType DEF Init, TypeOK
  <2>3. CallInv
    BY <2>1, CallKinds DEF Init, CallInv
  <2>4. OrderInv
    BY <2>1, ModulusType DEF Init, OrderInv, Owed, NextFence, FenceAfter
  <2>5. DMAInv /\ PresentInv
    BY <2>1, CallKinds DEF Init, DMAInv, BufferInv, ThreadInv, Covered, PresentInv
  <2>6. NoFencesInv
    <3>1. PresentsIn(queue) = {}
      BY <2>1 DEF PresentsIn
    <3>2. Cardinality(PresentsIn(queue)) = 0
      BY <3>1, FS_EmptySet
    <3> QED
      BY <2>1, <3>2, FenceAssumption DEF Init, NoFencesInv, Slots, Fencing
  <2> QED
    BY <2>2, <2>3, <2>4, <2>5, <2>6 DEF FenceInv, QueueInv
<1>2. FenceInv /\ [Next]_vars => FenceInv'
  <2> SUFFICES ASSUME FenceInv, [Next]_vars
               PROVE  FenceInv'
    OBVIOUS
  <2>18. QueueInv /\ DMAInv /\ TypeOK /\ CallInv /\ call \in [Thread -> Calls]
    BY DEF FenceInv, QueueInv, TypeOK
  <2>19. ASSUME NEW b \in Buffer, NEW next \in {"fence", "fence_ring"}, pc = "idle",
               Submit(DMA(b), b, next)
        PROVE  FenceInv'
    <3>1. DMA(b) \in Commands /\ \A e \in Buffer : DMA(b) = DMA(e) => b = e
      BY CommandTypes DEF DMA
    <3>2. ~Fencing
      BY <2>19 DEF Fencing
    <3> QED
      BY <2>18, <2>19, <3>1, <3>2, SubmitDMAKeeps, SubmitKeepsDMA DEF FenceInv
  <2>20. ASSUME QueueInv', UNCHANGED <<HasFence, queue, fence, callVars, target>>,
               UNCHANGED <<pc, caller>> \/ (~Fencing /\ ~Fencing')
        PROVE  FenceInv'
    BY <2>20, DMAStays DEF FenceInv, Open, Fencing, callVars
  <2>1. ASSUME NEW b \in Buffer, SurfaceDMA2D(b)
        PROVE  FenceInv'
    BY <2>1, <2>19 DEF SurfaceDMA2D
  <2>2. ASSUME NEW b \in Buffer, BlitToScreen(b)
        PROVE  FenceInv'
    BY <2>2, <2>19 DEF BlitToScreen
  <2>3. ASSUME NEW t \in Thread, NEW b \in Buffer, SyncCalled(t, b)
        PROVE  FenceInv'
    BY <2>3, SyncCalledKeeps
  <2>4. ASSUME NEW t \in Thread, BufferSync(t)
        PROVE  FenceInv'
    BY <2>4, BufferSyncKeeps
  <2>5. ASSUME NEW t \in Thread, FenceCleared(t)
        PROVE  FenceInv'
    BY <2>5, FenceClearedKeeps
  <2>6. CASE FIFOFull
    <3>1. QueueInv'
      BY <2>6, <2>18, SignalsKeep DEF FIFOFull, WriteSync
    <3> QED
      BY <2>6, <2>20, <3>1 DEF FIFOFull, syncVars
  <2>7. CASE InsertFence
    BY <2>7, <2>18, InsertFenceKeeps, NoFenceInserted, InsertKeepsDMA DEF FenceInv
  <2>8. CASE RingDoorBell \/ RingDoorBellSync
    <3>1. CallInv'
      BY <2>8, <2>18 DEF RingDoorBell, RingDoorBellSync, CallInv, Fencing, Syncing, syncVars, callVars
    <3>2. QueueInv'
      BY <2>8, <2>18, <3>1, NothingMoves
      DEF RingDoorBell, RingDoorBellSync, WriteSync, TypeOK, Fencing, Presenting, syncVars, callVars
    <3> QED
      BY <2>8, <2>20, <3>2 DEF RingDoorBell, RingDoorBellSync, Fencing, syncVars
  <2>9. CASE SyncAtOnce
    <3>1. Syncing /\ SyncReturns /\ (target = 0 \/ (HasFence /\ HasFencePassed(target)))
      BY <2>9 DEF SyncAtOnce, Syncing
    <3> QED
      BY <2>9, <2>18, <3>1, SyncEndsKeep, SyncReturnsKeepsDMA DEF FenceInv
  <2>10. CASE SyncStart
    <3>1. CallInv'
      BY <2>10, <2>18 DEF SyncStart, WriteSync, CallInv, Fencing, Syncing, syncVars, callVars
    <3>2. QueueInv'
      BY <2>10, <2>18, <3>1, NothingMoves
      DEF SyncStart, WriteSync, TypeOK, Fencing, Presenting, syncVars, callVars
    <3> QED
      BY <2>10, <2>20, <3>2 DEF SyncStart, Fencing, syncVars
  <2>11. CASE SyncEnd
    <3>1. Syncing /\ SyncReturns
      BY <2>11 DEF SyncEnd, Syncing
    <3>2. (HasFence /\ HasFencePassed(target)) \/ queue = <<>>
      BY <2>11, <2>18 DEF SyncEnd, CallInv
    <3> QED
      BY <2>11, <2>18, <3>1, <3>2, SyncEndsKeep, SyncReturnsKeepsDMA DEF FenceInv
  <2>12. CASE PresentAutoSync
    <3>1. ~Fencing /\ ~Fencing' /\ ~Syncing /\ call' = call
      BY <2>12 DEF PresentAutoSync, Fencing, Syncing, callVars
    <3>2. CallInv' /\ target' \in Fences
      BY <2>12, <2>18, <3>1, FenceAssumption
      DEF PresentAutoSync, CallInv, TypeOK, Fencing, Syncing
    <3>3. QueueInv'
      BY <2>12, <2>18, <3>2, NothingMoves
      DEF PresentAutoSync, TypeOK, Fencing, Presenting, deviceVars, callVars
    <3> QED
      BY <2>12, <3>1, <3>3, DMAStays DEF PresentAutoSync, FenceInv, Open, deviceVars, callVars
  <2>13. CASE SubmitPresent
    <3>1. Present \in Commands /\ \A b \in Buffer : Present # DMA(b)
      BY CommandTypes
    <3>2. ~Fencing
      BY <2>13 DEF SubmitPresent, Fencing
    <3> QED
      BY <2>13, <2>18, <3>1, <3>2, SubmitPresentKeeps, SubmitKeepsDMA DEF FenceInv, SubmitPresent
  <2>14. CASE HostExecute
    BY <2>14, <2>18, HostExecuteKeeps, ExecuteKeepsDMA DEF FenceInv
  <2>15. CASE HostDrained
    <3>1. QueueInv'
      BY <2>15, <2>18, SignalsKeep DEF HostDrained
    <3> QED
      BY <2>15, <2>20, <3>1 DEF HostDrained, syncVars
  <2>16. CASE HostSleep
    <3>1. QueueInv'
      BY <2>16, <2>18, SignalsKeep DEF HostSleep, TypeOK, CallInv
    <3> QED
      BY <2>16, <2>20, <3>1 DEF HostSleep, syncVars
  <2>17. CASE UNCHANGED vars
    <3>1. QueueInv'
      BY <2>17, <2>18, SignalsKeep DEF vars, deviceVars, TypeOK, CallInv
    <3> QED
      BY <2>17, <2>20, <3>1 DEF vars, deviceVars, syncVars
  <2> QED
    BY <2>1, <2>2, <2>3, <2>4, <2>5, <2>6, <2>7, <2>8, <2>9, <2>10, <2>11, <2>12, <2>13, <2>14,
       <2>15, <2>16, <2>17 DEF Next
<1> QED
  BY <1>1, <1>2, PTL DEF Spec

(* Memory without a fence that no operation is using may be unmapped,      *)
(* freed or rewritten, for every number of buffers and of threads in       *)
(* VendorTransferBuffer::sync and every modulus of the fence numbers,      *)
(* unless a sync set a newer fence to 0 that it had not waited for.        *)
THEOREM NoDMAWithoutFence == Spec => []NoFenceNoDMA
<1>1. FenceInv => NoFenceNoDMA
  <2> SUFFICES ASSUME FenceInv, NEW b \in Buffer, fence[b] = 0, caller # b, b \notin erased,
                      NEW i \in 1..Len(queue), queue[i] = DMA(b)
               PROVE  FALSE
    BY DEF NoFenceNoDMA, Pending
  <2>1. QueueInv /\ BufferInv(b)
    BY DEF FenceInv, DMAInv
  <2>2. Covered(queue, FALSE, HasFence, b, 0)
    BY <2>1 DEF BufferInv, Open, Covered
  <2> QED
    BY <2>1, <2>2, WaitedFor
<1> QED
  BY <1>1, FenceInvariant, PTL

(* The presents in the FIFO have slots of their own in the tracker. *)
LEMMA PresentsHaveSlots ==
  ASSUME QueueInv, HasFence
  PROVE  Cardinality(PresentsIn(queue)) <= Presents
<1> DEFINE slot(i) == IF i = Len(queue) THEN tracker.counter
                      ELSE CHOOSE s \in Slots : tracker.fences[s] = queue[i + 1].value
           f == [i \in PresentsIn(queue) |-> slot(i)]
<1>1. /\ TypeOK /\ OrderInv /\ PresentInv /\ queue \in Seq(Commands) /\ Len(queue) \in Nat
      /\ tracker.counter \in Slots
  BY DEF QueueInv, TypeOK
<1>2. ASSUME NEW i \in PresentsIn(queue)
      PROVE  /\ i \in 1..Len(queue) /\ ~IsFence(i)
             /\ i = Len(queue) => Presenting
             /\ i # Len(queue) =>
                  /\ i + 1 \in 1..Len(queue) /\ IsFence(i + 1)
                  /\ slot(i) \in Slots /\ tracker.fences[slot(i)] = queue[i + 1].value
  <2>1. i \in 1..Len(queue) /\ ~IsFence(i) /\ queue[i].kind = "present"
    BY DEF PresentsIn, IsFence
  <2>2. i = Len(queue) => Presenting
    BY <1>1, <2>1 DEF PresentInv, Presenting
  <2>3. ASSUME i # Len(queue)
        PROVE  /\ i + 1 \in 1..Len(queue) /\ IsFence(i + 1)
               /\ slot(i) \in Slots /\ tracker.fences[slot(i)] = queue[i + 1].value
    <3>1. i + 1 \in 1..Len(queue)
      BY <1>1, <2>1, <2>3
    <3>2. /\ Owed \in {0, 1} /\ (IsFence(i) <=> (Len(queue) + Owed - i) % 2 = 0)
          /\ IsFence(i + 1) <=> (Len(queue) + Owed - (i + 1)) % 2 = 0
      BY <1>1, <2>1, <3>1 DEF OrderInv, Owed
    <3>3. IsFence(i + 1)
      BY <1>1, <2>1, <3>2
    <3>4. \E s \in Slots : tracker.fences[s] = queue[i + 1].value
      BY <1>1, <2>1, <2>3 DEF PresentInv
    <3> QED
      BY <2>3, <3>1, <3>3, <3>4
  <2> QED
    BY <2>1, <2>2, <2>3
<1>3. \A i \in PresentsIn(queue) : slot(i) \in Slots
  BY <1>1, <1>2
<1>4. ASSUME NEW i \in PresentsIn(queue), NEW j \in PresentsIn(queue), slot(i) = slot(j)
      PROVE  i = j
  <2>1. slot(Len(queue)) = tracker.counter
    OBVIOUS
  <2> HIDE DEF slot
  <2>2. CASE i # Len(queue) /\ j # Len(queue)
    <3>1. i + 1 = j + 1
      BY <1>1, <1>2, <1>4, <2>2, PendingFencesDiffer
    <3> QED
      BY <1>2, <3>1
  <2>3. CASE i = Len(queue) /\ j # Len(queue)
    BY <1>1, <1>2, <1>4, <2>1, <2>3 DEF PresentInv
  <2>4. CASE i # Len(queue) /\ j = Len(queue)
    BY <1>1, <1>2, <1>4, <2>1, <2>4 DEF PresentInv
  <2> QED
    BY <2>2, <2>3, <2>4
<1>5. f \in Injection(PresentsIn(queue), Slots)
  <2> HIDE DEF slot
  <2> QED
    BY <1>3, <1>4 DEF Injection, IsInjective
<1>6. IsFiniteSet(Slots) /\ Cardinality(Slots) = Presents
  BY FS_Interval, FenceAssumption DEF Slots
<1> HIDE DEF f
<1> QED
  BY <1>5, <1>6, FS_Injection

(* FenceTracker<N>: however the host lags behind, no more than N presents  *)
(* are in the FIFO, with and without SVGA_FIFO_CAP_FENCE.                  *)
THEOREM AtMostNPresents == Spec => []PresentsBounded
<1>1. FenceInv => PresentsBounded
  <2> SUFFICES ASSUME FenceInv
               PROVE  Cardinality(PresentsIn(queue)) <= Presents
    BY DEF PresentsBounded, PresentsIn
  <2> QED
    BY PresentsHaveSlots DEF FenceInv, QueueInv, NoFencesInv
<1> QED
  BY <1>1, FenceInvariant, PTL
=============================================================================
