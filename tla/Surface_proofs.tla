---------------------------- MODULE Surface_proofs ----------------------------
(***************************************************************************)
(* Proofs about Surface, for every amount of VRAM and memory, every number *)
(* of GMRs and every size of the FIFO: until two calls get in each other's *)
(* way, the backing of a surface can be freed, grown and exchanged without *)
(* the device or a task being left with memory that was given back.        *)
(***************************************************************************)
EXTENDS Surface, SequenceTheorems, TLAPS

-----------------------------------------------------------------------------
(* The inductive invariant *)

Steps == {"idle", "alloc", "realloc", "store", "gmr", "wrap", "map", "dma", "answer"}
Calls == Locks \cup {"none", "copy", "blit"}

BackingType ==
  [self : Blocks \cup {NULL}, offset : Blocks \cup {NULL}, size : 0..MaxSize,
   md : Buffers \cup Clients \cup {NULL}, gart_ptr : 0..2,
   gmr_id : GMRIDs \cup {INVALID, VRAM}, fence : Nat, map : [Tasks -> Memory \cup {NULL}]]

CallType == [step : Steps, call : Calls, block : Blocks \cup {NULL}]

CommandType == [gmr : GMRIDs \cup {INVALID, VRAM}, mem : Memory \cup {NULL}]

TypeOK ==
  /\ backing \in BackingType
  /\ clientBacking \in ClientBackings
  /\ size \in 0..MaxSize
  /\ bIsLocked \subseteq Locks
  /\ proc \in [Tasks -> CallType]
  /\ gmrs \in [GMRIDs -> Buffers \cup Clients \cup {NULL}]
  /\ fifo \in Seq(CommandType)
  /\ lost \subseteq Blocks

CallOf(t) ==
  /\ At(t, "idle") <=> proc[t] = Idle
  /\ proc[t].call = "none" <=> At(t, "idle")
  /\ proc[t].call \in {"read", "write"} => t = "owner"
  /\ proc[t].call = "context" => t = "context"
  /\ proc[t].step \in {"alloc", "realloc"} => proc[t].block = NULL
  /\ proc[t].step \in {"map", "dma"} => Fits
  /\ At(t, "map") => proc[t].call \in Locks
  /\ At(t, "dma") => proc[t].call = "copy"
  /\ At(t, "answer") =>
       \/ proc[t].call \in {"read", "write"} /\ clientBacking # NULL
       \/ Fits /\ (proc[t].call \in Locks => backing.map[t] # NULL)

CallInv ==
  /\ ~Collide
  /\ \A t \in Tasks : CallOf(t)

BuildingOf(t) ==
  Building(t) =>
    /\ backing.md = NULL
    /\ backing.map = [u \in Tasks |-> NULL]
    /\ fifo = <<>>
    /\ At(t, "wrap") <=> clientBacking # NULL
    /\ clientBacking = NULL => drawn = NULL
    /\ proc[t].step \in {"gmr", "wrap"} => backing.self = NULL
    /\ proc[t].step \in {"store", "gmr"} => backing.size = size

BuildingInv == \A t \in Tasks : BuildingOf(t)

(* What the backing consists of. *)
KindInv ==
  /\ backing.self # NULL =>
       backing.gmr_id = VRAM /\ backing.offset = backing.self /\ backing.md = NULL
  /\ backing.md # NULL <=> backing.gmr_id \in GMRIDs
  /\ backing.md = NULL => backing.gart_ptr = 0
  /\ \A t \in Tasks : backing.map[t] \in {NULL, Mapped}

(* The device and the allocator know what belongs to it, and no more; a    *)
(* block that VRAMRealloc has returned belongs to the call.                *)
MemoryInv ==
  /\ usedIDs = {backing.gmr_id} \cap GMRIDs
  /\ wired = {backing.md} \ {NULL}
  /\ \A id \in GMRIDs : gmrs[id] = IF id = backing.gmr_id THEN backing.md ELSE NULL
  /\ \A t \in Tasks : At(t, "store") =>
       vram = lost \cup ({proc[t].block} \ {NULL}) /\ proc[t].block \notin lost
  /\ (\A t \in Tasks : ~At(t, "store")) =>
       vram = lost \cup ({backing.self} \ {NULL}) /\ backing.self \notin lost

(* All that is in the FIFO is for this backing, and its fence is the last. *)
FifoInv ==
  /\ backing.fence = Len(fifo)
  /\ \A i \in 1..Len(fifo) : fifo[i] = [gmr |-> backing.gmr_id, mem |-> Target]
  /\ fifo # <<>> => isBackingValid

(* Who has a lock, and is not just about to get it, has the backing mapped *)
(* and keeps it from being replaced.                                       *)
LockInv ==
  /\ "context" \in bIsLocked /\ proc["context"].call # "context" =>
       Fits /\ backing.map["context"] # NULL
  /\ \A lock \in {"read", "write"} :
       lock \in bIsLocked /\ proc["owner"].call # lock /\ clientBacking = NULL =>
         Fits /\ backing.map["owner"] # NULL

DrawnInv == drawn # NULL /\ clientBacking = NULL => Fits /\ drawn = Target

SurfaceInv ==
  /\ TypeOK
  /\ CallInv
  /\ BuildingInv
  /\ KindInv
  /\ MemoryInv
  /\ FifoInv
  /\ LockInv
  /\ DrawnInv

-----------------------------------------------------------------------------
(* Types *)

LEMMA GotoType ==
  ASSUME TypeOK, NEW t \in Tasks, NEW step \in Steps, Goto(t, step)
  PROVE  /\ proc' \in [Tasks -> CallType]
         /\ proc'[t].step = step /\ proc'[t].call = proc[t].call /\ proc'[t].block = proc[t].block
         /\ \A u \in Tasks : u # t => proc'[u] = proc[u]
BY DEF TypeOK, Goto, CallType

LEMMA AllocatedType ==
  ASSUME TypeOK, NEW t \in Tasks, proc[t].call # "none"
  PROVE  Allocated(t) = IF proc[t].call \in Locks THEN "map"
                        ELSE IF proc[t].call = "copy" THEN "dma" ELSE "answer"
BY DEF TypeOK, CallType, Calls, Allocated, Locks

LEMMA FailsType ==
  ASSUME TypeOK, NEW t \in Tasks, Fails(t)
  PROVE  /\ proc' \in [Tasks -> CallType] /\ bIsLocked' \subseteq Locks
         /\ proc'[t] = Idle /\ \A u \in Tasks : u # t => proc'[u] = proc[u]
<1>1. Idle \in CallType
  BY DEF Idle, CallType, Steps, Calls
<1> QED
  BY <1>1 DEF TypeOK, Fails

LEMMA BeginType ==
  ASSUME TypeOK, NEW t \in Tasks, NEW call \in Locks \cup {"copy", "blit"}, Begin(t, call)
  PROVE  /\ proc' \in [Tasks -> CallType]
         /\ proc'[t].step = IF call \in {"read", "write"} /\ clientBacking # NULL
                            THEN "answer" ELSE "alloc"
         /\ proc'[t].call = call /\ proc'[t].block = NULL
         /\ \A u \in Tasks : u # t => proc'[u] = proc[u]
         /\ proc[t] = Idle
         /\ UNCHANGED <<object, memory, backing, fifo, drawn, lost>>
BY DEF TypeOK, Begin, Starts, CallType, Steps, Calls

LEMMA NoBackingType == NoBacking \in BackingType
BY SurfaceAssumption DEF NoBacking, BackingType

LEMMA TargetType ==
  ASSUME TypeOK
  PROVE  Target \in Memory \cup {NULL} /\ Mapped \in Memory \cup {NULL}
BY DEF TypeOK, BackingType, Target, Mapped, Memory

LEMMA DrainedType ==
  ASSUME TypeOK
  PROVE  Drained \in Seq(CommandType)
<1>1. backing.fence + 1 \in Int /\ backing.fence + 1 >= 1 /\ Len(fifo) \in Nat
  BY DEF TypeOK, BackingType
<1>2. \A i \in (backing.fence + 1)..Len(fifo) : fifo[i] \in CommandType
  BY <1>1 DEF TypeOK
<1> QED
  BY <1>1, <1>2, SubSeqProperties DEF Drained

LEMMA CompleteType ==
  ASSUME TypeOK, Complete
  PROVE  /\ gmrs' \in [GMRIDs -> Buffers \cup Clients \cup {NULL}]
         /\ fifo' \in Seq(CommandType)
BY DrainedType DEF TypeOK, Complete

LEMMA PushType ==
  ASSUME TypeOK, Push
  PROVE  /\ backing' \in BackingType /\ fifo' \in Seq(CommandType)
         /\ fifo' = Append(fifo, [gmr |-> backing.gmr_id, mem |-> Target])
         /\ backing' = [backing EXCEPT !.fence = Len(fifo) + 1]
<1>1. [gmr |-> backing.gmr_id, mem |-> Target] \in CommandType
  BY TargetType DEF TypeOK, BackingType, CommandType
<1>2. Len(fifo) + 1 \in Nat
  BY DEF TypeOK
<1>3. /\ fifo' = Append(fifo, [gmr |-> backing.gmr_id, mem |-> Target])
      /\ backing' = [backing EXCEPT !.fence = Len(fifo) + 1]
  BY DEF Push
<1>4. fifo' \in Seq(CommandType)
  <2>1. fifo \in Seq(CommandType)
    BY DEF TypeOK
  <2> QED
    BY <1>1, <1>3, <2>1, AppendProperties
<1>5. backing' \in BackingType
  <2>1. backing \in BackingType
    BY DEF TypeOK
  <2> QED
    BY <1>2, <1>3, <2>1 DEF BackingType
<1> QED
  BY <1>3, <1>4, <1>5

LEMMA StepTypes ==
  ASSUME TypeOK, NEW t \in Tasks, proc[t].call # "none", CallStep(t)
  PROVE  TypeOK'
<1>1. Allocated(t) \in Steps /\ {"realloc", "store", "gmr", "wrap", "answer"} \subseteq Steps
  BY AllocatedType DEF Steps
<1>2. CASE Reuse(t)
  BY <1>1, <1>2, GotoType DEF Reuse, TypeOK, object, locks, memory
<1>3. CASE Grow(t)
  <2>1. backing' \in BackingType
    BY <1>3 DEF Grow, Grown, Synced, TypeOK, BackingType
  <2> QED
    BY <1>1, <1>3, <2>1, GotoType, CompleteType DEF Grow, TypeOK, object, locks
<1>4. CASE Replace(t)
  <2>1. UNCHANGED <<memory, backing, fifo>> \/ releaseBacking
    BY <1>4 DEF Replace
  <2>2. /\ backing' \in BackingType /\ fifo' \in Seq(CommandType)
        /\ gmrs' \in [GMRIDs -> Buffers \cup Clients \cup {NULL}]
    BY <2>1, NoBackingType, CompleteType DEF releaseBacking, TypeOK, memory
  <2>3. proc' \in [Tasks -> CallType]
    BY <1>1, <1>4, GotoType DEF Replace
  <2> QED
    BY <1>4, <2>2, <2>3 DEF Replace, TypeOK, object, locks
<1>5. CASE Realloc(t)
  <2>1. backing' \in BackingType
    BY <1>5 DEF Realloc, TypeOK, BackingType
  <2>2. proc' \in [Tasks -> CallType]
    <3>1. PICK result \in Blocks :
            proc' = [proc EXCEPT ![t].step = "store", ![t].block = result]
      BY <1>5 DEF Realloc, BigEnough, TypeOK, BackingType
    <3> QED
      BY <1>1, <3>1 DEF TypeOK, CallType
  <2> QED
    BY <1>5, <2>1, <2>2 DEF Realloc, TypeOK, object, locks
<1>6. CASE ReallocFails(t)
  <2>1. backing' \in BackingType
    BY <1>6 DEF ReallocFails, TypeOK, BackingType
  <2>2. lost' \subseteq Blocks
    BY <1>6 DEF ReallocFails, TypeOK, BackingType
  <2> QED
    BY <1>1, <1>6, <2>1, <2>2, GotoType DEF ReallocFails, TypeOK, object, locks, memory
<1>7. CASE Store(t)
  <2>1. proc[t].block \in Blocks \cup {NULL}
    BY DEF TypeOK, CallType
  <2>2. backing' \in BackingType
    BY <1>7, <2>1 DEF Store, TypeOK, BackingType
  <2>3. proc' \in [Tasks -> CallType]
    BY <1>1, <1>7, GotoType DEF Store
  <2> QED
    BY <1>7, <2>2, <2>3 DEF Store, TypeOK, object, locks, memory
<1>8. ASSUME NEW mem \in Buffers \cup Clients, NEW gart \in {0, 1}, Prepare(t, mem, gart)
      PROVE  TypeOK'
  <2>1. PICK id \in GMRIDs :
          /\ backing' = [backing EXCEPT !.offset = NULL, !.size = size, !.md = mem, !.gmr_id = id,
                                        !.gart_ptr = gart, !.fence = 0]
          /\ gmrs' = gmrs \/ gmrs' = [gmrs EXCEPT ![id] = mem]
    BY <1>8 DEF Prepare
  <2>2. backing' \in BackingType
    <3>1. backing \in BackingType /\ size \in 0..MaxSize /\ gart \in 0..2
      BY DEF TypeOK
    <3> QED
      BY <2>1, <3>1 DEF BackingType
  <2>3. gmrs' \in [GMRIDs -> Buffers \cup Clients \cup {NULL}]
    BY <1>8, <2>1 DEF TypeOK
  <2>4. proc' \in [Tasks -> CallType]
    BY <1>1, <1>8, GotoType DEF Prepare
  <2> QED
    BY <1>8, <2>2, <2>3, <2>4 DEF Prepare, TypeOK, object, locks
<1>9. CASE PrepareFails(t)
  <2>1. backing' \in BackingType
    BY <1>9 DEF PrepareFails, TypeOK, BackingType
  <2> QED
    BY <1>9, <2>1, FailsType DEF PrepareFails, TypeOK, object
<1>10. CASE NoDescriptor(t)
  <2>1. backing' \in BackingType
    BY <1>10 DEF NoDescriptor, TypeOK, BackingType
  <2> QED
    BY <1>10, <2>1, FailsType DEF NoDescriptor, TypeOK, object, memory
<1>11. CASE WrapClient(t)
  <2>1. clientBacking # NULL => clientBacking.addr \in Clients
    BY DEF TypeOK, ClientBackings
  <2> QED
    BY <1>8, <1>9, <1>10, <1>11, <2>1 DEF WrapClient
<1>12. CASE allocGMRBacking(t)
  BY <1>8, <1>9, <1>10, <1>12 DEF allocGMRBacking
<1>13. CASE mapBacking(t)
  <2>1. backing' \in BackingType
    BY <1>13, TargetType DEF mapBacking, TypeOK, BackingType
  <2> QED
    BY <1>1, <1>13, <2>1, GotoType DEF mapBacking, TypeOK, object, locks, memory
<1>14. CASE mapBackingFails(t)
  BY <1>14, FailsType DEF mapBackingFails, TypeOK, object, memory
<1>15. CASE CopyDMA(t)
  BY <1>1, <1>15, PushType, GotoType DEF CopyDMA, TypeOK, object, locks, memory
<1>16. CASE Answer(t)
  <2>1. backing' \in BackingType /\ fifo' \in Seq(CommandType)
    <3>1. [backing EXCEPT !.fence = 0] \in BackingType /\ backing \in BackingType
      BY DEF TypeOK, BackingType
    <3> QED
      BY <1>16, <3>1, DrainedType DEF Answer, Synced, TypeOK
  <2>2. proc' \in [Tasks -> CallType]
    BY <1>16 DEF Answer, TypeOK, Idle, CallType, Steps, Calls
  <2> QED
    BY <1>16, <2>1, <2>2 DEF Answer, TypeOK, object, locks, memory
<1> QED
  BY <1>2, <1>3, <1>4, <1>5, <1>6, <1>7, <1>11, <1>12, <1>13, <1>14, <1>15, <1>16 DEF CallStep

-----------------------------------------------------------------------------
(* Two calls at a time *)

LEMMA IdleFields == Idle.step = "idle" /\ Idle.call = "none" /\ Idle.block = NULL
BY DEF Idle

(* While one task builds, the other has not looked at the backing yet.     *)
LEMMA OthersNotBusy ==
  ASSUME ~Collide, NEW t \in Tasks, Building(t)
  PROVE  \A u \in Tasks : u # t => ~Busy(u) /\ ~Building(u)
BY DEF Collide, Building, Busy

LEMMA OthersNotBuilding ==
  ASSUME ~Collide, NEW t \in Tasks, Busy(t)
  PROVE  \A u \in Tasks : u # t => ~Building(u)
BY DEF Collide

(* A task that has not looked at the backing does not mind what it is.     *)
LEMMA NotBusyKept ==
  ASSUME NEW u \in Tasks, CallOf(u), ~Busy(u), proc'[u] = proc[u]
  PROVE  CallOf(u)' /\ BuildingOf(u)'
BY DEF CallOf, BuildingOf, Building, Busy, At

LEMMA OthersWait ==
  ASSUME CallInv, NEW t \in Tasks,
         \A u \in Tasks : u # t => ~Busy(u) /\ proc'[u] = proc[u],
         ~Collide', CallOf(t)', BuildingOf(t)'
  PROVE  CallInv' /\ BuildingInv'
<1>1. ASSUME NEW u \in Tasks, u # t
      PROVE  CallOf(u)' /\ BuildingOf(u)'
  BY <1>1, NotBusyKept DEF CallInv
<1> QED
  BY <1>1 DEF CallInv, BuildingInv

(* And while the backing fits, and the task keeps its mapping, it can go   *)
(* on.                                                                     *)
LEMMA OthersUse ==
  ASSUME CallInv, NEW t \in Tasks,
         \A u \in Tasks : u # t => ~Building(u) /\ proc'[u] = proc[u]
                                 /\ backing'.map[u] = backing.map[u],
         Fits => Fits', UNCHANGED clientBacking,
         ~Collide', CallOf(t)', BuildingOf(t)'
  PROVE  CallInv' /\ BuildingInv'
<1>1. ASSUME NEW u \in Tasks, u # t
      PROVE  CallOf(u)' /\ BuildingOf(u)'
  <2>1. CallOf(u) /\ ~Building(u) /\ proc'[u] = proc[u] /\ backing'.map[u] = backing.map[u]
    BY <1>1 DEF CallInv
  <2> QED
    BY <2>1 DEF CallOf, BuildingOf, Building, At
<1> QED
  BY <1>1 DEF CallInv, BuildingInv

(* Nor does it mind another that only begins or ends a call.               *)
LEMMA OthersSame ==
  ASSUME CallInv, BuildingInv, NEW t \in Tasks,
         \A u \in Tasks : u # t => proc'[u] = proc[u],
         UNCHANGED <<backing, clientBacking, size, fifo, drawn>>,
         ~Collide', CallOf(t)', BuildingOf(t)'
  PROVE  CallInv' /\ BuildingInv'
<1>1. ASSUME NEW u \in Tasks, u # t
      PROVE  CallOf(u)' /\ BuildingOf(u)'
  <2>1. CallOf(u) /\ BuildingOf(u) /\ proc'[u] = proc[u]
    BY <1>1 DEF CallInv, BuildingInv
  <2>2. CallOf(u)'
    BY <2>1 DEF CallOf, At, Fits, classifyBacking, hasSourceGrown
  <2>3. BuildingOf(u)'
    BY <2>1 DEF BuildingOf, Building, At
  <2> QED
    BY <2>2, <2>3
<1> QED
  BY <1>1 DEF CallInv, BuildingInv

(* What an idle task has to do with it.                                    *)
LEMMA IdleTask ==
  ASSUME NEW t \in Tasks, proc[t] = Idle
  PROVE  CallOf(t) /\ BuildingOf(t) /\ ~Busy(t) /\ ~Building(t)
BY IdleFields DEF CallOf, BuildingOf, Building, Busy, At

LEMMA IdleTaskNext ==
  ASSUME NEW t \in Tasks, proc'[t] = Idle
  PROVE  CallOf(t)' /\ BuildingOf(t)' /\ ~Busy(t)' /\ ~Building(t)'
BY IdleFields DEF CallOf, BuildingOf, Building, Busy, At

(* A task that ends its call collides with nobody.                         *)
LEMMA EndNoCollision ==
  ASSUME ~Collide, NEW t \in Tasks, proc'[t] = Idle \/ proc'[t] = proc[t],
         \A u \in Tasks : u # t => proc'[u] = proc[u]
  PROVE  ~Collide'
BY IdleFields DEF Collide, Building, Busy

(* Nor does one whose call goes on in the same way.                        *)
LEMMA GoOnNoCollision ==
  ASSUME ~Collide, NEW t \in Tasks, Busy(t), Building(t)' => Building(t),
         \A u \in Tasks : u # t => proc'[u] = proc[u]
  PROVE  ~Collide'
BY DEF Collide, Building, Busy

(* What does not depend on the mappings and the fence. *)
LEMMA SameStore ==
  ASSUME backing'.self = backing.self, backing'.offset = backing.offset,
         backing'.size = backing.size, backing'.md = backing.md,
         backing'.gart_ptr = backing.gart_ptr, backing'.gmr_id = backing.gmr_id,
         UNCHANGED <<clientBacking, size>>
  PROVE  /\ Fits' <=> Fits
         /\ Target' = Target
         /\ Mapped' = Mapped
         /\ isBackingValid' <=> isBackingValid
BY DEF Fits, classifyBacking, hasSourceGrown, Target, Mapped, isBackingValid

(* A backing that fits is there, and is what is mapped. *)
LEMMA FitsValid ==
  ASSUME TypeOK, KindInv, Fits
  PROVE  isBackingValid /\ Target = Mapped /\ Target # NULL
BY SurfaceAssumption DEF Fits, classifyBacking, isBackingValid, KindInv, Target, Mapped

(* While the backing fits, a call may change what it is doing and who has  *)
(* the lock.                                                               *)
LEMMA SameMemory ==
  ASSUME KindInv, MemoryInv, FifoInv,
         UNCHANGED <<backing, clientBacking, size, memory, fifo, lost>>,
         \A t \in Tasks : At(t, "store") \/ At(t, "store")' => proc'[t] = proc[t]
  PROVE  KindInv' /\ MemoryInv' /\ FifoInv'
<1>1. Target' = Target /\ Mapped' = Mapped /\ (isBackingValid' <=> isBackingValid)
  BY SameStore
<1>2. KindInv'
  BY <1>1 DEF KindInv
<1>3. MemoryInv'
  BY DEF MemoryInv, memory, At
<1>4. FifoInv'
  BY <1>1 DEF FifoInv
<1> QED
  BY <1>2, <1>3, <1>4

LEMMA BeginKeeps ==
  ASSUME SurfaceInv, ~overlapped', NEW t \in Tasks, NEW call \in Locks \cup {"copy", "blit"},
         call \in {"read", "write"} => t = "owner", call = "context" => t = "context",
         Begin(t, call), bIsLocked' \subseteq bIsLocked \cup ({call} \cap Locks)
  PROVE  SurfaceInv'
<1>1. /\ TypeOK /\ CallInv /\ BuildingInv /\ KindInv /\ MemoryInv /\ FifoInv /\ LockInv /\ DrawnInv
      /\ proc[t] = Idle /\ ~Collide'
      /\ UNCHANGED <<backing, clientBacking, size, memory, fifo, drawn, lost>>
  BY DEF SurfaceInv, Begin, Starts, object, Collides
<1>2. /\ proc' \in [Tasks -> CallType] /\ proc'[t].call = call /\ proc'[t].block = NULL
      /\ proc'[t].step = IF call \in {"read", "write"} /\ clientBacking # NULL
                         THEN "answer" ELSE "alloc"
      /\ \A u \in Tasks : u # t => proc'[u] = proc[u]
  BY <1>1, BeginType
<1>3. proc'[t] # Idle
  BY <1>2, IdleFields
<1>4. TypeOK'
  BY <1>1, <1>2 DEF TypeOK, memory
<1>5. CallOf(t)' /\ BuildingOf(t)'
  BY <1>1, <1>2, <1>3 DEF CallOf, BuildingOf, Building, At, Locks
<1>6. CallInv' /\ BuildingInv'
  BY <1>1, <1>2, <1>5, OthersSame
<1>7. KindInv' /\ MemoryInv' /\ FifoInv'
  <2>1. \A u \in Tasks : At(u, "store") \/ At(u, "store")' => proc'[u] = proc[u]
    BY <1>1, <1>2, IdleFields DEF At
  <2> QED
    BY <1>1, <2>1, SameMemory
<1>8. LockInv' /\ DrawnInv'
  <2>1. (Fits' <=> Fits) /\ Target' = Target
    BY <1>1, SameStore
  <2>2. ASSUME NEW lock \in Locks, NEW u \in Tasks, lock \in bIsLocked', proc'[u].call # lock,
               lock = "context" <=> u = "context"
        PROVE  lock \in bIsLocked /\ proc[u].call # lock
    <3>1. CASE u = t
      BY <1>1, <1>2, <2>2, <3>1, IdleFields DEF Locks
    <3>2. CASE u # t
      BY <1>2, <2>2, <3>2 DEF Locks, Tasks
    <3> QED
      BY <3>1, <3>2
  <2>3. LockInv'
    BY <1>1, <2>1, <2>2 DEF LockInv, Locks, Tasks
  <2> QED
    BY <1>1, <2>1, <2>3 DEF DrawnInv
<1> QED
  BY <1>4, <1>6, <1>7, <1>8 DEF SurfaceInv

-----------------------------------------------------------------------------
(* The steps of a call *)

LEMMA LocksKept ==
  ASSUME LockInv, bIsLocked' \subseteq bIsLocked, UNCHANGED clientBacking,
         \A u \in Tasks : Fits /\ backing.map[u] # NULL => Fits' /\ backing'.map[u] # NULL,
         \A u \in Tasks, lock \in bIsLocked' : proc[u].call = lock => proc'[u].call = lock
  PROVE  LockInv'
BY DEF LockInv, Tasks

(* The memory of the backing stays, and only its mappings and its fence    *)
(* change.                                                                 *)
LEMMA SameKind ==
  ASSUME KindInv, MemoryInv,
         backing'.self = backing.self, backing'.offset = backing.offset,
         backing'.size = backing.size, backing'.md = backing.md,
         backing'.gart_ptr = backing.gart_ptr, backing'.gmr_id = backing.gmr_id,
         \A u \in Tasks : backing'.map[u] \in {NULL, Mapped},
         UNCHANGED <<clientBacking, size, memory, lost>>,
         \A u \in Tasks : At(u, "store") \/ At(u, "store")' => proc'[u] = proc[u]
  PROVE  KindInv' /\ MemoryInv'
<1>1. Mapped' = Mapped
  BY SameStore
<1>2. KindInv'
  BY <1>1 DEF KindInv
<1>3. MemoryInv'
  BY DEF MemoryInv, memory, At
<1> QED
  BY <1>2, <1>3

LEMMA DrainedEmpty ==
  ASSUME TypeOK, FifoInv
  PROVE  Drained = <<>>
<1>1. backing.fence \in Nat /\ backing.fence = Len(fifo)
  BY DEF TypeOK, BackingType, FifoInv
<1> QED
  BY <1>1, SubSeqEmpty DEF Drained

(* VendorTransferBuffer::complete leaves nothing in the device. *)
LEMMA CompleteFrees ==
  ASSUME TypeOK, KindInv, MemoryInv, FifoInv, Complete
  PROVE  /\ fifo' = <<>> /\ usedIDs' = {} /\ wired' = {}
         /\ \A id \in GMRIDs : gmrs'[id] = NULL
BY DrainedEmpty DEF Complete, MemoryInv

LEMMA ReuseKeeps ==
  ASSUME SurfaceInv, ~overlapped', NEW t \in Tasks, Reuse(t)
  PROVE  SurfaceInv'
<1>1. /\ TypeOK /\ CallInv /\ KindInv /\ MemoryInv /\ FifoInv /\ LockInv /\ DrawnInv
      /\ proc[t].call # "none" /\ Fits
      /\ ~Collide'
      /\ UNCHANGED <<backing, clientBacking, size, memory, fifo, drawn, lost, bIsLocked>>
  BY DEF SurfaceInv, CallInv, CallOf, Reuse, Collides, At, object, locks
<1>2. TypeOK'
  BY <1>1, StepTypes DEF CallStep
<1>3. /\ Allocated(t) = IF proc[t].call \in Locks THEN "map"
                        ELSE IF proc[t].call = "copy" THEN "dma" ELSE "answer"
      /\ proc'[t].step = Allocated(t) /\ proc'[t].call = proc[t].call
      /\ \A u \in Tasks : u # t => proc'[u] = proc[u]
  BY <1>1, AllocatedType, GotoType DEF Reuse, Steps
<1>4. (Fits' <=> Fits) /\ Target' = Target
  BY <1>1, SameStore
<1>5. CallOf(t)'
  <2>1. CallOf(t)
    BY <1>1 DEF CallInv
  <2> QED
    BY <1>1, <1>3, <1>4, <2>1, IdleFields DEF CallOf, At
<1>6. /\ BuildingOf(t)'
      /\ \A u \in Tasks : ~At(u, "store") /\ ~At(u, "store")'
      /\ \A u \in Tasks : u # t => ~Building(u)
  <2>1. Busy(t)' /\ ~Building(t)'
    BY <1>1, <1>3 DEF Busy, Building
  <2>2. \A u \in Tasks : u # t => ~Building(u)'
    BY <1>1, <2>1 DEF Collide
  <2> QED
    BY <1>3, <2>1, <2>2 DEF BuildingOf, Building, At, Reuse
<1>7. KindInv' /\ MemoryInv' /\ FifoInv'
  BY <1>1, <1>6, SameMemory
<1>8. LockInv'
  <2>1. \A u \in Tasks : proc'[u].call = proc[u].call
    BY <1>1, <1>3
  <2> QED
    BY <1>1, <1>4, <2>1, LocksKept
<1>9. DrawnInv'
  BY <1>1, <1>4 DEF DrawnInv
<1>10. CallInv' /\ BuildingInv'
  BY <1>1, <1>3, <1>4, <1>5, <1>6, OthersUse
<1> QED
  BY <1>2, <1>7, <1>8, <1>9, <1>10 DEF SurfaceInv

(* allocBacking: the backing grows. *)
LEMMA GrowKeeps ==
  ASSUME SurfaceInv, ~overlapped', NEW t \in Tasks, Grow(t)
  PROVE  SurfaceInv'
<1>1. /\ TypeOK /\ CallInv /\ KindInv /\ MemoryInv /\ FifoInv /\ LockInv /\ DrawnInv
      /\ proc[t].call # "none" /\ ~Fits /\ clientBacking = NULL /\ drawn = NULL
      /\ ~Collide'
      /\ UNCHANGED <<clientBacking, size, drawn, lost, vram, bIsLocked>>
  BY DEF SurfaceInv, CallInv, CallOf, DrawnInv, Grow, Fits, Collides, At, object, locks
<1>2. TypeOK'
  BY <1>1, StepTypes DEF CallStep
<1>3. /\ proc'[t].step = "realloc" /\ proc'[t].call = proc[t].call
      /\ proc'[t].block = proc[t].block
      /\ \A u \in Tasks : u # t => proc'[u] = proc[u]
      /\ \A u \in Tasks : u # t => ~Busy(u) /\ ~Building(u)
  <2>1. proc'[t].step \in {"realloc", "wrap"} /\ \A u \in Tasks : u # t => proc'[u] = proc[u]
    BY <1>1, GotoType DEF Grow, Steps
  <2>2. \A u \in Tasks : u # t => ~Busy(u)' /\ ~Building(u)'
    BY <1>1, <2>1 DEF Collide, Building, Busy
  <2>3. \A u \in Tasks : u # t => ~Busy(u) /\ ~Building(u)
    BY <2>1, <2>2 DEF Building, Busy
  <2> QED
    BY <1>1, <2>1, <2>3, GotoType DEF Grow, Steps
<1>4. /\ backing'.self = backing.self /\ backing'.offset = backing.offset
      /\ backing'.md = NULL /\ backing'.gart_ptr = backing.gart_ptr /\ backing'.fence = 0
      /\ backing'.gmr_id = IF backing.gmr_id \in GMRIDs THEN INVALID ELSE backing.gmr_id
      /\ backing'.map = [u \in Tasks |-> NULL]
  BY <1>1 DEF Grow, Grown, Synced, TypeOK, BackingType
<1>5. /\ fifo' = <<>> /\ usedIDs' = {} /\ wired' = {} /\ \A id \in GMRIDs : gmrs'[id] = NULL
  BY <1>1, CompleteFrees DEF Grow
<1>6. CallOf(t)'
  <2>1. CallOf(t) /\ At(t, "alloc")
    BY <1>1 DEF CallInv, Grow
  <2> QED
    BY <1>1, <1>3, <2>1, IdleFields DEF CallOf, At
<1>7. BuildingOf(t)'
  BY <1>1, <1>3, <1>4, <1>5 DEF BuildingOf, Building, At
<1>8. backing.gart_ptr = 0
  BY <1>1 DEF Grow, classifyBacking, KindInv, TypeOK, BackingType
<1>9. KindInv'
  BY <1>1, <1>4, <1>8, SurfaceAssumption DEF KindInv
<1>10. MemoryInv'
  <2>1. (\A u \in Tasks : ~At(u, "store") /\ ~At(u, "store")') /\ backing'.gmr_id \notin GMRIDs
    BY <1>1, <1>3, <1>4, SurfaceAssumption DEF At, Grow, Building
  <2> QED
    BY <1>1, <1>4, <1>5, <2>1 DEF MemoryInv
<1>11. FifoInv'
  BY <1>4, <1>5 DEF FifoInv
<1>12. LockInv'
  BY <1>1, <1>3, LocksKept
<1>13. DrawnInv'
  BY <1>1 DEF DrawnInv
<1>14. CallInv' /\ BuildingInv'
  BY <1>1, <1>3, <1>6, <1>7, OthersWait
<1> QED
  BY <1>2, <1>9, <1>10, <1>11, <1>12, <1>13, <1>14 DEF SurfaceInv

(* The backing is of the wrong kind, or there is none. *)
LEMMA ReplaceKeeps ==
  ASSUME SurfaceInv, ~overlapped', NEW t \in Tasks, Replace(t)
  PROVE  SurfaceInv'
<1>1. /\ TypeOK /\ CallInv /\ KindInv /\ MemoryInv /\ FifoInv /\ LockInv /\ DrawnInv
      /\ proc[t].call # "none" /\ ~Fits /\ (clientBacking = NULL => drawn = NULL)
      /\ ~Collide'
      /\ UNCHANGED <<clientBacking, size, drawn, lost, bIsLocked>>
  BY DEF SurfaceInv, CallInv, CallOf, DrawnInv, Replace, Fits, Collides, At, object, locks
<1>2. TypeOK'
  BY <1>1, StepTypes DEF CallStep
<1>3. /\ proc'[t].step = IF clientBacking # NULL THEN "wrap" ELSE "realloc"
      /\ proc'[t].call = proc[t].call /\ proc'[t].block = proc[t].block
      /\ \A u \in Tasks : u # t => proc'[u] = proc[u]
      /\ \A u \in Tasks : u # t => ~Busy(u) /\ ~Building(u)
  <2>1. proc'[t].step \in {"realloc", "wrap"} /\ \A u \in Tasks : u # t => proc'[u] = proc[u]
    BY <1>1, GotoType DEF Replace, Steps
  <2>2. \A u \in Tasks : u # t => ~Busy(u)' /\ ~Building(u)'
    BY <1>1, <2>1 DEF Collide, Building, Busy
  <2>3. \A u \in Tasks : u # t => ~Busy(u) /\ ~Building(u)
    BY <2>1, <2>2 DEF Building, Busy
  <2> QED
    BY <1>1, <2>1, <2>3, GotoType DEF Replace, Steps
<1>4. vram = lost \cup ({backing.self} \ {NULL}) /\ backing.self \notin lost
  BY <1>1, <1>3 DEF MemoryInv, At, Replace, Building
<1>5. /\ backing'.self = NULL /\ backing'.md = NULL /\ backing'.gart_ptr = 0
      /\ backing'.gmr_id \notin GMRIDs /\ backing'.fence = 0
      /\ backing'.map = [u \in Tasks |-> NULL]
      /\ fifo' = <<>> /\ usedIDs' = {} /\ wired' = {} /\ \A id \in GMRIDs : gmrs'[id] = NULL
      /\ vram' = lost
  <2>1. CASE classifyBacking = 0
    <3>1. backing.self = NULL /\ backing.md = NULL
      BY <2>1 DEF classifyBacking
    <3>2. UNCHANGED <<backing, fifo, vram, usedIDs, wired, gmrs>>
      BY <2>1 DEF Replace, memory
    <3>3. fifo = <<>> /\ backing.fence = 0
      BY <1>1, <3>1 DEF FifoInv, isBackingValid
    <3>4. backing.map = [u \in Tasks |-> NULL]
      <4>1. \A u \in Tasks : backing.map[u] = NULL
        BY <1>1, <3>1 DEF KindInv, Mapped
      <4>2. backing.map \in [Tasks -> Memory \cup {NULL}]
        BY <1>1 DEF TypeOK, BackingType
      <4> QED
        BY <4>1, <4>2
    <3>5. /\ backing.gart_ptr = 0 /\ backing.gmr_id \notin GMRIDs
          /\ usedIDs = {} /\ wired = {} /\ \A id \in GMRIDs : gmrs[id] = NULL
      BY <1>1, <3>1 DEF KindInv, MemoryInv
    <3> QED
      BY <1>4, <3>1, <3>2, <3>3, <3>4, <3>5
  <2>2. CASE classifyBacking # 0
    <3>1. Complete /\ backing' = NoBacking /\ vram' = vram \ {backing.self}
      BY <2>2 DEF Replace, releaseBacking
    <3>2. vram' = lost
      BY <1>4, <3>1
    <3> QED
      BY <1>1, <3>1, <3>2, CompleteFrees, SurfaceAssumption DEF NoBacking
  <2> QED
    BY <2>1, <2>2
<1>6. CallOf(t)'
  <2>1. CallOf(t) /\ At(t, "alloc")
    BY <1>1 DEF CallInv, Replace
  <2> QED
    BY <1>1, <1>3, <2>1, IdleFields DEF CallOf, At
<1>7. BuildingOf(t)'
  BY <1>1, <1>3, <1>5 DEF BuildingOf, Building, At
<1>8. KindInv'
  BY <1>5 DEF KindInv
<1>9. MemoryInv'
  <2>1. \A u \in Tasks : ~At(u, "store")'
    BY <1>1, <1>3 DEF At, Building
  <2>2. NULL \notin lost
    BY <1>1, SurfaceAssumption DEF TypeOK
  <2> QED
    BY <1>1, <1>5, <2>1, <2>2 DEF MemoryInv
<1>10. FifoInv'
  BY <1>5 DEF FifoInv
<1>11. LockInv'
  BY <1>1, <1>3, LocksKept
<1>12. DrawnInv'
  BY <1>1 DEF DrawnInv
<1>13. CallInv' /\ BuildingInv'
  BY <1>1, <1>3, <1>6, <1>7, OthersWait
<1> QED
  BY <1>2, <1>8, <1>9, <1>10, <1>11, <1>12, <1>13 DEF SurfaceInv

(* What is known while a new backing is made. *)
LEMMA WhileBuilding ==
  ASSUME SurfaceInv, NEW t \in Tasks, Building(t)
  PROVE  /\ TypeOK /\ CallInv /\ CallOf(t) /\ KindInv /\ MemoryInv /\ FifoInv /\ LockInv /\ DrawnInv
         /\ proc[t].call # "none" /\ \A u \in Tasks : u # t => ~Busy(u) /\ ~Building(u)
         /\ backing.md = NULL /\ backing.gmr_id \notin GMRIDs /\ backing.gart_ptr = 0
         /\ backing.map = [u \in Tasks |-> NULL]
         /\ fifo = <<>> /\ backing.fence = 0
         /\ usedIDs = {} /\ wired = {} /\ \A id \in GMRIDs : gmrs[id] = NULL
         /\ At(t, "wrap") <=> clientBacking # NULL
         /\ clientBacking = NULL => drawn = NULL
         /\ proc[t].step \in {"gmr", "wrap"} => backing.self = NULL
         /\ proc[t].step \in {"store", "gmr"} => backing.size = size
         /\ NULL \notin lost
<1>1. TypeOK /\ CallInv /\ KindInv /\ MemoryInv /\ FifoInv /\ LockInv /\ DrawnInv /\ CallOf(t) /\ BuildingOf(t)
  BY DEF SurfaceInv, CallInv, BuildingInv
<1>2. ~At(t, "idle")
  BY DEF Building, At
<1>3. proc[t].call # "none" /\ \A u \in Tasks : u # t => ~Busy(u) /\ ~Building(u)
  BY <1>1, <1>2, OthersNotBusy DEF CallInv, CallOf
<1>4. backing.md = NULL /\ fifo = <<>> /\ backing.map = [u \in Tasks |-> NULL]
  BY <1>1 DEF BuildingOf
<1>5. backing.fence = 0
  BY <1>1, <1>4 DEF FifoInv
<1>6. backing.gmr_id \notin GMRIDs /\ backing.gart_ptr = 0
  BY <1>1, <1>4 DEF KindInv
<1>7. usedIDs = {} /\ wired = {} /\ \A id \in GMRIDs : gmrs[id] = NULL
  BY <1>1, <1>4, <1>6 DEF MemoryInv
<1>8. NULL \notin lost
  BY <1>1, SurfaceAssumption DEF TypeOK
<1> QED
  BY <1>1, <1>3, <1>4, <1>5, <1>6, <1>7, <1>8 DEF BuildingOf

LEMMA ReallocKeeps ==
  ASSUME SurfaceInv, NEW t \in Tasks, Realloc(t) \/ ReallocFails(t)
  PROVE  SurfaceInv'
<1>1. At(t, "realloc") /\ Building(t)
  BY DEF Realloc, ReallocFails, At, Building
<1>2. /\ TypeOK /\ CallInv /\ CallOf(t) /\ KindInv /\ MemoryInv /\ LockInv /\ proc[t].call # "none"
      /\ \A u \in Tasks : u # t => ~Busy(u) /\ ~Building(u)
      /\ backing.md = NULL /\ backing.map = [u \in Tasks |-> NULL] /\ fifo = <<>>
      /\ backing.fence = 0 /\ clientBacking = NULL /\ drawn = NULL /\ NULL \notin lost
  BY <1>1, WhileBuilding DEF At
<1>3. /\ UNCHANGED <<clientBacking, size, drawn, fifo, bIsLocked, usedIDs, wired, gmrs>>
      /\ backing'.self = backing.self /\ backing'.offset = backing.offset
      /\ backing'.md = NULL /\ backing'.gart_ptr = backing.gart_ptr /\ backing'.fence = 0
      /\ backing'.gmr_id = backing.gmr_id /\ backing'.map = backing.map /\ backing'.size = size
  BY <1>2 DEF Realloc, ReallocFails, object, locks, memory, TypeOK, BackingType
<1>4. TypeOK'
  BY <1>2, StepTypes DEF CallStep
<1>5. vram = lost \cup ({backing.self} \ {NULL}) /\ backing.self \notin lost
  BY <1>1, <1>2 DEF MemoryInv, At, Building
<1>6. /\ proc'[t].step = "store" /\ proc'[t].call = proc[t].call
      /\ \A u \in Tasks : u # t => proc'[u] = proc[u]
      /\ vram' = lost' \cup ({proc'[t].block} \ {NULL}) /\ proc'[t].block \notin lost'
  <2>1. CASE Realloc(t)
    <3>1. PICK result \in (Blocks \ vram) \cup ({backing.self} \ {NULL}) :
            /\ proc' = [proc EXCEPT ![t].step = "store", ![t].block = result]
            /\ vram' = (vram \ {backing.self}) \cup {result}
      BY <2>1 DEF Realloc, BigEnough
    <3>2. result # NULL /\ result \notin lost
      BY <1>2, <1>5, SurfaceAssumption
    <3>3. /\ proc'[t].step = "store" /\ proc'[t].call = proc[t].call /\ proc'[t].block = result
          /\ \A u \in Tasks : u # t => proc'[u] = proc[u]
      BY <1>2, <3>1 DEF TypeOK, CallType
    <3>4. lost' = lost
      BY <2>1 DEF Realloc
    <3>5. vram \ {backing.self} = lost
      BY <1>5
    <3>6. vram' = lost' \cup ({result} \ {NULL}) /\ result \notin lost'
      BY <3>1, <3>2, <3>4, <3>5
    <3> QED
      BY <3>3, <3>6
  <2>2. CASE ReallocFails(t)
    <3>1. /\ proc'[t].step = "store" /\ proc'[t].call = proc[t].call
          /\ proc'[t].block = NULL
          /\ \A u \in Tasks : u # t => proc'[u] = proc[u]
      BY <1>1, <1>2, <2>2, GotoType DEF ReallocFails, Steps, CallOf, At
    <3>2. lost' = lost \cup ({backing.self} \ {NULL}) /\ vram' = vram
      BY <2>2 DEF ReallocFails, memory
    <3>3. vram' = lost'
      BY <1>2, <1>5, <3>2
    <3>4. NULL \notin lost'
      BY <1>2, <3>2
    <3> QED
      BY <3>1, <3>3, <3>4
  <2> QED
    BY <2>1, <2>2
<1>7. CallOf(t)'
  BY <1>2, <1>3, <1>6, IdleFields DEF CallOf, At
<1>8. BuildingOf(t)'
  BY <1>2, <1>3, <1>6 DEF BuildingOf, Building, At
<1>9. KindInv'
  BY <1>2, <1>3 DEF KindInv
<1>10. MemoryInv'
  <2>1. \A u \in Tasks : At(u, "store")' <=> u = t
    BY <1>2, <1>6 DEF At, Building
  <2> QED
    BY <1>2, <1>3, <1>6, <2>1 DEF MemoryInv
<1>11. FifoInv'
  BY <1>2, <1>3 DEF FifoInv
<1>12. LockInv'
  BY <1>2, <1>3, <1>6, LocksKept
<1>13. DrawnInv'
  BY <1>2, <1>3 DEF DrawnInv
<1>14. CallInv' /\ BuildingInv'
  <2>1. ~Collide'
    BY <1>1, <1>2, <1>6, GoOnNoCollision DEF CallInv, Busy, At
  <2> QED
    BY <1>2, <1>6, <1>7, <1>8, <2>1, OthersWait
<1> QED
  BY <1>4, <1>9, <1>10, <1>11, <1>12, <1>13, <1>14 DEF SurfaceInv

LEMMA StoreKeeps ==
  ASSUME SurfaceInv, NEW t \in Tasks, Store(t)
  PROVE  SurfaceInv'
<1>1. At(t, "store") /\ Building(t)
  BY DEF Store, At, Building
<1>2. /\ TypeOK /\ CallInv /\ CallOf(t) /\ KindInv /\ MemoryInv /\ LockInv /\ proc[t].call # "none"
      /\ \A u \in Tasks : u # t => ~Busy(u) /\ ~Building(u)
      /\ backing.md = NULL /\ backing.map = [u \in Tasks |-> NULL] /\ fifo = <<>>
      /\ backing.gmr_id \notin GMRIDs /\ backing.gart_ptr = 0
      /\ backing.fence = 0 /\ clientBacking = NULL /\ drawn = NULL /\ backing.size = size
      /\ usedIDs = {} /\ wired = {} /\ \A id \in GMRIDs : gmrs[id] = NULL
  BY <1>1, WhileBuilding DEF At
<1>3. /\ UNCHANGED <<clientBacking, size, drawn, fifo, bIsLocked, vram, usedIDs, wired, gmrs, lost>>
      /\ backing'.self = proc[t].block /\ backing'.md = NULL /\ backing'.gart_ptr = 0
      /\ backing'.fence = 0 /\ backing'.map = backing.map /\ backing'.size = size
      /\ proc[t].block # NULL => backing'.offset = proc[t].block /\ backing'.gmr_id = VRAM
      /\ backing'.gmr_id \notin GMRIDs
  BY <1>2, SurfaceAssumption DEF Store, object, locks, memory, TypeOK, BackingType
<1>4. TypeOK'
  BY <1>2, StepTypes DEF CallStep
<1>5. /\ Allocated(t) = IF proc[t].call \in Locks THEN "map"
                        ELSE IF proc[t].call = "copy" THEN "dma" ELSE "answer"
      /\ proc'[t].step = IF proc[t].block = NULL THEN "gmr" ELSE Allocated(t)
      /\ proc'[t].call = proc[t].call
      /\ \A u \in Tasks : u # t => proc'[u] = proc[u]
  BY <1>2, AllocatedType, GotoType DEF Store, Steps
<1>6. proc[t].block # NULL => Fits'
  <2>1. size \in Int
    BY <1>2 DEF TypeOK
  <2> QED
    BY <1>2, <1>3, <2>1 DEF Fits, classifyBacking, hasSourceGrown
<1>7. CallOf(t)'
  BY <1>2, <1>3, <1>5, <1>6, IdleFields DEF CallOf, At
<1>8. BuildingOf(t)'
  BY <1>2, <1>3, <1>5 DEF BuildingOf, Building, At
<1>9. KindInv'
  BY <1>2, <1>3 DEF KindInv
<1>10. MemoryInv'
  <2>1. \A u \in Tasks : ~At(u, "store")'
    BY <1>2, <1>5 DEF At, Building, Locks
  <2>2. vram = lost \cup ({proc[t].block} \ {NULL}) /\ proc[t].block \notin lost
    BY <1>1, <1>2 DEF MemoryInv
  <2> QED
    BY <1>2, <1>3, <2>1, <2>2 DEF MemoryInv
<1>11. FifoInv'
  BY <1>2, <1>3 DEF FifoInv
<1>12. LockInv'
  BY <1>2, <1>3, <1>5, LocksKept
<1>13. DrawnInv'
  BY <1>2, <1>3 DEF DrawnInv
<1>14. CallInv' /\ BuildingInv'
  <2>1. ~Collide'
    BY <1>1, <1>2, <1>5, GoOnNoCollision DEF CallInv, Busy, At
  <2> QED
    BY <1>2, <1>5, <1>7, <1>8, <2>1, OthersWait
<1> QED
  BY <1>4, <1>9, <1>10, <1>11, <1>12, <1>13, <1>14 DEF SurfaceInv

(* VendorTransferBuffer::prepare of the new descriptor. *)
LEMMA PrepareKeeps ==
  ASSUME SurfaceInv, NEW t \in Tasks, CallStep(t), At(t, "gmr") \/ At(t, "wrap"),
         NEW mem \in Buffers \cup Clients, NEW gart \in {0, 1}, gart = 1 <=> At(t, "wrap"),
         Prepare(t, mem, gart)
  PROVE  SurfaceInv'
<1>1. Building(t)
  BY DEF At, Building
<1>2. /\ TypeOK /\ CallInv /\ CallOf(t) /\ KindInv /\ MemoryInv /\ LockInv /\ proc[t].call # "none"
      /\ \A u \in Tasks : u # t => ~Busy(u) /\ ~Building(u)
      /\ backing.map = [u \in Tasks |-> NULL] /\ fifo = <<>> /\ backing.self = NULL
      /\ backing.gmr_id \notin GMRIDs /\ (At(t, "wrap") <=> clientBacking # NULL)
      /\ clientBacking = NULL => drawn = NULL
      /\ usedIDs = {} /\ wired = {} /\ \A id \in GMRIDs : gmrs[id] = NULL
  BY <1>1, WhileBuilding DEF At
<1>3. PICK id \in GMRIDs :
        /\ usedIDs' = {id} /\ wired' = {mem} /\ gmrs' = [gmrs EXCEPT ![id] = mem]
        /\ backing' = [backing EXCEPT !.offset = NULL, !.size = size, !.md = mem, !.gmr_id = id,
                                      !.gart_ptr = gart, !.fence = 0]
  <2>1. PICK id \in GMRIDs :
          /\ usedIDs' = usedIDs \cup {id}
          /\ wired' = wired \cup {mem} /\ gmrs' = [gmrs EXCEPT ![id] = mem]
          /\ backing' = [backing EXCEPT !.offset = NULL, !.size = size, !.md = mem, !.gmr_id = id,
                                        !.gart_ptr = gart, !.fence = 0]
    BY <1>2 DEF Prepare
  <2>2. usedIDs' = {id} /\ wired' = {mem}
    BY <1>2, <2>1
  <2> QED
    BY <2>1, <2>2
<1>4. /\ UNCHANGED <<clientBacking, size, drawn, fifo, bIsLocked, vram, lost>>
      /\ backing'.self = NULL /\ backing'.md = mem
      /\ backing'.gart_ptr = gart
      /\ backing'.fence = 0 /\ backing'.map = backing.map /\ backing'.size = size
      /\ backing'.gmr_id = id /\ mem # NULL
  BY <1>2, <1>3, SurfaceAssumption DEF Prepare, object, locks, TypeOK, BackingType
<1>5. TypeOK'
  BY <1>2, StepTypes
<1>6. /\ Allocated(t) = IF proc[t].call \in Locks THEN "map"
                        ELSE IF proc[t].call = "copy" THEN "dma" ELSE "answer"
      /\ proc'[t].step = Allocated(t) /\ proc'[t].call = proc[t].call
      /\ \A u \in Tasks : u # t => proc'[u] = proc[u]
  BY <1>2, AllocatedType, GotoType DEF Prepare, Steps
<1>7. Fits'
  <2>1. size \in Int
    BY <1>2 DEF TypeOK
  <2> QED
    BY <1>2, <1>4, <2>1 DEF Fits, classifyBacking, hasSourceGrown
<1>8. CallOf(t)'
  BY <1>2, <1>4, <1>6, <1>7, IdleFields DEF CallOf, At
<1>9. BuildingOf(t)'
  BY <1>2, <1>6 DEF BuildingOf, Building
<1>10. KindInv'
  BY <1>2, <1>4 DEF KindInv
<1>11. MemoryInv'
  <2>1. (\A u \in Tasks : ~At(u, "store")') /\ (\A u \in Tasks : ~At(u, "store"))
    BY <1>2, <1>6 DEF At, Building
  <2>2. \A i \in GMRIDs : gmrs'[i] = IF i = id THEN mem ELSE NULL
    BY <1>2, <1>3 DEF TypeOK
  <2>3. vram = lost \cup ({NULL} \ {NULL}) /\ NULL \notin lost
    BY <1>2, <2>1 DEF MemoryInv
  <2> QED
    BY <1>2, <1>3, <1>4, <2>1, <2>2, <2>3 DEF MemoryInv
<1>12. FifoInv'
  BY <1>2, <1>4 DEF FifoInv
<1>13. LockInv'
  BY <1>2, <1>4, <1>6, LocksKept
<1>14. DrawnInv'
  BY <1>2, <1>4 DEF DrawnInv
<1>15. CallInv' /\ BuildingInv'
  <2>1. ~Collide'
    BY <1>1, <1>2, <1>6, GoOnNoCollision DEF CallInv, Busy, Building
  <2> QED
    BY <1>2, <1>6, <1>8, <1>9, <2>1, OthersWait
<1> QED
  BY <1>5, <1>10, <1>11, <1>12, <1>13, <1>14, <1>15 DEF SurfaceInv

(* The allocation has failed: there is no backing, and no lock. *)
LEMMA FailureKeeps ==
  ASSUME SurfaceInv, NEW t \in Tasks, CallStep(t), At(t, "gmr") \/ At(t, "wrap"),
         PrepareFails(t) \/ NoDescriptor(t)
  PROVE  SurfaceInv'
<1>1. Building(t)
  BY DEF At, Building
<1>2. /\ TypeOK /\ CallInv /\ KindInv /\ MemoryInv /\ LockInv /\ proc[t].call # "none"
      /\ \A u \in Tasks : u # t => ~Busy(u) /\ ~Building(u)
      /\ backing.map = [u \in Tasks |-> NULL] /\ fifo = <<>> /\ backing.self = NULL
      /\ backing.md = NULL /\ backing.gart_ptr = 0 /\ backing.fence = 0
      /\ backing.gmr_id \notin GMRIDs /\ (clientBacking = NULL => drawn = NULL)
      /\ usedIDs = {} /\ wired = {} /\ \A id \in GMRIDs : gmrs[id] = NULL
  BY <1>1, WhileBuilding DEF At
<1>3. /\ UNCHANGED <<clientBacking, size, drawn, fifo, vram, usedIDs, wired, gmrs, lost>>
      /\ backing'.self = NULL /\ backing'.md = NULL /\ backing'.gart_ptr = 0
      /\ backing'.fence = 0 /\ backing'.map = backing.map
      /\ backing'.gmr_id \notin GMRIDs
  <2>1. backing \in BackingType
    BY <1>2 DEF TypeOK
  <2>2. CASE PrepareFails(t)
    <3>1. UNCHANGED <<clientBacking, size, drawn, fifo, vram, usedIDs, wired, gmrs, lost>>
      BY <2>2 DEF PrepareFails, UsedAfterFailure, object
    <3>2. backing' = [backing EXCEPT !.offset = NULL, !.size = size, !.md = NULL,
                                     !.gmr_id = INVALID]
      BY <2>2 DEF PrepareFails
    <3>3. /\ backing'.self = backing.self /\ backing'.md = NULL
          /\ backing'.gart_ptr = backing.gart_ptr /\ backing'.fence = backing.fence
          /\ backing'.map = backing.map /\ backing'.gmr_id = INVALID
      BY <2>1, <3>2 DEF BackingType
    <3> QED
      BY <1>2, <3>1, <3>3, SurfaceAssumption
  <2>3. CASE NoDescriptor(t)
    <3>1. UNCHANGED <<clientBacking, size, drawn, fifo, vram, usedIDs, wired, gmrs, lost>>
      BY <2>3 DEF NoDescriptor, object, memory
    <3>2. backing' = [backing EXCEPT !.offset = IF At(t, "wrap") THEN NULL ELSE @, !.size = size]
      BY <2>3 DEF NoDescriptor
    <3>3. /\ backing'.self = backing.self /\ backing'.md = backing.md
          /\ backing'.gart_ptr = backing.gart_ptr /\ backing'.fence = backing.fence
          /\ backing'.map = backing.map /\ backing'.gmr_id = backing.gmr_id
      BY <2>1, <3>2 DEF BackingType
    <3> QED
      BY <1>2, <3>1, <3>3
  <2> QED
    BY <2>2, <2>3
<1>4. /\ proc'[t] = Idle /\ \A u \in Tasks : u # t => proc'[u] = proc[u]
      /\ bIsLocked' = bIsLocked \ {proc[t].call}
  BY <1>2, FailsType DEF PrepareFails, NoDescriptor, Fails
<1>5. TypeOK'
  BY <1>2, StepTypes
<1>6. KindInv'
  BY <1>2, <1>3 DEF KindInv
<1>7. MemoryInv'
  <2>1. (\A u \in Tasks : ~At(u, "store")') /\ (\A u \in Tasks : ~At(u, "store"))
    BY <1>2, <1>4, IdleFields DEF At, Building
  <2> QED
    BY <1>2, <1>3, <2>1 DEF MemoryInv
<1>8. FifoInv'
  BY <1>2, <1>3 DEF FifoInv
<1>9. LockInv'
  <2>1. \A u \in Tasks, lock \in bIsLocked' : proc[u].call = lock => proc'[u].call = lock
    <3>1. ASSUME NEW u \in Tasks, NEW lock \in bIsLocked', proc[u].call = lock
          PROVE  proc'[u].call = lock
      <4>1. u # t
        BY <1>4, <3>1
      <4> QED
        BY <1>2, <1>4, <3>1, <4>1
    <3> QED
      BY <3>1
  <2> QED
    BY <1>2, <1>3, <1>4, <2>1, LocksKept
<1>10. DrawnInv'
  BY <1>2, <1>3 DEF DrawnInv
<1>11. CallInv' /\ BuildingInv'
  <2>1. ~Collide'
    BY <1>2, <1>4, EndNoCollision DEF CallInv
  <2>2. CallOf(t)' /\ BuildingOf(t)'
    BY <1>4, IdleTaskNext
  <2> QED
    BY <1>2, <1>4, <2>1, <2>2, OthersWait
<1> QED
  BY <1>5, <1>6, <1>7, <1>8, <1>9, <1>10, <1>11 DEF SurfaceInv

(* What is known in a call once the backing is there. *)
LEMMA WhileUsing ==
  ASSUME SurfaceInv, NEW t \in Tasks, proc[t].step \in {"map", "dma", "answer"}
  PROVE  /\ TypeOK /\ CallInv /\ CallOf(t) /\ KindInv /\ MemoryInv /\ FifoInv /\ LockInv /\ DrawnInv
         /\ proc[t].call # "none"
         /\ \A u \in Tasks : ~At(u, "store") /\ ~Building(u)
<1>1. /\ TypeOK /\ CallInv /\ KindInv /\ MemoryInv /\ FifoInv /\ LockInv /\ DrawnInv /\ CallOf(t)
      /\ ~At(t, "idle")
  BY DEF SurfaceInv, CallInv, At
<1>2. proc[t].call # "none" /\ ~Building(t)
  BY <1>1 DEF CallOf, Building
<1>3. \A u \in Tasks : u # t => ~Building(u)
  <2>1. Busy(t)
    BY DEF Busy
  <2> QED
    BY <1>1, <2>1, OthersNotBuilding DEF CallInv
<1>4. \A u \in Tasks : ~At(u, "store") /\ ~Building(u)
  BY <1>2, <1>3 DEF At, Building
<1> QED
  BY <1>1, <1>2, <1>4

LEMMA MapKeeps ==
  ASSUME SurfaceInv, NEW t \in Tasks, mapBacking(t)
  PROVE  SurfaceInv'
<1>1. /\ TypeOK /\ CallInv /\ CallOf(t) /\ KindInv /\ MemoryInv /\ FifoInv /\ LockInv /\ DrawnInv
      /\ At(t, "map") /\ Fits /\ proc[t].call # "none" /\ proc[t].call \in Locks
      /\ \A u \in Tasks : ~At(u, "store") /\ ~Building(u)
      /\ UNCHANGED <<clientBacking, size, memory, fifo, drawn, lost, bIsLocked>>
  BY WhileUsing DEF mapBacking, CallOf, At, object, locks
<1>2. /\ backing'.self = backing.self /\ backing'.offset = backing.offset
      /\ backing'.size = backing.size /\ backing'.md = backing.md
      /\ backing'.gart_ptr = backing.gart_ptr /\ backing'.gmr_id = backing.gmr_id
      /\ backing'.fence = backing.fence
      /\ \A u \in Tasks : backing'.map[u] =
           IF u = t /\ backing.map[u] = NULL THEN Mapped ELSE backing.map[u]
  BY <1>1 DEF mapBacking, TypeOK, BackingType
<1>3. Mapped # NULL
  BY <1>1, FitsValid
<1>4. TypeOK'
  BY <1>1, StepTypes DEF CallStep
<1>5. (Fits' <=> Fits) /\ Target' = Target /\ (isBackingValid' <=> isBackingValid)
  BY <1>1, <1>2, SameStore
<1>6. /\ proc'[t].step = "answer" /\ proc'[t].call = proc[t].call
      /\ \A u \in Tasks : u # t => proc'[u] = proc[u]
  BY <1>1, GotoType DEF mapBacking, Steps
<1>7. CallOf(t)'
  BY <1>1, <1>2, <1>3, <1>5, <1>6, IdleFields DEF CallOf, At
<1>8. BuildingOf(t)'
  BY <1>6 DEF BuildingOf, Building
<1>9. KindInv' /\ MemoryInv'
  <2>1. \A u \in Tasks : ~At(u, "store")'
    BY <1>1, <1>6 DEF At
  <2>2. \A u \in Tasks : backing'.map[u] \in {NULL, Mapped}
    BY <1>1, <1>2 DEF KindInv
  <2> QED
    BY <1>1, <1>2, <2>1, <2>2, SameKind
<1>10. FifoInv'
  BY <1>1, <1>2, <1>5 DEF FifoInv
<1>11. LockInv'
  <2>1. \A u \in Tasks : backing.map[u] # NULL => backing'.map[u] # NULL
    BY <1>2
  <2>2. \A u \in Tasks : proc'[u].call = proc[u].call
    BY <1>1, <1>6
  <2> QED
    BY <1>1, <1>5, <2>1, <2>2, LocksKept
<1>12. DrawnInv'
  BY <1>1, <1>5 DEF DrawnInv
<1>13. CallInv' /\ BuildingInv'
  <2>1. ~Collide'
    BY <1>1, <1>6, GoOnNoCollision DEF CallInv, Busy, Building, At
  <2>2. \A u \in Tasks : u # t => backing'.map[u] = backing.map[u]
    BY <1>2
  <2> QED
    BY <1>1, <1>5, <1>6, <1>7, <1>8, <2>1, <2>2, OthersUse
<1> QED
  BY <1>4, <1>9, <1>10, <1>11, <1>12, <1>13 DEF SurfaceInv

LEMMA MapFailsKeeps ==
  ASSUME SurfaceInv, NEW t \in Tasks, mapBackingFails(t)
  PROVE  SurfaceInv'
<1>1. /\ TypeOK /\ CallInv /\ KindInv /\ MemoryInv /\ FifoInv /\ LockInv /\ DrawnInv /\ proc[t].call # "none"
      /\ \A u \in Tasks : ~At(u, "store") /\ ~Building(u)
      /\ UNCHANGED <<backing, clientBacking, size, memory, fifo, drawn, lost>>
  BY WhileUsing DEF mapBackingFails, At, object
<1>2. TypeOK'
  BY <1>1, StepTypes DEF CallStep
<1>3. /\ proc'[t] = Idle /\ \A u \in Tasks : u # t => proc'[u] = proc[u]
      /\ bIsLocked' = bIsLocked \ {proc[t].call}
  BY <1>1, FailsType DEF mapBackingFails, Fails
<1>4. (Fits' <=> Fits) /\ Target' = Target
  BY <1>1, SameStore
<1>5. KindInv' /\ MemoryInv' /\ FifoInv'
  <2>1. \A u \in Tasks : ~At(u, "store")'
    BY <1>1, <1>3, IdleFields DEF At
  <2> QED
    BY <1>1, <2>1, SameMemory
<1>6. LockInv'
  <2>1. ASSUME NEW u \in Tasks, NEW lock \in bIsLocked', proc[u].call = lock
        PROVE  proc'[u].call = lock
    <3>1. u # t
      BY <1>3, <2>1
    <3> QED
      BY <1>1, <1>3, <2>1, <3>1
  <2> QED
    BY <1>1, <1>3, <1>4, <2>1, LocksKept
<1>7. DrawnInv'
  BY <1>1, <1>4 DEF DrawnInv
<1>8. CallInv' /\ BuildingInv'
  <2>1. ~Collide'
    BY <1>1, <1>3, EndNoCollision DEF CallInv
  <2>2. CallOf(t)' /\ BuildingOf(t)'
    BY <1>3, IdleTaskNext
  <2> QED
    BY <1>1, <1>3, <1>4, <2>1, <2>2, OthersUse
<1> QED
  BY <1>2, <1>5, <1>6, <1>7, <1>8 DEF SurfaceInv

(* A DMA command goes to the device, for a backing that is there. *)
LEMMA PushKeeps ==
  ASSUME TypeOK, KindInv, MemoryInv, FifoInv, isBackingValid, Push,
         UNCHANGED <<clientBacking, size, memory, lost>>,
         \A u \in Tasks : ~At(u, "store") /\ ~At(u, "store")'
  PROVE  /\ KindInv' /\ MemoryInv' /\ FifoInv'
         /\ (Fits' <=> Fits) /\ Target' = Target /\ backing'.map = backing.map
<1>1. /\ backing'.self = backing.self /\ backing'.offset = backing.offset
      /\ backing'.size = backing.size /\ backing'.md = backing.md
      /\ backing'.gart_ptr = backing.gart_ptr /\ backing'.gmr_id = backing.gmr_id
      /\ backing'.map = backing.map /\ backing'.fence = Len(fifo) + 1
  BY PushType DEF TypeOK, BackingType
<1>2. (Fits' <=> Fits) /\ Target' = Target /\ (isBackingValid' <=> isBackingValid)
  BY <1>1, SameStore
<1>3. KindInv' /\ MemoryInv'
  <2>1. \A u \in Tasks : backing'.map[u] \in {NULL, Mapped}
    BY <1>1 DEF KindInv
  <2> QED
    BY <1>1, <2>1, SameKind
<1>4. FifoInv'
  <2> DEFINE command == [gmr |-> backing.gmr_id, mem |-> Target]
  <2>1. fifo \in Seq(CommandType) /\ fifo' = Append(fifo, command)
    BY PushType DEF TypeOK
  <2> HIDE DEF command
  <2>2. /\ Len(fifo') = Len(fifo) + 1
        /\ \A i \in 1..Len(fifo') : fifo'[i] = IF i = Len(fifo) + 1 THEN command ELSE fifo[i]
    BY <2>1
  <2>3. \A i \in 1..Len(fifo') : fifo'[i] = command
    <3>1. ASSUME NEW i \in 1..Len(fifo'), i # Len(fifo) + 1
          PROVE  i \in 1..Len(fifo)
      BY <2>1, <2>2, <3>1
    <3>2. \A i \in 1..Len(fifo) : fifo[i] = command
      BY DEF FifoInv, command
    <3> QED
      BY <2>2, <3>1, <3>2
  <2> QED
    BY <1>1, <1>2, <2>2, <2>3 DEF FifoInv, command
<1> QED
  BY <1>1, <1>2, <1>3, <1>4

LEMMA CopyDMAKeeps ==
  ASSUME SurfaceInv, NEW t \in Tasks, CopyDMA(t)
  PROVE  SurfaceInv'
<1>1. /\ TypeOK /\ CallInv /\ CallOf(t) /\ KindInv /\ MemoryInv /\ FifoInv /\ LockInv /\ DrawnInv
      /\ At(t, "dma") /\ Fits /\ proc[t].call = "copy" /\ isBackingValid
      /\ \A u \in Tasks : ~At(u, "store") /\ ~Building(u)
      /\ UNCHANGED <<clientBacking, size, memory, drawn, lost, bIsLocked>>
  BY WhileUsing, FitsValid DEF CopyDMA, CallOf, At, object, locks
<1>2. TypeOK'
  BY <1>1, StepTypes DEF CallStep
<1>3. /\ proc'[t].step = "answer" /\ proc'[t].call = "copy"
      /\ \A u \in Tasks : u # t => proc'[u] = proc[u]
  BY <1>1, GotoType DEF CopyDMA, Steps
<1>4. /\ KindInv' /\ MemoryInv' /\ FifoInv'
      /\ (Fits' <=> Fits) /\ Target' = Target /\ backing'.map = backing.map
  <2>1. \A u \in Tasks : ~At(u, "store")'
    BY <1>1, <1>3 DEF At
  <2> QED
    BY <1>1, <2>1, PushKeeps DEF CopyDMA
<1>5. CallOf(t)'
  BY <1>1, <1>3, <1>4, IdleFields DEF CallOf, At, Locks
<1>6. BuildingOf(t)'
  BY <1>3 DEF BuildingOf, Building
<1>7. LockInv'
  <2>1. \A u \in Tasks : proc'[u].call = proc[u].call
    BY <1>1, <1>3
  <2> QED
    BY <1>1, <1>4, <2>1, LocksKept
<1>8. DrawnInv'
  BY <1>1, <1>4 DEF DrawnInv
<1>9. CallInv' /\ BuildingInv'
  <2>1. ~Collide'
    BY <1>1, <1>3, GoOnNoCollision DEF CallInv, Busy, Building, At
  <2> QED
    BY <1>1, <1>3, <1>4, <1>5, <1>6, <2>1, OthersUse
<1> QED
  BY <1>2, <1>4, <1>7, <1>8, <1>9 DEF SurfaceInv

LEMMA AnswerKeeps ==
  ASSUME SurfaceInv, NEW t \in Tasks, Answer(t)
  PROVE  SurfaceInv'
<1>1. /\ TypeOK /\ CallInv /\ CallOf(t) /\ KindInv /\ MemoryInv /\ FifoInv /\ LockInv /\ DrawnInv
      /\ At(t, "answer") /\ proc[t].call # "none"
      /\ \A u \in Tasks : ~At(u, "store") /\ ~Building(u)
      /\ UNCHANGED <<clientBacking, size, memory, lost, bIsLocked>>
  BY WhileUsing DEF Answer, At, object, locks
<1>2. TypeOK'
  BY <1>1, StepTypes DEF CallStep
<1>3. proc'[t] = Idle /\ \A u \in Tasks : u # t => proc'[u] = proc[u]
  BY <1>1 DEF Answer, TypeOK
<1>4. /\ backing'.self = backing.self /\ backing'.offset = backing.offset
      /\ backing'.size = backing.size /\ backing'.md = backing.md
      /\ backing'.gart_ptr = backing.gart_ptr /\ backing'.gmr_id = backing.gmr_id
      /\ backing'.map = backing.map
      /\ \/ fifo' = fifo /\ backing'.fence = backing.fence
         \/ fifo' = <<>> /\ backing'.fence = 0
  <2>1. CASE WaitsForDMA(t)
    <3>1. fifo' = <<>> /\ backing' = [backing EXCEPT !.fence = 0] /\ backing \in BackingType
      BY <1>1, <2>1, DrainedEmpty DEF Answer, Synced, TypeOK
    <3> QED
      BY <3>1 DEF BackingType
  <2>2. CASE ~WaitsForDMA(t)
    BY <2>2 DEF Answer
  <2> QED
    BY <2>1, <2>2
<1>5. (Fits' <=> Fits) /\ Target' = Target /\ (isBackingValid' <=> isBackingValid)
  BY <1>1, <1>4, SameStore
<1>6. KindInv' /\ MemoryInv'
  <2>1. \A u \in Tasks : ~At(u, "store")'
    BY <1>1, <1>3, IdleFields DEF At
  <2>2. \A u \in Tasks : backing'.map[u] \in {NULL, Mapped}
    BY <1>1, <1>4 DEF KindInv
  <2> QED
    BY <1>1, <1>4, <2>1, <2>2, SameKind
<1>7. FifoInv'
  <2>1. CASE fifo' = fifo /\ backing'.fence = backing.fence
    BY <1>1, <1>4, <1>5, <2>1 DEF FifoInv
  <2>2. CASE fifo' = <<>> /\ backing'.fence = 0
    BY <2>2 DEF FifoInv
  <2> QED
    BY <1>4, <2>1, <2>2
<1>8. LockInv'
  <2>1. proc[t].call = "context" => Fits /\ backing.map["context"] # NULL
    BY <1>1 DEF CallOf, Locks
  <2>2. proc[t].call \in {"read", "write"} /\ clientBacking = NULL =>
          Fits /\ backing.map["owner"] # NULL
    BY <1>1 DEF CallOf, Locks
  <2>3. proc["context"].call = "context" /\ proc'["context"].call # "context" => t = "context"
    BY <1>3 DEF Tasks
  <2>4. \A lock \in {"read", "write"} :
          proc["owner"].call = lock /\ proc'["owner"].call # lock => t = "owner"
    BY <1>3 DEF Tasks
  <2> QED
    BY <1>1, <1>4, <1>5, <2>1, <2>2, <2>3, <2>4 DEF LockInv
<1>9. DrawnInv'
  <2> SUFFICES ASSUME clientBacking = NULL
               PROVE  Fits /\ (drawn' # NULL => drawn' = Target)
    BY <1>1, <1>5 DEF DrawnInv
  <2>1. Fits /\ (proc[t].call \in Locks => backing.map[t] # NULL)
    BY <1>1 DEF CallOf
  <2>2. proc[t].call \in Locks => backing.map[t] = Target
    BY <1>1, <2>1, FitsValid DEF KindInv
  <2> QED
    BY <2>1, <2>2 DEF Answer, Handed
<1>10. CallInv' /\ BuildingInv'
  <2>1. ~Collide'
    BY <1>1, <1>3, EndNoCollision DEF CallInv
  <2>2. CallOf(t)' /\ BuildingOf(t)'
    BY <1>3, IdleTaskNext
  <2> QED
    BY <1>1, <1>3, <1>4, <1>5, <2>1, <2>2, OthersUse
<1> QED
  BY <1>2, <1>6, <1>7, <1>8, <1>9, <1>10 DEF SurfaceInv

LEMMA CallStepKeeps ==
  ASSUME SurfaceInv, ~overlapped', NEW t \in Tasks, CallStep(t)
  PROVE  SurfaceInv'
<1>1. ASSUME WrapClient(t)
      PROVE  SurfaceInv'
  <2>1. ASSUME clientBacking # NULL, Prepare(t, clientBacking.addr, 1)
        PROVE  SurfaceInv'
    <3>1. clientBacking.addr \in Buffers \cup Clients
      BY <2>1 DEF SurfaceInv, TypeOK, ClientBackings
    <3> QED
      BY <1>1, <2>1, <3>1, PrepareKeeps DEF WrapClient
  <2> QED
    BY <1>1, <2>1, FailureKeeps DEF WrapClient
<1>2. ASSUME allocGMRBacking(t)
      PROVE  SurfaceInv'
  <2>1. ASSUME NEW mem \in Buffers, Prepare(t, mem, 0)
        PROVE  SurfaceInv'
    BY <1>2, <2>1, PrepareKeeps DEF allocGMRBacking, At
  <2> QED
    BY <1>2, <2>1, FailureKeeps DEF allocGMRBacking
<1> QED
  BY <1>1, <1>2, ReuseKeeps, GrowKeeps, ReplaceKeeps, ReallocKeeps, StoreKeeps, MapKeeps,
     MapFailsKeeps, CopyDMAKeeps, AnswerKeeps DEF CallStep

-----------------------------------------------------------------------------
(* The other calls *)

(* What is known between calls. *)
LEMMA BetweenCalls ==
  ASSUME SurfaceInv, \A u \in Tasks : proc[u] = Idle
  PROVE  /\ TypeOK /\ KindInv /\ MemoryInv /\ FifoInv /\ LockInv /\ DrawnInv
         /\ \A u \in Tasks : ~At(u, "store")
         /\ vram = lost \cup ({backing.self} \ {NULL}) /\ backing.self \notin lost
<1>1. TypeOK /\ KindInv /\ MemoryInv /\ FifoInv /\ LockInv /\ DrawnInv
  BY DEF SurfaceInv
<1>2. \A u \in Tasks : ~At(u, "store")
  BY IdleFields DEF At
<1> QED
  BY <1>1, <1>2 DEF MemoryInv

(* A call that is over in one step has no part in the calls of proc.       *)
LEMMA OwnerRests ==
  ASSUME CallInv, BuildingInv, proc["owner"] = Idle,
         UNCHANGED <<proc, backing, clientBacking, size, fifo, drawn>>
  PROVE  CallInv' /\ BuildingInv'
<1>1. "owner" \in Tasks /\ ~Collide' /\ CallOf("owner")' /\ BuildingOf("owner")'
  BY EndNoCollision, IdleTaskNext DEF Tasks, CallInv
<1> QED
  BY <1>1, OthersSame

LEMMA NobodyBusy ==
  ASSUME CallInv, \A u \in Tasks : ~Busy(u), UNCHANGED proc
  PROVE  CallInv' /\ BuildingInv'
<1>1. ~Collide'
  BY DEF Collide, Busy, Building
<1>2. \A u \in Tasks : CallOf(u)' /\ BuildingOf(u)'
  BY NotBusyKept DEF CallInv
<1> QED
  BY <1>1, <1>2 DEF CallInv, BuildingInv

LEMMA UnlockKeeps ==
  ASSUME SurfaceInv, NEW call \in {"read", "write"}, Unlock(call)
  PROVE  SurfaceInv'
<1>1. /\ proc["owner"] = Idle /\ bIsLocked' \subseteq bIsLocked
      /\ UNCHANGED <<backing, clientBacking, size, memory, fifo, drawn, lost, proc>>
  BY DEF Unlock, Starts, object
<1>2. /\ TypeOK /\ CallInv /\ BuildingInv /\ KindInv /\ MemoryInv /\ FifoInv /\ LockInv /\ DrawnInv
  BY DEF SurfaceInv
<1>3. TypeOK'
  BY <1>1, <1>2 DEF TypeOK, memory
<1>4. KindInv' /\ MemoryInv' /\ FifoInv'
  BY <1>1, <1>2, SameMemory
<1>5. (Fits' <=> Fits) /\ Target' = Target
  BY <1>1, SameStore
<1>6. LockInv' /\ DrawnInv'
  BY <1>1, <1>2, <1>5, LocksKept DEF DrawnInv
<1>7. CallInv' /\ BuildingInv'
  BY <1>1, <1>2, OwnerRests
<1> QED
  BY <1>3, <1>4, <1>6, <1>7 DEF SurfaceInv

LEMMA UnlockContextKeeps ==
  ASSUME SurfaceInv, UnlockContext
  PROVE  SurfaceInv'
<1>1. /\ proc["context"] = Idle /\ bIsLocked' = bIsLocked \ {"context"}
      /\ UNCHANGED <<clientBacking, size, memory, fifo, drawn, lost, proc>>
      /\ backing' = [backing EXCEPT !.map["context"] = NULL]
  BY DEF UnlockContext, Starts, object
<1>2. /\ TypeOK /\ CallInv /\ BuildingInv /\ KindInv /\ MemoryInv /\ FifoInv /\ LockInv /\ DrawnInv
  BY DEF SurfaceInv
<1>3. /\ backing'.self = backing.self /\ backing'.offset = backing.offset
      /\ backing'.size = backing.size /\ backing'.md = backing.md
      /\ backing'.gart_ptr = backing.gart_ptr /\ backing'.gmr_id = backing.gmr_id
      /\ backing'.fence = backing.fence /\ backing' \in BackingType
      /\ \A u \in Tasks : backing'.map[u] = IF u = "context" THEN NULL ELSE backing.map[u]
  BY <1>1, <1>2 DEF TypeOK, BackingType
<1>4. TypeOK'
  BY <1>1, <1>2, <1>3 DEF TypeOK, memory
<1>5. (Fits' <=> Fits) /\ Target' = Target /\ (isBackingValid' <=> isBackingValid)
  BY <1>1, <1>3, SameStore
<1>6. KindInv' /\ MemoryInv'
  <2>1. \A u \in Tasks : backing'.map[u] \in {NULL, Mapped}
    BY <1>2, <1>3 DEF KindInv
  <2> QED
    BY <1>1, <1>2, <1>3, <2>1, SameKind
<1>7. FifoInv'
  BY <1>1, <1>2, <1>3, <1>5 DEF FifoInv
<1>8. LockInv'
  BY <1>1, <1>2, <1>3, <1>5 DEF LockInv, Tasks
<1>9. DrawnInv'
  BY <1>1, <1>2, <1>5 DEF DrawnInv
<1>10. CallInv' /\ BuildingInv'
  <2>1. "context" \in Tasks /\ ~Collide' /\ CallOf("context")' /\ BuildingOf("context")'
    BY <1>1, <1>2, EndNoCollision, IdleTaskNext DEF Tasks, CallInv
  <2>2. CASE Building("owner")
    <3>1. backing.map = [u \in Tasks |-> NULL]
      BY <1>2, <2>2 DEF BuildingInv, BuildingOf, Tasks
    <3>2. backing' = backing
      <4>1. backing'.map = backing.map
        <5>1. backing'.map \in [Tasks -> Memory \cup {NULL}]
          BY <1>3 DEF BackingType
        <5> QED
          BY <1>3, <3>1, <5>1
      <4>2. backing \in BackingType
        BY <1>2 DEF TypeOK
      <4> QED
        BY <1>3, <4>1, <4>2 DEF BackingType
    <3> QED
      BY <1>1, <1>2, <2>1, <3>2, OthersSame
  <2>3. CASE ~Building("owner")
    <3>1. \A u \in Tasks : u # "context" => ~Building(u) /\ backing'.map[u] = backing.map[u]
      BY <1>3, <2>3 DEF Tasks
    <3> QED
      BY <1>1, <1>2, <1>5, <2>1, <3>1, OthersUse
  <2> QED
    BY <2>2, <2>3
<1> QED
  BY <1>4, <1>6, <1>7, <1>8, <1>9, <1>10 DEF SurfaceInv

(* set_shape and set_scale: a new size, or other memory in the owner. *)
LEMMA RescaleKeeps ==
  ASSUME SurfaceInv, ~overlapped',
         NEW client \in ClientBackings, NEW s \in 0..MaxSize, NEW p, Rescale(client, s, p),
         UNCHANGED <<bIsLocked, memory, proc, fifo, lost>>,
         \/ backing' = backing
         \/ client # NULL /\ backing.gart_ptr # 0 /\ backing' = [backing EXCEPT !.gart_ptr = 2]
  PROVE  SurfaceInv'
<1>1. /\ TypeOK /\ CallInv /\ KindInv /\ MemoryInv /\ FifoInv /\ LockInv /\ DrawnInv
      /\ \A u \in Tasks : ~At(u, "store") /\ ~At(u, "store")'
      /\ \A u \in Tasks : ~Busy(u)
  BY DEF SurfaceInv, Rescale, Busy, At
<1>2. /\ backing'.self = backing.self /\ backing'.offset = backing.offset
      /\ backing'.size = backing.size /\ backing'.md = backing.md
      /\ backing'.gmr_id = backing.gmr_id /\ backing'.fence = backing.fence
      /\ backing'.map = backing.map /\ backing' \in BackingType
      /\ backing'.gart_ptr # backing.gart_ptr => backing.gart_ptr # 0 /\ client # NULL
  BY <1>1 DEF TypeOK, BackingType
<1>3. clientBacking' = client /\ size' = s
  BY DEF Rescale
<1>4. TypeOK'
  BY <1>1, <1>2, <1>3 DEF TypeOK, memory
<1>5. Target' = Target /\ Mapped' = Mapped /\ (isBackingValid' <=> isBackingValid)
  BY <1>2 DEF Target, Mapped, isBackingValid
<1>6. KindInv'
  BY <1>1, <1>2, <1>5 DEF KindInv
<1>7. MemoryInv'
  BY <1>1, <1>2 DEF MemoryInv, memory
<1>8. FifoInv'
  BY <1>1, <1>2, <1>5 DEF FifoInv
<1>9. LockInv'
  <2>1. CASE bIsLocked = {}
    BY <2>1 DEF LockInv
  <2>2. CASE bIsLocked # {}
    <3>1. client = NULL /\ clientBacking = NULL /\ s <= backing.size
      BY <2>2 DEF Rescale
    <3>2. backing' = backing
      BY <3>1
    <3>3. s \in Int /\ backing.size \in Int
      BY <1>1 DEF TypeOK, BackingType
    <3>4. Fits => Fits'
      BY <1>3, <3>1, <3>2, <3>3 DEF Fits, classifyBacking, hasSourceGrown
    <3> QED
      BY <1>1, <1>3, <3>1, <3>2, <3>4, LocksKept
  <2> QED
    BY <2>1, <2>2
<1>10. DrawnInv'
  <2> SUFFICES ASSUME drawn' # NULL, client = NULL
               PROVE  Fits' /\ drawn' = Target'
    BY <1>3 DEF DrawnInv
  <2>1. clientBacking = NULL /\ s = size /\ drawn' = drawn /\ backing' = backing
    BY DEF Rescale
  <2>2. Fits /\ drawn = Target
    BY <1>1, <2>1 DEF DrawnInv
  <2> QED
    BY <1>3, <1>5, <2>1, <2>2 DEF Fits, classifyBacking, hasSourceGrown
<1>11. CallInv' /\ BuildingInv'
  BY <1>1, NobodyBusy
<1> QED
  BY <1>4, <1>6, <1>7, <1>8, <1>9, <1>10, <1>11 DEF SurfaceInv

LEMMA SetShapesKeep ==
  ASSUME SurfaceInv, ~overlapped', NEW client \in ClientBackings,
         \/ SetShape(client)
         \/ \E s \in Sizes : SetShapeScale(client, s)
         \/ \E offset, grab \in BOOLEAN : SetShapeScreen(client, offset, grab)
  PROVE  SurfaceInv'
<1>1. PICK s \in 0..MaxSize : \E p : Rescale(client, s, p)
  <2>1. CASE SetShape(client)
    BY <2>1 DEF SetShape, SurfaceInv, TypeOK
  <2>2. ASSUME NEW s \in Sizes, SetShapeScale(client, s)
        PROVE  \E n \in 0..MaxSize : \E p : Rescale(client, n, p)
    <3>1. (IF client = NULL THEN s ELSE client.size) \in 0..MaxSize
      BY SurfaceAssumption DEF ClientBackings, Sizes
    <3>2. Rescale(client, IF client = NULL THEN s ELSE client.size, FALSE)
      BY <2>2 DEF SetShapeScale
    <3> QED
      BY <3>1, <3>2
  <2>3. ASSUME NEW offset \in BOOLEAN, NEW grab \in BOOLEAN, SetShapeScreen(client, offset, grab)
        PROVE  \E n \in 0..MaxSize : \E p : Rescale(client, n, p)
    <3>1. ScreenSize \in 0..MaxSize
      BY SurfaceAssumption
    <3> QED
      BY <2>3, <3>1 DEF SetShapeScreen
  <2> QED
    BY <2>1, <2>2, <2>3
<1>2. Reshape(client)
  BY DEF SetShape, SetShapeScale, SetShapeScreen
<1>3. /\ UNCHANGED <<bIsLocked, memory, proc, fifo, lost>>
      /\ \/ backing' = backing
         \/ client # NULL /\ backing.gart_ptr # 0 /\ backing' = [backing EXCEPT !.gart_ptr = 2]
  BY <1>2 DEF Reshape
<1> QED
  BY <1>1, <1>3, RescaleKeeps

LEMMA SetScaleKeeps ==
  ASSUME SurfaceInv, ~overlapped', NEW t \in Tasks, NEW s \in Sizes, NEW offset \in BOOLEAN,
         SetScale(t, s, offset)
  PROVE  SurfaceInv'
<1>1. clientBacking \in ClientBackings
  BY DEF SurfaceInv, TypeOK
<1>2. (IF clientBacking = NULL THEN s ELSE clientBacking.size) \in 0..MaxSize
  BY <1>1, SurfaceAssumption DEF ClientBackings, Sizes
<1>3. /\ UNCHANGED <<bIsLocked, memory, proc, fifo, lost, backing>>
      /\ Rescale(clientBacking, IF clientBacking = NULL THEN s ELSE clientBacking.size, offset)
  BY DEF SetScale, locks
<1> QED
  BY <1>1, <1>2, <1>3, RescaleKeeps

LEMMA SetShapeEmptyKeeps ==
  ASSUME SurfaceInv, ~overlapped', SetShapeEmpty
  PROVE  SurfaceInv'
<1>1. NULL \in ClientBackings /\ size \in 0..MaxSize
  BY DEF ClientBackings, SurfaceInv, TypeOK
<1>2. /\ UNCHANGED <<bIsLocked, memory, proc, fifo, lost, backing>>
      /\ Rescale(NULL, size, hasOffset)
  BY DEF SetShapeEmpty, locks
<1> QED
  BY <1>1, <1>2, RescaleKeeps

LEMMA FlushKeeps ==
  ASSUME SurfaceInv, Flush
  PROVE  SurfaceInv'
<1>1. /\ proc["owner"] = Idle /\ isBackingValid /\ Push
      /\ drawn # NULL \/ clientBacking # NULL
      /\ UNCHANGED <<clientBacking, size, memory, drawn, lost, proc, bIsLocked>>
  BY DEF Flush, Starts, object, locks
<1>2. /\ TypeOK /\ CallInv /\ BuildingInv /\ KindInv /\ MemoryInv /\ FifoInv /\ LockInv /\ DrawnInv
  BY DEF SurfaceInv
<1>3. \A u \in Tasks : ~Building(u) /\ ~At(u, "store") /\ ~At(u, "store")'
  <2>1. ASSUME NEW u \in Tasks, Building(u)
        PROVE  FALSE
    <3>1. At(u, "wrap") /\ backing.self = NULL /\ backing.md = NULL
      BY <1>1, <1>2, <2>1 DEF BuildingInv, BuildingOf, At
    <3> QED
      BY <1>1, <3>1 DEF isBackingValid
  <2> QED
    BY <1>1, <2>1 DEF Building, At
<1>4. TypeOK'
  BY <1>1, <1>2, PushType DEF TypeOK, memory
<1>5. /\ KindInv' /\ MemoryInv' /\ FifoInv'
      /\ (Fits' <=> Fits) /\ Target' = Target /\ backing'.map = backing.map
  BY <1>1, <1>2, <1>3, PushKeeps
<1>6. LockInv' /\ DrawnInv'
  BY <1>1, <1>2, <1>5, LocksKept DEF DrawnInv
<1>7. CallInv' /\ BuildingInv'
  <2>1. "owner" \in Tasks /\ ~Collide' /\ CallOf("owner")' /\ BuildingOf("owner")'
    BY <1>1, <1>2, EndNoCollision, IdleTaskNext DEF Tasks, CallInv
  <2> QED
    BY <1>1, <1>2, <1>3, <1>5, <2>1, OthersUse
<1> QED
  BY <1>4, <1>5, <1>6, <1>7 DEF SurfaceInv

LEMMA CloseKeeps ==
  ASSUME SurfaceInv, Close
  PROVE  SurfaceInv'
<1>1. /\ \A u \in Tasks : proc[u] = Idle /\ proc'[u] = Idle
      /\ Complete /\ backing' = NoBacking /\ vram' = vram \ {backing.self}
      /\ clientBacking' = NULL /\ size' = 0 /\ bIsLocked' = {} /\ drawn' = NULL
      /\ UNCHANGED <<proc, lost>>
  BY DEF Close, releaseBacking
<1>2. /\ TypeOK /\ CallInv /\ KindInv /\ MemoryInv /\ FifoInv
      /\ \A u \in Tasks : ~Busy(u)
      /\ vram = lost \cup ({backing.self} \ {NULL}) /\ backing.self \notin lost
      /\ \A u \in Tasks : ~At(u, "store")'
  BY <1>1, BetweenCalls, IdleTask DEF SurfaceInv, At
<1>3. /\ fifo' = <<>> /\ usedIDs' = {} /\ wired' = {} /\ \A id \in GMRIDs : gmrs'[id] = NULL
  BY <1>1, <1>2, CompleteFrees
<1>4. /\ backing'.self = NULL /\ backing'.md = NULL /\ backing'.gart_ptr = 0
      /\ backing'.gmr_id \notin GMRIDs /\ backing'.fence = 0
      /\ backing'.map = [u \in Tasks |-> NULL]
  BY <1>1, SurfaceAssumption DEF NoBacking
<1>5. TypeOK'
  BY <1>1, <1>2, NoBackingType, CompleteType, SurfaceAssumption DEF TypeOK, ClientBackings
<1>6. KindInv'
  BY <1>4 DEF KindInv
<1>7. MemoryInv'
  <2>1. vram' = lost /\ NULL \notin lost
    BY <1>1, <1>2, SurfaceAssumption DEF TypeOK
  <2> QED
    BY <1>1, <1>2, <1>3, <1>4, <2>1 DEF MemoryInv
<1>8. FifoInv'
  BY <1>3, <1>4 DEF FifoInv
<1>9. LockInv' /\ DrawnInv'
  BY <1>1 DEF LockInv, DrawnInv
<1>10. CallInv' /\ BuildingInv'
  BY <1>1, <1>2, NobodyBusy
<1> QED
  BY <1>5, <1>6, <1>7, <1>8, <1>9, <1>10 DEF SurfaceInv

(* The device executes a command: the fence comes nearer. *)
LEMMA HostDMAKeeps ==
  ASSUME SurfaceInv, HostDMA
  PROVE  SurfaceInv'
<1>1. /\ TypeOK /\ CallInv /\ BuildingInv /\ KindInv /\ MemoryInv /\ FifoInv /\ LockInv /\ DrawnInv
      /\ fifo # <<>>
      /\ UNCHANGED <<clientBacking, size, memory, drawn, lost, proc, bIsLocked>>
  BY DEF SurfaceInv, HostDMA, object, locks
<1>2. /\ fifo \in Seq(CommandType) /\ fifo' = Tail(fifo) /\ fifo' \in Seq(CommandType)
      /\ Len(fifo) \in Nat /\ Len(fifo) > 0 /\ Len(fifo') = Len(fifo) - 1
      /\ \A i \in 1..Len(fifo') : i + 1 \in 1..Len(fifo) /\ fifo'[i] = fifo[i + 1]
  BY <1>1 DEF TypeOK, HostDMA
<1>3. /\ backing'.self = backing.self /\ backing'.offset = backing.offset
      /\ backing'.size = backing.size /\ backing'.md = backing.md
      /\ backing'.gart_ptr = backing.gart_ptr /\ backing'.gmr_id = backing.gmr_id
      /\ backing'.map = backing.map /\ backing'.fence = backing.fence - 1
      /\ backing' \in BackingType
  <2>1. backing.fence = Len(fifo) /\ backing.fence - 1 \in Nat
    BY <1>1, <1>2 DEF FifoInv
  <2>2. backing' = [backing EXCEPT !.fence = backing.fence - 1] /\ backing \in BackingType
    BY <1>1, <1>2, <2>1 DEF HostDMA, TypeOK
  <2> QED
    BY <2>1, <2>2 DEF BackingType
<1>4. TypeOK'
  BY <1>1, <1>2, <1>3 DEF TypeOK, memory
<1>5. (Fits' <=> Fits) /\ Target' = Target /\ (isBackingValid' <=> isBackingValid) /\ Mapped' = Mapped
  BY <1>1, <1>3, SameStore
<1>6. \A u \in Tasks : ~Building(u)
  BY <1>1 DEF BuildingInv, BuildingOf
<1>7. BuildingInv'
  BY <1>1, <1>6 DEF BuildingInv, BuildingOf, Building
<1>8. CallInv'
  BY <1>1, <1>3, <1>5 DEF CallInv, CallOf, At, Collide, Building, Busy
<1>9. KindInv' /\ MemoryInv'
  <2>1. \A u \in Tasks : ~At(u, "store") /\ ~At(u, "store")'
    BY <1>1, <1>6 DEF Building, At
  <2>2. \A u \in Tasks : backing'.map[u] \in {NULL, Mapped}
    BY <1>1, <1>3 DEF KindInv
  <2> QED
    BY <1>1, <1>3, <2>1, <2>2, SameKind
<1>10. FifoInv'
  BY <1>1, <1>2, <1>3, <1>5 DEF FifoInv
<1>11. LockInv' /\ DrawnInv'
  BY <1>1, <1>3, <1>5, LocksKept DEF DrawnInv
<1> QED
  BY <1>4, <1>7, <1>8, <1>9, <1>10, <1>11 DEF SurfaceInv

-----------------------------------------------------------------------------
(* The theorems *)

LEMMA InitSurface == Init => SurfaceInv
<1> SUFFICES ASSUME Init
             PROVE  SurfaceInv
  OBVIOUS
<1>1. \A u \in Tasks : proc[u] = Idle
  BY DEF Init
<1>2. TypeOK
  <2>1. Idle \in CallType
    BY DEF Idle, CallType, Steps, Calls
  <2> QED
    BY <2>1, NoBackingType, SurfaceAssumption DEF Init, TypeOK, ClientBackings
<1>3. CallInv /\ BuildingInv
  BY <1>1, IdleTask DEF CallInv, BuildingInv, Collide
<1>4. KindInv /\ FifoInv /\ LockInv /\ DrawnInv
  BY SurfaceAssumption DEF Init, NoBacking, KindInv, FifoInv, LockInv, DrawnInv
<1>5. MemoryInv
  BY <1>1, IdleFields, SurfaceAssumption DEF Init, NoBacking, MemoryInv, At
<1> QED
  BY <1>2, <1>3, <1>4, <1>5 DEF SurfaceInv

LEMMA StepKeeps ==
  ASSUME SurfaceInv, ~overlapped', [Next]_vars
  PROVE  SurfaceInv'
<1>1. CASE \E call \in {"read", "write"} : Lock("owner", call)
  BY <1>1, BeginKeeps DEF Lock, Tasks, Locks
<1>2. CASE \E call \in {"read", "write"} : Unlock(call)
  BY <1>2, UnlockKeeps
<1>3. CASE LockSkipped("owner")
  BY <1>3, BeginKeeps DEF LockSkipped, Tasks, Locks
<1>4. CASE Lock("context", "context")
  BY <1>4, BeginKeeps DEF Lock, Tasks, Locks
<1>5. CASE UnlockContext
  BY <1>5, UnlockContextKeeps
<1>6. CASE \E t \in Tasks : CallStep(t)
  BY <1>6, CallStepKeeps
<1>7. CASE \E t \in Tasks, call \in {"copy", "blit"} : CopyToSelf(t, call)
  BY <1>7, BeginKeeps DEF CopyToSelf, locks
<1>8. CASE SetShapeEmpty
  BY <1>8, SetShapeEmptyKeeps
<1>9. CASE \E client \in ClientBackings :
             \/ SetShape(client)
             \/ \E s \in Sizes : SetShapeScale(client, s)
             \/ \E offset, grab \in BOOLEAN : SetShapeScreen(client, offset, grab)
  BY <1>9, SetShapesKeep
<1>10. CASE \E t \in Tasks, s \in Sizes, offset \in BOOLEAN : SetScale(t, s, offset)
  BY <1>10, SetScaleKeeps
<1>11. CASE Flush
  BY <1>11, FlushKeeps
<1>12. CASE Close
  BY <1>12, CloseKeeps
<1>13. CASE HostDMA
  BY <1>13, HostDMAKeeps
<1>14. CASE UNCHANGED vars
  <2>1. UNCHANGED <<backing, clientBacking, size, memory, fifo, drawn, lost, proc, bIsLocked>>
    BY <1>14 DEF vars, object, locks
  <2>2. (Fits' <=> Fits) /\ Target' = Target /\ Mapped' = Mapped /\ (isBackingValid' <=> isBackingValid)
    BY <2>1, SameStore
  <2>3. TypeOK'
    BY <2>1 DEF SurfaceInv, TypeOK, memory
  <2>4. CallInv' /\ BuildingInv'
    BY <2>1, <2>2 DEF SurfaceInv, CallInv, CallOf, BuildingInv, BuildingOf, Building, At, Collide, Busy
  <2>5. KindInv' /\ MemoryInv' /\ FifoInv'
    BY <2>1, <2>2 DEF SurfaceInv, KindInv, MemoryInv, FifoInv, memory, At
  <2>6. LockInv' /\ DrawnInv'
    BY <2>1, <2>2 DEF SurfaceInv, LockInv, DrawnInv
  <2> QED
    BY <2>3, <2>4, <2>5, <2>6 DEF SurfaceInv
<1> QED
  BY <1>1, <1>2, <1>3, <1>4, <1>5, <1>6, <1>7, <1>8, <1>9, <1>10, <1>11, <1>12, <1>13, <1>14 DEF Next

LEMMA OverlapSticks ==
  ASSUME overlapped \in BOOLEAN, [Next]_vars
  PROVE  overlapped' \in BOOLEAN /\ (overlapped => overlapped')
<1>1. ASSUME NEW t \in Tasks, NEW call, Begin(t, call)
      PROVE  overlapped' \in BOOLEAN /\ (overlapped => overlapped')
  BY <1>1 DEF Begin, Collides
<1>2. ASSUME NEW t \in Tasks, CallStep(t)
      PROVE  overlapped' \in BOOLEAN /\ (overlapped => overlapped')
  BY <1>2 DEF CallStep, Reuse, Grow, Replace, Collides, Realloc, ReallocFails, Store, WrapClient,
       allocGMRBacking, Prepare, PrepareFails, NoDescriptor, mapBacking, mapBackingFails, CopyDMA,
       Push, Answer
<1>3. ASSUME NEW client, NEW s, NEW offset, Rescale(client, s, offset)
      PROVE  overlapped' \in BOOLEAN /\ (overlapped => overlapped')
  BY <1>3 DEF Rescale
<1>4. CASE \/ \E call \in {"read", "write"} : Lock("owner", call)
           \/ LockSkipped("owner")
           \/ Lock("context", "context")
           \/ \E t \in Tasks, call \in {"copy", "blit"} : CopyToSelf(t, call)
  BY <1>1, <1>4 DEF Lock, LockSkipped, CopyToSelf, Tasks
<1>5. CASE \/ SetShapeEmpty
           \/ \E client \in ClientBackings :
                \/ SetShape(client)
                \/ \E s \in Sizes : SetShapeScale(client, s)
                \/ \E offset, grab \in BOOLEAN : SetShapeScreen(client, offset, grab)
           \/ \E t \in Tasks, s \in Sizes, offset \in BOOLEAN : SetScale(t, s, offset)
  BY <1>3, <1>5 DEF SetShapeEmpty, SetShape, SetShapeScale, SetShapeScreen, SetScale
<1>6. CASE (\E call \in {"read", "write"} : Unlock(call)) \/ UnlockContext \/ Close \/ HostDMA
  BY <1>6 DEF Unlock, UnlockContext, Close, HostDMA
<1>7. CASE Flush
  BY <1>7 DEF Flush, Push
<1>8. CASE UNCHANGED vars
  BY <1>8 DEF vars
<1> QED
  BY <1>2, <1>4, <1>5, <1>6, <1>7, <1>8 DEF Next

(* Nothing is claimed once two calls have got in each other's way. *)
IInv == overlapped \in BOOLEAN /\ (~overlapped => SurfaceInv)

LEMMA InvariantHolds == Spec => []IInv
<1>1. Init => IInv
  BY InitSurface DEF Init, IInv
<1>2. IInv /\ [Next]_vars => IInv'
  BY StepKeeps, OverlapSticks DEF IInv
<1> QED
  BY <1>1, <1>2, PTL DEF Spec

(* Calls of both tasks may overlap: as long as none builds or rescales the *)
(* backing the other is at work with, and none queues a command while the  *)
(* other syncs, what the backing consists of, what the device, the         *)
(* allocator and the tasks have of it, and what each call is about to do   *)
(* with it always agree.                                                   *)
THEOREM SurfaceInvariant == Spec => [](~overlapped => SurfaceInv)
<1>1. IInv => (~overlapped => SurfaceInv)
  BY DEF IInv
<1> QED
  BY <1>1, InvariantHolds, PTL

-----------------------------------------------------------------------------
(* What it is for *)

(* When the FIFO holds a command, no call is building a backing.           *)
LEMMA PendingNotBuilding ==
  ASSUME SurfaceInv, NEW i \in 1..Len(fifo)
  PROVE  /\ isBackingValid
         /\ fifo[i] = [gmr |-> backing.gmr_id, mem |-> Target]
         /\ \A t \in Tasks : ~Building(t)
<1>1. fifo # <<>>
  BY DEF SurfaceInv, TypeOK
<1> QED
  BY <1>1 DEF SurfaceInv, FifoInv, BuildingInv, BuildingOf

(* Whatever is in the FIFO, the memory it names has not been given back    *)
(* when the device gets there: releaseBacking, the reallocation of a       *)
(* backing that grows and clientClose all wait for the fence first.        *)
THEOREM DMAAlwaysHits == Spec => []DMAHitsItsMemory
<1>1. IInv => DMAHitsItsMemory
  <2> SUFFICES ASSUME SurfaceInv, NEW i \in 1..Len(fifo)
               PROVE  IF fifo[i].gmr = VRAM THEN fifo[i].mem \in vram
                      ELSE gmrs[fifo[i].gmr] = fifo[i].mem /\ fifo[i].mem \in wired
    BY DEF IInv, DMAHitsItsMemory
  <2>1. /\ TypeOK /\ KindInv /\ MemoryInv
        /\ isBackingValid
        /\ fifo[i].gmr = backing.gmr_id /\ fifo[i].mem = Target
        /\ \A t \in Tasks : ~At(t, "store")
    BY PendingNotBuilding DEF SurfaceInv, Building, At
  <2>2. CASE backing.self # NULL
    BY <2>1, <2>2 DEF KindInv, MemoryInv, Target
  <2>3. CASE backing.self = NULL
    <3>1. backing.md # NULL /\ backing.gmr_id \in GMRIDs /\ backing.gmr_id # VRAM
      BY <2>1, <2>3, SurfaceAssumption DEF isBackingValid, KindInv
    <3> QED
      BY <2>1, <3>1 DEF MemoryInv, Target
  <2> QED
    BY <2>2, <2>3
<1> QED
  BY <1>1, InvariantHolds, PTL

(* Whichever step of an allocation fails, every block, guest memory region *)
(* and wired page that is allocated belongs to the backing, or is a block  *)
(* in lost: those the code leaks when VRAMRealloc fails.                   *)
THEOREM NothingElseIsLost == Spec => []NothingElseLost
<1>1. IInv => NothingElseLost
  <2> SUFFICES ASSUME SurfaceInv, AllIdle
               PROVE  NothingElseLost
    BY DEF IInv, NothingElseLost
  <2>1. \A t \in Tasks : ~At(t, "store")
    BY IdleFields DEF AllIdle, At
  <2> QED
    BY <2>1 DEF SurfaceInv, MemoryInv, NothingElseLost
<1> QED
  BY <1>1, InvariantHolds, PTL

(* A task that has the surface locked sees the memory that is shown.       *)
THEOREM MappingsShowBacking == Spec => []MapsShowBacking
<1>1. IInv => MapsShowBacking
  <2> SUFFICES ASSUME SurfaceInv, AllIdle
               PROVE  MapsShowBacking
    BY DEF IInv, MapsShowBacking
  <2>1. TypeOK /\ KindInv /\ LockInv
    BY DEF SurfaceInv
  <2>2. \A t \in Tasks : proc[t].call = "none"
    BY IdleFields DEF AllIdle
  <2>3. \A t \in Tasks : Fits /\ backing.map[t] # NULL => backing.map[t] = Target
    BY <2>1, FitsValid DEF KindInv
  <2>4. "context" \in bIsLocked => backing.map["context"] = Target
    BY <2>1, <2>2, <2>3 DEF LockInv, Tasks
  <2>5. \A lock \in {"read", "write"} :
          lock \in bIsLocked /\ clientBacking = NULL => backing.map["owner"] = Target
    BY <2>1, <2>2, <2>3 DEF LockInv, Tasks
  <2> QED
    BY <2>4, <2>5 DEF MapsShowBacking
<1> QED
  BY <1>1, InvariantHolds, PTL

(* The task that steps is the only one that leaves "answer", and it does   *)
(* so in Answer.                                                           *)
LEMMA OnlyAnswerAnswers ==
  ASSUME TypeOK, [Next]_vars, NEW t \in Tasks, At(t, "answer"), proc'[t] = Idle
  PROVE  Answer(t)
<1>1. proc[t] # Idle /\ proc'[t] # proc[t]
  BY IdleFields DEF At
<1>3. ~(UNCHANGED proc)
  BY <1>1
<1>4. ASSUME NEW u \in Tasks, NEW call, Begin(u, call)
      PROVE  FALSE
  <2>1. u # t
    BY <1>1, <1>4 DEF Begin, Starts
  <2> QED
    BY <1>1, <1>4, <2>1 DEF Begin, TypeOK
<1>5. ASSUME NEW u \in Tasks, CallStep(u)
      PROVE  Answer(t)
  <2>1. CASE u = t
    BY <1>5, <2>1 DEF CallStep, At, Reuse, Grow, Replace, Realloc, ReallocFails, Store,
                      WrapClient, allocGMRBacking, mapBacking, mapBackingFails, CopyDMA
  <2>2. CASE u # t
    <3>1. proc'[t] = proc[t]
      BY <1>5, <2>2 DEF TypeOK, Goto, Fails, CallStep, Reuse, Grow, Replace, Realloc,
           ReallocFails, Store, WrapClient, allocGMRBacking, Prepare, PrepareFails, NoDescriptor,
           mapBacking, mapBackingFails, CopyDMA, Answer
    <3> QED
      BY <1>1, <3>1
  <2> QED
    BY <2>1, <2>2
<1>6. ~Lock("owner", "read") /\ ~Lock("owner", "write") /\ ~LockSkipped("owner")
      /\ ~Lock("context", "context") /\ \A u \in Tasks, call \in {"copy", "blit"} : ~CopyToSelf(u, call)
  BY <1>4 DEF Lock, LockSkipped, CopyToSelf, Tasks
<1>7. ~Unlock("read") /\ ~Unlock("write") /\ ~UnlockContext /\ ~SetShapeEmpty /\ ~Flush
      /\ ~Close /\ ~HostDMA
  BY <1>3 DEF Unlock, UnlockContext, SetShapeEmpty, Flush, Close, HostDMA
<1>8. \A client \in ClientBackings :
        /\ ~SetShape(client) /\ \A s \in Sizes : ~SetShapeScale(client, s)
        /\ \A offset, grab \in BOOLEAN : ~SetShapeScreen(client, offset, grab)
  BY <1>3 DEF SetShape, SetShapeScale, SetShapeScreen, Reshape
<1>9. \A u \in Tasks, s \in Sizes, offset \in BOOLEAN : ~SetScale(u, s, offset)
  BY <1>3 DEF SetScale
<1>10. ~(UNCHANGED vars)
  BY <1>3 DEF vars
<1> QED
  BY <1>5, <1>6, <1>7, <1>8, <1>9, <1>10 DEF Next

(* A write lock of a surface whose source has no offset in its backing, and *)
(* a copy from the framebuffer, return only when nothing that was flushed  *)
(* or copied before is still to be done.                                   *)
THEOREM WritersWait == Spec => QuietOnReturn
<1> DEFINE Quiet ==
      \A t \in Tasks :
        ~overlapped /\ At(t, "answer") /\ WaitsForDMA(t) /\ proc'[t] = Idle =>
          \A i \in 1..Len(fifo') : fifo'[i].mem # Handed(t)
<1>1. IInv /\ [Next]_vars => Quiet
  <2> SUFFICES ASSUME SurfaceInv, [Next]_vars, NEW t \in Tasks,
                      At(t, "answer"), proc'[t] = Idle, WaitsForDMA(t)
               PROVE  fifo' = <<>>
    BY DEF IInv
  <2>1. TypeOK /\ FifoInv
    BY DEF SurfaceInv
  <2>2. Answer(t)
    BY <2>1, OnlyAnswerAnswers
  <2> QED
    BY <2>1, <2>2, DrainedEmpty DEF Answer
<1> HIDE DEF Quiet
<1>2. IInv /\ [Next]_vars => [Quiet]_vars
  BY <1>1
<1>3. Spec => [][Quiet]_vars
  BY <1>2, InvariantHolds, PTL DEF Spec
<1> QED
  BY <1>3 DEF QuietOnReturn, Quiet

(* A flush sends what the owner has drawn, and the backing is as large as  *)
(* the source that is shown, whatever was rescaled in between.             *)
THEOREM FlushesShowDrawn == Spec => FlushShowsDrawn
<1> DEFINE Shows == Flush /\ ~overlapped' /\ clientBacking = NULL =>
                      fifo'[Len(fifo')].mem = drawn /\ size <= backing.size
<1>1. IInv /\ [Next]_vars => Shows
  <2> SUFFICES ASSUME SurfaceInv, Flush, clientBacking = NULL
               PROVE  fifo'[Len(fifo')].mem = drawn /\ size <= backing.size
    BY OverlapSticks DEF IInv
  <2>1. TypeOK /\ Fits /\ drawn = Target
    BY DEF SurfaceInv, DrawnInv, Flush
  <2>2. fifo' = Append(fifo, [gmr |-> backing.gmr_id, mem |-> Target])
    BY DEF Flush, Push
  <2>3. Len(fifo') = Len(fifo) + 1 /\ fifo'[Len(fifo) + 1] = [gmr |-> backing.gmr_id, mem |-> Target]
    BY <2>1, <2>2 DEF TypeOK
  <2>4. size <= backing.size
    <3>1. ~(size > backing.size)
      BY <2>1 DEF Fits, hasSourceGrown
    <3>2. size \in Int /\ backing.size \in Int
      BY <2>1 DEF TypeOK, BackingType
    <3> QED
      BY <3>1, <3>2
  <2> QED
    BY <2>1, <2>3, <2>4
<1> HIDE DEF Shows
<1>2. IInv /\ [Next]_vars => [Shows]_vars
  BY <1>1
<1>3. Spec => [][Shows]_vars
  BY <1>2, InvariantHolds, PTL DEF Spec
<1> QED
  BY <1>3 DEF FlushShowsDrawn, Shows
=============================================================================
