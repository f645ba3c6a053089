------------------------------- MODULE IDPool -------------------------------
(***************************************************************************)
(* The identifier pools of VMsvga2Accel: surfaces, contexts, video streams *)
(* and guest memory regions.  The four pairs of functions Alloc*ID and     *)
(* Free*ID are one algorithm with different parameters: a bit mask of      *)
(* Words words of Bits bits, for some pools an index below which every     *)
(* word is known to be full, and for some a counter that goes on handing   *)
(* out numbers when the mask is full.                                      *)
(*                                                                         *)
(*   pool      Words  Bits  Hinted  Overflow  Masked                       *)
(*   surfaces    4     64   TRUE    TRUE      {}                           *)
(*   contexts    1     64   FALSE   TRUE      {}                           *)
(*   streams     1     32   FALSE   FALSE     {}                           *)
(*   GMRs        2     64   TRUE    FALSE     those from getMaxGMRIDs() on *)
(*                                                                         *)
(* The identifier (w << 6) + b is the pair <<w, b>>; the n-th unmanaged    *)
(* one, (Words << 6) + n, is <<Words, n>>.  Every function runs under      *)
(* lockAccel, so each is one step.                                         *)
(***************************************************************************)
EXTENDS Integers, FiniteSets

CONSTANTS
  Holder,       \* places in the driver that keep one identifier each
  Words, Bits,  \* the size of the bit mask
  Masked,       \* identifiers the device does not support (mask_array64)
  Hinted,       \* the pool keeps an index of the first word not full
  Overflow,     \* the pool goes on past the mask
  MaxUnmanaged, \* bound of the model: unmanaged identifiers handed out
  INVALID       \* (uint32_t) -1

Managed == (0..(Words - 1)) \X (0..(Bits - 1))

ASSUME PoolAssumption ==
  /\ Words \in Nat \ {0}
  /\ Bits \in Nat \ {0}
  /\ Masked \subseteq Managed
  /\ Hinted \in BOOLEAN
  /\ Overflow \in BOOLEAN
  /\ MaxUnmanaged \in Nat
  /\ INVALID \notin Nat \X Nat

VARIABLES
  mask,       \* the set bits of the mask, m_*_id_mask
  idx,        \* m_*_id_idx
  unmanaged,  \* m_*_ids_unmanaged
  id          \* the identifier each holder has, or INVALID

vars == <<mask, idx, unmanaged, id>>

(* Mutant: no mask_array64. *)
InitUnmasked == mask = {} /\ idx = 0 /\ unmanaged = 0 /\ id = [h \in Holder |-> INVALID]

(* VMsvga2Accel::start, after mask_array64. *)
Init ==
  /\ mask = Masked
  /\ idx = 0
  /\ unmanaged = 0
  /\ id = [h \in Holder |-> INVALID]

(* The clear bits that a search from word idx on will see. *)
Clear == {i \in Managed \ mask : i[1] >= idx}

(* find_bit_in_array*: the lowest clear bit of the first word with one. *)
IsFirst(i) ==
  /\ i \in Clear
  /\ \A j \in Clear : i[1] < j[1] \/ (i[1] = j[1] /\ i[2] <= j[2])

(* Mutant: the word found is thought full. *)
StartAfter(w) == idx' = IF Hinted THEN w + 1 ELSE idx

(* The next search starts at the word where this one ended. *)
StartAt(w) == idx' = IF Hinted THEN w ELSE idx

(* Alloc*ID finds a clear bit. *)
AllocManaged(h) ==
  /\ id[h] = INVALID
  /\ \E i \in Managed :
       /\ IsFirst(i)
       /\ mask' = mask \cup {i}
       /\ StartAt(i[1])
       /\ id' = [id EXCEPT ![h] = i]
  /\ UNCHANGED unmanaged

(* A number past the mask, never to be used again. *)
HandOutUnmanaged(h) ==
  /\ unmanaged < MaxUnmanaged
  /\ unmanaged' = unmanaged + 1
  /\ id' = [id EXCEPT ![h] = <<Words, unmanaged>>]

(* Alloc*ID finds none. *)
AllocExhausted(h) ==
  /\ id[h] = INVALID
  /\ Clear = {}
  /\ StartAt(Words)
  /\ IF Overflow
     THEN HandOutUnmanaged(h)
     ELSE UNCHANGED <<unmanaged, id>>
  /\ UNCHANGED mask

(* Mutants: the bit is cleared in the first word; the index stays. *)
ReleaseInFirstWord(i) ==
  /\ mask' = mask \ {<<0, i[2]>>}
  /\ idx' = IF Hinted /\ i[1] < idx THEN i[1] ELSE idx

ReleaseKeepIdx(i) == mask' = mask \ {i} /\ UNCHANGED idx

(* The bit of a managed identifier is cleared, and the index follows. *)
Release(i) ==
  /\ mask' = mask \ {i}
  /\ idx' = IF Hinted /\ i[1] < idx THEN i[1] ELSE idx

(* Free*ID, and the holder forgets the identifier. *)
FreeID(h) ==
  /\ id[h] # INVALID
  /\ id' = [id EXCEPT ![h] = INVALID]
  /\ IF id[h][1] >= Words
     THEN UNCHANGED <<mask, idx>>
     ELSE Release(id[h])
  /\ UNCHANGED unmanaged

Next ==
  \/ \E h \in Holder : AllocManaged(h)
  \/ \E h \in Holder : AllocExhausted(h)
  \/ \E h \in Holder : FreeID(h)

Spec == Init /\ [][Next]_vars

-----------------------------------------------------------------------------
(* Properties *)

Held == {id[h] : h \in Holder} \ {INVALID}

(* Every word index and identifier is one the pool can have.               *)
TypeOK ==
  /\ mask \subseteq Managed
  /\ idx \in 0..Words
  /\ unmanaged \in Nat
  /\ id \in [Holder -> Managed \cup ({Words} \X Nat) \cup {INVALID}]

(* No identifier is held twice: two surfaces, contexts, streams or guest   *)
(* memory regions of the device are never confused.                        *)
UniqueIDs ==
  \A g, h \in Holder : id[g] # INVALID /\ id[g] = id[h] => g = h

(* The device is never given the number of an object it does not support.  *)
NeverMasked == \A h \in Holder : id[h] \notin Masked

(* Alloc*ID finds every identifier that nobody holds: the index never      *)
(* skips a word with a clear bit, and no bit stays set after a Free*ID.    *)
NoneForgotten == Managed \ (Masked \cup Held) # {} => Clear # {}

(* The inductive invariant behind them.  A bit is set exactly when its     *)
(* identifier is masked or held; no word below the index has a clear bit,  *)
(* and a pool without one searches from the start; unmanaged numbers still *)
(* to come are held by nobody.                                             *)
PoolInv ==
  /\ TypeOK
  /\ UniqueIDs
  /\ NeverMasked
  /\ \A i \in Managed : i \in mask <=> i \in Masked \cup Held
  /\ \A i \in Managed : i[1] < idx => i \in mask
  /\ ~Hinted => idx = 0
  /\ \A h \in Holder : id[h] # INVALID /\ id[h][1] = Words => id[h][2] < unmanaged
=============================================================================
