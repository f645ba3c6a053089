------------------------------- MODULE IDMask -------------------------------
(***************************************************************************)
(* The identifier pools of VMsvga2Accel as the code computes them: the     *)
(* mask is an array of machine words, an identifier one number, and a      *)
(* search returns a bit number relative to the word it started at, or -1.  *)
(* IDPool says what the pools promise.                                     *)
(***************************************************************************)
EXTENDS Integers, Sequences, FiniteSets, Bitwise

CONSTANTS
  Holder,       \* places in the driver that keep one identifier each
  Words, Bits,  \* num_entries, and the bits of a word
  Limit,        \* getMaxGMRIDs() for the GMRs, no limit for other pools
  Hinted,       \* the pool keeps an index of the first word not full
  Overflow,     \* the pool goes on past the mask
  MaxUnmanaged, \* bound of the model: unmanaged identifiers handed out
  INVALID       \* what a holder has that has no identifier

VARIABLES
  array,      \* m_*_id_mask[]
  idx,        \* m_*_id_idx
  unmanaged,  \* m_*_ids_unmanaged
  id          \* the identifier each holder has, or INVALID

vars == <<array, idx, unmanaged, id>>

Full == 2^Bits - 1

(* The complement of a word. *)
Complement(x) == Full - x

BitIsSet(x, b) == (x \div 2^b) % 2 = 1

-----------------------------------------------------------------------------
(* mask_array64: set the bits from start on and before end, in three loops *)
(* over single bits, whole words and single bits.                          *)

SetBits(a, from, to) ==
  [w \in DOMAIN a |->
     a[w] | LET new == {b \in 0..(Bits - 1) : w * Bits + b \in from..(to - 1)}
            IN  CHOOSE x \in 0..Full : \A b \in 0..(Bits - 1) : BitIsSet(x, b) <=> b \in new]

RoundUp(n) == ((n + Bits - 1) \div Bits) * Bits
RoundDown(n) == (n \div Bits) * Bits

FillWords(a, from, to) ==
  [w \in DOMAIN a |-> IF w \in (from \div Bits)..((to \div Bits) - 1) THEN Full ELSE a[w]]

mask_array64(a, start, end) ==
  LET firstFull == RoundUp(start)
      past == IF end >= firstFull THEN firstFull ELSE end
      pastFull == IF RoundDown(end) < past THEN past ELSE RoundDown(end)
  IN  SetBits(FillWords(SetBits(a, start, past), firstFull, RoundDown(end)), pastFull, end)

-----------------------------------------------------------------------------
(* find_bit_in_array64 *)

(* The lowest clear bit of x, as a word with that bit set; 0 if none. *)
LowestClear(x) == Complement(x) & ((x + 1) % 2^Bits)

log_2(x) == CHOOSE b \in 0..(Bits - 1) : x = 2^b

(* The words searched, from word idx on, that have a clear bit. *)
NotFull == {w \in idx..(Words - 1) : LowestClear(array[w]) # 0}

(* Mutant: the bit found, counted from the start of the mask. *)
FoundBitAbsolute ==
  IF NotFull = {} THEN -1
  ELSE LET w == CHOOSE w \in NotFull : \A v \in NotFull : w <= v
       IN  w * Bits + log_2(LowestClear(array[w]))

(* The bit found, relative to word idx, or -1. *)
FoundBit ==
  IF NotFull = {} THEN -1
  ELSE LET w == CHOOSE w \in NotFull : \A v \in NotFull : w <= v
       IN  (w - idx) * Bits + log_2(LowestClear(array[w]))

-----------------------------------------------------------------------------

Init ==
  /\ array = mask_array64([w \in 0..(Words - 1) |-> 0], Limit, Words * Bits)
  /\ idx = 0
  /\ unmanaged = 0
  /\ id = [h \in Holder |-> INVALID]

(* Alloc*ID: the search sets the bit it finds; the result is made absolute *)
(* before the index moves.                                                 *)
AllocFound(h) ==
  LET r == FoundBit IN
  /\ id[h] = INVALID
  /\ r >= 0
  /\ array' = [array EXCEPT ![idx + r \div Bits] = @ | LowestClear(@)]
  /\ id' = [id EXCEPT ![h] = r + idx * Bits]
  /\ idx' = IF Hinted THEN idx + r \div Bits ELSE idx
  /\ UNCHANGED unmanaged

AllocNotFound(h) ==
  /\ id[h] = INVALID
  /\ FoundBit < 0
  /\ idx' = IF Hinted THEN Words ELSE idx
  /\ IF Overflow
     THEN /\ unmanaged < MaxUnmanaged
          /\ unmanaged' = unmanaged + 1
          /\ id' = [id EXCEPT ![h] = Words * Bits + unmanaged]
     ELSE UNCHANGED <<unmanaged, id>>
  /\ UNCHANGED array

(* Free*ID, and the holder forgets the identifier. *)
FreeID(h) ==
  LET r == id[h] \div Bits IN
  /\ id[h] # INVALID
  /\ id' = [id EXCEPT ![h] = INVALID]
  /\ IF r >= Words
     THEN UNCHANGED <<array, idx>>
     ELSE /\ array' = [array EXCEPT ![r] = @ & Complement(2^(id[h] % Bits))]
          /\ idx' = IF Hinted /\ r < idx THEN r ELSE idx
  /\ UNCHANGED unmanaged

Next ==
  \/ \E h \in Holder : AllocFound(h)
  \/ \E h \in Holder : AllocNotFound(h)
  \/ \E h \in Holder : FreeID(h)

Spec == Init /\ [][Next]_vars

-----------------------------------------------------------------------------
(* Properties *)

AllBits == (0..(Words - 1)) \X (0..(Bits - 1))

(* mask_array64 leaves exactly the identifiers below the limit clear,      *)
(* wherever in a word the limit lies, or past the end of the mask.         *)
ASSUME MaskArrayCorrect ==
  \A limit \in 0..(Words * Bits + 1) :
    LET a == mask_array64([w \in 0..(Words - 1) |-> 0], limit, Words * Bits)
    IN  \A i \in AllBits : BitIsSet(a[i[1]], i[2]) <=> i[1] * Bits + i[2] >= limit

(* The words and numbers implement the set and the pairs of IDPool.        *)
Pool == INSTANCE IDPool WITH
  Masked <- {i \in AllBits : i[1] * Bits + i[2] >= Limit},
  mask <- {i \in AllBits : BitIsSet(array[i[1]], i[2])},
  id <- [h \in Holder |->
           IF id[h] = INVALID THEN INVALID
           ELSE IF id[h] < Words * Bits THEN <<id[h] \div Bits, id[h] % Bits>>
           ELSE <<Words, id[h] - Words * Bits>>]

PoolSpec == Pool!Spec
=============================================================================
