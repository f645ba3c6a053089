---------------------------- MODULE IDPool_proofs ----------------------------
(***************************************************************************)
(* Proofs about IDPool, for every size of the mask, every set of masked    *)
(* identifiers and every number of holders.                                *)
(***************************************************************************)
EXTENDS IDPool, TLAPS

USE PoolAssumption

(* VMsvga2Accel::start leaves the pool consistent.                         *)
LEMMA InitPoolInv == Init => PoolInv
BY DEF Init, PoolInv, TypeOK, UniqueIDs, NeverMasked, Held, Managed

(* Alloc*ID keeps the pool consistent when it finds a clear bit.            *)
LEMMA AllocManagedPoolInv ==
  ASSUME PoolInv, NEW h \in Holder, AllocManaged(h)
  PROVE  PoolInv'
<1>1. PICK i \in Managed :
        /\ IsFirst(i)
        /\ mask' = mask \cup {i}
        /\ idx' = IF Hinted THEN i[1] ELSE idx
        /\ id' = [id EXCEPT ![h] = i]
  BY DEF AllocManaged, StartAt
<1>2. i \in Clear /\ i \notin mask /\ i[1] >= idx
  BY <1>1 DEF IsFirst, Clear
<1>3. i # INVALID /\ i[1] \in 0..(Words - 1) /\ i[1] # Words
  BY DEF Managed
<1>4. i \notin Masked \cup Held
  BY <1>2 DEF PoolInv
<1>5. id' \in [Holder -> Managed \cup ({Words} \X Nat) \cup {INVALID}]
  BY <1>1 DEF PoolInv, TypeOK
<1>6. TypeOK'
  BY <1>1, <1>3, <1>5 DEF AllocManaged, PoolInv, TypeOK
<1>7. \A g \in Holder : id'[g] = IF g = h THEN i ELSE id[g]
  BY <1>1 DEF PoolInv, TypeOK
<1>8. UniqueIDs'
  BY <1>4, <1>7 DEF PoolInv, UniqueIDs, Held
<1>9. NeverMasked'
  BY <1>4, <1>7 DEF PoolInv, NeverMasked
<1>10. Held' = Held \cup {i}
  <2>1. id[h] = INVALID
    BY DEF AllocManaged
  <2> QED
    BY <1>3, <1>7, <2>1 DEF Held
<1>11. (\A j \in Managed : j \in mask <=> j \in Masked \cup Held)'
  BY <1>1, <1>10 DEF PoolInv
<1>12. (\A j \in Managed : j[1] < idx => j \in mask)'
  <2> SUFFICES ASSUME NEW j \in Managed, j[1] < idx'
               PROVE  j \in mask'
    OBVIOUS
  <2>1. CASE ~Hinted
    BY <1>1, <2>1 DEF PoolInv
  <2>2. CASE Hinted
    <3>1. j[1] < i[1]
      BY <1>1, <2>2
    <3>2. j \notin Clear
      BY <1>1, <1>3, <3>1 DEF IsFirst, Managed
    <3>3. CASE j[1] < idx
      BY <1>1, <3>3 DEF PoolInv
    <3>4. CASE ~(j[1] < idx)
      <4>1. j[1] \in Int /\ idx \in Int
        BY DEF PoolInv, TypeOK, Managed
      <4> QED
        BY <1>1, <3>2, <3>4, <4>1 DEF Clear
    <3> QED
      BY <3>3, <3>4
  <2> QED
    BY <2>1, <2>2
<1>13. (~Hinted => idx = 0)'
  BY <1>1 DEF PoolInv
<1>14. (\A g \in Holder : id[g] # INVALID /\ id[g][1] = Words => id[g][2] < unmanaged)'
  BY <1>3, <1>7 DEF AllocManaged, PoolInv
<1> QED
  BY <1>6, <1>8, <1>9, <1>11, <1>12, <1>13, <1>14 DEF PoolInv

(* ... and when it finds none.                                             *)
LEMMA AllocExhaustedPoolInv ==
  ASSUME PoolInv, NEW h \in Holder, AllocExhausted(h)
  PROVE  PoolInv'
<1>1. Clear = {} /\ mask' = mask
  BY DEF AllocExhausted, StartAt, HandOutUnmanaged
<1>2. \A i \in Managed : i \in mask
  BY <1>1 DEF Clear, PoolInv, TypeOK, Managed
<1>3. idx' \in 0..Words
  BY DEF AllocExhausted, StartAt, HandOutUnmanaged, PoolInv, TypeOK
<1>4. (~Hinted => idx = 0)'
  BY DEF AllocExhausted, StartAt, HandOutUnmanaged, PoolInv
<1>5. CASE ~Overflow
  <2>1. UNCHANGED <<mask, unmanaged, id>>
    BY <1>5 DEF AllocExhausted, StartAt, HandOutUnmanaged
  <2> QED
    BY <1>1, <1>2, <1>3, <1>4, <2>1 DEF PoolInv, TypeOK, UniqueIDs, NeverMasked, Held
<1>6. CASE Overflow
  <2> DEFINE u == <<Words, unmanaged>>
  <2>1. unmanaged' = unmanaged + 1 /\ id' = [id EXCEPT ![h] = u]
    BY <1>6 DEF AllocExhausted, StartAt, HandOutUnmanaged
  <2>2. u \in {Words} \X Nat /\ u # INVALID /\ u \notin Managed /\ u[1] = Words /\ u[2] = unmanaged
    BY DEF PoolInv, TypeOK, Managed
  <2> HIDE DEF u
  <2>3. \A g \in Holder : id'[g] = IF g = h THEN u ELSE id[g]
    BY <2>1 DEF PoolInv, TypeOK
  <2>4. TypeOK'
    BY <1>1, <1>3, <2>1, <2>2 DEF PoolInv, TypeOK
  <2>5. \A g \in Holder : id[g] # u
    BY <2>2 DEF PoolInv, TypeOK
  <2>6. UniqueIDs'
    BY <2>3, <2>5 DEF PoolInv, UniqueIDs
  <2>7. NeverMasked'
    BY <2>2, <2>3 DEF PoolInv, NeverMasked
  <2>8. Held' = Held \cup {u}
    <3>1. id[h] = INVALID
      BY DEF AllocExhausted, StartAt, HandOutUnmanaged
    <3> QED
      BY <2>2, <2>3, <3>1 DEF Held
  <2>9. (\A i \in Managed : i \in mask <=> i \in Masked \cup Held)'
    BY <1>1, <2>2, <2>8 DEF PoolInv
  <2>10. (\A i \in Managed : i[1] < idx => i \in mask)'
    BY <1>1, <1>2
  <2>11. (\A g \in Holder : id[g] # INVALID /\ id[g][1] = Words => id[g][2] < unmanaged)'
    <3> SUFFICES ASSUME NEW g \in Holder, id'[g] # INVALID, id'[g][1] = Words
                 PROVE  id'[g][2] < unmanaged'
      OBVIOUS
    <3>1. CASE g = h
      BY <2>1, <2>2, <2>3, <3>1 DEF PoolInv, TypeOK
    <3>2. CASE g # h
      <4>1. id[g] \in {Words} \X Nat
        BY <2>3, <3>2 DEF PoolInv, TypeOK, Managed
      <4>2. id[g][2] < unmanaged
        BY <2>3, <3>2 DEF PoolInv
      <4> QED
        BY <2>1, <2>3, <3>2, <4>1, <4>2 DEF PoolInv, TypeOK
    <3> QED
      BY <3>1, <3>2
  <2> QED
    BY <1>4, <2>4, <2>6, <2>7, <2>9, <2>10, <2>11 DEF PoolInv
<1> QED
  BY <1>5, <1>6

(* Free*ID keeps the pool consistent.                                      *)
LEMMA FreeIDPoolInv ==
  ASSUME PoolInv, NEW h \in Holder, FreeID(h)
  PROVE  PoolInv'
<1> DEFINE i == id[h]
<1>1. i # INVALID /\ id' = [id EXCEPT ![h] = INVALID] /\ unmanaged' = unmanaged
  BY DEF FreeID
<1>2. \A g \in Holder : id'[g] = IF g = h THEN INVALID ELSE id[g]
  BY <1>1 DEF PoolInv, TypeOK
<1>3. UniqueIDs' /\ NeverMasked'
  <2>1. INVALID \notin Masked
    BY DEF Managed
  <2> QED
    BY <1>2, <2>1 DEF PoolInv, UniqueIDs, NeverMasked
<1>4. Held' = Held \ {i}
  BY <1>1, <1>2 DEF PoolInv, UniqueIDs, Held
<1>5. /\ (\A g \in Holder : id[g] # INVALID /\ id[g][1] = Words => id[g][2] < unmanaged)'
      /\ (~Hinted => idx = 0)'
  BY <1>1, <1>2 DEF FreeID, Release, PoolInv
<1>6. i \in Managed \/ i \in {Words} \X Nat
  BY <1>1 DEF PoolInv, TypeOK
<1>7. CASE i[1] >= Words
  <2>1. mask' = mask /\ idx' = idx
    BY <1>7 DEF FreeID
  <2>2. i \notin Managed
    BY <1>7 DEF Managed
  <2>3. TypeOK'
    BY <1>1, <2>1 DEF PoolInv, TypeOK
  <2> QED
    BY <1>3, <1>4, <1>5, <2>1, <2>2, <2>3 DEF PoolInv
<1>8. CASE ~(i[1] >= Words)
  <2>1. /\ mask' = mask \ {i}
        /\ idx' = IF Hinted /\ i[1] < idx THEN i[1] ELSE idx
    BY <1>8 DEF FreeID, Release
  <2>2. i \in Managed /\ i[1] \in 0..(Words - 1)
    BY <1>6, <1>8 DEF Managed
  <2>3. TypeOK'
    BY <1>1, <2>1, <2>2 DEF PoolInv, TypeOK
  <2>4. i \notin Masked
    BY DEF PoolInv, NeverMasked
  <2>5. (\A j \in Managed : j \in mask <=> j \in Masked \cup Held)'
    BY <1>4, <2>1, <2>4 DEF PoolInv
  <2>6. \A j \in Managed : j[1] < idx' => j \in mask'
    <3> SUFFICES ASSUME NEW j \in Managed, j[1] < idx' PROVE j \in mask'
      OBVIOUS
    <3>1. j[1] \in Int /\ idx \in Int /\ i[1] \in Int
      BY <2>2 DEF PoolInv, TypeOK, Managed
    <3>2. j[1] < idx
      BY <2>1, <3>1
    <3>3. i \in mask
      BY <1>1, <2>2 DEF PoolInv, Held
    <3>4. j # i
      <4>1. CASE Hinted
        BY <2>1, <3>1, <4>1
      <4>2. CASE ~Hinted
        BY <4>2, <2>1, <2>2 DEF PoolInv, Managed
      <4> QED
        BY <4>1, <4>2
    <3> QED
      BY <2>1, <3>2, <3>4 DEF PoolInv
  <2> QED
    BY <1>3, <1>5, <2>3, <2>5, <2>6 DEF PoolInv
<1> QED
  BY <1>7, <1>8

(* So does every step of the pool.                                         *)
LEMMA NextPoolInv == PoolInv /\ [Next]_vars => PoolInv'
<1> SUFFICES ASSUME PoolInv, [Next]_vars PROVE PoolInv'
  OBVIOUS
<1>1. CASE \E h \in Holder : AllocManaged(h)
  BY <1>1, AllocManagedPoolInv
<1>2. CASE \E h \in Holder : AllocExhausted(h)
  BY <1>2, AllocExhaustedPoolInv
<1>3. CASE \E h \in Holder : FreeID(h)
  BY <1>3, FreeIDPoolInv
<1>4. CASE UNCHANGED vars
  BY <1>4 DEF vars, PoolInv, TypeOK, UniqueIDs, NeverMasked, Held
<1> QED
  BY <1>1, <1>2, <1>3, <1>4 DEF Next

(* When every clear bit lies at or above the index, the search of Alloc*ID *)
(* sees an identifier if there is one that nobody holds.                   *)
LEMMA PoolInvNoneForgotten == PoolInv => NoneForgotten
<1> SUFFICES ASSUME PoolInv, NEW i \in Managed, i \notin Masked \cup Held
             PROVE  i \in Clear
  BY DEF NoneForgotten
<1>1. i \notin mask /\ ~(i[1] < idx)
  BY DEF PoolInv
<1>2. i[1] \in Int /\ idx \in Int
  BY DEF PoolInv, TypeOK, Managed
<1> QED
  BY <1>1, <1>2 DEF Clear

-----------------------------------------------------------------------------

(* The mask, the index, the overflow counter and the identifiers in use    *)
(* agree in every reachable state of Alloc*ID and Free*ID.                 *)
THEOREM PoolInvariant == Spec => []PoolInv
BY InitPoolInv, NextPoolInv, PTL DEF Spec

(* The state of a pool always has its type.                                *)
THEOREM TypeCorrect == Spec => []TypeOK
<1>1. PoolInv => TypeOK
  BY DEF PoolInv
<1> QED
  BY <1>1, PoolInvariant, PTL

(* Alloc*ID never gives out an identifier that somebody still holds.       *)
THEOREM NoIDHeldTwice == Spec => []UniqueIDs
<1>1. PoolInv => UniqueIDs
  BY DEF PoolInv
<1> QED
  BY <1>1, PoolInvariant, PTL

(* AllocGMRID never gives out a region the device does not have.           *)
THEOREM NoUnsupportedID == Spec => []NeverMasked
<1>1. PoolInv => NeverMasked
  BY DEF PoolInv
<1> QED
  BY <1>1, PoolInvariant, PTL

(* Alloc*ID fails, or goes on to unmanaged numbers, only when every        *)
(* identifier of the mask is held.                                         *)
THEOREM NoIDForgotten == Spec => []NoneForgotten
BY PoolInvNoneForgotten, PoolInvariant, PTL
=============================================================================
