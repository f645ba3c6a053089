---------------------------- MODULE GuestRegions ----------------------------
(***************************************************************************)
(* Guest memory regions (GMRs): how createGMR and createGMR2 of            *)
(* AC/VMsvga2Accel.cpp describe a memory descriptor to the device, and how *)
(* the device reads the description (vminclude/svga_reg.h).                *)
(*                                                                         *)
(* A memory descriptor is [pages, start, end]: the physical page numbers   *)
(* it covers in order, the offset of its first byte in the first page and  *)
(* the number of bytes of its last page that it includes.                  *)
(***************************************************************************)
EXTENDS Integers, Sequences, FiniteSets, FiniteSetsExt, SequencesExt

CONSTANTS PAGE,        \* PAGE_SIZE, in units of the model
          DPP,         \* descriptors in a page, without the one that links to the next
          PPNLimit,    \* page numbers from here on do not fit in 32 bits
          MaxDescriptorLength,  \* getMaxGMRDescriptorLength()
          MaxGMRPages           \* getMaxGMRPages()

ASSUME GuestRegionsAssumption ==
  /\ PAGE \in Nat \ {0} /\ DPP \in Nat \ {0} /\ PPNLimit \in Nat
  /\ MaxDescriptorLength \in Nat /\ MaxGMRPages \in Nat

LengthOf(md) ==
  LET n == Len(md.pages) IN (n - 1) * PAGE + md.end - md.start

(* The pages, by index, at which a physically contiguous run begins *)
RunStarts(pages) == {i \in DOMAIN pages : i = 1 \/ pages[i] # pages[i - 1] + 1}

(* Pages from index i to the end of the run it is in *)
RunLength(pages, i) == Min({j \in RunStarts(pages) : j > i} \cup {Len(pages) + 1}) - i

(* getPhysicalSegment, again and again from offset 0: address and length of each run *)
Segments(md) ==
  LET start(i) == IF i = 1 THEN md.start ELSE 0
      bytes(i) == LET n == RunLength(md.pages, i)
                  IN IF i + n - 1 = Len(md.pages) THEN (n - 1) * PAGE + md.end ELSE n * PAGE
      starts == SetToSortSeq(RunStarts(md.pages), <)
  IN [s \in DOMAIN starts |->
       [addr |-> md.pages[starts[s]] * PAGE + start(starts[s]),
        length |-> bytes(starts[s]) - start(starts[s])]]

PagesOf(seg) == (seg.length + (seg.addr % PAGE) + PAGE - 1) \div PAGE
TooHigh(md) == \E s \in ToSet(Segments(md)) : s.addr \div PAGE >= PPNLimit

-----------------------------------------------------------------------------
(* createGMR: a list of descriptors in pages of a helper buffer *)

Refused == [ppn |-> 0, memory |-> <<>>]

NumPages(md) == (Len(Segments(md)) + DPP - 1) \div DPP

(* "helper" lists the physical pages of the helper buffer, which starts zeroed. *)
EmptyHelper(helper) ==
  [p \in ToSet(helper) |-> [k \in 1..DPP + 1 |-> [ppn |-> 0, numPages |-> 0]]]

(* Before the loop: helper_ptr at the first descriptor of page 0 *)
LoopStart(helper) ==
  [memory |-> EmptyHelper(helper), page |-> 0, slot |-> 1, inPage |-> DPP, nextPage |-> 1,
   helperPPN |-> helper[1] + 1, helperPages |-> RunLength(helper, 1) - 1, done |-> FALSE]

Put(s, helper, d) == [s.memory EXCEPT ![helper[s.page + 1]][s.slot] = d]

(* A mutant: the page after the one linked to is not looked for behind it. *)
LinkKeepsPPN(s, helper, ppn, left) ==
  [s EXCEPT !.memory = Put(s, helper, [ppn |-> ppn, numPages |-> 0]),
            !.helperPPN = ppn, !.helperPages = left - 1,
            !.page = s.nextPage, !.slot = 1, !.nextPage = @ + 1, !.inPage = DPP]

(* The page is full and another follows: a link to it, and on in it *)
Link(s, helper, ppn, left) ==
  [s EXCEPT !.memory = Put(s, helper, [ppn |-> ppn, numPages |-> 0]),
            !.helperPPN = ppn + 1, !.helperPages = left - 1,
            !.page = s.nextPage, !.slot = 1, !.nextPage = @ + 1, !.inPage = DPP]

Describe(s, helper, seg) ==
  LET put == [s EXCEPT !.memory = Put(s, helper, [ppn |-> seg.addr \div PAGE,
                                                  numPages |-> PagesOf(seg)]),
                       !.slot = @ + 1, !.inPage = @ - 1]
  IN IF put.inPage > 0 THEN put
     ELSE IF s.helperPages > 0 THEN Link(put, helper, s.helperPPN, s.helperPages)
     ELSE IF s.nextPage < Len(helper)
          THEN Link(put, helper, helper[s.nextPage + 1], RunLength(helper, s.nextPage + 1))
          ELSE [put EXCEPT !.done = TRUE]

createGMR(hasCap, md, helper) ==
  IF ~hasCap \/ TooHigh(md) \/ Len(Segments(md)) + NumPages(md) > MaxDescriptorLength
  THEN Refused
  ELSE [ppn |-> helper[1],
        memory |-> FoldLeft(LAMBDA s, seg : IF s.done THEN s ELSE Describe(s, helper, seg),
                            LoopStart(helper), Segments(md)).memory]

-----------------------------------------------------------------------------
(* The device, when SVGA_REG_GMR_DESCRIPTOR is written *)

(* It reads a descriptor: a run of pages, a link to more descriptors, or the end. *)
ReadDescriptor(memory, r) ==
  IF r.ended THEN r
  ELSE IF r.ppn \notin DOMAIN memory \/ r.slot > DPP + 1
       THEN [r EXCEPT !.ended = TRUE, !.pages = <<>>]
  ELSE LET d == memory[r.ppn][r.slot]
       IN CASE d.numPages > 0 ->
                 [r EXCEPT !.pages = @ \o [k \in 1..d.numPages |-> d.ppn + k - 1], !.slot = @ + 1]
            [] d.numPages = 0 /\ d.ppn # 0 -> [r EXCEPT !.ppn = d.ppn, !.slot = 1]
            [] OTHER -> [r EXCEPT !.ended = TRUE]

(* The pages of the region that is defined, none if it has to read too much *)
Walk(gmr) ==
  LET first == [ppn |-> gmr.ppn, slot |-> 1, pages |-> <<>>, ended |-> FALSE]
      last == FoldLeft(LAMBDA r, k : ReadDescriptor(gmr.memory, r), first,
                       [k \in 1..MaxDescriptorLength |-> k])
  IN IF last.ended THEN last.pages ELSE <<>>

-----------------------------------------------------------------------------
(* createGMR2: the list of the pages itself.  The number of pages assumes  *)
(* that the memory starts at the beginning of a page.                      *)

createGMR2(hasCap, md) ==
  LET numPages == (LengthOf(md) + PAGE - 1) \div PAGE
  IN IF ~hasCap \/ TooHigh(md) \/ numPages > MaxGMRPages THEN <<>>
     ELSE FlattenSeq([s \in DOMAIN Segments(md) |->
            [k \in 1..PagesOf(Segments(md)[s]) |-> Segments(md)[s].addr \div PAGE + k - 1]])
=============================================================================
