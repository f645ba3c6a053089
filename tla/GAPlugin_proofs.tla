---------------------------- MODULE GAPlugin_proofs ----------------------------
(***************************************************************************)
(* Proofs about GAPlugin and SurfaceOutput, for every set of surfaces,     *)
(* modes, streams and blit surfaces: whatever the WindowServer and the     *)
(* application do, no command names what the device does not have, and     *)
(* the master surface and the streams are accounted for.                   *)
(***************************************************************************)
EXTENDS GAPlugin, SequenceTheorems, FiniteSetTheorems, WellFoundedInduction, TLAPS

-----------------------------------------------------------------------------
(* A sequence of commands: the fold that Issue is                          *)

(* Every set of naturals that is not empty has a least member.             *)
LEMMA LeastNat ==
  ASSUME NEW S, S \subseteq Nat, S # {}
  PROVE  \E x \in S : \A y \in S : x <= y
<1> DEFINE R == OpToRel(<, Nat)
<1>1. IsWellFoundedOn(R, Nat)
  BY NatLessThanWellFounded
<1>2. \E x \in S : \A y \in S : ~(<<y, x>> \in R)
  <2> HIDE DEF R
  <2> QED
    BY <1>1, WFMin
<1>3. \A x, y \in S : y < x => <<y, x>> \in R
  BY DEF OpToRel
<1>4. \E x \in S : \A y \in S : ~(y < x)
  <2> HIDE DEF R
  <2> QED
    BY <1>2, <1>3
<1> QED
  BY <1>4

(* A property of 0 that passes from n to n + 1.                            *)
LEMMA SetInduction ==
  ASSUME NEW S, 0 \in S, \A n \in Nat : n \in S => n + 1 \in S
  PROVE  Nat \subseteq S
<1> SUFFICES ASSUME Nat \ S # {}
             PROVE  FALSE
  OBVIOUS
<1>1. PICK n \in Nat \ S : \A m \in Nat \ S : n <= m
  BY LeastNat
<1>2. n # 0 /\ n - 1 \in Nat /\ n - 1 \in S
  BY <1>1
<1> QED
  BY <1>1, <1>2

(* What the device is after the commands cmds, when it was d before.       *)
After(d, cmds) == FoldLeft(Execute, d, cmds)

(* The function that FoldLeft is defined by, on the sets of positions.     *)
IsRun(f, d, cmds, S) ==
  f = [s \in SUBSET S |->
         IF s = {} THEN d ELSE Execute(f[s \ {Max(s)}], cmds[Max(s)])]

LEMMA AfterIsRun ==
  ASSUME NEW d, NEW cmds
  PROVE  After(d, cmds) = (CHOOSE f : IsRun(f, d, cmds, DOMAIN cmds))[DOMAIN cmds]
BY DEF After, FoldLeft, MapThenFoldSet, IsRun

LEMMA MaxProperties ==
  ASSUME NEW n \in Nat, NEW s \in SUBSET (1..n), s # {}
  PROVE  Max(s) \in s /\ \A y \in s : Max(s) >= y
<1> DEFINE T == {n - x : x \in s}
<1>1. \A x \in s : x \in 1..n /\ n - x \in Nat
  OBVIOUS
<1>2. T \subseteq Nat /\ T # {}
  BY <1>1
<1>3. PICK t \in T : \A u \in T : t <= u
  <2> HIDE DEF T
  <2> QED
    BY <1>2, LeastNat
<1>4. PICK x \in s : t = n - x
  OBVIOUS
<1>5. ASSUME NEW y \in s
      PROVE  x >= y
  <2>1. n - x <= n - y
    BY <1>3, <1>4
  <2> QED
    BY <1>1, <2>1
<1> QED
  BY <1>5 DEF Max

LEMMA MaxOfInterval ==
  ASSUME NEW k \in Nat \ {0}
  PROVE  Max(1..k) = k /\ (1..k) \ {Max(1..k)} = 1..(k - 1)
<1>1. Max(1..k) \in 1..k /\ Max(1..k) >= k
  <2>1. k \in 1..k /\ k \in Nat /\ (1..k) \in SUBSET (1..k) /\ 1..k # {}
    OBVIOUS
  <2> QED
    BY <2>1, MaxProperties
<1> QED
  BY <1>1

(* There is such a function, one position more at a time.                  *)
LEMMA RunExists ==
  ASSUME NEW d, NEW cmds
  PROVE  \A n \in Nat : \E f : IsRun(f, d, cmds, 1..n)
<1> DEFINE S == {n \in Nat : \E f : IsRun(f, d, cmds, 1..n)}
<1>1. 0 \in S
  <2> DEFINE f == [s \in SUBSET (1..0) |-> d]
  <2>1. \A s \in SUBSET (1..0) : s = {}
    OBVIOUS
  <2>2. IsRun(f, d, cmds, 1..0)
    BY <2>1 DEF IsRun
  <2> QED
    BY <2>2
<1>2. ASSUME NEW n \in Nat, n \in S
      PROVE  n + 1 \in S
  <2>1. PICK f : IsRun(f, d, cmds, 1..n)
    BY <1>2
  <2> DEFINE g == [s \in SUBSET (1..(n + 1)) |->
                     IF s = {} THEN d ELSE Execute(f[s \ {Max(s)}], cmds[Max(s)])]
  <2>2. ASSUME NEW s \in SUBSET (1..(n + 1)), s # {}
        PROVE  s \ {Max(s)} \in SUBSET (1..n)
    <3>1. Max(s) \in s /\ \A y \in s : Max(s) >= y
      <4>1. n + 1 \in Nat
        OBVIOUS
      <4> QED
        BY <2>2, <4>1, MaxProperties
    <3>2. ASSUME NEW y \in s \ {Max(s)}
          PROVE  y \in 1..n
      <4>1. y \in 1..(n + 1) /\ Max(s) \in 1..(n + 1) /\ y <= Max(s) /\ y # Max(s)
        BY <3>1
      <4> QED
        BY <4>1
    <3> QED
      BY <3>2
  <2>3. \A s \in SUBSET (1..n) : g[s] = f[s]
    <3> SUFFICES ASSUME NEW s \in SUBSET (1..n)
                 PROVE  g[s] = f[s]
      OBVIOUS
    <3>1. s \in SUBSET (1..(n + 1))
      OBVIOUS
    <3>2. f[s] = IF s = {} THEN d ELSE Execute(f[s \ {Max(s)}], cmds[Max(s)])
      BY <2>1 DEF IsRun
    <3> QED
      BY <3>1, <3>2
  <2>4. \A s \in SUBSET (1..(n + 1)) :
          s # {} => g[s \ {Max(s)}] = f[s \ {Max(s)}]
    BY <2>2, <2>3
  <2>5. g = [s \in SUBSET (1..(n + 1)) |->
               IF s = {} THEN d ELSE Execute(g[s \ {Max(s)}], cmds[Max(s)])]
    BY <2>4
  <2>6. IsRun(g, d, cmds, 1..(n + 1))
    BY <2>5 DEF IsRun
  <2> QED
    BY <2>6
<1> HIDE DEF S
<1>3. Nat \subseteq S
  BY <1>1, <1>2, SetInduction
<1> QED
  BY <1>3 DEF S

LEMMA RunSteps ==
  ASSUME NEW d, NEW cmds, NEW n \in Nat, NEW f, IsRun(f, d, cmds, 1..n)
  PROVE  /\ f[1..0] = d
         /\ \A k \in 1..n : f[1..k] = Execute(f[1..(k - 1)], cmds[k])
<1>1. f[1..0] = d
  BY DEF IsRun
<1>2. ASSUME NEW k \in 1..n
      PROVE  f[1..k] = Execute(f[1..(k - 1)], cmds[k])
  <2>1. Max(1..k) = k /\ (1..k) \ {Max(1..k)} = 1..(k - 1)
    BY MaxOfInterval
  <2>2. (1..k) \in SUBSET (1..n) /\ 1..k # {}
    <3>1. \A j \in 1..k : j \in 1..n
      OBVIOUS
    <3>2. k \in 1..k
      OBVIOUS
    <3> QED
      BY <3>1, <3>2
  <2>3. f[1..k] = Execute(f[(1..k) \ {Max(1..k)}], cmds[Max(1..k)])
    BY <2>2 DEF IsRun
  <2> QED
    BY <2>1, <2>3
<1> QED
  BY <1>1, <1>2

(* Commands that begin alike take the device the same way.                 *)
LEMMA RunsAgree ==
  ASSUME NEW d, NEW a, NEW b, NEW n \in Nat, NEW m \in Nat, n <= m,
         NEW f, IsRun(f, d, a, 1..n), NEW g, IsRun(g, d, b, 1..m),
         \A k \in 1..n : a[k] = b[k]
  PROVE  f[1..n] = g[1..n]
<1> DEFINE S == {k \in Nat : k <= n => f[1..k] = g[1..k]}
<1>1. 0 \in S
  BY RunSteps
<1>2. ASSUME NEW k \in Nat, k \in S
      PROVE  k + 1 \in S
  <2> SUFFICES ASSUME k + 1 <= n
               PROVE  f[1..(k + 1)] = g[1..(k + 1)]
    OBVIOUS
  <2>1. k + 1 \in 1..n /\ k + 1 \in 1..m /\ (k + 1) - 1 = k
    OBVIOUS
  <2> DEFINE j == k + 1
  <2>2. f[1..j] = Execute(f[1..(j - 1)], a[j]) /\ g[1..j] = Execute(g[1..(j - 1)], b[j])
    <3> HIDE DEF j
    <3>1. j \in 1..n /\ j \in 1..m
      BY <2>1 DEF j
    <3>2. \A i \in 1..n : f[1..i] = Execute(f[1..(i - 1)], a[i])
      BY RunSteps
    <3>3. \A i \in 1..m : g[1..i] = Execute(g[1..(i - 1)], b[i])
      BY RunSteps
    <3> QED
      BY <3>1, <3>2, <3>3
  <2>3. j - 1 = k
    OBVIOUS
  <2> QED
    BY <1>2, <2>1, <2>2, <2>3
<1> HIDE DEF S
<1>3. n \in S
  BY <1>1, <1>2, SetInduction
<1> QED
  BY <1>3 DEF S

(* One command more: b is a, of n commands, with another one at its end.   *)
OneMore(a, b, n) ==
  /\ DOMAIN a = 1..n
  /\ DOMAIN b = 1..(n + 1)
  /\ \A k \in 1..n : a[k] = b[k]

LEMMA AfterOneMore ==
  ASSUME NEW d, NEW a, NEW b, NEW n \in Nat, OneMore(a, b, n)
  PROVE  After(d, b) = Execute(After(d, a), b[n + 1])
<1> DEFINE m == n + 1
           f == CHOOSE h : IsRun(h, d, a, 1..n)
           g == CHOOSE h : IsRun(h, d, b, 1..m)
<1>1. m \in Nat /\ m \in 1..m /\ n <= m /\ m - 1 = n
  OBVIOUS
<1>2. DOMAIN a = 1..n /\ DOMAIN b = 1..m /\ \A k \in 1..n : a[k] = b[k]
  BY DEF OneMore
<1> HIDE DEF m
<1>3. IsRun(f, d, a, 1..n) /\ IsRun(g, d, b, 1..m)
  BY <1>1, RunExists
<1>4. After(d, a) = f[1..n] /\ After(d, b) = g[1..m]
  BY <1>2, AfterIsRun
<1> HIDE DEF f, g
<1>5. f[1..n] = g[1..n]
  BY <1>1, <1>2, <1>3, RunsAgree
<1>6. g[1..m] = Execute(g[1..n], b[m])
  <2>1. m \in Nat /\ IsRun(g, d, b, 1..m)
    BY <1>1, <1>3
  <2>2. \A k \in 1..m : g[1..k] = Execute(g[1..(k - 1)], b[k])
    BY <2>1, RunSteps
  <2> QED
    BY <1>1, <2>2
<1> QED
  BY <1>4, <1>5, <1>6 DEF m

LEMMA AfterNothing ==
  ASSUME NEW d
  PROVE  After(d, <<>>) = d
<1>1. DOMAIN <<>> = 1..0
  OBVIOUS
<1> DEFINE f == CHOOSE g : IsRun(g, d, <<>>, 1..0)
<1>2. IsRun(f, d, <<>>, 1..0)
  <2>1. 0 \in Nat
    OBVIOUS
  <2>2. \E g : IsRun(g, d, <<>>, 1..0)
    BY <2>1, RunExists
  <2> QED
    BY <2>2
<1>3. After(d, <<>>) = f[1..0]
  BY <1>1, AfterIsRun
<1> HIDE DEF f
<1>4. f[1..0] = d
  BY <1>2, RunSteps
<1> QED
  BY <1>3, <1>4

(* A command, and what one command alone does.                             *)
LEMMA AfterOne ==
  ASSUME NEW d, NEW c
  PROVE  After(d, <<c>>) = Execute(d, c)
<1> DEFINE a == <<>>
           b == <<c>>
<1>1. OneMore(a, b, 0) /\ b[0 + 1] = c
  BY DEF OneMore
<1>2. After(d, a) = d
  BY AfterNothing
<1> HIDE DEF a, b
<1>3. After(d, b) = Execute(After(d, a), b[0 + 1])
  BY <1>1, AfterOneMore
<1> QED
  BY <1>1, <1>2, <1>3 DEF b

(* One sequence of commands after another.                                 *)
LEMMA AfterBoth ==
  ASSUME NEW S, NEW a \in Seq(S), NEW d
  PROVE  \A b \in Seq(S) : After(d, a \o b) = After(After(d, a), b)
<1> DEFINE N == {n \in Nat : \A b \in Seq(S) :
                   Len(b) = n => After(d, a \o b) = After(After(d, a), b)}
<1>1. 0 \in N
  <2> SUFFICES ASSUME NEW b \in Seq(S), Len(b) = 0
               PROVE  After(d, a \o b) = After(After(d, a), b)
    OBVIOUS
  <2>1. b = <<>>
    BY EmptySeq
  <2> QED
    BY <2>1, ConcatEmptySeq, AfterNothing
<1>2. ASSUME NEW n \in Nat, n \in N
      PROVE  n + 1 \in N
  <2> SUFFICES ASSUME NEW b \in Seq(S), Len(b) = n + 1
               PROVE  After(d, a \o b) = After(After(d, a), b)
    OBVIOUS
  <2> DEFINE f == SubSeq(b, 1, n)
  <2>1. f \in Seq(S) /\ Len(f) = n /\ \A k \in 1..n : f[k] = b[k]
    <3>1. \A k \in 1..n : b[k] \in S
      BY ElementOfSeq
    <3>2. 1 \in Int /\ n \in Int
      OBVIOUS
    <3>3. /\ f \in Seq(S) /\ Len(f) = IF 1 <= n THEN n - 1 + 1 ELSE 0
          /\ \A k \in 1..(n - 1 + 1) : f[k] = b[1 + k - 1]
      BY <3>1, <3>2, SubSeqProperties
    <3>4. \A k \in 1..n : f[k] = b[k]
      BY <3>3
    <3> QED
      BY <3>3, <3>4
  <2> HIDE DEF f
  <2>2. After(d, a \o f) = After(After(d, a), f)
    BY <1>2, <2>1
  <2>3. After(After(d, a), b) = Execute(After(After(d, a), f), b[n + 1])
    <3>1. OneMore(f, b, n)
      BY <2>1, LenProperties DEF OneMore
    <3> QED
      BY <2>1, <3>1, AfterOneMore
  <2>4. After(d, a \o b) = Execute(After(d, a \o f), b[n + 1])
    <3> DEFINE m == Len(a) + n
    <3>1. /\ Len(a) \in Nat /\ m \in Nat
          /\ DOMAIN (a \o f) = 1..m /\ DOMAIN (a \o b) = 1..(m + 1)
      <4>1. a \o f \in Seq(S) /\ Len(a \o f) = Len(a) + n
        BY <2>1, ConcatProperties
      <4>2. a \o b \in Seq(S) /\ Len(a \o b) = Len(a) + (n + 1)
        <5>1. a \o b \in Seq(S) /\ Len(a \o b) = Len(a) + Len(b)
          BY ConcatProperties
        <5> QED
          BY <5>1
      <4>3. Len(a) \in Nat
        BY LenProperties
      <4>4. Len(a) + (n + 1) = m + 1
        BY <4>3
      <4> QED
        BY <4>1, <4>2, <4>3, <4>4, LenProperties
    <3>2. \A k \in 1..m : (a \o f)[k] = (a \o b)[k]
      <4> SUFFICES ASSUME NEW k \in 1..m
                   PROVE  (a \o f)[k] = (a \o b)[k]
        OBVIOUS
      <4>1. k \in 1..(Len(a) + Len(f)) /\ k \in 1..(Len(a) + Len(b))
        BY <2>1, <3>1
      <4>2. (a \o f)[k] = IF k <= Len(a) THEN a[k] ELSE f[k - Len(a)]
        BY <2>1, <4>1, ConcatProperties
      <4>3. (a \o b)[k] = IF k <= Len(a) THEN a[k] ELSE b[k - Len(a)]
        BY <4>1, ConcatProperties
      <4>4. ~(k <= Len(a)) => k - Len(a) \in 1..n
        BY <3>1
      <4> QED
        BY <2>1, <4>2, <4>3, <4>4
    <3>3. (a \o b)[m + 1] = b[n + 1]
      <4>1. m + 1 \in 1..(Len(a) + Len(b)) /\ ~(m + 1 <= Len(a)) /\ m + 1 - Len(a) = n + 1
        BY <3>1
      <4>2. (a \o b)[m + 1] = IF m + 1 <= Len(a) THEN a[m + 1] ELSE b[m + 1 - Len(a)]
        BY <4>1, ConcatProperties
      <4> QED
        BY <4>1, <4>2
    <3> HIDE DEF m
    <3>4. OneMore(a \o f, a \o b, m)
      BY <3>1, <3>2 DEF OneMore
    <3>5. After(d, a \o b) = Execute(After(d, a \o f), (a \o b)[m + 1])
      <4> DEFINE u == a \o f
                 v == a \o b
      <4>1. m \in Nat /\ OneMore(u, v, m)
        BY <3>1, <3>4
      <4> HIDE DEF u, v
      <4>2. After(d, v) = Execute(After(d, u), v[m + 1])
        BY <4>1, AfterOneMore
      <4> QED
        BY <4>2 DEF u, v
    <3> QED
      BY <3>3, <3>5
  <2> QED
    BY <2>2, <2>3, <2>4
<1> HIDE DEF N
<1>3. Nat \subseteq N
  BY <1>1, <1>2, SetInduction
<1> SUFFICES ASSUME NEW b \in Seq(S)
             PROVE  After(d, a \o b) = After(After(d, a), b)
  OBVIOUS
<1>4. Len(b) \in N
  BY <1>3, LenProperties
<1> QED
  BY <1>4 DEF N

-----------------------------------------------------------------------------
(* The inductive invariant *)

SurfaceType ==
  [open : BOOLEAN, bHaveID : BOOLEAN, front : {"none", "screen", "master"},
   bVideoMode : BOOLEAN, stream : Streams \cup {NONE},
   format : {"X8R8G8B8", "YUV", "other"}, region : Regions]

AccelType ==
  [retain : Nat, master : SurfaceIDs \cup {INVALID}, surfaceIDs : SUBSET SurfaceIDs,
   streams : SUBSET Streams, blitbug : {"NotFound", "Success", "Error"},
   primary : Modes \cup {NONE}]

Sizes == Modes \cup {NONE, "probe", "buffer", "bounds"}

DeviceType ==
  [mode : Modes, defined : [SurfaceIDs \cup {ProbeID} -> Sizes],
   screen : Modes \cup {NONE}, overlay : [Streams -> Regions \cup {NONE}], stray : {{}}]

(* An application never has the WindowServer's own surface.                *)
Drawable == (Surfaces \ {Desk}) \cup {NONE}

TypeOK ==
  /\ caps \in Caps
  /\ surf \in [Surfaces -> SurfaceType]
  /\ accel \in AccelType
  /\ device \in DeviceType
  /\ lost \subseteq Streams
  /\ context \in [target : BOOLEAN, client : Drawable]
  /\ ga \in [open : BOOLEAN, surface : Blits \cup {NONE}, ok : BOOLEAN, info : [Blits -> Drawable]]

(* A surface that is open has the front buffer that start finds, except    *)
(* while it is used for video, when it has none.                           *)
SurfInv ==
  \A s \in Surfaces :
    /\ ~surf[s].open => surf[s] = Closed
    /\ surf[s].front = IF surf[s].open /\ ~surf[s].bVideoMode THEN FrontFound ELSE "none"
    /\ surf[s].stream # NONE => surf[s].bVideoMode
    /\ surf[s].bVideoMode => s # Desk

Masters == {s \in Surfaces : surf[s].front = "master"}

(* What the accelerator a counts, and what the device d has for it, when   *)
(* the surfaces in set draw to the master surface: which is as large as    *)
(* the display.                                                            *)
MasterCounts(a, d, set) ==
  /\ a.retain = Cardinality(set)
  /\ a.retain = 0 <=> a.master = INVALID
  /\ a.surfaceIDs = {a.master} \ {INVALID}
  /\ {i \in SurfaceIDs \cup {ProbeID} : d.defined[i] # NONE} = a.surfaceIDs
  /\ a.retain # 0 => d.defined[a.master] = d.mode

MasterInv == MasterCounts(accel, device, Masters)

(* The screen object is the one createPrimaryScreen made, and is as large  *)
(* as the display once the WindowServer has its own surface.               *)
ScreenInv ==
  /\ device.screen = accel.primary
  /\ accel.primary # NONE => caps.screen
  /\ caps.screen /\ surf[Desk].bHaveID => accel.primary = device.mode

(* An instance that is not open is as vmStart finds it.                    *)
InstanceInv == ~ga.open => ga = Stopped

GAInv ==
  /\ TypeOK
  /\ SurfInv
  /\ MasterInv
  /\ ScreenInv
  /\ OverlayOwned
  /\ DestinationAgreed
  /\ InstanceInv

(* What of this is about the surfaces, and not about the plug-in.          *)
OutputInv ==
  /\ caps \in Caps
  /\ surf \in [Surfaces -> SurfaceType]
  /\ accel \in AccelType
  /\ device \in DeviceType
  /\ lost \subseteq Streams
  /\ SurfInv
  /\ MasterInv
  /\ ScreenInv
  /\ OverlayOwned

-----------------------------------------------------------------------------
(* What the commands do to the device                                      *)

IDs == SurfaceIDs \cup {ProbeID}

DefinedAs(d, id, size) == [d EXCEPT !.defined[id] = size]
Shown(d, k, dest) == [d EXCEPT !.overlay[k] = dest]

CommandType ==
  {Define(id, size) : id \in IDs, size \in Sizes} \cup {Destroy(id) : id \in IDs}
  \cup {Use(id) : id \in IDs} \cup {Present(id) : id \in IDs}
  \cup {UseScreen} \cup {Overlay(k, dest) : k \in Streams, dest \in Regions \cup {NONE}}

LEMMA DefinedAsFields ==
  ASSUME NEW d \in DeviceType, NEW id \in IDs, NEW size \in Sizes
  PROVE  /\ DefinedAs(d, id, size) \in DeviceType
         /\ DefinedAs(d, id, size).defined[id] = size
         /\ \A i \in IDs \ {id} : DefinedAs(d, id, size).defined[i] = d.defined[i]
         /\ DefinedAs(d, id, size).mode = d.mode
         /\ DefinedAs(d, id, size).screen = d.screen
         /\ DefinedAs(d, id, size).overlay = d.overlay
BY DEF DefinedAs, DeviceType, IDs

LEMMA ShownFields ==
  ASSUME NEW d \in DeviceType, NEW k \in Streams, NEW dest \in Regions \cup {NONE}
  PROVE  /\ Shown(d, k, dest) \in DeviceType
         /\ Shown(d, k, dest).overlay[k] = dest
         /\ \A i \in Streams \ {k} : Shown(d, k, dest).overlay[i] = d.overlay[i]
         /\ Shown(d, k, dest).mode = d.mode
         /\ Shown(d, k, dest).screen = d.screen
         /\ Shown(d, k, dest).defined = d.defined
BY DEF Shown, DeviceType

(* A surface that has gone again leaves nothing behind.                    *)
LEMMA DefinedAndDestroyed ==
  ASSUME NEW d \in DeviceType, NEW id \in IDs, NEW size \in Sizes, d.defined[id] = NONE
  PROVE  DefinedAs(DefinedAs(d, id, size), id, NONE) = d
BY DEF DefinedAs, DeviceType, IDs

LEMMA DestroyedInBetween ==
  ASSUME NEW d \in DeviceType, NEW i \in IDs, NEW j \in IDs, i # j,
         NEW x \in Sizes, NEW y \in Sizes, d.defined[i] = NONE
  PROVE  DefinedAs(DefinedAs(DefinedAs(d, i, x), j, y), i, NONE) = DefinedAs(d, j, y)
<1> DEFINE f == d.defined
           g == [[[f EXCEPT ![i] = x] EXCEPT ![j] = y] EXCEPT ![i] = NONE]
<1>1. f \in [IDs -> Sizes] /\ f[i] = NONE
  BY DEF DeviceType, IDs
<1>2. g = [f EXCEPT ![j] = y]
  BY <1>1
<1>3. DefinedAs(DefinedAs(DefinedAs(d, i, x), j, y), i, NONE) = [d EXCEPT !.defined = g]
  BY DEF DefinedAs, DeviceType
<1>4. DefinedAs(d, j, y) = [d EXCEPT !.defined = [f EXCEPT ![j] = y]]
  BY DEF DefinedAs, DeviceType
<1> QED
  BY <1>2, <1>3, <1>4

LEMMA ExecuteDefine ==
  ASSUME NEW d, NEW id, NEW size, d.defined[id] = NONE
  PROVE  Execute(d, Define(id, size)) = DefinedAs(d, id, size)
BY DEF Execute, Stray, Define, DefinedAs

LEMMA ExecuteKnown ==
  ASSUME NEW d, NEW id, d.defined[id] # NONE
  PROVE  /\ Execute(d, Use(id)) = d
         /\ Execute(d, Destroy(id)) = DefinedAs(d, id, NONE)
BY DEF Execute, Stray, Use, Destroy, DefinedAs

LEMMA ExecutePresent ==
  ASSUME NEW d, NEW id, d.defined[id] = d.mode
  PROVE  Execute(d, Present(id)) = d
BY DEF Execute, Stray, Present

LEMMA ExecuteUseScreen ==
  ASSUME NEW d, d.screen = d.mode
  PROVE  Execute(d, UseScreen) = d
BY DEF Execute, Stray, UseScreen

LEMMA ExecuteScreen ==
  ASSUME NEW d, NEW size
  PROVE  Execute(d, Screen(size)) = [d EXCEPT !.screen = size]
BY DEF Execute, Stray, Screen

LEMMA ExecuteOverlay ==
  ASSUME NEW d, NEW k, NEW dest
  PROVE  Execute(d, Overlay(k, dest)) = Shown(d, k, dest)
BY DEF Execute, Stray, Overlay, Shown

(* Some commands, one by one. *)
LEMMA AfterTwo ==
  ASSUME NEW d, NEW a, NEW b
  PROVE  After(d, <<a, b>>) = Execute(Execute(d, a), b)
<1>1. OneMore(<<a>>, <<a, b>>, 1)
  BY DEF OneMore
<1>2. After(d, <<a, b>>) = Execute(After(d, <<a>>), <<a, b>>[1 + 1])
  BY <1>1, AfterOneMore
<1> QED
  BY <1>2, AfterOne

LEMMA AfterFour ==
  ASSUME NEW d, NEW a, NEW b, NEW c, NEW e
  PROVE  After(d, <<a, b, c, e>>) = Execute(Execute(Execute(Execute(d, a), b), c), e)
<1>1. OneMore(<<a, b>>, <<a, b, c>>, 2) /\ OneMore(<<a, b, c>>, <<a, b, c, e>>, 3)
  BY DEF OneMore
<1>2. After(d, <<a, b, c>>) = Execute(After(d, <<a, b>>), <<a, b, c>>[2 + 1])
  BY <1>1, AfterOneMore
<1>3. After(d, <<a, b, c, e>>) = Execute(After(d, <<a, b, c>>), <<a, b, c, e>>[3 + 1])
  BY <1>1, AfterOneMore
<1> QED
  BY <1>2, <1>3, AfterTwo

LEMMA AfterFive ==
  ASSUME NEW d, NEW a, NEW b, NEW c, NEW e, NEW f
  PROVE  After(d, <<a, b, c, e, f>>) =
           Execute(Execute(Execute(Execute(Execute(d, a), b), c), e), f)
<1>1. OneMore(<<a, b, c, e>>, <<a, b, c, e, f>>, 4)
  BY DEF OneMore
<1>2. After(d, <<a, b, c, e, f>>) = Execute(After(d, <<a, b, c, e>>), <<a, b, c, e, f>>[4 + 1])
  BY <1>1, AfterOneMore
<1> QED
  BY <1>2, AfterFour

LEMMA AfterNine ==
  ASSUME NEW d, NEW a, NEW b, NEW c, NEW e, NEW f, NEW g, NEW h, NEW i, NEW j
  PROVE  After(d, <<a, b, c, e, f, g, h, i, j>>) =
           Execute(Execute(Execute(Execute(After(d, <<a, b, c, e, f>>), g), h), i), j)
<1>1. /\ OneMore(<<a, b, c, e, f>>, <<a, b, c, e, f, g>>, 5)
      /\ OneMore(<<a, b, c, e, f, g>>, <<a, b, c, e, f, g, h>>, 6)
      /\ OneMore(<<a, b, c, e, f, g, h>>, <<a, b, c, e, f, g, h, i>>, 7)
      /\ OneMore(<<a, b, c, e, f, g, h, i>>, <<a, b, c, e, f, g, h, i, j>>, 8)
  BY DEF OneMore
<1>2. After(d, <<a, b, c, e, f, g>>) =
        Execute(After(d, <<a, b, c, e, f>>), <<a, b, c, e, f, g>>[5 + 1])
  BY <1>1, AfterOneMore
<1>3. After(d, <<a, b, c, e, f, g, h>>) =
        Execute(After(d, <<a, b, c, e, f, g>>), <<a, b, c, e, f, g, h>>[6 + 1])
  BY <1>1, AfterOneMore
<1>4. After(d, <<a, b, c, e, f, g, h, i>>) =
        Execute(After(d, <<a, b, c, e, f, g, h>>), <<a, b, c, e, f, g, h, i>>[7 + 1])
  BY <1>1, AfterOneMore
<1>5. After(d, <<a, b, c, e, f, g, h, i, j>>) =
        Execute(After(d, <<a, b, c, e, f, g, h, i>>), <<a, b, c, e, f, g, h, i, j>>[8 + 1])
  BY <1>1, AfterOneMore
<1> QED
  BY <1>2, <1>3, <1>4, <1>5

-----------------------------------------------------------------------------
(* What the calls' command sequences do to the device                      *)

LEMMA Numbers ==
  ASSUME TypeOK, MasterInv
  PROVE  /\ FreshID \in SurfaceIDs \ accel.surfaceIDs
         /\ NextID \in SurfaceIDs \ accel.surfaceIDs /\ NextID # FreshID
         /\ device.defined[FreshID] = NONE /\ device.defined[NextID] = NONE
         /\ device.defined[ProbeID] = NONE /\ FreshID # ProbeID /\ NextID # ProbeID
<1>1. accel.surfaceIDs = {accel.master} \ {INVALID}
  BY DEF MasterInv, MasterCounts
<1>2. ASSUME NEW ids \in SUBSET SurfaceIDs, ids # {}
      PROVE  Lowest(ids) \in ids
  <2>1. ids \subseteq Nat
    BY DEF SurfaceIDs
  <2> QED
    BY <1>2, <2>1, LeastNat DEF Lowest
<1>3. SurfaceIDs \ accel.surfaceIDs # {}
  BY <1>1 DEF SurfaceIDs
<1>4. FreshID \in SurfaceIDs \ accel.surfaceIDs
  BY <1>2, <1>3 DEF FreshID
<1>5. SurfaceIDs \ (accel.surfaceIDs \cup {FreshID}) # {}
  <2>1. {0, 1, 2} \subseteq SurfaceIDs
    BY DEF SurfaceIDs
  <2> QED
    BY <1>1, <2>1
<1>6. NextID \in SurfaceIDs \ (accel.surfaceIDs \cup {FreshID})
  BY <1>2, <1>5 DEF NextID
<1>7. \A i \in SurfaceIDs \cup {ProbeID} : device.defined[i] # NONE <=> i \in accel.surfaceIDs
  BY DEF MasterInv, MasterCounts
<1>8. ProbeID \notin SurfaceIDs
  BY DEF SurfaceIDs, ProbeID
<1> QED
  BY <1>1, <1>4, <1>6, <1>7, <1>8 DEF TypeOK, AccelType

LEMMA SizesNotNone ==
  /\ "probe" # NONE /\ "buffer" # NONE /\ "bounds" # NONE
  /\ \A m \in Modes : m # NONE
  /\ {"probe", "buffer", "bounds"} \subseteq Sizes /\ Modes \subseteq Sizes /\ NONE \in Sizes
BY OutputAssumption DEF Sizes

(* surface_video_off stops the stream of the surface.                      *)
LEMMA AfterVideoOff ==
  ASSUME NEW s \in Surfaces, NEW d
  PROVE  After(d, VideoOffCommands(s)) =
           IF surf[s].stream # NONE THEN Shown(d, surf[s].stream, NONE) ELSE d
BY AfterNothing, AfterOne, ExecuteOverlay DEF VideoOffCommands

LEMMA AfterReshape ==
  ASSUME NEW s \in Surfaces, NEW d, NEW region
  PROVE  After(d, ReshapeCommands(s, region)) =
           IF surf[s].stream # NONE THEN Shown(d, surf[s].stream, region) ELSE d
BY AfterNothing, AfterOne, ExecuteOverlay DEF ReshapeCommands

(* releaseMasterSurface destroys it for the last user.                     *)
LEMMA AfterRelease ==
  ASSUME TypeOK, MasterInv
  PROVE  After(device, ReleaseCommands) =
           IF accel.retain = 1 THEN DefinedAs(device, accel.master, NONE) ELSE device
<1>1. CASE accel.retain = 1
  <2>1. device.defined[accel.master] # NONE
    <3>1. device.mode # NONE /\ device.defined[accel.master] = device.mode
      BY <1>1, SizesNotNone DEF TypeOK, DeviceType, MasterInv, MasterCounts
    <3> QED
      BY <3>1
  <2> QED
    BY <1>1, <2>1, AfterOne, ExecuteKnown DEF ReleaseCommands
<1>2. CASE accel.retain # 1
  BY <1>2, AfterNothing DEF ReleaseCommands
<1> QED
  BY <1>1, <1>2

LEMMA AfterProbe ==
  ASSUME NEW d \in DeviceType, d.defined[ProbeID] = NONE, NEW memory \in BOOLEAN
  PROVE  After(d, ProbeCommands(memory)) = d
<1>1. ProbeID \in IDs /\ "probe" \in Sizes /\ "probe" # NONE
  BY SizesNotNone DEF IDs
<1> DEFINE p == DefinedAs(d, ProbeID, "probe")
<1>2. p \in DeviceType /\ p.defined[ProbeID] # NONE
  BY <1>1, DefinedAsFields
<1>3. Execute(d, Define(ProbeID, "probe")) = p
  BY ExecuteDefine
<1>4. Execute(p, Use(ProbeID)) = p /\ Execute(p, Destroy(ProbeID)) = DefinedAs(p, ProbeID, NONE)
  BY <1>2, ExecuteKnown
<1>5. DefinedAs(p, ProbeID, NONE) = d
  BY <1>1, DefinedAndDestroyed
<1> HIDE DEF p
<1>6. CASE ~MustProbe
  BY <1>6, AfterNothing DEF ProbeCommands
<1>7. CASE MustProbe /\ memory
  <2>1. ProbeCommands(memory) =
          <<Define(ProbeID, "probe"), Use(ProbeID), Use(ProbeID), Destroy(ProbeID)>>
    BY <1>7 DEF ProbeCommands
  <2>2. After(d, ProbeCommands(memory)) =
          Execute(Execute(Execute(Execute(d, Define(ProbeID, "probe")), Use(ProbeID)),
                          Use(ProbeID)), Destroy(ProbeID))
    BY <2>1, AfterFour
  <2> QED
    BY <1>3, <1>4, <1>5, <2>2
<1>8. CASE MustProbe /\ ~memory
  <2>1. ProbeCommands(memory) = <<Define(ProbeID, "probe"), Destroy(ProbeID)>>
    BY <1>8 DEF ProbeCommands
  <2>2. After(d, ProbeCommands(memory)) =
          Execute(Execute(d, Define(ProbeID, "probe")), Destroy(ProbeID))
    BY <2>1, AfterTwo
  <2> QED
    BY <1>3, <1>4, <1>5, <2>2
<1> QED
  BY <1>6, <1>7, <1>8

(* A device d that has the surfaces of the device, in its mode.            *)
Alike(d) == d \in DeviceType /\ d.defined = device.defined /\ d.mode = device.mode

(* retainMasterSurface creates it for the first user.                      *)
LEMMA AfterRetain ==
  ASSUME TypeOK, MasterInv, NEW d, Alike(d)
  PROVE  After(d, RetainCommands) =
           IF accel.retain = 0 THEN DefinedAs(d, FreshID, device.mode) ELSE d
<1>1. d.defined[FreshID] = NONE
  BY Numbers DEF Alike
<1>2. CASE accel.retain = 0
  <2>1. RetainCommands = <<Define(FreshID, device.mode)>>
    BY <1>2 DEF RetainCommands
  <2> QED
    BY <1>1, <1>2, <2>1, AfterOne, ExecuteDefine
<1>3. CASE accel.retain # 0
  BY <1>3, AfterNothing DEF RetainCommands
<1> QED
  BY <1>2, <1>3

LEMMA StartCommandTypes ==
  ASSUME TypeOK, MasterInv, NEW memory \in BOOLEAN
  PROVE  /\ RetainCommands \in Seq(CommandType)
         /\ ProbeCommands(memory) \in Seq(CommandType)
         /\ Start3DCommands(memory) \in Seq(CommandType)
<1>1. FreshID \in IDs /\ ProbeID \in IDs /\ device.mode \in Sizes /\ "probe" \in Sizes
  BY Numbers, SizesNotNone DEF IDs, TypeOK, DeviceType
<1>2. /\ Define(FreshID, device.mode) \in CommandType
      /\ Define(ProbeID, "probe") \in CommandType
      /\ Use(ProbeID) \in CommandType /\ Destroy(ProbeID) \in CommandType
  BY <1>1 DEF CommandType
<1>3. RetainCommands \in Seq(CommandType)
  BY <1>2 DEF RetainCommands
<1>4. ProbeCommands(memory) \in Seq(CommandType)
  BY <1>2 DEF ProbeCommands
<1>5. RetainCommands \o ProbeCommands(memory) \in Seq(CommandType)
  BY <1>3, <1>4, ConcatProperties
<1> QED
  BY <1>3, <1>4, <1>5 DEF Start3DCommands

(* Start3D: the probe leaves nothing behind.                               *)
LEMMA AfterStart3D ==
  ASSUME TypeOK, MasterInv, NEW d, Alike(d), NEW memory \in BOOLEAN
  PROVE  After(d, Start3DCommands(memory)) =
           IF FrontFound = "master" /\ accel.retain = 0
           THEN DefinedAs(d, FreshID, device.mode) ELSE d
<1>1. CASE FrontFound # "master"
  BY <1>1, AfterNothing DEF Start3DCommands
<1>2. CASE FrontFound = "master"
  <2> DEFINE r == RetainCommands
             p == ProbeCommands(memory)
             e == IF accel.retain = 0 THEN DefinedAs(d, FreshID, device.mode) ELSE d
  <2>1. Start3DCommands(memory) = r \o p
    BY <1>2 DEF Start3DCommands
  <2>2. After(d, r \o p) = After(After(d, r), p)
    <3>1. r \in Seq(CommandType) /\ p \in Seq(CommandType)
      BY StartCommandTypes
    <3> HIDE DEF r, p
    <3> QED
      BY <3>1, AfterBoth
  <2>3. After(d, r) = e
    BY AfterRetain
  <2>4. e \in DeviceType /\ e.defined[ProbeID] = NONE
    <3>1. FreshID \in IDs /\ ProbeID \in IDs \ {FreshID} /\ device.mode \in Sizes
      BY Numbers, SizesNotNone DEF IDs, TypeOK, DeviceType
    <3>2. d \in DeviceType /\ d.defined[ProbeID] = NONE
      BY Numbers DEF Alike
    <3> QED
      BY <3>1, <3>2, DefinedAsFields
  <2> HIDE DEF e
  <2>5. After(e, p) = e
    BY <2>4, AfterProbe
  <2> HIDE DEF r, p
  <2>6. After(d, Start3DCommands(memory)) = e
    BY <2>1, <2>2, <2>3, <2>5
  <2> QED
    BY <1>2, <2>6 DEF e
<1> QED
  BY <1>1, <1>2

LEMMA MastersFinite ==
  ASSUME NEW s \in Surfaces
  PROVE  /\ IsFiniteSet(Masters) /\ Cardinality(Masters) \in Nat
         /\ Cardinality(Masters) = 0 <=> Masters = {}
         /\ Cardinality(Masters \cup {s}) =
              IF s \in Masters THEN Cardinality(Masters) ELSE Cardinality(Masters) + 1
         /\ Cardinality(Masters \ {s}) =
              IF s \in Masters THEN Cardinality(Masters) - 1 ELSE Cardinality(Masters)
<1>1. IsFiniteSet(Masters)
  <2>1. Masters \in SUBSET Surfaces
    BY DEF Masters
  <2> QED
    BY <2>1, OutputAssumption, FS_Subset
<1> QED
  BY <1>1, FS_EmptySet, FS_CardinalityType, FS_AddElement, FS_RemoveElement

(* The members of the accelerator that the streams and the screen are in.  *)
SameAccel(a, b) == a.streams = b.streams /\ a.primary = b.primary
SameDevice(d, e) == d.mode = e.mode /\ d.screen = e.screen /\ d.overlay = e.overlay

Recounted(a, n, m, ids) == [a EXCEPT !.retain = n, !.master = m, !.surfaceIDs = ids]

LEMMA RecountedFields ==
  ASSUME NEW a \in AccelType, NEW n \in Nat, NEW m \in SurfaceIDs \cup {INVALID},
         NEW ids \in SUBSET SurfaceIDs
  PROVE  /\ Recounted(a, n, m, ids) \in AccelType /\ SameAccel(Recounted(a, n, m, ids), a)
         /\ Recounted(a, n, m, ids).retain = n
         /\ Recounted(a, n, m, ids).master = m
         /\ Recounted(a, n, m, ids).surfaceIDs = ids
BY DEF Recounted, AccelType, SameAccel

(* Start3D counts one user more, and the surface is there for it.          *)
LEMMA Started ==
  ASSUME TypeOK, MasterInv, NEW s \in Surfaces \ Masters, NEW memory \in BOOLEAN,
         NEW d, Alike(d), NEW a \in AccelType,
         a.retain = accel.retain, a.master = accel.master, a.surfaceIDs = accel.surfaceIDs
  PROVE  /\ Start3D(memory, a) \in AccelType
         /\ After(d, Start3DCommands(memory)) \in DeviceType
         /\ SameAccel(Start3D(memory, a), a)
         /\ SameDevice(After(d, Start3DCommands(memory)), d)
         /\ MasterCounts(Start3D(memory, a), After(d, Start3DCommands(memory)),
                         IF FrontFound = "master" THEN Masters \cup {s} ELSE Masters)
<1> DEFINE b == Start3D(memory, a)
           e == After(d, Start3DCommands(memory))
           r == Retained(a)
<1>1. d \in DeviceType /\ d.defined = device.defined /\ d.mode = device.mode
  BY DEF Alike
<1>2. e = IF FrontFound = "master" /\ accel.retain = 0
          THEN DefinedAs(d, FreshID, device.mode) ELSE d
  BY AfterStart3D
<1>3. CASE FrontFound # "master"
  <2>1. b = a /\ e = d
    BY <1>2, <1>3 DEF Start3D
  <2>2. MasterCounts(a, d, Masters)
    BY <1>1 DEF MasterInv, MasterCounts
  <2> QED
    BY <1>1, <1>3, <2>1, <2>2 DEF SameAccel, SameDevice
<1>4. CASE FrontFound = "master"
  <2>1. /\ b \in AccelType /\ SameAccel(b, a)
        /\ b.retain = a.retain + 1
        /\ b.master = IF a.retain = 0 THEN FreshID ELSE a.master
        /\ b.surfaceIDs = IF a.retain = 0 THEN a.surfaceIDs \cup {FreshID} ELSE a.surfaceIDs
    <3>1. FreshID \in SurfaceIDs
      BY Numbers
    <3>2. /\ r \in AccelType /\ SameAccel(r, a)
          /\ r.retain = a.retain + 1
          /\ r.master = IF a.retain = 0 THEN FreshID ELSE a.master
          /\ r.surfaceIDs = IF a.retain = 0 THEN a.surfaceIDs \cup {FreshID} ELSE a.surfaceIDs
      <4>1. CASE a.retain = 0
        <5>1. r = Recounted(a, 1, FreshID, a.surfaceIDs \cup {FreshID})
          BY <4>1 DEF Retained, Recounted
        <5>2. a.surfaceIDs \cup {FreshID} \in SUBSET SurfaceIDs /\ 0 + 1 = 1
          BY <3>1 DEF AccelType
        <5>3. /\ r \in AccelType /\ SameAccel(r, a) /\ r.retain = 1 /\ r.master = FreshID
              /\ r.surfaceIDs = a.surfaceIDs \cup {FreshID}
          <6>1. 1 \in Nat /\ FreshID \in SurfaceIDs \cup {INVALID}
            BY <3>1
          <6> HIDE DEF r
          <6> QED
            BY <5>1, <5>2, <6>1, RecountedFields
        <5> HIDE DEF r
        <5> QED
          BY <4>1, <5>2, <5>3
      <4>2. CASE a.retain # 0
        <5>1. r = [a EXCEPT !.retain = a.retain + 1] /\ a.retain + 1 \in Nat
          BY <4>2 DEF Retained, AccelType
        <5> QED
          BY <4>2, <5>1 DEF AccelType, SameAccel
      <4> QED
        BY <4>1, <4>2
    <3>3. b = Probed(memory, r)
      BY <1>4 DEF Start3D
    <3> HIDE DEF r, b
    <3> QED
      BY <3>2, <3>3 DEF Probed, AccelType, SameAccel
  <2>2. b.retain = Cardinality(Masters \cup {s}) /\ b.retain # 0
    <3>1. a.retain = Cardinality(Masters) /\ Cardinality(Masters) \in Nat
      BY MastersFinite DEF MasterInv, MasterCounts
    <3>2. Cardinality(Masters \cup {s}) = Cardinality(Masters) + 1
      BY MastersFinite
    <3> QED
      BY <2>1, <3>1, <3>2
  <2>3. CASE accel.retain = 0
    <3>1. e = DefinedAs(d, FreshID, device.mode)
      BY <1>2, <1>4, <2>3
    <3>2. FreshID \in IDs /\ device.mode \in Sizes /\ device.mode # NONE /\ FreshID # INVALID
      BY Numbers, SizesNotNone DEF IDs, TypeOK, DeviceType, SurfaceIDs, INVALID
    <3>3. /\ e \in DeviceType /\ e.defined[FreshID] = device.mode
          /\ \A i \in IDs \ {FreshID} : e.defined[i] = d.defined[i]
          /\ SameDevice(e, d)
      BY <1>1, <3>1, <3>2, DefinedAsFields DEF SameDevice
    <3>4. b.master = FreshID /\ b.surfaceIDs = {FreshID}
      BY <2>1, <2>3 DEF MasterInv, MasterCounts
    <3>5. {i \in IDs : e.defined[i] # NONE} = {FreshID}
      <4>1. {i \in IDs : device.defined[i] # NONE} = {}
        BY <2>3 DEF MasterInv, MasterCounts, IDs
      <4> QED
        BY <1>1, <3>2, <3>3, <4>1
    <3>6. e.mode = device.mode
      BY <1>1, <3>3 DEF SameDevice
    <3>7. MasterCounts(b, e, Masters \cup {s})
      BY <2>2, <3>2, <3>3, <3>4, <3>5, <3>6 DEF MasterCounts, IDs
    <3> QED
      BY <1>4, <2>1, <3>3, <3>7
  <2>4. CASE accel.retain # 0
    <3>1. e = d
      BY <1>2, <2>4
    <3>2. b.master = accel.master /\ b.surfaceIDs = accel.surfaceIDs
      BY <2>1, <2>4
    <3>3. /\ accel.master # INVALID /\ accel.surfaceIDs = {accel.master} \ {INVALID}
          /\ {i \in SurfaceIDs \cup {ProbeID} : d.defined[i] # NONE} = accel.surfaceIDs
          /\ d.defined[accel.master] = d.mode
      BY <1>1, <2>4 DEF MasterInv, MasterCounts
    <3>4. MasterCounts(b, d, Masters \cup {s})
      BY <2>2, <3>2, <3>3 DEF MasterCounts
    <3> QED
      BY <1>1, <1>4, <2>1, <3>1, <3>4 DEF SameDevice
  <2> QED
    BY <2>3, <2>4
<1> QED
  BY <1>3, <1>4

(* Cleanup3D counts one user less, and the last one takes it away.         *)
LEMMA CleanedUp ==
  ASSUME TypeOK, MasterInv, NEW s \in Surfaces
  PROVE  /\ CleanedUp3D(s) \in AccelType
         /\ After(device, Cleanup3DCommands(s)) \in DeviceType
         /\ SameAccel(CleanedUp3D(s), accel)
         /\ SameDevice(After(device, Cleanup3DCommands(s)), device)
         /\ MasterCounts(CleanedUp3D(s), After(device, Cleanup3DCommands(s)), Masters \ {s})
         /\ Cleanup3DCommands(s) \in Seq(CommandType)
<1> DEFINE b == CleanedUp3D(s)
           e == After(device, Cleanup3DCommands(s))
<1>1. device \in DeviceType /\ accel \in AccelType
  BY DEF TypeOK
<1>2. CASE surf[s].front # "master"
  <2>1. s \notin Masters /\ Masters \ {s} = Masters
    BY <1>2 DEF Masters
  <2>2. b = accel /\ e = device /\ Cleanup3DCommands(s) = <<>>
    BY <1>2, AfterNothing DEF CleanedUp3D, Cleanup3DCommands
  <2>3. MasterCounts(accel, device, Masters \ {s})
    BY <2>1 DEF MasterInv
  <2>4. SameAccel(accel, accel) /\ SameDevice(device, device) /\ <<>> \in Seq(CommandType)
    BY DEF SameAccel, SameDevice
  <2> QED
    BY <1>1, <2>2, <2>3, <2>4
<1>3. CASE surf[s].front = "master"
  <2>1. s \in Masters
    BY <1>3 DEF Masters
  <2>2. accel.retain = Cardinality(Masters) /\ accel.retain # 0 /\ accel.retain \in Nat
    BY <2>1, MastersFinite DEF MasterInv, MasterCounts
  <2>3. Cardinality(Masters \ {s}) = accel.retain - 1
    BY <2>1, <2>2, MastersFinite
  <2>4. b = Released /\ Cleanup3DCommands(s) = ReleaseCommands
    BY <1>3 DEF CleanedUp3D, Cleanup3DCommands
  <2>5. e = IF accel.retain = 1 THEN DefinedAs(device, accel.master, NONE) ELSE device
    BY <2>4, AfterRelease
  <2>6. /\ accel.master # INVALID /\ accel.surfaceIDs = {accel.master}
        /\ {i \in IDs : device.defined[i] # NONE} = {accel.master}
        /\ device.defined[accel.master] = device.mode
        /\ accel.master \in SurfaceIDs /\ accel.master \in IDs
    BY <1>1, <2>2 DEF MasterInv, MasterCounts, AccelType, IDs
  <2>7. Cleanup3DCommands(s) \in Seq(CommandType)
    <3>1. Destroy(accel.master) \in CommandType
      BY <2>6 DEF CommandType
    <3> QED
      BY <2>4, <3>1 DEF ReleaseCommands
  <2>8. CASE accel.retain = 1
    <3>1. /\ b \in AccelType /\ SameAccel(b, accel)
          /\ b.retain = 0 /\ b.master = INVALID /\ b.surfaceIDs = {}
      <4>1. b = Recounted(accel, 0, INVALID, accel.surfaceIDs \ {accel.master})
        BY <2>4, <2>8 DEF Released, Recounted
      <4>2. accel.surfaceIDs \ {accel.master} = {} /\ {} \in SUBSET SurfaceIDs
        BY <2>6
      <4>3. 0 \in Nat /\ INVALID \in SurfaceIDs \cup {INVALID}
        OBVIOUS
      <4> HIDE DEF b
      <4> QED
        BY <1>1, <4>1, <4>2, <4>3, RecountedFields
    <3>2. NONE \in Sizes
      BY SizesNotNone
    <3>3. /\ e \in DeviceType /\ SameDevice(e, device)
          /\ e.defined[accel.master] = NONE
          /\ \A i \in IDs \ {accel.master} : e.defined[i] = device.defined[i]
      BY <1>1, <2>5, <2>6, <2>8, <3>2, DefinedAsFields DEF SameDevice
    <3>4. {i \in IDs : e.defined[i] # NONE} = {}
      BY <2>6, <3>3
    <3>5. MasterCounts(b, e, Masters \ {s})
      BY <2>3, <2>8, <3>1, <3>4 DEF MasterCounts, IDs
    <3> QED
      BY <2>7, <3>1, <3>3, <3>5
  <2>9. CASE accel.retain # 1
    <3>1. accel.retain > 1
      BY <2>2, <2>9
    <3>2. /\ b \in AccelType /\ SameAccel(b, accel)
          /\ b.retain = accel.retain - 1 /\ b.master = accel.master
          /\ b.surfaceIDs = accel.surfaceIDs
      <4>1. accel.retain - 1 \in Nat /\ b = [accel EXCEPT !.retain = @ - 1]
        BY <2>2, <2>4, <2>9, <3>1 DEF Released
      <4> QED
        BY <1>1, <4>1 DEF AccelType, SameAccel
    <3>3. e = device
      BY <2>5, <2>9
    <3>4. b.retain # 0
      BY <2>2, <2>9, <3>2
    <3>5. MasterCounts(b, device, Masters \ {s})
      BY <2>3, <2>6, <3>2, <3>4 DEF MasterCounts, IDs
    <3> QED
      BY <1>1, <2>7, <3>2, <3>3, <3>5 DEF SameDevice
  <2> QED
    BY <2>8, <2>9
<1> QED
  BY <1>2, <1>3

-----------------------------------------------------------------------------
(* What a flush does to the device: nothing that stays                     *)

(* Of the auxiliary surfaces none is left.                                 *)
LEMMA AfterCopies ==
  ASSUME TypeOK, MasterInv
  PROVE  /\ accel.retain # 0 => /\ After(device, DMAOutDirect) = device
                                /\ After(device, DMAOutWithCopy) = device
                                /\ After(device, DMAOutStretchWithCopy) = device
         /\ device.screen = device.mode => After(device, ScreenObjectOutVia3D) = device
<1> DEFINE F == FreshID
           N == NextID
           M == accel.master
           p == DefinedAs(device, F, "buffer")
           q == DefinedAs(p, N, "bounds")
           r == DefinedAs(device, N, "bounds")
<1>1. /\ F \in IDs /\ N \in IDs /\ F # N
      /\ device.defined[F] = NONE /\ device.defined[N] = NONE
  BY Numbers DEF IDs
<1>2. device \in DeviceType /\ NONE \in Sizes /\ "buffer" \in Sizes /\ "bounds" \in Sizes
      /\ "buffer" # NONE /\ "bounds" # NONE
  BY SizesNotNone DEF TypeOK
<1>3. /\ p \in DeviceType /\ p.defined[F] = "buffer"
      /\ \A i \in IDs \ {F} : p.defined[i] = device.defined[i]
      /\ p.mode = device.mode /\ p.screen = device.screen
  BY <1>1, <1>2, DefinedAsFields
<1>4. /\ q \in DeviceType /\ q.defined[N] = "bounds"
      /\ \A i \in IDs \ {N} : q.defined[i] = p.defined[i]
  <2> HIDE DEF p
  <2> QED
    BY <1>1, <1>2, <1>3, DefinedAsFields
<1>5. /\ r \in DeviceType /\ r.defined[N] = "bounds"
      /\ \A i \in IDs \ {N} : r.defined[i] = device.defined[i]
  BY <1>1, <1>2, DefinedAsFields
<1>6. DefinedAs(p, F, NONE) = device /\ DefinedAs(r, N, NONE) = device
  BY <1>1, <1>2, DefinedAndDestroyed
<1>7. DefinedAs(q, F, NONE) = r
  BY <1>1, <1>2, DestroyedInBetween
<1>8. /\ Execute(device, Define(F, "buffer")) = p
      /\ Execute(p, Use(F)) = p /\ Execute(p, Destroy(F)) = device
  <2>1. Execute(device, Define(F, "buffer")) = p
    BY <1>1, ExecuteDefine
  <2> HIDE DEF p, F
  <2> QED
    BY <1>2, <1>3, <1>6, <2>1, ExecuteKnown
<1>9. /\ Execute(p, Define(N, "bounds")) = q /\ Execute(q, Use(F)) = q
      /\ Execute(q, Use(N)) = q /\ Execute(q, Destroy(F)) = r
  <2> HIDE DEF p, F, N
  <2>1. p.defined[N] = NONE /\ q.defined[F] # NONE /\ q.defined[N] # NONE
    BY <1>1, <1>2, <1>3, <1>4
  <2>2. Execute(p, Define(N, "bounds")) = q
    BY <2>1, ExecuteDefine
  <2> HIDE DEF q
  <2> QED
    BY <1>7, <2>1, <2>2, ExecuteKnown
<1>10. /\ Execute(r, Use(N)) = r /\ Execute(r, Destroy(N)) = device
  <2> HIDE DEF r, N
  <2> QED
    BY <1>2, <1>5, <1>6, ExecuteKnown
<1>11. ASSUME accel.retain # 0
       PROVE  /\ device.defined[M] # NONE /\ M \in IDs \ {F, N}
              /\ Execute(device, Use(M)) = device
              /\ Execute(p, Use(M)) = p /\ Execute(r, Use(M)) = r
  <2>1. device.defined[M] # NONE /\ M \in IDs
    <3>1. M \in SurfaceIDs \cup {INVALID} /\ M # INVALID
      BY <1>11 DEF MasterInv, MasterCounts, TypeOK, AccelType
    <3>2. device.defined[M] = device.mode /\ device.mode # NONE
      BY <1>2, <1>11, SizesNotNone DEF MasterInv, MasterCounts, DeviceType
    <3> QED
      BY <3>1, <3>2 DEF IDs
  <2>2. M # F /\ M # N
    BY <1>1, <2>1
  <2>3. p.defined[M] # NONE /\ r.defined[M] # NONE
    BY <1>3, <1>5, <2>1, <2>2
  <2> HIDE DEF p, r, M, F, N
  <2> QED
    BY <2>1, <2>2, <2>3, ExecuteKnown
<1> HIDE DEF p, q, r, M, F, N
<1>12. ASSUME accel.retain # 0
       PROVE  After(device, DMAOutDirect) = device
  BY <1>11, <1>12, AfterOne DEF DMAOutDirect, M
<1>13. ASSUME accel.retain # 0
       PROVE  After(device, DMAOutWithCopy) = device
  <2>1. DMAOutWithCopy = <<Define(F, "buffer"), Use(F), Use(F), Use(M), Destroy(F)>>
    BY DEF DMAOutWithCopy, F, M
  <2>2. After(device, DMAOutWithCopy) =
          Execute(Execute(Execute(Execute(Execute(device, Define(F, "buffer")),
            Use(F)), Use(F)), Use(M)), Destroy(F))
    BY <2>1, AfterFive
  <2> QED
    BY <1>8, <1>11, <1>13, <2>2
<1>14. ASSUME accel.retain # 0
       PROVE  After(device, DMAOutStretchWithCopy) = device
  <2>1. DMAOutStretchWithCopy =
          <<Define(F, "buffer"), Use(F), Define(N, "bounds"), Use(F), Use(N), Destroy(F),
            Use(N), Use(M), Destroy(N)>>
    BY DEF DMAOutStretchWithCopy, F, N, M
  <2>2. After(device, <<Define(F, "buffer"), Use(F), Define(N, "bounds"), Use(F), Use(N)>>) =
          Execute(Execute(Execute(Execute(Execute(device, Define(F, "buffer")),
            Use(F)), Define(N, "bounds")), Use(F)), Use(N))
    BY AfterFive
  <2>3. After(device, <<Define(F, "buffer"), Use(F), Define(N, "bounds"), Use(F), Use(N)>>) = q
    BY <1>8, <1>9, <2>2
  <2>4. After(device, DMAOutStretchWithCopy) =
          Execute(Execute(Execute(Execute(
            After(device, <<Define(F, "buffer"), Use(F), Define(N, "bounds"), Use(F), Use(N)>>),
            Destroy(F)), Use(N)), Use(M)), Destroy(N))
    BY <2>1, AfterNine
  <2> QED
    BY <1>9, <1>10, <1>11, <1>14, <2>3, <2>4
<1>15. ASSUME device.screen = device.mode
       PROVE  After(device, ScreenObjectOutVia3D) = device
  <2>1. ScreenObjectOutVia3D =
          <<Define(F, "buffer"), Use(F), Use(F), UseScreen, Destroy(F)>>
    BY DEF ScreenObjectOutVia3D, F
  <2>2. Execute(p, UseScreen) = p
    BY <1>3, <1>15, ExecuteUseScreen
  <2>3. After(device, ScreenObjectOutVia3D) =
          Execute(Execute(Execute(Execute(Execute(device, Define(F, "buffer")),
            Use(F)), Use(F)), UseScreen), Destroy(F))
    BY <2>1, AfterFive
  <2> QED
    BY <1>8, <2>2, <2>3
<1> QED
  BY <1>12, <1>13, <1>14, <1>15

(* Once the WindowServer has its own surface, or needs none, the screen    *)
(* that a surface draws to is as large as the display.                     *)
LEMMA ScreenFits ==
  ASSUME ScreenInv, DeskReady, caps.screen
  PROVE  device.screen = device.mode
BY DEF ScreenInv, DeskReady

LEMMA AfterFlush ==
  ASSUME TypeOK, SurfInv, MasterInv, ScreenInv, DeskReady,
         NEW s \in Surfaces, NEW identity \in BOOLEAN
  PROVE  After(device, FlushCommands(surf[s], identity)) = device
<1> DEFINE t == surf[s]
<1>1. CASE t.front = "screen"
  <2>1. device.screen = device.mode
    <3>1. caps.screen
      BY <1>1 DEF SurfInv, FrontFound
    <3> QED
      BY <3>1, ScreenFits
  <2>2. FlushCommands(t, identity) \in {<<UseScreen>>, ScreenObjectOutVia3D, <<>>}
    BY <1>1 DEF FlushCommands
  <2>3. /\ After(device, <<UseScreen>>) = device
        /\ After(device, ScreenObjectOutVia3D) = device
        /\ After(device, <<>>) = device
    BY <2>1, AfterNothing, AfterOne, AfterCopies, ExecuteUseScreen
  <2> QED
    BY <2>2, <2>3
<1>2. CASE t.front = "master"
  <2>1. accel.retain # 0 /\ device.defined[accel.master] = device.mode
    <3>1. s \in Masters
      BY <1>2 DEF Masters
    <3> QED
      BY <3>1, MastersFinite DEF MasterInv, MasterCounts
  <2>2. PICK out \in {DMAOutStretchWithCopy, DMAOutDirect, DMAOutWithCopy} :
          FlushCommands(t, identity) = out \o <<Present(accel.master)>>
    BY <1>2 DEF FlushCommands
  <2>3. After(device, out) = device
    BY <2>1, AfterCopies
  <2>4. out \in Seq(CommandType) /\ <<Present(accel.master)>> \in Seq(CommandType)
    <3>1. /\ FreshID \in IDs /\ NextID \in IDs /\ accel.master \in IDs
          /\ "buffer" \in Sizes /\ "bounds" \in Sizes
      BY <2>1, Numbers, SizesNotNone DEF IDs, TypeOK, AccelType, MasterInv, MasterCounts
    <3>2. /\ Define(FreshID, "buffer") \in CommandType /\ Define(NextID, "bounds") \in CommandType
          /\ \A i \in {FreshID, NextID, accel.master} :
               Use(i) \in CommandType /\ Destroy(i) \in CommandType /\ Present(i) \in CommandType
      BY <3>1 DEF CommandType
    <3>3. /\ DMAOutStretchWithCopy \in Seq(CommandType)
          /\ DMAOutDirect \in Seq(CommandType)
          /\ DMAOutWithCopy \in Seq(CommandType)
      BY <3>2 DEF DMAOutStretchWithCopy, DMAOutDirect, DMAOutWithCopy
    <3> QED
      BY <3>2, <3>3
  <2>5. After(device, out \o <<Present(accel.master)>>) =
          After(After(device, out), <<Present(accel.master)>>)
    <3> DEFINE last == <<Present(accel.master)>>
    <3>1. last \in Seq(CommandType)
      BY <2>4
    <3> HIDE DEF last
    <3>2. After(device, out \o last) = After(After(device, out), last)
      BY <2>4, <3>1, AfterBoth
    <3> QED
      BY <3>2 DEF last
  <2>6. After(device, <<Present(accel.master)>>) = device
    BY <2>1, AfterOne, ExecutePresent
  <2> QED
    BY <2>2, <2>3, <2>5, <2>6
<1>3. CASE t.front = "none"
  BY <1>3, AfterNothing DEF FlushCommands
<1>4. t.front \in {"none", "screen", "master"}
  BY DEF TypeOK, SurfaceType
<1> QED
  BY <1>1, <1>2, <1>3, <1>4

(* copy_framebuffer_region_to_self reads what is there.                    *)
LEMMA CopyIsQuiet ==
  ASSUME TypeOK, SurfInv, MasterInv, ScreenInv, DeskReady,
         NEW s \in Surfaces, CopyFromFront(s)
  PROVE  device' = device
<1>1. CASE accel.primary # NONE
  <2>1. device.screen = device.mode
    BY <1>1, ScreenFits DEF ScreenInv
  <2> QED
    BY <1>1, <2>1, AfterOne, ExecuteUseScreen DEF CopyFromFront, Issue, After
<1>2. CASE accel.primary = NONE /\ surf[s].front = "master"
  <2>1. accel.retain # 0
    <3>1. s \in Masters
      BY <1>2 DEF Masters
    <3> QED
      BY <3>1, MastersFinite DEF MasterInv, MasterCounts
  <2>2. After(device, <<Use(accel.master)>>) = device
    BY <2>1, AfterCopies DEF DMAOutDirect
  <2> QED
    BY <1>2, <2>2 DEF CopyFromFront, Issue, After
<1>3. CASE accel.primary = NONE /\ surf[s].front # "master"
  BY <1>3 DEF CopyFromFront
<1> QED
  BY <1>1, <1>2, <1>3

-----------------------------------------------------------------------------
(* Every step keeps the invariant                                          *)

(* A step that changes surface s to x, and no other.                       *)
LEMMA OneSurface ==
  ASSUME TypeOK, SurfInv, NEW s \in Surfaces, NEW x \in SurfaceType,
         surf' = [surf EXCEPT ![s] = x], caps' = caps,
         ~x.open => x = Closed,
         x.front = IF x.open /\ ~x.bVideoMode THEN FrontFound ELSE "none",
         x.stream # NONE => x.bVideoMode,
         x.bVideoMode => s # Desk
  PROVE  /\ surf' \in [Surfaces -> SurfaceType]
         /\ SurfInv'
         /\ Masters' = IF x.front = "master" THEN Masters \cup {s} ELSE Masters \ {s}
         /\ surf'[s] = x
         /\ \A t \in Surfaces \ {s} : surf'[t] = surf[t]
<1>1. surf \in [Surfaces -> SurfaceType]
  BY DEF TypeOK
<1>2. surf' \in [Surfaces -> SurfaceType] /\ surf'[s] = x
  BY <1>1
<1>3. \A t \in Surfaces \ {s} : surf'[t] = surf[t]
  BY <1>1
<1>4. FrontFound' = FrontFound
  BY DEF FrontFound
<1>5. Masters' = IF x.front = "master" THEN Masters \cup {s} ELSE Masters \ {s}
  BY <1>2, <1>3 DEF Masters
<1>6. ASSUME NEW t \in Surfaces
      PROVE  /\ ~surf'[t].open => surf'[t] = Closed
             /\ surf'[t].front = IF surf'[t].open /\ ~surf'[t].bVideoMode
                                 THEN FrontFound' ELSE "none"
             /\ surf'[t].stream # NONE => surf'[t].bVideoMode
             /\ surf'[t].bVideoMode => t # Desk
  <2>1. CASE t = s
    BY <1>2, <1>4, <2>1
  <2>2. CASE t # s
    <3>1. surf'[t] = surf[t]
      BY <1>3, <2>2
    <3> QED
      BY <1>4, <3>1 DEF SurfInv
  <2> QED
    BY <2>1, <2>2
<1>7. SurfInv'
  BY <1>6 DEF SurfInv
<1> QED
  BY <1>2, <1>3, <1>5, <1>7

(* The overlay in such a step.  s is rid of its stream:                    *)
Elsewhere(s) == \A t \in Surfaces \ {s} : surf'[t] = surf[t]

LEMMA StreamStopped ==
  ASSUME TypeOK, OverlayOwned, NEW s \in Surfaces, Elsewhere(s), surf'[s].stream = NONE,
         lost' = lost, accel'.streams = accel.streams \ {surf[s].stream},
         device'.overlay = IF surf[s].stream # NONE
                           THEN [device.overlay EXCEPT ![surf[s].stream] = NONE]
                           ELSE device.overlay
  PROVE  OverlayOwned'
<1> DEFINE k == surf[s].stream
<1>1. \A t \in Surfaces : surf[t].stream \in Streams \cup {NONE} /\ surf[t].region \in Regions
  BY DEF TypeOK, SurfaceType
<1>2. NONE \notin Streams /\ NONE \notin Regions
  BY OutputAssumption DEF Regions
<1>3. Enabled' = Enabled \ {s} /\ \A t \in Enabled' : surf'[t] = surf[t]
  BY DEF Enabled, Elsewhere
<1>4. \A t \in Enabled' : t \in Enabled /\ surf[t].stream # k /\ surf[t].stream \in Streams
  BY <1>1, <1>3 DEF OverlayOwned, Enabled
<1>5. device.overlay \in [Streams -> Regions \cup {NONE}]
  BY DEF TypeOK, DeviceType
<1>6. k \notin lost
  BY <1>2 DEF TypeOK, OverlayOwned, Enabled
<1>7. \A i \in Streams \ {k} : device'.overlay[i] = device.overlay[i]
  BY <1>5
<1>8. k \in Streams => device'.overlay[k] = NONE
  BY <1>2, <1>5
<1>9. accel'.streams = {surf'[t].stream : t \in Enabled'} \cup lost'
  <2>1. accel.streams = {surf[t].stream : t \in Enabled} \cup lost
    BY DEF OverlayOwned
  <2>2. {surf'[t].stream : t \in Enabled'} = {surf[t].stream : t \in Enabled'}
    BY <1>3
  <2>3. {surf[t].stream : t \in Enabled'} = {surf[t].stream : t \in Enabled} \ {k}
    <3>1. \A t \in Enabled : surf[t].stream # k => t # s
      OBVIOUS
    <3> QED
      BY <1>3, <1>4, <3>1
  <2> QED
    BY <1>6, <2>1, <2>2, <2>3
<1>10. {i \in Streams : device'.overlay[i] # NONE} = accel'.streams
  <2>1. {i \in Streams : device.overlay[i] # NONE} = accel.streams
    BY DEF OverlayOwned
  <2> QED
    BY <1>7, <1>8, <2>1
<1>11. ASSUME NEW t \in Enabled'
       PROVE  /\ surf'[t].bVideoMode /\ surf'[t].stream \notin lost'
              /\ surf'[t].region \in {"none", device'.overlay[surf'[t].stream]}
  BY <1>3, <1>4, <1>7, <1>11 DEF OverlayOwned
<1>12. ASSUME NEW t \in Enabled', NEW u \in Enabled', surf'[t].stream = surf'[u].stream
       PROVE  t = u
  BY <1>3, <1>4, <1>12 DEF OverlayOwned
<1> QED
  BY <1>9, <1>10, <1>11, <1>12 DEF OverlayOwned

(* s forgets its stream:                                                   *)
LEMMA StreamForgotten ==
  ASSUME TypeOK, OverlayOwned, NEW s \in Surfaces, Elsewhere(s), surf'[s].stream = NONE,
         lost' = lost \cup ({surf[s].stream} \ {NONE}), accel'.streams = accel.streams,
         device'.overlay = device.overlay
  PROVE  OverlayOwned'
<1> DEFINE k == surf[s].stream
<1>1. Enabled' = Enabled \ {s} /\ \A t \in Enabled' : surf'[t] = surf[t]
  BY DEF Enabled, Elsewhere
<1>2. \A t \in Enabled' : t \in Enabled /\ surf[t].stream # k /\ surf[t].stream # NONE
  BY <1>1 DEF OverlayOwned, Enabled
<1>3. accel'.streams = {surf'[t].stream : t \in Enabled'} \cup lost'
  <2>1. accel.streams = {surf[t].stream : t \in Enabled} \cup lost
    BY DEF OverlayOwned
  <2>2. {surf'[t].stream : t \in Enabled'} = {surf[t].stream : t \in Enabled'}
    BY <1>1
  <2>3. {surf[t].stream : t \in Enabled} = {surf[t].stream : t \in Enabled'} \cup ({k} \ {NONE})
    BY <1>1 DEF Enabled
  <2> QED
    BY <2>1, <2>2, <2>3
<1>4. {i \in Streams : device'.overlay[i] # NONE} = accel'.streams
  BY DEF OverlayOwned
<1>5. ASSUME NEW t \in Enabled'
      PROVE  /\ surf'[t].bVideoMode /\ surf'[t].stream \notin lost'
             /\ surf'[t].region \in {"none", device'.overlay[surf'[t].stream]}
  BY <1>1, <1>2, <1>5 DEF OverlayOwned
<1>6. ASSUME NEW t \in Enabled', NEW u \in Enabled', surf'[t].stream = surf'[u].stream
      PROVE  t = u
  BY <1>1, <1>2, <1>6 DEF OverlayOwned
<1> QED
  BY <1>3, <1>4, <1>5, <1>6 DEF OverlayOwned

(* s gets another region, and its stream with it, or loses its region:     *)
LEMMA StreamMoved ==
  ASSUME TypeOK, OverlayOwned, NEW s \in Surfaces, Elsewhere(s),
         surf'[s].stream = surf[s].stream, surf'[s].bVideoMode = surf[s].bVideoMode,
         lost' = lost, accel'.streams = accel.streams,
         \/ /\ surf'[s].region \in {"none", surf[s].region}
            /\ device'.overlay = device.overlay
         \/ /\ surf'[s].region \in Regions
            /\ device'.overlay = IF surf[s].stream # NONE
                                 THEN [device.overlay EXCEPT ![surf[s].stream] = surf'[s].region]
                                 ELSE device.overlay
  PROVE  OverlayOwned'
<1> DEFINE k == surf[s].stream
<1>1. Enabled' = Enabled
  BY DEF Enabled, Elsewhere
<1>2. \A t \in Surfaces : surf'[t].stream = surf[t].stream /\ surf'[t].bVideoMode = surf[t].bVideoMode
  BY DEF Elsewhere
<1>3. \A t \in Enabled : t \in Surfaces /\ surf[t].stream \in Streams
  BY DEF TypeOK, SurfaceType, Enabled
<1>4. device.overlay \in [Streams -> Regions \cup {NONE}] /\ NONE \notin Regions
  BY OutputAssumption DEF TypeOK, DeviceType, Regions
<1>5. \A i \in Streams \ {k} : device'.overlay[i] = device.overlay[i]
  BY <1>4
<1>6. s \in Enabled =>
        /\ device'.overlay[k] # NONE <=> device.overlay[k] # NONE
        /\ surf'[s].region \in {"none", device'.overlay[k]}
  <2>1. s \in Enabled => k \in accel.streams /\ k \in Streams /\ k # NONE
    BY <1>3 DEF OverlayOwned, Enabled
  <2>2. s \in Enabled => device.overlay[k] # NONE /\ surf[s].region \in {"none", device.overlay[k]}
    BY <2>1 DEF OverlayOwned
  <2>3. CASE surf'[s].region \in {"none", surf[s].region} /\ device'.overlay = device.overlay
    BY <2>2, <2>3
  <2>4. CASE /\ surf'[s].region \in Regions
             /\ device'.overlay = IF surf[s].stream # NONE
                                  THEN [device.overlay EXCEPT ![surf[s].stream] = surf'[s].region]
                                  ELSE device.overlay
    <3>1. s \in Enabled => device'.overlay[k] = surf'[s].region
      BY <1>4, <2>1, <2>4
    <3> QED
      BY <1>4, <2>2, <2>4, <3>1
  <2> QED
    BY <2>3, <2>4
<1>7. {i \in Streams : device'.overlay[i] # NONE} = accel'.streams
  <2>1. {i \in Streams : device.overlay[i] # NONE} = accel.streams
    BY DEF OverlayOwned
  <2>2. s \notin Enabled => device'.overlay = device.overlay
    BY DEF Enabled
  <2> QED
    BY <1>5, <1>6, <2>1, <2>2
<1>8. {surf'[t].stream : t \in Enabled'} = {surf[t].stream : t \in Enabled}
  BY <1>1, <1>2, <1>3
<1>9. ASSUME NEW t \in Enabled'
      PROVE  surf'[t].region \in {"none", device'.overlay[surf'[t].stream]}
  <2>1. CASE t = s
    BY <1>1, <1>2, <1>6, <2>1
  <2>2. CASE t # s
    <3>1. surf[t].stream # k /\ surf[t].stream \in Streams
      BY <1>1, <1>3, <2>2 DEF OverlayOwned, Enabled
    <3>2. surf'[t] = surf[t] /\ surf[t].region \in {"none", device.overlay[surf[t].stream]}
      BY <1>1, <1>3, <2>2 DEF OverlayOwned, Elsewhere
    <3> QED
      BY <1>5, <3>1, <3>2
  <2> QED
    BY <2>1, <2>2
<1>10. ASSUME NEW t \in Enabled'
       PROVE  surf'[t].bVideoMode /\ surf'[t].stream \notin lost'
  BY <1>1, <1>2, <1>3 DEF OverlayOwned
<1>11. ASSUME NEW t \in Enabled', NEW u \in Enabled', surf'[t].stream = surf'[u].stream
       PROVE  t = u
  BY <1>1, <1>2, <1>3, <1>11 DEF OverlayOwned
<1> QED
  BY <1>7, <1>8, <1>9, <1>10, <1>11 DEF OverlayOwned

(* s gets a stream that is free:                                           *)
LEMMA StreamStarted ==
  ASSUME TypeOK, OverlayOwned, NEW s \in Surfaces, Elsewhere(s), surf[s].stream = NONE,
         NEW k \in Streams \ accel.streams,
         surf'[s].stream = k, surf'[s].bVideoMode, surf'[s].region = surf[s].region,
         lost' = lost, accel'.streams = accel.streams \cup {k},
         device'.overlay = [device.overlay EXCEPT ![k] = surf[s].region]
  PROVE  OverlayOwned'
<1>1. \A t \in Surfaces : surf[t].stream \in Streams \cup {NONE} /\ surf[t].region \in Regions
  BY DEF TypeOK, SurfaceType
<1>2. NONE \notin Streams /\ NONE \notin Regions
  BY OutputAssumption DEF Regions
<1>3. Enabled' = Enabled \cup {s} /\ s \notin Enabled /\ \A t \in Enabled : surf'[t] = surf[t]
  BY <1>2 DEF Enabled, Elsewhere
<1>4. \A t \in Enabled : t \in Surfaces /\ surf[t].stream # k /\ surf[t].stream \in Streams
  BY <1>1 DEF OverlayOwned, Enabled
<1>5. device.overlay \in [Streams -> Regions \cup {NONE}]
  BY DEF TypeOK, DeviceType
<1>6. /\ \A i \in Streams \ {k} : device'.overlay[i] = device.overlay[i]
      /\ device'.overlay[k] = surf[s].region /\ surf[s].region # NONE
  BY <1>1, <1>2, <1>5
<1>7. accel'.streams = {surf'[t].stream : t \in Enabled'} \cup lost'
  <2>1. accel.streams = {surf[t].stream : t \in Enabled} \cup lost
    BY DEF OverlayOwned
  <2>2. {surf'[t].stream : t \in Enabled'} = {surf'[t].stream : t \in Enabled} \cup {k}
    BY <1>3
  <2>3. {surf'[t].stream : t \in Enabled} = {surf[t].stream : t \in Enabled}
    BY <1>3
  <2> QED
    BY <2>1, <2>2, <2>3
<1>8. {i \in Streams : device'.overlay[i] # NONE} = accel'.streams
  <2>1. {i \in Streams : device.overlay[i] # NONE} = accel.streams
    BY DEF OverlayOwned
  <2> QED
    BY <1>6, <2>1
<1>9. k \notin lost
  BY DEF OverlayOwned
<1>10. ASSUME NEW t \in Enabled'
       PROVE  /\ surf'[t].bVideoMode /\ surf'[t].stream \notin lost'
              /\ surf'[t].region \in {"none", device'.overlay[surf'[t].stream]}
  <2>1. CASE t = s
    BY <1>6, <1>9, <2>1
  <2>2. CASE t # s
    BY <1>3, <1>4, <1>6, <2>2 DEF OverlayOwned
  <2> QED
    BY <2>1, <2>2
<1>11. ASSUME NEW t \in Enabled', NEW u \in Enabled', surf'[t].stream = surf'[u].stream
       PROVE  t = u
  BY <1>3, <1>4, <1>11 DEF OverlayOwned
<1> QED
  BY <1>7, <1>8, <1>10, <1>11 DEF OverlayOwned

(* VMsvga2Surface::start *)
LEMMA OpenKeeps ==
  ASSUME GAInv, NEW s \in Surfaces, NEW memory \in BOOLEAN, Open(s, memory)
  PROVE  OutputInv'
<1> DEFINE x == [Closed EXCEPT !.open = TRUE, !.front = FrontFound]
<1>1. TypeOK /\ SurfInv /\ MasterInv /\ ScreenInv /\ OverlayOwned
  BY DEF GAInv
<1>2. ~surf[s].open /\ surf[s] = Closed
  BY <1>1 DEF Open, SurfInv
<1>3. /\ x \in SurfaceType /\ x.open /\ x.front = FrontFound /\ ~x.bVideoMode
      /\ x.stream = NONE /\ x.region = "none" /\ ~x.bHaveID
  BY DEF SurfaceType, Closed, FrontFound, Regions
<1>4. surf' = [surf EXCEPT ![s] = x] /\ caps' = caps /\ lost' = lost
  BY DEF Open
<1>5. s \in Surfaces \ Masters
  BY <1>2 DEF Masters, Closed
<1> HIDE DEF x
<1>6. /\ surf' \in [Surfaces -> SurfaceType] /\ SurfInv'
      /\ Masters' = IF x.front = "master" THEN Masters \cup {s} ELSE Masters \ {s}
      /\ surf'[s] = x /\ \A t \in Surfaces \ {s} : surf'[t] = surf[t]
  BY <1>1, <1>3, <1>4, OneSurface
<1>7. Masters' = IF FrontFound = "master" THEN Masters \cup {s} ELSE Masters
  BY <1>3, <1>5, <1>6
<1>8. Alike(device) /\ accel \in AccelType
  BY <1>1 DEF Alike, TypeOK
<1>9. accel' = Start3D(memory, accel) /\ device' = After(device, Start3DCommands(memory))
  BY DEF Open, Issue, After
<1>10. /\ accel' \in AccelType /\ device' \in DeviceType
       /\ SameAccel(accel', accel) /\ SameDevice(device', device)
       /\ MasterCounts(accel', device', Masters')
  BY <1>1, <1>5, <1>7, <1>8, <1>9, Started
<1>11. MasterInv'
  BY <1>10 DEF MasterInv
<1>12. surf'[Desk].bHaveID => surf[Desk].bHaveID
  BY <1>3, <1>6, OutputAssumption
<1>13. ScreenInv'
  BY <1>1, <1>4, <1>10, <1>12 DEF ScreenInv, SameAccel, SameDevice
<1>14. OverlayOwned'
  <2>1. surf[s].stream = NONE /\ accel.streams \ {NONE} = accel.streams
    BY <1>1, <1>2, OutputAssumption DEF Closed, TypeOK, AccelType
  <2>2. surf'[s].stream = NONE /\ Elsewhere(s)
    BY <1>3, <1>6 DEF Elsewhere
  <2>3. accel'.streams = accel.streams \ {surf[s].stream} /\ device'.overlay = device.overlay
    BY <1>10, <2>1 DEF SameAccel, SameDevice
  <2> QED
    BY <1>1, <1>4, <2>1, <2>2, <2>3, StreamStopped
<1>15. caps' \in Caps /\ lost' \subseteq Streams
  BY <1>1, <1>4 DEF TypeOK
<1> QED
  BY <1>6, <1>10, <1>11, <1>13, <1>14, <1>15 DEF OutputInv

LEMMA VideoOffCommandType ==
  ASSUME TypeOK, NEW s \in Surfaces
  PROVE  VideoOffCommands(s) \in Seq(CommandType)
<1>1. surf[s].stream # NONE => Overlay(surf[s].stream, NONE) \in CommandType
  BY DEF TypeOK, SurfaceType, CommandType
<1> QED
  BY <1>1 DEF VideoOffCommands

(* VMsvga2Surface::clientClose *)
LEMMA CloseKeeps ==
  ASSUME GAInv, NEW s \in Surfaces, Close(s)
  PROVE  OutputInv'
<1> DEFINE x == Closed
           k == surf[s].stream
           a == CleanedUp3D(s)
           e == After(device, Cleanup3DCommands(s))
<1>1. TypeOK /\ SurfInv /\ MasterInv /\ ScreenInv /\ OverlayOwned
  BY DEF GAInv
<1>2. /\ x \in SurfaceType /\ ~x.open /\ x.front = "none" /\ ~x.bVideoMode
      /\ x.stream = NONE /\ ~x.bHaveID
  BY DEF SurfaceType, Closed, Regions
<1>3. surf' = [surf EXCEPT ![s] = x] /\ caps' = caps /\ lost' = lost
  BY DEF Close
<1> HIDE DEF x
<1>4. /\ surf' \in [Surfaces -> SurfaceType] /\ SurfInv'
      /\ Masters' = IF x.front = "master" THEN Masters \cup {s} ELSE Masters \ {s}
      /\ surf'[s] = x /\ \A t \in Surfaces \ {s} : surf'[t] = surf[t]
  BY <1>1, <1>2, <1>3, OneSurface DEF x
<1>5. Masters' = Masters \ {s}
  BY <1>2, <1>4
<1>6. /\ a \in AccelType /\ e \in DeviceType /\ SameAccel(a, accel) /\ SameDevice(e, device)
      /\ MasterCounts(a, e, Masters \ {s}) /\ Cleanup3DCommands(s) \in Seq(CommandType)
  BY <1>1, CleanedUp
<1>7. k \in Streams \cup {NONE}
  BY <1>1 DEF TypeOK, SurfaceType
<1>8. device' = IF k # NONE THEN Shown(e, k, NONE) ELSE e
  <2> DEFINE c == Cleanup3DCommands(s)
             v == VideoOffCommands(s)
  <2>1. device' = After(device, c \o v)
    BY DEF Close, Issue, After
  <2>2. c \in Seq(CommandType) /\ v \in Seq(CommandType)
    BY <1>1, <1>6, VideoOffCommandType
  <2>3. After(e, v) = IF k # NONE THEN Shown(e, k, NONE) ELSE e
    BY AfterVideoOff
  <2>4. After(device, c \o v) = After(After(device, c), v)
    <3> HIDE DEF c, v
    <3> QED
      BY <2>2, AfterBoth
  <2> QED
    BY <2>1, <2>3, <2>4
<1>9. accel' = [a EXCEPT !.streams = @ \ {k}]
  BY DEF Close, VideoOff
<1> HIDE DEF a, e
<1>10. /\ accel' \in AccelType /\ accel'.streams = accel.streams \ {k}
       /\ accel'.retain = a.retain /\ accel'.master = a.master
       /\ accel'.surfaceIDs = a.surfaceIDs /\ accel'.primary = accel.primary
  BY <1>6, <1>9 DEF AccelType, SameAccel
<1>11. /\ device' \in DeviceType /\ device'.mode = device.mode /\ device'.screen = device.screen
       /\ device'.defined = e.defined /\ e.mode = device.mode
       /\ device'.overlay = IF k # NONE THEN [device.overlay EXCEPT ![k] = NONE] ELSE device.overlay
  <2>1. CASE k # NONE
    <3>1. k \in Streams /\ device' = Shown(e, k, NONE)
      BY <1>7, <1>8, <2>1
    <3>2. device'.overlay = [e.overlay EXCEPT ![k] = NONE]
      BY <1>6, <3>1 DEF Shown, DeviceType
    <3> QED
      BY <1>6, <2>1, <3>1, <3>2, ShownFields DEF SameDevice
  <2>2. CASE k = NONE
    BY <1>6, <1>8, <2>2 DEF SameDevice
  <2> QED
    BY <2>1, <2>2
<1>12. MasterInv'
  BY <1>5, <1>6, <1>10, <1>11 DEF MasterInv, MasterCounts
<1>13. surf'[Desk].bHaveID => surf[Desk].bHaveID
  BY <1>2, <1>4, OutputAssumption
<1>14. ScreenInv'
  BY <1>1, <1>3, <1>10, <1>11, <1>13 DEF ScreenInv
<1>15. OverlayOwned'
  <2>1. surf'[s].stream = NONE /\ Elsewhere(s)
    BY <1>2, <1>4 DEF Elsewhere
  <2> QED
    BY <1>1, <1>3, <1>10, <1>11, <2>1, StreamStopped
<1>16. caps' \in Caps /\ lost' \subseteq Streams
  BY <1>1, <1>3 DEF TypeOK
<1> QED
  BY <1>4, <1>10, <1>11, <1>12, <1>14, <1>15, <1>16 DEF OutputInv

(* A surface that keeps its front buffer, its use and its stream: nothing  *)
(* changes for the master surface.                                         *)
LEMMA FrontKept ==
  ASSUME GAInv, NEW s \in Surfaces, NEW x \in SurfaceType,
         surf' = [surf EXCEPT ![s] = x], caps' = caps,
         x.open = surf[s].open, x.front = surf[s].front, x.bVideoMode = surf[s].bVideoMode,
         x.stream \in {NONE, surf[s].stream} \/ x.bVideoMode,
         ~x.open => x = Closed
  PROVE  /\ surf' \in [Surfaces -> SurfaceType]
         /\ SurfInv'
         /\ Masters' = Masters
         /\ surf'[s] = x
         /\ \A t \in Surfaces \ {s} : surf'[t] = surf[t]
<1>1. TypeOK /\ SurfInv
  BY DEF GAInv
<1>2. /\ x.front = IF x.open /\ ~x.bVideoMode THEN FrontFound ELSE "none"
      /\ x.stream # NONE => x.bVideoMode
      /\ x.bVideoMode => s # Desk
  BY <1>1 DEF SurfInv
<1>3. /\ surf' \in [Surfaces -> SurfaceType] /\ SurfInv'
      /\ Masters' = IF x.front = "master" THEN Masters \cup {s} ELSE Masters \ {s}
      /\ surf'[s] = x /\ \A t \in Surfaces \ {s} : surf'[t] = surf[t]
  BY <1>1, <1>2, OneSurface
<1>4. Masters' = Masters
  BY <1>3 DEF Masters
<1> QED
  BY <1>3, <1>4

(* VMsvga2Surface::set_id_mode *)
LEMMA SetIDModeKeeps ==
  ASSUME GAInv, NEW s \in Surfaces, NEW f \in {"X8R8G8B8", "other"}, SetIDMode(s, f)
  PROVE  OutputInv'
<1> DEFINE x == [surf[s] EXCEPT !.bHaveID = TRUE, !.format = f]
<1>1. TypeOK /\ SurfInv /\ MasterInv /\ ScreenInv /\ OverlayOwned
  BY DEF GAInv
<1>2. surf[s] \in SurfaceType /\ surf[s].open
  BY <1>1 DEF TypeOK, SetIDMode
<1>3. /\ x \in SurfaceType /\ x.open /\ x.front = surf[s].front /\ x.region = surf[s].region
      /\ x.stream = surf[s].stream /\ x.bVideoMode = surf[s].bVideoMode
  BY <1>2 DEF SurfaceType
<1>4. surf' = [surf EXCEPT ![s] = x] /\ caps' = caps /\ lost' = lost
  BY <1>1 DEF SetIDMode, TypeOK
<1> HIDE DEF x
<1>5. /\ surf' \in [Surfaces -> SurfaceType] /\ SurfInv' /\ Masters' = Masters
      /\ surf'[s] = x /\ \A t \in Surfaces \ {s} : surf'[t] = surf[t]
  BY <1>2, <1>3, <1>4, FrontKept
<1>6. accel \in AccelType /\ device \in DeviceType
  BY <1>1 DEF TypeOK
<1> DEFINE making == s = Desk /\ surf[s].front = "screen" /\ ~PrimaryFits(device.mode)
<1>7. /\ accel' \in AccelType /\ device' \in DeviceType /\ MasterInv' /\ ScreenInv'
      /\ accel'.streams = accel.streams /\ device'.overlay = device.overlay
  <2>1. CASE making
    <3>1. accel' = [accel EXCEPT !.primary = device.mode]
      BY <2>1 DEF SetIDMode
    <3>2. device' = [device EXCEPT !.screen = device.mode]
      <4>1. device' = After(device, <<Screen(device.mode)>>)
        BY <2>1 DEF SetIDMode, Issue, After
      <4>2. After(device, <<Screen(device.mode)>>) = Execute(device, Screen(device.mode))
        BY AfterOne
      <4>3. Execute(device, Screen(device.mode)) = [device EXCEPT !.screen = device.mode]
        BY ExecuteScreen
      <4> QED
        BY <4>1, <4>2, <4>3
    <3>3. device.mode \in Modes
      BY <1>6 DEF DeviceType
    <3>4. /\ accel' \in AccelType /\ accel'.streams = accel.streams
          /\ accel'.retain = accel.retain /\ accel'.master = accel.master
          /\ accel'.surfaceIDs = accel.surfaceIDs /\ accel'.primary = device.mode
      BY <1>6, <3>1, <3>3 DEF AccelType
    <3>5. /\ device' \in DeviceType /\ device'.mode = device.mode /\ device'.screen = device.mode
          /\ device'.defined = device.defined /\ device'.overlay = device.overlay
      BY <1>6, <3>2, <3>3 DEF DeviceType
    <3>6. MasterInv'
      BY <1>1, <1>5, <3>4, <3>5 DEF MasterInv, MasterCounts
    <3>7. caps.screen
      BY <1>1, <2>1 DEF SurfInv, FrontFound
    <3>8. ScreenInv'
      BY <1>4, <3>4, <3>5, <3>7 DEF ScreenInv
    <3> QED
      BY <3>4, <3>5, <3>6, <3>8
  <2>2. CASE ~making
    <3>1. accel' = accel /\ device' = device
      BY <2>2 DEF SetIDMode
    <3>2. MasterInv'
      BY <1>1, <1>5, <3>1 DEF MasterInv, MasterCounts
    <3>3. caps.screen /\ surf'[Desk].bHaveID => accel.primary = device.mode
      <4>1. CASE s = Desk
        <5>1. surf[s].front # "none"
          BY <4>1 DEF SetIDMode, haveFrontBuffer
        <5>2. caps.screen => surf[s].front = "screen"
          BY <1>1, <5>1 DEF SurfInv, FrontFound
        <5> QED
          BY <2>2, <4>1, <5>2 DEF PrimaryFits
      <4>2. CASE s # Desk
        <5>1. surf'[Desk] = surf[Desk]
          BY <1>5, <4>2, OutputAssumption
        <5> QED
          BY <1>1, <5>1 DEF ScreenInv
      <4> QED
        BY <4>1, <4>2
    <3>4. ScreenInv'
      BY <1>1, <1>4, <3>1, <3>3 DEF ScreenInv
    <3> QED
      BY <1>6, <3>1, <3>2, <3>4
  <2> QED
    BY <2>1, <2>2
<1>8. OverlayOwned'
  <2>1. Elsewhere(s) /\ surf'[s].stream = surf[s].stream
        /\ surf'[s].bVideoMode = surf[s].bVideoMode /\ surf'[s].region = surf[s].region
    BY <1>3, <1>5 DEF Elsewhere
  <2> QED
    BY <1>1, <1>4, <1>7, <2>1, StreamMoved
<1>9. caps' \in Caps /\ lost' \subseteq Streams
  BY <1>1, <1>4 DEF TypeOK
<1> QED
  BY <1>5, <1>7, <1>8, <1>9 DEF OutputInv

(* VMsvga2Surface::set_shape_backing_length_ext, when it succeeds and when *)
(* it does not: at most the overlay moves.                                 *)
LEMMA ShapeKeeps ==
  ASSUME GAInv, NEW s \in Surfaces, surf[s].open, NEW r \in Regions,
         surf' = [surf EXCEPT ![s].region = r],
         UNCHANGED <<caps, accel, lost>>,
         \/ r = "none" /\ device' = device
         \/ device' = After(device, ReshapeCommands(s, r))
  PROVE  OutputInv'
<1> DEFINE x == [surf[s] EXCEPT !.region = r]
           k == surf[s].stream
<1>1. TypeOK /\ SurfInv /\ MasterInv /\ ScreenInv /\ OverlayOwned
  BY DEF GAInv
<1>2. surf[s] \in SurfaceType
  BY <1>1 DEF TypeOK
<1>3. /\ x \in SurfaceType /\ x.open /\ x.front = surf[s].front /\ x.region = r
      /\ x.stream = k /\ x.bVideoMode = surf[s].bVideoMode /\ x.bHaveID = surf[s].bHaveID
  BY <1>2 DEF SurfaceType
<1>4. surf' = [surf EXCEPT ![s] = x] /\ caps' = caps /\ lost' = lost /\ accel' = accel
  BY <1>1 DEF TypeOK
<1> HIDE DEF x
<1>5. /\ surf' \in [Surfaces -> SurfaceType] /\ SurfInv' /\ Masters' = Masters
      /\ surf'[s] = x /\ \A t \in Surfaces \ {s} : surf'[t] = surf[t]
  BY <1>3, <1>4, FrontKept
<1>6. device \in DeviceType /\ k \in Streams \cup {NONE}
  BY <1>1, <1>2 DEF TypeOK, SurfaceType
<1>7. \/ r = "none" /\ device' = device
      \/ device' = IF k # NONE THEN Shown(device, k, r) ELSE device
  BY AfterReshape
<1>8. /\ device' \in DeviceType /\ device'.mode = device.mode /\ device'.screen = device.screen
      /\ device'.defined = device.defined
  <2>1. k # NONE => k \in Streams /\ r \in Regions \cup {NONE}
    BY <1>6
  <2> QED
    BY <1>6, <1>7, <2>1, ShownFields
<1>9. \/ r = "none" /\ device'.overlay = device.overlay
      \/ device'.overlay = IF k # NONE THEN [device.overlay EXCEPT ![k] = r] ELSE device.overlay
  <2>1. k # NONE => Shown(device, k, r).overlay = [device.overlay EXCEPT ![k] = r]
    BY <1>6 DEF Shown, DeviceType
  <2> QED
    BY <1>7, <2>1
<1>10. MasterInv'
  BY <1>1, <1>4, <1>5, <1>8 DEF MasterInv, MasterCounts
<1>11. surf'[Desk].bHaveID = surf[Desk].bHaveID
  BY <1>3, <1>5, OutputAssumption
<1>12. ScreenInv'
  BY <1>1, <1>4, <1>8, <1>11 DEF ScreenInv
<1>13. OverlayOwned'
  <2>1. Elsewhere(s) /\ surf'[s].stream = k /\ surf'[s].bVideoMode = surf[s].bVideoMode
        /\ surf'[s].region = r
    BY <1>3, <1>5 DEF Elsewhere
  <2> QED
    BY <1>1, <1>4, <1>9, <2>1, StreamMoved
<1>14. caps' \in Caps /\ lost' \subseteq Streams /\ accel' \in AccelType
  BY <1>1, <1>4 DEF TypeOK
<1> QED
  BY <1>5, <1>8, <1>10, <1>12, <1>13, <1>14 DEF OutputInv

(* context_set_surface, for video                                          *)
LEMMA SetVideoKeeps ==
  ASSUME GAInv, NEW s \in Surfaces, s # Desk, surf[s].open, SetVideo(s)
  PROVE  OutputInv'
<1> DEFINE x == [surf[s] EXCEPT !.bVideoMode = TRUE, !.stream = NONE,
                                !.format = "YUV", !.front = "none"]
<1>1. TypeOK /\ SurfInv /\ MasterInv /\ ScreenInv /\ OverlayOwned
  BY DEF GAInv
<1>2. surf[s] \in SurfaceType
  BY <1>1 DEF TypeOK
<1>3. /\ x \in SurfaceType /\ x.open /\ x.front = "none" /\ x.bVideoMode
      /\ x.stream = NONE /\ x.bHaveID = surf[s].bHaveID
  BY <1>2 DEF SurfaceType
<1>4. /\ surf' = [surf EXCEPT ![s] = x] /\ caps' = caps
      /\ lost' = lost \cup ({surf[s].stream} \ {NONE})
  BY <1>1 DEF SetVideo, TypeOK
<1> HIDE DEF x
<1>5. /\ surf' \in [Surfaces -> SurfaceType] /\ SurfInv'
      /\ Masters' = IF x.front = "master" THEN Masters \cup {s} ELSE Masters \ {s}
      /\ surf'[s] = x /\ \A t \in Surfaces \ {s} : surf'[t] = surf[t]
  BY <1>1, <1>3, <1>4, OneSurface
<1>6. accel' = CleanedUp3D(s) /\ device' = After(device, Cleanup3DCommands(s))
  BY DEF SetVideo, Issue, After
<1>7. /\ accel' \in AccelType /\ device' \in DeviceType
      /\ SameAccel(accel', accel) /\ SameDevice(device', device)
      /\ MasterCounts(accel', device', Masters \ {s})
  BY <1>1, <1>6, CleanedUp
<1>8. MasterInv'
  BY <1>3, <1>5, <1>7 DEF MasterInv
<1>9. surf'[Desk].bHaveID = surf[Desk].bHaveID
  BY <1>3, <1>5, OutputAssumption
<1>10. ScreenInv'
  BY <1>1, <1>4, <1>7, <1>9 DEF ScreenInv, SameAccel, SameDevice
<1>11. OverlayOwned'
  <2>1. Elsewhere(s) /\ surf'[s].stream = NONE
    BY <1>3, <1>5 DEF Elsewhere
  <2>2. accel'.streams = accel.streams /\ device'.overlay = device.overlay
    BY <1>7 DEF SameAccel, SameDevice
  <2> QED
    BY <1>1, <1>4, <2>1, <2>2, StreamForgotten
<1>12. caps' \in Caps /\ lost' \subseteq Streams
  BY <1>1, <1>2, <1>4 DEF TypeOK, SurfaceType
<1> QED
  BY <1>5, <1>7, <1>8, <1>10, <1>11, <1>12 DEF OutputInv

(* context_set_surface, for anything else                                  *)
LEMMA SetPlainKeeps ==
  ASSUME GAInv, NEW s \in Surfaces, surf[s].open, NEW bgra \in BOOLEAN,
         NEW memory \in BOOLEAN, SetPlain(s, bgra, memory)
  PROVE  OutputInv'
<1> DEFINE t == surf[s]
           k == surf[s].stream
           x == [surf[s] EXCEPT !.bVideoMode = FALSE, !.stream = NONE,
                   !.format = IF bgra THEN "other" ELSE @,
                   !.front = IF haveFrontBuffer(surf[s]) THEN @ ELSE FrontFound]
           d == After(device, VideoOffCommands(s))
           a == VideoOff(s, accel)
<1>1. TypeOK /\ SurfInv /\ MasterInv /\ ScreenInv /\ OverlayOwned
  BY DEF GAInv
<1>2. t \in SurfaceType /\ k \in Streams \cup {NONE}
  BY <1>1 DEF TypeOK, SurfaceType
<1>3. haveFrontBuffer(t) => t.front = FrontFound
  BY <1>1 DEF SurfInv, haveFrontBuffer
<1>4. /\ x \in SurfaceType /\ x.open /\ x.front = FrontFound /\ ~x.bVideoMode
      /\ x.stream = NONE /\ x.bHaveID = t.bHaveID
  <2>1. FrontFound \in {"none", "screen", "master"}
    BY DEF FrontFound
  <2> QED
    BY <1>2, <1>3, <2>1 DEF SurfaceType
<1>5. surf' = [surf EXCEPT ![s] = x] /\ caps' = caps /\ lost' = lost
  BY <1>1 DEF SetPlain, TypeOK
<1> HIDE DEF x
<1>6. /\ surf' \in [Surfaces -> SurfaceType] /\ SurfInv'
      /\ Masters' = IF x.front = "master" THEN Masters \cup {s} ELSE Masters \ {s}
      /\ surf'[s] = x /\ \A u \in Surfaces \ {s} : surf'[u] = surf[u]
  BY <1>1, <1>4, <1>5, OneSurface
<1>7. /\ d \in DeviceType /\ d.mode = device.mode /\ d.screen = device.screen
      /\ d.defined = device.defined
      /\ d.overlay = IF k # NONE THEN [device.overlay EXCEPT ![k] = NONE] ELSE device.overlay
  <2>1. device \in DeviceType
    BY <1>1 DEF TypeOK
  <2>2. d = IF k # NONE THEN Shown(device, k, NONE) ELSE device
    BY AfterVideoOff
  <2>3. CASE k # NONE
    <3>1. Shown(device, k, NONE).overlay = [device.overlay EXCEPT ![k] = NONE]
      BY <2>1 DEF Shown, DeviceType
    <3>2. d = Shown(device, k, NONE) /\ k \in Streams
      BY <1>2, <2>2, <2>3
    <3> HIDE DEF d
    <3> QED
      BY <2>1, <2>3, <3>1, <3>2, ShownFields
  <2>4. CASE k = NONE
    <3>1. d = device
      BY <2>2, <2>4
    <3> HIDE DEF d
    <3> QED
      BY <2>1, <2>4, <3>1
  <2> QED
    BY <2>3, <2>4
<1>8. /\ a \in AccelType /\ a.streams = accel.streams \ {k}
      /\ a.retain = accel.retain /\ a.master = accel.master
      /\ a.surfaceIDs = accel.surfaceIDs /\ a.primary = accel.primary
  BY <1>1 DEF TypeOK, AccelType, VideoOff
<1>9. /\ accel' \in AccelType /\ device' \in DeviceType
      /\ SameAccel(accel', a) /\ SameDevice(device', d)
      /\ MasterCounts(accel', device', Masters')
  <2>1. CASE haveFrontBuffer(t)
    <3>1. accel' = a /\ device' = d
      BY <2>1 DEF SetPlain, Issue, After
    <3>2. Masters' = Masters
      BY <1>3, <1>4, <1>6, <2>1 DEF Masters
    <3> HIDE DEF a, d
    <3>3. MasterCounts(a, d, Masters)
      BY <1>1, <1>7, <1>8 DEF MasterInv, MasterCounts
    <3> QED
      BY <1>7, <1>8, <3>1, <3>2, <3>3 DEF SameAccel, SameDevice
  <2>2. CASE ~haveFrontBuffer(t)
    <3>1. s \in Surfaces \ Masters
      BY <2>2 DEF Masters, haveFrontBuffer
    <3>2. Masters' = IF FrontFound = "master" THEN Masters \cup {s} ELSE Masters
      BY <1>4, <1>6, <3>1
    <3>3. accel' = Start3D(memory, a)
      BY <2>2 DEF SetPlain
    <3>4. device' = After(d, Start3DCommands(memory))
      <4> DEFINE v == VideoOffCommands(s)
                 c == Start3DCommands(memory)
      <4>1. device' = After(device, v \o c)
        BY <2>2 DEF SetPlain, Issue, After
      <4>2. v \in Seq(CommandType) /\ c \in Seq(CommandType)
        BY <1>1, VideoOffCommandType, StartCommandTypes
      <4>3. After(device, v \o c) = After(After(device, v), c)
        <5> HIDE DEF v, c
        <5> QED
          BY <4>2, AfterBoth
      <4> QED
        BY <4>1, <4>3
    <3>5. Alike(d)
      BY <1>7 DEF Alike
    <3> HIDE DEF a, d
    <3> QED
      BY <1>1, <1>8, <3>1, <3>2, <3>3, <3>4, <3>5, Started
  <2> QED
    BY <2>1, <2>2
<1> HIDE DEF a, d
<1>10. MasterInv'
  BY <1>9 DEF MasterInv
<1>11. surf'[Desk].bHaveID = surf[Desk].bHaveID
  BY <1>4, <1>6, OutputAssumption
<1>12. ScreenInv'
  BY <1>1, <1>5, <1>7, <1>8, <1>9, <1>11 DEF ScreenInv, SameAccel, SameDevice
<1>13. OverlayOwned'
  <2>1. Elsewhere(s) /\ surf'[s].stream = NONE
    BY <1>4, <1>6 DEF Elsewhere
  <2>2. /\ accel'.streams = accel.streams \ {k}
        /\ device'.overlay = IF k # NONE THEN [device.overlay EXCEPT ![k] = NONE]
                             ELSE device.overlay
    BY <1>7, <1>8, <1>9 DEF SameAccel, SameDevice
  <2> QED
    BY <1>1, <1>5, <2>1, <2>2, StreamStopped
<1>14. caps' \in Caps /\ lost' \subseteq Streams
  BY <1>1, <1>5 DEF TypeOK
<1> QED
  BY <1>6, <1>9, <1>10, <1>12, <1>13, <1>14 DEF OutputInv

(* VMsvga2Surface::surface_flush_video *)
LEMMA FlushVideoKeeps ==
  ASSUME GAInv, NEW s \in Surfaces, FlushVideo(s)
  PROVE  OutputInv'
<1> DEFINE k == Lowest(FreeStreams)
           r == surf[s].region
           x == [surf[s] EXCEPT !.stream = k]
<1>1. TypeOK /\ SurfInv /\ MasterInv /\ ScreenInv /\ OverlayOwned
  BY DEF GAInv
<1>2. surf[s] \in SurfaceType /\ surf[s].stream = NONE /\ surf[s].bVideoMode
  BY <1>1 DEF TypeOK, FlushVideo
<1>3. surf[s].open /\ r \in Regions
  BY <1>1, <1>2 DEF SurfInv, Closed, SurfaceType
<1>4. k \in Streams \ accel.streams
  <2>1. FreeStreams \subseteq Nat /\ FreeStreams # {}
    BY OutputAssumption DEF FreeStreams, FlushVideo
  <2>2. k \in FreeStreams
    <3>1. \E i \in FreeStreams : \A j \in FreeStreams : i <= j
      BY <2>1, LeastNat
    <3> QED
      BY <3>1 DEF Lowest
  <2> QED
    BY <2>2 DEF FreeStreams
<1> HIDE DEF k
<1>5. /\ x \in SurfaceType /\ x.open /\ x.front = surf[s].front /\ x.region = r
      /\ x.stream = k /\ x.bVideoMode /\ x.bHaveID = surf[s].bHaveID
  BY <1>2, <1>3, <1>4 DEF SurfaceType
<1>6. surf' = [surf EXCEPT ![s] = x] /\ caps' = caps /\ lost' = lost
  BY <1>1 DEF FlushVideo, TypeOK, k
<1> HIDE DEF x
<1>7. /\ surf' \in [Surfaces -> SurfaceType] /\ SurfInv' /\ Masters' = Masters
      /\ surf'[s] = x /\ \A t \in Surfaces \ {s} : surf'[t] = surf[t]
  BY <1>2, <1>3, <1>5, <1>6, FrontKept
<1>8. accel' = [accel EXCEPT !.streams = @ \cup {k}]
  BY DEF FlushVideo, k
<1>9. device' = Shown(device, k, r)
  <2>1. device' = After(device, <<Overlay(k, r)>>)
    BY DEF FlushVideo, Issue, After, k
  <2> QED
    BY <2>1, AfterOne, ExecuteOverlay
<1>10. /\ accel' \in AccelType /\ accel'.streams = accel.streams \cup {k}
       /\ accel'.retain = accel.retain /\ accel'.master = accel.master
       /\ accel'.surfaceIDs = accel.surfaceIDs /\ accel'.primary = accel.primary
  BY <1>1, <1>4, <1>8 DEF TypeOK, AccelType
<1>11. /\ device' \in DeviceType /\ device'.mode = device.mode /\ device'.screen = device.screen
       /\ device'.defined = device.defined
       /\ device'.overlay = [device.overlay EXCEPT ![k] = r]
  BY <1>1, <1>3, <1>4, <1>9 DEF TypeOK, DeviceType, Shown
<1>12. MasterInv'
  BY <1>1, <1>7, <1>10, <1>11 DEF MasterInv, MasterCounts
<1>13. surf'[Desk].bHaveID = surf[Desk].bHaveID
  BY <1>5, <1>7, OutputAssumption
<1>14. ScreenInv'
  BY <1>1, <1>6, <1>10, <1>11, <1>13 DEF ScreenInv
<1>15. OverlayOwned'
  <2>1. Elsewhere(s) /\ surf'[s].stream = k /\ surf'[s].bVideoMode /\ surf'[s].region = r
    BY <1>5, <1>7 DEF Elsewhere
  <2> QED
    BY <1>1, <1>2, <1>4, <1>6, <1>10, <1>11, <2>1, StreamStarted
<1>16. caps' \in Caps /\ lost' \subseteq Streams
  BY <1>1, <1>6 DEF TypeOK
<1> QED
  BY <1>7, <1>10, <1>11, <1>12, <1>14, <1>15, <1>16 DEF OutputInv

(* Flushes and copies: nothing changes, for the device neither.            *)
LEMMA QuietKeeps ==
  ASSUME GAInv, UNCHANGED vars
  PROVE  OutputInv'
<1>1. TypeOK /\ SurfInv /\ MasterInv /\ ScreenInv /\ OverlayOwned
  BY DEF GAInv
<1>2. caps' = caps /\ surf' = surf /\ accel' = accel /\ device' = device /\ lost' = lost
  BY DEF vars
<1>3. SurfInv' /\ ScreenInv'
  BY <1>1, <1>2 DEF SurfInv, ScreenInv, FrontFound
<1>4. Masters' = Masters /\ Enabled' = Enabled
  BY <1>2 DEF Masters, Enabled
<1>5. MasterInv' /\ OverlayOwned'
  BY <1>1, <1>2, <1>4 DEF MasterInv, MasterCounts, OverlayOwned
<1> QED
  BY <1>1, <1>2, <1>3, <1>5 DEF OutputInv, TypeOK

(* When the mode changes, nothing is left that is as large as the display. *)
LEMMA ModeChangeKeeps ==
  ASSUME GAInv, ModeChange
  PROVE  OutputInv'
<1>1. TypeOK /\ SurfInv /\ MasterInv /\ ScreenInv /\ OverlayOwned
  BY DEF GAInv
<1>2. PICK m \in Modes \ {device.mode} :
        /\ \A s \in Surfaces : surf[s].open => surf[s].bVideoMode
        /\ device' = [device EXCEPT !.mode = m]
  BY DEF ModeChange
<1>3. caps' = caps /\ surf' = surf /\ accel' = accel /\ lost' = lost
  BY DEF ModeChange
<1>4. /\ device' \in DeviceType /\ device'.mode = m /\ device'.screen = device.screen
      /\ device'.defined = device.defined /\ device'.overlay = device.overlay
  BY <1>1, <1>2 DEF TypeOK, DeviceType
<1>5. Masters = {} /\ Masters' = Masters /\ Enabled' = Enabled
  BY <1>1, <1>2, <1>3 DEF Masters, Enabled, SurfInv
<1>6. ~surf[Desk].bHaveID
  BY <1>1, <1>2, OutputAssumption DEF SurfInv, Closed
<1>7. SurfInv' /\ ScreenInv'
  BY <1>1, <1>3, <1>4, <1>6 DEF SurfInv, ScreenInv, FrontFound
<1>8. MasterInv'
  <2>1. accel.retain = 0
    BY <1>1, <1>5, FS_EmptySet DEF MasterInv, MasterCounts
  <2> QED
    BY <1>1, <1>3, <1>4, <1>5, <2>1 DEF MasterInv, MasterCounts
<1>9. OverlayOwned'
  BY <1>1, <1>3, <1>4, <1>5 DEF OverlayOwned
<1> QED
  BY <1>1, <1>3, <1>4, <1>7, <1>8, <1>9 DEF OutputInv, TypeOK

(* What is about the plug-in and its context, and not about the surfaces.  *)
PluginInv ==
  /\ context \in [target : BOOLEAN, client : Drawable]
  /\ ga \in [open : BOOLEAN, surface : Blits \cup {NONE}, ok : BOOLEAN, info : [Blits -> Drawable]]
  /\ DestinationAgreed
  /\ InstanceInv

LEMMA Halves == GAInv <=> OutputInv /\ PluginInv
BY DEF GAInv, OutputInv, PluginInv, TypeOK

LEMMA PluginUnchanged ==
  ASSUME GAInv, UNCHANGED <<context, ga>>
  PROVE  PluginInv'
BY Halves DEF PluginInv, DestinationAgreed, InstanceInv

(* A surface that answers to its ID has been opened.                       *)
LEMMA OpenWithID ==
  ASSUME SurfInv, NEW s \in Surfaces, surf[s].bHaveID
  PROVE  surf[s].open
BY DEF SurfInv, Closed

(* vmSetSurface: the plug-in changes its mind only with the context.       *)
LEMMA SetSurfaceKeeps ==
  ASSUME GAInv, ga.open, NEW b \in Blits, NEW s \in Surfaces \ {Desk},
         NEW f \in PixelFormats, vmSetSurface(b, s, f)
  PROVE  OutputInv' /\ PluginInv'
<1>1. TypeOK /\ SurfInv /\ PluginInv
  BY Halves DEF GAInv
<1>2. OutputInv'
  <2>1. CASE ~Accepted(s, f)
    <3>1. UNCHANGED vars
      BY <2>1 DEF vmSetSurface, set_surface
    <3> QED
      BY <3>1, QuietKeeps
  <2>2. CASE Accepted(s, f) /\ f = "YUV"
    <3>1. SetVideo(s) /\ surf[s].open
      BY <2>2 DEF vmSetSurface, set_surface, Accepted, Found
    <3> QED
      BY <3>1, SetVideoKeeps
  <2>3. CASE Accepted(s, f) /\ f # "YUV"
    <3>1. SetPlain(s, f = "BGRA", TRUE) /\ surf[s].open
      BY <2>3 DEF vmSetSurface, set_surface, Accepted, Found
    <3>2. (f = "BGRA") \in BOOLEAN /\ TRUE \in BOOLEAN
      OBVIOUS
    <3> QED
      BY <3>1, <3>2, SetPlainKeeps
  <2> QED
    BY <2>1, <2>2, <2>3
<1>3. context' = [target |-> TRUE, client |-> IF Found(s) THEN s ELSE NONE]
  BY DEF vmSetSurface, set_surface, Target
<1>4. ga' = [ga EXCEPT !.ok = Accepted(s, f),
                       !.surface = IF Accepted(s, f) THEN b ELSE ga.surface,
                       !.info = [ga.info EXCEPT ![b] = IF Accepted(s, f) THEN s ELSE ga.info[b]]]
  BY <1>1 DEF vmSetSurface, PluginInv
<1>5. s \in Drawable /\ NONE \in Drawable /\ b # NONE
  BY PluginAssumption DEF Drawable
<1>6. Accepted(s, f) \in BOOLEAN /\ (Accepted(s, f) => Found(s))
  BY DEF Accepted, Found
<1>7. context' \in [target : BOOLEAN, client : Drawable]
  BY <1>3, <1>5
<1>8. /\ ga'.open /\ ga'.ok = Accepted(s, f)
      /\ Accepted(s, f) => ga'.surface = b /\ ga'.info[b] = s
  BY <1>1, <1>4 DEF PluginInv
<1>9. ga' \in [open : BOOLEAN, surface : Blits \cup {NONE}, ok : BOOLEAN, info : [Blits -> Drawable]]
  BY <1>1, <1>4, <1>5, <1>6 DEF PluginInv
<1>10. DestinationAgreed' /\ InstanceInv'
  BY <1>3, <1>5, <1>6, <1>8 DEF DestinationAgreed, InstanceInv
<1> QED
  BY <1>2, <1>7, <1>9, <1>10 DEF PluginInv

(* The calls that only concern the destination.                            *)
LEMMA DestinationKeeps ==
  ASSUME GAInv, vmStart \/ vmStop \/ vmSetFramebuffer \/ vmFreeSurface
  PROVE  OutputInv' /\ PluginInv'
<1>1. PluginInv
  BY Halves
<1>2. OutputInv'
  <2>1. UNCHANGED vars
    BY DEF vmStart, vmStop, vmSetFramebuffer, vmFreeSurface
  <2> QED
    BY <2>1, QuietKeeps
<1>3. /\ Framebuffer \in [target : BOOLEAN, client : Drawable]
      /\ Stopped \in [open : BOOLEAN, surface : Blits \cup {NONE}, ok : BOOLEAN,
                      info : [Blits -> Drawable]]
      /\ Stopped.ok /\ Stopped.surface = NONE /\ ~Stopped.open
  BY DEF Framebuffer, Stopped, Drawable
<1>4. CASE vmStart
  <2>1. ga = Stopped /\ context' = context /\ ga' = [Stopped EXCEPT !.open = TRUE]
    BY <1>1, <1>4 DEF vmStart, PluginInv, InstanceInv
  <2>2. context = Framebuffer
    BY <1>1, <1>3, <2>1 DEF PluginInv, DestinationAgreed
  <2>3. /\ ga' \in [open : BOOLEAN, surface : Blits \cup {NONE}, ok : BOOLEAN,
                    info : [Blits -> Drawable]]
        /\ ga'.open /\ ga'.surface = NONE
    BY <1>3, <2>1 DEF Stopped
  <2> QED
    BY <1>2, <1>3, <2>1, <2>2, <2>3 DEF PluginInv, DestinationAgreed, InstanceInv
<1>5. CASE vmStop
  <2>1. ga' = Stopped /\ context' = Framebuffer
    BY <1>5 DEF vmStop
  <2> QED
    BY <1>2, <1>3, <2>1 DEF PluginInv, DestinationAgreed, InstanceInv
<1>6. CASE vmSetFramebuffer
  <2>1. ga.open /\ ga' = [ga EXCEPT !.surface = NONE, !.ok = TRUE] /\ context' = Framebuffer
    BY <1>6 DEF vmSetFramebuffer
  <2>2. /\ ga' \in [open : BOOLEAN, surface : Blits \cup {NONE}, ok : BOOLEAN,
                    info : [Blits -> Drawable]]
        /\ ga'.open /\ ga'.surface = NONE
    BY <1>1, <2>1 DEF PluginInv
  <2> QED
    BY <1>2, <1>3, <2>1, <2>2 DEF PluginInv, DestinationAgreed, InstanceInv
<1>7. CASE vmFreeSurface
  <2>1. PICK b \in Blits : ga.open /\ FreeSurface(b)
    BY <1>7 DEF vmFreeSurface
  <2>2. NONE \in Drawable
    BY DEF Drawable
  <2>3. CASE ga.surface # NONE
    <3>1. /\ ga' = [ga EXCEPT !.info = [ga.info EXCEPT ![b] = NONE], !.surface = NONE, !.ok = TRUE]
          /\ context' = Framebuffer
      BY <1>1, <2>1, <2>3 DEF FreeSurface, PluginInv
    <3>2. /\ ga' \in [open : BOOLEAN, surface : Blits \cup {NONE}, ok : BOOLEAN,
                      info : [Blits -> Drawable]]
          /\ ga'.open /\ ga'.surface = NONE
      BY <1>1, <2>1, <2>2, <3>1 DEF PluginInv
    <3> QED
      BY <1>2, <1>3, <3>1, <3>2 DEF PluginInv, DestinationAgreed, InstanceInv
  <2>4. CASE ga.surface = NONE
    <3>1. /\ ga' = [ga EXCEPT !.info = [ga.info EXCEPT ![b] = NONE]]
          /\ context' = context
      BY <1>1, <2>1, <2>4 DEF FreeSurface, PluginInv
    <3>2. /\ ga' \in [open : BOOLEAN, surface : Blits \cup {NONE}, ok : BOOLEAN,
                      info : [Blits -> Drawable]]
          /\ ga'.open /\ ga'.surface = NONE /\ ga'.ok = ga.ok
      BY <1>1, <2>1, <2>2, <2>4, <3>1 DEF PluginInv
    <3>3. ga.ok => context = Framebuffer
      BY <1>1, <2>4 DEF PluginInv, DestinationAgreed
    <3> QED
      BY <1>1, <1>2, <3>1, <3>2, <3>3 DEF PluginInv, DestinationAgreed, InstanceInv
  <2> QED
    BY <2>3, <2>4
<1> QED
  BY <1>4, <1>5, <1>6, <1>7

LEMMA InitGA ==
  ASSUME GAInit
  PROVE  GAInv
<1>1. /\ caps \in Caps /\ surf = [s \in Surfaces |-> Closed] /\ lost = {}
      /\ accel = [retain |-> 0, master |-> INVALID, surfaceIDs |-> {}, streams |-> {},
                  blitbug |-> "NotFound", primary |-> NONE]
  BY DEF GAInit, Init
<1>2. PICK m \in Modes :
        device = [mode |-> m,
                  defined |-> [i \in SurfaceIDs \cup {ProbeID} |-> NONE],
                  screen |-> NONE,
                  overlay |-> [k \in Streams |-> NONE],
                  stray |-> {}]
  BY DEF GAInit, Init
<1>3. surf \in [Surfaces -> SurfaceType]
  BY <1>1 DEF SurfaceType, Closed, Regions
<1>4. accel \in AccelType
  BY <1>1 DEF AccelType
<1>5. device \in DeviceType
  BY <1>2 DEF DeviceType, Sizes
<1>6. SurfInv
  BY <1>1 DEF SurfInv, Closed
<1>7. Masters = {} /\ Enabled = {}
  BY <1>1 DEF Masters, Enabled, Closed
<1>8. MasterInv
  BY <1>1, <1>2, <1>7, FS_EmptySet DEF MasterInv, MasterCounts
<1>9. ScreenInv
  BY <1>1, <1>2, OutputAssumption DEF ScreenInv, Closed
<1>10. OverlayOwned
  BY <1>1, <1>2, <1>7 DEF OverlayOwned
<1>11. OutputInv
  BY <1>1, <1>3, <1>4, <1>5, <1>6, <1>8, <1>9, <1>10 DEF OutputInv
<1>12. context = Framebuffer /\ ga = Stopped
  BY DEF GAInit
<1>13. PluginInv
  BY <1>12 DEF PluginInv, DestinationAgreed, InstanceInv, Framebuffer, Stopped, Drawable
<1> QED
  BY <1>11, <1>13, Halves

LEMMA StepKeeps ==
  ASSUME GAInv, [Next]_gaVars
  PROVE  GAInv'
<1> SUFFICES OutputInv' /\ PluginInv'
  BY DEF GAInv, OutputInv, PluginInv, TypeOK
<1>1. TypeOK /\ SurfInv /\ MasterInv /\ ScreenInv /\ PluginInv
  BY Halves DEF GAInv
<1>2. context.client \in Drawable
  BY <1>1 DEF PluginInv
<1>3. CASE WSOpen
  <2>1. PICK s \in Surfaces, memory \in BOOLEAN : Open(s, memory)
    BY <1>3 DEF WSOpen
  <2>2. UNCHANGED <<context, ga>>
    BY <1>3 DEF WSOpen
  <2> QED
    BY <2>1, <2>2, OpenKeeps, PluginUnchanged
<1>4. CASE WSClose
  <2>1. PICK s \in Surfaces : Close(s) /\ UNCHANGED <<context, ga>>
    BY <1>4 DEF WSClose
  <2> QED
    BY <2>1, CloseKeeps, PluginUnchanged
<1>5. CASE WSSetIDMode
  <2>1. PICK s \in Surfaces, f \in {"X8R8G8B8", "other"} :
          SetIDMode(s, f) /\ UNCHANGED <<context, ga>>
    BY <1>5 DEF WSSetIDMode
  <2> QED
    BY <2>1, SetIDModeKeeps, PluginUnchanged
<1>6. CASE WSSetShape
  <2>1. PICK s \in Surfaces, r \in Regions : SetShape(s, r) /\ UNCHANGED <<context, ga>>
    BY <1>6 DEF WSSetShape
  <2>2. "none" \in Regions
    BY DEF Regions
  <2>3. OutputInv'
    <3>1. CASE (r = "empty" /\ ~surf[s].bVideoMode) \/ ~surf[s].bHaveID
      BY <2>1, <2>2, <3>1, ShapeKeeps DEF SetShape
    <3>2. CASE ~((r = "empty" /\ ~surf[s].bVideoMode) \/ ~surf[s].bHaveID)
      BY <2>1, <3>2, ShapeKeeps DEF SetShape, Issue, After
    <3> QED
      BY <3>1, <3>2
  <2> QED
    BY <2>1, <2>3, PluginUnchanged
<1>7. CASE WSSetShapeFails
  <2>1. PICK s \in Surfaces : SetShapeFails(s) /\ UNCHANGED <<context, ga>>
    BY <1>7 DEF WSSetShapeFails
  <2>2. "none" \in Regions
    BY DEF Regions
  <2>3. OutputInv'
    BY <2>1, <2>2, ShapeKeeps DEF SetShapeFails
  <2> QED
    BY <2>1, <2>3, PluginUnchanged
<1>8. CASE WSFlush
  <2>1. PICK s \in Surfaces, identity \in BOOLEAN :
          DeskReady /\ Flush(s, identity) /\ UNCHANGED <<context, ga>>
    BY <1>8 DEF WSFlush
  <2>2. After(device, FlushCommands(surf[s], identity)) = device
    BY <1>1, <2>1, AfterFlush
  <2>3. UNCHANGED vars
    BY <2>1, <2>2 DEF Flush, Issue, After, vars
  <2> QED
    BY <2>1, <2>3, QuietKeeps, PluginUnchanged
<1>9. CASE ModeChange
  <2>1. UNCHANGED <<context, ga>>
    BY <1>9 DEF ModeChange
  <2> QED
    BY <1>9, <2>1, ModeChangeKeeps, PluginUnchanged
<1>10. CASE vmStart \/ vmStop \/ vmSetFramebuffer \/ vmFreeSurface
  BY <1>10, DestinationKeeps
<1>11. CASE vmAllocateSurface
  <2>1. PICK b \in Blits, s \in Surfaces \ {Desk}, f \in PixelFormats :
          ga.open /\ vmSetSurface(b, s, f)
    BY <1>11 DEF vmAllocateSurface
  <2> QED
    BY <2>1, SetSurfaceKeeps
<1>12. CASE vmSetDestination
  <2>1. PICK b \in Blits, f \in PixelFormats :
          ga.open /\ ga.info[b] # NONE /\ vmSetSurface(b, ga.info[b], f)
    BY <1>12 DEF vmSetDestination
  <2>2. ga.info[b] \in Surfaces \ {Desk}
    BY <1>1, <2>1 DEF PluginInv, Drawable
  <2> QED
    BY <2>1, <2>2, SetSurfaceKeeps
<1>13. CASE vmSwapSurface
  <2>1. context.client \in Surfaces /\ FlushVideo(context.client) /\ UNCHANGED <<context, ga>>
    BY <1>2, <1>13 DEF vmSwapSurface, Drawable
  <2> QED
    BY <2>1, FlushVideoKeeps, PluginUnchanged
<1>14. CASE vmCopyRegion
  <2>1. /\ context.client \in Surfaces /\ DeskReady
        /\ CopyFromFront(context.client) /\ UNCHANGED <<context, ga>>
    BY <1>2, <1>14 DEF vmCopyRegion, Drawable
  <2>2. device' = device
    BY <1>1, <2>1, CopyIsQuiet
  <2>3. UNCHANGED vars
    BY <2>1, <2>2 DEF CopyFromFront, vars
  <2> QED
    BY <2>1, <2>3, QuietKeeps, PluginUnchanged
<1>15. CASE UNCHANGED gaVars
  <2>1. UNCHANGED vars /\ UNCHANGED <<context, ga>>
    BY <1>15 DEF gaVars
  <2> QED
    BY <2>1, QuietKeeps, PluginUnchanged
<1> QED
  BY <1>3, <1>4, <1>5, <1>6, <1>7, <1>8, <1>9, <1>10, <1>11, <1>12, <1>13, <1>14, <1>15
  DEF Next

-----------------------------------------------------------------------------
(* The theorems                                                            *)

(* What the surfaces, the accelerator, the device, the context and the     *)
(* plug-in each know of one another fits together, after every call.       *)
THEOREM GAInvariant == Spec => []GAInv
<1>1. GAInit => GAInv
  BY InitGA
<1>2. GAInv /\ [Next]_gaVars => GAInv'
  BY StepKeeps
<1> QED
  BY <1>1, <1>2, PTL DEF Spec

(* Whatever the WindowServer and an application call, and in what order:   *)
(* no command that the driver sends names a surface or a screen that the   *)
(* device does not have, or that does not fit the display.                 *)
THEOREM NoCommandStrays == Spec => []NoStrayCommand
<1>1. GAInv => NoStrayCommand
  BY DEF GAInv, TypeOK, DeviceType, NoStrayCommand
<1> QED
  BY <1>1, GAInvariant, PTL

(* retainMasterSurface and releaseMasterSurface are in balance: the master *)
(* surface exists while surfaces draw to it, and counts them.              *)
THEOREM MasterIsAccounted == Spec => []MasterAccounted
<1>1. GAInv => MasterAccounted
  BY DEF GAInv, MasterInv, MasterCounts, Masters, MasterAccounted
<1> QED
  BY <1>1, GAInvariant, PTL

(* No two surfaces are shown in one video stream, and none of them where   *)
(* it is not.                                                              *)
THEOREM OverlaysOwned == Spec => []OverlayOwned
<1>1. GAInv => OverlayOwned
  BY DEF GAInv
<1> QED
  BY <1>1, GAInvariant, PTL

(* The plug-in and its context have the same destination after every call  *)
(* that succeeded.                                                         *)
THEOREM DestinationsAgree == Spec => []DestinationAgreed
<1>1. GAInv => DestinationAgreed
  BY DEF GAInv
<1> QED
  BY <1>1, GAInvariant, PTL
=============================================================================
