--------------------------- MODULE CustomMode_proofs ---------------------------
(***************************************************************************)
(* Proofs about CustomMode, for every set of clients, sizes and modes.     *)
(***************************************************************************)
EXTENDS CustomMode, FiniteSetTheorems, WellFoundedInduction, TLAPS

-----------------------------------------------------------------------------
(* The list of all modes *)

(* A set of natural numbers that is not empty has a least element: this is *)
(* the loop of RestoreAllModes, which looks for the first slot.            *)
LEMMA LeastNat ==
  ASSUME NEW S, S \subseteq Nat, S # {}
  PROVE  \E x \in S : \A y \in S : x <= y
<1> DEFINE R == OpToRel(<, Nat)
<1>1. IsWellFoundedOn(R, Nat)
  BY NatLessThanWellFounded
<1>2. \E x \in S : \A y \in S : ~(<<y, x>> \in R)
  <2> HIDE DEF R
  <2> QED
    BY <1>1, WFMin
<1>3. \A x, y \in S : y < x => <<y, x>> \in R
  BY DEF OpToRel
<1>4. \E x \in S : \A y \in S : ~(y < x)
  <2> HIDE DEF R
  <2> QED
    BY <1>2, <1>3
<1> QED
  BY <1>4

(* An exchange of two entries loses no mode. *)
LEMMA SwapKeepsOrder ==
  ASSUME NEW s \in Orders, NEW i \in DOMAIN s, NEW j \in DOMAIN s
  PROVE  [s EXCEPT ![i] = s[j], ![j] = s[i]] \in Orders
<1> DEFINE t == [s EXCEPT ![i] = s[j], ![j] = s[i]]
           D == 1..Cardinality(Modes)
<1>1. s \in [D -> Modes] /\ \A m \in Modes : \E k \in D : s[k] = m
  BY DEF Orders
<1>2. t \in [D -> Modes]
  BY <1>1
<1>3. ASSUME NEW m \in Modes
      PROVE  \E k \in D : t[k] = m
  <2>1. PICK k \in D : s[k] = m
    BY <1>1
  <2>2. CASE k = i
    BY <1>1, <2>1, <2>2
  <2>3. CASE k = j
    BY <1>1, <2>1, <2>3
  <2>4. CASE k # i /\ k # j
    BY <1>1, <2>1, <2>4
  <2> QED
    BY <2>2, <2>3, <2>4
<1>4. DOMAIN t = D
  BY <1>2
<1> QED
  BY <1>2, <1>3, <1>4 DEF Orders

(* RestoreAllModes exchanges slot 0 and the first slot of another size, or *)
(* leaves the list alone.                                                  *)
LEMMA RestoreSwapKeepsOrder ==
  ASSUME m_modes \in Orders, RestoreSwap
  PROVE  m_modes' \in Orders
<1> DEFINE other == {i \in DOMAIN m_modes : ModeSize(m_modes[i]) # customMode}
           first == CHOOSE i \in other : \A j \in other : i <= j
<1>1. CASE other = {}
  BY <1>1 DEF RestoreSwap
<1>2. CASE other # {}
  <2>1. DOMAIN m_modes = 1..Cardinality(Modes)
    BY DEF Orders
  <2>2. other \subseteq Nat
    BY <2>1
  <2>3. first \in other
    <3> HIDE DEF other
    <3>1. \E i \in other : \A j \in other : i <= j
      BY <1>2, <2>2, LeastNat
    <3> QED
      BY <3>1
  <2>4. first \in DOMAIN m_modes /\ 1 \in DOMAIN m_modes
    <3>1. Cardinality(Modes) \in Nat
      BY ModeAssumption, FS_AddElement, FS_CardinalityType DEF Modes
    <3>2. first \in DOMAIN m_modes
      BY <2>3
    <3> HIDE DEF first
    <3> QED
      BY <2>1, <3>1, <3>2
  <2>5. m_modes' = [m_modes EXCEPT ![1] = m_modes[first], ![first] = m_modes[1]]
    BY <1>2 DEF RestoreSwap
  <2> HIDE DEF first
  <2> QED
    BY <2>4, <2>5, SwapKeepsOrder
<1> QED
  BY <1>1, <1>2

(* However often sizes are asked for, each mode stays in the list that     *)
(* RestoreAllModes reorders, exactly once.                                 *)
THEOREM AllModesKept == Spec => []ModesKept
<1>1. Init => ModesKept
  BY DEF Init, ModesKept
<1>2. ModesKept /\ [Next]_vars => ModesKept'
  <2> SUFFICES ASSUME ModesKept, [Next]_vars
               PROVE  ModesKept'
    OBVIOUS
  <2>1. CASE RestoreSwap
    BY <2>1, RestoreSwapKeepsOrder DEF ModesKept
  <2>2. CASE UNCHANGED m_modes
    BY <2>2 DEF ModesKept
  <2>3. RestoreSwap \/ UNCHANGED m_modes
    BY DEF Next, ClientStep, RestoreStep, WSStep, vars, modeVars, CustomModeRequest,
           CustomModeStep, CustomModeEmit, WaitTest, AssertWait, WaitTestAgain, Unblocked,
           CustomModeReturn, RestoreTest, RestoreSet, WSNotices, UserChooses, WSSetsMode,
           WSModeSet, WSReleases
  <2> QED
    BY <2>1, <2>2, <2>3
<1> QED
  BY <1>1, <1>2, PTL DEF Spec

-----------------------------------------------------------------------------
(* CustomSwitchStepWait *)

(* A client that sleeps has something to wait for: when CustomSwitchStepSet *)
(* brings the value it expects, it is awake or about to look again.        *)
SleeperWaits ==
  \A c \in Client : pc[c] = "block" /\ c \in blocked => m_custom_switch # Expected

WaitInv ==
  /\ pc \in [Client -> {"idle", "request", "emit", "wait", "assert", "again", "block", "done"}]
  /\ SleeperWaits

(* No wakeup is lost between the tests of CustomSwitchStepWait and its     *)
(* thread_block, whoever calls CustomSwitchStepSet in between.             *)
THEOREM NoWakeupLost == Spec => []SleeperWaits
<1>1. Init => WaitInv
  BY DEF Init, WaitInv, SleeperWaits
<1>2. WaitInv /\ [Next]_vars => WaitInv'
  <2> SUFFICES ASSUME WaitInv, [Next]_vars
               PROVE  WaitInv'
    OBVIOUS
  <2> USE DEF WaitInv, SleeperWaits, Expected
  <2>1. CASE UNCHANGED vars
    BY <2>1 DEF vars, clientVars
  <2>2. ASSUME NEW c \in Client, NEW size \in Size, CustomModeRequest(c, size)
        PROVE  WaitInv'
    BY <2>2 DEF CustomModeRequest
  <2>3. ASSUME NEW c \in Client, ClientStep(c)
        PROVE  WaitInv'
    BY <2>3 DEF ClientStep, CustomModeStep, CustomModeEmit, WaitTest, AssertWait, WaitTestAgain,
                Unblocked, CustomModeReturn, StepSet
  <2>4. CASE RestoreStep
    BY <2>4 DEF RestoreStep, RestoreTest, RestoreSwap, RestoreSet, StepSet, clientVars
  <2>5. CASE WSStep \/ UserChooses
    BY <2>5 DEF WSStep, WSNotices, UserChooses, WSSetsMode, WSModeSet, WSReleases, StepSet,
                clientVars
  <2> QED
    BY <2>1, <2>2, <2>3, <2>4, <2>5 DEF Next
<1>3. WaitInv => SleeperWaits
  BY DEF WaitInv
<1> QED
  BY <1>1, <1>2, <1>3, PTL DEF Spec

-----------------------------------------------------------------------------
(* The size of the device and the current mode *)

TypeOK ==
  /\ NewOS \in BOOLEAN
  /\ m_custom_switch \in {0, 1, 2}
  /\ m_custom_mode_switched \in BOOLEAN
  /\ m_display_mode \in Modes
  /\ event \in BOOLEAN
  /\ armed \in BOOLEAN
  /\ restore \in {"idle", "swap", "set"}
  /\ pc \in [Client -> {"idle", "request", "emit", "wait", "assert", "again", "block", "done"}]
  /\ ws \in {"idle", "configure", "choose", "configured", "chosen", "release"}
  /\ list \subseteq Modes
  /\ ws \in {"idle", "release"} => list = {}
  /\ crossed \in BOOLEAN

(* The mode that m_display_mode is, or is about to become.                 *)
IsCurrent(m) == IF ws \in {"configured", "chosen"} THEN m \in list ELSE m = m_display_mode

DeviceFollows == \A m \in Modes : IsCurrent(m) => hardware = ModeSize(m)

(* Unless the WindowServer is still to set a mode, after an event, the     *)
(* device has the size of the current one.                                 *)
SizeInv ==
  ~event /\ ~Changing /\ ws # "configure" /\ ~m_custom_mode_switched /\ ~crossed =>
    DeviceFollows

(* RestoreAllModes runs on the older systems only.                         *)
NewInv == NewOS => restore = "idle" /\ ~armed /\ ~m_custom_mode_switched /\ ~crossed

(* From the step that sets the custom mode to the end of RestoreAllModes   *)
(* the WindowServer knows of no other.                                     *)
ListInv ==
  /\ restore # "idle" => m_custom_switch # 0
  /\ m_custom_switch = 2 \/ restore # "idle" => list \subseteq {CUSTOM_MODE_ID}

(* So long the device has the custom size, and still while mode changes    *)
(* stay in the driver; and it has the size the WindowServer gave it until  *)
(* the WindowServer ends its capture, which may be the step that says that *)
(* the custom mode is set.  Requests that change customMode meanwhile are  *)
(* what crossed remembers.                                                 *)
CustomInv ==
  ~crossed =>
    /\ m_custom_switch = 2 \/ restore # "idle" \/ m_custom_mode_switched =>
         hardware = customMode
    /\ ws \in {"configured", "release"} /\ ~m_custom_mode_switched => DeviceFollows

ModeInv == TypeOK /\ SizeInv /\ NewInv /\ (~NewOS => ListInv /\ CustomInv)

LEMMA InitModeInv == Init => ModeInv
<1> SUFFICES ASSUME Init PROVE ModeInv
  OBVIOUS
<1>1. TypeOK
  BY DEF Init, TypeOK, Modes
<1>2. SizeInv
  BY DEF Init, SizeInv, DeviceFollows, IsCurrent
<1>3. NewInv /\ ListInv /\ CustomInv
  BY DEF Init, NewInv, ListInv, CustomInv
<1> QED
  BY <1>1, <1>2, <1>3 DEF ModeInv

(* VMsvga2::CustomMode, up to its return.                                  *)
LEMMA ClientModeInv ==
  ASSUME ModeInv, NEW c \in Client,
         ClientStep(c) \/ \E size \in Size : CustomModeRequest(c, size)
  PROVE  ModeInv'
<1> USE DEF ModeInv, TypeOK, Changing, DeviceFollows, IsCurrent, SizeInv, NewInv, ListInv,
            CustomInv, ModeSize, StepSet, Expected, modeVars, restoreVars, wsVars
<1>1. ASSUME NEW size \in Size, CustomModeRequest(c, size)
      PROVE  ModeInv'
  <2>1. TypeOK' /\ NewInv'
    BY <1>1 DEF CustomModeRequest
  <2>2. SizeInv'
    BY <1>1 DEF CustomModeRequest
  <2>3. (~NewOS => ListInv)'
    BY <1>1 DEF CustomModeRequest
  <2>4. (~NewOS => CustomInv)'
    <3>1. CASE ~NewOS /\ ~CustomPending
      <4>1. m_custom_switch = 0 /\ ~m_custom_mode_switched /\ ws \notin {"configured", "release"}
        BY <3>1 DEF CustomPending, Reconfiguring
      <4>2. restore = "idle"
        BY <3>1, <4>1
      <4> QED
        BY <1>1, <4>1, <4>2 DEF CustomModeRequest
    <3>2. CASE ~NewOS /\ CustomPending
      BY <1>1, <3>2 DEF CustomModeRequest
    <3>3. CASE NewOS
      BY <1>1, <3>3 DEF CustomModeRequest
    <3> QED
      BY <3>1, <3>2, <3>3
  <2> QED
    BY <2>1, <2>2, <2>3, <2>4
<1>2. CASE CustomModeStep(c)
  BY <1>2 DEF CustomModeStep
<1>3. CASE CustomModeEmit(c)
  BY <1>3 DEF CustomModeEmit
<1>4. CASE WaitTest(c)
  BY <1>4 DEF WaitTest
<1>5. CASE AssertWait(c)
  BY <1>5 DEF AssertWait
<1>6. CASE WaitTestAgain(c)
  BY <1>6 DEF WaitTestAgain
<1>7. CASE Unblocked(c)
  BY <1>7 DEF Unblocked
<1>8. CASE CustomModeReturn(c)
  BY <1>8 DEF CustomModeReturn
<1> QED
  BY <1>1, <1>2, <1>3, <1>4, <1>5, <1>6, <1>7, <1>8 DEF ClientStep

(* RestoreAllModes finds the device in the custom size and keeps it there. *)
LEMMA RestoreModeInv ==
  ASSUME ModeInv, RestoreStep
  PROVE  ModeInv'
<1> USE DEF ModeInv, TypeOK, Changing, DeviceFollows, IsCurrent, SizeInv, NewInv, ListInv,
            CustomInv, ModeSize, StepSet, clientVars, modeVars, wsVars
<1>1. CASE RestoreTest
  <2>1. TypeOK' /\ NewInv' /\ SizeInv'
    BY <1>1 DEF RestoreTest
  <2>2. (~NewOS => ListInv)'
    BY <1>1 DEF RestoreTest
  <2>3. (~NewOS => CustomInv)'
    BY <1>1 DEF RestoreTest
  <2> QED
    BY <2>1, <2>2, <2>3
<1>2. CASE RestoreSwap
  <2>1. /\ restore = "swap"
        /\ \/ restore' = "idle" /\ UNCHANGED m_custom_mode_switched
           \/ restore' = "set" /\ m_custom_mode_switched' = TRUE
        /\ UNCHANGED <<NewOS, m_custom_switch, customMode, m_display_mode, hardware, event,
                       armed, clientVars, wsVars, crossed>>
    BY <1>2 DEF RestoreSwap
  <2>2. TypeOK' /\ NewInv' /\ SizeInv'
    BY <2>1
  <2>3. (~NewOS => ListInv)'
    BY <2>1
  <2>4. (~NewOS => CustomInv)'
    BY <2>1
  <2> QED
    BY <2>2, <2>3, <2>4
<1>3. CASE RestoreSet
  BY <1>3 DEF RestoreSet
<1> QED
  BY <1>1, <1>2, <1>3 DEF RestoreStep

(* Whatever mode the WindowServer sets, the device follows it, or is in    *)
(* the custom size already.                                                *)
LEMMA WSModeInv ==
  ASSUME ModeInv, WSStep \/ UserChooses
  PROVE  ModeInv'
<1> USE DEF ModeInv, TypeOK, Changing, DeviceFollows, IsCurrent, SizeInv, NewInv, ListInv,
            CustomInv, ModeSize, Modes, StepSet, Expected, clientVars, modeVars, restoreVars
<1>1. CASE WSNotices
  <2>1. TypeOK' /\ SizeInv' /\ NewInv'
    BY <1>1 DEF WSNotices, DisplayModes
  <2>2. (~NewOS => ListInv)'
    BY <1>1 DEF WSNotices, DisplayModes
  <2>3. (~NewOS => CustomInv)'
    BY <1>1 DEF WSNotices, DisplayModes
  <2> QED
    BY <2>1, <2>2, <2>3
<1>2. CASE UserChooses
  BY <1>2 DEF UserChooses, DisplayModes
<1>3. ASSUME NEW m \in Modes, WSSetsMode(m)
      PROVE  ModeInv'
  BY <1>3 DEF WSSetsMode, SetDisplayMode
<1>4. ASSUME NEW m \in Modes, WSModeSet(m)
      PROVE  ModeInv'
  BY <1>4 DEF WSModeSet
<1>5. CASE WSReleases
  BY <1>5 DEF WSReleases
<1> QED
  BY <1>1, <1>2, <1>3, <1>4, <1>5 DEF WSStep

(* The invariant that ties the device to the mode being set.               *)
THEOREM ModeInvariant == Spec => []ModeInv
<1>1. ModeInv /\ [Next]_vars => ModeInv'
  <2> SUFFICES ASSUME ModeInv, [Next]_vars
               PROVE  ModeInv'
    OBVIOUS
  <2>1. CASE UNCHANGED vars
    BY <2>1 DEF vars, modeVars, wsVars, clientVars, restoreVars, ModeInv, TypeOK, Changing,
           DeviceFollows, IsCurrent, SizeInv, NewInv, ListInv, CustomInv, ModeSize
  <2> QED
    BY <2>1, ClientModeInv, RestoreModeInv, WSModeInv DEF Next
<1> QED
  BY <1>1, InitModeInv, PTL DEF Spec

(* When the WindowServer has settled, the device has the size of the       *)
(* current mode, or the custom size while RestoreAllModes keeps mode       *)
(* changes in the driver, unless a request crossed the last custom mode.   *)
THEOREM HardwareFollowsMode == Spec => []HardwareMatchesMode
<1>1. ModeInv => HardwareMatchesMode
  BY DEF ModeInv, TypeOK, SizeInv, NewInv, CustomInv, DeviceFollows, IsCurrent, HardwareMatchesMode
<1> QED
  BY <1>1, ModeInvariant, PTL
=============================================================================
