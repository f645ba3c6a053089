----------------------------- MODULE CustomMode -----------------------------
(***************************************************************************)
(* Custom resolutions (FB/VMsvga2.cpp).  A user client (the guest tools)   *)
(* asks for a size with CustomMode and waits.  The driver announces one    *)
(* single display mode, CUSTOM_MODE_ID, of that size, and tells the        *)
(* WindowServer that the connection changed; the WindowServer captures the *)
(* displays, lists the modes, sets one and releases the capture, which     *)
(* lets the user client go on.  On the older systems (version_major < 13)  *)
(* a delayed call, RestoreAllModes, announces all modes again 2 s later,   *)
(* with their order changed so that the WindowServer notices, and asks it  *)
(* to settle on a mode of the custom size.                                 *)
(*                                                                         *)
(* m_custom_switch says how far this has come: 0 all modes, 1 the custom   *)
(* mode requested, 2 the custom mode set.  No lock protects it.            *)
(***************************************************************************)
EXTENDS Integers, Sequences, FiniteSets

CONSTANTS
  Client,       \* threads of user clients that call CustomMode
  Size,         \* screen sizes, within 800 x 600 and the device's maximum
  DefaultSize,  \* the size of modeList[0]
  Mode,         \* the active modes but for CUSTOM_MODE_ID
  SizeOf,       \* their sizes, from modeList
  CUSTOM_MODE_ID

ASSUME ModeAssumption ==
  /\ DefaultSize \in Size
  /\ SizeOf \in [Mode -> Size]
  /\ CUSTOM_MODE_ID \notin Mode
  /\ Mode # {}
  /\ IsFiniteSet(Mode)

VARIABLES
  NewOS,                   \* version_major >= 13
  m_custom_switch,
  customMode,              \* the size of CUSTOM_MODE_ID
  m_modes,                 \* the list of all modes
  m_custom_mode_switched,  \* mode changes stay in the driver
  m_display_mode,
  hardware,                \* the size SetMode gave the device
  event,                   \* a connect-changed event is on its way
  armed,                   \* m_restore_call is pending
  restore,                 \* where RestoreAllModes is
  pc,                      \* where each client is in CustomMode
  blocked,                 \* clients in assert_wait on m_custom_switch
  ws,                      \* where the WindowServer is
  list                     \* the modes it has been told

(* A history variable, for the properties only.                            *)
VARIABLE
  crossed                  \* a client asked before the last custom mode was over

modeVars == <<customMode, m_modes, m_custom_mode_switched, m_display_mode, hardware>>
wsVars == <<ws, list>>
clientVars == <<pc, blocked>>
restoreVars == <<armed, restore>>
vars == <<NewOS, m_custom_switch, modeVars, event, restoreVars, clientVars, wsVars, crossed>>

Modes == Mode \cup {CUSTOM_MODE_ID}

(* VMsvga2::GetDisplayMode, of which only the size matters. *)
ModeSize(m) == IF m = CUSTOM_MODE_ID THEN customMode ELSE SizeOf[m]

Orders == {s \in [1..Cardinality(Modes) -> Modes] : \A m \in Modes : \E i \in DOMAIN s : s[i] = m}

(* VMsvga2::start: the custom mode comes first, the device is in a mode of *)
(* the list.                                                               *)
Init ==
  /\ NewOS \in BOOLEAN
  /\ m_custom_switch = 0
  /\ customMode = DefaultSize
  /\ m_modes \in {s \in Orders : s[1] = CUSTOM_MODE_ID}
  /\ m_custom_mode_switched = FALSE
  /\ m_display_mode \in Mode
  /\ hardware = ModeSize(m_display_mode)
  /\ event = FALSE
  /\ armed = FALSE
  /\ restore = "idle"
  /\ pc = [c \in Client |-> "idle"]
  /\ blocked = {}
  /\ ws = "idle"
  /\ list = {}
  /\ crossed = FALSE

(* CustomSwitchStepSet: every waiting thread is woken. *)
StepSet(value) == m_custom_switch' = value /\ blocked' = {}

-----------------------------------------------------------------------------
(* VMsvga2::CustomMode *)

(* customMode has changed, and the WindowServer is still to be told.       *)
Changing == \E c \in Client : pc[c] \in {"request", "emit"}

(* RestoreAllModes ended the custom mode before the client has seen it.    *)
Restored(c) ==
  ~NewOS /\ m_custom_switch = 0 /\ pc[c] \in {"emit", "wait", "assert", "again", "block"}

(* The WindowServer is between its notice of an event and the release of   *)
(* its capture.                                                            *)
Reconfiguring == ws \in {"configure", "configured", "release"}

(* The last custom mode is still being set, set, or ended.                 *)
CustomPending == m_custom_switch # 0 \/ m_custom_mode_switched \/ Reconfiguring

(* What the waiting client expects. *)
Expected == IF NewOS THEN 0 ELSE 2

(* Another size than the current one: customMode is changed. *)
CustomModeRequest(c, size) ==
  /\ pc[c] = "idle"
  /\ size # ModeSize(m_display_mode)
  /\ customMode' = size
  /\ pc' = [pc EXCEPT ![c] = "request"]
  /\ crossed' = (crossed \/ (~NewOS /\ CustomPending))
  /\ UNCHANGED <<NewOS, m_custom_switch, m_modes, m_custom_mode_switched, m_display_mode,
                 hardware, event, restoreVars, blocked, wsVars>>

(* CustomSwitchStepSet(1). *)
CustomModeStep(c) ==
  /\ pc[c] = "request"
  /\ StepSet(1)
  /\ pc' = [pc EXCEPT ![c] = "emit"]
  /\ UNCHANGED <<NewOS, modeVars, event, restoreVars, wsVars, crossed>>

(* EmitConnectChangedEvent. *)
CustomModeEmit(c) ==
  /\ pc[c] = "emit"
  /\ event' = TRUE
  /\ pc' = [pc EXCEPT ![c] = "wait"]
  /\ UNCHANGED <<NewOS, m_custom_switch, modeVars, restoreVars, blocked, wsVars, crossed>>

(* CustomSwitchStepWait: test; assert_wait; test again; thread_block. *)
WaitTest(c) ==
  /\ pc[c] = "wait"
  /\ pc' = [pc EXCEPT ![c] = IF m_custom_switch = Expected THEN "done" ELSE "assert"]
  /\ UNCHANGED <<NewOS, m_custom_switch, modeVars, event, restoreVars, blocked, wsVars, crossed>>

AssertWait(c) ==
  /\ pc[c] = "assert"
  /\ blocked' = blocked \cup {c}
  /\ pc' = [pc EXCEPT ![c] = "again"]
  /\ UNCHANGED <<NewOS, m_custom_switch, modeVars, event, restoreVars, wsVars, crossed>>

(* Mutant: the thread blocks without the second look. *)
WaitNoSecondTest(c) ==
  /\ pc[c] = "again"
  /\ pc' = [pc EXCEPT ![c] = "block"]
  /\ UNCHANGED <<NewOS, m_custom_switch, modeVars, event, restoreVars, blocked, wsVars, crossed>>

WaitTestAgain(c) ==
  /\ pc[c] = "again"
  /\ blocked' = IF m_custom_switch = Expected THEN {} ELSE blocked
  /\ pc' = [pc EXCEPT ![c] = "block"]
  /\ UNCHANGED <<NewOS, m_custom_switch, modeVars, event, restoreVars, wsVars, crossed>>

Unblocked(c) ==
  /\ pc[c] = "block"
  /\ c \notin blocked
  /\ pc' = [pc EXCEPT ![c] = "wait"]
  /\ UNCHANGED <<NewOS, m_custom_switch, modeVars, event, restoreVars, blocked, wsVars, crossed>>

(* Mutant: RestoreAllModes is not scheduled. *)
CustomModeReturnOnly(c) ==
  /\ pc[c] = "done"
  /\ pc' = [pc EXCEPT ![c] = "idle"]
  /\ UNCHANGED <<NewOS, m_custom_switch, modeVars, event, restoreVars, blocked, wsVars, crossed>>

(* The call returns; on the older systems RestoreAllModes is due in 2 s,   *)
(* again if it was due or runs already.                                    *)
CustomModeReturn(c) ==
  /\ pc[c] = "done"
  /\ pc' = [pc EXCEPT ![c] = "idle"]
  /\ armed' = (armed \/ ~NewOS)
  /\ UNCHANGED <<NewOS, m_custom_switch, modeVars, event, restore, blocked, wsVars, crossed>>

-----------------------------------------------------------------------------
(* VMsvga2::RestoreAllModes, in a kernel thread; it is through before it   *)
(* can be due again, 2 s later.                                            *)

RestoreTest ==
  /\ armed
  /\ restore = "idle"
  /\ armed' = FALSE
  /\ restore' = IF m_custom_switch = 2 THEN "swap" ELSE "idle"
  /\ UNCHANGED <<NewOS, m_custom_switch, modeVars, event, clientVars, wsVars, crossed>>

(* Mutant: slot 0 is overwritten, its mode is lost. *)
RestoreSwapOneWay ==
  LET other == {i \in DOMAIN m_modes : ModeSize(m_modes[i]) # customMode} IN
  /\ restore = "swap"
  /\ IF other = {}
     THEN restore' = "idle" /\ UNCHANGED <<m_modes, m_custom_mode_switched>>
     ELSE LET i == CHOOSE i \in other : \A j \in other : i <= j IN
          /\ m_modes' = [m_modes EXCEPT ![1] = m_modes[i]]
          /\ m_custom_mode_switched' = TRUE
          /\ restore' = "set"
  /\ UNCHANGED <<NewOS, m_custom_switch, customMode, m_display_mode, hardware, event, armed,
                 clientVars, wsVars, crossed>>

(* Slot 0 and the first slot of another size than the custom one. *)
RestoreSwap ==
  LET other == {i \in DOMAIN m_modes : ModeSize(m_modes[i]) # customMode} IN
  /\ restore = "swap"
  /\ IF other = {}
     THEN restore' = "idle" /\ UNCHANGED <<m_modes, m_custom_mode_switched>>
     ELSE LET i == CHOOSE i \in other : \A j \in other : i <= j IN
          /\ m_modes' = [m_modes EXCEPT ![1] = m_modes[i], ![i] = m_modes[1]]
          /\ m_custom_mode_switched' = TRUE
          /\ restore' = "set"
  /\ UNCHANGED <<NewOS, m_custom_switch, customMode, m_display_mode, hardware, event, armed,
                 clientVars, wsVars, crossed>>

(* CustomSwitchStepSet(0), and the WindowServer hears of it. *)
RestoreSet ==
  /\ restore = "set"
  /\ StepSet(0)
  /\ event' = TRUE
  /\ restore' = "idle"
  /\ UNCHANGED <<NewOS, modeVars, armed, pc, wsVars, crossed>>

-----------------------------------------------------------------------------
(* The WindowServer, outside this repository, and the driver's methods it  *)
(* calls.  After a connect-changed event it lists the modes, sets one and  *)
(* releases its capture; a user may also choose a mode.                    *)

(* VMsvga2::getDisplayModes *)
DisplayModes == IF m_custom_switch # 0 THEN {CUSTOM_MODE_ID} ELSE Modes

WSNotices ==
  /\ ws = "idle"
  /\ event
  /\ event' = FALSE
  /\ list' = DisplayModes
  /\ ws' = "configure"
  /\ UNCHANGED <<NewOS, m_custom_switch, modeVars, restoreVars, clientVars, crossed>>

(* A user asks the WindowServer for another mode. *)
UserChooses ==
  /\ ws = "idle"
  /\ ~event
  /\ list' = DisplayModes
  /\ ws' = "choose"
  /\ UNCHANGED <<NewOS, m_custom_switch, modeVars, event, restoreVars, clientVars, crossed>>

(* Mutant: the device is not told of a mode that is set already. *)
SetDisplayModeIfChanged(m) ==
  IF m_custom_mode_switched
  THEN /\ m_custom_mode_switched' = (ModeSize(m) # customMode)
       /\ UNCHANGED hardware
  ELSE /\ hardware' = IF m = m_display_mode THEN hardware ELSE ModeSize(m)
       /\ UNCHANGED m_custom_mode_switched

(* VMsvga2::setDisplayMode, up to SVGADevice::SetMode. *)
SetDisplayMode(m) ==
  IF m_custom_mode_switched
  THEN /\ m_custom_mode_switched' = (ModeSize(m) # customMode)
       /\ UNCHANGED hardware
  ELSE /\ hardware' = ModeSize(m)
       /\ UNCHANGED m_custom_mode_switched

(* It sets any of the listed modes: which one it prefers is its own affair. *)
(* A mode that reaches the device puts right what requests that crossed    *)
(* the last custom mode have left.                                         *)
WSSetsMode(m) ==
  /\ ws \in {"configure", "choose"}
  /\ m \in list
  /\ SetDisplayMode(m)
  /\ ws' = IF ws = "configure" THEN "configured" ELSE "chosen"
  /\ list' = {m}
  /\ crossed' = (crossed /\ m_custom_mode_switched)
  /\ UNCHANGED <<NewOS, m_custom_switch, customMode, m_modes, m_display_mode, event, restoreVars,
                 clientVars>>

(* The end of setDisplayMode: the mode is remembered. *)
WSModeSet(m) ==
  /\ ws \in {"configured", "chosen"}
  /\ list = {m}
  /\ m_display_mode' = m
  /\ ws' = IF ws = "configured" THEN "release" ELSE "idle"
  /\ list' = {}
  /\ UNCHANGED <<NewOS, m_custom_switch, customMode, m_modes, m_custom_mode_switched, hardware,
                 event, restoreVars, clientVars, crossed>>

(* VMsvga2::setAttribute(kIOCapturedAttribute, 0) *)
WSReleases ==
  /\ ws = "release"
  /\ ws' = "idle"
  /\ IF m_custom_switch = 1 /\ m_display_mode = CUSTOM_MODE_ID
     THEN StepSet(Expected)
     ELSE UNCHANGED <<m_custom_switch, blocked>>
  /\ UNCHANGED <<NewOS, modeVars, event, restoreVars, pc, list, crossed>>

-----------------------------------------------------------------------------

ClientStep(c) ==
  \/ CustomModeStep(c) \/ CustomModeEmit(c)
  \/ WaitTest(c) \/ AssertWait(c) \/ WaitTestAgain(c) \/ Unblocked(c)
  \/ CustomModeReturn(c)

RestoreStep == RestoreTest \/ RestoreSwap \/ RestoreSet
WSStep == WSNotices \/ (\E m \in Modes : WSSetsMode(m) \/ WSModeSet(m)) \/ WSReleases

Next ==
  \/ \E c \in Client, size \in Size : CustomModeRequest(c, size)
  \/ \E c \in Client : ClientStep(c)
  \/ RestoreStep
  \/ WSStep
  \/ UserChooses

Spec == Init /\ [][Next]_vars

(* Threads run, the delayed call comes, the WindowServer reacts to events. *)
Fairness ==
  /\ \A c \in Client : WF_vars(ClientStep(c))
  /\ WF_vars(RestoreStep)
  /\ WF_vars(WSStep)

FairSpec == Spec /\ Fairness

-----------------------------------------------------------------------------
(* Properties *)

(* However often sizes are asked for and RestoreAllModes exchanges entries  *)
(* of the list, each mode stays in it exactly once.                         *)
ModesKept == m_modes \in Orders

(* A user client that asks for a size gets out of CustomSwitchStepWait: no *)
(* wakeup is lost between its test and its thread_block.  Only clients     *)
(* that ask for other sizes again and again, or a RestoreAllModes that     *)
(* ends the custom mode before the client has seen it, can hold it back.   *)
EveryCallReturns ==
  \A c \in Client : \/ []<>(pc[c] = "idle" \/ Restored(c))
                    \/ \E d \in Client \ {c} : []<>(pc[d] = "request")

(* When the WindowServer has settled, the device has the size of the       *)
(* current display mode; while the driver keeps mode changes to itself     *)
(* after RestoreAllModes, it has the custom size.  On the older systems a  *)
(* client that asks before the last custom mode is over may break this,    *)
(* until a mode reaches the device again.                                  *)
HardwareMatchesMode ==
  ws = "idle" /\ ~event /\ ~Changing /\ ~crossed =>
    hardware = IF m_custom_mode_switched THEN customMode ELSE ModeSize(m_display_mode)

(* The list of all modes is announced again after each custom mode, once   *)
(* clients do not ask for others all the time.                             *)
AllModesAgain ==
  \/ m_custom_switch # 0 ~> m_custom_switch = 0
  \/ \E c \in Client : []<>(pc[c] = "request")

(* "The user client set another custom resolution" (VMsvga2.cpp:801): the  *)
(* delayed call leaves the switch alone then, and only ends a custom mode  *)
(* that is set.                                                            *)
RestoreYields == [][restore = "set" /\ restore' = "idle" => m_custom_switch = 2]_vars
=============================================================================
