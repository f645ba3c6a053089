---------------------------- MODULE RefreshTimer ----------------------------
(***************************************************************************)
(* Who keeps the screen up to date (FB/VMsvga2.cpp).  While the            *)
(* accelerator's 2D context does not send updates itself (m_accel_updates  *)
(* FALSE) a periodic timer does, or, on a device with SVGA_CAP_TRACES, the *)
(* device notices writes by itself.  A 2D context switches between the two *)
(* with useAccelUpdates, setDisplayMode stops and restarts the timer, and  *)
(* the timer rearms itself; none of them holds a lock around the flag.     *)
(* Calls of useAccelUpdates may overlap: a task asks for the updates while *)
(* the context of another one, or another one of its own, is closed.       *)
(*                                                                         *)
(* The timer is a thread call of the kernel: it is armed or not, rearming  *)
(* only moves its deadline, cancelling it does not wait for an invocation  *)
(* that runs already, and a second invocation may overlap the first.       *)
(* Each section under m_iolock is one step.                                *)
(***************************************************************************)
EXTENDS Integers

CONSTANTS
  Context,   \* 2D contexts
  Task,      \* the tasks that own them
  TaskOf,    \* the owning task of each context
  NoTask,    \* nobody, 0 in m_updating_ga
  Thread     \* kernel threads that may run the timer's action

ASSUME TimerAssumption ==
  /\ TaskOf \in [Context -> Task]
  /\ NoTask \notin Task

VARIABLES
  HasTraces,        \* the device has SVGA_CAP_TRACES; then there is no timer
  m_accel_updates,  \* VMsvga2 member
  m_updating_ga,    \* VMsvga2Accel member: the task that sends updates
  armed,            \* the thread call m_refresh_call is pending
  traces,           \* SVGA_REG_TRACES
  timer,            \* where each invocation of refreshTimerAction is
  mode,             \* where setDisplayMode is
  pc,               \* where each context's useAccelUpdates is
  state             \* its argument

(* History variables, for the properties only.                             *)
VARIABLES
  mixed,            \* the calls under way (or the last ones) overlapped
  disturbed,        \* calls overlapped, and no switch was made alone since
  asked             \* what each task asked for last without being refused

timerVars == <<armed, timer>>
history == <<mixed, disturbed, asked>>
vars == <<HasTraces, m_accel_updates, m_updating_ga, timerVars, traces, mode, pc, state, history>>

-----------------------------------------------------------------------------

(* VMsvga2::start, which ends with scheduleRefreshTimer(1000). *)
Init ==
  /\ HasTraces \in BOOLEAN
  /\ m_accel_updates = FALSE
  /\ m_updating_ga = NoTask
  /\ armed = ~HasTraces
  /\ traces = HasTraces
  /\ timer = [t \in Thread |-> "idle"]
  /\ mode = "idle"
  /\ pc = [c \in Context |-> "idle"]
  /\ state = [c \in Context |-> FALSE]
  /\ mixed = FALSE
  /\ disturbed = FALSE
  /\ asked = [k \in Task |-> FALSE]

(* scheduleRefreshTimer and cancelRefreshTimer: nothing without a timer. *)
Schedule == armed' = ~HasTraces
Cancel == armed' = FALSE

-----------------------------------------------------------------------------
(* VMsvga2::refreshTimerAction *)

Run(t, from, to) == timer[t] = from /\ timer' = [timer EXCEPT ![t] = to]

TimerFires(t) ==
  /\ armed
  /\ armed' = FALSE
  /\ Run(t, "idle", "update")
  /\ UNCHANGED <<HasTraces, m_accel_updates, m_updating_ga, traces, mode, pc, state, history>>

(* UpdateFullscreen and RingDoorBell. *)
TimerUpdate(t) ==
  /\ Run(t, "update", "test")
  /\ UNCHANGED <<HasTraces, m_accel_updates, m_updating_ga, armed, traces, mode, pc, state, history>>

(* Mutant: the timer does not look at the flag. *)
TimerTestNot(t) ==
  /\ Run(t, "test", "rearm")
  /\ UNCHANGED <<HasTraces, m_accel_updates, m_updating_ga, armed, traces, mode, pc, state, history>>

TimerTest(t) ==
  /\ Run(t, "test", IF m_accel_updates THEN "idle" ELSE "rearm")
  /\ UNCHANGED <<HasTraces, m_accel_updates, m_updating_ga, armed, traces, mode, pc, state, history>>

(* Mutant: the timer is a one-shot. *)
TimerRearmNot(t) ==
  /\ Run(t, "rearm", "idle")
  /\ UNCHANGED <<HasTraces, m_accel_updates, m_updating_ga, armed, traces, mode, pc, state, history>>

TimerRearm(t) ==
  /\ Run(t, "rearm", "idle")
  /\ Schedule
  /\ UNCHANGED <<HasTraces, m_accel_updates, m_updating_ga, traces, mode, pc, state, history>>

-----------------------------------------------------------------------------
(* VMsvga2::setDisplayMode, one thread at a time (IOFramebuffer's lock) *)

Go(from, to) == mode = from /\ mode' = to

ModeStart ==
  /\ Go("idle", IF m_accel_updates THEN "set" ELSE "cancel")
  /\ UNCHANGED <<HasTraces, m_accel_updates, m_updating_ga, timerVars, traces, pc, state, history>>

ModeCancel ==
  /\ Go("cancel", "set")
  /\ Cancel
  /\ UNCHANGED <<HasTraces, m_accel_updates, m_updating_ga, timer, traces, pc, state, history>>

(* SVGADevice::SetMode, and the flag is read again. *)
ModeSet ==
  /\ Go("set", "test")
  /\ UNCHANGED <<HasTraces, m_accel_updates, m_updating_ga, timerVars, traces, pc, state, history>>

ModeTest ==
  /\ Go("test", IF m_accel_updates THEN "idle" ELSE "arm")
  /\ UNCHANGED <<HasTraces, m_accel_updates, m_updating_ga, timerVars, traces, pc, state, history>>

ModeArm ==
  /\ Go("arm", "idle")
  /\ Schedule
  /\ UNCHANGED <<HasTraces, m_accel_updates, m_updating_ga, timer, traces, pc, state, history>>

-----------------------------------------------------------------------------
(* VMsvga2Accel::useAccelUpdates and VMsvga2::useAccelUpdates *)

At(c, from, to) == pc[c] = from /\ pc' = [pc EXCEPT ![c] = to]

NoCall == \A c \in Context : pc[c] = "idle"

(* Another task sends the updates: nothing happens. *)
UseRefused(c) ==
  /\ pc[c] = "idle"
  /\ m_updating_ga \notin {NoTask, TaskOf[c]}
  /\ UNCHANGED vars

(* Mutant: a task takes the updates away from another one. *)
UseStartAnyTask(c, s) ==
  /\ At(c, "idle", "own")
  /\ state' = [state EXCEPT ![c] = s]
  /\ mixed' = ~NoCall
  /\ disturbed' = (disturbed \/ ~NoCall)
  /\ UNCHANGED <<HasTraces, m_accel_updates, m_updating_ga, timerVars, traces, mode, asked>>

UseStart(c, s) ==
  /\ m_updating_ga \in {NoTask, TaskOf[c]}
  /\ At(c, "idle", "own")
  /\ state' = [state EXCEPT ![c] = s]
  /\ mixed' = ~NoCall
  /\ disturbed' = (disturbed \/ ~NoCall)
  /\ UNCHANGED <<HasTraces, m_accel_updates, m_updating_ga, timerVars, traces, mode, asked>>

UseOwn(c) ==
  /\ At(c, "own", "test")
  /\ m_updating_ga' = IF state[c] THEN TaskOf[c] ELSE NoTask
  /\ asked' = [asked EXCEPT ![TaskOf[c]] = state[c]]
  /\ UNCHANGED <<HasTraces, m_accel_updates, timerVars, traces, mode, state, mixed, disturbed>>

UseTest(c) ==
  /\ At(c, "test", IF state[c] = m_accel_updates THEN "idle" ELSE "set")
  /\ UNCHANGED <<HasTraces, m_accel_updates, m_updating_ga, timerVars, traces, mode, state, history>>

UseSet(c) ==
  /\ At(c, "set", "timer")
  /\ m_accel_updates' = state[c]
  /\ UNCHANGED <<HasTraces, m_updating_ga, timerVars, traces, mode, state, history>>

(* Mutant: the timer is not restarted. *)
UseTimerCancelOnly(c) ==
  /\ At(c, "timer", "traces")
  /\ IF state[c] THEN Cancel ELSE UNCHANGED armed
  /\ UNCHANGED <<HasTraces, m_accel_updates, m_updating_ga, timer, traces, mode, state, history>>

UseTimer(c) ==
  /\ At(c, "timer", "traces")
  /\ IF state[c] THEN Cancel ELSE Schedule
  /\ UNCHANGED <<HasTraces, m_accel_updates, m_updating_ga, timer, traces, mode, state, history>>

(* SVGA_REG_TRACES, and a full update when it is set.  A switch that was   *)
(* made alone from its start to its end puts right what overlapping calls  *)
(* have left, whatever was asked for in them.                              *)
UseTraces(c) ==
  /\ At(c, "traces", "idle")
  /\ traces' = (HasTraces /\ ~state[c])
  /\ disturbed' = (disturbed /\ mixed)
  /\ asked' = IF disturbed /\ ~mixed
              THEN [k \in Task |-> k = TaskOf[c] /\ state[c]] ELSE asked
  /\ UNCHANGED <<HasTraces, m_accel_updates, m_updating_ga, timerVars, mode, state, mixed>>

-----------------------------------------------------------------------------

TimerStep(t) == TimerUpdate(t) \/ TimerTest(t) \/ TimerRearm(t)
ModeStep == ModeCancel \/ ModeSet \/ ModeTest \/ ModeArm
UseStep(c) == UseOwn(c) \/ UseTest(c) \/ UseSet(c) \/ UseTimer(c) \/ UseTraces(c)

Next ==
  \/ \E t \in Thread : TimerFires(t) \/ TimerStep(t)
  \/ ModeStart \/ ModeStep
  \/ \E c \in Context, s \in BOOLEAN : UseStart(c, s)
  \/ \E c \in Context : UseRefused(c) \/ UseStep(c)

Spec == Init /\ [][Next]_vars

(* An armed timer fires, and what was begun goes on. *)
Fairness ==
  /\ WF_vars(\E t \in Thread : TimerFires(t))
  /\ \A t \in Thread : WF_vars(TimerStep(t))
  /\ WF_vars(ModeStep)
  /\ \A c \in Context : WF_vars(UseStep(c))

FairSpec == Spec /\ Fairness

-----------------------------------------------------------------------------
(* Properties *)

(* No operation is under way, and the last switch was made alone.          *)
Quiet == mode = "idle" /\ NoCall /\ ~disturbed

(* When no operation is under way, somebody keeps the screen up to date:   *)
(* the accelerator, or traces, or a timer that is armed or running,        *)
(* whatever the timer, setDisplayMode and a switch do meanwhile.  Calls of *)
(* useAccelUpdates that overlap may leave the screen to nobody; the next   *)
(* switch that no other call overlaps puts it right.                       *)
ScreenRefreshed ==
  Quiet => \/ m_accel_updates
           \/ traces
           \/ armed
           \/ \E t \in Thread : timer[t] # "idle"

(* The accelerator's updates are on exactly while some task has asked for  *)
(* them, no other task's call or close has switched them off or taken them *)
(* over, and the device does not trace writes at the same time; again but  *)
(* for calls that overlap.                                                 *)
AccelOwned ==
  Quiet => /\ m_accel_updates <=> \E k \in Task : asked[k]
           /\ \A k \in Task : asked[k] <=> m_updating_ga = k
           /\ m_accel_updates => ~traces

(* A timer rearmed at the wrong moment fires once more and then stops.     *)
TimerStops == <>[]m_accel_updates => <>[](~armed)

(* Left alone, the timer updates the screen again and again, unless the    *)
(* last switch overlapped with another call.                               *)
TimerGoesOn ==
  ~HasTraces /\ <>[](Quiet /\ ~m_accel_updates)
    => []<>(\E t \in Thread : timer[t] = "update")
=============================================================================
