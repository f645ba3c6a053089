-------------------------- MODULE RefreshTimer_proofs --------------------------
(***************************************************************************)
(* Proofs about RefreshTimer, for every set of contexts, tasks and kernel  *)
(* threads, and however calls of useAccelUpdates overlap: what a switch    *)
(* that was made alone leaves behind.                                      *)
(***************************************************************************)
EXTENDS RefreshTimer, TLAPS

-----------------------------------------------------------------------------
(* The inductive invariant *)

TypeOK ==
  /\ HasTraces \in BOOLEAN
  /\ m_accel_updates \in BOOLEAN
  /\ m_updating_ga \in Task \cup {NoTask}
  /\ armed \in BOOLEAN
  /\ traces \in BOOLEAN
  /\ timer \in [Thread -> {"idle", "update", "test", "rearm"}]
  /\ mode \in {"idle", "cancel", "set", "test", "arm"}
  /\ pc \in [Context -> {"idle", "own", "test", "set", "timer", "traces"}]
  /\ state \in [Context -> BOOLEAN]
  /\ mixed \in BOOLEAN
  /\ disturbed \in BOOLEAN
  /\ asked \in [Task -> BOOLEAN]

(* Unless calls overlap there is one, and calls that overlap are           *)
(* remembered until a switch is made alone.                                *)
MixedInv ==
  /\ mixed => disturbed
  /\ ~mixed => \A c, d \in Context : pc[c] # "idle" /\ pc[d] # "idle" => c = d

(* Where a lone call is decides which of m_updating_ga and m_accel_updates *)
(* follow its argument already.                                            *)
LoneCallInv ==
  ~mixed => \A c \in Context :
    /\ pc[c] = "own" => m_updating_ga \in {NoTask, TaskOf[c]}
    /\ pc[c] \notin {"idle", "own"} =>
         m_updating_ga = IF state[c] THEN TaskOf[c] ELSE NoTask
    /\ pc[c] \in {"timer", "traces"} => state[c] = m_accel_updates

(* Without overlaps the task that asked last owns the updates, and they    *)
(* are on unless a call is about to switch them.                           *)
OwnerInv ==
  ~disturbed =>
    /\ \A k \in Task : asked[k] <=> m_updating_ga = k
    /\ (\A c \in Context : pc[c] \in {"idle", "own"})
         => (m_accel_updates <=> m_updating_ga # NoTask)

TracesInv ==
  ~disturbed /\ (\A c \in Context : pc[c] \notin {"timer", "traces"})
    => traces = (HasTraces /\ ~m_accel_updates)

(* Without traces and without the accelerator, the timer is armed or       *)
(* running, or somebody is under way to restart it: a useAccelUpdates      *)
(* about to call scheduleRefreshTimer, or a setDisplayMode past its        *)
(* cancelRefreshTimer.  A lone call has seen to that once it is past the   *)
(* timer, whatever was left by calls before it.                            *)
TimerInv ==
  /\ ~HasTraces /\ ~m_accel_updates
  /\ ~disturbed \/ (~mixed /\ \E c \in Context : pc[c] = "traces")
  =>
    \/ armed
    \/ \E t \in Thread : timer[t] # "idle"
    \/ mode \in {"set", "test", "arm"}
    \/ \E c \in Context : pc[c] = "timer"

RefreshInv == TypeOK /\ MixedInv /\ LoneCallInv /\ OwnerInv /\ TracesInv /\ TimerInv

-----------------------------------------------------------------------------

(* VMsvga2::start leaves the timer armed, or the device tracing.           *)
LEMMA InitRefreshInv == Init => RefreshInv
BY TimerAssumption
   DEF Init, RefreshInv, TypeOK, MixedInv, LoneCallInv, OwnerInv, TracesInv, TimerInv

(* refreshTimerAction rearms itself or leaves the screen to the            *)
(* accelerator.                                                            *)
LEMMA TimerRefreshInv ==
  ASSUME RefreshInv, NEW t \in Thread, TimerFires(t) \/ TimerStep(t)
  PROVE  RefreshInv'
<1> USE DEF RefreshInv, TypeOK, MixedInv, LoneCallInv, OwnerInv, TracesInv, TimerInv, Run, Schedule,
           history
<1>1. CASE TimerFires(t)
  BY <1>1 DEF TimerFires
<1>2. CASE TimerUpdate(t)
  BY <1>2 DEF TimerUpdate
<1>3. CASE TimerTest(t)
  BY <1>3 DEF TimerTest
<1>4. CASE TimerRearm(t)
  BY <1>4 DEF TimerRearm
<1> QED
  BY <1>1, <1>2, <1>3, <1>4 DEF TimerStep

(* setDisplayMode restarts the timer it has cancelled.                     *)
LEMMA ModeRefreshInv ==
  ASSUME RefreshInv, ModeStart \/ ModeStep
  PROVE  RefreshInv'
<1> USE DEF RefreshInv, TypeOK, MixedInv, LoneCallInv, OwnerInv, TracesInv, TimerInv,
           Go, Schedule, Cancel, timerVars, history
<1>1. CASE ModeStart
  BY <1>1 DEF ModeStart
<1>2. CASE ModeCancel
  BY <1>2 DEF ModeCancel
<1>3. CASE ModeSet
  BY <1>3 DEF ModeSet
<1>4. CASE ModeTest
  BY <1>4 DEF ModeTest
<1>5. CASE ModeArm
  BY <1>5 DEF ModeArm
<1> QED
  BY <1>1, <1>2, <1>3, <1>4, <1>5 DEF ModeStep

(* useAccelUpdates hands the screen over.                                  *)
LEMMA UseRefreshInv ==
  ASSUME RefreshInv, NEW c \in Context,
         UseStep(c) \/ \E s \in BOOLEAN : UseStart(c, s)
  PROVE  RefreshInv'
<1> USE TimerAssumption
    DEF RefreshInv, TypeOK, MixedInv, LoneCallInv, OwnerInv, TracesInv, TimerInv,
        At, Schedule, Cancel, timerVars, history
<1>1. ASSUME NEW s \in BOOLEAN, UseStart(c, s)
      PROVE  RefreshInv'
  <2>1. TypeOK' /\ MixedInv'
    BY <1>1 DEF UseStart, NoCall
  <2>2. CASE NoCall
    <3>1. LoneCallInv'
      BY <1>1, <2>2 DEF UseStart, NoCall
    <3>2. OwnerInv' /\ TracesInv'
      BY <1>1, <2>2 DEF UseStart, NoCall
    <3>3. TimerInv'
      BY <1>1, <2>2 DEF UseStart, NoCall
    <3> QED
      BY <2>1, <3>1, <3>2, <3>3
  <2>3. CASE ~NoCall
    <3>1. mixed' /\ disturbed'
      BY <1>1, <2>3 DEF UseStart
    <3> QED
      BY <2>1, <3>1
  <2> QED
    BY <2>2, <2>3
<1>2. CASE UseOwn(c)
  BY <1>2 DEF UseOwn
<1>3. CASE UseTest(c)
  BY <1>3 DEF UseTest
<1>4. CASE UseSet(c)
  BY <1>4 DEF UseSet
<1>5. CASE UseTimer(c)
  BY <1>5 DEF UseTimer
<1>6. CASE UseTraces(c)
  BY <1>6 DEF UseTraces
<1> QED
  BY <1>1, <1>2, <1>3, <1>4, <1>5, <1>6 DEF UseStep

LEMMA NextRefreshInv ==
  ASSUME RefreshInv, [Next]_vars
  PROVE  RefreshInv'
<1>1. CASE UNCHANGED vars
  BY <1>1 DEF vars, timerVars, history,
              RefreshInv, TypeOK, MixedInv, LoneCallInv, OwnerInv, TracesInv, TimerInv
<1>2. CASE \E t \in Thread : TimerFires(t) \/ TimerStep(t)
  BY <1>2, TimerRefreshInv
<1>3. CASE ModeStart \/ ModeStep
  BY <1>3, ModeRefreshInv
<1>4. CASE \E c \in Context, s \in BOOLEAN : UseStart(c, s)
  BY <1>4, UseRefreshInv
<1>5. CASE \E c \in Context : UseRefused(c) \/ UseStep(c)
  BY <1>1, <1>5, UseRefreshInv DEF UseRefused
<1> QED
  BY <1>1, <1>2, <1>3, <1>4, <1>5 DEF Next

(* The invariant of the three parties that share m_accel_updates.          *)
THEOREM RefreshInvariant == Spec => []RefreshInv
<1>1. RefreshInv /\ [Next]_vars => RefreshInv'
  BY NextRefreshInv
<1> QED
  BY <1>1, InitRefreshInv, PTL DEF Spec

-----------------------------------------------------------------------------

(* When nothing is under way and the last switch was made alone, the       *)
(* screen is updated by the accelerator, by the device's traces, or by a   *)
(* timer that is armed or running.                                         *)
THEOREM ScreenAlwaysRefreshed == Spec => []ScreenRefreshed
<1>1. RefreshInv => ScreenRefreshed
  BY DEF RefreshInv, TypeOK, TracesInv, TimerInv, ScreenRefreshed, Quiet, NoCall
<1> QED
  BY <1>1, RefreshInvariant, PTL

(* The updates are on exactly while a task has asked for them, which no    *)
(* other task's call has undone, and the device does not trace writes      *)
(* while the accelerator sends updates; but for calls that overlap.        *)
THEOREM AccelUpdatesOwned == Spec => []AccelOwned
<1>1. RefreshInv => AccelOwned
  BY TimerAssumption DEF RefreshInv, TypeOK, OwnerInv, TracesInv, AccelOwned, Quiet, NoCall
<1> QED
  BY <1>1, RefreshInvariant, PTL
=============================================================================
