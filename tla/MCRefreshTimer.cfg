\* Contexts of two tasks that call useAccelUpdates, setDisplayMode, and two
\* overlapping invocations of the timer; devices with traces and without.
CONSTANTS
  c1 = c1
  c2 = c2
  k1 = k1
  k2 = k2
  t1 = t1
  t2 = t2
  NoTask = NoTask
  Context <- MCContext
  Task <- MCTask
  TaskOf <- MCTaskOf
  Thread <- MCThread
SPECIFICATION FairSpec
INVARIANT ScreenRefreshed
INVARIANT AccelOwned
PROPERTY TimerStops
PROPERTY TimerGoesOn
