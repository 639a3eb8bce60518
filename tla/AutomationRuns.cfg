\* One Automation, two Events, four places in the queue, two faults.
SPECIFICATION Spec
CONSTANTS
  x = x  y = y  t1 = t1  t2 = t2  j1 = j1  j2 = j2  j3 = j3  j4 = j4
  Gone = Gone
  Automations = {x}
  Definitions <- Mixed
  Triggers = {t1, t2}
  Jobs = {j1, j2, j3, j4}
  MaxFaults = 2
SYMMETRY Places
CHECK_DEADLOCK FALSE
INVARIANTS TypeOK ActiveIsWalked OneWalker NoStepSkipped OnlyLateRunsOutlive
PROPERTIES WaitsAreWaited
