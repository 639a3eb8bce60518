\* One Automation, one Event, three places in the queue, one fault, fair jobs.
SPECIFICATION FairSpec
CONSTANTS
  x = x  y = y  t1 = t1  t2 = t2  j1 = j1  j2 = j2  j3 = j3  j4 = j4
  Gone = Gone
  Automations = {x}
  Definitions <- Mixed
  Triggers = {t1}
  Jobs = {j1, j2, j3}
  MaxFaults = 1
CHECK_DEADLOCK FALSE
PROPERTIES EnrollmentEnds
