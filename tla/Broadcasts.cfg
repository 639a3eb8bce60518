\* Two requests at a time, two schedules, three jobs.
SPECIFICATION FairSpec
CONSTANTS
  r1 = r1  r2 = r2  r3 = r3
  Requests = {r1, r2}
  Times = {1, 2}
  MaxTime = 2
  MaxJobs = 3
  MaxEdits = 1
  Unrenderable = {1}
  MaxFaults = 2
CHECK_DEADLOCK FALSE
INVARIANTS ScheduledHasJob SendingHasWork SendsWhatWasApproved
PROPERTIES SendingEnds
