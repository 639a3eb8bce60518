SPECIFICATION FairSpec
CONSTANTS
  Requests = {r1, r2}
  Confirms = {c1}
  MaxFaults = 1
INVARIANTS TypeOK OptOutInFull StaleConsentStaysGone
PROPERTIES RefusalRecorded
CHECK_DEADLOCK FALSE
