\* A plan that may run again or meet a second one that is due, a Contact that
\* joins late, fair workers.
SPECIFICATION FairSpec
CONSTANTS
  c1 = c1  c2 = c2  p1 = p1  p2 = p2
  Contacts = {c1, c2}
  Latecomers = {c2}
  Erasable = {}
  Plans = {p1, p2}
  Leftovers = {p2}
  ChunkSize = 1
  MaxJobs = 2
  MaxAttempts = 2
  MaxFaults = 1
CHECK_DEADLOCK FALSE
INVARIANTS RowsAreBacked
PROPERTIES EndsSent
