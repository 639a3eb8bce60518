\* One plan, one Erasure.
SPECIFICATION Spec
CONSTANTS
  c1 = c1  c2 = c2  p1 = p1  p2 = p2
  Contacts = {c1, c2}
  Latecomers = {}
  Erasable = {c1}
  Plans = {p1}
  Leftovers = {}
  ChunkSize = 1
  MaxJobs = 1
  MaxAttempts = 2
  MaxFaults = 0
CHECK_DEADLOCK FALSE
INVARIANTS NoRowBlocksForever
