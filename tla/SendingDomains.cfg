SPECIFICATION FairSpec
CONSTANTS
  Selectors = {s1, s2}
  Default = s1
  Checks = {c1, c2}
  MaxChanges = 4
  MaxFaults = 1
INVARIANTS VerdictIsCurrent
PROPERTIES VerdictSettles
CHECK_DEADLOCK FALSE
