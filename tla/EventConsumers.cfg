SPECIFICATION Spec
CONSTANTS
  MaxEvents = 2
  Groups = {"persist", "webhooks"}
  Known = {"persist", "webhooks"}
  Personal = {1, 2}
  Endpoints = {p1, p2}
  Kept = {1}
  MaxFaults = 1
INVARIANTS TypeOK OnlyLateEventsName DispatchedInFull CountedOnce
CHECK_DEADLOCK FALSE
