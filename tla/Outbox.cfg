SPECIFICATION FairSpec
CONSTANTS
  MaxEvents = 3
  Groups = {"persist", "audit"}
  Known = {"persist"}
  Personal = {2}
INVARIANTS NothingPrunedUnread
PROPERTIES FeedSpec EveryEventHandled
CHECK_DEADLOCK FALSE
