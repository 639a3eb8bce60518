\* One recipient's key, two concurrent callers that retry until it is decided.
SPECIFICATION FairSpec
CONSTANTS
  b1 = b1  a1 = a1  a2 = a2
  Keys = {b1}
  Attempts = {a1, a2}
  Kind <- KindBroadcast
  OfContact = {b1}
  Unrenderable = {b1}
  Lease = 1
  MaxTime = 4
  MaxFaults = 2
INVARIANTS TypeOK EventIffSent AtMostOnceUnlessOutlived RecordMatchesProvider AnswerIsRecorded OnlyCrossingsKeepAddress OneHolderUnlessStalled
PROPERTIES LiveClaimProtected LedgerSpec Settles
