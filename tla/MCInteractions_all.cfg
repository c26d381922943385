CONSTANTS
  MaxObjects = 3
  MaxRequests = 4
SPECIFICATION FairSpec
INVARIANT NoWriteBeforeApproval
PROPERTIES OnlyOpenPlanIsApproved WaitsEnd
CHECK_DEADLOCK FALSE
