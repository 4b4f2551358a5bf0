SPECIFICATION FairSpec
CONSTANTS
  Probes <- ThreeProbes
  MaxAttempts = 2
  MaxTries = 2
  Blockers = {"policy"}
  Elsewhere = {"cancel", "delete"}
INVARIANTS SuspectBatchLeavesNoPlan ReviewIsBacked TreesAreAccounted AbortIsFinal
PROPERTIES InspectionEnds
CHECK_DEADLOCK FALSE
