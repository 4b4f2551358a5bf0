SPECIFICATION FairSpec
CONSTANTS
  Controllers = {a, b}
  Nobody = nobody
  a = a
  b = b
  Commands <- FirstContractCommands
  MaxContracts = 2
INVARIANTS CompletionHasEvidence ReturnedExecutionsAreAccounted ReportTellsTheOutcome
PROPERTIES ConcludedRowsStand RunSettles
CHECK_DEADLOCK FALSE
