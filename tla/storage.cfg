SPECIFICATION Spec
CONSTANTS
  Procs = {p, q}
  Runs = {r1, r2}
  SnapshotOf <- OneSnapshot
  Contents = {c}
  Retention = 1
  MaxClock = 1
  NoReport = none
SYMMETRY Symmetry
INVARIANTS RowsHaveTheirFiles SnapshotsGoWithTheLastRun
PROPERTIES PurgeTakesOnlyWhatExpired
CHECK_DEADLOCK FALSE
