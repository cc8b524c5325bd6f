CONSTANTS
  NoValue = NoValue
SPECIFICATION Spec
INVARIANTS TypeOK FullInstallVerified LocalCompleteMeansAllRan
\* The installer is a process that exits: its final state has no successor.
CHECK_DEADLOCK FALSE
