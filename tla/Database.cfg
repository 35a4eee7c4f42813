SPECIFICATION Spec
CONSTANTS
  Procs <- MCProcs
  MaxRows <- MCMaxRows
  Values <- MCValues
  Versions <- MCVersions
  Exclusive = TRUE
INVARIANTS
  TypeOK
  AcknowledgedIsStored
  RowsKnowTheirIds
PROPERTIES
  OnlyDeleteClears
  FailureChangesNothing
