SPECIFICATION Spec
CONSTANTS
  Procs <- MCProcs
  MaxRows <- MCMaxRows
  Values <- MCValues
  Versions <- MCNewVersion
  Exclusive = FALSE
PROPERTIES
  OnlyDeleteClears
