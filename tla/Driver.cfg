SPECIFICATION Spec
CONSTANTS
  Inputs <- MCInputs
  Sizes <- MCSizes
  MaxRuns <- MCMaxRuns
INVARIANTS
  TypeOK
  StoresFit
  ProperTracesAreSafe
  ErrorsAddUp
  UtilityIsOfTheTrace
PROPERTIES
  DriverEnds
CHECK_DEADLOCK FALSE
