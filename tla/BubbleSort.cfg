SPECIFICATION Spec
CONSTANTS
  IntMax <- MCIntMax
  Numbers <- MCNumbers
  MaxCount <- MCMaxCount
INVARIANTS
  TypeOK
  SameNumbers
  PassesPlace
PROPERTIES
  EndsSorted
CHECK_DEADLOCK FALSE
