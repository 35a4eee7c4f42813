SPECIFICATION Spec
CONSTANTS
  Radix <- MCRadix
  RecordThresh <- MCRecordThresh
  Times <- MCTimes
  Starts <- MCStarts
  Ticks <- MCTicks
  Rates <- MCRates
  Ks <- MCKs
  Limits <- MCLimits
  Epsilons <- MCEpsilons
  Den <- MCDen
  Sizes <- MCSizes
  Blocks <- MCBlocks
INVARIANTS
  TypeOK
  SweepsInBuffer
  HoldsBest
PROPERTIES
  ResultIsLeast
  MeasurementEnds
CHECK_DEADLOCK FALSE
