CONSTANTS
  Ids <- MCIds
  Keys <- MCKeys
  Vals <- MCVals
  Indents <- MCIndents
  MaxPairs = 2
SPECIFICATION Spec
\* An exception that escapes processExternalSignal ends gem5.
CHECK_DEADLOCK FALSE
INVARIANT DeliveredAsWritten
