CONSTANTS
  Partitions <- MCPartitions
  Fields <- WideFields
  RegisterTable <- WideTable
  Named <- MCNamed
  Values <- MCValues
  Ours <- MCOurs
  PStates <- WidePStates
  Assign <- MCAssign
  Poked = {1, 2, 3}
  FarOffsets = FALSE
  Procs = {p}
  Commands <- BroadcastCommands
  StockAtStart = FALSE
  Faults = TRUE
  Kills = TRUE
  MaxReprograms = 0
  MaxStarts = 3
SPECIFICATION Spec
INVARIANTS
  RollbackKept
  Applied
  Agree
PROPERTIES
  StockBack
  UnassignedKept
CHECK_DEADLOCK FALSE
