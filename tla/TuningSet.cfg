CONSTANTS
  Partitions <- MCPartitions
  Fields <- MCFields
  RegisterTable <- MCRegisterTable
  Named <- MCNamed
  Values <- MCValues
  Ours <- MCOurs
  PStates <- MixedPStates
  Assign <- MCAssign
  Poked = {1, 2}
  FarOffsets = TRUE
  Procs = {p}
  Commands <- ScopedCommands
  StockAtStart = FALSE
  Faults = TRUE
  Kills = TRUE
  MaxReprograms = 0
  MaxStarts = 3
SPECIFICATION Spec
INVARIANTS
  TypeOK
  RollbackKept
  Applied
PROPERTIES
  StockBack
  UnassignedKept
  KeepsToTarget
CHECK_DEADLOCK FALSE
