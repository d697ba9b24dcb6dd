CONSTANTS
  Partitions <- MCPartitions
  Fields <- MCFields
  RegisterTable <- MCRegisterTable
  Named <- MCNamed
  Values <- MCValues
  Ours <- MCOurs
  PStates <- UniformPStates
  Assign <- MCAssign
  Poked = {}
  FarOffsets = FALSE
  Procs = {p, q}
  Commands <- SharedCommands
  StockAtStart = TRUE
  Faults = FALSE
  Kills = TRUE
  MaxReprograms = 1
  MaxStarts = 2
SPECIFICATION Spec
PROPERTY ImplementsRollback
CHECK_DEADLOCK FALSE
