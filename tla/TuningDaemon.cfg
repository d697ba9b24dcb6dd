CONSTANTS
  Partitions <- MCPartitions
  Fields <- MCFields
  RegisterTable <- MCRegisterTable
  Named <- MCNamed
  Values <- MCValues
  Ours <- MCOurs
  PStates <- UniformPStates
  Assign <- MCAssign
  Poked = {}
  FarOffsets = FALSE
  Procs = {p}
  Commands <- DaemonCommands
  StockAtStart = FALSE
  Faults = TRUE
  Kills = TRUE
  MaxReprograms = 2
  MaxStarts = 2
SPECIFICATION FairSpec
INVARIANTS
  Undone
PROPERTIES
  ImplementsRollback
  DaemonHolds
  StopEnds
CHECK_DEADLOCK FALSE
