CONSTANTS
  Partitions <- MCPartitions
  Fields <- MCFields
  RegisterTable <- MCRegisterTable
  Named <- MCNamed
  Values <- MCValues
  Ours <- MCOurs
  PStates <- UniformPStates
  Assign <- MCAssign
  Poked = {}
  FarOffsets = FALSE
  Procs = {p}
  Commands <- DaemonOneFbpa
  StockAtStart = FALSE
  Faults = FALSE
  Kills = FALSE
  MaxReprograms = 0
  MaxStarts = 1
SPECIFICATION Spec
PROPERTY KeepsToTarget
CHECK_DEADLOCK FALSE
