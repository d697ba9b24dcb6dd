CONSTANTS
  Partitions <- MCPartitions
  Fields <- MCFields
  RegisterTable <- MCRegisterTable
  Named <- MCNamed
  Values <- MCValues
  Ours <- MCOurs
  PStates <- UniformPStates
  Assign <- MCAssign
  Poked = {1, 2}
  FarOffsets = TRUE
  Procs = {p}
  Commands <- PokeOneFbpa
  StockAtStart = FALSE
  Faults = FALSE
  Kills = FALSE
  MaxReprograms = 0
  MaxStarts = 1
SPECIFICATION Spec
PROPERTY PokeKeepsToTarget
CHECK_DEADLOCK FALSE
