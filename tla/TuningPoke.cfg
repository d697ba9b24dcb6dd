CONSTANTS
  Partitions <- MCPartitions
  Fields <- WideFields
  RegisterTable <- WideTable
  Named <- MCNamed
  Values <- MCValues
  Ours <- MCOurs
  PStates <- WidePStates
  Assign <- MCAssign
  Poked = {3}
  FarOffsets = FALSE
  Procs = {p}
  Commands <- PokeOnly
  StockAtStart = FALSE
  Faults = FALSE
  Kills = FALSE
  MaxReprograms = 0
  MaxStarts = 2
SPECIFICATION Spec
INVARIANT Undone
CHECK_DEADLOCK FALSE
