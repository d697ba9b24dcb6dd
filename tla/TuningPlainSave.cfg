CONSTANTS
  Partitions <- MCPartitions
  Fields <- MCFields
  RegisterTable <- MCRegisterTable
  Named <- MCNamed
  Values <- MCValues
  Ours <- MCOurs
  PStates <- UniformPStates
  Assign <- MCAssign
  Poked = {}
  FarOffsets = FALSE
  Procs = {p}
  Commands <- PlainSave
  StockAtStart = FALSE
  Faults = FALSE
  Kills = FALSE
  MaxReprograms = 0
  MaxStarts = 2
SPECIFICATION Spec
INVARIANT RollbackKept
CHECK_DEADLOCK FALSE
