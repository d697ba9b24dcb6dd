CONSTANTS
  f = f
  o = o
  p = p
  AllDevices <- MCDevices
  ChipOf <- MCChipOf
  UserFiles = {f, o, p}
  Unnamed = unnamed
  FilesAtStart <- MCFilesAtStart
  Commands <- MCCommands
  Faults = TRUE
  Kills = TRUE
  MaxReprograms = 1
  MaxStarts = 3
SPECIFICATION Spec
INVARIANT DaemonLeavesNothing StatusTrue
PROPERTY OnlyItsDevice ImplementsRollback
CHECK_DEADLOCK FALSE
