CONSTANTS
  f = f
  o = o
  p = p
  AllDevices <- MCDevices
  ChipOf <- MCChipOf
  UserFiles = {f, o, p}
  Unnamed = unnamed
  FilesAtStart <- MCFilesAtStart
  Commands <- MCCommands
  Faults = TRUE
  Kills = FALSE
  MaxReprograms = 1
  MaxStarts = 1
SPECIFICATION Spec
INVARIANT DaemonTells
CHECK_DEADLOCK FALSE
