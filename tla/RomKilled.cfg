CONSTANTS
  Discovery = FALSE
  Procs = {p}
  RomAtStart = 1
  MappedLength = 4194304
  Writable = TRUE
  Faults = FALSE
  MidKills = TRUE
SPECIFICATION Spec
INVARIANT RestoreOwed
