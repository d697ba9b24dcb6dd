CONSTANTS
  Discovery = FALSE
  Procs = {p}
  RomAtStart = 1
  MappedLength = 4194304
  Writable = FALSE
  Faults = FALSE
  MidKills = FALSE
SPECIFICATION Spec
PROPERTY ClearedForRead
