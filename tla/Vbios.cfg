CONSTANTS
  Discovery = FALSE
  Procs = {p, q}
  RomAtStart = 1
  MappedLength = 4194304
  Writable = TRUE
  Faults = TRUE
  MidKills = FALSE
  Images <- MCImages
SPECIFICATION MCSpec
INVARIANT RestoreOwed ChunksAllowed BlobWhole ReadsInside FirstTableFound
PROPERTY RomComesBack
