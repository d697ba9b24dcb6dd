CONSTANTS
  short = short
  long = long
  Missing = Missing
  Writers = {p, q}
  Docs <- MCDocs
  Blocks <- MCBlocks
  Exclusive = TRUE
  EarlyFaults = FALSE
  LateFaults = TRUE
  Kills = FALSE
SPECIFICATION MCSpec
INVARIANT PathWhole
