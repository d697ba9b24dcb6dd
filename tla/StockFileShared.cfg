CONSTANTS
  short = short
  long = long
  Missing = Missing
  Writers = {p, q}
  Docs <- MCDocs
  Blocks <- MCBlocks
  Exclusive = FALSE
  EarlyFaults = FALSE
  LateFaults = FALSE
  Kills = FALSE
SPECIFICATION MCSpec
INVARIANT PathWhole
