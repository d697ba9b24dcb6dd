CONSTANTS
  short = short
  long = long
  Missing = Missing
  Writers = {p, q}
  Docs <- MCDocs
  Blocks <- MCBlocks
  Exclusive = TRUE
  EarlyFaults = TRUE
  LateFaults = FALSE
  Kills = TRUE
SPECIFICATION MCSpec
INVARIANT PathWhole ReportTrue RoundTrip TruncationRefused
PROPERTY ImplementsAtomicFile
