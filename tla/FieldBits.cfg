CONSTANTS
  Words <- MCWords
  Samples <- MCSamples
  MaxAssigned = 2
  Discovery = FALSE
  Boot0s <- MCBoot0s
  Counts <- MCCounts
  Fuses <- MCFuses
  AllOnes <- MCAllOnes
  MappedLength = 16777216
SPECIFICATION MCSpec
INVARIANTS
  PlanExact
  PartitionsReachable
CHECK_DEADLOCK FALSE
