CONSTANTS
  Discovery = TRUE
  NVT_MAX_DEVICES = 2
  PciFunctions <- MCPciFunctions
  Pci <- MCPci
  VAs = {1, 2}
  U32Modulus <- MCU32Modulus
  MaxFiles = 1
  Targets <- MCTargets
  Hints <- MCHints
  Handles = {0, 1, 2}
  Offsets <- MCOffsets
  Counts <- MCCounts
  Buffers <- MCBuffers
SPECIFICATION Spec
INVARIANTS
  TypeOK
  ViewLedger
  OneMappingPerBar
  AccessConfined
  InfoFitsBuffer
  MapReplyTrue
  FreeSlotForNewGpu
