CONSTANTS
  Discovery = FALSE
  NVT_MAX_DEVICES = 2
  PciFunctions <- GpusAB
  Pci <- TwoGpus
  VAs = {1, 2}
  U32Modulus <- MCU32Modulus
  MaxFiles = 4
  Targets <- GpusAB
  Hints <- MCHints
  Handles = {0, 1}
  Offsets <- MCOffsets
  Counts <- MCCounts
  Buffers <- MCBuffers
  Procs = {p}
  DeviceList <- ListAAB
SPECIFICATION ClientSpec
INVARIANT ReachesOwnDevice
