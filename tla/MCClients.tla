----------------------------- MODULE MCClients -----------------------------
(***************************************************************************)
(* Values for model-checking Clients: two GPUs and lists of them a         *)
(* command may be given.                                                   *)
(***************************************************************************)
EXTENDS Clients, TLC

MCU32Modulus == 2 ^ 30

Gpu(low) ==
  [readable |-> TRUE, vendor |-> PCI_VENDOR_NVIDIA, class |-> 3, io |-> FALSE,
   wide |-> FALSE, low |-> low, high |-> 0]

GpuA == <<1, 0, 0>>
GpuB == <<2, 0, 0>>

TwoGpus       == (GpuA :> Gpu(4096)) @@ (GpuB :> Gpu(8192))
GpusA         == {GpuA}
GpusAB        == {GpuA, GpuB}

(* pci_win reports the size of the memory resource or 0.                   *)
MCHints   == {0, NVTUNE_MIN_BAR0_LENGTH}
MCOffsets == {0, \h9A0290}
MCCounts  == {1}
MCBuffers == {VersionBuf, MapBuf, HandleBuf, ReadBuf, WriteBuf, BlockBuf(1)}

ListAB  == <<GpuA, GpuB>>
ListAA  == <<GpuA, GpuA>>
ListAAB == <<GpuA, GpuA, GpuB>>

(* Processes differ in nothing.                                            *)
AnyProcess == Permutations(Procs)
=============================================================================
