# Formal specification of nvtune

nvtune reads and writes the memory timings of NVIDIA GPUs on Windows. A small
kernel driver (`src/driver`) maps the GPU's register window, BAR0, and lets
administrators read and write an allowlisted part of it; a command line tool
(`src/tool`) decodes the timing registers, changes fields, keeps a file of the
stock values, and can hold a set of values against the display driver, which
reprograms the registers at every change of p-state.

This directory holds TLA+ models of that system, TLC configurations that check
them, and theorems about them with machine-checked proofs. `PROJECT.json` maps
every definition to the lines it models.

## The system

| part | source | state | operations |
|---|---|---|---|
| kernel driver | `driver/nvtunedrv.c`, `nvtunedrv_ioctl.h` | `g_Mappings`, one table of 8 slots shared by all callers; the kernel views behind it; `g_Lock` | GET_VERSION, MAP_BAR0, UNMAP_BAR0, READ32, WRITE32, READ_BLOCK; create, close, load, unload |
| allowlist | `driver/include/nvtune_ranges.h` | constant table | `NvtRangeAllowed` |
| BAR0 access | `tool/src/mmio_win.cpp` | per `Bar0`: driver file, handle, length, base | open, close, rd32, wr32, rd_block |
| GPU | `tool/src/gpu.cpp` | `Bar0`, BOOT_0, layout | open, topology, plan, commit, backup, profile_fields, restore |
| registers and fields | `tool/src/regs.cpp`, `regs.hpp` | constant table of 7 registers, 37 fields | mask, extract, insert, lookup |
| commands | `tool/src/cli.cpp` | the stock file on disk, `g_stop` | set, apply, save, restore, daemon, poke; list, dump, get, peek, probe, vbios only read |
| chip identification | `tool/src/arch.cpp` | constant tables | identify |
| VBIOS | `tool/src/vbios.cpp` | ROM access register | read_prom, find_tweak_table |
| PCI enumeration | `tool/src/pci_win.cpp` | none | enumerate_gpus, find |
| JSON, platform | `json.cpp`, `platform_win.cpp` | files | parse, write_file_atomic, paths, signals |

How they interact: a command opens a `Gpu` per device; each `Gpu` owns a
`Bar0`, which opens its own file on the driver, asks for its version and maps
the device's BAR0. The driver looks the physical base up in PCI config space
and answers with a slot number (the handle) and a length. The slot is shared by
every client of that BAR. Every register access is one IOCTL, checked by the
driver against the mapped length and the allowlist. A `set` reads the registers
it touches (plan), makes sure of a stock file, writes and reads back (commit).
A `restore` writes the file back. A `daemon` repeats plan and commit until
Ctrl-C and then restores. Outside all this the display driver writes the same
registers when it pleases.

What is hard, and hard to test:

* several processes share the driver's table without owning anything in it; a
  process can die between any two IOCTLs and nothing unmaps for it;
* the driver's bounds come from a length another process may have chosen;
* every write of a timing field is a read-modify-write in two IOCTLs, with the
  display driver and other processes in between;
* the broadcast aperture writes every memory partition and reads one;
* the stock file is the only way back: it has to be there before the first
  write and must never be replaced by tuned values;
* a p-state change, an error or a signal can come at any point of the daemon's
  pass;
* a command works on several GPUs in turn, each with files of its own, and an
  error on one must neither be lost nor take the others with it;
* a stock file is replaced by way of a temporary file, while processes die and
  disks fill; and a file that is only part of a document must not be restored;
* reading the ROM clears a register that has to get its value back whatever
  throws, and what was read is a foreign image that may lie about its sizes.

What makes each part correct:

* driver: slots and kernel views correspond one to one whatever callers do; an
  access that reaches the bus goes through a live view of a GPU's BAR0, ends
  inside it and, if it writes, stays in an FBPA aperture or the ROM-access
  register; a reply is true and fits its buffer; dead clients never use up the
  table;
* BAR0 access: no path of open, close or unwinding loses a file; a handle that
  is held maps the device it was opened for;
* commands: the stock file is taken once, before any write, and is never
  replaced; a restore puts back the very words that were there; only what was
  asked for is written, and it is written everywhere it was asked for; an
  interrupted daemon ends and leaves nothing behind; a daemon left alone holds
  its values;
* commands on several GPUs: each GPU has a stock file of its own; the
  exit status is true of every GPU that was opened; a profile that names a GPU
  changes no other;
* fields: a plan changes the assigned fields and no other bit;
* topology: a partition that `--all-fbpa` lists can be addressed and written;
* files: a save is all or nothing, what is reported is there, and what is read
  back is what was written or is refused;
* VBIOS: the register gets its value back, the blob was read from the ROM, and
  the search neither reads beyond an image nor misses its first table.

## Modules

| module | models |
|---|---|
| `Arch` | aperture geometry of the two layouts, register offsets |
| `Ranges` | the allowlist and its test; and, stated independently from the geometry, where a write may go |
| `Driver` | `nvtunedrv.c`: one action per IOCTL and per driver entry point, arbitrary callers |
| `Bar0Service` | abstract: a partial function from BARs to mapped lengths, and accesses through it |
| `Clients` | processes with a `Bar0` per device on top of `Driver` (extends it) |
| `Tuning` | one GPU, access by access: plan, commit, backup and restore as the commands use them, the stock file, the display driver |
| `RollbackFile` | abstract: the stock file of each GPU is taken once, while nothing is tuned, and nothing is tuned without it |
| `Fleet` | several GPUs, command by command: which are opened, their files, errors, exit status |
| `FieldBits` | the register table and the words plan builds, to the bit |
| `Topology` | `identify` and `active_fbpas`: the layout of a chip and the partitions it has |
| `AtomicFile` | abstract: a save is one step or none |
| `StockFile` | `write_file_atomic`: the temporary file, the flushes, the rename, deaths |
| `Json` | `Value::dump` and the parser, symbol by symbol; what reading a truncated file does |
| `RomAccess` | `read_prom` with the chunks of `Bar0::rd_block` |
| `TweakTable` | `find_tweak_table` and `plausible` on images that claim anything |
| `MCDriver`, `MCClients`, `MCTuning`, `MCFleet` | values for TLC |
| `MCStockFile`, `MCVbios`, `MCFieldBits` | values for TLC, two components each |
| `DriverProofs`, `ServiceProofs`, `ClientsProofs`, `TuningProofs`, `FleetProofs`, `StockFileProofs` | theorems about the module of that name (`ServiceProofs`: the refinement of `Bar0Service`) |
| `FieldBitsProofs`, `VbiosProofs` | theorems about two modules each: `FieldBits` and `Topology`, `RomAccess` and `TweakTable` |

Two components that share no state but belong together, such as the write of a
stock file and its text, are checked in one configuration: the next-state
relation of the MC module lets a behaviour be one of the first or one of the
second, never a mixture, so that a state of the one is not multiplied by the
states of the other.

**Driver.** `NvtDeviceControl` takes `g_Lock` before its switch and releases it
after, so each IOCTL is one atomic action. The state is `mappings`
(`g_Mappings`), `views` (what `MmMapIoSpace` returned and nobody unmapped yet),
`files` (open files by access, which decides what the I/O manager lets
through), `loaded`, `reply` (how the last IRP was completed, with the size of
the caller's buffer), and `bus` (the access the last step made, through which
view). Inputs are a handle, an offset, a count, a device triple, a length hint
and two buffer lengths, all unconstrained. Arithmetic that is 32 bits wide in C
wraps (`count * 4`); the end of a range is computed in 64 bits in C and does
not. `MmMapIoSpace` may fail at any time, and so may the creation of the device
in `DriverEntry`.

**Clients.** Each pair of a process and a device has a `Bar0` whose stage
follows `Bar0::open`, `Gpu::open` and `Bar0::close`. Every request is the
driver's own action of that name with the buffers `mmio_win.cpp` passes. A
process may leave at any stage, by being killed or through `std::exit`, which
unwinds nothing: the system then closes its files and nothing unmaps.
`Apart` says that the user never has one GPU open twice, by two processes or
by one that is given its name twice; processes on different GPUs overlap
freely. `ApartSpec` is the system under such a user. The code does not enforce
it: the tool opens the device with share mode 0, but the device object is not
exclusive and the driver's create routine checks nothing.

**Tuning.** Words are functions from the fields of a register to values, since
nothing here depends on bits (`FieldBits` is about those). One step is one
access to the bus or to the stock file. A command is a little program: `pc`,
`scopes` still to plan, `todo` accesses of the present loop, `ops` planned
writes, `snap` the words read for a file. `scopes` and `todo` are sets of which
the least member is always taken next, so the order is the code's (broadcast,
then the partitions, registers in the table's order); a file and a plan are
functions from `<<scope, register>>` to words, as the JSON objects are maps. The
environment can change the p-state (`Reprogram`), interrupt a daemon, kill a
process, or make an access throw. `write_file_atomic` is one step, which
`StockFile` and its refinement of `AtomicFile` justify.
A poke adds an offset that nothing bounds to the base of the aperture it was
asked for, so it may be a register of any other (`FarOffsets`); without
`FarOffsets` users poke inside the aperture they name. A write that is made
takes: what the read-back of a commit or a restore can show is that the display
driver came in between. Words that do not take are in `Fleet`.

**Fleet.** The dual abstraction: all the timings of a GPU are one word, and
what matters is which GPU's word is in which file and in which registers. The
stock word of GPU g is g. `AllDevices` is the list `enumerate_gpus` answers
with, any sequence of numbers; a process moves by `NextAt`, `NextTold` and
`Fail`: to the next GPU, to the next after an error message, to the end. A step is one GPU's part of one stage of a command
(stock file, backup, commit, load, the daemon's pass, its rollback); an error
may leave a GPU's word old or new. The same goes for writes that come to their
end and do not take (`WriteDiffers`, `RestoreDiffers`): `Gpu::commit` and
`Gpu::restore` answer with the words that differ; set, apply, poke and restore
print them and end with status 1, the daemon drops them, which the field
`differed` remembers. The order of the code is kept: the devices
are all opened before the first is touched, a device that fails to open is
skipped, `save` refuses one file for several GPUs only after opening them, the
daemon makes sure of all stock files before it writes to any GPU. Where an
exception ends up differs from command to command: `restore`, `poke` and the
daemon's rollback catch it and go on, everything else leaves through `main`.

**RollbackFile.** `Tuning` and `Fleet` look at the same commands from two
distances. What they have to agree on is the way back, and both implement this
module: `Tuning` with one GPU and its file word by word, next to other
processes and the display driver, `Fleet` with all GPUs and their files whole.

**FieldBits.** A 32-bit word is the set of its one bits, which keeps shifts and
masks exact. The loop over the items of a register runs in any order, although
the code's order is by name: the result must not depend on it.

**Topology.** Registers answer with any word; `num_fbpa`, `floorswept_mask` and
the cutover of `identify` are computed from them as the code does.

**StockFile.** A file is a sequence of blocks, a block what one flush writes.
The last flush is the stream's destructor's, after the code has asked for
errors (`LateFaults`). Two processes use one temporary name; an open stream
keeps it from being renamed or removed. The rename and the return after it are
one step (`Move`): nothing of the program lies between, and a process that dies
there has saved without having said so, which `ReportTrue` is not about.
**Json** has the two directions as
recursive operators over symbols: a character, a blank, a word.

**RomAccess.** Each register access and each chunk is one step, calls may
overlap, and every access before the one that puts the value back may throw. A
process may be killed; with `MidKills`, which the run leaves out, also after it
has cleared the register, and then nothing puts the value back:
`RestoreOwed` and `RomComesBack` are about calls that live. The command vbios
itself opens its devices read-only and never clears the register
(disagreement 9), so this is about `read_prom`'s contract.
The history variable `mixed` remembers which calls overlapped another.

**TweakTable.** An image is its size and the headers found at its signatures.
`reach` records how far the last read went; `ReadsInside` compares it with the
size, `FirstTableFound` compares the search with a definition of what a table
is, written from the layout at `vbios.hpp:15` and not from the code's test.

### What is abstracted

Register values, device ids, version numbers and printed text; JSON text is
symbols in `Json` and left out elsewhere. The allowlist and the offsets are not: `AccessConfined` is about numbers. Kernel and
Windows behaviour is modelled from how the code uses it and is marked external
in `PROJECT.json`. In `Tuning` there is one GPU, and the driver below it is the
hardware itself: what the driver may refuse is `Throw`.

## Runs

| run | shows | states |
|---|---|---|
| `driver` | two slots, arbitrary callers of the discovery build (its overlapping read-only windows); two GPUs with 64-bit BARs that share their low half, one reachable by two device numbers; an audio function, an unassigned BAR and an I/O BAR that must be refused | 21 857 |
| `clients_apart` | two overlapping processes, two GPUs neither of which is ever open twice, killed at any point; also the refinement to `Bar0Service` | 415 909 |
| `clients_shared` | overlapping processes on two GPUs: finding 1 | |
| `tuning_set` | set and daemon per partition, save --profile, restore, pokes that may land in any partition's named registers, with faults and kills; partitions that differ, each of which gets its own words back | 183 515 |
| `tuning_daemon` | daemon with faults, kills, interrupts and two changes of p-state; its liveness; the refinement to `RollbackFile` | 366 842 |
| `tuning_shared` | two processes, set, save --profile, restore and daemon on broadcast, a stock file already there: the refinement to `RollbackFile` | 824 130 |
| `tuning_capture` | two first writers of the stock file: finding 2 | |
| `tuning_daemon_scope` | `daemon --fbpa`: finding 3 | |
| `stock_file` | saves one at a time, every call may fail, kills at every point; documents of the shapes the tool writes, whole and cut at every length | 434 |
| `vbios` | two overlapping reads of the ROM with faults, and deaths that leave nothing cleared; images at and beyond every limit | 695 625 |
| `field_bits` | every register, every one or two fields, three words, three values per field and one that is too wide; chips of both layouts, every partition count | 9 196 |
| `fleet` | three GPUs, two of one chip, every command but a plain save (disagreement 6), accesses that throw, writes that do not take, kills, a change of p-state; the refinement to `RollbackFile` | 687 628 |

**Bounds.** Two slots are the least that can confuse two devices, and with two
GPUs also the least at which a leak could fill the table. Two processes are the
least that overlap; their names are a symmetry set, since neither the actions
nor the properties tell one process from another. `VAs` has as many
addresses as slots: a leaked view shows as a map that cannot succeed and, at
once, as a violated `ViewLedger`. `MaxFiles` bounds how many files are open per
access; the driver only distinguishes none from some. TLC's integers have 32
bits, so the modulus of 32-bit arithmetic is 2^30 in the runs; the proofs take
it as a constant larger than 16 MiB. The offsets are the two sides of every
boundary that matters: start and end of windows, of the short mapping, of the
register space. In `Tuning`, two partitions distinguish broadcast from unicast,
a register with an assigned and an unassigned field shows a lost update, a
second register shows a partial pass, and the assigned value is one the display
driver never programs, so that a stock file with it in is recognisably not
stock. `MaxStarts` bounds commands started and `MaxReprograms` changes of
p-state. In `Fleet` three GPUs are a first, a middle and a last one of a loop,
and two of one chip are what `restore -i` confuses; three commands are a write,
an interference and a restore. In `StockFile` a short and a long document show
a temporary file that is not truncated. In `RomAccess` two calls are the least
that overlap, and the sizes are the real ones: 32 chunks each. The images of
`MCVbios` lie one byte on both sides of every bound of `plausible`.

**Deadlock** is checked for the driver, its clients, the stock file and the
ROM. The tuning and fleet runs stop when `MaxStarts` is used up and a plan
stops when its fields are inserted, so those say `CHECK_DEADLOCK FALSE`.

**Fairness.** `Tuning`'s `FairSpec` asks weak fairness of `Step(p)`: a process
that can take its next step does, which is what the scheduler and a returning
`DeviceIoControl` give. `RomAccess` asks the same of a call that has begun.
Nothing is asked of the display driver, the user, faults or kills. `DaemonHolds`
says that once p-states stop changing (their number is bounded) a running
daemon's values get everywhere and stay. It speaks of partitions that `Agree`
when the broadcast aperture is read: a broadcast read that answers for a tuned
partition hides an untuned one, which the code does not claim to notice.
`StopEnds` and `RomComesBack` need no such help.

**Mutants.** A definition headed "Slip" is a plausible mistake in the definition
below it: a forgotten check, a missing reset, a wrong comparison.
`PROJECT.json` names, for each property of each passing run, a slip that makes
that run fail when it replaces the definition. Nothing in the specifications
refers to a slip.

**Other configurations.** Eleven more are kept beside the runs, each run with
`tlc -config X.cfg M`. Two pass: `ClientsOneGpu` (with `MCClients`, 244 750
states), where overlapping processes all use one GPU and no access reaches
another; and `TuningBroadcast` (with `MCTuning`, 23 298 states), where set,
daemon and poke go through the broadcast aperture, as they do by default and
with a poke's offset inside it, to partitions that hold the same words: they `Agree` ever after, and
`RollbackKept`, `Applied`, `StockBack` and `UnassignedKept` hold. `RomKilled`
(with `RomAccess`) shows what a death with the register cleared does to
`RestoreOwed`. The other eight show further disagreements, listed under the
findings.

## Findings

1. *A stale handle reaches another GPU* (`clients_shared`, `ReachesOwnDevice`,
   `nvtunedrv.c:291`). Any client's unmap frees the slot all clients of that
   BAR share. The repository knows that this invalidates the mapping of a
   daemon. With two GPUs it is worse: the slot is reused for the other GPU and
   the stale handle works again, on the wrong device. The tool's own
   `check_offset` cannot notice.
2. *The first stock file can be lost* (`tuning_capture`, `RollbackKept`,
   `cli.cpp:194`). Looking for the file and replacing it are far apart. If two
   processes both find none, the slower one may snapshot what the faster one
   tuned and replace its file, against what `tool/README.md:68` promises. With
   a file already there the hazard is gone (`tuning_shared`).
3. *`daemon --fbpa N` writes every partition* (`tuning_daemon_scope`,
   `KeepsToTarget`, `cli.cpp:629`), against the option's description at
   `cli.cpp:920`.

Eight more disagreements are shown by configurations outside the list of runs;
TLC finds the named property violated in each.

4. *The same device given twice* (`MCClients`, `ClientsTwice.cfg`,
   `ReachesOwnDevice`, `cli.cpp:152`). Both `Bar0`s of one process hold the one
   slot. If the second open finds the device not answering, it unmaps the slot
   under the first, and a third device is given it.
5. *poke of a register without a name* (`MCTuning`, `TuningPoke.cfg`, `Undone`,
   `cli.cpp:729`). poke makes sure of a stock file, which holds the named
   registers only: a restore that ends well leaves the poked value, against
   `cli.cpp:932` and the comment at `cli.cpp:703`.
6. *A plain save replaces the stock file* (`MCTuning`, `TuningPlainSave.cfg`,
   `RollbackKept`, `cli.cpp:562`), tuned values included, against the comment
   at `cli.cpp:548`, which only the profile capture heeds.
7. *The last flush is not looked at* (`MCStockFile`, `StockFileLateFault.cfg`,
   `PathWhole`, `json.cpp:327`): a full disk puts a truncated file in place of
   a whole one. `TruncationRefused` says that restore will not believe it.
8. *One temporary name for all processes* (`MCStockFile`,
   `StockFileShared.cfg`, `PathWhole`, `json.cpp:322`): one renames what
   another has truncated and partly written.
9. *The command vbios never clears the register* (`RomAccess`,
   `RomReadOnly.cfg`, `ClearedForRead`, `cli.cpp:879`), because it opens its
   devices read-only, against `vbios.hpp:88`.
10. *`poke --fbpa N` may write another partition* (`MCTuning`,
   `TuningPokeScope.cfg`, `PokeKeepsToTarget`, `cli.cpp:725`). The offset is
   added to the partition's base and bounded only by the driver's allowlist,
   which admits every partition: `--fbpa` is then not the "target" of
   `cli.cpp:920`. The way back does not suffer: `tuning_set` pokes wherever an
   offset may lead.
11. *The daemon says "restored" of a restore that did not take* (`MCFleet`,
   `FleetUntold.cfg`, `DaemonTells`, `cli.cpp:670`). `Gpu::restore` answers
   with the words that read back differently (`gpu.cpp:302`); the daemon drops
   the answer, prints "restored" and ends with status 0, although it promised
   "Ctrl-C to stop and restore" (`cli.cpp:619`). The command restore prints
   the words and ends with status 1.

Two more came up while modelling and are in the list of hazards without a
configuration: `restore -i` takes no stock snapshot before it writes and gives
one GPU's backup to every GPU of the same chip (`cli.cpp:571`, against
`cli.cpp:932`), and a device that cannot be opened is skipped with status 0.

## Proofs

All theorems are about every value of the constants that the named assumptions
of the modules allow (`DriverAssumption`, `DiscoveryAssumption`,
`ClientAssumption`, `TuningAssumption`, `FleetAssumption`,
`FieldBitsAssumption`, `TopologyAssumption`, `StockFileAssumption`,
`RomAssumption`, `TweakAssumption`): any number of slots, PCI functions,
callers, partitions, registers, processes, commands, GPUs, files and images.
Where a promise of the code holds only under a condition, the condition is a
named operator and the theorem's `ASSUME`; the table gives all of them, why the
code needs them, and what happens without.

| condition | says | without it |
|---|---|---|
| `Apart` (in `ApartSpec`) | no GPU is open twice, by two processes or by one | findings 1 and 4 |
| `OneGpu` | the machine has one GPU; then processes may overlap in any way | findings 1 and 4 |
| `OneFirstSave` | a stock file exists, or there is one process | finding 2 |
| `NoScopedDaemon` | no `daemon --fbpa` | finding 3 |
| `NamedPokes` | pokes of registers that have a name, in any partition | finding 5 |
| `~MidKills` | no process is killed while it has the ROM register cleared | the register stays cleared (`RomKilled.cfg`) |
| `NoPlainSave` (both modules) | no plain `save` | finding 6 |
| `OneAtATime` | saves one at a time, no late flush error | findings 7 and 8 |
| `UntunedRestores` | `restore -i` reads files that were captured before any write and that no command rewrites | the first gap named after disagreement 11 |
| `OneProcess` | one process on the GPU | another's commit or restore comes in between; nothing in the code prevents it |
| `NoReprogram` | no change of p-state | "the driver reprograms these on p-state changes" (`cli.cpp:485`) |
| `ReadableCommits` | set and daemon go partition by partition, or `AlwaysAlike` | a broadcast read answers for one partition and its word is written to all |
| `AlwaysAlike` | p-states programme all partitions alike, set, daemon and poke use the broadcast aperture only, a poke's offset stays in it, and no plain `save` | the partitions differ from then on |
| `CoversPartitions` | the mapping is as long as the apertures of the layouts | the driver's bound refuses the partition |

The runs that check the same properties satisfy the conditions of their
theorems.

**Driver.**

* `TypeCorrect`. Inductive as it stands, except that a reply's contents come
  from the table. That a mapping never exceeds 16 MiB needs `ClampLength` to
  land in the limits, a lemma about the rounding.
* `TableSafe`, `BarsMappedOnce`. Neither is inductive alone: unmapping one slot
  keeps the others' views only because no two slots share an address, and
  publishing keeps bases distinct only because the search loop found none.
  Together with `TypeOK` they are (`TableInv`).
* `AccessesConfined`. An access is made through the view the ledger assigns to
  the slot, so its base and limit are the slot's; the slot's base is a GPU's by
  a second invariant; the bound is the test's; and the table's writable windows
  lie in the apertures, a lemma about the numbers of `nvtune_ranges.h` and
  `arch.hpp` (discovery build included).
* `SlotForEveryGpu`. Counting: the used slots map distinct GPU bases, so when
  one base is missing there are fewer of them than slots.
* `RepliesFit`, `MapRepliesTrue`. Case by case over the IOCTLs; a map is
  answered by the slot found or by the slot published, and each holds the base
  that was asked for.
* `RegistersReachable`. The allowlist never refuses a timing register of any
  scope of either layout through a full-length mapping.
* `DriverImplementsService`. Each action maps to a step of `Bar0Service` or to
  `Idle`, under the mapping that forgets slots and addresses; the invariants
  above make the mapping a function.

**Clients.**

* `ClientsImplementDriver`. Every step of the processes is a step of the driver
  with arbitrary callers or leaves it alone, so what is proved of the driver
  holds under its real clients.
* `ClientTypeCorrect`. A handle a `Bar0` keeps is always a slot: needs a lemma
  about what `MapBar0` can answer.
* `FilesAlwaysAccounted`. No condition: a step that opens or closes a file
  moves exactly one `Bar0` across `HasFile`, and requests touch neither.
* `HandlesLive`, `OwnDeviceReached`, of `ApartSpec`. The invariant `LiveInv`
  says that each open `Bar0` of a living process holds a slot with its own base
  and length. Only unmaps could break it; when one happens, `Apart` says that
  no other `Bar0` has that base, and two bases are two slots. Mappings that
  dead processes left behind have other bases or are found again.
* `OnlyGpuReached`, of `OneGpu` and any user. Handles go stale here, but every
  view the driver ever has is of the one GPU, so what still works goes there.
* `ClientsImplementService`. The two refinements composed: whatever the
  processes do, they are a behaviour of the abstract service.

**Tuning.** The invariants build on each other; each is inductive together with
those before it.

* `TypeCorrect`, by `TypeInv`. The work is in what loops take: the least member
  of a set of scopes exists because numbers are well founded, and a write that
  is left has a word.
* `Program`: a process is where its command's code can be, what it plans and
  commits lies in the scopes it was asked for, and what it pokes where an offset
  may lead. `TargetKept`, about commits, follows from it for any number of
  processes.
* `RollbackAlwaysKept`, by `Rollback`: whoever may have written, or is about
  to, has a stock file behind it; a process takes a backup only while there is
  no file, hence nothing tuned, so what it has read is clean; and what it has
  read together with what it is still to read covers the broadcast registers,
  even when partitions are skipped. With a file from an earlier run this needs
  no bound on processes. Broadcast coverage is enough, since a restore writes
  it to every partition.
* `TuningImplementsRollback`, from the same invariant: only the end of a backup
  replaces the file, a process takes a backup only while there is none, hence
  nothing tuned; and what a step leaves tuned has a file behind it.
* `RestoreUndoes`, by `Unwinding`: while a restore writes, each register whose
  broadcast write is no longer to come is clean in every partition. Broadcast
  comes first, so a unicast write can only come after it and is itself clean;
  a change of p-state cleans everything. Registers without a name are always
  clean.
* `RestoreReturns`, by `Returning`, is about the words themselves, fields that
  nobody assigned included: until something is written the registers hold the
  words of the p-state, so what a backup has read, and the stock file, are
  these words; while a restore writes, each register whose broadcast write is
  done holds the broadcast word, and each whose own write is done its own. That
  the broadcast writes come first is a lemma about `First`, the order of the
  file's keys.
* `PartitionsAgree`, by `Likeness`: a broadcast write keeps partitions alike
  that were; a restore also writes the partitions' own words, but by
  `Returning` these are the words of one p-state, which has them alike. A
  broadcast read then speaks for all.
* `CommitsApply` and `UnassignedAreKept`, by `Committing`: each planned word has
  the assigned fields and, for the others, what its partition's register holds
  now; and for each partition taken so far each register is still to be
  written or has its values. A register that needed no write is finished, the
  others stay exact because the writes of a plan are to different registers.
  That a read answers for all that a write reaches is clear partition by
  partition, and through the broadcast aperture it is `PartitionsAgree`: the
  theorems hold for the default of `set` and `daemon` too. For the daemon
  `CommitsApply` is the safety half of `DaemonHolds`: at the end of every pass
  its values are everywhere.

**Fleet.** `FleetInv` has the types and, for each point of the program, the
commands that get there; lemmas on the moves (`StepKeeps`, `HwStep`,
`FilesStep`, `PcStep`, `KindSteps`) say what a step can do to the process, the
registers and the files, and the invariants follow from them.

* `ProfileKeepsToItsGpu`, by `OneDevice`: once a profile that names a GPU is
  accepted, the devices to open and those opened are that GPU; the profile
  stays what it was since such a command writes stock files only.
* `ExitStatusTrue`, by `Status`: a file in a GPU's stock place is that GPU's; a
  save with files of the user's has one GPU; a save has the file of every GPU
  it passed; a restore whose status is still 0 has restored every one. A GPU
  named twice is no exception.
* `WayBackAlways`, by `WayBack`: stock files and the files restores read are
  untuned; every tuned GPU has a stock file, as has the GPU about to be
  committed and every GPU a daemon holds; and a backup into the stock place is
  taken only of a GPU without one, which therefore is not tuned.
* `FleetImplementsRollback`, from `WayBack`: a step that changes a stock file is
  a backup of that GPU and changes nothing else, and a step that changes
  registers changes those of one GPU. `OwnRollback`, which `WayBackAlways`
  states, is what this leaves true of every state.
* `RollbackComplete`, by `Leaving` on top of it: every GPU the rollback passed
  is untuned, told of, or one whose restore answered that words did not take;
  and an interrupted daemon passes all. Of the last kind the daemon tells
  nothing, which is disagreement 11.

**Fields, topology.**

* `TableIsSound`, `PlansAreExact`. The fields of a register are disjoint and in
  range (by its numbers); inserting a field is exact and moves no other bit; so
  the loop keeps `PlanExact`, in any order.
* `PartitionsAlwaysReachable`. The count of partitions is cut to the layout's
  whatever the register answers, and the apertures of the layouts lie in
  writable windows of the allowlist without touching each other.

**Files.** `PathAlwaysWhole`, `ReportsTrue`, `StockFileImplementsAtomicFile`.
The invariant says what the temporary file holds at each stage of the one call
in progress: a prefix of its document while it writes, all of it from the close
to the rename. The rename is then the abstract save; everything else leaves the
path alone.

**VBIOS.**

* `RegisterIsOwed`. For any number of overlapping calls. Inductive with
  `SavedIsOwn`: a call that clears the register, or has cleared it, kept the
  register's own value, since one that read 0 neither clears nor restores. So
  whichever call restores, and in whatever order, it puts back the right value.
* `BlobsWhole`, by `LoneInv`: while a call that no other overlapped reads, it
  either has seen no signature or the register is as it left it, and a call
  that keeps its blob saw the signature in its first chunk.
* `ChunksAlwaysAllowed`. A chunk starts and ends inside the mirror, the mirror
  is a window of the allowlist, and every mapping is longer than that.
* `SearchReadsInside`. The header test bounds the end of all entries by the
  size, and the reads of one entry stay below the stride: two products of
  unknowns, bounded by a lemma on the entry's place in its table.
* `FirstTableIsFound`, by `FirstInv`: no offset the search has passed is a
  table's, and what it decodes is compared with the definition entry by entry.

**Only model-checked.** Liveness (`DaemonHolds`, `StopEnds`, `RomComesBack`)
needs fairness and `ENABLED`, which are beyond the prover. `RoundTrip` and
`TruncationRefused` are about recursive operators and would need induction over
documents, which is as well. Every other property of a passing run is proved.
What the theorems about `Tuning` and `Fleet` do not say is what the code does
not promise; see the table of conditions.

## Not modelled

* Option parsing, `list`, `fields`, `dump`, `get`, `peek` and `probe`: text and
  printing around reads that `Clients` has.
* PCI enumeration: SetupAPI calls and string handling. What it returns is the
  device list of `Clients` and `Fleet`.
* Segments of PCI config space, PnP moving a BAR, power changes: constant.
* Time: the daemon's interval is one step; an interval too short to sleep for
  gives the same states. Values of registers beyond fields, chip names, error
  texts, the printed tables.
* JSON numbers beyond their digits, and `as_u32`.
* Installation and build scripts, the test double.

## Plan

All modules of the plan are there, and all safety properties of the passing
runs but the two about text are proved. What is left is finer:

* `StockBack` with changes of p-state: a restore then owes the words of the
  p-state at the time of the backup, or of a later one, register by register;
* `Fleet` with processes that overlap on different GPUs, which share no file
  and no register, only the driver's table of `Clients`.
