# Koti: TLA+ models, checks and proofs

Koti is a home computer that boots Linux: an RV32IMA core with sv32 paging, a
system-on-chip in SystemVerilog (`src/`), firmware, kernel drivers and a small
user land (`sw/`).  This directory models the parts of it in which several
actors meet: the core's fetch side with its instruction cache; the memory path
from its data port to the SDRAM; the serial
link to the ESP32 with its kernel driver, and the shell tool that fetches pages
over it; the way of an interrupt and of a timer tick to the kernel; the microSD card between the host that writes it and the firmware that
boots from it; and the build products that are kept in the repository, with the
workflows and checks that are to keep them current.  TLC checks every module on
small instances; of every module the safety properties are also proved with TLAPS,
for every value of the constants, but for two of the network tool (section 4).

Paths below are relative to the repository's root; the RTL is in `src/`.

## 1. Inventory

| Part | State | Operations | Meets | What must hold |
|---|---|---|---|---|
| Core, data side (`src/koti_core.sv`, `src/tlb.sv`) | EX and M instruction, `d_seen`, `amo_wr`, reservation, walker state, 2-entry DTLB, port owner | one pipeline advance or freeze per clock; walk; AMO read then write; LR/SC | one data port shared by M and the walker; devices answer in a clock, memory in many | no access repeated or lost, no answer taken by the wrong party, no mutual wait, TLB filled with what the page tables say |
| Core, fetch side (`src/koti_core.sv` 98-286) | `fbusy`, `fdrop`, skid word, walker, ITLB | fetch a pair, walk, redirect | instruction cache, traps, `satp` writes | the executed stream is the program; no stale translation or instruction |
| Data cache (`src/dcache.sv`) | tags, data, valid; lookup; pending transaction; clearing sweep | accept, hit, forward, fill, clear | core port in front, arbiter behind, reset | invisible: a plain word memory |
| Instruction cache (`src/icache.sv`) | lines, fill in flight, flush seen | hit, fill, bypass a PTE read, flush | fetch port, arbiter | a flush is not undone by a late fill |
| Arbiter (`src/arbiter3.sv`) | grant | grant, release on answer or withdrawal | video, data, fetch ports; two controllers | nobody keeps the bus without a request; everybody gets it |
| SoC glue (`src/project.sv`) | device-select latch, device acks | select, acknowledge | every device | a transaction stays with the device it began on |
| SDRAM controller (`src/sdram_ctrl.sv`) | state, timer, guard, refresh debt | power-up, refresh, read, write, burst | arbiter | commands legal, refresh in time, each access once |
| Flash controller (`src/qspi_ctrl.sv`) | state, shift registers | read pair, ignore a write | arbiter | each access once |
| Text video (`src/vga_text.sv`) | line buffers, row fetch | fetch ten bursts per text row | arbiter, raster | the picture is never late by more than a transaction |
| PLIC, CSRs (`src/plic.sv`, `src/csr.sv`) | pending, in flight; `mip`, `mie`, privilege | claim, complete, trap, return, CSR access | devices, firmware, kernel | no interrupt lost or stuck |
| CLINT, SBI firmware (`src/clint.sv`, `sw/sbi/sbi.c`) | `mtime`, `mtimecmp`, STIP | set timer, fallback tick, `rdtime` | kernel | ticks never stop |
| microSD (`src/sd_ctrl.sv`, `vendor/sd_spi.sv`, `sw/linux/koti_sd.c`) | engine state, block buffer, `done` | start, poll, move 128 words | card, block layer | a request completes with its own block |
| USB keyboard (`src/usb_kbd.sv`, `sw/linux/koti_kbd.c`) | one queue, two read pointers | enqueue, pop by two readers | firmware console, kernel | no reader blocks the other; a lapped one resynchronises |
| ESP32 link (`src/esp_uart.sv`) | two FIFOs, overrun flag, straps, room-interrupt enable | receive, send, register reads with side effects | driver, ESP32 | stream order, line falls, straps safe |
| ESP32 driver (`sw/linux/koti_esp.c`) | tty kfifo, port lock | interrupt, write, stop/start, startup and shutdown, `esp_power` | serial core, sysfs | nothing stranded, no storm, straps in order |
| I2C, sound, console drivers | small | sequential | their devices | - |
| Build gates (`.github/workflows/userspace.yaml`, `linux.yaml`, `sw/linux/check_*.py`) | overlay, fragment, the committed archive and its record, the run's artefact | edit, build, commit either half, record, check | Buildroot, kbuild, git | a green Image is of the commit beside it and comes up |
| Firmware build and check (`sw/build.py`, `sw/sbi/build.py`, `sw/check_firmware.py`) | sources, committed `.bin`s, two records, the build under way | edit, restore, compile, record, check, flash | the compiler, git, the board | a green tree holds what its sources build to |
| microSD card tool (`tools/sdkernel.py`) | the command under way, the card | write, writefs, partition, read back | card, a hand that pulls it | a verified filesystem survives |
| SD loader (`sw/sbi/sdboot.c`, `boot_target`) | RAM at `KERNEL_ADDR`, loop and sum | init, header, blocks, sum, start | card, flash, the kernel | "ok" is what was written; the kernel gets its device tree |
| koti-net (`rootfs-overlay/usr/bin/koti-net`) | the capture file, tries, the far end's variables | send, expect, resync, `get` | the MicroPython prompt of the ESP32, DHCP, the network | the right host, this fetch's page, every get returns |
| koti, koti-status, S45kotisd (shell) | files | menus, status, clock file | - | - |
| Board top, other host tools, older cores (`fpga/`, `tools/`, `core/`) | - | - | - | not part of the modelled machine |

Components interact through req/ack handshakes (core, caches, arbiter,
controllers), through registers whose reads have side effects (devices and
drivers), through level-triggered interrupt lines, in the drivers through a lock
and the kernel's queues, over a serial line that loses characters (koti-net and
the far end), over a card that is carried from the host to the board, and through
files in a repository that several hands and workflows write.

Hard behaviours, in the order of the hazards of `PROJECT.json`: an
acknowledgement arriving while the requester has changed; a request still up in
the cycle in which it is answered; wires read long after the request that set
them; stalls of two stages that wait for each other; reset between two steps;
refresh against load; a level read once and used later; a read-modify-write by
two owners; a sequence of locked steps with sleeps between them; a redirect, a fence or
a change of page tables while the front of the pipeline is at work; a build that
hashes its sources after it has read them; two build products committed one at a
time; a write cut short by pulling the card; a retry that meets what the attempt
before it left in the far end.

## 2. Modules

| Module | Models | Lines of RTL or C |
|---|---|---|
| `PortMemory` | abstract: a word memory behind the core's req/ack port | - |
| `DCache` | `dcache.sv`, closed by any requester and any memory | all of the clocked block |
| `DCacheProofs` | theorems about `DCache` | - |
| `CorePort` | the data side of the core, its walker and TLB | `koti_core.sv`, `tlb.sv`, the device acks of `project.sv` |
| `CorePortProofs` | theorems about `CorePort` | - |
| `Fetch` | the fetch side of the core, its walker and TLB, the instruction cache | `koti_core.sv`, `tlb.sv`, `icache.sv` |
| `FetchProofs` | theorems about `Fetch` | - |
| `MemBus` | arbiter, select latch, SDRAM and flash controllers, the three ports | `arbiter3.sv`, `project.sv`, `sdram_ctrl.sv`, `qspi_ctrl.sv`, parts of `vga_text.sv`, `icache.sv` |
| `MemBusProofs` | theorems about `MemBus` | - |
| `EspLink` | the ESP32 link and its driver | `esp_uart.sv`, `koti_esp.c` |
| `Interrupts` | PLIC, CLINT, pending bits and traps of the CSRs, the firmware's M handler, the kernel's handlers | `plic.sv`, `clint.sv`, `csr.sv`, `sbi.c`, `sbi.S` |
| `InterruptsProofs` | theorems about `Interrupts` | - |
| `Gates` | the checks as the sets of complaints they collect | `check_rootfs.py`, `check_initramfs.py`, `check_config.py`, `check_image.py`, `check_image_initramfs.py` |
| `Release` | tree, workflows and committed artefacts; extends `Gates` | `userspace.yaml`, `linux.yaml` |
| `Firmware` | the two firmware trees, their builds, records and check | `sw/build.py`, `sw/sbi/build.py`, `check_firmware.py` |
| `Card` | the card, the host's commands, the loader, `boot_target` | `sdkernel.py`, `sdboot.c`, `sbi.c` |
| `Machine` | composes `Firmware` and `Card` through what is flashed | - |
| `NetFetch` | `koti-net get` and the far end it types at | `koti-net`, `fake_esp.py` |
| `Esp32Proofs` | theorems about `EspLink` and `NetFetch` | - |
| `ReleaseProofs` | theorems about `Gates` and `Release` | - |
| `MachineProofs` | theorems about `Firmware`, `Card` and `Machine` | - |
| `MC...` | small instances for TLC | - |

**Time.**  In `DCache`, `CorePort`, `Fetch` and `MemBus` one step is one rising clock
edge: all registers move together, and an operator named `...Edge` is one
`always_ff` block.  In `Interrupts` too a step is a clock, in which the gateways and
`mtip` move and either the hart commits one instruction or trap, or a device or the
time does something.  Wires are operators with the wire's name.  `EspLink` mixes
hardware and driver and is interleaved: a register access of the driver is two
steps, the select cycle with its side effect and the acknowledge cycle in which
the value is taken, and the serial lines move between any two of them.

**Composition is by contract.**  `PortMemory` says what the core's port is
promised and, in its `Raise` and `Finish`, what the core promises in return.
`DCache` is proved to implement it against any requester that keeps those
promises (`PortMoves`).  `CorePort` runs against a `PortMemory`-like server of
arbitrary latency that latches what it accepts, as `DCache` does, and is proved
to keep the requester's side (`PortContract`, theorem `ContractIsKept`).  `MemBus` takes the miss port of
the data cache as its data port, with the behaviour `DCache` shows there: a
request is up while `pending` and drops on the answer.  `Fetch` takes from `MemBus`
that an answer on the fetch port is followed by a clock without one, and from
`CorePort` that no stall of EX or M lasts for ever (`PipelineMoves`).

### DCache
State: the arrays as one function `line`, the lookup registers `look`, `lreq`,
`rd`, the transaction flag `pending`, the answer `ack_q`, `rdata_q`, and the
clearing sweep `initing`, `init_i`.  `Clear`, `Accept`, `Hit`, `Forward`,
`Answered` and `Quiet` are the branches of the block (no two can be enabled at
once).  The registered read of the arrays (`rd_*`) happens on every clock in the
code; only the read made on the accepting clock is ever used, and that is the one
modelled.  `Reset` may strike at any clock, up to `MaxResets` times; a write
under way then may or may not have landed, and the arrays keep their content.

### CorePort
EX holds any instruction of `Program`, M the memory instruction in front of it.
`WalkerEdge`, `TlbEdge`, `OwnerEdge`, `SeenEdge`, `AmoEdge`, `ReservationEdge`
and `PipelineEdge` are the blocks of the same names in the code.  PTE decoding
is a parameter (`PteBad`, `PteLeaf`, `L0Addr`, ...), as is the AMO's arithmetic.
Access permissions are the one bit `fault` of a TLB entry.  The history
variables count M's accesses, remember the word M's address held when M was
entered, and the word an LR has read.

The mode (`mmu_on`: satp enabled and the hart below M) is chosen at reset and kept.

### Fetch
The state is the code's: `f` is `fbusy`, `fpc`, `fpc_pa` and `fdrop`; `iw` the walk
(`iw_state` 1 is `level` 1, 2 is `level` 0); `head` and `fbuf` the IF/ID latch and the
skid word with their valid bits; `ic`, `filling`, `flush_seen` and `reply` the
instruction cache.  A TLB entry keeps its PTE, of which the code keeps the
permission bits and the frame.  `FetchEdge`, `WalkerEdge` and `HeadEdge` split the one
`always_ff` of the FSM by the registers it writes; the order of its statements is the
order of their cases, the redirect first because it is last in the code.  What an
instruction does is drawn when it commits, from what its privilege and its poison
allow: go on, store, jump, trap (an interrupt is a trap), return, write `satp`,
`sfence.vma`, `fence.i`.  A clock that does not advance (`go` false) stands for
`pstall`, whatever its cause; M's store is `st` until memory takes it.  A word
carries its address besides its content, so two words are never confused.  Addresses
are records of page and word; `Up` is the next word, into the next page at a page's
end.  `Idx` and `Tag` are parameters.

`due` is the address the program goes to next, `since_i` what each word has held
since the last `fence.i`, `since_v` what each PTE has held since the last flush of
the TLB.  Left out: EBREAK in M mode, which halts the machine, and reset after the
start.  `FrontQuiet` shows that `fdrop`, the walk that outlives a redirect and
`flush_seen` are never needed as the launch condition stands (an empty front, no
stall, no redirect on the same clock): they are in the model, and no run reaches
the states they are for.

### MemBus
A transaction is judged by what it did: `log` collects the half-word writes and
the reads that the SDRAM's open row and current column, or the flash's latched
address, stand for, and `TransactionExact` compares it with what the
acknowledged port asked.  Power-up is abstracted to its end: a refresh is owed
and the timer starts from zero.  A flash transfer takes any number of clocks.
Reset is not modelled here.

### EspLink
The driver's contexts exclude each other by the port lock (`holder`); `pc` is
the next register access of whoever holds it.  `uart_port_tx`, the kfifo and the
tty layer are external and modelled as `koti_esp.c` uses them.  Transmitted
bytes are numbered modulo `K`.  `Opening` and `Closing` begin startup and shutdown,
whose `set_txirq` is an `UnlockedRead` and an `UnlockedWrite` without the lock: the
kernel has one CPU and no preemption (`koti_defconfig`), so what may come between the
two is an interrupt handler, which ends before they go on, and not a process.  The
interrupt is requested before startup's access and freed after shutdown's.  The tty
layer closes a port that has drained.  Any number of processes (`load.users`) write
`esp_power`, each of its three writes under the lock and asleep in between; `mover` is
an observation, the process that last set the straps.

### Interrupts
`src` are the request lines (the keyboard's and the ESP32 link's on the board),
`ip`, `inflight` and `enable` the PLIC's registers; `Gateways` is its clocked block
and `Best` its arbitration loop.  Of the CSRs the module has the mode, both
interrupt stacks of `mstatus`, STIE, MTIE, STIP and the software SEIP bit;
`TrapToM`, `TrapToS`, `Mret` and `Sret` are the branches of its block.  SEIE, the
delegation, the priorities and the threshold are set once at boot and are constant.
`mtimecmp` is where it stands against `mtime`, past or ahead; a write of one half
gives what the other half allows (`Written`).  M-mode code is the list of the
instructions that touch this state, in the order of `sbi_trap`, `timer_fallback_arm`
and `sbi_set_timer`, one committed per step, so that devices, gateways and time move
between any two.

The kernel is outside the repository.  Its external handler is what `plic.sv` is
compatible with (claim until zero; serve; complete), its timer handler what the
comment at `sbi.c` 282-292 describes: mask STIE, then program the next event and
unmask, or, and this is what the firmware's fallback is for, fail to.  Handlers run
with interrupts off.  A thread masks and unmasks interrupts, enables and disables
sources, calls the firmware, goes to user mode and returns.  Left out: SBI shutdown
(it stops the machine), MSIP and SSIP (no second hart), and `U64_MAX` deadlines.

### Gates and Release
A file is its kind, its execute bit, a version, and the few facts about its bytes
that a check reads (`"shebang"`, `"cr"`, `"marker"`, ...); a hash is the value it
is taken of.  Each section of `check_initramfs.py` is one operator that returns
its complaints, in the file's order, and the check passes when the union is empty;
`RootfsOk`, `KernelConfigBad`, `ImageOk` and `ImageInitramfsOk` are the other
checks.  In `Release` an edit may change any of the
facts of a script that `Toggles` lists, in any combination, and its execute bit;
Buildroot may slip in one way, kconfig may drop or flip one symbol, and kbuild may
leave the initramfs out: all of it external, and all of it left to the checks to
catch.  `StartUserspace` takes the checkout and `FinishUserspace` uploads whatever
came of it, so edits fall in between; the archive and its record come back by two
separate commits, in any order or not at all, and `RecordByHand` is
`--write-provenance` without a build.  `BuildLinux` is a green run of either input of
the workflow: `initramfs: rootfs`, with the checks of the archive, or `initramfs: init`,
whose stand-in skips both of them.  What it built is the observation `image`: the
resolved configuration, the header, the embedded archive, and the tree and the record's
origin it was built beside; any other step forgets it, so the properties are about each
Image as it is built.  Not modelled are the card filesystem's and the
keymap's steps, the execute bit of `post-build.sh`, the System.map check of the
BLAKE2s self-test and the stand-in's own compilation.

### Firmware
A source's content is a version.  A build is a sequence: `BuildStart`, one
`Compile` per image reading the sources as they are at that moment, and
`WriteProvenance`, which hashes them as they are at the end.  Between any two of
them the tree may be edited or one product restored from git.  `touched` notes
what changed by hand while the recorded build ran; it is an observation, and no
action reads it.  `Listed` (the build's table) and `Reads` (what the compiler
opens) differ, as they do in the code.

### Card and Machine
A block is one word and sums wrap at `WORDS`.  The host puts sectors one at a time
and may be cut off at any of them (`MoveCard` in the middle of a command); the card
may drop a sector it has acknowledged and a read may be garbled, together at most
`MaxHarm` times.  The loader is one action per step of `sd_load_kernel`, each with
its failure; RAM keeps what was stored.  The board is restarted only with a card in
it, because without one the engine answers ERR, which is `SdInit`'s failing branch.
`Machine` adds the image on the board: `Flash` takes `sbi_sd.bin` off a tree that
is green, and from then on the tree rests.

### NetFetch
The serial line is the two files that `fake_esp.py` and `koti-net` share: `dev`
towards the far end, `cap` from it.  The capture is a sequence of tokens, a line is
its kind, a string is the get it belongs to and its length.  The far end follows
`fake_esp.py`: it echoes, is deaf while it executes (what is written then is lost,
a Ctrl-C ends the command), destroys the first character of every burst, reverts
the name server at command boundaries.  The scenarios of `fake_esp.py` that damage
a line are the elements of `Damages`: a line may raise, arrive short, lose a
bracket, lose the `+` of a `c1+=`, lose a marker, or wedge; a Ctrl-C may be lost.  How
many of these happen in a get is bounded (`most`; the scenario `garble` damages two), or one
line never arrives whole (`hard`).  Beyond `fake_esp.py`, the far end may at any time hang
for good or lose its power (`FarGone`), and a get may start with the far end as the
one before left it, in an open bracket or at work; busy with a command that `koti-net py`
gave up on (`UserLeft`); or fresh after `off`, `wake` and `join` (`Woken`).

Of the shell script every send of `get` is a step, with what its caller does with the
status (`After`).  `resync` is Ctrl-C, the bare line after 300 ms whatever the far end
does, and the prompt (`SyncDone`) or the deadline (`SyncFails`); its callers go on in
either case.  A deadline passes when nothing more will come, because the far end
rests or is gone, or, this one early, while a fetch or a user's command is slow;
lines that take no time on the far end are answered within their deadlines.  Lengths
are compared as the script's glob does, which is not anchored (`Ends`, `Begins`).  A page
is whole, cut at 200 KB with the marker that says so, or not read to its end.

Observations, which no action reads: `harm`, the damages in this get; `hurt`, those to
the program the far end is building and to its count; `late`, a deadline that passed on
a far end at work, or gone; `dialled`, the names looked up; `warned`, whether the cut
was said; `lost`, a line typed to a deaf far end, other than the two that are meant to
find out (`link_up`'s, which may meet a command still running, and `resync`'s bare
one).

## 3. Runs

| Run | Instance | Shows |
|---|---|---|
| `dcache` | 1 line, 2 conflicting tags, 2 byte lanes, 2 values, 1 reset | `Coherent`, `AckAnswersPort`, the refinement `ImplementsPortMemory`, `RequestAnswered` |
| `core` | both modes: 2 pages, one of which maps the other's PTE, 2 TLB entries; and M mode with 2 words, a device register and multiplications of 4 clocks | `RetiresRight`, `WalkIsRight`, `AccessesOnce`, `ScAfterLr`, `PortContract`, `PipelineMoves` |
| `fetch` | 2 pages of 2 words, 2 lines, 2 TLB entries, one page-table root, 3 stores, 2 targets | `FrontQuiet`, `ExecutesProgram`, `CachesFresh`, `ExKeepsComing` |
| `fetch_alias` | the same with the tag the code takes | violates `ExecutesProgram` (finding) |
| `membus` | 3 words per device, rows of 2 bursts, refresh interval 20 | `TransactionExact`, `CommandsLegal`, `RefreshInTime`, `VideoWaitsOnce`, `EveryoneServed` |
| `esp` | FIFOs of 2, kfifo of 1; one `esp_power` writer with reception and flow control, or two writers beside what is sent | `TxStream`, `NeverPopsEmpty`, `TxDrains`, `LineFallsRunning`, `StrapsInOrder` |
| `esp_data` | two byte values | violates `PoppedIsTaken` (finding) |
| `esp_storm` | flow control | violates `LineFalls` (finding) |
| `interrupts` | 2 sources of one priority, 2 rises of a line between two kernel ticks | `InflightIsHeld`, `TickNotEarly`, `TicksKeepComing`, `SourceServed` |
| `release` | 3 overlay files, 5 toggled facts, 2 edits, 1 userspace build, 6 ways to slip, every symbol wrong once, both initramfs inputs | `PublishedIsCurrent`, `GreenComesUp` |
| `machine` | 2 trees with 3 images, 4 sources, 2 edits; words 0..2, kernels of up to 4 blocks, 1 harm | `GreenFirmware`, `FreshIsGreen`, `LoadedIsWritten`, `FsSurvives`, `KernelGetsItsTree` |
| `net_get` | 2 gets of names of 4 and 5 characters with one damage each, 1 get with two, or with one of 3 lines that never arrives, or on each of 3 networks that do not work | `DialsWhatWasAsked`, `PageIsThisFetch`, `CleanGetSucceeds`, `NoLineLost`, `GetReturns` |

**Why the bounds are enough.**
- `dcache`: lines do not interact (proved, see below), so one line with two tags
  that conflict on it meets every case of hit, miss, conflicting fill and partial
  store; one reset is enough to strike between any two steps.
- `core`, under the MMU: the program rewrites `p1`'s PTE through `p2`, so every walk can meet
  a change.  Two TLB entries is the code's size; two pages make replacement wrap.
  The clocks of memory are arbitrary.
- `core`, in M mode: `MdClocks = 4` freezes M for longer than a device access and an
  AMO need together.  A second word is needed only by the SC that misses its LR's.
- `fetch`: with pages of two words every second word ends a page and a pair may start
  at either, so each pair straddles or does not; two pages mapped crosswise (and by a
  superpage in the other initial memory) tell a translated address from an
  untranslated one; two lines with two tags each conflict.  One word of code and one
  PTE change, to a different frame and to an invalid entry; U mode may not execute
  one of the frames.  The theorems cover all sizes, so this instance has to show that
  the formulas mean something and that instructions keep coming.
- `membus`: the timing constants are the smallest that keep every wait state; the
  worst time from a refresh falling due to its start is one access, and theorem
  `RefreshesAreInTime` says which intervals are long enough for it: 18 clocks with
  these constants (with 17 TLC finds `RefreshInTime` violated, so the bound is
  tight), and far below the 195 clocks of the code with its own.  The picture reads
  SDRAM only, where firmware and driver place it; data and fetches use both devices.  `RowGap = 2`: the
  raster leaves about 6,000 clocks between two text rows and a transaction takes at
  most about 260, so each port gets the bus between two rows.
- `esp`: with FIFOs of two entries, full, empty and neither all differ; `K = 3`
  numbers tell adjacent bytes apart, which is all `TxStream` compares.
  Two writers of `esp_power` are the fewest that can come between each other's steps,
  and what is received plays no part in that; one has all the traffic beside it
  (`Loads`).  The theorems are for any writers and any traffic.
- `interrupts`: two sources is what the board wires; at one priority the arbiter's
  tie rule decides, and one can be pending while the other is in flight.  Two rises
  let a line come back under its own handler, or both lines compete.  The safety
  properties are proved for any number of sources and any priorities.
- `release`: `MaxEdits = 2` lets an edit fall before and one during or after the one
  build; one build is enough for an old product to meet a new tree, since the
  committed artefact at the start is another.  `Toggles` holds the facts that the checks
  tell apart in a script's first line, its line ends and its syntax, and any of them
  together; the theorems are for any facts.
- `machine`: two edits are a change and the change that hides it (edit and revert,
  edit and restore a product).  Kernels: empty, two that differ in one word, one
  that just fits nothing but p1, and one too long.  Three words are the fewest for
  which two sums can agree by two errors and not by one.  A behaviour flashes once;
  afterwards the tree is frozen and no action or property of the bench reads it, so
  the cfg's `VIEW` identifies the states that differ only in it.
- `net_get`: the second get is the one that meets what the first left behind; a
  third would meet no more.  The two names have different lengths because lengths
  are all the script compares (finding 13 is about lengths that end alike); the second
  is longer by one character, so a name that loses one has the length of the other.
  Two damages in each of two gets are out of reach; one get has two (`Worlds`),
  which is enough for a resync to fail, for the retry of a damaged line to be damaged
  itself, and for the scenario `garble`.  The lines that never arrive are one before, one
  in and one behind the name.  The prompt follows the last burst at once: a shell cannot
  start the next command in between.

**Fairness.**  In the clocked modules the clock runs (`WF` of `Next`), the memory
answers what it has accepted, and a flash transfer ends after finitely many bits.
In `EspLink` a context that holds the lock goes on (it runs with interrupts off),
the shifter goes on, and an interrupt line that keeps being raised is taken some
day (`SF` of `IrqEnter`, since the lock is not always free when it is up).
In `Fetch` the pipeline advances again when no store is waiting (the other stalls
end, `PipelineMoves` of `CorePort`), and memory takes the store and answers the fetch
port (`EveryoneServed` of `MemBus`).
Nothing is assumed of users, of the tty layer or of arriving bytes: `TxDrains`
and `LineFallsRunning` say what holds if output is not stopped for good, and the
line is only expected to fall once reception has ended.
In `Interrupts` the clock runs and a deadline passes; the M handler's instructions
and the timer interrupt follow under `WF`.  What the kernel does when an S interrupt
is pending, its handlers' next steps and the end of a masked section have `SF`,
since an M interrupt may come first each time: between two deadlines lie
milliseconds, a handler takes microseconds.  For the same reason no deadline passes
while the fallback's handler returns (`Elapse`).  The devices' rate is bounded
(`Burst`): external interrupts go before the timer, and a line raised without end
starves the kernel's tick, which is the storm of `esp_storm`.  Nothing is assumed of
when threads mask, call or switch, nor that the kernel programs the next event.
In `NetFetch` the script moves on (`WF` of `ScriptNext`: every wait has a deadline and
every retry is counted) and the far end does what it can or is gone (`WF` of `FarNext`,
which `FarGone` satisfies as well as an answer: that it answers, or that it hears a
Ctrl-C, is nowhere assumed).  `Release` and `Machine` state no liveness and assume no fairness.

Every property of a passing run is also shown to depend on the code: for each,
`PROJECT.json` names one change of a mapped definition (a dropped guard, a wrong
bound, a missing step) under which TLC finds it violated.  The changed forms are
kept in the modules, marked as mutants.  Several are faults the repository's own
comments describe: the accepted acknowledge cycle (`CanAcceptOnAck`), the AMO that
restarts (`AstallToAck`), the missing handshake guard (`ReadyAlways`), the grant
kept for a withdrawn request (`ReleaseOnAck`), and the SEIP bit that a
read-modify-write of `mip` takes over from the PLIC (`RmwSeipRead`; the counterexample
is the machine of 2026-08-09 in `csr.sv`'s comment: an external interrupt with nothing
to claim, taken again and again, and no tick).

## 4. Proofs

`DCacheProofs` proves, for any `Lines`, `Tags`, `Bytes`, `Vals` and `MaxResets`
(assumptions: `Lines` is a positive natural, `MaxResets` a natural):

| Theorem | Statement |
|---|---|
| `TypeCorrect` | `Spec => []TypeOK` |
| `Coherence` | `Spec => []Coherent` |
| `AckOwnership` | `Spec => []AckAnswersPort` |
| `Refinement` | `Spec => ImplementsPortMemory` |

None of the invariants is inductive alone.  `IInv` adds what ties the pipeline of
the cache together: at most one of lookup, pending and acknowledgement is up; an
accepted request is still the one shown until it is acknowledged; during a lookup
`rd` is the line it indexes; during the sweep the lines before `init_i` are
already invalid, so that the sweep's end establishes coherence.  `InitInv` and
`StepInv` (one lemma per branch of the clocked block) give `Invariance`, from
which the theorems follow.  For `Refinement`, `ClockRefines` shows that a clock
is a `Raise`, `Serve`, `Finish` or a stutter of `PortMemory`: a hit and an answer
from memory are the instants at which a request takes effect.

`FetchProofs` proves, for any page size, number of pages, lines, TLB entries, roots,
tables, programs and memories (assumptions: `PlaceAssumption`, code and page tables
are different words and every index is a line's; `WalkAssumption`, a PTE address is
in a table and a leaf maps to a frame):

| Theorem | Statement |
|---|---|
| `NothingBehindAFetch` | `TagsDistinct /\ Spec => []FrontQuiet` |
| `FetchExecutesProgram` | `TagsDistinct /\ Spec => []ExecutesProgram` |
| `FetchCachesFresh` | `TagsDistinct /\ Spec => []CachesFresh` |

`TagsDistinct` says that index and tag together tell two words of code apart.  It is
an hypothesis of the theorems and no assumption of the module, because the code does
not satisfy it for words of flash and of RAM's high half: that is finding 15, and
the run `fetch_alias` shows what follows.  The inductive invariant `IInv` has these
parts: `Typed`; `Current` (the histories contain what memory holds); `Quietly`
(`FrontQuiet`, one of fetch and walk at a time, no fill or answer without its
request); `InStep` (what stands in EX, head, skid and `npc` are consecutive addresses
from `due` on, which is what the straddling pair threatens); `Walking` (a walk is for
the page of `npc`, by PTEs of the current tables); `Fetching` (a fetch is for `npc`,
at a place the tables give it); `Latched` (what waits in the front is legal by the
histories); `TlbFresh` (with at most one entry a page, so that the lookup's last match
is the only one); `LinesFresh`.  `WalkClock`, `FetchClock`, `LaunchClock` and
`IdleClock` show that a clock keeps the front in each of its four situations,
`RedirectEmpties` and `RedirectKeeps` what a redirect does to it, `CacheStep` and
`FillStep` treat the two caches, `Grows` the histories: between two fences a history
only grows, so what was legal stays legal, and a fence redirects.

`InterruptsProofs` proves, for any number of sources, priorities, threshold and
`Burst` (assumption: `PlicAssumption`, their ranges):

| Theorem | Statement |
|---|---|
| `ClaimsAreHeld` | `Spec => []InflightIsHeld` |
| `SeipFollowsPin` | `Spec => []SeipIsPin` |
| `TimerIsNotEarly` | `Spec => TickNotEarly` |

`BestIsOffered` shows that the arbiter has a winner whenever something is offered (a
nonempty set of naturals has a least member, used for the priority and then for the
number), so a claim returns a source and the completion's number is in range.  The
inductive invariant adds `NoNesting` (M-mode has interrupts off, and `mret` leaves
them off for the next entry), `HandlerMasked` (a handler of the kernel runs with
interrupts off, also while M-mode has interrupted it), without which a second claim
could come under the first, and `TimerInv` (outside M-mode `mtip` is not ahead of the
comparator).  The last also says what the order of the two halves' writes is worth:
inside M-mode nothing looks at `mtip`, and it has told the truth again before
`mret`, so `TickNotEarly` holds for any intermediate value.

`CorePortProofs` proves, for any modes, pages, page tables, memories, programs, TLB
entries and multiplication times (assumptions: `PlaceAssumption`, page tables lie in
memory and not on a device, and a good PTE leads to an address; `ProgramAssumption`,
`MemoryAssumption`, `IOAssumption` and `SizeAssumption`, the ranges of the constants):

| Theorem | Statement |
|---|---|
| `AccessesAreOnce` | `Spec => []AccessesOnce` |
| `InstructionsAreRight` | `Spec => []RetiresRight` |
| `TranslationsAreRight` | `Spec => []WalkIsRight` |
| `ConditionalsAreLinked` | `Spec => []ScAfterLr` |
| `ContractIsKept` | `Spec => PortContract` |

The parts of `IInv`: `Typed`; `OneEntry` (a page has one TLB entry at most, so that the
lookup is of that one); `Remembers` (`d_seen` and `amo_wr` are of the instruction that
is in M now, not of the one that left); `OneOwner` (one transaction at a time, its
owner is the one that asks, and what the memory works on is what the port shows: this
is what keeps the walker from taking M's answer, and M the walker's); `Walking` (a walk
is for the page EX waits for, through the PTEs memory holds, and from its second read
on M is quiet, so that no store comes between its two reads); `Counted` and `Valued`
(M's accesses so far, the word they left and the word M remembers, as a function of
`d_seen`, `amo_wr` and the acknowledgement now up: without them a freeze after the
answer could repeat the access); `Linked` (the reservation is the address that is
linked until M itself writes).  `PortRests`, `PortAnswered` and `PortAsks` say what a
clock does to the port, `Frozen`, `MAsks`, `MAnswered` and `MQuiet` what it does to M,
and each part of the invariant has its step lemma from these; `ContractIsKept` is the requester's
half of `PortMemory`, whose other half `Refinement` above is.

`MemBusProofs` proves, for any device sizes, rows, tables and timing constants
(assumptions: `BusAssumption`, `TimingAssumption`, `PortAssumption`, their ranges):

| Theorem | Statement |
|---|---|
| `TransactionsAreExact` | `Spec => []TransactionExact` |
| `CommandsAreLegal` | `Spec => []CommandsLegal` |
| `PictureWaitsOnce` | `Spec => []VideoWaitsOnce` |
| `RefreshesAreInTime` | `RefreshFits /\ Spec => []RefreshInTime` |

`Exact` ties the controller to the bus, since no controller latches the request it
works on: who is granted is asking (`Holds`), the selected device is the address's and
without a request all is at rest (`Selected`), the flags a controller did latch are
those on the bus (`OnRequest`), the open row is the addressed word's (`RowOpen`), and
the log is what the controller's state says has been done of the request (`Logged`).
`Waited` says that a picture that has waited for one transaction is next.  For the
refresh, `Left` is a bound on the clocks until the controller is idle; `Deadline` says
that the interval's counter plus what is left never passes the interval.  `RefreshFits`
(two row accesses and a refresh fit the interval) is an hypothesis, as for intervals
below it TLC finds the property violated; the code's constants and the run's satisfy it.

`Esp32Proofs` proves, of `EspLink` for FIFOs of any size, any numbering that tells
their bytes apart, any users (assumptions `EspAssumption`, `UserAssumption`), and of
`NetFetch` for any number of gets, any lengths and any number of damages
(`LensAssumption`, `WorldAssumption`):

| Theorem | Statement |
|---|---|
| `NothingIsLost` | `Spec => []TxStream` |
| `PopsAreOfBytes` | `Spec => []NeverPopsEmpty` |
| `StrapsAreKept` | `Spec => StrapsKept` |
| `StrapsAreInOrder` | `Spec => StrapsInOrder` |
| `LinesAreHeard` | `NetSpec => []NoLineLost` |
| `RightHostIsDialled` | `NetSpec => []DialsWhatWasAsked` |

*EspLink.*  `Placed` says where the lock's holder stands and at which register it
waits; `Counted` that the level it read covers what it still has to pop, since
reception only adds and nobody else pops; `RoomKept` that room once seen is still
there, since only the driver fills; with it `TxStream` is inductive.  `StrapsKept`
needs `Rewritten`: every other read-modify-write of the control register preserves them,
those under the lock because it is held, startup's and shutdown's because between
their read and their write no writer of `esp_power` gets in.  `StrapsInOrder` needs
`LastSettled`, what each of a writer's three writes has left behind as long as that
writer was the last to set the straps; of the others it says nothing, which is why the
property holds of any number of writers (finding 3).

*NetFetch.*  `NetInv` is `Honest` and `Named`.  `Honest`: what the far end does and has
yet to say fits the place of the script (`Turns`, `Outs`), `END` only comes when
the fetch has said everything (`MarksAreLast`), and a line of a get's own is only
written when the far end listens, or is gone: `link_up`'s answer or a resync's
prompt was seen, then the prompt of the line before, or it was waited for to its end.
It holds whatever is damaged, because every line that asks for an answer is waited for,
and a lost answer ends in a resync.  A resync that failed ends the get or leads back to
a line that is waited for in the same way.  `Named`: an address is measured before it is dialled and
not assigned again in between, and every string of the far end is one that some get has
asked for or one that lost a character of it; `EndsIsLonger` shows that a length that reads as
another at the end of a number is as long at least, so that under `Apart` only the name asked for
passes.  `RightHostIsDialled` therefore needs its precondition exactly where the script's
comparison does.

`ReleaseProofs` and `MachineProofs` prove the following for all values of the
constants (assumptions: `OverlayAssumption`, the overlay does not bring busybox,
`init` or the guard as extra files; `BoundsAssumption`; `FirmwareAssumption`,
`MachineAssumption`: two trees, and `sbi_sd` lists and reads the device tree;
`CardAssumption`: the layout is in order, a filesystem fits the card and a kernel is a
sequence of words):

| Module | Theorem | Statement |
|---|---|---|
| `ReleaseProofs` | `PublishedIsCurrentAlways` | `RelSpec => []PublishedIsCurrent` |
| `ReleaseProofs` | `GreenImagesComeUp` | `RelSpec => []GreenComesUp` |
| `MachineProofs` | `MachineTypes` | `MachineSpec => []MachineTypeOK` |
| `MachineProofs` | `GreenMeansBuilt` | `MachineSpec => []GreenFirmware` |
| `MachineProofs` | `BuildEndsGreen` | `MachineSpec => FreshIsGreen` |
| `MachineProofs` | `FilesystemSurvives` | `MachineSpec => []FsSurvives` |
| `MachineProofs` | `StartedWithItsTree` | `MachineSpec => []KernelGetsItsTree` |
| `MachineProofs` | `OkIsWritten` | `MachineSpec => []LoadedIsWritten` |

*Release.*  `RelInv` follows a fragment's version: the busybox of an archive is of
the fragment it was built from whatever slipped (`ArchiveVersion`), so a record a
workflow wrote tells the truth about its archive, in the artefact and once it is
committed, unless it was last written by hand.  A green `linux` run compares the
record with both files, which gives the property.  For `GreenImagesComeUp`, `LaidInv`
says what is true of every archive and script whatever slipped (an archive holds what
Buildroot always installs, a script is a regular file whose facts are its own);
`GreenBoots` derives the configuration koti needs from the list `check_config.py` compares
(`Got`), for either initramfs; `GreenArchive` goes through the checks of the archive and
of the Image for what is left, whatever combination of faults the overlay holds.

*Firmware.*  `FwInv` says of every record that an image untouched during its build
was compiled from the recorded sources (`RecordInv`), and of a build under way that
what it has built so far and nobody touched is compiled from the sources as they
are now (`MakeInv`); `MakeInv` becomes `RecordInv` when the record is written, and
the check's comparisons turn `RecordInv` into `GreenFirmware`
(`FwInvIsGreen`).  *Card.*  `FsInv` adds that the host's command under way is
`Aimed` at its own side of p2: a kernel that could reach into it is only written
once no filesystem is kept.  *Machine.*  `MachineInv` joins the two with
`FlashInv`, what a flashed image carries.

*The load.*  The firmware compares the sum of a kernel of any length, so `OkIsWritten`
needs an induction over the blocks.  `Runs` describes a running sum without computing
it; `SumIs` shows that `SumOf` has one and `OneWordShows` that two kernels which differ
in one word have different sums, each by the least index at which the claim would fail
(`NatLessThanWellFounded`).  `WriteInv` says that what the host verified is on the card
until the next command, `LoadInv` that the blocks stored so far come to the sum so far
and differ from the card's in no more places than reads were garbled.  The theorem
follows: a load that is ok has the header's sum, so it is not off by one word, and with
one garbled read at most it is off by no more than that.

**Only model-checked.**  Of the safety properties of the passing runs `PageIsThisFetch` and
`CleanGetSucceeds`; all liveness, as the prover has no rules for fairness and ENABLED:
`RequestAnswered`, `PipelineMoves`, `ExKeepsComing`, `EveryoneServed`, `TxDrains`,
`LineFallsRunning`, `TicksKeepComing`, `SourceServed` and `GetReturns`.  No module uses
RECURSIVE operators, and no theorem of the library that takes an operator.

## 5. Findings

1. **A read of the ESP32 receive register returns the wrong byte** (`esp_data`).
   The pop happens in the select cycle, the value is taken a cycle later from the
   live multiplexer; `project.sv` captures the value of every other register with
   a side effect, but not this one.  The bench reads in the select cycle and does
   not see it.
2. **Stopped output keeps the interrupt line up** (`esp_storm`).  With bytes
   queued and the tty stopped, `koti_esp_tx_chars` arms the room interrupt though
   it can send nothing.
3. **Two writers of `esp_power` can raise GPIO0 and the enable together**: the lock is
   taken for each of `esp_power_store`'s three writes and not across its two sleeps.  What one writer is promised nevertheless is
   `StrapsInOrder`.
4. The overrun flag is cleared by the same read that should report it (the cause
   is that of 1; no run of its own).
5. Comments that no longer describe the code: `esp_uart.sv` 30 and 234,
   `vga_text.sv` 62, `arbiter3.sv` 53-70, `csr.sv` 13.
6. **A load that fails still starts a kernel.**  `sdboot.c` stores each block at
   `KERNEL_ADDR` before it knows the rest, its comment says a failure leaves RAM as
   it was, and `boot_target` looks at RAM and not at the result.
7. `sw/sbi/build.py` does not list `usbkbd.h`, which the SBI images include: an edit
   of it leaves a stale image green.
8. `--write-provenance` by hand records today's fragment beside yesterday's archive.
9. A file removed from the overlay stays in the committed archive, and no check
   sees it.
10. `sdkernel.py write` takes kernels of up to twice p1 and writes them over the
    start of the filesystem.
11. Both firmware builds hash the sources after compiling them.
12. **Half a fetch is run.**  `build_fetch_prog` checks the markers and does
    not compare the length of the program it prints: a damaged line without a marker ends
    in a partial page, or none, and status 0.
13. **The name is compared by length, and not even that exactly.**
    `cmd_get` ignores the sends and looks for `len(a) len(h)` anywhere in the answer:
    `14 4` contains `4 4`, so a damaged assignment after a name of 14 characters leaves
    that name and its host is dialled.  It is the same with names of one length, and with
    one that lost a character, if what was left of it is as long as the next one.
    `DialsWhatWasAsked` says when none of this can be (`Apart`).
    `len(req)` is a sum, which passes more: a get of a host of 8 characters whose path never
    arrived leaves a request as long as the one of two names of 4, and that get, if its own
    request line raises, is answered with somebody else's page.  So what is printed is known
    to be of this get only if it is the `Longest` so far.
14. The loop that sends the name never resyncs, so a lost bracket there costs all
    four tries.

15. **The instruction cache's tag is one bit short** (`fetch_alias`).  `icache.sv`
    takes `addr[22:IDX_W]` of a 24-bit word address; since the map was widened, the
    word at PA 0x0200_0000 + x and the flash word at PA x have the same index and tag.
    Code in the first pages of RAM's high half, which Linux hands out like any other,
    can be served the firmware's instructions, and the other way round.  `dcache.sv`
    was widened, `icache.sv` was not.

16. **The fallback timer does not keep Linux running after a missed call.**
    `sbi.c` 175-176 says it does; 287-289 of the same file says it cannot, and the
    model agrees with the latter: the firmware's ticks go on, but STIP has been
    pending since the missed tick, only `sbi_set_timer` clears it, and a kernel that
    masked STIE takes neither the first nor the next.  `TicksKeepComing` therefore
    promises the kernel's tick only while STIE is set.

17. **A script that does not parse can pass every check.**
    `check_initramfs.py` says its shell section is there for this class of defect,
    and that the checks before it have seen each script's first line; they ask it of
    `/init` only, and the parse skips every script that does not begin with `#!`.
18. **A cut page can be printed without the warning.**  `KOTI-CUT` is looked
    for once, when `send` has returned; if that was a deadline, the marker comes while
    `get` waits for `KOTI-END`, and nobody looks again.

Findings 3 to 14 and 16 to 18 have no run of their own; each is where a property of a passing
run had to be restricted, and the property's comment or its precondition says so
(`OthersUnsettle`, `Touched`, `byHand`, `FitsP1`, `BootScripts`, `Apart`, `Longest`, `late`,
`Listed \cap Reads`, `said = "ok"`, `stie`).

## 6. Plan

Order of the modules, most important first:

1. *done* `PortMemory`, `DCache`, `CorePort`, `MemBus`, `EspLink`; `Gates`,
   `Release`, `Firmware`, `Card`, `Machine`, `NetFetch` with their proofs.
2. *done* `Fetch` and `Interrupts` with their proofs.
3. `SdBlock`: controller, engine with its error states, driver with its timeout.
   Property: a request that completes has moved its own block; expected finding in
   the wait for `done` after an error.
4. `UsbKbd` (one queue, two readers).
5. Perhaps `RtcBus` (I2C), and `join` and `time` of `koti-net`.

Theorems to come are those of the modules above.  Runs are kept
few: one instance of a module for safety and liveness alike where its size allows.
The type invariants of `DCache` and of `Machine` are proved and not checked again by
a run.

## 7. Not modelled

Datapaths (ALU, multiplier, byte extension, CSR fields unrelated to the above),
pixel and audio generation, serial bit timing, the vendored USB and SD bit
engines, board wiring, the host tools that only turn one file into another, the
older cores: sequential, covered by vectors in the repository, or outside the
machine.  The byte formats the checks parse (cpio, ELF, gzip, kconfig's syntax) are
abstracted to the facts they yield.  The block driver and the keyboard queue are
planned above; the hazards of `PROJECT.json` without a property are theirs.  `PROJECT.json`
lists each with its reason.
