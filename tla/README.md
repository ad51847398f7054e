# A TLA+ model of applepie

applepie runs a guest under the Windows Hypervisor Platform (WHVP) and uses
Bochs for everything the hypervisor cannot do: devices, interrupts, MMIO, port
I/O. Bochs' CPU loop is replaced by a Rust DLL, `bochservisor`, which moves the
CPU state back and forth between the two. This directory holds TLA+ modules of
the parts of applepie that carry its own logic, TLC configurations, and proofs
checked by TLAPS. Paths below are relative to `src/`.

## 1. Inventory

| Component | State | Operations | Interacts with |
|---|---|---|---|
| CPU loop (`bochservisor/src/lib.rs`, `bochs_cpu_loop`) | `PERSIST` (a `RefCell`), `emulating`, hypervisor handle, tick rate | enter / re-enter after `longjmp`, sync devices, emulate, run the VM, dispatch the exit | Bochs by function pointers, WHVP, kicker |
| Kicker thread (`lib.rs`, `kicker`) | `KICKER_ACTIVE` | wait, spin for a period, check, cancel the run | shares `KICKER_ACTIVE` with the loop, calls WHVP |
| Bochs stepping (`bochs/main.cc`, `bochs/cpu/event.cc` and neighbours) | registers, `async_event`, event masks, `activity_state`, inhibition, TLB | `step_device`, `step_cpu`, `handleAsyncEvent`, `exception` + `longjmp` | called by the loop, calls `report_coverage` |
| WHVP wrapper (`whvp.rs`) | partition, mapped regions, `memory_dirty` | `run`, `get/set_context`, `register_interrupt_window`, `get_dirty_list` | the hypervisor |
| Virtual disk (`disk.rs`, `dll_image_t` in `bochs/iodev/hdimage/hdimage.cc`, sector loops in `bochs/iodev/harddrv.cc`) | backing file, volatile store, position | open, go non-volatile, read, write, discard, close | guest through the IDE controller, `restore` |
| Dirty tracking and restore (`bochs/memory/memory.cc`, `whvp.rs`, `lib.rs`) | two-level bitmap, WHVP's log, Bochs' TLB | mark, query the log, reset pages | every writer of guest memory |
| Device state (`lib.rs` 600-682, 986-1052) | list of address ranges with originals | register, lock, sort, merge, save, restore | Bochs' parameter tree |
| Memory reader and page walk (`lib.rs` 294-526, `virtmem.rs`) | region list | physical and virtual reads and writes | module list |
| Physical memory map (`lib.rs` 1085-1201) | regions | build, map into WHVP | dirty tracking |
| Coverage and module list (`lib.rs` 684-804, `win32.rs`) | coverage bitmaps, module-list cache | report, walk lists | adds to `emulating` |
| Symbols (`symloader.rs`, `symdumper.rs`) | symbol tables | load, look up | coverage log |
| Context transfer (`bochs/main.cc` `get_context`/`set_context`) | about 80 registers, and what Bochs derives from them | copy each way | CPU loop |
| Instruction cache (`bochs/cpu/icache.*`, `linkTrace` in `bochs/cpu/cpu.cc`) | entries with an age, pool, links, write-stamp map | look up, build, merge, link, invalidate | `step_cpu`, every writer of memory, `set_context` |
| Timers (`bochs/pc_system.*`) | timers, clock, countdown | register, arm, disarm, tick, call back | devices, `step_device`, `restore` |
| Snapshot save/load (`bochs/gui`, `bochs/memory/misc_mem.cc`) | files | save, load | CPU loop, device state |

What is hard here: two threads and a hypervisor share a flag and a
cancellation; Bochs leaves the Rust loop by `longjmp` from any emulated
instruction; the newest registers are in one of three places; interrupts are
delivered only by Bochs while IF changes under WHVP; memory has four kinds of
writers and two records of what they wrote; a disk is either durable or
volatile depending on how the process was started; decoded code outlives runs
of the guest that rewrite it; timers are fired on equality with a clock that
`restore()` turns back; the guest's module lists are read while its loader
changes them. `PROJECT.json` lists the hazards by line.

What makes each component correct:

* loop: no panic on any path, the side that runs has the newest registers,
  devices keep ticking, no interrupt is lost;
* disk: last write read back, durable when live, untouched file in a snapshot
  session, no assertion reachable by a guest;
* restore: nothing the guest or a device changed survives;
* device state: ranges disjoint, every registered byte saved and restored;
* memory reader: agrees with a byte-wise reference; memory map: every page
  backed exactly once;
* context transfer: Bochs runs in the mode its registers say, and each group of
  registers survives a round trip or is a known gap;
* instruction cache: what is executed is what memory holds;
* timers: each is called exactly when its deadline comes;
* coverage: a block is attributed to the right module, and the walk ends.

## 2. Modules

| Module | Models | Uses |
|---|---|---|
| `CpuLoop` | CPU loop, kicker, Bochs stepping and events, WHVP runs | |
| `MCCpuLoop` | guests for the runs | `CpuLoop` |
| `CpuLoopProofs` | proofs | `CpuLoop`, TLAPS |
| `DiskSpec` | what the virtual disk promises | |
| `VDisk` | `disk.rs`, `dll_image_t`, the IDE sector loops | instance of `DiskSpec` |
| `MCVDisk` | address sets for the runs | `VDisk` |
| `VDiskProofs` | proofs, with the refinement | `VDisk`, TLAPS |
| `DirtyRestore` | dirty bitmap, TLB, WHVP log, `restore` | |
| `MCDirtyRestore` | a scaled-down memory map | `DirtyRestore` |
| `DirtyRestoreProofs` | proofs | `DirtyRestore`, TLAPS |
| `GuestMemory` | the physical memory map, `read_virt` and the page walk | |
| `MCGuestMemory` | a ten-page guest and its page tables | `GuestMemory` |
| `ICache` | decoded-instruction cache with applepie's age check | |
| `MCICache` | a two-page program and the writes to it | `ICache` |
| `ICacheProofs` | proofs | `ICache`, TLAPS |
| `ContextSync` | `get_context`/`set_context` | |
| `MCContextSync` | the modes a guest goes through | `ContextSync` |
| `ContextSyncProofs` | proofs | `ContextSync`, TLAPS |
| `DeviceState` | registered states, snapshot, block allocator, `restore` | |
| `MCDeviceState` | a layout of Bochs' variables | `DeviceState` |
| `DeviceStateProofs` | proofs | `DeviceState`, TLAPS |
| `Coverage` | `report_coverage`, module-list cache and walks, ordinals | |
| `MCCoverage` | two processes, a kernel and their modules | `Coverage` |
| `GuestReadProofs` | proofs of the two components that read the guest | `GuestMemory`, `Coverage`, TLAPS |
| `TimerSpec` | what devices may rely on of timers | |
| `Timers` | `bx_pc_system_c`'s timers | instance of `TimerSpec` |
| `MCTimers` | two timers beside the null timer | `Timers` |
| `TimersProofs` | proofs, with the refinement | `Timers`, TLAPS |

`GuestReadProofs` extends two component modules, so `Coverage` names its state
tuple, `Init`, `Next` and `Spec` `coverageVars`, `CoverageInit` and so on; the
two share no variable and no theorem is about both.

Operators whose comment begins "Mutant of" are plausible slips in the code
(a dropped guard, a forgotten write); replacing the real operator by one breaks
the property named in `PROJECT.json`.

### CpuLoop

`pc` is the emulator thread's place in `bochs_cpu_loop` (`top`, `decide`,
`sync`, `kick`, `run`, `unkick`, `resync`, `dispatch`) or in the callback it has
called (`device`/`tick` in `step_device`, `cpu`/`exec` in `step_cpu`).
`kpc` is the kicker's place. A block of Rust that touches only the emulator
thread's state is one action; each access to what the kicker or WHVP shares
(`KICKER_ACTIVE`, the cancellation) is an action of its own.

* Registers: `fresh` is the set of copies (`bochs`, `hyp`, `ctx`) that hold the
  newest state; an action that changes registers makes its copy the only fresh
  one, a transfer makes the target as fresh as its source. Of the values only
  `EFLAGS.IF` is kept, in `IF_`.
* `persist` is the `RefCell`. `Longjmp` over a live `RefMut` is undefined
  behaviour: the borrow may be released or stay.
* `emulating`, `emu`, `left` are the budget, the clamped copy handed to
  `step_cpu` and what is left of it. `ReportCoverage` may add to the budget in
  the middle.
* Events: `intr` (an interrupt pending at the controller), `async`
  (`async_event`), `inhibit` (STI / MOV SS shadow), `activity`. `SetEFlags`
  unmasks as `setEFlags()` does.
* `next` remembers a HLT or CPUID at RIP, so that an exit for it and its
  emulation agree. A CPUID in Bochs is undone and left to the hypervisor.
* An emulated step may be a whole trace (the build enables handler chaining),
  so `ExecPlain` lets several things happen at once.
* The VM (`GuestStep`, `GuestExit`, `CancelExit`, `WindowExit`) is external,
  modelled from how the loop uses it: a cancellation that finds no run ends the
  next one; a window notification fires once when IF is set.

Exits that behave alike (`EmulateExits`) share one action. Statistics, the
tick-rate calibration and printing are left out; elapsed time is a
nondeterministic number of ticks, at least one after a VM run, because a round
trip takes longer than a microsecond.

### VDisk

`file` outlives the process. `VdiskOpen` starts a process in live or snapshot
mode, `EnterLoop` is the entry of the CPU loop with its call to
`vdisk_set_non_volatile()`, on every re-entry. A transfer is a sequence of
`IdeSeek` (address check and `lseek`) and `IdeReadSector` or `IdeWriteSector`,
each of which moves the registers on. Data registers and PIO buffers are left
out; a write's data is any element of `Data`. A CHS address becomes a block by
32-bit arithmetic (`LogicalSector`): sector number 0 wraps to the largest block
number and is aborted like any other address past the end. Where a CHS address
goes after a track depends on the geometry and is left open. `Crash` is possible at any
step.

`DiskSpec` is the abstract disk: a durable copy, the guest's view, a session.
The refinement mapping takes the file for the durable copy, and for the view
the store where it has an entry and the file elsewhere.

### DirtyRestore

Page contents are reduced to whether they differ from the snapshot
(`changed`). `StepDevice` and `StepCpu` flush the TLB, as both callbacks do
first; a write either misses the TLB and goes through `writePhysicalPage()`,
which marks it, or hits and goes straight to memory. `writePhysicalPage()` marks
before it looks what is at the address, so a write to a device, to ROM or beyond
memory sets bits too (`WriteElsewhere`), and one at 4 GiB or above ends the
process (`WriteTooHigh`). The bitmap is therefore larger than guest RAM
(`BitmapPages`), and so is WHVP's log, because the framebuffers are mapped to
memory that is thrown away; `reset_dirty_pages()` clears all bits and copies only
pages of RAM. `CpuTouch` stands for everything that makes a TLB entry writable
without a write: ENTER (`stack32.cc` 224 and its 16- and 64-bit forms), the
probes of a hardware task switch (`tasking.cc` 211), of masked AVX stores
(`avx512_move.cc` 161), reads with paging off (`paging.cc` 1295), and
read-modify-writes or writes over two pages that fault after their first part.
`Restore` is the whole of
`restore()` as far as memory is concerned: `get_dirty_list()`, then
`reset_dirty_pages()`. At this commit `restore()` is reached only through
`_benchmark_restore()` behind an `if false` (`lib.rs` 1411-1419); the model
takes it as callable at that place, after a VM exit.

### GuestMemory

`MapPage` is one iteration of the loop over physical memory: ask Bochs for the
page's host address, which allocates the block it lies in, skip it, extend a
region or start one. Then `Start` and `ReadByte` are `read_virt()`, one byte at
a time with its cached translation. A slot of memory stands for a page-table
entry when a table is walked and for a byte when data is read, so every address
is a number in base `E` with one digit per level. `ReadCorrect` compares with a
translation written from the processor's definition: CR3 and large frames are
rounded down, memory is addressed directly. It is checked for CR3 values
without flag bits: the code adds the entry's offset to CR3 as it is, so with
PWT, PCD or a PCID in it the wrong entries are read. `read_phys()` is modelled
for the reads its callers make (one byte, one aligned entry); the writing
functions and `for_each_page()` have no callers.

### ICache

Memory is a row of bytes and an instruction one or two of them. `ic` is
`bxICache_c`: entries by hashed address, the pool their instructions lie in,
the index of page-split traces, the time stamp of links. `Fetch` is
`getICacheEntry()` with `serveICacheMiss()`; `Round` is one iteration of its
loop and `Mergeable` the condition of `mergeTraces()`. The `Exec...` actions
are one instruction each: the next place of the trace, a store (which may hit
cached code and stop the trace), a branch through a link, into a trace that
becomes linked, or back to the loop. `DecWriteStamp` is what a write by Bochs
does to cached code; `VmWrite` and `Restore` write memory and do nothing of the
kind. Pushes (`ExecPush`, `ExecCall`, `PushFrame`) go through the cached
translation of the stack page (`stack`), which remembers whether the page had
lines in the map when it was looked up: if it had none, the push does not look at
the map (`stack.cc` 248). A miss drops that translation if the new trace starts
in the stack page (`MissStack`), but not if only its second page is that one.
`FetchFault` is a first instruction whose second page is not present: the entry
keeps the complement of its address and a place of the pool that the next trace
will take (`FailedMiss`). Against them there is the age of an entry (`switches`, counted by
`SetContext`) and the flush of the TLB, which breaks links by raising the stamp.
Addresses are physical; an address space decides where a branch leads. The fetch
mode selects among entries and never makes one invalid; it is left out.

### ContextSync

`bochs` and `hyp` are the two copies, `truth` is the state one processor would
have. Registers that are copied as they are take no part. The transfers are one
action each, in the code's order: flags (`SetFlags`, `FlagHandlers`) before CS
and EFER, pointers before EFER, and at the end the calls of
`handleAlignmentCheck()`, `handleCpuModeChange()`, `handleSseModeChange()` and
`handleAvxModeChange()` (`Handlers`), each an operator that changes the fields
its function changes, from the registers and from what the others left.
`Meaning` is what the registers mean by the architecture, written without the
handlers; `DerivedCoherent` compares the two. `lost` collects the groups of
registers that one of the known gaps has hit:

* `ctl`: EFLAGS.VM is dropped while Bochs is still in long mode;
* `cs`: in real mode `handleCpuModeChange()` makes CS an accessed read/write data
  segment (`proc_ctrl.cc` 373), whatever the hypervisor had there;
* `ptr`: the layout of the x87 pointers is chosen by the old EFER.LMA;
* `tpr`: CR8 carries the upper half of the task priority only;
* `fpu`: registers are read relative to the top of stack and written by number,
  and the top is never written;
* `tag`: the hypervisor's tag byte is the abridged one of FXSAVE, with a bit for
  each register that is not empty (`Abridged`). The code gives it the low byte of
  the 16-bit tag word (`GetTag`) and takes it back zero-extended (`SetTag`), so
  only a tag word that happens to agree survives;
* `ext`: upper YMM halves and PKRU have no field in the context.

`OnlyKnownGaps` says that nothing else is lost, in any order of changes and
transfers.

### DeviceState

A behaviour is a series of processes. The first is live and may save a snapshot;
later ones load it. Bochs' variables are bytes; a parameter of the
save/restore tree names a range of them and is registered with the loop if it
is a plain pointer. Bochs constructs the parameters in any order here. `Enter`,
`Merge` and `Save` are the preparation of the list on the first entry;
`MapMemory` is the creation of the hypervisor, which allocates every unused
block of guest memory; `Longjmp` leads back to `Enter`. `Restore` copies the
saved ranges and the dirty blocks back. Reading and writing snapshot files is
the identity on values (Bochs prints numbers and reads them back); what is kept
is which variables take part. Loading ends with `bx_sr_after_restore_state()`,
which computes some variables anew (`Derived`; among them registered ones, such
as `last_xres` and `last_yres` of the VGA and the real-mode CS cache), before the
originals are copied. `resumed` records Bochs' variables at that point, and
`RestoreExact` compares with it: a restored machine is the one that was resumed,
which need not be byte for byte what the files hold.

### Coverage

`flinks` and `tail` are the guest's lists, changed by its loader one store at a
time (external: the order of stores of InsertTailList and RemoveEntryList). A
report finds the module in the cache, is dropped, or walks the list of the
running context; the walk is a step per entry and the guest stands still
meanwhile. `source` is an auxiliary variable: the list the cache is a true copy
of. `Linked` is what the forward links lead to from the head: the least set that
holds it and is closed under them. Modules that the loader has linked together
do not overlap (`Apart`); of an entry that is not sane, whose fields
`get_modlist_*()` do not use, nothing is assumed. `sort_by_key()` is given by its
result (`SortedByBase`). Coverage is compiled out at this commit (`COVERAGE_DISABLE`, `lib.rs` 31);
the model is of the code with it enabled. `WalkHangs` stands for a loop that
sees an entry for the second time: it will never leave.

### Timers

`Skew` shortens the countdown when an earlier deadline is set. `Tick` is
`tickn()`; `CountdownEvent` is `countdownEvent()` up to the first callback, and
each callback is a step during which devices may arm and disarm timers.
`TimerSpec` has a clock, deadlines and the calls owed now. The mapping takes
`time_ticks()` for the clock, `timeToFire` of the active timers for the
deadlines and `triggered` for the calls owed. The copy that `restore()` goes back
to is made between two operations at any clock: a snapshot session starts with
the clock and the deadlines of the machine that was saved.

## 3. Runs

| Run | Expected | Distinct states | Shows |
|---|---|---|---|
| `loop_snapshot` | pass | 0.4 million | Snapshot session, coverage on, guest faults and inhibition: `TypeOK`, `NoPanic`, `FreshRegisters` |
| `loop_liveness` | pass | 62 thousand | Live session, all faults, fair threads: `DevicesKeepTicking`, `InterruptDelivered`, `CanceledDelivers` |
| `loop_borrow` | violation | stops at the violation | `NoPanic`: a fault in `step_device()` jumps over the borrow of `PERSIST` |
| `loop_halt` | violation | stops at the violation | `SleepHolds`: a halted processor runs on |
| `vdisk` | pass | 77 thousand | `TypeOK`, `NoPanic`, `ImplementsDisk` |
| `dirty_restore` | pass | 0.34 million | `TypeOK`, `LevelsAgree`, `OnlyEscapesSurvive` |
| `guest_memory` | pass | 0.14 million | `MapExact`, `ReadCorrect` |
| `icache` | pass | 3.8 million | `TypeOK` (places stay within the pool), `NoStaleCode`, `TracesDisjoint` |
| `context` | pass | 2.6 million | `TypeOK`, `DerivedCoherent`, `OnlyKnownGaps` |
| `device_state` | pass | 1.1 million | `TypeOK`, `SavedExactly`, `NoSharing`, `RestoreExact`, `GuestRestored` |
| `coverage` | pass | 1.1 million | `TypeOK`, `OrdinalsAgree`, `CreditedRight`, `HangsOnlyIfTorn` |
| `timers` | pass | 4.1 million | `TypeOK`, `NoneMissed`, `ImplementsTimers` |

`OnlyEscapesSurvive` says that a page escapes a restore in no other way than by
DMA, by a partial word, or by a touch without a write, which leaves a writable
TLB entry for a page that is not marked (`CpuTouch`, see DirtyRestore).

### Known deviations

Two runs exhibit a disagreement between the code and what it says of itself:

* `loop_borrow`: `step_device()` is called with `PERSIST` borrowed. An exception
  raised while it delivers an interrupt jumps over the borrow, and the next
  entry of the loop may panic.
* `loop_halt`: `handleWaitForEvent()` returns 0 for a halted processor "to allow
  for ticking" (`bochs/cpu/event.cc` 102), but only 1 makes its callers return.
  `step_cpu()` goes on with the instruction behind the HLT, and the loop runs
  the VM there.

Others are part of what the passing properties say, or of the conditions they
are checked under:

* A guest that always exits before the kicker's period (1 ms) has passed is
  never cancelled; no interrupt window is requested and an interrupt that found
  IF clear starves. `CanceledDelivers` assumes runs that are cancelled again and
  again.
* After an STI or MOV SS as the last emulated instruction the inhibition stays:
  it is an instruction count (`bochs/cpu/event.cc` 394) that stands still under
  WHVP. `InterruptDelivered` is checked without inhibiting instructions.
* A #DB exit of a live session clears DR6 in a local copy that is dropped
  (`lib.rs` 1478). `FreshRegisters` is checked in a snapshot session.
* DMA is not recorded as dirty; the last partial word of a region's WHVP bitmap
  is ignored (`whvp.rs` 906). Both are among the escapes above, and so are pages
  touched without a write.
* The gaps of the context transfer, listed under ContextSync. One of them
  contradicts "access to all of the CPU state" (`bochs/main.cc` 643): the x87
  tag word is cast to a byte (722) where WHVP expects the abridged one, so a
  stack full of valid registers arrives empty. `pack_FPU_TW()`
  (`bochs/cpu/sse_move.cc` 46) would convert it.
* A page-split trace marks its second page, but `serveICacheMiss()` compares only
  the first with the cached stack page (`bochs/cpu/icache.cc` 105). If the second
  one is the stack page and was cached without code in it, pushes onto it leave
  the trace as it is, and the old instruction is executed. `NoStaleCode` is
  checked and proved without such instructions (`SplitFree`); the run's instance
  with `StackPages = {0}`, `EntryPoints = {3, 5}` and a write of "branch" to
  address 0 violates it.
* The entry of an instruction whose second page faults is "left invalid" by
  taking the complement of its address (`bochs/cpu/icache.cc` 133-135), but
  `flushSMC()` (`icache.h` 124) only knows -1 as invalid. A store that reaches
  the slot through the index of page-split traces puts the end marker into a
  place of the pool that belongs to another trace by then; that trace is found,
  executes nothing and is found again until the next context switch. The model
  has this behaviour (`FailedMiss`); no wrong instruction is executed, so
  `NoStaleCode` holds.
* EFLAGS, the selectors and VRAM are not among the states `restore()` takes back
  (`RestoreExact` says so), and what it takes back is the state after
  `bx_sr_after_restore_state()`, not the files.
* `restore()` addresses Bochs' memory vector by guest address. `GuestRestored`
  holds because blocks are touched in ascending order, which an optional RAM
  image above address 0 would break.
* A report consults the module cache whichever process it was made for
  (`CreditedRight` is about a cache of the running one), and a walk that catches
  the removal of the last module between its two stores never ends.

`restore()` itself is reached only through `_benchmark_restore()`, behind an
`if false` (`lib.rs` 1410-1419); the models take it as callable there.

### Bounds

* `EMULATE_STEPS` = 2, `MAX_EMULATE` = 3, `COVERAGE_STEPS` = 2 stand for 250,
  1000, 100. Two exits in a row, or one exit and a coverage report, exceed the
  clamp, so the budget is used below, at and above it.
* `MaxTicks` = 1 or 2: an interrupt raised by one tick is delivered before the
  next, in the same call or the next.
* Disk: three sectors, two contents, transfers of up to two sectors, four LBA
  addresses (one past the end, and the register wraps) and CHS addresses from
  sector number 0. A transfer can start on
  the last sector and be aborted on its second.
* Dirty pages: words of 2 pages, first-level bits of 4, 12 pages of RAM and a
  bitmap of 16. The low region (5 pages) ends inside a word as the real one does
  (160 pages are 2.5 words of 64); then a framebuffer shorter than a word, ROM,
  an aligned region, and beyond RAM a framebuffer and ROM at the end of the
  bitmap. Bochs' CPU writes RAM, both ROMs and an address too high; DMA goes to
  RAM and ROM; the VM writes both regions and both framebuffers.
* Guest memory: two slots per page, four levels as in the code, ten pages in
  blocks of four with a device, the BIOS window and a ROM; three orders of block
  allocation; 192 page tables with absent, large and PAT-marked entries and
  entries that lead to a device, a ROM or beyond memory. Reads of up to three
  bytes cross two page boundaries.
* Instruction cache: two pages of three lines share the three slots of the hash,
  so entries displace each other; the pool of six places holds one trace and
  part of another, so it starts over; one page-split entry; a time stamp that
  wraps after three flushes; one run of the VM with a second context commit,
  before which and after which Bochs executes as much as it likes. The stack lies
  in the second page, where code lies as well; the instruction that crosses a
  page continues onto the first.
* Context: all five CPU modes, both privilege levels, SIMD on and off; an x87
  stack of 4 (the "byte" holds two of its tags, or an abridged bit for each of
  the 4) that starts tagged zero, empty, or with the one word whose low byte is
  its abridged form; three changes by the guest, with transfers between any of
  them.
* Device state: six parameters, three in a row so that one region swallows two
  others, a gap, an unregistered one and one computed anew after loading; three blocks of memory, the first of
  which may be loaded before the start; three writes per process, any number of
  processes, re-entries and restores.
* Coverage: one module at two addresses in two processes, a list whose order is
  not the order of addresses, an entry that is not sane, a module that can be
  loaded where another was once that is unloaded; three list changes.
* Timers: `NullInterval` = 3 stands for 2^32-1, with periods of 1 and 5 below
  and beyond it; ticks of 1 and 4; two arming operations beside the
  registrations, from devices or callbacks.

### Fairness

`WF(Emulator)` and `WF(Kicker)`: both are host threads that are always runnable.
`WF(Hypervisor)`: WHVP acts on a cancellation and on an interrupt window. The
guest owes nothing: it may run for ever without an exit. Time is not modelled,
so a run may also always end before the kicker's period has passed;
`CanceledDelivers` therefore assumes that runs are cancelled again and again.
The other modules state safety only: what they model runs inside the loop's
steps, and `HangsOnlyIfTorn` says of the one unbounded loop when it ends.

Deadlock is checked in every run; the loop's end states stutter explicitly.

## 4. Proofs

TLAPS checks the following for every value of the constants that satisfies the
named assumptions: positive sizes and bounds, inputs from the sets the code
accepts, and what is said under each component. A theorem `Spec => []P` rests on
an inductive invariant, named below, because `P` alone is not preserved by a
step; TLC checked the invariants on the instances of the runs before they were
proved.

**CPU loop.** `TypeCorrect` (`Spec => []TypeOK`), from `ControlInv` (control
types, and a tick only while ticks are left, without which `left` could become
negative) and `FlagsOK`. `LoopNeverPanics`, if device steps raise no guest
exception: `BorrowInv` says at which places `PERSIST` is borrowed and that in
`step_cpu` the budget never falls below the copy being spent; coverage only
adds, and a re-entry resets it. `RegistersStayInSync`, in a snapshot session or
without #DB exits: `FreshInv` gives, for each place of the loop, a copy that must
be fresh there.

**Virtual disk.** `DiskTypeCorrect`, `DiskNeverPanics` and `DiskRefinement` (`Spec => ImplementsDisk`). `DiskInv` relates the
transfer to the image's position and the mode to the store: a non-volatile disk
has an empty store, a snapshot session is volatile, and nothing is stored before
the loop is entered.

**Timers.** `TimersTypeCorrect`, `TimersNoneMissed` and `TimersImplement`
(`Spec => ImplementsTimers`), for every number of timers, period and width of
the countdown. `TimersInv` says that no active timer's deadline comes before the
end of the countdown, that the null timer keeps the next countdown within the
width, and the same of the copy that `restore()` goes back to; so the test for
equality in `countdownEvent()` finds every timer at its deadline.

**Dirty tracking.** `DirtyTypeCorrect`, `DirtyLevelsAgree` and
`DirtyOnlyEscapes`, for every size of memory, bitmap and word, every region map
and any addresses, devices and more than 4 GiB included.
`RegionsAssumption` says that a region that fills a word of the bitmap starts at
one, as conventional memory, extended memory and the framebuffers do: without
it `get_dirty_list()` would shift pages. `TrackedInv` says where the record of
each changed page is: its bit, WHVP's log, or one of the escapes; and that a
writable TLB entry belongs to a marked page unless a touch without a write made
it.

**Context transfer.** `SyncTypeCorrect`, `SyncDerivedCoherent` and
`SyncOnlyKnownGaps`, for every number of x87 registers, contents and legal
control states. `HandlersOK` is the lemma behind the second: from any derived
state with the CPL of the new CS, the four handlers in their order arrive at
`Meaning`, but for the CPL that the alignment check saw. `SyncInv` has the types of the three copies, the two ways in
which Bochs' derived state may stand to its registers (up to date, or with the
alignment check made for the previous CPL), and the agreement of the running
engine with `truth` in every group that is not `lost`. Its task-priority clause
is stronger than the property: while the hypervisor runs, the low half must
still be in Bochs' copy, or be clear. Tags that are not lost imply that the
registers they belong to are not.

**Device state.** `DeviceTypeCorrect`, `DeviceSavedExactly`, `DeviceNoSharing`,
`DeviceRestoreExact`, and `DeviceGuestRestored` if optional RAM images stay in
the first block (`OptRam \subseteq {0}`; otherwise blocks are not touched in
ascending order, see "Known deviations"). `DeviceInv` follows the list through
registration, sorting and merging (disjoint, complete, apart below the place
the merge has reached), the saved copy (equal to `resumed`, whatever
`bx_sr_after_restore_state()` computed) and the block table (no block shared, the counter above every block in use).
`DeviceRoom` says that the walk that creates the hypervisor never runs out of
host blocks; it justifies that `MapMemory` has no panic. Sorting is specified by
its result (`Sorted`), so no induction over the list is needed.

**Guest memory.** `MapCorrect` (`Spec => []MapExact`), for every layout and every
order in which blocks were touched, none twice (`MemoryAssumption`): `MapInv`
says that every region is right about each of its pages, that regions do not
overlap and miss no page passed. `ReadVirtCorrect` (`[]ReadCorrect`), for every
memory and page table under `PlainTables`: no flag bits in CR3 and no bits below
the alignment in entries of large pages. The hypothesis is needed, because
`virt_to_phys_dirty()` uses both as they are; TLC's instance satisfies it.
`ReadInv` says that the translation carried from byte to byte is the one the
processor would make, unless it is at a page boundary, where `read_virt()` renews
it. The walk has a fixed depth, so its recursive definition is unrolled level by
level (`WalkDef`, `TableAtDef`) and compared with the reference at each
(`WalkStepOK`).

**Instruction cache.** `CacheTypeCorrect`, `CacheTracesDisjoint` and
`CacheNoStaleCode`, for every size of memory, page, line, trace, pool and table.
`CacheAssumption` asks that lines and the hash divide into pages as in Bochs and
that the pool has room for one longest trace. The first two hold for every
program, from `ShapeInv`, which speaks of places and ends of traces only.
`CacheNoStaleCode` is for programs in which no instruction continues onto a page
of the stack (`SplitFree`; "Known deviations" says why). `CacheInv`, from
which it follows, has six parts beside the types. A stack page whose pushes do
not look at the map has no line in it (`SideOK`). Entries that can be found lie below `mpindex`, apart from
each other, end in a dummy and are not from a later switch (`EntriesOK`). The trace of
an entry of the current age was decoded from the bytes now in memory, has all its
lines in the write-stamp map and in its own mask, and is in the page-split index
if it crosses a page, so that `handleSMC()` finds it (`CodeOK`). No link is newer
than the stamp (`StampsOK`); a link of the current stamp leads where its branch
goes now (`LinksOK`); and execution stands in a run of fresh places that ends in a
dummy (`Runs`). `NoStaleCode` alone is not inductive: what runs next depends on
links and entries that are not executing. While the guest runs under WHVP nothing
is claimed of cached code; `set_context()` makes every entry older than the
current switch and breaks every link, which is why nothing stale is found later.
The loop of `serveICacheMiss()` is a recursive function. Its invariant (`RoundInv`)
is carried along the rounds with induction stated as a fact about a set of
numbers (`Induction`, from the well-foundedness of <), which needs no operator
parameter.

**Coverage.** `CoverageTypeCorrect`, `CoverageOrdinalsAgree`,
`CoverageCreditedRight` and `CoverageHangsOnlyIfTorn`, for every set of processes,
entries, addresses and code. `ListsAssumption` and `InitialAssumption` ask that
the lists start as rings of distinct entries whose modules do not overlap, that
no module is empty and that a module has one length wherever it is loaded.
`CoverageInv` has four parts beside the two properties. `ListsInv`: between any
two stores of the loader no two nodes that the links lead to have the same next
one, the node that closes the ring (`Closer`, the tail or what the pending store
makes the tail) leads to the head, and the tail can be reached unless the list
is `Torn`. `OrdinalsInv`: the table repeats no module and every bit has one in
it. `CacheInv`: what is cached describes entries and has their ordinals, and if
`source` names a list, it describes exactly that list's usable entries, in
order. `WalkInv`: the same of the list being built with respect to what the walk
has seen; and unless the list is torn, what it has seen is closed under the links
up to where it stands (`PathInv`). From injective links it follows that the walk
meets no entry twice, and from the closed set that a walk that has met the tail
has met everything: facts about least closed sets (`ReachClosed`,
`ReachLeast`), so no induction over paths is needed. Only the ring that
`CoverageInit` builds from a sequence and the last index that `get_modoff()`
looks for use induction, as a fact about a set of numbers as in the instruction
cache.

Hypotheses of `LoopNeverPanics`, `RegistersStayInSync`, `DeviceGuestRestored`,
`ReadVirtCorrect` and `CacheNoStaleCode` are needed: without them the properties
fail, as described under "Known deviations" and GuestMemory.

Only model-checked are the liveness properties (`DevicesKeepTicking`,
`InterruptDelivered`, `CanceledDelivers`): fairness is out of the prover's reach.

## 5. Not modelled

* The rest of Bochs: instructions, decoder, devices, BIOS, GUI, debugger. It is
  upstream code, more than nine tenths of the repository, and nearly all of it
  is data (tables, softfloat, instruction semantics) that no property here is
  about. Of it the models take what applepie patches or relies on: stepping,
  events, exceptions, the TLB, the instruction cache, timers, memory, the IDE
  sector loops.
* Symbols (`symloader.rs`, `symdumper.rs`): file parsing and calls to DbgHelp
  whose only product is log text.
* Timing (`time.rs`): time is a nondeterministic number of ticks. How much of
  it is lost when iterations are shorter than a tick (`lib.rs` 1296) is open.
* SMI, NMI, INIT and nested virtualisation in the event machinery; the fetch
  mode of the instruction cache; 32-bit contexts in the module walk.
* Generated bindings, `build.py`, the guest test programs.

## 6. Plan

1. Done: the component models above with two abstract specifications, and proofs
   of every invariant and refinement that the passing runs check.
2. Left open: a composition of loop, disk, memory and devices in which one
   `restore()` takes all of them back together.
