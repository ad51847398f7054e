---------------------------- MODULE DeviceState ----------------------------
(***************************************************************************)
(* The list of device states that Bochs registers with the CPU loop, the   *)
(* copy of them that the first entry of bochs_cpu_loop() makes in a        *)
(* snapshot session, and restore(), together with the block allocator of   *)
(* guest memory, whose counter is one of the registered states while its   *)
(* block table is not.                                                     *)
(*                                                                         *)
(* A behaviour is a series of processes: a live one, which ends by saving  *)
(* a snapshot or in a panic, then ones that resume the saved snapshot.     *)
(* Bochs' variables are bytes of the host's address space, and a           *)
(* parameter of its save/restore tree names a range of them.               *)
(***************************************************************************)
EXTENDS Naturals, Sequences, FiniteSets, Functions

CONSTANTS
  Top,      \* last byte of Bochs' variables
  Params,   \* the parameters: [kind, addr, len]
  UsedAt,   \* the byte that is BX_MEM_C::used_blocks
  Derived,  \* bytes that bx_sr_after_restore_state() computes anew, such as
            \* last_xres and last_yres of the VGA and the real-mode CS cache
  Blocks,   \* number of blocks of guest memory
  OptRam,   \* blocks that optional RAM images are loaded into
  MaxWrites \* bound: writes per process

\* Kinds of parameter.
\* shadow: a pointer to the variable, registered with the CPU loop.
\* ram, vram: shadow parameters too, which register_state() skips.
\* special: read and set by handlers, never registered (EFLAGS, selectors,
\* the block table).
Addr == 0 .. Top
Kinds == {"shadow", "ram", "vram", "special"}
Block == 0 .. Blocks - 1
NoBlock == Blocks
Byte == 0 .. Blocks
Span(s) == s.addr .. s.addr + s.len - 1

ASSUME SizeAssumption ==
  /\ Blocks \in Nat \ {0, 1}
  /\ MaxWrites \in Nat
  /\ OptRam \subseteq Block
  /\ Top \in Nat

ASSUME ParamsAssumption ==
  /\ \A p \in Params : /\ p.kind \in Kinds
                       /\ p.len \in Nat \ {0}
                       /\ p.addr \in Nat /\ Span(p) \subseteq Addr
  /\ \A p, q \in Params : p # q => Span(p) \cap Span(q) = {}
  /\ \E p \in Params : p.kind = "shadow" /\ Span(p) = {UsedAt}
  /\ Derived \subseteq Addr \ {UsedAt}

Tracked == UNION {Span(p) : p \in {q \in Params : q.kind = "shadow"}}
InTree == UNION {Span(p) : p \in Params}

VARIABLES
  pc,      \* where the process is
  pending, \* parameters not constructed yet
  host,    \* Bochs' variables
  blocks,  \* BX_MEM_C::blocks, as offsets into the memory vector
  ram,     \* the memory vector, one value per block
  dirty,   \* guest blocks written since the last restore
  states,  \* DEVICE_STATE
  ii,      \* index of the merge loop
  locked,  \* DEVICE_STATE_LOCKED
  mapped,  \* persist.hypervisor is set
  file,    \* the saved snapshot, if any
  resumed, \* history: Bochs' variables once the snapshot was loaded
  writes   \* writes by this process

vars == <<pc, pending, host, blocks, ram, dirty, states, ii, locked, mapped, file, resumed, writes>>

NoFile == [there |-> FALSE, host |-> [a \in Addr |-> 0],
           blocks |-> [b \in Block |-> NoBlock], ram |-> [b \in Block |-> 0]]
Snapshot == file.there

\* A fresh, live process.
Init ==
  /\ pc = "register"
  /\ pending = Params
  /\ host = [a \in Addr |-> 0]
  /\ blocks = [b \in Block |-> NoBlock]
  /\ ram = [b \in Block |-> 0]
  /\ dirty = {}
  /\ states = <<>>
  /\ ii = 1
  /\ locked = FALSE
  /\ mapped = FALSE
  /\ file = NoFile
  /\ resumed = host
  /\ writes = 0

-----------------------------------------------------------------------------
(* Initialisation of Bochs (bx_init_hardware()).                           *)

\* Constructing a parameter: a shadow parameter calls register_state(), which
\* keeps neither guest memory nor VRAM.
Register(p) ==
  /\ pc = "register"
  /\ p \in pending
  /\ pending' = pending \ {p}
  /\ states' = IF p.kind = "shadow"
               THEN Append(states, [addr |-> p.addr, len |-> p.len, original |-> <<>>])
               ELSE states
  /\ pc' = CASE pending' # {} -> "register"
             [] pending' = {} /\ Snapshot -> "load"
             [] OTHER -> "entry"
  /\ UNCHANGED <<host, blocks, ram, dirty, ii, locked, mapped, file, resumed, writes>>

\* Mutant of Touch: used_blocks is not advanced.
TouchForgets(b) ==
  /\ pc \in {"register", "run"}
  /\ pc = "register" => pending # {} /\ b \in OptRam
  /\ blocks[b] = NoBlock
  /\ blocks' = [blocks EXCEPT ![b] = host[UsedAt]]
  /\ UNCHANGED <<pc, pending, host, ram, dirty, states, ii, locked, mapped, file, resumed, writes>>

\* allocate_block(), when the address of an unused block is asked for: by an
\* optional RAM image before the machine starts, by any access after.
Touch(b) ==
  /\ pc \in {"register", "run"}
  /\ pc = "register" => pending # {} /\ b \in OptRam
  /\ blocks[b] = NoBlock
  /\ LET free == host[UsedAt] < Blocks
     IN  /\ blocks' = IF free THEN [blocks EXCEPT ![b] = host[UsedAt]] ELSE blocks
         /\ host' = IF free THEN [host EXCEPT ![UsedAt] = @ + 1] ELSE host
         /\ pc' = IF free THEN pc ELSE "panic"
  /\ UNCHANGED <<pending, ram, dirty, states, ii, locked, mapped, file, resumed, writes>>

\* bx_sr_after_restore_state(): the CPU and the devices compute some of their
\* variables anew from the others; what they compute is left open.
AfterRestoreState(loaded) ==
  {[a \in Addr |-> IF a \in Derived THEN anew[a] ELSE loaded[a]] :
     anew \in [Derived -> {0, 1}]}

\* restore_hardware(): every parameter of the tree, special ones included, is
\* read from the snapshot's files, and variables outside the tree keep their
\* value; then bx_sr_after_restore_state().
Load ==
  /\ pc = "load"
  /\ host' \in AfterRestoreState(
                 [a \in Addr |-> IF a \in InTree THEN file.host[a] ELSE host[a]])
  /\ resumed' = host'
  /\ blocks' = file.blocks
  /\ ram' = file.ram
  /\ pc' = "entry"
  /\ UNCHANGED <<pending, dirty, states, ii, locked, mapped, file, writes>>

-----------------------------------------------------------------------------
(* bochs_cpu_loop().                                                       *)

\* sort_by_key(): the sequences that hold the elements of s by ascending address.
Sorted(s) ==
  {t \in {[k \in DOMAIN s |-> s[p[k]]] : p \in Bijection(DOMAIN s, DOMAIN s)} :
     \A i, j \in DOMAIN s : i < j => t[i].addr <= t[j].addr}

\* Mutant of Enter: every entry counts as the first.
EnterFirst ==
  /\ pc = "entry"
  /\ locked' = TRUE
  /\ states' \in IF Snapshot THEN Sorted(states) ELSE {states}
  /\ ii' = 1
  /\ pc' = IF Snapshot THEN "merge" ELSE IF mapped THEN "run" ELSE "map"
  /\ UNCHANGED <<pending, host, blocks, ram, dirty, mapped, file, resumed, writes>>

\* An entry.  Only the first one in a snapshot session prepares the states,
\* beginning with the sort by address; an entry by way of longjmp finds the
\* list locked.
Enter ==
  LET first_run == ~locked
      prepare   == first_run /\ Snapshot
  IN  /\ pc = "entry"
      /\ locked' = TRUE
      /\ states' \in IF prepare THEN Sorted(states) ELSE {states}
      /\ ii' = 1
      /\ pc' = CASE prepare /\ states = <<>> -> "panic"
                 [] prepare /\ states # <<>> -> "merge"
                 [] ~prepare /\ mapped -> "run"
                 [] OTHER -> "map"
      /\ UNCHANGED <<pending, host, blocks, ram, dirty, mapped, file, resumed, writes>>

Adjoins(s, t) == s.addr + s.len = t.addr

\* Mutant of Merge: the loop moves on after it has merged.
MergeMovesOn ==
  /\ pc = "merge"
  /\ ii < Len(states)
  /\ ii' = ii + 1
  /\ states' = IF Adjoins(states[ii], states[ii + 1])
               THEN [k \in 1 .. Len(states) - 1 |->
                       CASE k < ii -> states[k]
                         [] k = ii -> [states[k] EXCEPT !.len = @ + states[k + 1].len]
                         [] OTHER  -> states[k + 1]]
               ELSE states
  /\ UNCHANGED <<pc, pending, host, blocks, ram, dirty, locked, mapped, file, resumed, writes>>

\* Mutant of Merge: a region grows by its own length.
MergeDoubles ==
  /\ pc = "merge"
  /\ ii < Len(states)
  /\ states' = [k \in 1 .. Len(states) - 1 |->
                  CASE k < ii -> states[k]
                    [] k = ii -> [states[k] EXCEPT !.len = @ + @]
                    [] OTHER  -> states[k + 1]]
  /\ UNCHANGED <<pc, pending, host, blocks, ram, dirty, ii, locked, mapped, file, resumed, writes>>

\* One iteration of the merge loop: a region that adjoins the next one swallows
\* it and is looked at again.
Merge ==
  /\ pc = "merge"
  /\ ii < Len(states)
  /\ \/ /\ Adjoins(states[ii], states[ii + 1])
        /\ states' = [k \in 1 .. Len(states) - 1 |->
                        CASE k < ii -> states[k]
                          [] k = ii -> [states[k] EXCEPT !.len = @ + states[k + 1].len]
                          [] OTHER  -> states[k + 1]]
        /\ UNCHANGED ii
     \/ /\ ~Adjoins(states[ii], states[ii + 1])
        /\ ii' = ii + 1
        /\ UNCHANGED states
  /\ UNCHANGED <<pc, pending, host, blocks, ram, dirty, locked, mapped, file, resumed, writes>>

\* The overlap check and, when it passes, the copy of every region.
Save ==
  LET overlap == \E i, j \in DOMAIN states :
                   i # j /\ Span(states[i]) \cap Span(states[j]) # {}
  IN  /\ pc = "merge"
      /\ ii >= Len(states)
      /\ states' = IF overlap THEN states
                   ELSE [k \in DOMAIN states |->
                          [states[k] EXCEPT !.original =
                             [j \in 1 .. states[k].len |-> host[states[k].addr + j - 1]]]]
      /\ pc' = CASE overlap -> "panic"
                 [] ~overlap /\ mapped -> "run"
                 [] OTHER -> "map"
      /\ UNCHANGED <<pending, host, blocks, ram, dirty, ii, locked, mapped, file, resumed, writes>>

Unused == {b \in Block : blocks[b] = NoBlock}

\* Mutant of MapMemory: guest memory is walked from the top.
MapMemoryDown ==
  /\ pc = "map"
  /\ blocks' = [b \in Block |->
                  IF b \in Unused THEN host[UsedAt] + Cardinality({c \in Unused : c > b})
                  ELSE blocks[b]]
  /\ host' = [host EXCEPT ![UsedAt] = @ + Cardinality(Unused)]
  /\ mapped' = TRUE
  /\ pc' = "run"
  /\ UNCHANGED <<pending, ram, dirty, states, ii, locked, file, resumed, writes>>

\* Creating the hypervisor asks for the backing of every page in ascending
\* order, which allocates every block that is still unused.  Running out of
\* blocks would be a panic of Bochs; theorem DeviceRoom says it cannot be.
MapMemory ==
  /\ pc = "map"
  /\ host[UsedAt] + Cardinality(Unused) <= Blocks
  /\ blocks' = [b \in Block |->
                  IF b \in Unused THEN host[UsedAt] + Cardinality({c \in Unused : c < b})
                  ELSE blocks[b]]
  /\ host' = [host EXCEPT ![UsedAt] = @ + Cardinality(Unused)]
  /\ mapped' = TRUE
  /\ pc' = "run"
  /\ UNCHANGED <<pending, ram, dirty, states, ii, locked, file, resumed, writes>>

-----------------------------------------------------------------------------
(* Running.                                                                *)

\* A device or the CPU changes one of its variables.
DeviceWrite(a, v) ==
  /\ pc = "run"
  /\ writes < MaxWrites
  /\ a # UsedAt
  /\ host' = [host EXCEPT ![a] = v]
  /\ writes' = writes + 1
  /\ UNCHANGED <<pc, pending, blocks, ram, dirty, states, ii, locked, mapped, file, resumed>>

\* The guest writes memory, and the write is marked in the dirty bitmap by its
\* guest address (module DirtyRestore is about the bitmap).
GuestWrite(b, v) ==
  /\ pc = "run"
  /\ writes < MaxWrites
  /\ blocks[b] # NoBlock
  /\ ram' = [ram EXCEPT ![blocks[b]] = v]
  /\ dirty' = dirty \cup {b}
  /\ writes' = writes + 1
  /\ UNCHANGED <<pc, pending, host, blocks, states, ii, locked, mapped, file, resumed>>

\* An exception raised while Bochs runs unwinds to main.cc, which enters the
\* loop again.
Longjmp ==
  /\ pc = "run"
  /\ pc' = "entry"
  /\ UNCHANGED <<pending, host, blocks, ram, dirty, states, ii, locked, mapped, file, resumed, writes>>

\* A USB device connected at run time constructs shadow parameters, and
\* register_state() refuses them.
HotPlug ==
  /\ pc = "run"
  /\ pc' = "panic"
  /\ UNCHANGED <<pending, host, blocks, ram, dirty, states, ii, locked, mapped, file, resumed, writes>>

\* The byte that the saved regions give address a.
SavedByte(a) ==
  LET k == CHOOSE k \in DOMAIN states : a \in Span(states[k])
  IN  states[k].original[a - states[k].addr + 1]
Saved == UNION {Span(states[k]) : k \in DOMAIN states}

\* restore(): every region is copied back, then every dirty block, which is
\* found in both memory slices by its guest address.
Restore ==
  /\ pc = "run"
  /\ Snapshot
  /\ host' = [a \in Addr |-> IF a \in Saved THEN SavedByte(a) ELSE host[a]]
  /\ ram' = [b \in Block |-> IF b \in dirty THEN file.ram[b] ELSE ram[b]]
  /\ dirty' = {}
  /\ UNCHANGED <<pc, pending, blocks, states, ii, locked, mapped, file, resumed, writes>>

\* A live process saves the snapshot and ends.
TakeSnapshot ==
  /\ pc = "run"
  /\ ~Snapshot
  /\ file' = [there |-> TRUE, host |-> host, blocks |-> blocks, ram |-> ram]
  /\ pc' = "stop"
  /\ UNCHANGED <<pending, host, blocks, ram, dirty, states, ii, locked, mapped, resumed,
                 writes>>

\* The next process, as fresh as the first one; it resumes the snapshot if there
\* is one.
Restart ==
  /\ pc \in {"stop", "panic"}
  /\ pc' = "register"
  /\ pending' = Params
  /\ host' = [a \in Addr |-> 0]
  /\ blocks' = [b \in Block |-> NoBlock]
  /\ ram' = [b \in Block |-> 0]
  /\ dirty' = {}
  /\ states' = <<>>
  /\ ii' = 1
  /\ locked' = FALSE
  /\ mapped' = FALSE
  /\ resumed' = host'
  /\ writes' = 0
  /\ UNCHANGED file

Next ==
  \/ \E p \in Params : Register(p)
  \/ \E b \in Block : Touch(b)
  \/ Load
  \/ Enter
  \/ Merge
  \/ Save
  \/ MapMemory
  \/ \E a \in Addr, v \in {0, 1} : DeviceWrite(a, v)
  \/ \E b \in Block, v \in {0, 1} : GuestWrite(b, v)
  \/ Longjmp
  \/ HotPlug
  \/ Restore
  \/ TakeSnapshot
  \/ Restart

Spec == Init /\ [][Next]_vars

-----------------------------------------------------------------------------
(* Properties.                                                             *)

\* Types.  In particular the regions of the list stay inside Bochs' variables
\* while bochs_cpu_loop() merges them.
TypeOK ==
  /\ pc \in {"register", "load", "entry", "merge", "map", "run", "stop", "panic"}
  /\ pending \subseteq Params
  /\ host \in [Addr -> Byte]
  /\ blocks \in [Block -> Block \cup {NoBlock}]
  /\ ram \in [Block -> {0, 1}]
  /\ dirty \subseteq Block
  /\ \A k \in DOMAIN states : /\ states[k].len > 0
                              /\ Span(states[k]) \subseteq Addr
                              /\ Len(states[k].original) \in {0, states[k].len}
  /\ ii \in Nat \ {0}
  /\ locked \in BOOLEAN /\ mapped \in BOOLEAN
  /\ file.there \in BOOLEAN
  /\ resumed \in [Addr -> Byte]
  /\ writes \in 0 .. MaxWrites

\* Once a snapshot session runs, the sorted and merged list holds the bytes of
\* the registered parameters and no other byte, each once, in as few regions
\* as possible, and each region has its copy: the invariant that the sort, the
\* merge loop and the overlap check of bochs_cpu_loop() are there for.
SavedExactly ==
  pc = "run" /\ Snapshot =>
    /\ Saved = Tracked
    /\ \A k \in DOMAIN states : Len(states[k].original) = states[k].len
    /\ \A k \in 1 .. Len(states) - 1 :
         states[k].addr + states[k].len < states[k + 1].addr

\* restore() brings every registered byte back to the value the guest was
\* resumed with, which is the one on disk unless Bochs computed it anew after
\* loading, however often exceptions re-entered the loop and whatever was
\* restored before.  It touches nothing else: EFLAGS, the segment selectors and
\* VRAM, which are in the snapshot but not on the list, keep their new value.
RestoreExact ==
  [][Restore => /\ \A a \in Tracked : host'[a] = resumed[a]
                /\ \A a \in Tracked \ Derived : host'[a] = file.host[a]
                /\ \A a \in Addr \ Tracked : host'[a] = host[a]]_vars

\* No two blocks of guest memory share host memory, although restore() sets
\* used_blocks and not the block table: all blocks are allocated by then.
NoSharing ==
  \A b, c \in Block : b # c /\ blocks[b] # NoBlock => blocks[b] # blocks[c]

\* restore() gives the guest the memory of the snapshot, although it indexes
\* Bochs' memory vector by guest address: blocks lie in ascending order.
GuestRestored ==
  [][Restore => \A b \in Block : file.blocks[b] # NoBlock =>
                  ram'[blocks'[b]] = file.ram[file.blocks[b]]]_vars
=============================================================================
