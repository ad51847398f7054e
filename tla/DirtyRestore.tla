---------------------------- MODULE DirtyRestore ----------------------------
(***************************************************************************)
(* Dirty-page tracking and the memory restore of a snapshot session.       *)
(*                                                                         *)
(* Guest memory is written by Bochs' CPU, by Bochs' devices and by the     *)
(* guest under WHVP.  Bochs records its writes in a two-level bitmap       *)
(* (memory.cc), WHVP keeps a log of its own that get_dirty_list() merges   *)
(* into that bitmap (whvp.rs), and restore() copies the original contents  *)
(* over every page the bitmap names (lib.rs).                              *)
(*                                                                         *)
(* Of a page's contents only whether it differs from the snapshot is kept. *)
(* Addresses are page numbers.                                             *)
(***************************************************************************)
EXTENDS Integers

CONSTANTS
  Pages,       \* pages of guest RAM
  BitmapPages, \* pages the bitmap has bits for (those below 4 GiB)
  QwordPages,  \* pages per word of a dirty bitmap (64)
  L1Pages,     \* pages per bit of the first-level bitmap (256)
  Legacy,      \* pages of 0xa0000-0xfffff: RAM, ROM or a device's, as the
               \* chipset is programmed
  Regions,     \* the ranges mapped into the hypervisor: [base, size, ram];
               \* the framebuffers are backed by memory that is thrown away
  CpuWrites,   \* pages the guest's code writes while Bochs emulates it
  CpuTouches,  \* pages it gets a writable translation of without writing
  DmaWrites,   \* pages Bochs' devices write by DMA
  VmWrites     \* pages the guest writes under the hypervisor

Page == 0 .. Pages - 1
BitmapPage == 0 .. BitmapPages - 1
PagesOf(g) == g.base .. g.base + g.size - 1

\* Guest RAM ends below 4 GiB.
ASSUME BitmapAssumption ==
  /\ Pages \in Nat \ {0}
  /\ BitmapPages \in Nat /\ Pages <= BitmapPages
  /\ QwordPages \in Nat \ {0}
  /\ L1Pages \in Nat \ {0}
  /\ L1Pages % QwordPages = 0
  /\ Legacy \subseteq Page

\* Regions that fill a word start at one: conventional memory at 0, extended
\* memory at 1 MiB, the linear framebuffer at 0xe0000000.  The framebuffer at
\* 0xa0000 is shorter than a word.
ASSUME RegionsAssumption ==
  /\ Regions \subseteq [base : Nat, size : Nat \ {0}, ram : BOOLEAN]
  /\ \A g \in Regions :
       /\ g.size >= QwordPages => g.base % QwordPages = 0
       /\ PagesOf(g) \subseteq BitmapPage
       /\ g.ram => PagesOf(g) \subseteq Page

\* Physical addresses of the guest's own choice, devices and more than 4 GiB
\* included; only RAM has a translation to a host address.
ASSUME WorkloadAssumption ==
  /\ CpuWrites \subseteq Nat
  /\ CpuTouches \subseteq Page
  /\ DmaWrites \subseteq Nat
  /\ VmWrites \subseteq Nat

VARIABLES
  pc,           \* where the CPU loop is
  changed,      \* pages that differ from the snapshot
  dirty_bits_l1,\* first-level bits that are set, by region number
  dirty_bits_l2,\* second-level bits that are set, by page
  tlb,          \* pages with a writable entry in Bochs' TLB
  whvp_dirty,   \* WHVP's dirty log since it was last queried
  memory_dirty  \* Whvp::memory_dirty

vars == <<pc, changed, dirty_bits_l1, dirty_bits_l2, tlb, whvp_dirty, memory_dirty>>
bitmap == <<dirty_bits_l1, dirty_bits_l2>>

Init ==
  /\ pc = "top"
  /\ changed = {}
  /\ dirty_bits_l1 = {} /\ dirty_bits_l2 = {}
  /\ tlb = {}
  /\ whvp_dirty = {}
  /\ memory_dirty = FALSE

-----------------------------------------------------------------------------
(* Bochs.                                                                  *)

\* step_device() and step_cpu() begin with TLB_flush().
StepDevice ==
  /\ pc = "top"
  /\ tlb' = {}
  /\ pc' = "device"
  /\ UNCHANGED <<changed, bitmap, whvp_dirty, memory_dirty>>

StepCpu ==
  /\ pc = "decide"
  /\ tlb' = {}
  /\ pc' = "cpu"
  /\ UNCHANGED <<changed, bitmap, whvp_dirty, memory_dirty>>

\* Both return to the loop; step_cpu() also ends by a longjmp.
StepReturn ==
  /\ pc \in {"device", "cpu"}
  /\ pc' = IF pc = "device" THEN "decide" ELSE "top"
  /\ UNCHANGED <<changed, bitmap, tlb, whvp_dirty, memory_dirty>>

\* Mutant of MarkDirty: the end of the write is rounded up once too often.
MarkDirtyPastEnd(p) ==
  /\ dirty_bits_l1' = dirty_bits_l1 \cup {p \div L1Pages, (p + 1) \div L1Pages}
  /\ dirty_bits_l2' = dirty_bits_l2 \cup {p, p + 1}

\* Mutant of MarkDirty: the first level is forgotten.
MarkDirtySecondLevel(p) ==
  /\ dirty_bits_l2' = dirty_bits_l2 \cup {p}
  /\ UNCHANGED dirty_bits_l1

\* writePhysicalPage() sets both bits of the page, before it looks whether the
\* address belongs to a device, to ROM or to RAM at all.
MarkDirty(p) ==
  /\ dirty_bits_l1' = dirty_bits_l1 \cup {p \div L1Pages}
  /\ dirty_bits_l2' = dirty_bits_l2 \cup {p}

\* A write to RAM that misses the TLB (delivering an interrupt from
\* step_device() pushes onto the stack too): it goes through
\* writePhysicalPage() and the translation is cached.
CpuWriteMiss(p) ==
  /\ pc \in {"device", "cpu"} /\ p \in Page \ tlb
  /\ MarkDirty(p)
  /\ changed' = changed \cup {p}
  /\ tlb' = tlb \cup {p}
  /\ UNCHANGED <<pc, whvp_dirty, memory_dirty>>

\* A write that hits the TLB, a push through the cached stack page among them,
\* goes straight to host memory.
CpuWriteHit(p) ==
  /\ pc \in {"device", "cpu"} /\ p \in tlb
  /\ changed' = changed \cup {p}
  /\ UNCHANGED <<pc, bitmap, tlb, whvp_dirty, memory_dirty>>

\* The write of the CPU or of DMA that a device takes, that ROM drops or that
\* lies beyond memory: it goes through writePhysicalPage() every time.
WriteElsewhere(p) ==
  /\ pc \in {"device", "cpu"}
  /\ p \in BitmapPage \ (Page \ Legacy)
  /\ MarkDirty(p)
  /\ UNCHANGED <<pc, changed, tlb, whvp_dirty, memory_dirty>>

\* At 4 GiB or above writePhysicalPage() ends the process.
WriteTooHigh(p) ==
  /\ pc \in {"device", "cpu"} /\ p \notin BitmapPage
  /\ pc' = "exited"
  /\ UNCHANGED <<changed, bitmap, tlb, whvp_dirty, memory_dirty>>

\* A translation that is writable although nothing is written, so that
\* writePhysicalPage() is not called: ENTER probes the new top of the stack, a
\* hardware task switch probes both TSSs, a masked AVX store probes every
\* element, user code with paging off gets a writable entry by reading, and a
\* read-modify-write or a write over two pages may fault after the first part.
CpuTouch(p) ==
  /\ pc \in {"device", "cpu"}
  /\ tlb' = tlb \cup {p}
  /\ UNCHANGED <<pc, changed, bitmap, whvp_dirty, memory_dirty>>

\* TLB entries come and go: another translation takes the slot, the guest
\* flushes.
TlbEvict(p) ==
  /\ pc \in {"device", "cpu"} /\ p \in tlb
  /\ tlb' = tlb \ {p}
  /\ UNCHANGED <<pc, changed, bitmap, whvp_dirty, memory_dirty>>

\* dmaWritePhysicalPage() copies into host memory where there is RAM; devices
\* run on a tick and on the guest's port accesses.
DmaWrite(p) ==
  /\ pc \in {"device", "cpu"} /\ p \in Page
  /\ changed' = changed \cup {p}
  /\ UNCHANGED <<pc, bitmap, tlb, whvp_dirty, memory_dirty>>

-----------------------------------------------------------------------------
(* WHVP.                                                                   *)

VmEnter ==
  /\ pc = "decide"
  /\ pc' = "vm"
  /\ UNCHANGED <<changed, bitmap, tlb, whvp_dirty, memory_dirty>>

\* A write to a page mapped into the partition, tracked by its dirty log
\* (external).  Writes elsewhere leave the hypervisor and are emulated.
VmWrite(g, p) ==
  /\ pc = "vm" /\ p \in PagesOf(g)
  /\ changed' = IF g.ram THEN changed \cup {p} ELSE changed
  /\ whvp_dirty' = whvp_dirty \cup {p}
  /\ UNCHANGED <<pc, bitmap, tlb, memory_dirty>>

\* Mutant of VmExit: the run is not recorded.
VmExitClean ==
  /\ pc = "vm"
  /\ tlb' = {}
  /\ pc' = "exit"
  /\ UNCHANGED <<changed, bitmap, whvp_dirty, memory_dirty>>

\* run() returns and records that memory may be dirty; set_context() into Bochs
\* flushes its TLB.
VmExit ==
  /\ pc = "vm"
  /\ memory_dirty' = TRUE
  /\ tlb' = {}
  /\ pc' = "exit"
  /\ UNCHANGED <<changed, bitmap, whvp_dirty>>

\* The exit is handled and the loop goes on.
VmDone ==
  /\ pc = "exit"
  /\ pc' = "top"
  /\ UNCHANGED <<changed, bitmap, tlb, whvp_dirty, memory_dirty>>

-----------------------------------------------------------------------------
(* restore().                                                              *)

\* First page of word ii of region g's bitmap, and the bits set in that word.
QwordAddr(g, ii) == g.base + ii * QwordPages
QwordBits(g, ii) == {j \in 0 .. QwordPages - 1 : QwordAddr(g, ii) + j \in whvp_dirty}

\* The words of g's bitmap that get_dirty_list() looks at: the division rounds
\* down.
Qwords(g) == 0 .. (g.size \div QwordPages) - 1

\* What get_dirty_list() adds to the two levels.  A whole word is or-ed into the
\* word of the second level that holds its first page.
DirtyListL1 ==
  UNION {{QwordAddr(g, ii) \div L1Pages : ii \in {k \in Qwords(g) : QwordBits(g, k) # {}}} :
           g \in Regions}

DirtyListL2 ==
  UNION {UNION {{(QwordAddr(g, ii) \div QwordPages) * QwordPages + j :
                   j \in QwordBits(g, ii)} : ii \in Qwords(g)} : g \in Regions}

\* restore(): get_dirty_list(), which returns at once if the hypervisor has not
\* run and else takes WHVP's log (reading it clears it), then
\* reset_dirty_pages(), which looks at the second level only below first-level
\* bits that are set, copies the pages that are guest RAM and clears the bits of
\* all.
Restore ==
  LET l1 == dirty_bits_l1 \cup (IF memory_dirty THEN DirtyListL1 ELSE {})
      l2 == dirty_bits_l2 \cup (IF memory_dirty THEN DirtyListL2 ELSE {})
      reset == {p \in l2 : p \div L1Pages \in l1}
  IN  /\ pc = "exit"
      /\ whvp_dirty' = IF memory_dirty THEN {} ELSE whvp_dirty
      /\ memory_dirty' = FALSE
      /\ changed' = changed \ {p \in reset : p < Pages}
      /\ dirty_bits_l1' = {}
      /\ dirty_bits_l2' = l2 \ reset
      /\ UNCHANGED <<pc, tlb>>

-----------------------------------------------------------------------------

\* The next process resumes the snapshot.
Restart ==
  /\ pc = "exited"
  /\ pc' = "top"
  /\ changed' = {}
  /\ dirty_bits_l1' = {} /\ dirty_bits_l2' = {}
  /\ tlb' = {}
  /\ whvp_dirty' = {}
  /\ memory_dirty' = FALSE

Next ==
  \/ StepDevice \/ StepCpu \/ StepReturn
  \/ \E p \in CpuWrites : CpuWriteMiss(p) \/ CpuWriteHit(p)
  \/ \E p \in CpuWrites \cup DmaWrites : WriteElsewhere(p) \/ WriteTooHigh(p)
  \/ \E p \in CpuTouches : CpuTouch(p)
  \/ \E p \in Page : TlbEvict(p)
  \/ \E p \in DmaWrites : DmaWrite(p)
  \/ VmEnter \/ VmExit \/ VmDone
  \/ \E g \in Regions, p \in VmWrites : VmWrite(g, p)
  \/ Restore
  \/ Restart

Spec == Init /\ [][Next]_vars

-----------------------------------------------------------------------------
(* Properties.                                                             *)

\* Types.  Whatever physical addresses the guest writes, through Bochs, by DMA
\* or under the hypervisor, no bit beyond the end of either bitmap is set, and
\* only guest RAM is ever cached in the TLB or differs from the snapshot.
TypeOK ==
  /\ pc \in {"top", "device", "decide", "cpu", "vm", "exit", "exited"}
  /\ changed \subseteq Page
  /\ dirty_bits_l1 \subseteq 0 .. (BitmapPages - 1) \div L1Pages
  /\ dirty_bits_l2 \subseteq BitmapPage
  /\ tlb \subseteq Page
  /\ whvp_dirty \subseteq BitmapPage
  /\ memory_dirty \in BOOLEAN

\* A page marked in the second level has its region marked in the first, which
\* is the only way reset_dirty_pages() (lib.rs 820-868) finds it.
LevelsAgree == \A p \in dirty_bits_l2 : p \div L1Pages \in dirty_bits_l1

\* Pages of RAM that fall into a region's last word which is not full.
CutOff == {p \in Page : \E g \in Regions :
             /\ g.ram /\ p \in PagesOf(g)
             /\ p >= g.base + (g.size \div QwordPages) * QwordPages}

\* What a restore (lib.rs 885-922) leaves changed was written by DMA, has had a
\* translation made writable by something other than a write, or was written
\* under the hypervisor in a cut-off word: no other order of writes, TLB hits,
\* evictions, device accesses, runs and earlier restores hides a page from it.
OnlyEscapesSurvive ==
  [][Restore => changed' \subseteq DmaWrites \cup CpuTouches \cup CutOff]_vars
=============================================================================
