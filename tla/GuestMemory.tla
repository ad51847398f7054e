---------------------------- MODULE GuestMemory ----------------------------
(***************************************************************************)
(* The physical memory map that bochs_cpu_loop() builds from Bochs' memory *)
(* and the reader (MemReader, PageTable) that finds guest data through it. *)
(*                                                                         *)
(* The unit of memory is a slot: it stands for the 8 bytes of a page-table *)
(* entry when a table is walked, and for one byte when data is read.  A    *)
(* page has E slots, so each digit of an address in base E selects an      *)
(* entry of one level and the last one the slot in the page.               *)
(***************************************************************************)
EXTENDS Naturals, Sequences

CONSTANTS
  Pages,      \* size of guest memory (pmem_size)
  E,          \* slots per page
  BlockPages, \* pages per block of Bochs' memory (BX_MEM_BLOCK_LEN)
  Kind,       \* what Bochs has at each page: "ram", "rom", "mmio" or "bios"
  Touched,    \* orders in which Bochs may have touched blocks before
  Contents,   \* contents of guest memory: of each slot, [present, ps, frame]
  Cr3,        \* values of CR3
  MaxLen      \* longest read

Page == 0 .. Pages - 1
Block == 0 .. (Pages - 1) \div BlockPages
Slot == [present : BOOLEAN, ps : BOOLEAN, frame : Nat]
None == Pages * E

ASSUME SizeAssumption ==
  /\ Pages \in Nat \ {0}
  /\ E \in Nat \ {0, 1}
  /\ BlockPages \in Nat \ {0}
  /\ MaxLen \in Nat \ {0}
  /\ Cr3 \subseteq Nat

\* allocate_block() is called for a block that has none, so no block is in the
\* order of allocation twice.
ASSUME MemoryAssumption ==
  /\ Kind \in [Page -> {"ram", "rom", "mmio", "bios"}]
  /\ Touched \subseteq Seq(Block)
  /\ \A s \in Touched : \A i, j \in DOMAIN s : s[i] = s[j] => i = j
  /\ \A m \in Contents : DOMAIN m = 0 .. Pages * E - 1 /\ \A a \in DOMAIN m : m[a] \in Slot

VARIABLES
  contents,    \* guest memory
  blocks,      \* BX_MEM_C::blocks, in order of allocation
  paddr,       \* the page the loop over pmem_size is at
  mem_regions, \* the region list, later MemReader::regions
  req,         \* the read in progress or just done
  buf,         \* the bytes read so far
  guest_phys   \* the cached translation of read_virt()

vars == <<contents, blocks, paddr, mem_regions, req, buf, guest_phys>>
mapVars == <<contents, blocks, paddr, mem_regions>>

NoReq == [cr3 |-> 0, vaddr |-> 0, len |-> 0, done |-> TRUE]

Init ==
  /\ contents \in Contents
  /\ blocks \in Touched
  /\ paddr = 0
  /\ mem_regions = <<>>
  /\ req = NoReq
  /\ buf = <<>>
  /\ guest_phys = 0

-----------------------------------------------------------------------------
(* The memory map.                                                         *)

\* get_vector() allocates a block the first time an address in it is used.
AllocateBlock(b) == IF \E i \in DOMAIN blocks : blocks[i] = b THEN blocks
                    ELSE Append(blocks, b)

\* The host page of a RAM page, given the blocks allocated so far.  ROM pages
\* are behind the RAM.
Vector(bs, p) ==
  LET i == CHOOSE i \in DOMAIN bs : bs[i] = p \div BlockPages
  IN  (i - 1) * BlockPages + (p % BlockPages)
Rom(p) == (Pages + BlockPages) + p

\* getHostMemAddr(): where Bochs keeps a page, if it may be used directly, and
\* for which accesses.
Backing(bs, p) == IF Kind[p] = "ram" THEN Vector(bs, p) ELSE Rom(p)
Perms(p) == CASE Kind[p] = "ram" -> {"read", "write", "execute"}
              [] Kind[p] \in {"rom", "bios"} -> {"read", "execute"}
              [] OTHER -> {}

\* Mutant of Extends: the host addresses are not compared.
ExtendsGuestOnly(mr, bs, p) ==
  /\ mr.perms = Perms(p)
  /\ mr.paddr + mr.size = p

\* Region mr can be extended by page p: same permissions, and contiguous both
\* in guest memory and in host memory.
Extends(mr, bs, p) ==
  /\ mr.perms = Perms(p)
  /\ mr.paddr + mr.size = p
  /\ mr.backing + mr.size = Backing(bs, p)

\* One iteration over pmem_size: pages without backing and the BIOS window are
\* skipped, others extend a region or start one.
MapPage ==
  /\ paddr < Pages
  /\ paddr' = paddr + 1
  /\ blocks' = IF Kind[paddr] = "ram" THEN AllocateBlock(paddr \div BlockPages) ELSE blocks
  /\ \/ /\ Perms(paddr) = {} \/ Kind[paddr] = "bios"
        /\ UNCHANGED mem_regions
     \/ /\ Perms(paddr) # {} /\ Kind[paddr] # "bios"
        /\ \E i \in DOMAIN mem_regions :
             /\ Extends(mem_regions[i], blocks', paddr)
             /\ mem_regions' = [mem_regions EXCEPT ![i].size = @ + 1]
     \/ /\ Perms(paddr) # {} /\ Kind[paddr] # "bios"
        /\ \A i \in DOMAIN mem_regions : ~Extends(mem_regions[i], blocks', paddr)
        /\ mem_regions' = Append(mem_regions,
             [paddr |-> paddr, backing |-> Backing(blocks', paddr), size |-> 1,
              perms |-> Perms(paddr)])
  /\ UNCHANGED <<contents, req, buf, guest_phys>>

-----------------------------------------------------------------------------
(* Reading guest memory.                                                   *)

\* The regions that hold page p, and the guest page whose data is at a host
\* page (host memory itself is not kept).
Holding(p) == {i \in DOMAIN mem_regions :
                 mem_regions[i].paddr <= p /\ p < mem_regions[i].paddr + mem_regions[i].size}
HostOf(p) == LET mr == mem_regions[CHOOSE i \in Holding(p) : TRUE]
             IN  mr.backing + (p - mr.paddr)
GuestOf(h) == CHOOSE p \in Page : Kind[p] # "mmio" /\ Backing(blocks, p) = h

\* read_phys() of one slot: <<>> if no region holds the address.
ReadPhys(a) ==
  IF Holding(a \div E) = {} THEN <<>>
  ELSE <<contents[GuestOf(HostOf(a \div E)) * E + (a % E)]>>

\* The place value of level d's digit, and that digit: the entry that address
\* v selects in the table of level d.
Levels == 4
Unit(d) == <<E * E * E * E, E * E * E, E * E, E>>[d + 1]
Index(v, d) == (v \div Unit(d)) % E
Canonical(v) == v < E * Unit(0)

\* Where virt_to_phys_dirty() stands after d levels: at the table to read next,
\* at the final address, or stopped by an entry that is missing, not present or
\* has PS set at the top level.
WalkStep(w, v, d) ==
  LET entry == ReadPhys(w.cur + Index(v, d))
  IN  IF w.state # "walk" THEN w
      ELSE IF entry = <<>> THEN [w EXCEPT !.state = "stopped"]
      ELSE IF ~entry[1].present THEN [w EXCEPT !.state = "stopped"]
      ELSE IF entry[1].ps /\ d = 0 THEN [w EXCEPT !.state = "stopped"]
      ELSE IF (entry[1].ps /\ d < Levels - 1) \/ d = Levels - 1
        THEN [state |-> "found", cur |-> entry[1].frame * E + (v % Unit(d))]
      ELSE [w EXCEPT !.cur = entry[1].frame * E]

\* virt_to_phys_dirty() from CR3 as it is.
VirtToPhys(cr3, v) ==
  LET walk[d \in 0 .. Levels] ==
        IF d = 0 THEN [state |-> IF Canonical(v) THEN "walk" ELSE "stopped", cur |-> cr3]
        ELSE WalkStep(walk[d - 1], v, d - 1)
  IN  IF walk[Levels].state = "found" THEN walk[Levels].cur ELSE None

\* read_virt() is called, with its translation not yet cached.
Start(cr3, v, n) ==
  /\ paddr = Pages /\ req.done
  /\ req' = [cr3 |-> cr3, vaddr |-> v, len |-> n, done |-> FALSE]
  /\ buf' = <<>>
  /\ guest_phys' = 0
  /\ UNCHANGED mapVars

\* Mutant of NeedsWalk: the translation is made once and never renewed.
NeedsWalkOnce == buf = <<>>

\* The translation is renewed at the start of every page.
NeedsWalk == guest_phys % E = 0

\* One iteration of read_virt(): translate if needed, read one byte, or return
\* what has been read so far.
ReadByte ==
  /\ ~req.done
  /\ LET phys == IF NeedsWalk THEN VirtToPhys(req.cr3, req.vaddr + Len(buf)) ELSE guest_phys
         data == IF phys = None THEN <<>> ELSE ReadPhys(phys)
     IN  IF Len(buf) = req.len \/ data = <<>>
           THEN req' = [req EXCEPT !.done = TRUE] /\ UNCHANGED <<buf, guest_phys>>
           ELSE /\ buf' = buf \o data
                /\ guest_phys' = phys + 1
                /\ UNCHANGED req
  /\ UNCHANGED mapVars

Next ==
  \/ MapPage
  \/ \E cr3 \in Cr3, v \in 0 .. E * Unit(0), n \in 1 .. MaxLen : Start(cr3, v, n)
  \/ ReadByte

Spec == Init /\ [][Next]_vars

-----------------------------------------------------------------------------
(* Properties.                                                             *)

\* Once the loop over memory is done every page that Bochs backs, outside of
\* the BIOS window, is in exactly one region, which maps it to the very host
\* page Bochs uses (whatever order the blocks were touched in), and no other
\* page is in any.
MapExact ==
  \A p \in 0 .. paddr - 1 :
    IF Kind[p] \in {"mmio", "bios"} THEN Holding(p) = {}
    ELSE /\ \E i \in Holding(p) : Holding(p) = {i} /\ mem_regions[i].perms = Perms(p)
         /\ HostOf(p) = Backing(blocks, p)

\* Translation as the processor defines it: CR3 and the frames of large pages
\* are rounded down to their alignment, and memory is addressed directly.  Only
\* memory outside of the BIOS window counts as backed.
Backed(p) == p \in Page /\ Kind[p] \in {"ram", "rom"}
TableAt(cr3, v, d) ==
  LET at[k \in 0 .. Levels] == IF k = 0 THEN cr3 \div E
                               ELSE contents[at[k - 1] * E + Index(v, k - 1)].frame
  IN  at[d]
EntryAt(cr3, v, d) == contents[TableAt(cr3, v, d) * E + Index(v, d)]
LeafLevel(v, cr3) ==
  {d \in 1 .. Levels - 1 :
     /\ \A k \in 0 .. d : /\ Backed(TableAt(cr3, v, k))
                          /\ EntryAt(cr3, v, k).present
     /\ \A k \in 0 .. d - 1 : ~EntryAt(cr3, v, k).ps
     /\ d = Levels - 1 \/ EntryAt(cr3, v, d).ps}
Guest(cr3, v) ==
  IF ~Canonical(v) THEN {}
  ELSE {LET f == EntryAt(cr3, v, d).frame
        IN  (f - (((f * E) % Unit(d)) \div E)) * E + (v % Unit(d)) : d \in LeafLevel(v, cr3)}
Readable(cr3, v) == {a \in Guest(cr3, v) : Backed(a \div E)}

\* read_virt() (lib.rs 430-466) returns what the processor would read, byte for
\* byte across page boundaries and large pages, and stops exactly at the first
\* byte that is not mapped or not backed.
ReadCorrect ==
  /\ \A i \in 1 .. Len(buf) :
       \E a \in Readable(req.cr3, req.vaddr + i - 1) : buf[i] = contents[a]
  /\ req.done /\ Len(buf) < req.len => Readable(req.cr3, req.vaddr + Len(buf)) = {}
=============================================================================
