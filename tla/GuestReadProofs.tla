-------------------------- MODULE GuestReadProofs --------------------------
(***************************************************************************)
(* Proofs about what bochservisor reads of the guest.  First the map of    *)
(* guest memory and its reader (GuestMemory), for every size of memory,    *)
(* size of blocks, kind of page and order in which blocks were touched;    *)
(* then the walk of the guest's module lists and the coverage credited by  *)
(* them (Coverage), for every set of lists, entries, modules and addresses *)
(* executed.  The two components share no state here: each part is about   *)
(* its own specification, Spec of GuestMemory and CoverageSpec.            *)
(***************************************************************************)
EXTENDS GuestMemory, Coverage, FiniteSetTheorems, WellFoundedInduction, TLAPS

-----------------------------------------------------------------------------
(* GuestMemory: the invariant.                                             *)

Region == [paddr : Nat, backing : Nat, size : Nat \ {0},
           perms : SUBSET {"read", "write", "execute"}]

Allocated(bs, p) == \E i \in DOMAIN bs : bs[i] = p \div BlockPages

\* Bochs' blocks, each allocated once, those of the RAM passed so far among them.
BlocksInv ==
  /\ paddr \in 0 .. Pages
  /\ blocks \in Seq(Block)
  /\ \A i, j \in DOMAIN blocks : blocks[i] = blocks[j] => i = j
  /\ \A p \in 0 .. paddr - 1 : Kind[p] = "ram" => Allocated(blocks, p)

Last(r) == r.paddr + r.size - 1

\* Region r is right about the pages from its first to its last, when the pages
\* below n have been passed and blocks bs allocated.
Right(r, bs, n) ==
  /\ r \in Region
  /\ Last(r) < n
  /\ \A q \in r.paddr .. Last(r) : /\ Kind[q] \in {"ram", "rom"}
                                   /\ Perms(q) = r.perms
                                   /\ Backing(bs, q) = r.backing + (q - r.paddr)

\* The regions are right, do not overlap and miss no page that has been passed.
RegionsInv ==
  /\ mem_regions \in Seq(Region)
  /\ \A i \in DOMAIN mem_regions : Right(mem_regions[i], blocks, paddr)
  /\ \A i, j \in DOMAIN mem_regions :
       i # j => (mem_regions[i].paddr .. Last(mem_regions[i]))
                  \cap (mem_regions[j].paddr .. Last(mem_regions[j])) = {}
  /\ \A p \in 0 .. paddr - 1 : Kind[p] \in {"ram", "rom"} =>
       \E i \in DOMAIN mem_regions : p \in mem_regions[i].paddr .. Last(mem_regions[i])

\* The inductive invariant of the memory map.
MapInv == BlocksInv /\ RegionsInv

-----------------------------------------------------------------------------
(* Blocks.                                                                 *)

\* Division by the size of a block.
LEMMA DivOK ==
  ASSUME NEW n \in Nat, NEW m \in Nat \ {0}
  PROVE  /\ n \div m \in Nat /\ n % m \in 0 .. m - 1
         /\ n = m * (n \div m) + (n % m)
         /\ n \div m <= n
  OBVIOUS

\* Every page lies in a block.
LEMMA BlockOK ==
  ASSUME NEW p \in Page
  PROVE  p \in Nat /\ p \div BlockPages \in Block
<1>1. p \in Nat /\ p <= Pages - 1 /\ Pages - 1 \in Nat /\ BlockPages \in Nat \ {0}
  BY SizeAssumption DEF Page
<1>2. \A a, b \in Nat, m \in Nat \ {0} : a <= b => a \div m <= b \div m
  OBVIOUS
<1>3. p \div BlockPages \in Nat /\ p \div BlockPages <= (Pages - 1) \div BlockPages
  BY <1>1, <1>2
<1>4. (Pages - 1) \div BlockPages \in Nat
  BY <1>1
<1>. QED BY <1>1, <1>3, <1>4 DEF Block

\* The host page of a RAM page, by the one place its block has.
LEMMA VectorOK ==
  ASSUME NEW bs, NEW i \in DOMAIN bs, NEW p, bs[i] = p \div BlockPages,
         \A j, k \in DOMAIN bs : bs[j] = bs[k] => j = k
  PROVE  Vector(bs, p) = (i - 1) * BlockPages + (p % BlockPages)
<1>. DEFINE c == CHOOSE k \in DOMAIN bs : bs[k] = p \div BlockPages
<1>1. c \in DOMAIN bs /\ bs[c] = p \div BlockPages
  OBVIOUS
<1>2. c = i
  BY <1>1
<1>3. Vector(bs, p) = (c - 1) * BlockPages + (p % BlockPages)
  BY DEF Vector
<1>. QED BY <1>2, <1>3

\* A block allocated later moves no page that has its block.
LEMMA BackingKept ==
  ASSUME BlocksInv, NEW b \in Block, blocks' = AllocateBlock(b), NEW p,
         Kind[p] = "ram" => Allocated(blocks, p)
  PROVE  Backing(blocks', p) = Backing(blocks, p)
<1>1. CASE Kind[p] # "ram"
  BY <1>1 DEF Backing
<1>2. CASE \E i \in DOMAIN blocks : blocks[i] = b
  BY <1>2 DEF AllocateBlock
<1>3. CASE Kind[p] = "ram" /\ ~\E i \in DOMAIN blocks : blocks[i] = b
  <2>1. /\ blocks \in Seq(Block) /\ \A i, j \in DOMAIN blocks : blocks[i] = blocks[j] => i = j
    BY DEF BlocksInv
  <2>2. blocks' = Append(blocks, b)
    BY <1>3 DEF AllocateBlock
  <2>3. PICK i \in DOMAIN blocks : blocks[i] = p \div BlockPages
    BY <1>3 DEF Allocated
  <2>4. i \in DOMAIN blocks' /\ blocks'[i] = blocks[i]
    BY <2>1, <2>2
  <2>5. \A j, k \in DOMAIN blocks' : blocks'[j] = blocks'[k] => j = k
    BY <1>3, <2>1, <2>2
  <2>6. Vector(blocks, p) = (i - 1) * BlockPages + (p % BlockPages)
    BY <2>1, <2>3, VectorOK
  <2>7. Vector(blocks', p) = (i - 1) * BlockPages + (p % BlockPages)
    BY <2>3, <2>4, <2>5, VectorOK
  <2>. QED BY <1>3, <2>6, <2>7 DEF Backing
<1>. QED BY <1>1, <1>2, <1>3

\* A round of the loop allocates the block of its page and moves no other page.
LEMMA BlocksStep ==
  ASSUME BlocksInv, MapPage
  PROVE  /\ BlocksInv'
         /\ paddr \in Page
         /\ Kind[paddr] = "ram" => Allocated(blocks', paddr)
         /\ \A p \in 0 .. paddr - 1 : Backing(blocks', p) = Backing(blocks, p)
<1>1. paddr \in Page /\ paddr' = paddr + 1 /\ paddr \in Nat
  BY SizeAssumption DEF BlocksInv, MapPage, Page
<1>. DEFINE b == paddr \div BlockPages
<1>2. b \in Block
  BY <1>1, BlockOK
<1>3. CASE Kind[paddr] # "ram"
  <2>1. blocks' = blocks
    BY <1>3 DEF MapPage
  <2>2. \A p \in 0 .. paddr' - 1 : p \in 0 .. paddr - 1 \/ p = paddr
    BY <1>1
  <2>3. paddr' \in 0 .. Pages
    BY <1>1, SizeAssumption DEF Page
  <2>. QED BY <1>1, <1>3, <2>1, <2>2, <2>3 DEF BlocksInv
<1>4. CASE Kind[paddr] = "ram"
  <2>1. blocks' = AllocateBlock(b)
    BY <1>4 DEF MapPage
  <2>. HIDE DEF b
  <2>2. blocks \in Seq(Block) /\ \A i, j \in DOMAIN blocks : blocks[i] = blocks[j] => i = j
    BY DEF BlocksInv
  <2>3. /\ blocks' \in Seq(Block) /\ \A i, j \in DOMAIN blocks' : blocks'[i] = blocks'[j] => i = j
        /\ \E i \in DOMAIN blocks' : blocks'[i] = b
        /\ \A i \in DOMAIN blocks : i \in DOMAIN blocks' /\ blocks'[i] = blocks[i]
    <3>1. CASE \E i \in DOMAIN blocks : blocks[i] = b
      BY <2>1, <2>2, <3>1 DEF AllocateBlock
    <3>2. CASE ~\E i \in DOMAIN blocks : blocks[i] = b
      <4>1. blocks' = Append(blocks, b) /\ Len(blocks) \in Nat
        BY <2>1, <2>2, <3>2 DEF AllocateBlock
      <4>2. /\ blocks' \in Seq(Block) /\ DOMAIN blocks' = 1 .. Len(blocks) + 1
            /\ DOMAIN blocks = 1 .. Len(blocks) /\ blocks'[Len(blocks) + 1] = b
            /\ \A i \in DOMAIN blocks : blocks'[i] = blocks[i]
        BY <1>2, <2>2, <4>1
      <4>3. \A i \in DOMAIN blocks' : i \in DOMAIN blocks \/ i = Len(blocks) + 1
        BY <4>1, <4>2
      <4>4. \A i, j \in DOMAIN blocks' : blocks'[i] = blocks'[j] => i = j
        BY <2>2, <3>2, <4>2, <4>3
      <4>5. Len(blocks) + 1 \in DOMAIN blocks' /\ \A i \in DOMAIN blocks : i \in DOMAIN blocks'
        BY <4>1, <4>2
      <4>. QED BY <4>2, <4>4, <4>5
    <3>. QED BY <3>1, <3>2
  <2>4. Allocated(blocks', paddr)
    BY <2>3 DEF Allocated, b
  <2>5. \A p \in 0 .. paddr - 1 : Kind[p] = "ram" => Allocated(blocks, p) /\ Allocated(blocks', p)
    BY <2>3 DEF BlocksInv, Allocated
  <2>6. \A p \in 0 .. paddr' - 1 : p \in 0 .. paddr - 1 \/ p = paddr
    BY <1>1
  <2>7. paddr' \in 0 .. Pages
    BY <1>1, SizeAssumption DEF Page
  <2>8. \A p \in 0 .. paddr - 1 : Backing(blocks', p) = Backing(blocks, p)
    BY <1>2, <2>1, <2>5, BackingKept
  <2>. QED BY <1>1, <2>3, <2>4, <2>5, <2>6, <2>7, <2>8 DEF BlocksInv
<1>. QED BY <1>3, <1>4

\* Host pages are numbers.
LEMMA BackingOK ==
  ASSUME NEW bs \in Seq(Block), NEW p \in Page, Kind[p] = "ram" => Allocated(bs, p),
         \A i, j \in DOMAIN bs : bs[i] = bs[j] => i = j
  PROVE  Backing(bs, p) \in Nat
<1>0. p \in Nat /\ BlockPages \in Nat \ {0} /\ Pages \in Nat
  BY BlockOK, SizeAssumption
<1>1. CASE Kind[p] # "ram"
  BY <1>0, <1>1 DEF Backing, Rom
<1>2. CASE Kind[p] = "ram"
  <2>1. PICK i \in DOMAIN bs : bs[i] = p \div BlockPages
    BY <1>2 DEF Allocated
  <2>2. Vector(bs, p) = (i - 1) * BlockPages + (p % BlockPages)
    BY <2>1, VectorOK
  <2>3. i \in Nat /\ i - 1 \in Nat
    BY <2>1
  <2>4. \A k \in Nat : k * BlockPages \in Nat
    BY <1>0
  <2>5. (i - 1) * BlockPages \in Nat /\ p % BlockPages \in Nat
    BY <1>0, <2>3, <2>4
  <2>. QED BY <1>2, <2>2, <2>5 DEF Backing
<1>. QED BY <1>1, <1>2

-----------------------------------------------------------------------------
(* Regions.                                                                *)

\* The fields of a region.
LEMMA RegionOK ==
  ASSUME NEW r \in Region
  PROVE  /\ r.paddr \in Nat /\ r.size \in Nat \ {0} /\ r.backing \in Nat
         /\ Last(r) \in Nat /\ r.paddr <= Last(r)
  BY DEF Region, Last

\* A region that was right stays right.
LEMMA RightKept ==
  ASSUME BlocksInv, MapPage, NEW r, Right(r, blocks, paddr)
  PROVE  Right(r, blocks', paddr')
<1>1. \A p \in 0 .. paddr - 1 : Backing(blocks', p) = Backing(blocks, p)
  BY BlocksStep
<1>2. paddr' = paddr + 1 /\ paddr \in Nat
  BY BlocksStep, BlockOK DEF MapPage
<1>3. r.paddr \in Nat /\ Last(r) \in Nat
  BY RegionOK DEF Right
<1>4. \A q \in r.paddr .. Last(r) : q \in 0 .. paddr - 1
  BY <1>2, <1>3 DEF Right
<1>5. Last(r) < paddr'
  BY <1>2, <1>3 DEF Right
<1>. QED BY <1>1, <1>4, <1>5 DEF Right

\* A round of the loop keeps the regions right: skipped, extended or appended.
LEMMA RegionsStep ==
  ASSUME MapInv, MapPage
  PROVE  RegionsInv'
<1>0. BlocksInv /\ RegionsInv /\ BlocksInv'
  BY BlocksStep DEF MapInv
<1>1. /\ paddr \in Page /\ paddr \in Nat /\ paddr' = paddr + 1
      /\ Kind[paddr] \in {"ram", "rom", "mmio", "bios"}
      /\ Kind[paddr] = "ram" => Allocated(blocks', paddr)
  BY <1>0, BlocksStep, BlockOK, MemoryAssumption DEF MapPage
<1>. DEFINE n == Len(mem_regions)
            R(r) == r.paddr .. Last(r)
            p == paddr
            new == Backing(blocks', paddr)
<1>2. mem_regions \in Seq(Region) /\ n \in Nat /\ DOMAIN mem_regions = 1 .. n
  BY <1>0 DEF RegionsInv
<1>3. \A i \in 1 .. n : /\ Right(mem_regions[i], blocks', paddr')
                        /\ mem_regions[i] \in Region
                        /\ p \notin R(mem_regions[i])
  <2>1. \A i \in 1 .. n : Right(mem_regions[i], blocks, paddr)
    BY <1>0, <1>2 DEF RegionsInv
  <2>2. \A r : Right(r, blocks, paddr) => Right(r, blocks', paddr')
    BY <1>0, RightKept
  <2>3. \A i \in 1 .. n : mem_regions[i] \in Region /\ Last(mem_regions[i]) < p
    BY <2>1 DEF Right
  <2>4. \A i \in 1 .. n : Last(mem_regions[i]) \in Nat
    BY <2>3, RegionOK
  <2>. QED BY <1>1, <2>1, <2>2, <2>3, <2>4
<1>4. \A i, j \in 1 .. n : i # j => R(mem_regions[i]) \cap R(mem_regions[j]) = {}
  BY <1>0, <1>2 DEF RegionsInv
<1>5. \A q \in 0 .. p' - 1 : q \in 0 .. p - 1 \/ q = p
  BY <1>1
<1>6. \A q \in 0 .. p - 1 : Kind[q] \in {"ram", "rom"} => \E i \in 1 .. n : q \in R(mem_regions[i])
  BY <1>0, <1>2 DEF RegionsInv
<1>7. CASE Perms(p) = {} \/ Kind[p] = "bios"
  <2>1. mem_regions' = mem_regions
    BY <1>7 DEF MapPage
  <2>2. Kind[p] \notin {"ram", "rom"}
    BY <1>7 DEF Perms
  <2>. QED BY <1>2, <1>3, <1>4, <1>5, <1>6, <2>1, <2>2 DEF RegionsInv
<1>8. CASE Perms(p) # {} /\ Kind[p] # "bios"
  <2>1. Kind[p] \in {"ram", "rom"} /\ Perms(p) \subseteq {"read", "write", "execute"}
    BY <1>1, <1>8 DEF Perms
  <2>2. new \in Nat
    BY <1>0, <1>1, BackingOK DEF BlocksInv
  <2>3. CASE \E i \in 1 .. n : /\ Extends(mem_regions[i], blocks', p)
                               /\ mem_regions' = [mem_regions EXCEPT ![i].size = @ + 1]
    <3>1. PICK i \in 1 .. n : /\ Extends(mem_regions[i], blocks', p)
                              /\ mem_regions' = [mem_regions EXCEPT ![i].size = @ + 1]
      BY <2>3
    <3>. DEFINE s == mem_regions[i]
                r == [s EXCEPT !.size = @ + 1]
    <3>2. /\ s \in Region /\ s.paddr \in Nat /\ s.size \in Nat \ {0} /\ s.backing \in Nat
          /\ Right(s, blocks', paddr')
      BY <1>3, RegionOK
    <3>3. s.perms = Perms(p) /\ s.paddr + s.size = p /\ s.backing + s.size = new
      BY <3>1 DEF Extends
    <3>4. /\ r \in Region /\ r.paddr = s.paddr /\ r.size = s.size + 1
          /\ r.backing = s.backing /\ r.perms = s.perms
      <4>1. \A z \in Region :
               LET y == [z EXCEPT !.size = @ + 1]
               IN  /\ y \in Region /\ y.paddr = z.paddr /\ y.size = z.size + 1
                   /\ y.backing = z.backing /\ y.perms = z.perms
        BY DEF Region
      <4>. QED BY <3>2, <4>1
    <3>5. /\ mem_regions' \in Seq(Region) /\ DOMAIN mem_regions' = 1 .. n
          /\ mem_regions'[i] = r /\ \A j \in 1 .. n : j # i => mem_regions'[j] = mem_regions[j]
      <4>1. mem_regions' = [mem_regions EXCEPT ![i] = r]
        BY <3>1
      <4>. HIDE DEF r, s
      <4>. QED BY <1>2, <3>4, <4>1
    <3>. HIDE DEF r, s
    <3>6. R(r) = R(s) \cup {p} /\ Last(r) = p
      <4>1. \A a \in Nat, z \in Nat \ {0} :
               /\ a .. a + (z + 1) - 1 = (a .. a + z - 1) \cup {a + z}
               /\ a + (z + 1) - 1 = a + z
        OBVIOUS
      <4>. QED BY <3>2, <3>3, <3>4, <4>1 DEF Last
    <3>7. Right(r, blocks', paddr')
      <4>1. Last(r) < paddr'
        BY <1>1, <3>6
      <4>2. ASSUME NEW q \in R(r)
            PROVE  /\ Kind[q] \in {"ram", "rom"} /\ Perms(q) = r.perms
                   /\ Backing(blocks', q) = r.backing + (q - r.paddr)
        <5>1. CASE q \in R(s)
          BY <3>2, <3>4, <5>1 DEF Right
        <5>2. CASE q = p
          <6>1. r.backing + (p - r.paddr) = new
            BY <1>1, <3>2, <3>3, <3>4
          <6>. QED BY <2>1, <3>3, <3>4, <5>2, <6>1
        <5>. QED BY <3>6, <5>1, <5>2
      <4>. QED BY <3>4, <4>1, <4>2 DEF Right
    <3>8. \A j \in 1 .. n : Right(mem_regions'[j], blocks', paddr')
      BY <1>3, <3>5, <3>7
    <3>9. \A j, k \in 1 .. n : j # k => R(mem_regions'[j]) \cap R(mem_regions'[k]) = {}
      <4>1. \A j \in 1 .. n : j # i => R(r) \cap R(mem_regions[j]) = {}
        <5>1. \A j \in 1 .. n : j # i => R(s) \cap R(mem_regions[j]) = {} /\ p \notin R(mem_regions[j])
          BY <1>3, <1>4 DEF s
        <5>. QED BY <3>6, <5>1
      <4>. HIDE DEF R
      <4>. QED BY <1>4, <3>5, <4>1
    <3>10. \A q \in 0 .. p' - 1 : Kind[q] \in {"ram", "rom"} => \E j \in 1 .. n : q \in R(mem_regions'[j])
      <4>. HIDE DEF R
      <4>1. \A j \in 1 .. n : R(mem_regions[j]) \subseteq R(mem_regions'[j])
        BY <3>5, <3>6 DEF s
      <4>2. p \in R(mem_regions'[i])
        BY <3>5, <3>6
      <4>. QED BY <1>5, <1>6, <4>1, <4>2
    <3>. QED BY <3>5, <3>8, <3>9, <3>10 DEF RegionsInv
  <2>4. CASE mem_regions' = Append(mem_regions, [paddr |-> p, backing |-> new, size |-> 1, perms |-> Perms(p)])
    <3>. DEFINE r == [paddr |-> p, backing |-> new, size |-> 1, perms |-> Perms(p)]
    <3>1. /\ r \in Region /\ r.paddr = p /\ r.size = 1 /\ r.backing = new /\ r.perms = Perms(p)
      BY <1>1, <2>1, <2>2 DEF Region
    <3>2. mem_regions' = Append(mem_regions, r)
      BY <2>4
    <3>. HIDE DEF r
    <3>3. /\ mem_regions' \in Seq(Region) /\ DOMAIN mem_regions' = 1 .. n + 1
          /\ mem_regions'[n + 1] = r /\ \A j \in 1 .. n : mem_regions'[j] = mem_regions[j]
      BY <1>2, <3>1, <3>2
    <3>4. R(r) = {p} /\ Last(r) = p
      BY <1>1, <3>1 DEF Last
    <3>5. Right(r, blocks', paddr')
      <4>1. Last(r) < paddr' /\ new + (p - p) = new
        BY <1>1, <2>2, <3>4
      <4>. QED BY <2>1, <3>1, <3>4, <4>1 DEF Right
    <3>6. \A j \in 1 .. n + 1 : j \in 1 .. n \/ j = n + 1
      BY <1>2
    <3>7. \A j \in 1 .. n + 1 : Right(mem_regions'[j], blocks', paddr')
      BY <1>3, <3>3, <3>5, <3>6
    <3>8. \A j, k \in 1 .. n + 1 : j # k => R(mem_regions'[j]) \cap R(mem_regions'[k]) = {}
      <4>1. \A j \in 1 .. n : R(r) \cap R(mem_regions[j]) = {}
        BY <1>3, <3>4
      <4>. HIDE DEF R
      <4>. QED BY <1>4, <3>3, <3>6, <4>1
    <3>9. \A q \in 0 .. p' - 1 : Kind[q] \in {"ram", "rom"} => \E j \in 1 .. n + 1 : q \in R(mem_regions'[j])
      <4>1. n + 1 \in 1 .. n + 1 /\ \A j \in 1 .. n : j \in 1 .. n + 1
        BY <1>2
      <4>. HIDE DEF R
      <4>. QED BY <1>5, <1>6, <3>3, <3>4, <4>1
    <3>. HIDE DEF n
    <3>. QED BY <3>3, <3>7, <3>8, <3>9 DEF RegionsInv
  <2>. QED BY <1>2, <1>8, <2>3, <2>4 DEF MapPage
<1>. QED BY <1>7, <1>8

\* The invariant holds at the start.
LEMMA MapInit == Init => MapInv
<1>. SUFFICES ASSUME Init PROVE MapInv
  OBVIOUS
<1>1. paddr = 0 /\ mem_regions = <<>> /\ blocks \in Touched
  BY DEF Init
<1>2. BlocksInv
  BY <1>1, SizeAssumption, MemoryAssumption DEF BlocksInv
<1>3. RegionsInv
  BY <1>1 DEF RegionsInv
<1>. QED BY <1>2, <1>3 DEF MapInv

\* Every step keeps the invariant of the map.
LEMMA MapStep == MapInv /\ [Next]_vars => MapInv'
<1>. SUFFICES ASSUME MapInv, [Next]_vars PROVE MapInv'
  OBVIOUS
<1>1. CASE MapPage
  BY <1>1, BlocksStep, RegionsStep DEF MapInv
<1>2. ASSUME UNCHANGED mapVars PROVE MapInv'
  BY <1>2 DEF mapVars, MapInv, BlocksInv, RegionsInv
<1>3. ASSUME NEW cr3 \in Cr3, NEW v \in 0 .. E * Unit(0), NEW n \in 1 .. MaxLen, Start(cr3, v, n)
      PROVE  MapInv'
  BY <1>2, <1>3 DEF Start
<1>4. CASE ReadByte
  BY <1>2, <1>4 DEF ReadByte
<1>5. CASE UNCHANGED vars
  BY <1>2, <1>5 DEF vars, mapVars
<1>. QED BY <1>1, <1>3, <1>4, <1>5 DEF Next

\* MapInv holds in every reachable state.
LEMMA MapAlways == Spec => []MapInv
  BY MapInit, MapStep, PTL DEF Spec

\* A backed page that has been passed is in one region, which knows where it is.
LEMMA HoldingOK ==
  ASSUME MapInv, NEW p \in 0 .. paddr - 1
  PROVE  IF Kind[p] \in {"mmio", "bios"} THEN Holding(p) = {}
         ELSE /\ \E i \in Holding(p) : Holding(p) = {i} /\ mem_regions[i].perms = Perms(p)
              /\ HostOf(p) = Backing(blocks, p)
<1>. DEFINE R(r) == r.paddr .. Last(r)
<1>0. BlocksInv /\ RegionsInv
  BY DEF MapInv
<1>1. p \in Page /\ p \in Nat
  BY <1>0, SizeAssumption DEF BlocksInv, Page
<1>2. \A i \in DOMAIN mem_regions : /\ Right(mem_regions[i], blocks, paddr)
                                    /\ mem_regions[i] \in Region
                                    /\ i \in Holding(p) <=> p \in R(mem_regions[i])
  <2>1. ASSUME NEW i \in DOMAIN mem_regions
        PROVE  i \in Holding(p) <=> p \in R(mem_regions[i])
    <3>. DEFINE r == mem_regions[i]
    <3>1. r.paddr \in Nat /\ r.size \in Nat /\ Last(r) \in Nat
      BY <1>0, RegionOK DEF RegionsInv
    <3>2. i \in Holding(p) <=> r.paddr <= p /\ p < r.paddr + r.size
      BY DEF Holding
    <3>. HIDE DEF r
    <3>3. (r.paddr <= p /\ p < r.paddr + r.size) <=> p \in r.paddr .. Last(r)
      BY <1>1, <3>1 DEF Last
    <3>. QED BY <3>2, <3>3 DEF r
  <2>. QED BY <1>0, <2>1 DEF RegionsInv
<1>3. Holding(p) \subseteq DOMAIN mem_regions
  BY DEF Holding
<1>4. CASE Kind[p] \in {"mmio", "bios"}
  <2>1. \A i \in DOMAIN mem_regions : p \notin R(mem_regions[i])
    BY <1>2, <1>4 DEF Right
  <2>. QED BY <1>2, <1>3, <1>4, <2>1
<1>5. CASE Kind[p] \notin {"mmio", "bios"}
  <2>1. Kind[p] \in {"ram", "rom"}
    BY <1>1, <1>5, MemoryAssumption
  <2>2. PICK i \in DOMAIN mem_regions : p \in R(mem_regions[i])
    BY <1>0, <2>1 DEF RegionsInv
  <2>3. \A j \in DOMAIN mem_regions : j # i => p \notin R(mem_regions[j])
    BY <1>0, <2>2 DEF RegionsInv
  <2>4. Holding(p) = {i}
    <3>. HIDE DEF R
    <3>. QED BY <1>2, <1>3, <2>2, <2>3
  <2>5. mem_regions[i].perms = Perms(p) /\ Backing(blocks, p) = mem_regions[i].backing + (p - mem_regions[i].paddr)
    BY <1>2, <2>2 DEF Right
  <2>6. (CHOOSE j \in Holding(p) : TRUE) = i
    BY <2>4
  <2>7. HostOf(p) = mem_regions[i].backing + (p - mem_regions[i].paddr)
    BY <2>6 DEF HostOf
  <2>. QED BY <1>5, <2>4, <2>5, <2>7
<1>. QED BY <1>4, <1>5

\* The loop over pmem_size maps guest memory exactly, whatever the sizes, kinds
\* of page and order of allocation: a page that extends a region is where the
\* region says, and blocks allocated on the way move no page already mapped.
THEOREM MapCorrect == Spec => []MapExact
<1>1. MapInv => MapExact
  BY HoldingOK DEF MapExact
<1>. QED BY <1>1, MapAlways, PTL
-----------------------------------------------------------------------------
(* Reading physical memory.                                                *)

\* A block's place in the vector and a page's place in its block are unique.
LEMMA PlaceUnique ==
  ASSUME NEW i \in Nat, NEW j \in Nat, NEW m \in Nat \ {0}, NEW x \in 0 .. m - 1, NEW y \in 0 .. m - 1,
         i * m + x = j * m + y
  PROVE  i = j /\ x = y
<1>1. (i * m + x) \div m = i /\ (i * m + x) % m = x
  OBVIOUS
<1>2. (j * m + y) \div m = j /\ (j * m + y) % m = y
  OBVIOUS
<1>. QED BY <1>1, <1>2

\* There are no more blocks in the vector than blocks, so ROM lies behind them.
LEMMA VectorBelowRom ==
  ASSUME BlocksInv, NEW p \in Page, Allocated(blocks, p)
  PROVE  Vector(blocks, p) \in Nat /\ Vector(blocks, p) < Pages + BlockPages
<1>0. p \in Nat /\ BlockPages \in Nat \ {0} /\ Pages \in Nat \ {0} /\ p % BlockPages \in 0 .. BlockPages - 1
  BY BlockOK, SizeAssumption
<1>1. blocks \in Seq(Block) /\ \A i, j \in DOMAIN blocks : blocks[i] = blocks[j] => i = j
  BY DEF BlocksInv
<1>2. PICK i \in DOMAIN blocks : blocks[i] = p \div BlockPages
  BY DEF Allocated
<1>3. Vector(blocks, p) = (i - 1) * BlockPages + (p % BlockPages)
  BY <1>1, <1>2, VectorOK
<1>. DEFINE q == (Pages - 1) \div BlockPages
<1>4. q \in Nat /\ Block = 0 .. q /\ q * BlockPages <= Pages - 1
  BY <1>0 DEF Block
<1>. HIDE DEF q
<1>5. IsFiniteSet(Block) /\ Cardinality(Block) = q + 1
  BY <1>4, FS_Interval
<1>6. /\ IsFiniteSet(1 .. Len(blocks)) /\ Cardinality(1 .. Len(blocks)) = Len(blocks)
      /\ Len(blocks) \in Nat /\ DOMAIN blocks = 1 .. Len(blocks)
  <2>1. Len(blocks) \in Nat /\ DOMAIN blocks = 1 .. Len(blocks)
    BY <1>1
  <2>2. IsFiniteSet(1 .. Len(blocks)) /\ Cardinality(1 .. Len(blocks)) = IF 1 > Len(blocks) THEN 0 ELSE Len(blocks) - 1 + 1
    BY <2>1, FS_Interval
  <2>. QED BY <2>1, <2>2
<1>7. blocks \in Injection(1 .. Len(blocks), Block)
  BY <1>1, <1>6 DEF Injection, IsInjective
<1>8. Len(blocks) <= q + 1
  BY <1>5, <1>6, <1>7, FS_Injection
<1>9. i \in Nat /\ i - 1 \in Nat /\ i - 1 <= q
  BY <1>2, <1>4, <1>6, <1>8
<1>10. \A a, b \in Nat, m \in Nat \ {0} : a <= b => a * m \in Nat /\ a * m <= b * m
  OBVIOUS
<1>11. (i - 1) * BlockPages \in Nat /\ (i - 1) * BlockPages <= q * BlockPages /\ q * BlockPages \in Nat
  BY <1>0, <1>4, <1>9, <1>10
<1>. QED BY <1>0, <1>3, <1>4, <1>11

\* No two pages that Bochs backs are at the same place.
LEMMA BackingUnique ==
  ASSUME BlocksInv, paddr = Pages, NEW p \in Page, NEW q \in Page,
         Backing(blocks, p) = Backing(blocks, q)
  PROVE  p = q
<1>0. p \in Nat /\ q \in Nat /\ BlockPages \in Nat \ {0} /\ Pages \in Nat \ {0}
  BY BlockOK, SizeAssumption
<1>1. \A x \in Page : Kind[x] = "ram" => Allocated(blocks, x)
  BY DEF BlocksInv, Page
<1>2. \A x \in Page : Kind[x] = "ram" => Vector(blocks, x) \in Nat /\ Vector(blocks, x) < Pages + BlockPages
  BY <1>1, VectorBelowRom
<1>3. \A x \in Page : Rom(x) \in Nat /\ Rom(x) >= Pages + BlockPages
  BY <1>0, BlockOK DEF Rom
<1>4. CASE Kind[p] = "ram" /\ Kind[q] = "ram"
  <2>1. PICK i \in DOMAIN blocks : blocks[i] = p \div BlockPages
    BY <1>1, <1>4 DEF Allocated
  <2>2. PICK j \in DOMAIN blocks : blocks[j] = q \div BlockPages
    BY <1>1, <1>4 DEF Allocated
  <2>3. /\ Vector(blocks, p) = (i - 1) * BlockPages + (p % BlockPages)
        /\ Vector(blocks, q) = (j - 1) * BlockPages + (q % BlockPages)
    BY <2>1, <2>2, VectorOK DEF BlocksInv
  <2>4. i - 1 \in Nat /\ j - 1 \in Nat
    BY <2>1, <2>2 DEF BlocksInv
  <2>5. p % BlockPages \in 0 .. BlockPages - 1 /\ q % BlockPages \in 0 .. BlockPages - 1
    BY <1>0
  <2>. DEFINE k == i - 1
              l == j - 1
              x == p % BlockPages
              y == q % BlockPages
  <2>6. i - 1 = j - 1 /\ p % BlockPages = q % BlockPages
    <3>1. k * BlockPages + x = l * BlockPages + y
      BY <1>4, <2>3 DEF Backing
    <3>2. k \in Nat /\ l \in Nat /\ x \in 0 .. BlockPages - 1 /\ y \in 0 .. BlockPages - 1
      BY <2>4, <2>5
    <3>. HIDE DEF k, l, x, y
    <3>3. k = l /\ x = y
      BY <1>0, <3>1, <3>2, PlaceUnique
    <3>. QED BY <3>3 DEF k, l, x, y
  <2>. HIDE DEF k, l, x, y
  <2>7. i = j
    BY <2>1, <2>2, <2>6 DEF BlocksInv
  <2>8. p \div BlockPages = q \div BlockPages
    BY <2>1, <2>2, <2>7
  <2>. QED BY <1>0, <2>6, <2>8, DivOK
<1>5. CASE Kind[p] # "ram" /\ Kind[q] # "ram"
  BY <1>0, <1>5 DEF Backing, Rom
<1>6. CASE Kind[p] = "ram" /\ Kind[q] # "ram"
  BY <1>0, <1>2, <1>3, <1>6 DEF Backing
<1>7. CASE Kind[p] # "ram" /\ Kind[q] = "ram"
  BY <1>0, <1>2, <1>3, <1>7 DEF Backing
<1>. QED BY <1>4, <1>5, <1>6, <1>7

\* read_phys() finds what is at an address if its page is mapped, and nothing
\* otherwise.
LEMMA ReadPhysOK ==
  ASSUME MapInv, paddr = Pages, NEW a \in Nat
  PROVE  ReadPhys(a) = IF Backed(a \div E) THEN <<contents[a]>> ELSE <<>>
<1>. DEFINE p == a \div E
<1>0. E \in Nat \ {0} /\ p \in Nat /\ a = p * E + (a % E) /\ Pages \in Nat
  BY SizeAssumption, DivOK
<1>. HIDE DEF p
<1>1. CASE p \notin Page
  <2>1. \A i \in DOMAIN mem_regions : /\ mem_regions[i] \in Region
                                      /\ Last(mem_regions[i]) < Pages
    BY DEF MapInv, RegionsInv, Right
  <2>2. ASSUME NEW i \in DOMAIN mem_regions PROVE i \notin Holding(p)
    <3>. DEFINE r == mem_regions[i]
    <3>1. r.paddr \in Nat /\ r.size \in Nat /\ r.paddr + r.size - 1 < Pages
      BY <2>1, RegionOK DEF Last
    <3>2. p >= Pages
      BY <1>0, <1>1 DEF Page
    <3>3. ~(p < r.paddr + r.size)
      <4>. HIDE DEF r
      <4>. QED BY <1>0, <3>1, <3>2
    <3>. QED BY <3>3 DEF Holding
  <2>3. Holding(p) = {}
    BY <2>2 DEF Holding
  <2>. QED BY <1>1, <2>3 DEF ReadPhys, Backed, p
<1>2. CASE p \in Page
  <2>1. p \in 0 .. paddr - 1
    BY <1>2 DEF Page
  <2>2. CASE Kind[p] \in {"mmio", "bios"}
    <3>1. Holding(p) = {}
      BY <2>1, <2>2, HoldingOK
    <3>2. ~Backed(p)
      BY <2>2 DEF Backed
    <3>. QED BY <3>1, <3>2 DEF ReadPhys, p
  <2>3. CASE Kind[p] \notin {"mmio", "bios"}
    <3>1. Holding(p) # {} /\ HostOf(p) = Backing(blocks, p)
      BY <2>1, <2>3, HoldingOK
    <3>2. Backed(p)
      BY <1>2, <2>3, MemoryAssumption DEF Backed
    <3>. DEFINE g == CHOOSE q \in Page : Kind[q] # "mmio" /\ Backing(blocks, q) = Backing(blocks, p)
    <3>3. g \in Page /\ Backing(blocks, g) = Backing(blocks, p)
      BY <1>2, <2>3
    <3>4. g = p
      <4>. HIDE DEF g
      <4>. QED BY <1>2, <3>3, BackingUnique DEF MapInv
    <3>5. GuestOf(HostOf(p)) = p
      BY <3>1, <3>4 DEF GuestOf
    <3>6. ReadPhys(a) = <<contents[p * E + (a % E)]>>
      BY <3>1, <3>5 DEF ReadPhys, p
    <3>. QED BY <1>0, <3>2, <3>6 DEF p
  <2>. QED BY <2>2, <2>3
<1>. QED BY <1>1, <1>2
-----------------------------------------------------------------------------
(* Translation.                                                            *)

NextTable(t, v, k) == contents[t * E + Index(v, k)].frame

\* The tables that an address selects, level by level.
LEMMA TableAtDef ==
  ASSUME NEW cr3, NEW v
  PROVE  /\ TableAt(cr3, v, 0) = cr3 \div E
         /\ \A d \in 0 .. 3 : TableAt(cr3, v, d + 1) = EntryAt(cr3, v, d).frame
<1>. DEFINE F(at) == [k \in 0 .. Levels |-> IF k = 0 THEN cr3 \div E ELSE NextTable(at[k - 1], v, k - 1)]
            T == CHOOSE at : at = F(at)
<1>1. \A d : TableAt(cr3, v, d) = T[d]
  BY DEF TableAt, NextTable
<1>. DEFINE t0 == cr3 \div E
            t1 == NextTable(t0, v, 0)
            t2 == NextTable(t1, v, 1)
            t3 == NextTable(t2, v, 2)
            t4 == NextTable(t3, v, 3)
            W == [k \in 0 .. Levels |-> CASE k = 0 -> t0 [] k = 1 -> t1 [] k = 2 -> t2
                                          [] k = 3 -> t3 [] OTHER -> t4]
<1>2. W = F(W)
  <2>1. W[0] = t0 /\ W[1] = t1 /\ W[2] = t2 /\ W[3] = t3 /\ W[4] = t4
    <3>. HIDE DEF t0, t1, t2, t3, t4
    <3>. QED BY DEF Levels
  <2>2. ASSUME NEW k \in 0 .. Levels PROVE W[k] = F(W)[k]
    <3>. HIDE DEF W
    <3>1. k = 0 \/ k = 1 \/ k = 2 \/ k = 3 \/ k = 4
      BY DEF Levels
    <3>. QED BY <2>1, <3>1
  <2>3. DOMAIN W = 0 .. Levels /\ DOMAIN F(W) = 0 .. Levels
    OBVIOUS
  <2>. QED BY <2>2, <2>3
<1>3. T = F(T)
  <2>. HIDE DEF W, F
  <2>. QED BY <1>2
<1>. HIDE DEF T
<1>4. T[0] = cr3 \div E /\ \A d \in 0 .. 3 : T[d + 1] = NextTable(T[d], v, d)
  <2>1. ASSUME NEW d \in 0 .. 3 PROVE T[d + 1] = NextTable(T[d], v, d)
    <3>1. d + 1 \in 0 .. Levels /\ d + 1 # 0 /\ (d + 1) - 1 = d
      BY DEF Levels
    <3>2. T[d + 1] = F(T)[d + 1]
      BY <1>3
    <3>. QED BY <3>1, <3>2
  <2>2. T[0] = F(T)[0] /\ 0 \in 0 .. Levels
    BY <1>3 DEF Levels
  <2>. QED BY <2>1, <2>2
<1>. QED BY <1>1, <1>4 DEF EntryAt, NextTable

\* The states of the walk of virt_to_phys_dirty(), level by level.
LEMMA WalkDef ==
  ASSUME NEW cr3, NEW v
  PROVE  \E w : /\ w[0] = [state |-> IF Canonical(v) THEN "walk" ELSE "stopped", cur |-> cr3]
                /\ \A d \in 0 .. 3 : w[d + 1] = WalkStep(w[d], v, d)
                /\ VirtToPhys(cr3, v) = IF w[4].state = "found" THEN w[4].cur ELSE None
<1>. DEFINE w0 == [state |-> IF Canonical(v) THEN "walk" ELSE "stopped", cur |-> cr3]
            F(w) == [d \in 0 .. Levels |-> IF d = 0 THEN w0 ELSE WalkStep(w[d - 1], v, d - 1)]
            T == CHOOSE w : w = F(w)
<1>1. VirtToPhys(cr3, v) = IF T[4].state = "found" THEN T[4].cur ELSE None
  BY DEF VirtToPhys, Levels
<1>. DEFINE w1 == WalkStep(w0, v, 0)
            w2 == WalkStep(w1, v, 1)
            w3 == WalkStep(w2, v, 2)
            w4 == WalkStep(w3, v, 3)
            W == [k \in 0 .. Levels |-> CASE k = 0 -> w0 [] k = 1 -> w1 [] k = 2 -> w2
                                          [] k = 3 -> w3 [] OTHER -> w4]
<1>2. W = F(W)
  <2>1. W[0] = w0 /\ W[1] = w1 /\ W[2] = w2 /\ W[3] = w3 /\ W[4] = w4
    <3>. HIDE DEF w0, w1, w2, w3, w4
    <3>. QED BY DEF Levels
  <2>2. ASSUME NEW k \in 0 .. Levels PROVE W[k] = F(W)[k]
    <3>. HIDE DEF W, w0
    <3>1. k = 0 \/ k = 1 \/ k = 2 \/ k = 3 \/ k = 4
      BY DEF Levels
    <3>. QED BY <2>1, <3>1
  <2>3. DOMAIN W = 0 .. Levels /\ DOMAIN F(W) = 0 .. Levels
    OBVIOUS
  <2>. HIDE DEF W, F
  <2>4. W = [k \in 0 .. Levels |-> W[k]] /\ F(W) = [k \in 0 .. Levels |-> F(W)[k]]
    BY DEF W, F
  <2>. QED BY <2>2, <2>3, <2>4
<1>3. T = F(T)
  <2>. HIDE DEF W, F
  <2>. QED BY <1>2
<1>. HIDE DEF T, w0
<1>4. T[0] = w0 /\ \A d \in 0 .. 3 : T[d + 1] = WalkStep(T[d], v, d)
  <2>1. ASSUME NEW d \in 0 .. 3 PROVE T[d + 1] = WalkStep(T[d], v, d)
    <3>1. d + 1 \in 0 .. Levels /\ d + 1 # 0 /\ (d + 1) - 1 = d
      BY DEF Levels
    <3>2. T[d + 1] = F(T)[d + 1]
      BY <1>3
    <3>. QED BY <3>1, <3>2
  <2>2. T[0] = F(T)[0] /\ 0 \in 0 .. Levels
    BY <1>3 DEF Levels
  <2>. QED BY <2>1, <2>2
<1>. QED BY <1>1, <1>4 DEF w0

\* The place value of a level is a multiple of the page size.
LEMMA UnitOK ==
  ASSUME NEW d \in 0 .. 3
  PROVE  \E k \in Nat \ {0} : Unit(d) = E * k /\ Unit(d) \in Nat \ {0} /\ (d = 3 => k = 1)
<1>1. E \in Nat \ {0}
  BY SizeAssumption
<1>2. \A a, b \in Nat \ {0} : a * b \in Nat \ {0}
  OBVIOUS
<1>3. E * E \in Nat \ {0}
  BY <1>1, <1>2
<1>4. E * E * E \in Nat \ {0} /\ E * E * E = E * (E * E)
  BY <1>1, <1>2, <1>3
<1>5. E * E * E * E \in Nat \ {0} /\ E * E * E * E = E * (E * E * E)
  BY <1>1, <1>2, <1>4
<1>6. CASE d = 0
  BY <1>4, <1>5, <1>6 DEF Unit
<1>7. CASE d = 1
  BY <1>3, <1>4, <1>7 DEF Unit
<1>8. CASE d = 2
  BY <1>1, <1>3, <1>8 DEF Unit
<1>9. CASE d = 3
  <2>1. Unit(d) = E /\ E = E * 1
    BY <1>1, <1>9 DEF Unit
  <2>. QED BY <1>1, <1>9, <2>1
<1>. QED BY <1>6, <1>7, <1>8, <1>9

\* An index selects an entry of one table.
LEMMA IndexOK ==
  ASSUME NEW v \in Nat, NEW d \in 0 .. 3
  PROVE  Index(v, d) \in 0 .. E - 1
<1>1. Unit(d) \in Nat \ {0} /\ E \in Nat \ {0}
  BY UnitOK, SizeAssumption
<1>2. \A u \in Nat \ {0} : v \div u \in Nat
  OBVIOUS
<1>3. \A x \in Nat : x % E \in 0 .. E - 1
  BY <1>1
<1>. QED BY <1>1, <1>2, <1>3 DEF Index

\* An entry of a table in memory.
LEMMA EntryOK ==
  ASSUME contents \in Contents, NEW cr3, NEW v \in Nat, NEW d \in 0 .. 3, Backed(TableAt(cr3, v, d))
  PROVE  LET a == TableAt(cr3, v, d) * E + Index(v, d)
         IN  /\ a \in Nat /\ a \div E = TableAt(cr3, v, d)
             /\ contents[a] = EntryAt(cr3, v, d)
             /\ EntryAt(cr3, v, d).frame \in Nat
             /\ EntryAt(cr3, v, d).present \in BOOLEAN /\ EntryAt(cr3, v, d).ps \in BOOLEAN
<1>. DEFINE t == TableAt(cr3, v, d)
            x == Index(v, d)
            a == t * E + x
<1>1. x \in 0 .. E - 1 /\ t \in 0 .. Pages - 1 /\ E \in Nat \ {0} /\ Pages \in Nat
  BY IndexOK, SizeAssumption DEF Backed, Page
<1>2. \A s, m, n \in Nat, e \in Nat \ {0} :
         s < m /\ n < e => /\ s * e + n \in Nat /\ (s * e + n) \div e = s
                           /\ s * e + n <= m * e - 1
  <2>1. ASSUME NEW s \in Nat, NEW m \in Nat, NEW n \in Nat, NEW e \in Nat \ {0}, s < m, n < e
        PROVE  s * e + n <= m * e - 1
    <3>1. m = s + 1 + (m - s - 1) /\ m - s - 1 \in Nat
      BY <2>1
    <3>2. m * e = s * e + e + (m - s - 1) * e
      BY <2>1, <3>1
    <3>3. (m - s - 1) * e \in Nat /\ s * e \in Nat
      BY <2>1, <3>1
    <3>. QED BY <2>1, <3>2, <3>3
  <2>. QED BY <2>1
<1>. HIDE DEF t, x
<1>3. a \in Nat /\ a \div E = t /\ a \in 0 .. Pages * E - 1
  <2>1. t \in Nat /\ x \in Nat /\ t < Pages /\ x < E
    BY <1>1
  <2>. QED BY <1>1, <1>2, <2>1
<1>4. contents[a] \in Slot
  BY <1>3, MemoryAssumption
<1>5. contents[a].frame \in Nat /\ contents[a].present \in BOOLEAN /\ contents[a].ps \in BOOLEAN
  BY <1>4 DEF Slot
<1>. QED BY <1>3, <1>5 DEF EntryAt, t, x

\* The first d tables are in memory and their entries lead on.
Path(cr3, v, d) ==
  \A k \in 0 .. d - 1 : /\ Backed(TableAt(cr3, v, k))
                        /\ EntryAt(cr3, v, k).present
                        /\ ~EntryAt(cr3, v, k).ps

\* A walk that stands at w after d levels has gone right.
WalkRight(cr3, v, d, w) ==
  \/ /\ w.state = "walk" /\ d \in 0 .. 3
     /\ w = [state |-> "walk", cur |-> TableAt(cr3, v, d) * E]
     /\ TableAt(cr3, v, d) \in Nat
     /\ Path(cr3, v, d)
  \/ /\ w.state = "found"
     /\ \E l \in LeafLevel(v, cr3) : w.cur = EntryAt(cr3, v, l).frame * E + (v % Unit(l))
  \/ /\ w.state = "stopped"
     /\ LeafLevel(v, cr3) = {}

\* One level of virt_to_phys_dirty() takes the step the processor takes.
LEMMA WalkStepOK ==
  ASSUME MapInv, paddr = Pages, contents \in Contents, NEW cr3, NEW v \in Nat, NEW d \in 0 .. 3,
         NEW w, WalkRight(cr3, v, d, w)
  PROVE  WalkRight(cr3, v, d + 1, WalkStep(w, v, d))
<1>. DEFINE t == TableAt(cr3, v, d)
            n == EntryAt(cr3, v, d)
            L == LeafLevel(v, cr3)
            entry == ReadPhys(w.cur + Index(v, d))
<1>1. CASE w.state # "walk"
  <2>1. WalkStep(w, v, d) = w
    BY <1>1 DEF WalkStep
  <2>. QED BY <1>1, <2>1 DEF WalkRight
<1>2. CASE w.state = "walk"
  <2>1. w = [state |-> "walk", cur |-> t * E] /\ w.cur = t * E /\ Path(cr3, v, d)
    BY <1>2 DEF WalkRight
  <2>2. L \subseteq 1 .. 3 /\ \A l \in L : /\ \A k \in 0 .. l : Backed(TableAt(cr3, v, k)) /\ EntryAt(cr3, v, k).present
                                           /\ \A k \in 0 .. l - 1 : ~EntryAt(cr3, v, k).ps
                                           /\ l = 3 \/ EntryAt(cr3, v, l).ps
    BY DEF LeafLevel, Levels
  <2>3. \A l \in L : l \in d .. 3
    BY <2>1, <2>2 DEF Path
  <2>4. \A l \in L : Backed(t) /\ n.present /\ (l # d => ~n.ps)
    <3>1. \A l \in L : d \in 0 .. l /\ (l # d => d \in 0 .. l - 1)
      BY <2>2, <2>3
    <3>. QED BY <2>2, <3>1
  <2>5. t \in Nat /\ t * E + Index(v, d) \in Nat /\ (t * E + Index(v, d)) \div E = t
    <3>1. t \in Nat
      BY <1>2 DEF WalkRight
    <3>2. \A s, x \in Nat, e \in Nat \ {0} : x < e => s * e + x \in Nat /\ (s * e + x) \div e = s
      OBVIOUS
    <3>3. Index(v, d) \in Nat /\ Index(v, d) < E /\ E \in Nat \ {0}
      BY IndexOK, SizeAssumption
    <3>. HIDE DEF t
    <3>. QED BY <3>1, <3>2, <3>3
  <2>6. entry = IF Backed(t) THEN <<contents[t * E + Index(v, d)]>> ELSE <<>>
    <3>. HIDE DEF t
    <3>. QED BY <2>1, <2>5, ReadPhysOK
  <2>7. CASE ~Backed(t)
    <3>1. WalkStep(w, v, d) = [w EXCEPT !.state = "stopped"] /\ L = {}
      BY <1>2, <2>4, <2>6, <2>7 DEF WalkStep
    <3>. QED BY <2>1, <3>1 DEF WalkRight
  <2>8. CASE Backed(t)
    <3>1. entry = <<n>> /\ entry # <<>> /\ entry[1] = n
      BY <2>6, <2>8, EntryOK
    <3>2. n.frame \in Nat /\ n.present \in BOOLEAN /\ n.ps \in BOOLEAN
      BY <2>8, EntryOK
    <3>. HIDE DEF n, entry, t
    <3>3. CASE ~n.present \/ (n.ps /\ d = 0)
      <4>1. WalkStep(w, v, d) = [w EXCEPT !.state = "stopped"]
        BY <1>2, <3>1, <3>3 DEF WalkStep, entry
      <4>2. L = {}
        BY <2>2, <2>4, <3>3
      <4>. QED BY <2>1, <4>1, <4>2 DEF WalkRight
    <3>4. CASE n.present /\ d # 0 /\ (n.ps \/ d = 3)
      <4>1. WalkStep(w, v, d) = [state |-> "found", cur |-> n.frame * E + (v % Unit(d))]
        <5>1. (n.ps /\ d < Levels - 1) \/ d = Levels - 1
          BY <3>4 DEF Levels
        <5>. QED BY <1>2, <3>1, <3>4, <5>1 DEF WalkStep, entry
      <4>2. d \in L
        <5>1. \A k \in 0 .. d : k \in 0 .. d - 1 \/ k = d
          OBVIOUS
        <5>2. d \in 1 .. Levels - 1 /\ (d = Levels - 1 \/ n.ps)
          BY <3>4 DEF Levels
        <5>. QED BY <2>1, <2>8, <3>4, <5>1, <5>2 DEF LeafLevel, Path, n, t
      <4>. QED BY <4>1, <4>2 DEF WalkRight, n
    <3>5. CASE n.present /\ ~n.ps /\ d # 3
      <4>1. WalkStep(w, v, d) = [w EXCEPT !.cur = n.frame * E]
        <5>1. ~((n.ps /\ d < Levels - 1) \/ d = Levels - 1)
          BY <3>5 DEF Levels
        <5>. QED BY <1>2, <3>1, <3>5, <5>1 DEF WalkStep, entry
      <4>2. TableAt(cr3, v, d + 1) = n.frame
        BY TableAtDef DEF n
      <4>3. Path(cr3, v, d + 1)
        <5>1. \A k \in 0 .. (d + 1) - 1 : k \in 0 .. d - 1 \/ k = d
          OBVIOUS
        <5>. QED BY <2>1, <2>8, <3>5, <5>1 DEF Path, n, t
      <4>4. d + 1 \in 0 .. 3
        BY <3>5
      <4>5. WalkStep(w, v, d) = [state |-> "walk", cur |-> TableAt(cr3, v, d + 1) * E]
        BY <2>1, <4>1, <4>2
      <4>. QED BY <3>2, <4>2, <4>3, <4>4, <4>5 DEF WalkRight
    <3>. QED BY <3>2, <3>3, <3>4, <3>5
  <2>. QED BY <2>7, <2>8
<1>. QED BY <1>1, <1>2

\* At most one level of an address is its last.
LEMMA LeafUnique ==
  ASSUME NEW cr3, NEW v, NEW l \in LeafLevel(v, cr3), NEW m \in LeafLevel(v, cr3)
  PROVE  l = m
<1>1. ASSUME NEW x \in LeafLevel(v, cr3), NEW y \in LeafLevel(v, cr3), x < y PROVE FALSE
  <2>1. x \in 1 .. 3 /\ y \in 1 .. 3 /\ x \in 0 .. y - 1 /\ x # 3
    BY <1>1 DEF LeafLevel, Levels
  <2>2. EntryAt(cr3, v, x).ps /\ ~EntryAt(cr3, v, x).ps
    BY <2>1 DEF LeafLevel, Levels
  <2>. QED BY <2>2
<1>2. l \in 1 .. 3 /\ m \in 1 .. 3
  BY DEF LeafLevel, Levels
<1>. QED BY <1>1, <1>2

\* virt_to_phys_dirty() finds the last level of an address, if it has one.
LEMMA VirtToPhysOK ==
  ASSUME MapInv, paddr = Pages, contents \in Contents, NEW cr3 \in Nat, cr3 % E = 0,
         NEW v \in Nat, Canonical(v)
  PROVE  \/ LeafLevel(v, cr3) = {} /\ VirtToPhys(cr3, v) = None
         \/ \E l \in 1 .. 3 : /\ LeafLevel(v, cr3) = {l}
                              /\ EntryAt(cr3, v, l).frame \in Nat
                              /\ VirtToPhys(cr3, v) = EntryAt(cr3, v, l).frame * E + (v % Unit(l))
<1>1. PICK w : /\ w[0] = [state |-> IF Canonical(v) THEN "walk" ELSE "stopped", cur |-> cr3]
               /\ \A d \in 0 .. 3 : w[d + 1] = WalkStep(w[d], v, d)
               /\ VirtToPhys(cr3, v) = IF w[4].state = "found" THEN w[4].cur ELSE None
  BY WalkDef
<1>2. WalkRight(cr3, v, 0, w[0])
  <2>1. TableAt(cr3, v, 0) = cr3 \div E /\ cr3 \div E \in Nat /\ (cr3 \div E) * E = cr3
    BY TableAtDef, SizeAssumption
  <2>2. w[0] = [state |-> "walk", cur |-> TableAt(cr3, v, 0) * E]
    BY <1>1, <2>1
  <2>. QED BY <2>1, <2>2 DEF WalkRight, Path
<1>3. \A d \in 0 .. 3 : WalkRight(cr3, v, d, w[d]) => WalkRight(cr3, v, d + 1, w[d + 1])
  <2>1. \A d \in 0 .. 3 : \A x : WalkRight(cr3, v, d, x) => WalkRight(cr3, v, d + 1, WalkStep(x, v, d))
    BY WalkStepOK
  <2>. QED BY <1>1, <2>1
<1>4. WalkRight(cr3, v, 4, w[4])
  <2>1. WalkRight(cr3, v, 1, w[1])
    BY <1>2, <1>3
  <2>2. WalkRight(cr3, v, 2, w[2])
    BY <1>3, <2>1
  <2>3. WalkRight(cr3, v, 3, w[3])
    BY <1>3, <2>2
  <2>. QED BY <1>3, <2>3
<1>5. CASE w[4].state # "found"
  BY <1>1, <1>4, <1>5 DEF WalkRight
<1>6. CASE w[4].state = "found"
  <2>1. PICK l \in LeafLevel(v, cr3) : w[4].cur = EntryAt(cr3, v, l).frame * E + (v % Unit(l))
    BY <1>4, <1>6 DEF WalkRight
  <2>2. LeafLevel(v, cr3) = {l}
    BY LeafUnique
  <2>3. l \in 1 .. 3 /\ l \in 0 .. 3 /\ Backed(TableAt(cr3, v, l))
    BY DEF LeafLevel, Levels
  <2>4. EntryAt(cr3, v, l).frame \in Nat
    BY <2>3, EntryOK
  <2>. QED BY <1>1, <1>6, <2>1, <2>2, <2>3, <2>4
<1>. QED BY <1>5, <1>6

\* Entries of large pages point at the start of one: their low bits, PAT among
\* them, are clear.
Aligned ==
  \A cr3 \in Cr3, v \in Nat : \A d \in LeafLevel(v, cr3) :
    (EntryAt(cr3, v, d).frame * E) % Unit(d) = 0

\* An address outside of the canonical range is not translated.
LEMMA NotCanonicalOK ==
  ASSUME NEW cr3, NEW v, ~Canonical(v)
  PROVE  VirtToPhys(cr3, v) = None
<1>1. PICK w : /\ w[0] = [state |-> IF Canonical(v) THEN "walk" ELSE "stopped", cur |-> cr3]
               /\ \A d \in 0 .. 3 : w[d + 1] = WalkStep(w[d], v, d)
               /\ VirtToPhys(cr3, v) = IF w[4].state = "found" THEN w[4].cur ELSE None
  BY WalkDef
<1>2. w[0].state = "stopped"
  BY <1>1
<1>3. \A d \in 0 .. 3 : w[d].state = "stopped" => w[d + 1].state = "stopped"
  BY <1>1 DEF WalkStep
<1>4. w[1].state = "stopped"
  BY <1>2, <1>3
<1>5. w[2].state = "stopped"
  BY <1>3, <1>4
<1>6. w[3].state = "stopped"
  BY <1>3, <1>5
<1>7. w[4].state = "stopped"
  BY <1>3, <1>6
<1>. QED BY <1>1, <1>7

\* Remainders: a multiple of the modulus adds nothing.
LEMMA ModAdd ==
  \A s, y \in Nat, e \in Nat \ {0} : s * e + y \in Nat /\ (s * e + y) % e = y % e
<1>. TAKE s, y \in Nat, e \in Nat \ {0}
<1>1. y = e * (y \div e) + (y % e) /\ y \div e \in Nat /\ y % e \in 0 .. e - 1
  BY DivOK
<1>. DEFINE g == y \div e
            h == y % e
<1>2. y = e * g + h /\ g \in Nat /\ h \in 0 .. e - 1
  BY <1>1
<1>. HIDE DEF g, h
<1>3. s * e + y = (s + g) * e + h /\ s + g \in Nat
  BY <1>2
<1>4. \A z \in Nat : (z * e + h) % e = h
  BY <1>2
<1>5. (s * e + y) % e = h
  BY <1>3, <1>4
<1>6. s * e + y \in Nat
  OBVIOUS
<1>. QED BY <1>5, <1>6 DEF h

\* An address keeps its offset in the page when it is translated.
LEMMA OffsetKept ==
  ASSUME NEW f \in Nat, NEW v \in Nat, NEW l \in 0 .. 3
  PROVE  f * E + (v % Unit(l)) \in Nat /\ (f * E + (v % Unit(l))) % E = v % E
<1>. DEFINE q == v \div Unit(l)
            r == v % Unit(l)
<1>1. PICK k \in Nat \ {0} : Unit(l) = E * k /\ Unit(l) \in Nat \ {0}
  BY UnitOK
<1>2. E \in Nat \ {0}
  BY SizeAssumption
<1>3. q \in Nat /\ v = Unit(l) * q + r /\ r \in Nat
  <2>1. \A u \in Nat \ {0} : v \div u \in Nat /\ v = u * (v \div u) + (v % u) /\ v % u \in Nat
    BY DivOK
  <2>. QED BY <1>1, <2>1
<1>. HIDE DEF q, r
<1>4. r \in Nat
  BY <1>3
<1>5. v = (k * q) * E + r /\ k * q \in Nat
  BY <1>1, <1>2, <1>3
<1>6. \A z \in Nat : z * E + r \in Nat /\ (z * E + r) % E = r % E
  BY <1>2, <1>4, ModAdd, Zenon
<1>7. v % E = r % E
  BY <1>5, <1>6, Zenon
<1>8. f * E + r \in Nat /\ (f * E + r) % E = v % E
  BY <1>6, <1>7, Zenon
<1>. QED BY <1>8 DEF r

\* virt_to_phys_dirty() translates as the processor does.
LEMMA TranslationOK ==
  ASSUME MapInv, paddr = Pages, contents \in Contents, Aligned,
         NEW cr3 \in Cr3, cr3 % E = 0, NEW v \in Nat
  PROVE  \/ Guest(cr3, v) = {} /\ VirtToPhys(cr3, v) = None
         \/ \E x \in Nat : Guest(cr3, v) = {x} /\ VirtToPhys(cr3, v) = x /\ x % E = v % E
<1>1. CASE ~Canonical(v)
  BY <1>1, NotCanonicalOK DEF Guest
<1>2. CASE Canonical(v)
  <2>. DEFINE G(l) == LET f == EntryAt(cr3, v, l).frame
                      IN  (f - (((f * E) % Unit(l)) \div E)) * E + (v % Unit(l))
  <2>1. Guest(cr3, v) = {G(l) : l \in LeafLevel(v, cr3)}
    BY <1>2 DEF Guest
  <2>2. cr3 \in Nat /\ E \in Nat \ {0}
    BY SizeAssumption
  <2>3. CASE LeafLevel(v, cr3) = {} /\ VirtToPhys(cr3, v) = None
    BY <2>1, <2>3
  <2>4. ASSUME NEW l \in 1 .. 3, LeafLevel(v, cr3) = {l}, EntryAt(cr3, v, l).frame \in Nat,
               VirtToPhys(cr3, v) = EntryAt(cr3, v, l).frame * E + (v % Unit(l))
        PROVE  \E x \in Nat : Guest(cr3, v) = {x} /\ VirtToPhys(cr3, v) = x /\ x % E = v % E
    <3>. DEFINE f == EntryAt(cr3, v, l).frame
                x == f * E + (v % Unit(l))
    <3>1. (f * E) % Unit(l) = 0
      BY <2>4 DEF Aligned
    <3>2. 0 \div E = 0 /\ f - 0 = f
      BY <2>2, <2>4
    <3>3. G(l) = x
      BY <3>1, <3>2
    <3>4. Guest(cr3, v) = {x}
      BY <2>1, <2>4, <3>3
    <3>5. f \in Nat
      BY <2>4
    <3>6. x \in Nat /\ x % E = v % E
      <4>1. l \in 0 .. 3
        OBVIOUS
      <4>2. \A g \in Nat : g * E + (v % Unit(l)) \in Nat /\ (g * E + (v % Unit(l))) % E = v % E
        BY <4>1, OffsetKept, Zenon
      <4>. HIDE DEF f
      <4>. QED BY <3>5, <4>2, Zenon
    <3>. QED BY <2>4, <3>4, <3>6
  <2>. QED BY <1>2, <2>2, <2>3, <2>4, VirtToPhysOK
<1>. QED BY <1>1, <1>2

\* DivOK for all numbers at once.
LEMMA DivAll ==
  \A n \in Nat, m \in Nat \ {0} : n = m * (n \div m) + (n % m) /\ n \div m \in Nat /\ n % m \in Nat
  BY DivOK

\* The next address in a page selects the same tables.
LEMMA NextAddressOK ==
  ASSUME NEW v \in Nat, NEW l \in 0 .. 3, (v + 1) % E # 0
  PROVE  /\ Index(v + 1, l) = Index(v, l)
         /\ (v + 1) % Unit(l) = (v % Unit(l)) + 1
         /\ v % Unit(l) \in Nat
<1>1. PICK k \in Nat \ {0} : Unit(l) = E * k /\ Unit(l) \in Nat \ {0}
  BY UnitOK
<1>2. E \in Nat \ {0}
  BY SizeAssumption
<1>3. (v + 1) \div E = v \div E
  BY <1>2
<1>4. \A x \in Nat : x \div (E * k) = (x \div E) \div k
  BY <1>2
<1>5. (v + 1) \div Unit(l) = v \div Unit(l)
  <2>1. (v + 1) \div (E * k) = ((v + 1) \div E) \div k /\ v \div (E * k) = (v \div E) \div k
    BY <1>4
  <2>. QED BY <1>1, <1>3, <2>1
<1>6. \A u \in Nat \ {0} : (v + 1) \div u = v \div u => (v + 1) % u = (v % u) + 1 /\ v % u \in Nat
  <2>1. ASSUME NEW u \in Nat \ {0}, (v + 1) \div u = v \div u PROVE (v + 1) % u = (v % u) + 1 /\ v % u \in Nat
    <3>. DEFINE q == v \div u
    <3>1. v = u * q + (v % u) /\ q \in Nat /\ v % u \in Nat
      BY DivAll, Zenon
    <3>2. v + 1 = u * ((v + 1) \div u) + ((v + 1) % u) /\ (v + 1) % u \in Nat
      <4>1. v + 1 \in Nat
        OBVIOUS
      <4>. QED BY <4>1, DivOK
    <3>3. v + 1 = u * q + ((v + 1) % u)
      BY <2>1, <3>2
    <3>. DEFINE r == v % u
                s == (v + 1) % u
    <3>. HIDE DEF q, r, s
    <3>4. v = u * q + r /\ r \in Nat
      BY <3>1 DEF r
    <3>5. v + 1 = u * q + s /\ s \in Nat
      BY <3>2, <3>3 DEF s
    <3>6. u * q \in Nat
      BY <3>1
    <3>7. s = r + 1
      BY <3>4, <3>5, <3>6
    <3>. QED BY <3>4, <3>7 DEF r, s
  <2>. QED BY <2>1
<1>. QED BY <1>1, <1>5, <1>6 DEF Index

\* The next address in a page is translated to the next physical address.
LEMMA SamePageOK ==
  ASSUME contents \in Contents, NEW cr3, NEW v \in Nat, (v + 1) % E # 0,
         NEW x \in Nat, Guest(cr3, v) = {x}
  PROVE  Guest(cr3, v + 1) = {x + 1}
<1>1. \A d \in 0 .. 3 : Index(v + 1, d) = Index(v, d)
  BY NextAddressOK
<1>2. \A d \in 0 .. 3 : TableAt(cr3, v + 1, d) = TableAt(cr3, v, d) =>
         EntryAt(cr3, v + 1, d) = EntryAt(cr3, v, d)
  BY <1>1 DEF EntryAt
<1>3. \A d \in 0 .. 3 : TableAt(cr3, v + 1, d) = TableAt(cr3, v, d)
  <2>1. TableAt(cr3, v + 1, 0) = TableAt(cr3, v, 0)
    BY TableAtDef
  <2>2. \A d \in 0 .. 3 : TableAt(cr3, v + 1, d) = TableAt(cr3, v, d) =>
           TableAt(cr3, v + 1, d + 1) = TableAt(cr3, v, d + 1)
    BY <1>2, TableAtDef
  <2>3. TableAt(cr3, v + 1, 1) = TableAt(cr3, v, 1)
    BY <2>1, <2>2
  <2>4. TableAt(cr3, v + 1, 2) = TableAt(cr3, v, 2)
    BY <2>2, <2>3
  <2>5. TableAt(cr3, v + 1, 3) = TableAt(cr3, v, 3)
    BY <2>2, <2>4
  <2>6. \A d \in 0 .. 3 : d = 0 \/ d = 1 \/ d = 2 \/ d = 3
    OBVIOUS
  <2>. QED BY <2>1, <2>3, <2>4, <2>5, <2>6
<1>4. \A d \in 0 .. 3 : EntryAt(cr3, v + 1, d) = EntryAt(cr3, v, d)
  BY <1>2, <1>3
<1>5. LeafLevel(v + 1, cr3) = LeafLevel(v, cr3)
  <2>1. \A d \in 1 .. 3 : d \in 0 .. 3 /\ \A k \in 0 .. d : k \in 0 .. 3
    OBVIOUS
  <2>2. \A d \in 1 .. 3 : \A k \in 0 .. d - 1 : k \in 0 .. 3
    OBVIOUS
  <2>. QED BY <1>3, <1>4, <2>1, <2>2 DEF LeafLevel, Levels
<1>6. Canonical(v) /\ Canonical(v + 1)
  <2>1. Canonical(v)
    BY DEF Guest
  <2>2. E \in Nat \ {0} /\ Unit(0) \in Nat \ {0}
    BY SizeAssumption, UnitOK
  <2>. DEFINE u == Unit(0)
  <2>. HIDE DEF u
  <2>3. u \in Nat /\ v < E * u
    BY <2>1, <2>2 DEF Canonical, u
  <2>4. v + 1 # E * u
    <3>1. \A z \in Nat : (z * E) % E = 0
      BY <2>2
    <3>2. E * u = u * E
      BY <2>2, <2>3
    <3>. QED BY <2>3, <3>1, <3>2
  <2>5. E * u \in Nat
    BY <2>2, <2>3
  <2>6. v + 1 < E * u
    BY <2>3, <2>4, <2>5
  <2>. QED BY <2>1, <2>6 DEF Canonical, u
<1>. DEFINE A(l) == LET f == EntryAt(cr3, v, l).frame
                    IN  (f - (((f * E) % Unit(l)) \div E)) * E
<1>7. Guest(cr3, v) = {A(l) + (v % Unit(l)) : l \in LeafLevel(v, cr3)}
  BY <1>6 DEF Guest
<1>8. \A l \in LeafLevel(v, cr3) : l \in 0 .. 3 /\ Backed(TableAt(cr3, v, l))
  BY DEF LeafLevel, Levels
<1>9. Guest(cr3, v + 1) = {A(l) + ((v + 1) % Unit(l)) : l \in LeafLevel(v, cr3)}
  <2>1. Guest(cr3, v + 1) = {LET f == EntryAt(cr3, v + 1, l).frame
                             IN  (f - (((f * E) % Unit(l)) \div E)) * E + ((v + 1) % Unit(l)) : l \in LeafLevel(v, cr3)}
    BY <1>5, <1>6 DEF Guest
  <2>2. \A l \in LeafLevel(v, cr3) : EntryAt(cr3, v + 1, l) = EntryAt(cr3, v, l)
    BY <1>4, <1>8
  <2>. QED BY <2>1, <2>2
<1>10. PICK l \in LeafLevel(v, cr3) : x = A(l) + (v % Unit(l))
  BY <1>7
<1>11. LeafLevel(v, cr3) = {l}
  BY LeafUnique
<1>12. A(l) + ((v + 1) % Unit(l)) = x + 1
  <2>1. EntryAt(cr3, v, l).frame \in Nat
    BY <1>8, EntryOK
  <2>2. E \in Nat \ {0} /\ Unit(l) \in Nat \ {0}
    BY <1>8, SizeAssumption, UnitOK
  <2>3. \A f \in Nat, e, u \in Nat \ {0} : \E z \in Nat : (f - (((f * e) % u) \div e)) * e = z \/ (f - (((f * e) % u) \div e)) * e = 0 - z
    OBVIOUS
  <2>4. PICK z \in Nat : A(l) = z \/ A(l) = 0 - z
    BY <2>1, <2>2, <2>3
  <2>5. (v + 1) % Unit(l) = (v % Unit(l)) + 1 /\ v % Unit(l) \in Nat
    BY <1>8, NextAddressOK
  <2>. HIDE DEF A
  <2>. QED BY <1>10, <2>4, <2>5
<1>. HIDE DEF A
<1>. QED BY <1>9, <1>11, <1>12
-----------------------------------------------------------------------------
(* Reading virtual memory.                                                 *)

\* The byte read next.
Here == req.vaddr + Len(buf)

\* What read_virt() has read is right, and so is the translation it carries on
\* with, unless it is due for renewal.
ReadInv ==
  /\ contents \in Contents
  /\ req.vaddr \in Nat /\ req.len \in Nat /\ req.done \in BOOLEAN
  /\ buf \in Seq(Slot) /\ Len(buf) <= req.len
  /\ DOMAIN req = {"cr3", "vaddr", "len", "done"}
  /\ ~req.done =>
       /\ paddr = Pages /\ req.cr3 \in Cr3
       /\ guest_phys \in Nat
       /\ guest_phys % E # 0 => /\ Guest(req.cr3, Here) = {guest_phys}
                                /\ guest_phys % E = Here % E
  /\ ReadCorrect

\* The conditions under which virt_to_phys_dirty() and the processor agree.
PlainTables == Aligned /\ \A cr3 \in Cr3 : cr3 % E = 0

\* Addresses at the same place of a page stay so when both advance.
LEMMA NextModOK ==
  \A a, b \in Nat, e \in Nat \ {0, 1} : a % e = b % e => (a + 1) % e = (b + 1) % e
<1>. SUFFICES ASSUME NEW a \in Nat, NEW b \in Nat, NEW e \in Nat \ {0, 1}, a % e = b % e
              PROVE  (a + 1) % e = (b + 1) % e
  OBVIOUS
<1>. DEFINE r == a % e
<1>1. /\ a = e * (a \div e) + r /\ a \div e \in Nat
      /\ b = e * (b \div e) + r /\ b \div e \in Nat
      /\ r \in 0 .. e - 1
  BY DivOK
<1>. HIDE DEF r
<1>2. \A n, q \in Nat : n = e * q + r => (n + 1) % e = IF r + 1 = e THEN 0 ELSE r + 1
  <2>. SUFFICES ASSUME NEW n \in Nat, NEW q \in Nat, n = e * q + r
                PROVE  (n + 1) % e = IF r + 1 = e THEN 0 ELSE r + 1
    OBVIOUS
  <2>1. CASE r + 1 = e
    <3>1. n + 1 = (q + 1) * e
      BY <1>1, <2>1
    <3>2. \A z \in Nat : (z * e) % e = 0
      OBVIOUS
    <3>. QED BY <2>1, <3>1, <3>2
  <2>2. CASE r + 1 # e
    <3>1. n + 1 = e * q + (r + 1) /\ r + 1 \in 0 .. e - 1
      BY <1>1, <2>2
    <3>2. \A z \in Nat, x \in 0 .. e - 1 : (e * z + x) % e = x
      OBVIOUS
    <3>. QED BY <2>2, <3>1, <3>2
  <2>. QED BY <2>1, <2>2
<1>. QED BY <1>1, <1>2, Zenon

\* One iteration of read_virt().
LEMMA ReadStep ==
  ASSUME MapInv, ReadInv, PlainTables, ReadByte
  PROVE  ReadInv'
<1>. DEFINE v == Here
            phys == IF NeedsWalk THEN VirtToPhys(req.cr3, v) ELSE guest_phys
            data == IF phys = None THEN <<>> ELSE ReadPhys(phys)
<1>1. /\ ~req.done /\ paddr = Pages /\ req.cr3 \in Cr3 /\ contents \in Contents
      /\ req.vaddr \in Nat /\ req.len \in Nat /\ buf \in Seq(Slot) /\ Len(buf) \in Nat /\ v \in Nat
      /\ Len(buf) <= req.len
  BY DEF ReadInv, ReadByte, Here
<1>2. UNCHANGED mapVars
  BY DEF ReadByte
<1>3. E \in Nat \ {0, 1} /\ None \in Nat /\ Pages \in Nat
  BY SizeAssumption DEF None
<1>4. \/ Guest(req.cr3, v) = {} /\ phys = None
      \/ \E x \in Nat : Guest(req.cr3, v) = {x} /\ phys = x /\ x % E = v % E
  <2>1. CASE NeedsWalk
    <3>1. req.cr3 % E = 0 /\ Aligned
      BY <1>1 DEF PlainTables
    <3>. HIDE DEF v
    <3>2. \/ Guest(req.cr3, v) = {} /\ VirtToPhys(req.cr3, v) = None
          \/ \E x \in Nat : Guest(req.cr3, v) = {x} /\ VirtToPhys(req.cr3, v) = x /\ x % E = v % E
      BY <1>1, <3>1, TranslationOK
    <3>. QED BY <2>1, <3>2
  <2>2. CASE ~NeedsWalk
    BY <1>1, <2>2 DEF NeedsWalk, ReadInv
  <2>. QED BY <2>1, <2>2
<1>. HIDE DEF v, phys
<1>5. \/ data = <<>> /\ Readable(req.cr3, v) = {}
      \/ /\ phys \in Nat /\ data = <<contents[phys]>> /\ contents[phys] \in Slot
         /\ phys \in Readable(req.cr3, v) /\ Guest(req.cr3, v) = {phys} /\ phys % E = v % E
  <2>1. CASE Guest(req.cr3, v) = {} /\ phys = None
    BY <2>1 DEF Readable
  <2>2. CASE phys \in Nat /\ Guest(req.cr3, v) = {phys} /\ phys % E = v % E
    <3>1. ReadPhys(phys) = IF Backed(phys \div E) THEN <<contents[phys]>> ELSE <<>>
      BY <1>1, <2>2, ReadPhysOK
    <3>2. CASE ~Backed(phys \div E)
      BY <2>2, <3>1, <3>2 DEF Readable
    <3>3. CASE Backed(phys \div E)
      <4>1. phys \in 0 .. Pages * E - 1 /\ phys # None
        <5>. DEFINE p == phys \div E
        <5>1. p \in 0 .. Pages - 1 /\ phys = E * p + (phys % E) /\ phys % E \in 0 .. E - 1
          <6>1. \A e \in Nat \ {0} : phys = e * (phys \div e) + (phys % e) /\ phys % e \in 0 .. e - 1
            BY <2>2, DivOK
          <6>. QED BY <1>3, <3>3, <6>1 DEF Backed, Page
        <5>. DEFINE r == phys % E
        <5>2. phys = E * p + r /\ r \in 0 .. E - 1
          BY <5>1
        <5>. HIDE DEF p, r
        <5>3. E * p + E <= Pages * E /\ E * p \in Nat
          <6>1. \A a, b \in Nat, e \in Nat : a < b => e * a + e <= b * e /\ e * a \in Nat
            <7>1. ASSUME NEW a \in Nat, NEW b \in Nat, NEW e \in Nat, a < b PROVE e * a + e <= b * e /\ e * a \in Nat
              <8>1. b = a + 1 + (b - a - 1) /\ b - a - 1 \in Nat
                BY <7>1
              <8>2. b * e = e * a + e + (b - a - 1) * e
                BY <7>1, <8>1
              <8>3. (b - a - 1) * e \in Nat /\ e * a \in Nat
                BY <7>1, <8>1
              <8>. QED BY <7>1, <8>2, <8>3
            <7>. QED BY <7>1
          <6>2. p \in Nat /\ p < Pages
            BY <1>3, <5>1
          <6>. QED BY <1>3, <6>1, <6>2
        <5>4. Pages * E \in Nat
          BY <1>3
        <5>. QED BY <1>3, <5>2, <5>3, <5>4 DEF None
      <4>2. contents[phys] \in Slot
        BY <1>1, <4>1, MemoryAssumption
      <4>. QED BY <2>2, <3>1, <3>3, <4>1, <4>2 DEF Readable
    <3>. QED BY <3>2, <3>3
  <2>. QED BY <1>4, <2>1, <2>2
<1>. HIDE DEF data
<1>6. IF Len(buf) = req.len \/ data = <<>>
      THEN req' = [req EXCEPT !.done = TRUE] /\ UNCHANGED <<buf, guest_phys>>
      ELSE buf' = buf \o data /\ guest_phys' = phys + 1 /\ UNCHANGED req
  BY DEF ReadByte, data, phys, v, Here
<1>7. ASSUME NEW c, NEW w PROVE Readable(c, w)' = Readable(c, w)
  BY <1>2 DEF mapVars, Readable, Guest, LeafLevel, EntryAt, TableAt
<1>8. ASSUME NEW c, NEW w PROVE Guest(c, w)' = Guest(c, w)
  BY <1>2 DEF mapVars, Guest, LeafLevel, EntryAt, TableAt
<1>9. \A i \in 1 .. Len(buf) : \E a \in Readable(req.cr3, req.vaddr + i - 1) : buf[i] = contents[a]
  BY DEF ReadInv, ReadCorrect
<1>10. DOMAIN req = {"cr3", "vaddr", "len", "done"}
  BY DEF ReadInv
<1>11. contents' = contents /\ paddr' = paddr
  BY <1>2 DEF mapVars
<1>12. CASE Len(buf) = req.len \/ data = <<>>
  <2>1. req' = [req EXCEPT !.done = TRUE] /\ buf' = buf /\ guest_phys' = guest_phys
    BY <1>6, <1>12
  <2>2. /\ req'.cr3 = req.cr3 /\ req'.vaddr = req.vaddr /\ req'.len = req.len /\ req'.done = TRUE
        /\ DOMAIN req' = DOMAIN req
    BY <1>10, <2>1
  <2>3. Len(buf) < req.len => Readable(req.cr3, v) = {}
    <3>1. \A x : <<x>> # << >>
      OBVIOUS
    <3>2. Len(buf) < req.len => Len(buf) # req.len
      BY <1>1
    <3>. QED BY <1>5, <1>12, <3>1, <3>2, Zenon
  <2>4. \A i \in 1 .. Len(buf') :
          \E a \in Readable(req.cr3, req.vaddr + i - 1)' : buf'[i] = contents'[a]
    BY <1>7, <1>9, <1>11, <2>1, <2>2
  <2>5. req'.done /\ Len(buf') < req'.len => Readable(req.cr3, req.vaddr + Len(buf))' = {}
    BY <1>7, <2>1, <2>2, <2>3 DEF v, Here
  <2>6. ReadCorrect'
    BY <2>4, <2>5 DEF ReadCorrect
  <2>. QED BY <1>1, <1>10, <1>11, <2>1, <2>2, <2>6 DEF ReadInv
<1>13. CASE ~(Len(buf) = req.len \/ data = <<>>)
  <2>1. buf' = buf \o data /\ guest_phys' = phys + 1 /\ req' = req
    BY <1>6, <1>13
  <2>2. /\ phys \in Nat /\ data = <<contents[phys]>> /\ contents[phys] \in Slot
        /\ phys \in Readable(req.cr3, v) /\ Guest(req.cr3, v) = {phys} /\ phys % E = v % E
    BY <1>5, <1>13
  <2>3. /\ buf' \in Seq(Slot) /\ Len(buf') = Len(buf) + 1 /\ Len(buf') <= req.len
        /\ \A i \in 1 .. Len(buf) : buf'[i] = buf[i]
        /\ buf'[Len(buf) + 1] = contents[phys]
    BY <1>1, <1>13, <2>1, <2>2
  <2>4. Here' = v + 1
    BY <1>1, <2>1, <2>3 DEF Here, v
  <2>5. \A i \in 1 .. Len(buf') :
          \E a \in Readable(req.cr3, req.vaddr + i - 1)' : buf'[i] = contents'[a]
    <3>1. ASSUME NEW i \in 1 .. Len(buf')
          PROVE  \E a \in Readable(req.cr3, req.vaddr + i - 1) : buf'[i] = contents[a]
      <4>1. CASE i \in 1 .. Len(buf)
        BY <1>9, <2>3, <4>1
      <4>2. CASE i = Len(buf) + 1
        <5>1. req.vaddr + i - 1 = v
          BY <1>1, <4>2 DEF v, Here
        <5>. QED BY <2>2, <2>3, <4>2, <5>1
      <4>3. i \in 1 .. Len(buf) \/ i = Len(buf) + 1
        BY <1>1, <2>3
      <4>. QED BY <4>1, <4>2, <4>3
    <3>. QED BY <1>7, <1>11, <2>1, <3>1
  <2>6. ReadCorrect'
    BY <1>1, <2>1, <2>5 DEF ReadCorrect
  <2>7. guest_phys' % E # 0 => Guest(req.cr3, Here)' = {guest_phys'} /\ guest_phys' % E = Here' % E
    <3>1. SUFFICES ASSUME (phys + 1) % E # 0
                   PROVE  Guest(req.cr3, v + 1) = {phys + 1} /\ (phys + 1) % E = (v + 1) % E
      BY <1>8, <2>1, <2>4
    <3>3. (phys + 1) % E = (v + 1) % E
      BY <1>1, <1>3, <2>2, NextModOK, Zenon
    <3>4. v \in Nat /\ contents \in Contents /\ (v + 1) % E # 0
      BY <1>1, <3>1, <3>3
    <3>5. phys \in Nat /\ Guest(req.cr3, v) = {phys}
      BY <2>2
    <3>6. Guest(req.cr3, v + 1) = {phys + 1}
      BY <3>4, <3>5, SamePageOK
    <3>. QED BY <3>3, <3>6
  <2>8. guest_phys' \in Nat
    BY <2>1, <2>2
  <2>. QED BY <1>1, <1>10, <1>11, <2>1, <2>3, <2>6, <2>7, <2>8 DEF ReadInv
<1>. QED BY <1>12, <1>13

\* The invariant holds at the start.
LEMMA ReadInit == Init => ReadInv
<1>. SUFFICES ASSUME Init PROVE ReadInv
  OBVIOUS
<1>1. /\ contents \in Contents /\ buf = <<>> /\ Len(buf) = 0
      /\ req = [cr3 |-> 0, vaddr |-> 0, len |-> 0, done |-> TRUE]
  BY DEF Init, NoReq
<1>2. ReadCorrect
  BY <1>1 DEF ReadCorrect
<1>. QED BY <1>1, <1>2 DEF ReadInv

\* Building the map and every step that leaves the read alone.
LEMMA ReadKept ==
  ASSUME ReadInv, UNCHANGED <<contents, req, buf, guest_phys>>, ~req.done => paddr' = paddr
  PROVE  ReadInv'
<1>1. ASSUME NEW c, NEW w PROVE Guest(c, w)' = Guest(c, w)
  BY DEF Guest, LeafLevel, EntryAt, TableAt
<1>2. ASSUME NEW c, NEW w PROVE Readable(c, w)' = Readable(c, w)
  BY <1>1 DEF Readable
<1>3. ReadCorrect'
  BY <1>2 DEF ReadInv, ReadCorrect
<1>4. Here' = Here
  BY DEF Here
<1>5. Guest(req.cr3, Here)' = Guest(req.cr3, Here)
  BY <1>1, <1>4
<1>. QED BY <1>3, <1>4, <1>5 DEF ReadInv

\* Every step keeps the invariant of the read.
LEMMA ReadNext ==
  ASSUME MapInv, ReadInv, PlainTables, [Next]_vars
  PROVE  ReadInv'
<1>1. CASE MapPage
  <2>1. ~req.done => FALSE
    <3>1. ~req.done => paddr = Pages
      BY DEF ReadInv
    <3>2. paddr < Pages /\ Pages \in Nat
      BY <1>1, SizeAssumption DEF MapPage
    <3>. QED BY <3>1, <3>2
  <2>2. UNCHANGED <<contents, req, buf, guest_phys>>
    BY <1>1 DEF MapPage
  <2>. QED BY <2>1, <2>2, ReadKept
<1>2. ASSUME NEW cr3 \in Cr3, NEW v \in 0 .. E * Unit(0), NEW n \in 1 .. MaxLen, Start(cr3, v, n)
      PROVE  ReadInv'
  <2>1. /\ req' = [cr3 |-> cr3, vaddr |-> v, len |-> n, done |-> FALSE]
        /\ buf' = <<>> /\ guest_phys' = 0 /\ paddr = Pages /\ paddr' = paddr /\ contents' = contents
    BY <1>2 DEF Start, mapVars
  <2>2. v \in Nat /\ n \in Nat /\ 0 % E = 0
    BY SizeAssumption, UnitOK
  <2>3. contents \in Contents
    BY DEF ReadInv
  <2>4. Len(buf') = 0 /\ buf' \in Seq(Slot)
    BY <2>1
  <2>5. ReadCorrect'
    BY <2>1, <2>4 DEF ReadCorrect
  <2>. QED BY <2>1, <2>2, <2>3, <2>4, <2>5 DEF ReadInv
<1>3. CASE ReadByte
  BY <1>3, ReadStep
<1>4. CASE UNCHANGED vars
  BY <1>4, ReadKept DEF vars
<1>. QED BY <1>1, <1>2, <1>3, <1>4 DEF Next

\* Guest memory does not change while it is read.
LEMMA PlainKept ==
  ASSUME PlainTables, [Next]_vars
  PROVE  PlainTables'
<1>1. contents' = contents
  BY DEF Next, MapPage, Start, ReadByte, mapVars, vars
<1>2. ASSUME NEW c, NEW w, NEW d PROVE EntryAt(c, w, d)' = EntryAt(c, w, d)
  BY <1>1 DEF EntryAt, TableAt
<1>3. ASSUME NEW c, NEW w PROVE LeafLevel(w, c)' = LeafLevel(w, c)
  BY <1>1 DEF LeafLevel, EntryAt, TableAt
<1>. QED BY <1>2, <1>3 DEF PlainTables, Aligned

\* read_virt() (lib.rs 430-466) returns what the processor would read at every
\* byte and stops exactly at the first byte that is not mapped or not backed,
\* for every memory, page table and length, provided that CR3 and the entries
\* of large pages carry no bits below their alignment: virt_to_phys_dirty()
\* uses both as they are.
THEOREM ReadVirtCorrect == Spec /\ PlainTables => []ReadCorrect
<1>1. MapInv /\ ReadInv /\ PlainTables /\ [Next]_vars => ReadInv' /\ PlainTables'
  BY ReadNext, PlainKept
<1>2. ReadInv => ReadCorrect
  BY DEF ReadInv
<1>. QED BY <1>1, <1>2, ReadInit, MapAlways, PTL DEF Spec

-----------------------------------------------------------------------------
(* Coverage: the invariant.                                                *)

\* What the forward links f of a list lead to from its head; es are the entries
\* that can be linked into it.
Reach(f, es) ==
  {Anchor} \cup {e \in es : \A s \in SUBSET (es \cup {Anchor}) :
                    Anchor \in s /\ (\A x \in s : f[x] \in s) => e \in s}

\* A ring: links lead to entries of the list, and no two nodes that can be
\* reached have the same next one.
IsRing(f, es) ==
  /\ \A x \in es \cup {Anchor} : f[x] \in es \cup {Anchor}
  /\ \A x, y \in Reach(f, es) : f[x] = f[y] => x = y

Nodes(l) == Reach(flinks[l], Entries[l])

\* The node that closes the ring of list l: the tail, or what the last store of
\* the change in progress makes the tail.
Closer(l) == IF op.list = l /\ op.kind \in {"insert", "remove_tail"} THEN op.entry ELSE tail[l]

\* The last entry of list l is unlinked and still its tail.
Torn(l) == op.kind = "remove_tail" /\ op.list = l

\* The lists, between any two stores of the loader.
ListInv(l) ==
  /\ DOMAIN flinks[l] = AllEntries \cup {Anchor}
  /\ IsRing(flinks[l], Entries[l])
  /\ \A d, e \in Linked(l) : d # e => Apart(d, e)
  /\ Closer(l) \in Nodes(l) /\ flinks[l][Closer(l)] = Anchor
  /\ tail[l] \in Entries[l] \cup {Anchor}
  /\ ~Torn(l) => tail[l] \in Nodes(l)
ListsInv ==
  /\ op.kind \in {Nil, "insert", "remove", "remove_tail"}
  /\ op.list \in Lists
  /\ op.kind = Nil => op = NoOp
  /\ ops \in 0 .. MaxOps
  /\ ctx \in Lists
  /\ DOMAIN flinks = Lists /\ DOMAIN tail = Lists
  /\ \A l \in Lists : ListInv(l)

\* m describes the module of entry e.
Infos == {Entry[e].info : e \in AllEntries}
Module == [info : Infos, base : Nat, len : Nat \ {0}, ord : Nat]
Describes(m, e) ==
  /\ m.info = Entry[e].info
  /\ m.base = Entry[e].base
  /\ m.len = Entry[e].len

\* Modules ml are of usable entries in es; they are of all of those.
AreOf(ml, es) == \A i \in DOMAIN ml : \E e \in es : Usable(e) /\ Describes(ml[i], e)
HasAll(ml, es) == \A e \in es : Usable(e) => \E i \in DOMAIN ml : Describes(ml[i], e)

\* Modules ml are sorted by base.
InOrder(ml) == \A i, j \in DOMAIN ml : i < j => ml[i].base <= ml[j].base

\* Modules ml have their ordinals in table os.
HasOrdinals(ml, os) == \A i \in DOMAIN ml : ml[i].ord \in DOMAIN os /\ os[ml[i].ord] = ml[i].info

\* A table of ordinals, and that a bit lies in the bitmap of a module of it.
IsTable(os) == os \in Seq(Infos) /\ \A i, j \in DOMAIN os : os[i] = os[j] => i = j
InBitmap(c, os) ==
  /\ c[1] \in DOMAIN os /\ c[2] \in Nat
  /\ \E e \in AllEntries : Entry[e].info = os[c[1]] /\ c[2] < Entry[e].len
OrdinalsInv == IsTable(ords) /\ \A c \in cov : InBitmap(c, ords)

\* The cache, and of which list it is a true copy.
CacheInv ==
  /\ cache \in Seq(Module)
  /\ AreOf(cache, AllEntries)
  /\ HasOrdinals(cache, ords)
  /\ source \in Lists \cup {Nil}
  /\ source # Nil =>
       /\ op.kind = Nil \/ op.list # source
       /\ AreOf(cache, Nodes(source))
       /\ HasAll(cache, Nodes(source))
       /\ InOrder(cache)

\* Where the walk of a list that is not torn has come: what it has seen, and
\* what follows each node of that.
PathInv ==
  LET f == flinks[ctx]
  IN  /\ seen \cup {flink} \subseteq Nodes(ctx)
      /\ flink \notin seen
      /\ tail[ctx] \notin seen
      /\ f[Anchor] \in seen \cup {flink}
      /\ \A x \in seen : f[x] \in seen \cup {flink}
      /\ \A y \in seen \cup {flink} : \E x \in seen \cup {Anchor} : f[x] = y
WalkInv ==
  /\ pc \in {"guest", "walk", "hang"}
  /\ kml \in BOOLEAN
  /\ full \in BOOLEAN
  /\ rip \in Nat
  /\ flink \in AllEntries \cup {Anchor}
  /\ pc = "walk" =>
       /\ flink \in Entries[ctx] \cup {Anchor}
       /\ seen \subseteq Entries[ctx] \cup {Anchor}
       /\ last.rip = 0
       /\ ret \in Seq(Module)
       /\ AreOf(ret, seen)
       /\ full => HasAll(ret, seen)
       /\ HasOrdinals(ret, ords)
       /\ ~Torn(ctx) => PathInv

\* The inductive invariant of coverage.
CoverageInv ==
  /\ ListsInv
  /\ OrdinalsInv
  /\ CacheInv
  /\ WalkInv
  /\ CreditedRight
  /\ HangsOnlyIfTorn

-----------------------------------------------------------------------------
(* Rings.                                                                  *)

\* What can be reached is closed under the links.
LEMMA ReachClosed ==
  ASSUME NEW f, NEW es, \A x \in es \cup {Anchor} : f[x] \in es \cup {Anchor}
  PROVE  /\ Anchor \in Reach(f, es)
         /\ Reach(f, es) \subseteq es \cup {Anchor}
         /\ \A x \in Reach(f, es) : f[x] \in Reach(f, es)
<1>1. Anchor \in Reach(f, es) /\ Reach(f, es) \subseteq es \cup {Anchor}
  BY DEF Reach
<1>2. ASSUME NEW x \in Reach(f, es), f[x] # Anchor PROVE f[x] \in Reach(f, es)
  <2>1. f[x] \in es
    BY <1>1, <1>2
  <2>2. ASSUME NEW s \in SUBSET (es \cup {Anchor}), Anchor \in s, \A y \in s : f[y] \in s
        PROVE  f[x] \in s
    BY <2>2 DEF Reach
  <2>. QED BY <2>1, <2>2 DEF Reach
<1>. QED BY <1>1, <1>2

\* A set that holds the head and is closed under the links holds all that can be
\* reached.
LEMMA ReachLeast ==
  ASSUME NEW f, NEW es, NEW s \in SUBSET (es \cup {Anchor}),
         Anchor \in s, \A x \in s : f[x] \in s
  PROVE  Reach(f, es) \subseteq s
  BY DEF Reach

\* Everything that can be reached, but for the head, follows something else that
\* can.
LEMMA ReachPrevious ==
  ASSUME NEW f, NEW es, IsRing(f, es), NEW e \in Reach(f, es), e # Anchor
  PROVE  \E d \in Reach(f, es) : d # e /\ f[d] = e
<1>1. /\ Anchor \in Reach(f, es)
      /\ Reach(f, es) \subseteq es \cup {Anchor}
      /\ \A x \in Reach(f, es) : f[x] \in Reach(f, es)
  BY ReachClosed DEF IsRing
<1>. SUFFICES ASSUME \A d \in Reach(f, es) : d # e => f[d] # e PROVE FALSE
  OBVIOUS
<1>. DEFINE s == Reach(f, es) \ {e}
<1>2. s \in SUBSET (es \cup {Anchor}) /\ Anchor \in s /\ \A x \in s : f[x] \in s
  BY <1>1
<1>3. Reach(f, es) \subseteq s
  <2>. HIDE DEF s
  <2>. QED BY <1>2, ReachLeast
<1>. QED BY <1>3

\* InsertTailList() up to the store behind the old tail t: the new entry e is
\* reached as well, and closes the ring.
LEMMA RingInsert ==
  ASSUME NEW f, NEW es, IsRing(f, es), Anchor \notin es,
         NEW t \in Reach(f, es), f[t] = Anchor,
         NEW e \in es, e \notin Reach(f, es),
         NEW g, g[e] = Anchor, g[t] = e,
         \A x \in es \cup {Anchor} : x \notin {e, t} => g[x] = f[x]
  PROVE  IsRing(g, es) /\ Reach(g, es) = Reach(f, es) \cup {e}
<1>. DEFINE R == Reach(f, es)
<1>1. /\ Anchor \in R
      /\ R \subseteq es \cup {Anchor}
      /\ \A x \in R : f[x] \in R
  BY ReachClosed DEF IsRing
<1>2. \A x \in es \cup {Anchor} : f[x] \in es \cup {Anchor}
  BY DEF IsRing
<1>3. \A x, y \in R : f[x] = f[y] => x = y
  BY DEF IsRing
<1>4. \A x \in es \cup {Anchor} : g[x] \in es \cup {Anchor}
  BY <1>2
<1>5. Reach(g, es) \subseteq R \cup {e}
  <2>. DEFINE s == R \cup {e}
  <2>1. s \in SUBSET (es \cup {Anchor}) /\ Anchor \in s /\ \A x \in s : g[x] \in s
    BY <1>1
  <2>. HIDE DEF s
  <2>2. Reach(g, es) \subseteq s
    BY <2>1, ReachLeast
  <2>. QED BY <2>2 DEF s
<1>6. R \subseteq Reach(g, es)
  <2>. DEFINE s == Reach(g, es) \cap R
  <2>1. Anchor \in Reach(g, es) /\ \A x \in Reach(g, es) : g[x] \in Reach(g, es)
    BY <1>4, ReachClosed
  <2>2. s \in SUBSET (es \cup {Anchor}) /\ Anchor \in s /\ \A x \in s : f[x] \in s
    BY <1>1, <2>1
  <2>. HIDE DEF s
  <2>3. R \subseteq s
    BY <2>2, ReachLeast
  <2>. QED BY <2>3 DEF s
<1>7. e \in Reach(g, es)
  BY <1>4, <1>6, ReachClosed
<1>8. Reach(g, es) = R \cup {e}
  BY <1>5, <1>6, <1>7
<1>9. ASSUME NEW x \in R \cup {e}, NEW y \in R \cup {e}, g[x] = g[y] PROVE x = y
  BY <1>1, <1>3, <1>9
<1>. QED BY <1>4, <1>8, <1>9 DEF IsRing

\* The first store of RemoveEntryList(): entry e can no longer be reached, and
\* the ring goes on from its predecessor d to its successor.
LEMMA RingRemove ==
  ASSUME NEW f, NEW es, IsRing(f, es), Anchor \notin es,
         NEW e \in Reach(f, es), e # Anchor,
         NEW d \in Reach(f, es), d # e, f[d] = e,
         NEW g, g[d] = f[e],
         \A x \in es \cup {Anchor} : x # d => g[x] = f[x]
  PROVE  IsRing(g, es) /\ Reach(g, es) = Reach(f, es) \ {e}
<1>. DEFINE R == Reach(f, es)
<1>1. /\ Anchor \in R
      /\ R \subseteq es \cup {Anchor}
      /\ \A x \in R : f[x] \in R
  BY ReachClosed DEF IsRing
<1>2. \A x \in es \cup {Anchor} : f[x] \in es \cup {Anchor}
  BY DEF IsRing
<1>3. \A x, y \in R : f[x] = f[y] => x = y
  BY DEF IsRing
<1>4. \A x \in es \cup {Anchor} : g[x] \in es \cup {Anchor}
  BY <1>1, <1>2
<1>5. f[e] # e
  BY <1>3
<1>6. Reach(g, es) \subseteq R \ {e}
  <2>. DEFINE s == R \ {e}
  <2>1. s \in SUBSET (es \cup {Anchor}) /\ Anchor \in s /\ \A x \in s : g[x] \in s
    BY <1>1, <1>3, <1>5
  <2>. HIDE DEF s
  <2>2. Reach(g, es) \subseteq s
    BY <2>1, ReachLeast
  <2>. QED BY <2>2 DEF s
<1>. DEFINE G == Reach(g, es)
<1>7. Anchor \in G /\ \A x \in G : g[x] \in G
  BY <1>4, ReachClosed
<1>8. d \in G
  <2>. SUFFICES ASSUME d \notin G PROVE FALSE
    OBVIOUS
  <2>1. G \in SUBSET (es \cup {Anchor}) /\ Anchor \in G /\ \A x \in G : f[x] \in G
    BY <1>1, <1>6, <1>7
  <2>. HIDE DEF G
  <2>2. R \subseteq G
    BY <2>1, ReachLeast
  <2>. QED BY <2>2
<1>9. R \ {e} \subseteq G
  <2>. DEFINE s == G \cup {e}
  <2>1. s \in SUBSET (es \cup {Anchor}) /\ Anchor \in s /\ \A x \in s : f[x] \in s
    <3>1. s \in SUBSET (es \cup {Anchor}) /\ Anchor \in s
      BY <1>1, <1>6, <1>7
    <3>2. f[e] \in s
      BY <1>7, <1>8
    <3>3. ASSUME NEW x \in G PROVE f[x] \in s
      BY <1>1, <1>6, <1>7
    <3>. QED BY <3>1, <3>2, <3>3
  <2>. HIDE DEF s, G
  <2>2. R \subseteq s
    BY <2>1, ReachLeast
  <2>. QED BY <2>2 DEF s
<1>10. G = R \ {e}
  BY <1>6, <1>9
<1>11. ASSUME NEW x \in R \ {e}, NEW y \in R \ {e}, g[x] = g[y] PROVE x = y
  BY <1>1, <1>3, <1>11
<1>. QED BY <1>4, <1>10, <1>11 DEF IsRing

\* A walk of ring f that has seen nodes s, is at node n and has not passed the
\* tail t meets none of s again: what follows n is new, unless n is the tail.
LEMMA PathAdvances ==
  ASSUME NEW f, NEW es, IsRing(f, es), NEW s, NEW n \in Reach(f, es),
         s \subseteq Reach(f, es), n \notin s,
         NEW t \in Reach(f, es), t \notin s, n # t,
         f[Anchor] \in s \cup {n},
         \A x \in s : f[x] \in s \cup {n},
         \A y \in s \cup {n} : \E x \in s \cup {Anchor} : f[x] = y
  PROVE  f[n] \notin s \cup {n}
<1>1. /\ Anchor \in Reach(f, es)
      /\ Reach(f, es) \subseteq es \cup {Anchor}
  BY ReachClosed DEF IsRing
<1>. SUFFICES ASSUME f[n] \in s \cup {n} PROVE FALSE
  OBVIOUS
<1>2. PICK x \in s \cup {Anchor} : f[x] = f[n]
  OBVIOUS
<1>3. n = Anchor
  BY <1>1, <1>2 DEF IsRing
<1>. DEFINE c == s \cup {n}
<1>4. c \in SUBSET (es \cup {Anchor}) /\ Anchor \in c /\ \A y \in c : f[y] \in c
  BY <1>1, <1>3
<1>. HIDE DEF c
<1>5. t \in c
  BY <1>4, ReachLeast
<1>. QED BY <1>5 DEF c

\* At the tail such a walk has seen the whole ring.
LEMMA PathComplete ==
  ASSUME NEW f, NEW es, IsRing(f, es), NEW s, NEW n \in Reach(f, es),
         s \subseteq Reach(f, es), f[n] = Anchor,
         f[Anchor] \in s \cup {n},
         \A x \in s : f[x] \in s \cup {n}
  PROVE  Reach(f, es) \subseteq s \cup {n, Anchor}
<1>1. Reach(f, es) \subseteq es \cup {Anchor}
  BY ReachClosed DEF IsRing
<1>. DEFINE c == s \cup {n, Anchor}
<1>2. c \in SUBSET (es \cup {Anchor}) /\ Anchor \in c /\ \A y \in c : f[y] \in c
  BY <1>1
<1>. HIDE DEF c
<1>3. Reach(f, es) \subseteq c
  BY <1>2, ReachLeast
<1>. QED BY <1>3 DEF c

\* The nodes of a list are its head and the entries linked into it.
LEMMA NodesLinked ==
  ASSUME NEW l \in Lists
  PROVE  Nodes(l) = {Anchor} \cup Linked(l) /\ Anchor \notin Linked(l)
<1>1. Nodes(l) = {Anchor} \cup Linked(l)
  BY Zenon DEF Nodes, Linked, Reach
<1>2. Linked(l) \subseteq Entries[l]
  BY DEF Linked
<1>. QED BY <1>1, <1>2, ListsAssumption

\* The entries of a list are entries.
LEMMA EntriesOf ==
  ASSUME NEW l \in Lists
  PROVE  Entries[l] \subseteq AllEntries
  BY DEF AllEntries

\* The head of a list is no entry.
LEMMA AnchorNoEntry == Anchor \notin AllEntries
<1>. SUFFICES ASSUME Anchor \in AllEntries PROVE FALSE
  OBVIOUS
<1>1. PICK l \in Lists : Anchor \in Entries[l]
  BY DEF AllEntries
<1>. QED BY <1>1, ListsAssumption

-----------------------------------------------------------------------------
(* Looking an address up.                                                  *)

\* Induction over the natural numbers, as a fact about a set.
LEMMA Induction ==
  ASSUME NEW T, 0 \in T, \A n \in Nat : n \in T => n + 1 \in T
  PROVE  Nat \subseteq T
<1>. SUFFICES ASSUME Nat \ T # {} PROVE FALSE
  OBVIOUS
<1>. DEFINE S == Nat \ T
            R == {p \in Nat \X Nat : p[1] < p[2]}
<1>1. OpToRel(<, Nat) = R
  BY Zenon DEF OpToRel
<1>2. IsWellFoundedOn(R, Nat)
  BY <1>1, NatLessThanWellFounded, Zenon
<1>3. \A a, b \in Nat : a < b => <<a, b>> \in R
  OBVIOUS
<1>4. S \subseteq Nat /\ S # {}
  OBVIOUS
<1>. HIDE DEF R, S
<1>5. PICK x \in S : \A y \in S : ~(<<y, x>> \in R)
  BY <1>2, <1>4, WFMin, Zenon
<1>6. x \in Nat /\ x \notin T
  BY <1>5 DEF S
<1>7. x # 0 /\ x - 1 \in Nat /\ x - 1 < x /\ (x - 1) + 1 = x
  BY <1>6
<1>8. x - 1 \notin S
  BY <1>3, <1>5, <1>6, <1>7
<1>9. x - 1 \in T
  BY <1>7, <1>8 DEF S
<1>. QED BY <1>6, <1>7, <1>9

\* A set of indices that is not empty has a last one.
LEMMA LastIndex ==
  ASSUME NEW n \in Nat, NEW s \in SUBSET (1 .. n), s # {}
  PROVE  \E i \in s : \A j \in s : j <= i
<1>. DEFINE HasLast(m) == \A c \in SUBSET (1 .. m) : c # {} => \E i \in c : \A j \in c : j <= i
            T == {m \in Nat : HasLast(m)}
<1>1. 0 \in T
  <2>1. 1 .. 0 = {}
    OBVIOUS
  <2>. QED BY <2>1
<1>2. ASSUME NEW m \in Nat, m \in T PROVE m + 1 \in T
  <2>. SUFFICES ASSUME NEW c \in SUBSET (1 .. m + 1), c # {} PROVE \E i \in c : \A j \in c : j <= i
    OBVIOUS
  <2>1. CASE m + 1 \in c
    BY <2>1
  <2>2. CASE m + 1 \notin c
    <3>1. c \in SUBSET (1 .. m)
      BY <2>2
    <3>. QED BY <1>2, <3>1
  <2>. QED BY <2>1, <2>2
<1>3. n \in T
  <2>. HIDE DEF T
  <2>. QED BY <1>1, <1>2, Induction
<1>. QED BY <1>3

\* get_modoff() gives the last module at or below the address if the address is
\* inside it.
LEMMA ModoffIs ==
  ASSUME NEW ml \in Seq(Module), NEW a \in Nat
  PROVE  \/ /\ GetModoff(ml, a) = 0
            /\ \A j \in DOMAIN ml : ml[j].base > a
         \/ \E i \in DOMAIN ml :
              /\ ml[i].base <= a
              /\ \A j \in DOMAIN ml : ml[j].base <= a => j <= i
              /\ GetModoff(ml, a) = IF a - ml[i].base < ml[i].len THEN i ELSE 0
<1>. DEFINE below == {i \in DOMAIN ml : ml[i].base <= a}
            i == CHOOSE i \in below : \A j \in below : j <= i
<1>1. \A j \in DOMAIN ml : ml[j] \in Module /\ ml[j].base \in Nat /\ ml[j].len \in Nat \ {0}
  <2>1. \A j \in DOMAIN ml : ml[j] \in Module
    OBVIOUS
  <2>. QED BY <2>1 DEF Module
<1>2. GetModoff(ml, a) = IF below # {} /\ (a = ml[i].base \/ a - ml[i].base < ml[i].len) THEN i ELSE 0
  BY DEF GetModoff
<1>3. CASE below = {}
  BY <1>1, <1>2, <1>3
<1>4. CASE below # {}
  <2>1. Len(ml) \in Nat /\ DOMAIN ml = 1 .. Len(ml)
    OBVIOUS
  <2>2. below \in SUBSET (1 .. Len(ml))
    BY <2>1
  <2>3. \E k \in below : \A j \in below : j <= k
    <3>. HIDE DEF below
    <3>. QED BY <1>4, <2>1, <2>2, LastIndex
  <2>4. i \in below /\ \A j \in below : j <= i
    <3>. HIDE DEF below
    <3>. QED BY <2>3
  <2>. HIDE DEF i
  <2>5. i \in DOMAIN ml /\ ml[i].base <= a /\ \A j \in DOMAIN ml : ml[j].base <= a => j <= i
    BY <2>4
  <2>6. GetModoff(ml, a) = IF a - ml[i].base < ml[i].len THEN i ELSE 0
    BY <1>1, <1>2, <1>4, <2>5
  <2>. QED BY <2>5, <2>6
<1>. QED BY <1>3, <1>4

\* A module that get_modoff() finds holds the address.
LEMMA ModoffInside ==
  ASSUME NEW ml \in Seq(Module), NEW a \in Nat, GetModoff(ml, a) # 0
  PROVE  LET i == GetModoff(ml, a)
         IN  i \in DOMAIN ml /\ a - ml[i].base \in Nat /\ a - ml[i].base < ml[i].len
<1>1. PICK i \in DOMAIN ml : ml[i].base <= a /\ a - ml[i].base < ml[i].len /\ GetModoff(ml, a) = i
  BY ModoffIs
<1>2. ml[i] \in Module
  OBVIOUS
<1>3. ml[i].base \in Nat
  BY <1>2 DEF Module
<1>. QED BY <1>1, <1>3

\* In a sorted list of all modules of list l, whose modules are apart, it finds
\* the module that holds the address, if there is one.
LEMMA ModoffRight ==
  ASSUME NEW l \in Lists, \A d, e \in Linked(l) : d # e => Apart(d, e),
         NEW ml \in Seq(Module), AreOf(ml, Nodes(l)), HasAll(ml, Nodes(l)), InOrder(ml),
         NEW a \in Nat
  PROVE  LET i == GetModoff(ml, a)
         IN  IF i = 0 THEN ModulesAt(l, a) = {}
             ELSE \E e \in ModulesAt(l, a) :
                    Entry[e].info = ml[i].info /\ Entry[e].base + (a - ml[i].base) = a
<1>. DEFINE i == GetModoff(ml, a)
<1>1. \A j \in DOMAIN ml : ml[j] \in Module
  OBVIOUS
<1>2. \A j \in DOMAIN ml : ml[j].base \in Nat /\ ml[j].len \in Nat \ {0}
  BY <1>1 DEF Module
<1>3. Nodes(l) = {Anchor} \cup Linked(l) /\ Anchor \notin Linked(l)
  BY NodesLinked
<1>4. \A j \in DOMAIN ml : \E e \in Linked(l) : Entry[e].sane /\ Describes(ml[j], e)
  BY <1>3 DEF AreOf, Usable
<1>5. \A e \in Linked(l) : Entry[e].sane => \E j \in DOMAIN ml : Describes(ml[j], e)
  BY <1>3 DEF HasAll, Usable
<1>6. Linked(l) \subseteq AllEntries
  <2>1. Linked(l) \subseteq Entries[l]
    BY DEF Linked
  <2>. QED BY <2>1, EntriesOf
<1>7. CASE i # 0
  <2>1. i \in DOMAIN ml /\ a - ml[i].base \in Nat /\ a - ml[i].base < ml[i].len
    BY <1>7, ModoffInside
  <2>2. PICK e \in Linked(l) : Entry[e].sane /\ Describes(ml[i], e)
    BY <1>4, <2>1
  <2>3. a \in Extent(e)
    <3>1. Entry[e].base = ml[i].base /\ Entry[e].len = ml[i].len
      BY <2>2 DEF Describes
    <3>. HIDE DEF i
    <3>. QED BY <1>2, <2>1, <3>1 DEF Extent
  <2>4. e \in ModulesAt(l, a)
    BY <2>2, <2>3 DEF ModulesAt
  <2>5. Entry[e].info = ml[i].info /\ Entry[e].base + (a - ml[i].base) = a
    <3>1. Entry[e].base = ml[i].base /\ Entry[e].info = ml[i].info
      BY <2>2 DEF Describes
    <3>. HIDE DEF i
    <3>. QED BY <1>2, <2>1, <3>1
  <2>. HIDE DEF i
  <2>6. \E d \in ModulesAt(l, a) : Entry[d].info = ml[i].info /\ Entry[d].base + (a - ml[i].base) = a
    BY <2>4, <2>5
  <2>. QED BY <1>7, <2>6 DEF i
<1>8. CASE i = 0
  <2>. SUFFICES ASSUME NEW e \in ModulesAt(l, a) PROVE FALSE
    BY <1>8
  <2>1. e \in Linked(l) /\ Entry[e].sane /\ a \in Extent(e)
    BY DEF ModulesAt
  <2>2. /\ Entry[e].base \in Nat /\ Entry[e].len \in Nat
        /\ Entry[e].base <= a /\ a < Entry[e].base + Entry[e].len
    BY <1>6, <2>1, ListsAssumption DEF Extent
  <2>3. PICK j \in DOMAIN ml : Describes(ml[j], e)
    BY <1>5, <2>1
  <2>4. ml[j].base = Entry[e].base
    BY <2>3 DEF Describes
  <2>5. PICK k \in DOMAIN ml : /\ ml[k].base <= a
                               /\ j <= k
                               /\ ~(a - ml[k].base < ml[k].len)
    <3>. HIDE DEF i
    <3>1. PICK k \in DOMAIN ml : /\ ml[k].base <= a
                                 /\ \A x \in DOMAIN ml : ml[x].base <= a => x <= k
                                 /\ i = IF a - ml[k].base < ml[k].len THEN k ELSE 0
      BY <1>2, <2>2, <2>4, ModoffIs DEF i
    <3>2. k # 0
      OBVIOUS
    <3>3. j <= k
      BY <2>2, <2>4, <3>1
    <3>. QED BY <1>8, <3>1, <3>2, <3>3
  <2>6. ml[j].base <= ml[k].base
    <3>1. j < k \/ j = k
      BY <2>5
    <3>2. j = k => ml[j].base <= ml[k].base
      BY <1>2
    <3>. QED BY <3>1, <3>2 DEF InOrder
  <2>7. PICK d \in Linked(l) : Entry[d].sane /\ Describes(ml[k], d)
    BY <1>4
  <2>8. ml[k].base = Entry[d].base /\ ml[k].len = Entry[d].len
    BY <2>7 DEF Describes
  <2>9. d # e
    BY <1>2, <2>2, <2>5, <2>8
  <2>10. Extent(d) \cap Extent(e) = {}
    BY <2>1, <2>7, <2>9 DEF Apart
  <2>11. ml[k].base \in Extent(d)
    BY <1>2, <2>8 DEF Extent
  <2>12. ml[k].base \in Extent(e)
    BY <1>2, <2>2, <2>4, <2>5, <2>6 DEF Extent
  <2>. QED BY <2>10, <2>11, <2>12
<1>. QED BY <1>7, <1>8

\* sort_by_key() keeps the modules.
LEMMA SortKeeps ==
  ASSUME NEW ml \in Seq(Module), NEW s \in SortedByBase(ml)
  PROVE  /\ s \in Seq(Module)
         /\ InOrder(s)
         /\ \A k \in DOMAIN s : \E i \in DOMAIN ml : s[k] = ml[i]
         /\ \A i \in DOMAIN ml : \E k \in DOMAIN s : s[k] = ml[i]
<1>. DEFINE n == Len(ml)
<1>1. n \in Nat /\ DOMAIN ml = 1 .. n /\ \A i \in 1 .. n : ml[i] \in Module
  OBVIOUS
<1>2. PICK p \in Bijection(DOMAIN ml, DOMAIN ml) : s = [k \in DOMAIN ml |-> ml[p[k]]]
  BY DEF SortedByBase
<1>3. \A k, j \in DOMAIN ml : k < j => s[k].base <= s[j].base
  BY DEF SortedByBase
<1>4. /\ p \in [DOMAIN ml -> DOMAIN ml]
      /\ \A i \in DOMAIN ml : \E k \in DOMAIN ml : p[k] = i
  BY DEF Bijection, Injection, Surjection
<1>. HIDE DEF n
<1>5. DOMAIN s = 1 .. n /\ \A k \in 1 .. n : s[k] = ml[p[k]] /\ p[k] \in 1 .. n
  BY <1>1, <1>2, <1>4
<1>6. s \in [1 .. n -> Module]
  BY <1>1, <1>2, <1>4
<1>7. s \in Seq(Module)
  BY <1>1, <1>6
<1>8. InOrder(s)
  BY <1>1, <1>3, <1>5 DEF InOrder
<1>9. \A i \in DOMAIN ml : \E k \in DOMAIN s : s[k] = ml[i]
  BY <1>1, <1>4, <1>5
<1>. QED BY <1>1, <1>5, <1>7, <1>8, <1>9

\* So what is known of a list of modules is known of the sorted list.
LEMMA SortedSame ==
  ASSUME NEW ml \in Seq(Module), NEW s \in SortedByBase(ml), NEW es, NEW os
  PROVE  /\ AreOf(ml, es) => AreOf(s, es)
         /\ HasAll(ml, es) => HasAll(s, es)
         /\ HasOrdinals(ml, os) => HasOrdinals(s, os)
<1>1. /\ \A k \in DOMAIN s : \E i \in DOMAIN ml : s[k] = ml[i]
      /\ \A i \in DOMAIN ml : \E k \in DOMAIN s : s[k] = ml[i]
  BY SortKeeps
<1>2. AreOf(ml, es) => AreOf(s, es)
  BY <1>1, Zenon DEF AreOf
<1>3. HasAll(ml, es) => HasAll(s, es)
  BY <1>1, Zenon DEF HasAll
<1>4. HasOrdinals(ml, os) => HasOrdinals(s, os)
  BY <1>1 DEF HasOrdinals
<1>. QED BY <1>2, <1>3, <1>4

-----------------------------------------------------------------------------
(* Ordinals.                                                               *)

\* allocate_ordinal() keeps the ordinals given before, gives no module two and
\* finds the module's own.
LEMMA OrdinalGrows ==
  ASSUME IsTable(ords), NEW info \in Infos
  PROVE  LET os == WithOrdinal(info)
         IN  /\ IsTable(os)
             /\ \A i \in DOMAIN ords : i \in DOMAIN os /\ os[i] = ords[i]
             /\ Ordinal(info, os) \in DOMAIN os /\ os[Ordinal(info, os)] = info
<1>. DEFINE os == WithOrdinal(info)
<1>1. /\ IsTable(os)
      /\ \A i \in DOMAIN ords : i \in DOMAIN os /\ os[i] = ords[i]
      /\ \E i \in DOMAIN os : os[i] = info
  <2>1. CASE \E i \in DOMAIN ords : ords[i] = info
    <3>1. os = ords
      BY <2>1 DEF WithOrdinal
    <3>. QED BY <2>1, <3>1
  <2>2. CASE ~\E i \in DOMAIN ords : ords[i] = info
    <3>1. os = Append(ords, info)
      BY <2>2 DEF WithOrdinal
    <3>. HIDE DEF os
    <3>. DEFINE n == Len(ords)
    <3>2. ords \in Seq(Infos) /\ n \in Nat /\ DOMAIN ords = 1 .. n
      BY DEF IsTable
    <3>3. /\ os \in Seq(Infos) /\ Len(os) = n + 1 /\ DOMAIN os = 1 .. n + 1
          /\ os[n + 1] = info /\ \A i \in 1 .. n : os[i] = ords[i]
      BY <3>1, <3>2
    <3>. HIDE DEF n
    <3>4. ASSUME NEW i \in DOMAIN os, NEW j \in DOMAIN os, os[i] = os[j] PROVE i = j
      <4>1. i \in 1 .. n \/ i = n + 1
        BY <3>2, <3>3
      <4>2. j \in 1 .. n \/ j = n + 1
        BY <3>2, <3>3
      <4>. QED BY <2>2, <3>2, <3>3, <3>4, <4>1, <4>2 DEF IsTable
    <3>5. n + 1 \in DOMAIN os /\ \A i \in DOMAIN ords : i \in DOMAIN os
      BY <3>2, <3>3
    <3>. QED BY <3>2, <3>3, <3>4, <3>5 DEF IsTable
  <2>. QED BY <2>1, <2>2
<1>2. Ordinal(info, os) \in DOMAIN os /\ os[Ordinal(info, os)] = info
  <2>. HIDE DEF os
  <2>. QED BY <1>1, Zenon DEF Ordinal
<1>. QED BY <1>1, <1>2

\* What is in a table's bitmaps, and has its ordinals there, stays so when the
\* table grows.
LEMMA TableGrows ==
  ASSUME NEW os, NEW os2, \A i \in DOMAIN os : i \in DOMAIN os2 /\ os2[i] = os[i],
         NEW c, NEW ml
  PROVE  /\ InBitmap(c, os) => InBitmap(c, os2)
         /\ HasOrdinals(ml, os) => HasOrdinals(ml, os2)
  BY DEF InBitmap, HasOrdinals

\* The bit that a report sets lies in the bitmap of its module.
LEMMA CreditInBitmap ==
  ASSUME NEW os, NEW ml \in Seq(Module), AreOf(ml, AllEntries), HasOrdinals(ml, os),
         NEW a \in Nat, GetModoff(ml, a) # 0
  PROVE  LET i == GetModoff(ml, a) IN InBitmap(<<ml[i].ord, a - ml[i].base>>, os)
<1>. DEFINE i == GetModoff(ml, a)
<1>1. i \in DOMAIN ml /\ a - ml[i].base \in Nat /\ a - ml[i].base < ml[i].len
  BY ModoffInside
<1>. HIDE DEF i
<1>2. PICK e \in AllEntries : Describes(ml[i], e)
  BY <1>1 DEF AreOf
<1>3. ml[i].ord \in DOMAIN os /\ os[ml[i].ord] = ml[i].info
  BY <1>1 DEF HasOrdinals
<1>4. Entry[e].info = os[ml[i].ord] /\ a - ml[i].base < Entry[e].len
  BY <1>1, <1>2, <1>3 DEF Describes
<1>5. InBitmap(<<ml[i].ord, a - ml[i].base>>, os)
  BY <1>1, <1>3, <1>4 DEF InBitmap
<1>. QED BY <1>5 DEF i

-----------------------------------------------------------------------------
(* The initial states.                                                     *)

\* The links of a list that holds the entries of s.
LEMMA RingOf ==
  ASSUME NEW es, es \subseteq AllEntries, NEW s \in Seq(es),
         \A i, j \in DOMAIN s : s[i] = s[j] => i = j
  PROVE  /\ DOMAIN Ring(s) = AllEntries \cup {Anchor}
         /\ Ring(s)[Anchor] = IF Len(s) = 0 THEN Anchor ELSE s[1]
         /\ \A j \in 1 .. Len(s) : Ring(s)[s[j]] = IF j = Len(s) THEN Anchor ELSE s[j + 1]
         /\ \A e \in es : (\A j \in 1 .. Len(s) : s[j] # e) => Ring(s)[e] = Anchor
<1>. DEFINE n == Len(s)
            at(e) == IF e = Anchor THEN 0
                     ELSE IF \E j \in DOMAIN s : s[j] = e
                          THEN CHOOSE j \in DOMAIN s : s[j] = e ELSE n
<1>1. n \in Nat /\ DOMAIN s = 1 .. n /\ \A j \in 1 .. n : s[j] \in es
  OBVIOUS
<1>2. /\ DOMAIN Ring(s) = AllEntries \cup {Anchor}
      /\ \A e \in AllEntries \cup {Anchor} :
           Ring(s)[e] = IF at(e) < n THEN s[at(e) + 1] ELSE Anchor
  BY Zenon DEF Ring
<1>3. Ring(s)[Anchor] = IF n = 0 THEN Anchor ELSE s[1]
  <2>1. at(Anchor) = 0
    OBVIOUS
  <2>. HIDE DEF at, n
  <2>2. Ring(s)[Anchor] = IF 0 < n THEN s[0 + 1] ELSE Anchor
    BY <1>2, <2>1
  <2>. QED BY <1>1, <2>2
<1>4. ASSUME NEW j \in 1 .. n PROVE Ring(s)[s[j]] = IF j = n THEN Anchor ELSE s[j + 1]
  <2>1. s[j] \in AllEntries /\ s[j] # Anchor
    BY <1>1, AnchorNoEntry
  <2>2. at(s[j]) = j
    BY <1>1, <2>1
  <2>. HIDE DEF at, n
  <2>3. Ring(s)[s[j]] = IF j < n THEN s[j + 1] ELSE Anchor
    BY <1>2, <2>1, <2>2
  <2>. QED BY <1>1, <2>3
<1>5. ASSUME NEW e \in es, \A j \in 1 .. n : s[j] # e PROVE Ring(s)[e] = Anchor
  <2>1. e \in AllEntries /\ e # Anchor
    BY AnchorNoEntry
  <2>2. at(e) = n
    BY <1>1, <1>5, <2>1
  <2>. HIDE DEF at, n
  <2>. QED BY <1>1, <1>2, <2>1, <2>2
<1>. QED BY <1>2, <1>3, <1>4, <1>5

\* It is a ring of just these, closed by the last.
LEMMA RingInitial ==
  ASSUME NEW es, es \subseteq AllEntries, NEW s \in Seq(es),
         \A i, j \in DOMAIN s : s[i] = s[j] => i = j
  PROVE  LET t == IF s = <<>> THEN Anchor ELSE s[Len(s)]
         IN  /\ IsRing(Ring(s), es)
             /\ Reach(Ring(s), es) = {Anchor} \cup {s[j] : j \in DOMAIN s}
             /\ t \in Reach(Ring(s), es) /\ Ring(s)[t] = Anchor
<1>. DEFINE n == Len(s)
            f == Ring(s)
            ran == {s[j] : j \in DOMAIN s}
            t == IF s = <<>> THEN Anchor ELSE s[Len(s)]
<1>1. n \in Nat /\ DOMAIN s = 1 .. n /\ \A j \in 1 .. n : s[j] \in es
  OBVIOUS
<1>2. /\ f[Anchor] = IF n = 0 THEN Anchor ELSE s[1]
      /\ \A j \in 1 .. n : f[s[j]] = IF j = n THEN Anchor ELSE s[j + 1]
      /\ \A e \in es : (\A j \in 1 .. n : s[j] # e) => f[e] = Anchor
  BY RingOf
<1>3. (s = <<>>) <=> (n = 0)
  OBVIOUS
<1>4. Anchor \notin es
  BY AnchorNoEntry
<1>5. ran \subseteq es /\ \A j \in 1 .. n : s[j] \in ran
  BY <1>1
<1>6. \A x \in ran : \E j \in 1 .. n : x = s[j]
  BY <1>1
<1>7. \A i, j \in 1 .. n : s[i] = s[j] => i = j
  BY <1>1
<1>8. t = IF n = 0 THEN Anchor ELSE s[n]
  BY <1>3
<1>. HIDE DEF n, f, ran, t
<1>9. \A x \in {Anchor} \cup ran : f[x] \in {Anchor} \cup ran
  <2>1. f[Anchor] \in {Anchor} \cup ran
    BY <1>1, <1>2, <1>5
  <2>2. ASSUME NEW x \in ran PROVE f[x] \in {Anchor} \cup ran
    <3>1. PICK j \in 1 .. n : x = s[j]
      BY <1>6
    <3>2. j # n => j + 1 \in 1 .. n
      BY <1>1
    <3>. QED BY <1>2, <1>5, <3>1, <3>2
  <2>. QED BY <2>1, <2>2
<1>10. \A x \in es \cup {Anchor} : f[x] \in es \cup {Anchor}
  <2>1. ASSUME NEW x \in es, x \notin ran PROVE f[x] = Anchor
    BY <1>2, <1>5, <2>1
  <2>. QED BY <1>5, <1>9, <2>1
<1>11. Reach(f, es) \subseteq {Anchor} \cup ran
  <2>. DEFINE c == {Anchor} \cup ran
  <2>1. c \in SUBSET (es \cup {Anchor}) /\ Anchor \in c /\ \A x \in c : f[x] \in c
    BY <1>5, <1>9
  <2>. HIDE DEF c
  <2>2. Reach(f, es) \subseteq c
    BY <2>1, ReachLeast
  <2>. QED BY <2>2 DEF c
<1>12. ran \subseteq Reach(f, es)
  <2>. DEFINE T == {j \in Nat : j \in 1 .. n => s[j] \in Reach(f, es)}
  <2>1. Anchor \in Reach(f, es) /\ \A x \in Reach(f, es) : f[x] \in Reach(f, es)
    BY <1>10, ReachClosed
  <2>2. 0 \in T
    OBVIOUS
  <2>3. ASSUME NEW j \in Nat, j \in T PROVE j + 1 \in T
    <3>. SUFFICES ASSUME j + 1 \in 1 .. n PROVE s[j + 1] \in Reach(f, es)
      OBVIOUS
    <3>1. CASE j = 0
      <4>1. f[Anchor] = s[1]
        BY <1>1, <1>2, <3>1
      <4>. QED BY <2>1, <3>1, <4>1
    <3>2. CASE j # 0
      <4>1. j \in 1 .. n /\ j # n
        BY <1>1, <3>2
      <4>2. f[s[j]] = s[j + 1]
        BY <1>2, <4>1
      <4>3. s[j] \in Reach(f, es)
        BY <2>3, <4>1
      <4>. QED BY <2>1, <4>2, <4>3
    <3>. QED BY <3>1, <3>2
  <2>4. \A j \in Nat : j \in T
    <3>. HIDE DEF T
    <3>. QED BY <2>2, <2>3, Induction
  <2>5. ASSUME NEW x \in ran PROVE x \in Reach(f, es)
    <3>1. PICK j \in 1 .. n : x = s[j]
      BY <1>6
    <3>2. j \in Nat
      OBVIOUS
    <3>. QED BY <2>4, <3>1, <3>2
  <2>. QED BY <2>5
<1>13. Reach(f, es) = {Anchor} \cup ran
  BY <1>11, <1>12 DEF Reach
<1>14. ASSUME NEW x \in {Anchor} \cup ran, NEW y \in {Anchor} \cup ran, f[x] = f[y] PROVE x = y
  <2>1. ASSUME NEW i \in 1 .. n, NEW j \in 1 .. n, f[s[i]] = f[s[j]] PROVE i = j
    <3>1. i # n => i + 1 \in 1 .. n /\ s[i + 1] # Anchor
      BY <1>1, <1>4
    <3>2. j # n => j + 1 \in 1 .. n /\ s[j + 1] # Anchor
      BY <1>1, <1>4
    <3>3. i # n /\ j # n => i + 1 = j + 1
      BY <1>2, <1>7, <2>1, <3>1, <3>2
    <3>. QED BY <1>1, <1>2, <2>1, <3>1, <3>2, <3>3
  <2>2. ASSUME NEW i \in 1 .. n, f[s[i]] = f[Anchor] PROVE FALSE
    <3>1. n # 0 /\ 1 \in 1 .. n /\ f[Anchor] = s[1] /\ s[1] # Anchor
      BY <1>1, <1>2, <1>4
    <3>2. i # n /\ s[i + 1] = s[1]
      BY <1>2, <2>2, <3>1
    <3>3. i + 1 \in 1 .. n
      BY <1>1, <3>2
    <3>4. i + 1 = 1
      BY <1>7, <3>1, <3>2, <3>3
    <3>. QED BY <3>4
  <2>3. CASE x \in ran /\ y \in ran
    <3>1. PICK i \in 1 .. n : x = s[i]
      BY <1>6, <2>3
    <3>2. PICK j \in 1 .. n : y = s[j]
      BY <1>6, <2>3
    <3>. QED BY <1>14, <2>1, <3>1, <3>2
  <2>4. CASE x = Anchor /\ y \in ran
    <3>1. PICK j \in 1 .. n : y = s[j]
      BY <1>6, <2>4
    <3>. QED BY <1>14, <2>2, <2>4, <3>1
  <2>5. CASE y = Anchor /\ x \in ran
    <3>1. PICK j \in 1 .. n : x = s[j]
      BY <1>6, <2>5
    <3>. QED BY <1>14, <2>2, <2>5, <3>1
  <2>. QED BY <2>3, <2>4, <2>5
<1>15. IsRing(f, es)
  BY <1>10, <1>13, <1>14 DEF IsRing
<1>16. t \in {Anchor} \cup ran /\ f[t] = Anchor
  <2>1. n # 0 => n \in 1 .. n
    BY <1>1
  <2>. QED BY <1>2, <1>5, <1>8, <2>1
<1>. QED BY <1>13, <1>15, <1>16 DEF t, ran, f

\* The invariant holds at the start.
LEMMA CoverageStart == CoverageInit => CoverageInv
<1>. SUFFICES ASSUME CoverageInit PROVE CoverageInv
  OBVIOUS
<1>1. op = NoOp /\ op.kind = Nil /\ op.list = Kernel
  BY DEF CoverageInit, NoOp
<1>2. ASSUME NEW l \in Lists PROVE ListInv(l)
  <2>. DEFINE s == Initial[l]
              t == IF s = <<>> THEN Anchor ELSE s[Len(s)]
  <2>1. s \in Seq(Entries[l]) /\ Entries[l] \subseteq AllEntries
    BY InitialAssumption, EntriesOf
  <2>2. /\ \A i, j \in DOMAIN s : s[i] = s[j] => i = j
        /\ \A i, j \in DOMAIN s : i # j => Apart(s[i], s[j])
    BY InitialAssumption
  <2>3. flinks[l] = Ring(s) /\ tail[l] = t
    BY DEF CoverageInit
  <2>. HIDE DEF s
  <2>4. /\ IsRing(Ring(s), Entries[l])
        /\ Reach(Ring(s), Entries[l]) = {Anchor} \cup {s[j] : j \in DOMAIN s}
        /\ t \in Reach(Ring(s), Entries[l]) /\ Ring(s)[t] = Anchor
    BY <2>1, <2>2, RingInitial
  <2>5. DOMAIN Ring(s) = AllEntries \cup {Anchor}
    BY DEF Ring
  <2>. HIDE DEF t
  <2>6. Closer(l) = tail[l] /\ ~Torn(l)
    BY <1>1 DEF Closer, Torn, Nil
  <2>7. Nodes(l) = {Anchor} \cup {s[j] : j \in DOMAIN s}
    BY <2>3, <2>4 DEF Nodes
  <2>8. \A d, e \in Linked(l) : d # e => Apart(d, e)
    <3>1. \A d \in Linked(l) : \E j \in DOMAIN s : d = s[j]
      BY <2>7, NodesLinked
    <3>. QED BY <2>2, <3>1
  <2>9. tail[l] \in Nodes(l) /\ flinks[l][tail[l]] = Anchor
    BY <2>3, <2>4 DEF Nodes
  <2>10. tail[l] \in Entries[l] \cup {Anchor}
    BY <2>9 DEF Nodes, Reach
  <2>. QED BY <2>3, <2>4, <2>5, <2>6, <2>8, <2>9, <2>10 DEF ListInv
<1>3. ListsInv
  BY <1>1, <1>2, OpsAssumption DEF ListsInv, CoverageInit, Lists, Nil
<1>4. OrdinalsInv
  BY DEF CoverageInit, OrdinalsInv, IsTable
<1>5. CacheInv
  BY DEF CoverageInit, CacheInv, AreOf, HasOrdinals
<1>6. WalkInv
  BY DEF CoverageInit, WalkInv
<1>7. CreditedRight /\ HangsOnlyIfTorn
  BY DEF CoverageInit, CreditedRight, NoCredit, HangsOnlyIfTorn
<1>. QED BY <1>3, <1>4, <1>5, <1>6, <1>7 DEF CoverageInv

-----------------------------------------------------------------------------
(* The loader's stores.                                                    *)

\* A list that a store leaves alone.
LEMMA ListSame ==
  ASSUME NEW l \in Lists, ListInv(l), flinks'[l] = flinks[l], tail'[l] = tail[l],
         Closer(l)' = Closer(l), Torn(l)' <=> Torn(l)
  PROVE  ListInv(l)'
<1>1. Nodes(l)' = Nodes(l)
  BY DEF Nodes
<1>2. Linked(l)' = Linked(l)
  BY Zenon DEF Linked
<1>. QED BY <1>1, <1>2 DEF ListInv

\* A step of the loader that has kept the lists and touched list l.
LEMMA TouchKeeps ==
  ASSUME CoverageInv, pc = "guest", NEW l \in Lists, Touches(l), ListsInv',
         \A k \in Lists \ {l} : flinks'[k] = flinks[k],
         op'.kind = Nil \/ op'.list = l
  PROVE  CoverageInv'
<1>. USE DEF Touches
<1>1. OrdinalsInv'
  BY DEF CoverageInv, OrdinalsInv
<1>2. CacheInv'
  <2>1. /\ cache \in Seq(Module) /\ AreOf(cache, AllEntries) /\ HasOrdinals(cache, ords)
        /\ source \in Lists \cup {Nil}
        /\ source # Nil => /\ AreOf(cache, Nodes(source))
                           /\ HasAll(cache, Nodes(source))
                           /\ InOrder(cache)
    BY DEF CoverageInv, CacheInv
  <2>2. source' \in Lists \cup {Nil}
    BY <2>1
  <2>3. cache' = cache /\ ords' = ords
    OBVIOUS
  <2>4. ASSUME source' # Nil
        PROVE  /\ op'.kind = Nil \/ op'.list # source'
               /\ AreOf(cache, Nodes(source)')
               /\ HasAll(cache, Nodes(source)')
               /\ InOrder(cache)
    <3>1. source' = source /\ source # l /\ source \in Lists
      BY <2>1, <2>4
    <3>2. Nodes(source)' = Nodes(source)
      BY <3>1 DEF Nodes
    <3>3. op'.kind = Nil \/ op'.list # source'
      BY <3>1
    <3>4. AreOf(cache, Nodes(source)') /\ HasAll(cache, Nodes(source)') /\ InOrder(cache)
      <4>1. source # Nil
        BY <2>4, <3>1
      <4>. QED BY <2>1, <3>2, <4>1, Zenon
    <3>. QED BY <3>3, <3>4
  <2>. QED BY <2>1, <2>2, <2>3, <2>4 DEF CacheInv
<1>3. WalkInv'
  <2>1. UNCHANGED <<pc, kml, full, rip, flink>> /\ pc' # "walk"
    BY DEF walk
  <2>. QED BY <2>1 DEF CoverageInv, WalkInv
<1>4. CreditedRight'
  BY DEF CreditedRight, NoCredit
<1>5. HangsOnlyIfTorn'
  BY DEF HangsOnlyIfTorn
<1>. QED BY <1>1, <1>2, <1>3, <1>4, <1>5 DEF CoverageInv

\* With no change in progress the tail closes each ring.
LEMMA NoChange ==
  ASSUME ListsInv, op = NoOp, NEW l \in Lists
  PROVE  /\ Closer(l) = tail[l] /\ ~Torn(l)
         /\ tail[l] \in Nodes(l) /\ flinks[l][tail[l]] = Anchor
<1>1. Closer(l) = tail[l] /\ ~Torn(l)
  BY DEF Closer, Torn, NoOp, Nil
<1>. QED BY <1>1 DEF ListsInv, ListInv

\* The store that links a new entry behind the old tail keeps the invariant.
LEMMA InsertLinkKeeps ==
  ASSUME CoverageInv, NEW l \in Lists, NEW e \in Entries[l], InsertLink(l, e)
  PROVE  CoverageInv'
<1>. DEFINE f == flinks[l]
            t == tail[l]
            g == [f EXCEPT ![e] = Anchor, ![t] = e]
<1>1. ListsInv /\ ListInv(l) /\ DOMAIN flinks = Lists /\ DOMAIN tail = Lists
  BY DEF CoverageInv, ListsInv
<1>2. /\ pc = "guest" /\ op = NoOp /\ ops < MaxOps /\ ops' = ops + 1
      /\ e \notin Linked(l) /\ \A d \in Linked(l) : Apart(d, e)
      /\ flinks' = [flinks EXCEPT ![l] = g]
      /\ op' = [kind |-> "insert", list |-> l, entry |-> e]
      /\ tail' = tail /\ Touches(l)
  BY DEF InsertLink
<1>3. ctx' = ctx
  BY <1>2 DEF Touches
<1>4. t \in Nodes(l) /\ f[t] = Anchor
  BY <1>1, <1>2, NoChange
<1>5. Entries[l] \subseteq AllEntries /\ Anchor \notin Entries[l]
  BY EntriesOf, ListsAssumption
<1>6. e \notin Nodes(l)
  BY <1>2, <1>5, NodesLinked
<1>7. Nodes(l) \subseteq Entries[l] \cup {Anchor} /\ DOMAIN f = AllEntries \cup {Anchor}
  BY <1>1 DEF Nodes, Reach, ListInv
<1>8. /\ g[e] = Anchor /\ g[t] = e /\ DOMAIN g = AllEntries \cup {Anchor}
      /\ \A x \in Entries[l] \cup {Anchor} : x \notin {e, t} => g[x] = f[x]
  BY <1>4, <1>5, <1>6, <1>7
<1>. HIDE DEF g
<1>9. IsRing(g, Entries[l]) /\ Reach(g, Entries[l]) = Reach(f, Entries[l]) \cup {e}
  <2>1. IsRing(f, Entries[l])
    BY <1>1 DEF ListInv
  <2>. HIDE DEF f, t
  <2>. QED BY <1>4, <1>5, <1>6, <1>8, <2>1, RingInsert DEF Nodes, f
<1>10. flinks'[l] = g /\ \A k \in Lists \ {l} : flinks'[k] = flinks[k]
  BY <1>1, <1>2
<1>11. Nodes(l)' = Nodes(l) \cup {e}
  BY <1>9, <1>10 DEF Nodes
<1>12. ListInv(l)'
  <2>1. Linked(l)' \subseteq Linked(l) \cup {e}
    <3>1. Nodes(l) = {Anchor} \cup Linked(l) /\ Anchor \notin Linked(l)
      BY NodesLinked
    <3>2. Nodes(l)' = {Anchor} \cup Linked(l)' /\ Anchor \notin Linked(l)'
      BY NodesLinked, <1>5, Zenon DEF Nodes, Reach, Linked
    <3>. QED BY <1>11, <3>1, <3>2
  <2>2. ASSUME NEW c \in Linked(l)', NEW d \in Linked(l)', c # d PROVE Apart(c, d)
    <3>1. \A x, y \in Linked(l) : x # y => Apart(x, y)
      BY <1>1 DEF ListInv
    <3>2. \A x \in Linked(l) : Apart(x, e) /\ Apart(e, x)
      BY <1>2 DEF Apart
    <3>. QED BY <2>1, <2>2, <3>1, <3>2
  <2>3. Closer(l)' = e /\ ~Torn(l)'
    BY <1>2 DEF Closer, Torn
  <2>4. tail'[l] \in Entries[l] \cup {Anchor} /\ tail'[l] \in Nodes(l)'
    BY <1>2, <1>4, <1>7, <1>11
  <2>. QED BY <1>8, <1>9, <1>10, <1>11, <2>2, <2>3, <2>4 DEF ListInv
<1>13. ASSUME NEW k \in Lists, k # l PROVE ListInv(k)'
  <2>1. ListInv(k)
    BY <1>1 DEF ListsInv
  <2>2. Closer(k)' = Closer(k) /\ (Torn(k)' <=> Torn(k))
    BY <1>2, <1>13 DEF Closer, Torn, NoOp, Nil
  <2>. QED BY <1>2, <1>10, <1>13, <2>1, <2>2, ListSame
<1>14. ListsInv'
  <2>1. ops' \in 0 .. MaxOps
    BY <1>1, <1>2, OpsAssumption DEF ListsInv
  <2>2. /\ op'.kind \in {Nil, "insert", "remove", "remove_tail"} /\ op'.list \in Lists
        /\ op'.kind # Nil
    BY <1>2 DEF Nil
  <2>3. DOMAIN flinks' = Lists /\ DOMAIN tail' = Lists /\ ctx' \in Lists
    BY <1>1, <1>2, <1>3 DEF ListsInv
  <2>. QED BY <1>12, <1>13, <2>1, <2>2, <2>3 DEF ListsInv
<1>. QED BY <1>2, <1>10, <1>14, TouchKeeps

\* So does the store that unlinks an entry.
LEMMA RemoveLinkKeeps ==
  ASSUME CoverageInv, NEW l \in Lists, NEW e \in Entries[l], RemoveLink(l, e)
  PROVE  CoverageInv'
<1>. DEFINE f == flinks[l]
            t == tail[l]
            d == Before(l, e)
            g == [f EXCEPT ![d] = f[e]]
<1>1. ListsInv /\ ListInv(l) /\ DOMAIN flinks = Lists /\ DOMAIN tail = Lists
  BY DEF CoverageInv, ListsInv
<1>2. /\ pc = "guest" /\ op = NoOp /\ ops < MaxOps /\ ops' = ops + 1
      /\ e \in Linked(l)
      /\ flinks' = [flinks EXCEPT ![l] = g]
      /\ op' = [kind |-> IF e = t THEN "remove_tail" ELSE "remove", list |-> l, entry |-> d]
      /\ tail' = tail /\ Touches(l)
  BY <1>1 DEF RemoveLink
<1>3. ctx' = ctx
  BY <1>2 DEF Touches
<1>4. t \in Nodes(l) /\ f[t] = Anchor
  BY <1>1, <1>2, NoChange
<1>5. Entries[l] \subseteq AllEntries /\ Anchor \notin Entries[l]
  BY EntriesOf, ListsAssumption
<1>6. IsRing(f, Entries[l])
  BY <1>1 DEF ListInv
<1>7. Nodes(l) = {Anchor} \cup Linked(l) /\ Anchor \notin Linked(l)
  BY NodesLinked
<1>8. Nodes(l) \subseteq Entries[l] \cup {Anchor} /\ DOMAIN f = AllEntries \cup {Anchor}
  BY <1>1 DEF Nodes, Reach, ListInv
<1>9. d \in Nodes(l) /\ d # e /\ f[d] = e
  <2>1. \E x \in Reach(f, Entries[l]) : x # e /\ f[x] = e
    <3>1. e \in Reach(f, Entries[l]) /\ e # Anchor
      BY <1>2, <1>7 DEF Nodes
    <3>. HIDE DEF f
    <3>. QED BY <1>6, <3>1, ReachPrevious
  <2>2. PICK x \in Nodes(l) : x # e /\ f[x] = e
    BY <2>1 DEF Nodes
  <2>3. d \in Linked(l) \cup {Anchor} /\ f[d] = e
    <3>1. d = CHOOSE y \in Linked(l) \cup {Anchor} : f[y] = e
      BY DEF Before
    <3>. HIDE DEF d, f
    <3>. QED BY <1>7, <2>2, <3>1
  <2>4. d = x
    BY <1>6, <1>7, <2>2, <2>3 DEF IsRing, Nodes
  <2>. QED BY <2>2, <2>4
<1>. HIDE DEF d
<1>10. /\ g[d] = f[e] /\ DOMAIN g = AllEntries \cup {Anchor}
       /\ \A x \in Entries[l] \cup {Anchor} : x # d => g[x] = f[x]
  BY <1>5, <1>8, <1>9
<1>. HIDE DEF g
<1>11. IsRing(g, Entries[l]) /\ Reach(g, Entries[l]) = Reach(f, Entries[l]) \ {e}
  <2>1. e \in Reach(f, Entries[l]) /\ e # Anchor /\ d \in Reach(f, Entries[l])
    BY <1>2, <1>7, <1>9 DEF Nodes
  <2>. HIDE DEF f, t
  <2>. QED BY <1>5, <1>6, <1>9, <1>10, <2>1, RingRemove
<1>12. flinks'[l] = g /\ \A k \in Lists \ {l} : flinks'[k] = flinks[k]
  BY <1>1, <1>2
<1>13. Nodes(l)' = Nodes(l) \ {e}
  BY <1>11, <1>12 DEF Nodes
<1>14. ListInv(l)'
  <2>1. Linked(l)' \subseteq Linked(l)
    <3>1. Nodes(l)' = {Anchor} \cup Linked(l)' /\ Anchor \notin Linked(l)'
      BY <1>5, Zenon DEF Nodes, Reach, Linked
    <3>. QED BY <1>7, <1>13, <3>1
  <2>2. \A x, y \in Linked(l)' : x # y => Apart(x, y)
    BY <1>1, <2>1 DEF ListInv
  <2>3. Closer(l)' \in Nodes(l)' /\ flinks'[l][Closer(l)'] = Anchor
    <3>1. CASE e = t
      <4>1. Closer(l)' = d
        BY <1>2, <3>1 DEF Closer
      <4>. QED BY <1>4, <1>9, <1>10, <1>12, <1>13, <3>1, <4>1
    <3>2. CASE e # t
      <4>1. Closer(l)' = t
        BY <1>2, <3>2 DEF Closer
      <4>2. e # Anchor
        BY <1>2, <1>7
      <4>3. t # d
        BY <1>4, <1>9, <4>2
      <4>4. g[t] = f[t]
        BY <1>4, <1>8, <1>10, <4>3
      <4>. QED BY <1>4, <1>12, <1>13, <3>2, <4>1, <4>4
    <3>. QED BY <3>1, <3>2
  <2>4. tail'[l] \in Entries[l] \cup {Anchor} /\ (~Torn(l)' => tail'[l] \in Nodes(l)')
    BY <1>2, <1>4, <1>8, <1>13 DEF Torn
  <2>. QED BY <1>10, <1>11, <1>12, <1>13, <2>2, <2>3, <2>4 DEF ListInv
<1>15. ASSUME NEW k \in Lists, k # l PROVE ListInv(k)'
  <2>1. ListInv(k)
    BY <1>1 DEF ListsInv
  <2>2. Closer(k)' = Closer(k) /\ (Torn(k)' <=> Torn(k))
    BY <1>2, <1>15 DEF Closer, Torn, NoOp, Nil
  <2>. QED BY <1>2, <1>12, <1>15, <2>1, <2>2, ListSame
<1>16. ListsInv'
  <2>1. ops' \in 0 .. MaxOps
    BY <1>1, <1>2, OpsAssumption DEF ListsInv
  <2>2. /\ op'.kind \in {Nil, "insert", "remove", "remove_tail"} /\ op'.list \in Lists
        /\ op'.kind # Nil
    BY <1>2 DEF Nil
  <2>3. DOMAIN flinks' = Lists /\ DOMAIN tail' = Lists /\ ctx' \in Lists
    BY <1>1, <1>2, <1>3 DEF ListsInv
  <2>. QED BY <1>14, <1>15, <2>1, <2>2, <2>3 DEF ListsInv
<1>17. op'.list = l
  BY <1>2
<1>. QED BY <1>2, <1>12, <1>16, <1>17, TouchKeeps

\* The last store of a change makes the node that closes the ring the tail.
LEMMA LastStoreKeeps ==
  ASSUME CoverageInv, InsertEnd \/ RemoveEnd
  PROVE  CoverageInv'
<1>1. PICK l \in Lists : l = op.list
  BY DEF CoverageInv, ListsInv
<1>2. ListsInv /\ ListInv(l) /\ DOMAIN flinks = Lists /\ DOMAIN tail = Lists
  BY DEF CoverageInv, ListsInv
<1>3. /\ pc = "guest" /\ op' = NoOp /\ flinks' = flinks /\ ops' = ops /\ Touches(l)
      /\ tail'[l] = Closer(l) /\ DOMAIN tail' = Lists
      /\ \A k \in Lists \ {l} : tail'[k] = tail[k]
  <2>1. CASE InsertEnd
    BY <1>1, <1>2, <2>1 DEF InsertEnd, Closer
  <2>2. CASE RemoveEnd
    BY <1>1, <1>2, <2>2 DEF RemoveEnd, Closer
  <2>. QED BY <2>1, <2>2
<1>4. ctx' = ctx
  BY <1>3 DEF Touches
<1>5. ASSUME NEW k \in Lists PROVE Closer(k)' = tail'[k] /\ ~Torn(k)'
  BY <1>3 DEF Closer, Torn, NoOp, Nil
<1>6. ASSUME NEW k \in Lists PROVE Nodes(k)' = Nodes(k) /\ Linked(k)' = Linked(k)
  <2>1. Nodes(k)' = Nodes(k)
    BY <1>3 DEF Nodes
  <2>2. Linked(k)' = Linked(k)
    BY <1>3, Zenon DEF Linked
  <2>. QED BY <2>1, <2>2
<1>7. ListInv(l)'
  <2>1. Nodes(l) \subseteq Entries[l] \cup {Anchor}
    BY DEF Nodes, Reach
  <2>2. Closer(l) \in Nodes(l) /\ flinks[l][Closer(l)] = Anchor
    BY <1>2 DEF ListInv
  <2>3. tail'[l] \in Entries[l] \cup {Anchor}
    BY <1>3, <2>1, <2>2
  <2>. QED BY <1>2, <1>3, <1>5, <1>6, <2>2, <2>3 DEF ListInv
<1>8. ASSUME NEW k \in Lists, k # l PROVE ListInv(k)'
  <2>1. ListInv(k)
    BY <1>2 DEF ListsInv
  <2>2. Closer(k) = tail[k] /\ ~Torn(k)
    BY <1>1, <1>8 DEF Closer, Torn
  <2>. QED BY <1>3, <1>5, <1>8, <2>1, <2>2, ListSame
<1>9. ListsInv'
  BY <1>2, <1>3, <1>4, <1>7, <1>8 DEF ListsInv, NoOp, Nil, Lists
<1>10. op'.kind = Nil
  BY <1>3 DEF NoOp
<1>. QED BY <1>3, <1>9, <1>10, TouchKeeps

-----------------------------------------------------------------------------
(* Reports.                                                                *)

\* While the loader does nothing the lists are what they were.
LEMMA ListsSame ==
  ASSUME ListsInv, UNCHANGED guest, ctx' \in Lists
  PROVE  /\ ListsInv'
         /\ \A l \in Lists : /\ Nodes(l)' = Nodes(l)
                             /\ Linked(l)' = Linked(l)
                             /\ Torn(l)' <=> Torn(l)
<1>. USE DEF guest
<1>1. ASSUME NEW l \in Lists
      PROVE  /\ Nodes(l)' = Nodes(l)
             /\ Linked(l)' = Linked(l)
             /\ Torn(l)' <=> Torn(l)
             /\ ListInv(l)'
  <2>1. Nodes(l)' = Nodes(l)
    BY DEF Nodes
  <2>2. Linked(l)' = Linked(l)
    BY Zenon DEF Linked
  <2>3. Torn(l)' <=> Torn(l)
    BY DEF Torn
  <2>4. Closer(l)' = Closer(l)
    BY DEF Closer
  <2>5. ListInv(l)'
    BY <2>3, <2>4, ListSame DEF ListsInv
  <2>. QED BY <2>1, <2>2, <2>3, <2>5
<1>2. ListsInv'
  BY <1>1 DEF ListsInv
<1>. QED BY <1>1, <1>2

\* So are the cache and what it is a copy of, if the cache is.
LEMMA CacheSame ==
  ASSUME ListsInv, CacheInv, UNCHANGED <<guest, cache, source>>, ctx' \in Lists,
         \A i \in DOMAIN ords : i \in DOMAIN ords' /\ ords'[i] = ords[i]
  PROVE  CacheInv'
<1>1. \A l \in Lists : Nodes(l)' = Nodes(l)
  BY ListsSame
<1>2. HasOrdinals(cache, ords')
  BY TableGrows DEF CacheInv
<1>3. /\ cache \in Seq(Module) /\ AreOf(cache, AllEntries)
      /\ source \in Lists \cup {Nil}
      /\ source # Nil => /\ op.kind = Nil \/ op.list # source
                         /\ AreOf(cache, Nodes(source))
                         /\ HasAll(cache, Nodes(source))
                         /\ InOrder(cache)
  BY DEF CacheInv
<1>4. op' = op /\ cache' = cache /\ source' = source
  BY DEF guest
<1>5. source # Nil => Nodes(source)' = Nodes(source)
  <2>1. source \in Lists \/ source = Nil
    BY <1>3
  <2>2. ASSUME source \in Lists PROVE Nodes(source)' = Nodes(source)
    BY <1>4, <2>2 DEF guest, Nodes
  <2>. QED BY <2>1, <2>2
<1>6. source # Nil => AreOf(cache, Nodes(source)') /\ HasAll(cache, Nodes(source)')
  BY <1>3, <1>5, Zenon
<1>. QED BY <1>2, <1>3, <1>4, <1>6 DEF CacheInv

\* A report credited by a copy of the current list is right.
LEMMA CreditRight ==
  ASSUME ListsInv, UNCHANGED <<guest, ctx>>, NEW ml \in Seq(Module), NEW a \in Nat,
         Credit(ml, a), AreOf(ml, Nodes(ctx)), HasAll(ml, Nodes(ctx)), InOrder(ml)
  PROVE  CreditedRight'
<1>. DEFINE i == GetModoff(ml, a)
<1>1. PICK l \in Lists : l = ctx
  BY DEF ListsInv
<1>2. \A d, e \in Linked(l) : d # e => Apart(d, e)
  BY DEF ListsInv, ListInv
<1>3. IF i = 0 THEN ModulesAt(l, a) = {}
      ELSE \E e \in ModulesAt(l, a) :
             Entry[e].info = ml[i].info /\ Entry[e].base + (a - ml[i].base) = a
  BY <1>1, <1>2, ModoffRight
<1>4. ModulesAt(l, a)' = ModulesAt(l, a)
  <2>1. Linked(l)' = Linked(l)
    BY <1>1, ListsSame
  <2>. QED BY <2>1 DEF ModulesAt
<1>5. last' = IF i = 0 THEN [NoCredit EXCEPT !.rip = a]
              ELSE [rip |-> a, info |-> ml[i].info, off |-> a - ml[i].base]
  BY DEF Credit
<1>. HIDE DEF i
<1>6. CASE i = 0
  <2>1. last'.rip = a /\ last'.info = Nil
    BY <1>5, <1>6 DEF NoCredit
  <2>. QED BY <1>1, <1>3, <1>4, <1>6, <2>1 DEF CreditedRight
<1>7. CASE i # 0
  <2>1. last'.rip = a /\ last'.info = ml[i].info /\ last'.off = a - ml[i].base
    BY <1>5, <1>7
  <2>2. PICK e \in ModulesAt(l, a) : Entry[e].info = ml[i].info /\ Entry[e].base + (a - ml[i].base) = a
    BY <1>3, <1>7
  <2>3. ml[i].info # Nil
    <3>1. e \in AllEntries
      BY EntriesOf DEF ModulesAt, Linked
    <3>. QED BY <2>2, <3>1, ListsAssumption
  <2>4. e \in ModulesAt(l, a)'
    BY <1>4
  <2>. QED BY <1>1, <2>1, <2>2, <2>3, <2>4 DEF CreditedRight
<1>. QED BY <1>6, <1>7

\* A report leaves every bit in its bitmap.
LEMMA CreditBits ==
  ASSUME IsTable(ords'), \A c \in cov : InBitmap(c, ords'), NEW ml \in Seq(Module),
         NEW a \in Nat, Credit(ml, a), AreOf(ml, AllEntries), HasOrdinals(ml, ords')
  PROVE  OrdinalsInv'
<1>. DEFINE i == GetModoff(ml, a)
<1>1. cov' = IF i = 0 THEN cov ELSE cov \cup {<<ml[i].ord, a - ml[i].base>>}
  BY DEF Credit
<1>2. i # 0 => InBitmap(<<ml[i].ord, a - ml[i].base>>, ords')
  BY CreditInBitmap
<1>. HIDE DEF i
<1>3. \A c \in cov' : InBitmap(c, ords')
  BY <1>1, <1>2
<1>. QED BY <1>3 DEF OrdinalsInv

\* A switch of context.
LEMMA SwitchKeeps ==
  ASSUME CoverageInv, NEW c \in Lists, Switch(c)
  PROVE  CoverageInv'
<1>. USE DEF Switch
<1>1. ListsInv /\ ctx' \in Lists /\ UNCHANGED <<guest, cache, source, ords>>
  BY DEF CoverageInv
<1>2. ListsInv'
  BY <1>1, ListsSame
<1>3. CacheInv'
  BY <1>1, CacheSame DEF CoverageInv
<1>4. OrdinalsInv'
  BY DEF CoverageInv, OrdinalsInv
<1>5. WalkInv'
  <2>1. UNCHANGED <<pc, kml, full, rip, flink>> /\ pc' # "walk"
    BY DEF walk
  <2>. QED BY <2>1 DEF CoverageInv, WalkInv
<1>6. CreditedRight' /\ HangsOnlyIfTorn'
  BY DEF CreditedRight, NoCredit, HangsOnlyIfTorn
<1>. QED BY <1>2, <1>3, <1>4, <1>5, <1>6 DEF CoverageInv

\* The search for the kernel's list.
LEMMA FindKernelKeeps ==
  ASSUME CoverageInv, FindKernelModlist
  PROVE  CoverageInv'
<1>. USE DEF FindKernelModlist
<1>1. ListsInv /\ ctx \in Lists /\ UNCHANGED <<guest, ctx, cache, source, ords>>
  BY DEF CoverageInv, ListsInv
<1>2. ListsInv'
  BY <1>1, ListsSame
<1>3. CacheInv'
  BY <1>1, CacheSame DEF CoverageInv
<1>4. OrdinalsInv'
  BY DEF CoverageInv, OrdinalsInv
<1>5. WalkInv'
  <2>1. UNCHANGED <<pc, full, rip, flink>> /\ kml' \in BOOLEAN /\ pc' # "walk"
    BY DEF walk
  <2>. QED BY <2>1 DEF CoverageInv, WalkInv
<1>6. CreditedRight'
  <2>1. \A l \in Lists : Linked(l)' = Linked(l)
    BY <1>1, ListsSame
  <2>2. Linked(ctx)' = Linked(ctx) /\ UNCHANGED <<last, source, ctx>>
    BY <1>1, <2>1 DEF guest, Linked
  <2>. QED BY <2>2 DEF CoverageInv, CreditedRight, ModulesAt
<1>7. HangsOnlyIfTorn'
  BY DEF HangsOnlyIfTorn
<1>. QED BY <1>2, <1>3, <1>4, <1>5, <1>6, <1>7 DEF CoverageInv

\* A report that the cache credits.
LEMMA ReportCachedKeeps ==
  ASSUME CoverageInv, NEW a \in Code[ctx], ReportCached(a)
  PROVE  CoverageInv'
<1>. USE DEF ReportCached
<1>1. ListsInv /\ ctx \in Lists /\ UNCHANGED <<guest, ctx, cache, source, ords>>
  BY DEF CoverageInv, ListsInv
<1>2. ListsInv'
  BY <1>1, ListsSame
<1>3. CacheInv'
  BY <1>1, CacheSame DEF CoverageInv
<1>4. a \in Nat
  BY <1>1, ListsAssumption
<1>5. OrdinalsInv'
  BY <1>4, CreditBits DEF CoverageInv, CacheInv, OrdinalsInv
<1>6. WalkInv'
  <2>1. UNCHANGED <<pc, kml, full, rip, flink>> /\ pc' # "walk"
    BY DEF walk
  <2>. QED BY <2>1 DEF CoverageInv, WalkInv
<1>7. CreditedRight'
  <2>1. CASE source = ctx
    <3>1. source # Nil
      BY <1>1, <2>1, ListsAssumption
    <3>2. AreOf(cache, Nodes(ctx)) /\ HasAll(cache, Nodes(ctx)) /\ InOrder(cache) /\ cache \in Seq(Module)
      BY <2>1, <3>1 DEF CoverageInv, CacheInv
    <3>. QED BY <1>1, <1>4, <3>2, CreditRight
  <2>2. CASE source # ctx
    BY <1>1, <2>2 DEF CreditedRight
  <2>. QED BY <2>1, <2>2
<1>8. HangsOnlyIfTorn'
  BY DEF HangsOnlyIfTorn
<1>. QED BY <1>2, <1>3, <1>5, <1>6, <1>7, <1>8 DEF CoverageInv

\* A report that is dropped.
LEMMA ReportDroppedKeeps ==
  ASSUME CoverageInv, NEW a \in Code[ctx], ReportDropped(a)
  PROVE  CoverageInv'
<1>. USE DEF ReportDropped
<1>1. ListsInv /\ ctx' \in Lists /\ UNCHANGED <<guest, cache, source, ords>>
  BY DEF CoverageInv, ListsInv
<1>2. ListsInv'
  BY <1>1, ListsSame
<1>3. CacheInv'
  BY <1>1, CacheSame DEF CoverageInv
<1>4. OrdinalsInv'
  BY DEF CoverageInv, OrdinalsInv
<1>5. WalkInv'
  <2>1. UNCHANGED <<pc, kml, full, rip, flink>> /\ pc' # "walk"
    BY DEF walk
  <2>. QED BY <2>1 DEF CoverageInv, WalkInv
<1>6. CreditedRight' /\ HangsOnlyIfTorn'
  BY DEF CreditedRight, NoCredit, HangsOnlyIfTorn
<1>. QED BY <1>2, <1>3, <1>4, <1>5, <1>6 DEF CoverageInv

\* The beginning of a walk.
LEMMA ReportWalkKeeps ==
  ASSUME CoverageInv, NEW a \in Code[ctx], ReportWalk(a)
  PROVE  CoverageInv'
<1>. USE DEF ReportWalk
<1>1. ListsInv /\ ctx' \in Lists /\ ctx' = ctx /\ UNCHANGED <<guest, cache, source, ords>>
  BY DEF CoverageInv, ListsInv
<1>2. ListsInv'
  BY <1>1, ListsSame
<1>3. CacheInv'
  BY <1>1, CacheSame DEF CoverageInv
<1>4. OrdinalsInv'
  BY DEF CoverageInv, OrdinalsInv
<1>5. WalkInv'
  <2>1. PICK l \in Lists : l = ctx
    BY <1>1
  <2>2. a \in Nat
    BY <2>1, ListsAssumption
  <2>3. IsRing(flinks[l], Entries[l])
    BY <1>1 DEF ListsInv, ListInv
  <2>4. /\ Anchor \in Nodes(l) /\ Nodes(l) \subseteq Entries[l] \cup {Anchor}
        /\ flinks[l][Anchor] \in Nodes(l)
    BY <2>3, ReachClosed DEF IsRing, Nodes
  <2>5. Nodes(l)' = Nodes(l)
    BY <1>1, ListsSame
  <2>6. PathInv'
    BY <1>1, <2>1, <2>4, <2>5 DEF PathInv, guest
  <2>7. flink' \in Entries[l] \cup {Anchor} /\ flink' \in AllEntries \cup {Anchor}
    BY <2>1, <2>4, EntriesOf
  <2>8. last'.rip = 0 /\ ret' = <<>> /\ seen' = {} /\ kml' \in BOOLEAN
    BY DEF NoCredit, CoverageInv, WalkInv
  <2>9. AreOf(ret', seen') /\ HasAll(ret', seen') /\ HasOrdinals(ret', ords')
    BY <2>8 DEF AreOf, HasAll, HasOrdinals
  <2>10. ret' \in Seq(Module)
    BY <2>8
  <2>. QED BY <1>1, <2>1, <2>2, <2>6, <2>7, <2>8, <2>9, <2>10 DEF WalkInv
<1>6. CreditedRight' /\ HangsOnlyIfTorn'
  BY DEF CreditedRight, NoCredit, HangsOnlyIfTorn
<1>. QED BY <1>2, <1>3, <1>4, <1>5, <1>6 DEF CoverageInv

-----------------------------------------------------------------------------
(* The walk.                                                               *)

\* Behind an entry the walk goes on, or ends and caches what it has found, ml.
LEMMA AdvanceKeeps ==
  ASSUME CoverageInv, pc = "walk", flink \notin seen, full' \in BOOLEAN,
         NEW ml \in Seq(Module), Advance(ml),
         AreOf(ml, seen \cup {flink}), full' => HasAll(ml, seen \cup {flink}),
         IsTable(ords'), HasOrdinals(ml, ords'),
         \A i \in DOMAIN ords : i \in DOMAIN ords' /\ ords'[i] = ords[i]
  PROVE  CoverageInv'
<1>1. PICK l \in Lists : l = ctx
  BY DEF CoverageInv, ListsInv
<1>. DEFINE f == flinks[l]
<1>2. ListsInv /\ UNCHANGED <<guest, ctx, kml>> /\ ctx' \in Lists /\ ctx' = l
  BY <1>1 DEF CoverageInv, Advance
<1>3. ListsInv' /\ Nodes(l)' = Nodes(l) /\ (Torn(l)' <=> Torn(l))
  BY <1>2, ListsSame
<1>4. /\ flink \in Entries[l] \cup {Anchor} /\ seen \subseteq Entries[l] \cup {Anchor}
      /\ last.rip = 0 /\ rip \in Nat /\ kml \in BOOLEAN
      /\ ~Torn(l) => PathInv
  BY <1>1 DEF CoverageInv, WalkInv
<1>5. ListInv(l)
  BY <1>2 DEF ListsInv
<1>6. IsRing(f, Entries[l]) /\ (~Torn(l) => tail[l] \in Nodes(l))
  BY <1>5 DEF ListInv
<1>7. \A c \in cov : InBitmap(c, ords')
  BY TableGrows DEF CoverageInv, OrdinalsInv
<1>8. Entries[l] \subseteq AllEntries /\ Anchor \notin Entries[l]
  BY EntriesOf, ListsAssumption
<1>9. CASE ~Ends
  <2>1. /\ flink # tail[l] /\ flink' = f[flink] /\ ret' = ml /\ seen' = seen \cup {flink}
        /\ UNCHANGED <<pc, cache, source, cov, rip, last>>
    BY <1>1, <1>9 DEF Advance, Ends
  <2>2. CacheInv'
    BY <1>2, <2>1, CacheSame DEF CoverageInv
  <2>3. OrdinalsInv'
    BY <1>7, <2>1 DEF OrdinalsInv
  <2>4. flink' \in Entries[l] \cup {Anchor} /\ seen' \subseteq Entries[l] \cup {Anchor}
    BY <1>4, <1>6, <2>1 DEF IsRing
  <2>5. ASSUME ~Torn(l) PROVE PathInv'
    <3>1. /\ seen \cup {flink} \subseteq Nodes(l)
          /\ tail[l] \notin seen
          /\ f[Anchor] \in seen \cup {flink}
          /\ \A x \in seen : f[x] \in seen \cup {flink}
          /\ \A y \in seen \cup {flink} : \E x \in seen \cup {Anchor} : f[x] = y
      BY <1>1, <1>4, <2>5 DEF PathInv
    <3>. HIDE DEF f
    <3>2. f[flink] \notin seen \cup {flink}
      BY <1>6, <2>1, <2>5, <3>1, PathAdvances DEF Nodes, f
    <3>3. f[flink] \in Nodes(l)
      BY <1>6, <3>1, ReachClosed DEF IsRing, Nodes, f
    <3>4. /\ seen' \cup {flink'} \subseteq Nodes(l)
          /\ flink' \notin seen'
          /\ tail[l] \notin seen'
          /\ f[Anchor] \in seen' \cup {flink'}
          /\ \A x \in seen' : f[x] \in seen' \cup {flink'}
      BY <2>1, <3>1, <3>2, <3>3
    <3>5. \A y \in seen' \cup {flink'} : \E x \in seen' \cup {Anchor} : f[x] = y
      BY <2>1, <3>1
    <3>6. flinks'[ctx'] = f /\ tail'[ctx'] = tail[l] /\ Nodes(ctx)' = Nodes(l)
      BY <1>1, <1>2, <1>3 DEF f, guest, Nodes
    <3>. QED BY <3>4, <3>5, <3>6 DEF PathInv
  <2>6. WalkInv'
    <3>1. flink' \in AllEntries \cup {Anchor}
      BY <1>8, <2>4
    <3>2. pc' = "walk" /\ rip' \in Nat /\ kml' \in BOOLEAN /\ last'.rip = 0
      BY <1>2, <1>4, <2>1
    <3>3. AreOf(ret', seen') /\ (full' => HasAll(ret', seen')) /\ ret' \in Seq(Module)
      BY <2>1
    <3>4. ~Torn(ctx)' => PathInv'
      <4>1. Torn(ctx)' <=> Torn(l)'
        BY <1>2 DEF Torn
      <4>. QED BY <1>3, <2>5, <4>1
    <3>5. HasOrdinals(ret', ords')
      BY <2>1
    <3>. QED BY <1>2, <2>4, <3>1, <3>2, <3>3, <3>4, <3>5 DEF WalkInv
  <2>7. CreditedRight' /\ HangsOnlyIfTorn'
    BY <1>4, <2>1 DEF CreditedRight, HangsOnlyIfTorn
  <2>. QED BY <1>3, <2>2, <2>3, <2>6, <2>7 DEF CoverageInv
<1>10. CASE Ends
  <2>1. Finish(ml) /\ Idle /\ rip' = 0 /\ flink = tail[l]
    BY <1>1, <1>10 DEF Advance, Ends
  <2>2. PICK s \in SortedByBase(ml) :
          /\ pc' = "guest"
          /\ cache' = s
          /\ source' = IF full' /\ (op = NoOp \/ op.list # ctx) THEN ctx ELSE Nil
          /\ Credit(s, rip)
    BY <2>1 DEF Finish
  <2>3. s \in Seq(Module) /\ InOrder(s)
    BY SortKeeps
  <2>4. AreOf(s, seen \cup {flink}) /\ HasOrdinals(s, ords')
    BY SortedSame
  <2>5. AreOf(s, AllEntries)
    BY <1>4, <1>8, <2>4 DEF AreOf, Usable
  <2>6. ASSUME source' # Nil
        PROVE  /\ source' = l
               /\ op.kind = Nil \/ op.list # l
               /\ AreOf(s, Nodes(l)) /\ HasAll(s, Nodes(l))
    <3>1. source' = l /\ full' /\ (op = NoOp \/ op.list # l)
      BY <1>1, <2>2, <2>6
    <3>2. op.kind = Nil \/ op.list # l
      BY <3>1 DEF NoOp
    <3>3. Closer(l) = tail[l] /\ ~Torn(l)
      BY <3>2 DEF Closer, Torn, Nil
    <3>4. f[flink] = Anchor
      BY <1>5, <2>1, <3>3 DEF ListInv
    <3>5. /\ seen \cup {flink} \subseteq Nodes(l)
          /\ f[Anchor] \in seen \cup {flink}
          /\ \A x \in seen : f[x] \in seen \cup {flink}
      BY <1>1, <1>4, <3>3 DEF PathInv
    <3>6. Nodes(l) \subseteq seen \cup {flink, Anchor}
      <4>. HIDE DEF f
      <4>. QED BY <1>6, <3>4, <3>5, PathComplete DEF Nodes, f
    <3>7. HasAll(s, seen \cup {flink})
      BY <3>1, SortedSame
    <3>8. AreOf(s, Nodes(l))
      BY <2>4, <3>5 DEF AreOf
    <3>9. HasAll(s, Nodes(l))
      BY <3>6, <3>7 DEF HasAll, Usable
    <3>. QED BY <3>1, <3>2, <3>8, <3>9
  <2>7. source' \in Lists \cup {Nil}
    BY <1>1, <2>2
  <2>8. CacheInv'
    <3>1. op' = op
      BY <1>2 DEF guest
    <3>2. ASSUME source' # Nil
          PROVE  /\ op'.kind = Nil \/ op'.list # source'
                 /\ AreOf(cache', Nodes(source)')
                 /\ HasAll(cache', Nodes(source)')
                 /\ InOrder(cache')
      <4>1. Nodes(source)' = Nodes(l)
        BY <1>3, <2>6, <3>2 DEF Nodes
      <4>2. AreOf(cache', Nodes(source)') /\ HasAll(cache', Nodes(source)')
        BY <2>2, <2>6, <3>2, <4>1
      <4>3. op'.kind = Nil \/ op'.list # source'
        BY <2>6, <3>1, <3>2
      <4>. QED BY <2>2, <2>3, <4>2, <4>3
    <3>3. cache' \in Seq(Module) /\ AreOf(cache', AllEntries) /\ HasOrdinals(cache', ords')
      BY <2>2, <2>3, <2>4, <2>5
    <3>. QED BY <2>7, <3>2, <3>3 DEF CacheInv
  <2>9. OrdinalsInv'
    BY <1>4, <1>7, <2>2, <2>3, <2>4, <2>5, CreditBits
  <2>10. WalkInv'
    <3>1. flink' = Anchor /\ pc' = "guest" /\ kml' \in BOOLEAN /\ rip' \in Nat
      BY <1>2, <1>4, <2>1, <2>2 DEF Idle
    <3>. QED BY <3>1 DEF WalkInv
  <2>11. CreditedRight'
    <3>1. CASE source' = Nil
      BY <1>2, <3>1, ListsAssumption DEF CreditedRight
    <3>2. CASE source' # Nil
      BY <1>1, <1>2, <1>4, <2>2, <2>3, <2>6, <3>2, CreditRight
    <3>. QED BY <3>1, <3>2
  <2>12. HangsOnlyIfTorn'
    BY <2>2 DEF HangsOnlyIfTorn
  <2>. QED BY <1>3, <2>8, <2>9, <2>10, <2>11, <2>12 DEF CoverageInv
<1>. QED BY <1>9, <1>10

\* An entry that is added, with its ordinal.
LEMMA WalkAddKeeps ==
  ASSUME CoverageInv, WalkAdd
  PROVE  CoverageInv'
<1>. DEFINE e == Entry[flink]
            m == [info |-> e.info, base |-> e.base, len |-> e.len, ord |-> Ordinal(e.info, ords')]
            ml == Append(ret, m)
<1>1. /\ pc = "walk" /\ flink \notin seen /\ Usable(flink)
      /\ ords' = WithOrdinal(e.info) /\ full' = full /\ Advance(ml)
  BY DEF WalkAdd
<1>2. /\ ret \in Seq(Module) /\ AreOf(ret, seen) /\ (full => HasAll(ret, seen))
      /\ HasOrdinals(ret, ords) /\ full \in BOOLEAN
  BY <1>1 DEF CoverageInv, WalkInv
<1>3. flink \in AllEntries
  BY <1>1 DEF CoverageInv, WalkInv, Usable
<1>4. e.info \in Infos /\ e.base \in Nat /\ e.len \in Nat \ {0}
  BY <1>3, ListsAssumption DEF Infos
<1>5. IsTable(ords)
  BY DEF CoverageInv, OrdinalsInv
<1>6. /\ IsTable(ords')
      /\ \A i \in DOMAIN ords : i \in DOMAIN ords' /\ ords'[i] = ords[i]
      /\ Ordinal(e.info, ords') \in DOMAIN ords' /\ ords'[Ordinal(e.info, ords')] = e.info
  BY <1>1, <1>4, <1>5, OrdinalGrows
<1>7. Ordinal(e.info, ords') \in Nat
  <2>1. DOMAIN ords' = 1 .. Len(ords') /\ Len(ords') \in Nat
    BY <1>6 DEF IsTable
  <2>. QED BY <1>6, <2>1
<1>8. m \in Module
  BY <1>4, <1>7 DEF Module
<1>9. Describes(m, flink) /\ m.ord = Ordinal(e.info, ords') /\ m.info = e.info
  BY DEF Describes
<1>. HIDE DEF m
<1>10. /\ ml \in Seq(Module) /\ Len(ml) = Len(ret) + 1 /\ Len(ret) \in Nat
       /\ DOMAIN ml = 1 .. Len(ret) + 1 /\ DOMAIN ret = 1 .. Len(ret)
       /\ ml[Len(ret) + 1] = m
       /\ \A i \in 1 .. Len(ret) : ml[i] = ret[i]
  BY <1>2, <1>8
<1>. HIDE DEF ml, e
<1>11. \A i \in DOMAIN ml : i = Len(ret) + 1 \/ i \in DOMAIN ret
  BY <1>10
<1>12. Len(ret) + 1 \in DOMAIN ml /\ \A i \in DOMAIN ret : i \in DOMAIN ml /\ ml[i] = ret[i]
  BY <1>10
<1>13. AreOf(ml, seen \cup {flink})
  <2>. SUFFICES ASSUME NEW i \in DOMAIN ml
                PROVE  \E x \in seen \cup {flink} : Usable(x) /\ Describes(ml[i], x)
    BY DEF AreOf
  <2>1. CASE i = Len(ret) + 1
    BY <1>1, <1>9, <1>10, <2>1
  <2>2. CASE i \in DOMAIN ret
    BY <1>2, <1>12, <2>2 DEF AreOf
  <2>. QED BY <1>11, <2>1, <2>2
<1>14. full' => HasAll(ml, seen \cup {flink})
  <2>. SUFFICES ASSUME full, NEW x \in seen \cup {flink}, Usable(x)
                PROVE  \E i \in DOMAIN ml : Describes(ml[i], x)
    BY <1>1 DEF HasAll
  <2>1. CASE x = flink
    BY <1>9, <1>10, <1>12, <2>1
  <2>2. CASE x \in seen
    BY <1>2, <1>12, <2>2 DEF HasAll
  <2>. QED BY <2>1, <2>2
<1>15. HasOrdinals(ml, ords')
  <2>1. HasOrdinals(ret, ords')
    BY <1>2, <1>6, TableGrows
  <2>. QED BY <1>6, <1>9, <1>10, <1>11, <1>12, <2>1 DEF HasOrdinals
<1>. QED BY <1>1, <1>2, <1>6, <1>10, <1>13, <1>14, <1>15, AdvanceKeeps

\* An entry that is skipped.
LEMMA WalkSkipKeeps ==
  ASSUME CoverageInv, WalkSkip
  PROVE  CoverageInv'
<1>1. /\ pc = "walk" /\ flink \notin seen /\ full' = (full /\ ~Usable(flink))
      /\ ords' = ords /\ Advance(ret)
  BY DEF WalkSkip
<1>2. /\ ret \in Seq(Module) /\ AreOf(ret, seen) /\ (full => HasAll(ret, seen))
      /\ HasOrdinals(ret, ords) /\ full \in BOOLEAN
  BY <1>1 DEF CoverageInv, WalkInv
<1>3. full' \in BOOLEAN
  BY <1>1
<1>4. AreOf(ret, seen \cup {flink})
  BY <1>2 DEF AreOf
<1>5. full' => HasAll(ret, seen \cup {flink})
  BY <1>1, <1>2 DEF HasAll
<1>6. IsTable(ords') /\ HasOrdinals(ret, ords')
  BY <1>1, <1>2 DEF CoverageInv, OrdinalsInv
<1>. QED BY <1>1, <1>2, <1>3, <1>4, <1>5, <1>6, AdvanceKeeps

\* A walk that is given up.
LEMMA WalkFailsKeeps ==
  ASSUME CoverageInv, WalkFails
  PROVE  CoverageInv'
<1>. USE DEF WalkFails
<1>1. ListsInv /\ ctx' \in Lists /\ UNCHANGED <<guest, cache, source, ords>>
  BY DEF CoverageInv, ListsInv
<1>2. ListsInv'
  BY <1>1, ListsSame
<1>3. CacheInv'
  BY <1>1, CacheSame DEF CoverageInv
<1>4. OrdinalsInv'
  BY DEF CoverageInv, OrdinalsInv
<1>5. WalkInv'
  BY DEF CoverageInv, WalkInv, Idle
<1>6. CreditedRight' /\ HangsOnlyIfTorn'
  BY DEF CoverageInv, WalkInv, CreditedRight, HangsOnlyIfTorn
<1>. QED BY <1>2, <1>3, <1>4, <1>5, <1>6 DEF CoverageInv

\* Only between the two stores that remove the last entry does a walk meet an
\* entry again.
LEMMA WalkHangsKeeps ==
  ASSUME CoverageInv, WalkHangs
  PROVE  CoverageInv'
<1>. USE DEF WalkHangs
<1>1. ListsInv /\ ctx \in Lists /\ UNCHANGED <<guest, ctx, cache, source, ords, last>>
  BY DEF CoverageInv, ListsInv
<1>2. ListsInv'
  BY <1>1, ListsSame
<1>3. CacheInv'
  BY <1>1, CacheSame DEF CoverageInv
<1>4. OrdinalsInv'
  BY DEF CoverageInv, OrdinalsInv
<1>5. WalkInv'
  <2>1. UNCHANGED <<kml, full, rip, flink>> /\ pc' = "hang"
    BY DEF walk
  <2>. QED BY <2>1 DEF CoverageInv, WalkInv
<1>6. CreditedRight'
  <2>1. Linked(ctx)' = Linked(ctx)
    BY <1>1 DEF guest, Linked
  <2>. QED BY <1>1, <2>1 DEF CoverageInv, CreditedRight, ModulesAt
<1>7. HangsOnlyIfTorn'
  <2>1. Torn(ctx)
    <3>1. CASE pc = "walk"
      BY <3>1 DEF CoverageInv, WalkInv, PathInv
    <3>2. CASE pc = "hang"
      BY <3>2 DEF CoverageInv, HangsOnlyIfTorn, Torn
    <3>. QED BY <3>1, <3>2
  <2>. QED BY <1>1, <2>1 DEF HangsOnlyIfTorn, Torn, guest
<1>. QED BY <1>2, <1>3, <1>4, <1>5, <1>6, <1>7 DEF CoverageInv

\* Every step of the loader, of a report and of a walk keeps the invariant.
LEMMA CoverageStep == CoverageInv /\ [CoverageNext]_coverageVars => CoverageInv'
<1>. SUFFICES ASSUME CoverageInv, [CoverageNext]_coverageVars PROVE CoverageInv'
  OBVIOUS
<1>1. ASSUME NEW l \in Lists, NEW e \in Entries[l], InsertLink(l, e) PROVE CoverageInv'
  BY <1>1, InsertLinkKeeps
<1>2. CASE InsertEnd \/ RemoveEnd
  BY <1>2, LastStoreKeeps
<1>3. ASSUME NEW l \in Lists, NEW e \in Entries[l], RemoveLink(l, e) PROVE CoverageInv'
  BY <1>3, RemoveLinkKeeps
<1>4. ASSUME NEW c \in Lists, Switch(c) PROVE CoverageInv'
  BY <1>4, SwitchKeeps
<1>5. CASE FindKernelModlist
  BY <1>5, FindKernelKeeps
<1>6. ASSUME NEW a \in Code[ctx], ReportCached(a) PROVE CoverageInv'
  BY <1>6, ReportCachedKeeps
<1>7. ASSUME NEW a \in Code[ctx], ReportDropped(a) PROVE CoverageInv'
  BY <1>7, ReportDroppedKeeps
<1>8. ASSUME NEW a \in Code[ctx], ReportWalk(a) PROVE CoverageInv'
  BY <1>8, ReportWalkKeeps
<1>9. CASE WalkAdd
  BY <1>9, WalkAddKeeps
<1>10. CASE WalkSkip
  BY <1>10, WalkSkipKeeps
<1>11. CASE WalkFails
  BY <1>11, WalkFailsKeeps
<1>12. CASE WalkHangs
  BY <1>12, WalkHangsKeeps
<1>13. CASE UNCHANGED coverageVars
  <2>1. /\ ListsInv /\ ctx \in Lists /\ UNCHANGED <<guest, ctx, cache, source, ords, last, cov>>
        /\ UNCHANGED <<pc, kml, full, rip, flink, ret, seen>>
    BY <1>13 DEF CoverageInv, ListsInv, coverageVars, walk
  <2>2. ListsInv'
    BY <2>1, ListsSame
  <2>3. CacheInv'
    BY <2>1, CacheSame DEF CoverageInv
  <2>4. OrdinalsInv'
    BY <2>1 DEF CoverageInv, OrdinalsInv
  <2>5. Nodes(ctx)' = Nodes(ctx) /\ Linked(ctx)' = Linked(ctx) /\ op' = op
    BY <2>1 DEF guest, Nodes, Linked
  <2>6. WalkInv'
    BY <2>1, <2>5 DEF CoverageInv, WalkInv, PathInv, Torn, guest
  <2>7. CreditedRight' /\ HangsOnlyIfTorn'
    BY <2>1, <2>5 DEF CoverageInv, CreditedRight, ModulesAt, HangsOnlyIfTorn
  <2>. QED BY <2>2, <2>3, <2>4, <2>6, <2>7 DEF CoverageInv
<1>. QED BY <1>1, <1>2, <1>3, <1>4, <1>5, <1>6, <1>7, <1>8, <1>9, <1>10, <1>11, <1>12, <1>13
     DEF CoverageNext

\* CoverageInv holds in every reachable state.
LEMMA CoverageAlways == CoverageSpec => []CoverageInv
  BY CoverageStart, CoverageStep, PTL DEF CoverageSpec

\* Types: every module that report_coverage() looks up or sets a bit for has an
\* ordinal in the table, and the walk stands at an entry or at a list's head.
THEOREM CoverageTypeCorrect == CoverageSpec => []TypeOK
<1>1. CoverageInv => TypeOK
  <2>. SUFFICES ASSUME CoverageInv PROVE TypeOK
    OBVIOUS
  <2>1. ListsInv /\ WalkInv
    BY DEF CoverageInv
  <2>2. \A i \in DOMAIN cache : cache[i].ord \in DOMAIN ords
    BY DEF CoverageInv, CacheInv, HasOrdinals
  <2>3. \A c \in cov : c[1] \in DOMAIN ords /\ c[2] \in Nat
    BY DEF CoverageInv, OrdinalsInv, InBitmap
  <2>4. source \in Lists \cup {Nil}
    BY DEF CoverageInv, CacheInv
  <2>. QED BY <2>1, <2>2, <2>3, <2>4 DEF TypeOK, ListsInv, WalkInv
<1>. QED BY <1>1, CoverageAlways, PTL

\* An ordinal that allocate_ordinal() has given means one module for good, in the
\* cache and in the bitmaps, also after walks that were given up half way.
THEOREM CoverageOrdinalsAgree == CoverageSpec => []OrdinalsAgree
<1>1. CoverageInv => OrdinalsAgree
  BY DEF CoverageInv, OrdinalsInv, IsTable, InBitmap, CacheInv, HasOrdinals, OrdinalsAgree
<1>. QED BY <1>1, CoverageAlways, PTL

\* While the cache is a true copy of the current context's list, report_coverage()
\* credits the module that holds the address, and none only if none does.
THEOREM CoverageCreditedRight == CoverageSpec => []CreditedRight
<1>1. CoverageInv => CreditedRight
  BY DEF CoverageInv
<1>. QED BY <1>1, CoverageAlways, PTL

\* get_modlist_user() and get_modlist_kernel() end, whatever the lists hold and
\* wherever the loader was stopped, but between the two stores that remove the
\* last entry.
THEOREM CoverageHangsOnlyIfTorn == CoverageSpec => []HangsOnlyIfTorn
<1>1. CoverageInv => HangsOnlyIfTorn
  BY DEF CoverageInv
<1>. QED BY <1>1, CoverageAlways, PTL
=============================================================================
