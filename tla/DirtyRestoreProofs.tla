------------------------- MODULE DirtyRestoreProofs -------------------------
(***************************************************************************)
(* Proofs about dirty tracking and restore, for every memory size, word    *)
(* size, set of regions and workload.                                      *)
(***************************************************************************)
EXTENDS DirtyRestore, TLAPS

\* The pages of RAM mapped into the partition.
MappedRam == UNION {PagesOf(g) : g \in {h \in Regions : h.ram}}

\* Every page that differs from the snapshot has a bit, is still in the
\* hypervisor's log, or is one of the known escapes; a writable TLB entry stands
\* for a page that has its bit, or for one that was touched without a write.
TrackedInv ==
  /\ changed \subseteq dirty_bits_l2 \cup (whvp_dirty \cap MappedRam)
                 \cup DmaWrites \cup CpuTouches \cup CutOff
  /\ tlb \subseteq dirty_bits_l2 \cup CpuTouches
  /\ pc = "exit" => tlb = {}
  /\ whvp_dirty # {} => memory_dirty \/ pc = "vm"

\* The inductive invariant of dirty tracking.
DirtyInv == TypeOK /\ LevelsAgree /\ TrackedInv

-----------------------------------------------------------------------------
(* Arithmetic of the bitmaps.                                              *)

\* A quotient is determined by the bounds of the remainder.
LEMMA DivUnique ==
  ASSUME NEW a \in Nat, NEW m \in Nat \ {0}, NEW q \in Nat, q * m <= a, a < (q + 1) * m
  PROVE  a \div m = q
  OBVIOUS

\* Quotient and remainder.
LEMMA DivBounds ==
  ASSUME NEW a \in Nat, NEW m \in Nat \ {0}
  PROVE  /\ a \div m \in Nat
         /\ (a \div m) * m <= a
         /\ a < (a \div m) * m + m
         /\ a = (a \div m) * m + (a % m)
         /\ a % m \in 0 .. m - 1
  OBVIOUS

\* A larger address is not in an earlier page.
LEMMA DivMonotone ==
  ASSUME NEW a \in Nat, NEW b \in Nat, a <= b, NEW m \in Nat \ {0}
  PROVE  a \div m <= b \div m
  OBVIOUS

\* The page that bit j of a word stands for lies in the same region of the first
\* level as the first page a of the region's word, whether or not the region
\* starts at a word of the second level.
LEMMA WordInRegion ==
  ASSUME NEW a \in Nat, NEW j \in 0 .. QwordPages - 1
  PROVE  /\ (a \div QwordPages) * QwordPages + j \in Nat
         /\ (a \div QwordPages) * QwordPages + j <= a + j
         /\ ((a \div QwordPages) * QwordPages + j) \div L1Pages = a \div L1Pages
<1>. DEFINE Q == QwordPages
            L == L1Pages
            w == a \div Q
            k == L \div Q
            r == a \div L
            p == w * Q + j
<1>1. Q \in Nat /\ Q > 0 /\ L \in Nat /\ L > 0 /\ L % Q = 0 /\ j \in Nat /\ j <= Q - 1
  BY BitmapAssumption
<1>. HIDE DEF Q, L
<1>2. k \in Nat /\ L = k * Q
  BY <1>1
<1>3. w \in Nat /\ w * Q <= a /\ a < w * Q + Q
  BY <1>1, DivBounds
<1>4. r \in Nat /\ r * L <= a /\ a < r * L + L
  BY <1>1, DivBounds
<1>. HIDE DEF w, k, r
\* Word w lies between the first word of region r and that of the next one.
<1>5. r * L = (r * k) * Q /\ r * L + L = (r * k + k) * Q
  BY <1>1, <1>2, <1>4
<1>6. r * k \in Nat /\ r * k + k \in Nat
  BY <1>2, <1>4
<1>. DEFINE lo == r * k
            hi == r * k + k
<1>. HIDE DEF lo, hi
<1>7. lo \in Nat /\ hi \in Nat /\ r * L = lo * Q /\ r * L + L = hi * Q
  BY <1>5, <1>6 DEF lo, hi
<1>8. lo <= w
  <2>1. SUFFICES ASSUME w < lo PROVE FALSE
    BY <1>3, <1>7
  <2>2. w + 1 <= lo
    BY <1>3, <1>7, <2>1
  <2>3. (w + 1) * Q <= lo * Q
    BY <1>1, <1>3, <1>7, <2>2
  <2>4. w * Q + Q <= lo * Q
    BY <1>1, <1>3, <2>3
  <2>. QED BY <1>1, <1>3, <1>4, <1>7, <2>4
<1>9. w + 1 <= hi
  <2>1. SUFFICES ASSUME hi <= w PROVE FALSE
    BY <1>3, <1>7
  <2>2. hi * Q <= w * Q
    BY <1>1, <1>3, <1>7, <2>1
  <2>. QED BY <1>1, <1>3, <1>4, <1>7, <2>2
<1>10. lo * Q <= w * Q /\ w * Q + Q <= hi * Q
  <2>1. lo * Q <= w * Q
    BY <1>1, <1>3, <1>7, <1>8
  <2>2. (w + 1) * Q <= hi * Q
    BY <1>1, <1>3, <1>7, <1>9
  <2>. QED BY <1>1, <1>3, <2>1, <2>2
<1>11. w * Q \in Nat
  BY <1>1, <1>3
<1>12. p \in Nat /\ p <= a + j
  BY <1>1, <1>3, <1>11
<1>13. r * L <= p /\ p < r * L + L
  BY <1>1, <1>7, <1>10, <1>11
<1>14. p \div L = r
  <2>1. (r + 1) * L = r * L + L
    BY <1>1, <1>4
  <2>. HIDE DEF p
  <2>. QED BY <1>1, <1>4, <1>12, <1>13, <2>1, DivUnique
<1>. QED BY <1>12, <1>14 DEF Q, L, w, r

\* A region's quotient, in first-level bits, is within the first level.
LEMMA L1Range ==
  ASSUME NEW a \in Nat, NEW p \in BitmapPage, a <= p
  PROVE  a \div L1Pages \in 0 .. (BitmapPages - 1) \div L1Pages
<1>1. BitmapPages - 1 \in Nat /\ a <= BitmapPages - 1 /\ L1Pages \in Nat \ {0}
  BY BitmapAssumption DEF BitmapPage
<1>. DEFINE x == a \div L1Pages
            y == (BitmapPages - 1) \div L1Pages
<1>2. x \in Nat /\ y \in Nat
  BY <1>1, DivBounds
<1>3. x <= y
  BY <1>1, DivMonotone
<1>. HIDE DEF x, y
<1>4. x \in 0 .. y
  BY <1>2, <1>3
<1>. QED BY <1>4 DEF x, y

\* What is known of a region.
LEMMA RegionOK ==
  ASSUME NEW g \in Regions
  PROVE  /\ g.base \in Nat /\ g.size \in Nat
         /\ g.size >= QwordPages => g.base % QwordPages = 0
         /\ PagesOf(g) \subseteq BitmapPage
         /\ g.ram => PagesOf(g) \subseteq Page
<1>1. g.base \in Nat /\ g.size \in Nat
  BY RegionsAssumption
<1>2. g.size >= QwordPages => g.base % QwordPages = 0
  BY RegionsAssumption, Zenon
<1>3. PagesOf(g) \subseteq BitmapPage
  BY RegionsAssumption, Zenon
<1>4. g.ram => PagesOf(g) \subseteq Page
  BY RegionsAssumption, Zenon
<1>. QED BY <1>1, <1>2, <1>3, <1>4

\* A word's address is a number.
LEMMA QwordAddrOK ==
  ASSUME NEW g \in Regions, NEW ii \in Qwords(g)
  PROVE  QwordAddr(g, ii) \in Nat
<1>1. g.base \in Nat /\ QwordPages \in Nat
  BY RegionsAssumption, BitmapAssumption
<1>2. ii \in Nat
  BY DEF Qwords
<1>3. ii * QwordPages \in Nat
  BY <1>1, <1>2
<1>. QED BY <1>1, <1>3 DEF QwordAddr

\* What get_dirty_list() adds stays within the bitmaps, and the two levels agree.
LEMMA DirtyListOK ==
  ASSUME whvp_dirty \subseteq BitmapPage
  PROVE  /\ DirtyListL1 \subseteq 0 .. (BitmapPages - 1) \div L1Pages
         /\ DirtyListL2 \subseteq BitmapPage
         /\ \A p \in DirtyListL2 : p \div L1Pages \in DirtyListL1
<1>1. ASSUME NEW b \in DirtyListL1 PROVE b \in 0 .. (BitmapPages - 1) \div L1Pages
  <2>0. PICK g \in Regions : \E ii \in Qwords(g) :
          QwordBits(g, ii) # {} /\ b = QwordAddr(g, ii) \div L1Pages
    BY <1>1 DEF DirtyListL1
  <2>1. PICK ii \in Qwords(g) : QwordBits(g, ii) # {} /\ b = QwordAddr(g, ii) \div L1Pages
    BY <2>0
  <2>2. PICK j \in 0 .. QwordPages - 1 : QwordAddr(g, ii) + j \in BitmapPage
    BY <2>1 DEF QwordBits
  <2>3. QwordAddr(g, ii) \in Nat
    BY QwordAddrOK
  <2>4. QwordAddr(g, ii) <= QwordAddr(g, ii) + j
    BY <2>2, <2>3, BitmapAssumption
  <2>. QED BY <2>1, <2>2, <2>3, <2>4, L1Range
<1>2. ASSUME NEW p \in DirtyListL2 PROVE p \in BitmapPage /\ p \div L1Pages \in DirtyListL1
  <2>0. PICK g \in Regions : \E ii \in Qwords(g) : \E j \in QwordBits(g, ii) :
          p = (QwordAddr(g, ii) \div QwordPages) * QwordPages + j
    BY <1>2 DEF DirtyListL2
  <2>9. PICK ii \in Qwords(g) : \E j \in QwordBits(g, ii) :
          p = (QwordAddr(g, ii) \div QwordPages) * QwordPages + j
    BY <2>0
  <2>1. PICK j \in QwordBits(g, ii) : p = (QwordAddr(g, ii) \div QwordPages) * QwordPages + j
    BY <2>9
  <2>. DEFINE a == QwordAddr(g, ii)
  <2>2. j \in 0 .. QwordPages - 1 /\ a + j \in BitmapPage
    BY <2>1 DEF QwordBits
  <2>3. a \in Nat
    BY QwordAddrOK
  <2>. HIDE DEF a
  <2>4. p = (a \div QwordPages) * QwordPages + j
    BY <2>1 DEF a
  <2>5. p \in Nat /\ p <= a + j /\ p \div L1Pages = a \div L1Pages
    BY <2>2, <2>3, <2>4, WordInRegion
  <2>6. p \in BitmapPage
    BY <2>2, <2>5, BitmapAssumption DEF BitmapPage
  <2>7. QwordAddr(g, ii) \div L1Pages \in DirtyListL1
    BY <2>1 DEF DirtyListL1
  <2>. QED BY <2>5, <2>6, <2>7 DEF a
<1>. QED BY <1>1, <1>2

\* get_dirty_list() leaves out no page of the log but those in a word that the
\* region does not fill.
LEMMA DirtyListComplete ==
  ASSUME NEW p \in whvp_dirty, p \in MappedRam, p \notin CutOff
  PROVE  p \in DirtyListL2
<1>. DEFINE Q == QwordPages
<1>1. Q \in Nat \ {0}
  BY BitmapAssumption
<1>0. PICK g \in Regions : g.ram /\ p \in PagesOf(g)
  BY DEF MappedRam
<1>3. p \in Page /\ p \in Nat /\ g.base \in Nat /\ g.size \in Nat
  <2>1. p \in Page
    BY <1>0, RegionOK, Zenon
  <2>. QED BY <2>1, RegionOK, BitmapAssumption DEF Page
<1>2. g.base <= p /\ p < g.base + g.size
  BY <1>0, <1>3 DEF PagesOf
<1>. DEFINE n  == g.size \div Q
            o  == p - g.base
            ii == o \div Q
            j  == o % Q
            a  == QwordAddr(g, ii)
<1>4. p < g.base + n * Q
  BY <1>0, <1>1, <1>2, <1>3 DEF CutOff
<1>5. o \in Nat /\ p = g.base + o
  BY <1>2, <1>3
<1>6. n \in Nat
  BY <1>1, <1>3
<1>. HIDE DEF Q, n, o
<1>7. o < n * Q
  <2>1. n * Q \in Nat
    BY <1>1, <1>6
  <2>. QED BY <1>3, <1>4, <1>5, <2>1
<1>8. ii \in Nat /\ ii * Q <= o /\ o = ii * Q + j /\ j \in 0 .. Q - 1
  BY <1>1, <1>5, DivBounds
<1>. HIDE DEF ii, j
<1>9. ii \in 0 .. n - 1
  <2>1. SUFFICES ASSUME n <= ii PROVE FALSE
    BY <1>6, <1>8
  <2>2. n * Q <= ii * Q
    BY <1>1, <1>6, <1>8, <2>1
  <2>3. n * Q \in Nat /\ ii * Q \in Nat
    BY <1>1, <1>6, <1>8
  <2>. QED BY <1>5, <1>7, <1>8, <2>2, <2>3
\* So the region has a full word, and starts at one.
<1>10. g.base % Q = 0
  <2>1. g.size >= Q
    <3>1. n >= 1
      BY <1>6, <1>9
    <3>2. n * Q <= g.size
      BY <1>1, <1>3, DivBounds DEF n
    <3>3. n * Q >= Q
      BY <1>1, <1>6, <3>1
    <3>4. n * Q \in Nat
      BY <1>1, <1>6
    <3>. QED BY <1>1, <1>3, <3>2, <3>3, <3>4
  <2>. QED BY <2>1, RegionOK DEF Q
<1>11. a = g.base + ii * Q /\ a + j = p /\ a \in Nat
  <2>1. a = g.base + ii * Q
    BY DEF QwordAddr, Q
  <2>2. ii * Q \in Nat
    BY <1>1, <1>8
  <2>. QED BY <1>3, <1>5, <1>8, <2>1, <2>2
<1>12. (a \div Q) * Q = a
  <2>. DEFINE b == g.base \div Q
  <2>1. b \in Nat /\ g.base = b * Q
    BY <1>1, <1>3, <1>10
  <2>. HIDE DEF b
  <2>2. a = (b + ii) * Q
    BY <1>1, <1>8, <1>11, <2>1
  <2>. HIDE DEF a
  <2>3. a \div Q = b + ii
    <3>1. (b + ii) * Q <= a /\ a < (b + ii + 1) * Q /\ b + ii \in Nat
      BY <1>1, <1>8, <1>11, <2>1, <2>2
    <3>. QED BY <1>1, <1>11, <3>1, DivUnique
  <2>. QED BY <2>2, <2>3
<1>13. ii \in Qwords(g) /\ j \in QwordBits(g, ii)
  BY <1>8, <1>9, <1>11 DEF Qwords, QwordBits, n, Q
<1>14. p = (QwordAddr(g, ii) \div QwordPages) * QwordPages + j
  BY <1>11, <1>12 DEF Q
<1>. HIDE DEF a
<1>. QED BY <1>13, <1>14 DEF DirtyListL2

-----------------------------------------------------------------------------
(* The steps.                                                              *)

\* The invariant holds at the start.
LEMMA DirtyInit == Init => DirtyInv
  BY DEF Init, DirtyInv, TypeOK, LevelsAgree, TrackedInv

\* What is left changed by a restore, and that it leaves nothing marked.
LEMMA RestoreKeeps ==
  ASSUME DirtyInv, Restore
  PROVE  /\ DirtyInv'
         /\ changed' \subseteq DmaWrites \cup CpuTouches \cup CutOff
<1>. DEFINE l1 == dirty_bits_l1 \cup (IF memory_dirty THEN DirtyListL1 ELSE {})
            l2 == dirty_bits_l2 \cup (IF memory_dirty THEN DirtyListL2 ELSE {})
            reset == {p \in l2 : p \div L1Pages \in l1}
<1>1. /\ pc = "exit" /\ UNCHANGED <<pc, tlb>>
      /\ whvp_dirty' = IF memory_dirty THEN {} ELSE whvp_dirty
      /\ memory_dirty' = FALSE
      /\ changed' = changed \ {p \in reset : p < Pages}
      /\ dirty_bits_l1' = {}
      /\ dirty_bits_l2' = l2 \ reset
  BY DEF Restore
<1>2. /\ DirtyListL2 \subseteq BitmapPage
      /\ \A p \in DirtyListL2 : p \div L1Pages \in DirtyListL1
  BY DirtyListOK DEF DirtyInv, TypeOK
<1>3. reset = l2
  <2>1. \A p \in dirty_bits_l2 : p \div L1Pages \in dirty_bits_l1
    BY DEF DirtyInv, LevelsAgree
  <2>. QED BY <1>2, <2>1
<1>4. whvp_dirty \cap MappedRam \subseteq l2 \cup CutOff
  <2>1. CASE memory_dirty
    BY <2>1, DirtyListComplete DEF DirtyInv, TrackedInv
  <2>2. CASE ~memory_dirty
    BY <1>1, <2>2 DEF DirtyInv, TrackedInv
  <2>. QED BY <2>1, <2>2
<1>5. dirty_bits_l2 \subseteq l2
  OBVIOUS
<1>. HIDE DEF l1, l2, reset
<1>6. changed' \subseteq DmaWrites \cup CpuTouches \cup CutOff
  <2>1. \A p \in changed : p < Pages
    BY BitmapAssumption DEF DirtyInv, TypeOK, Page
  <2>. QED BY <1>1, <1>3, <1>4, <1>5, <2>1 DEF DirtyInv, TrackedInv
<1>7. dirty_bits_l2' = {} /\ changed' \subseteq changed /\ tlb' = {}
  BY <1>1, <1>3 DEF DirtyInv, TrackedInv
<1>8. whvp_dirty' = {}
  BY <1>1 DEF DirtyInv, TrackedInv
<1>9. TypeOK'
  BY <1>1, <1>7, <1>8 DEF DirtyInv, TypeOK
<1>10. LevelsAgree'
  BY <1>7 DEF LevelsAgree
<1>11. TrackedInv'
  BY <1>6, <1>7, <1>8 DEF TrackedInv
<1>. QED BY <1>6, <1>9, <1>10, <1>11 DEF DirtyInv

\* Every write, TLB hit, eviction, run and restore keeps the invariant.
LEMMA DirtyStep == DirtyInv /\ [Next]_vars => DirtyInv'
<1>. SUFFICES ASSUME DirtyInv, [Next]_vars PROVE DirtyInv'
  OBVIOUS
<1>. USE WorkloadAssumption
<1>1. CASE StepDevice \/ StepCpu \/ StepReturn
  <2>1. /\ tlb' \subseteq tlb /\ pc' \in {"top", "device", "decide", "cpu"}
        /\ pc \in {"top", "device", "decide", "cpu"}
        /\ UNCHANGED <<changed, dirty_bits_l1, dirty_bits_l2, whvp_dirty, memory_dirty>>
    BY <1>1 DEF StepDevice, StepCpu, StepReturn, bitmap
  <2>2. TypeOK' BY <2>1 DEF DirtyInv, TypeOK
  <2>3. LevelsAgree' BY <2>1 DEF DirtyInv, LevelsAgree
  <2>4. TrackedInv' BY <2>1 DEF DirtyInv, TrackedInv
  <2>. QED BY <2>2, <2>3, <2>4 DEF DirtyInv
<1>2. ASSUME NEW p \in CpuWrites, CpuWriteMiss(p) PROVE DirtyInv'
  <2>. USE <1>2 DEF CpuWriteMiss, MarkDirty
  <2>1. p \in Page /\ p \in BitmapPage /\ p \div L1Pages \in 0 .. (BitmapPages - 1) \div L1Pages
    <3>1. p \in Page /\ p \in BitmapPage /\ p \in Nat
      BY BitmapAssumption DEF Page, BitmapPage
    <3>. QED BY <3>1, L1Range
  <2>2. TypeOK' BY <2>1 DEF DirtyInv, TypeOK
  <2>3. LevelsAgree' BY DEF DirtyInv, LevelsAgree
  <2>4. TrackedInv' BY DEF DirtyInv, TrackedInv
  <2>. QED BY <2>2, <2>3, <2>4 DEF DirtyInv
<1>3. ASSUME NEW p \in CpuWrites, CpuWriteHit(p) PROVE DirtyInv'
  <2>. USE <1>3 DEF CpuWriteHit, bitmap
  <2>1. TypeOK' BY DEF DirtyInv, TypeOK
  <2>2. LevelsAgree' BY DEF DirtyInv, LevelsAgree
  <2>3. TrackedInv' BY DEF DirtyInv, TrackedInv
  <2>. QED BY <2>1, <2>2, <2>3 DEF DirtyInv
<1>4. ASSUME NEW p \in CpuTouches, CpuTouch(p) PROVE DirtyInv'
  <2>. USE <1>4 DEF CpuTouch, bitmap
  <2>1. TypeOK' BY DEF DirtyInv, TypeOK
  <2>2. LevelsAgree' BY DEF DirtyInv, LevelsAgree
  <2>3. TrackedInv' BY DEF DirtyInv, TrackedInv
  <2>. QED BY <2>1, <2>2, <2>3 DEF DirtyInv
<1>5. ASSUME NEW p \in Page, TlbEvict(p) PROVE DirtyInv'
  <2>. USE <1>5 DEF TlbEvict, bitmap
  <2>1. TypeOK' BY DEF DirtyInv, TypeOK
  <2>2. LevelsAgree' BY DEF DirtyInv, LevelsAgree
  <2>3. TrackedInv' BY DEF DirtyInv, TrackedInv
  <2>. QED BY <2>1, <2>2, <2>3 DEF DirtyInv
<1>6. ASSUME NEW p \in DmaWrites, DmaWrite(p) PROVE DirtyInv'
  <2>. USE <1>6 DEF DmaWrite, bitmap
  <2>1. TypeOK' BY DEF DirtyInv, TypeOK
  <2>2. LevelsAgree' BY DEF DirtyInv, LevelsAgree
  <2>3. TrackedInv' BY DEF DirtyInv, TrackedInv
  <2>. QED BY <2>1, <2>2, <2>3 DEF DirtyInv
<1>7. CASE VmEnter \/ VmExit \/ VmDone
  <2>. USE <1>7 DEF VmEnter, VmExit, VmDone, bitmap
  <2>1. TypeOK' BY DEF DirtyInv, TypeOK
  <2>2. LevelsAgree' BY DEF DirtyInv, LevelsAgree
  <2>3. TrackedInv' BY DEF DirtyInv, TrackedInv, TypeOK
  <2>. QED BY <2>1, <2>2, <2>3 DEF DirtyInv
<1>8. ASSUME NEW g \in Regions, NEW p \in VmWrites, VmWrite(g, p) PROVE DirtyInv'
  <2>. USE <1>8 DEF VmWrite, bitmap
  <2>0. p \in BitmapPage /\ (g.ram => p \in Page /\ p \in MappedRam)
    BY RegionOK, Zenon DEF MappedRam
  <2>1. TypeOK' BY <2>0 DEF DirtyInv, TypeOK
  <2>2. LevelsAgree' BY DEF DirtyInv, LevelsAgree
  <2>3. TrackedInv' BY <2>0 DEF DirtyInv, TrackedInv
  <2>. QED BY <2>1, <2>2, <2>3 DEF DirtyInv
<1>9. CASE Restore
  BY <1>9, RestoreKeeps
<1>10. CASE UNCHANGED vars
  BY <1>10 DEF vars, DirtyInv, TypeOK, LevelsAgree, TrackedInv
<1>11. ASSUME NEW p \in CpuWrites \cup DmaWrites, WriteElsewhere(p) PROVE DirtyInv'
  <2>. USE <1>11 DEF WriteElsewhere, MarkDirty
  <2>1. p \in BitmapPage /\ p \div L1Pages \in 0 .. (BitmapPages - 1) \div L1Pages
    <3>1. p \in BitmapPage /\ p \in Nat
      BY BitmapAssumption DEF BitmapPage
    <3>. QED BY <3>1, L1Range
  <2>2. TypeOK' BY <2>1 DEF DirtyInv, TypeOK
  <2>3. LevelsAgree' BY DEF DirtyInv, LevelsAgree
  <2>4. TrackedInv' BY DEF DirtyInv, TrackedInv
  <2>. QED BY <2>2, <2>3, <2>4 DEF DirtyInv
<1>12. ASSUME NEW p \in CpuWrites \cup DmaWrites, WriteTooHigh(p) PROVE DirtyInv'
  <2>. USE <1>12 DEF WriteTooHigh, bitmap
  <2>1. TypeOK' BY DEF DirtyInv, TypeOK
  <2>2. LevelsAgree' BY DEF DirtyInv, LevelsAgree
  <2>3. TrackedInv' BY DEF DirtyInv, TrackedInv
  <2>. QED BY <2>1, <2>2, <2>3 DEF DirtyInv
<1>13. CASE Restart
  BY <1>13 DEF Restart, DirtyInv, TypeOK, LevelsAgree, TrackedInv
<1>. QED BY <1>1, <1>2, <1>3, <1>4, <1>5, <1>6, <1>7, <1>8, <1>9, <1>10, <1>11, <1>12, <1>13
         DEF Next

\* DirtyInv holds in every reachable state.
LEMMA DirtyAlways == Spec => []DirtyInv
  BY DirtyInit, DirtyStep, PTL DEF Spec

\* Types: neither writePhysicalPage(), whatever address the guest or a device
\* writes, nor the words that get_dirty_list() ors into the second level set a
\* bit beyond the bitmaps, whichever words the regions start and end in, and
\* only guest RAM is cached in the TLB or changed.
THEOREM DirtyTypeCorrect == Spec => []TypeOK
<1>1. DirtyInv => TypeOK
  BY DEF DirtyInv
<1>. QED BY <1>1, DirtyAlways, PTL

\* The two levels of the bitmap agree, also where get_dirty_list() sets one bit
\* of the first level for a whole word of the hypervisor's log, so that
\* reset_dirty_pages() finds every page that is marked.
THEOREM DirtyLevelsAgree == Spec => []LevelsAgree
<1>1. DirtyInv => LevelsAgree
  BY DEF DirtyInv
<1>. QED BY <1>1, DirtyAlways, PTL

\* restore() leaves a page changed only if it was written by DMA, has had a TLB
\* entry made writable by something other than a write, or was written under the
\* hypervisor in a word of its log that the region does not fill.
THEOREM DirtyOnlyEscapes == Spec => OnlyEscapesSurvive
<1>1. DirtyInv /\ [Next]_vars =>
        [Restore => changed' \subseteq DmaWrites \cup CpuTouches \cup CutOff]_vars
  BY RestoreKeeps
<1>. QED BY <1>1, DirtyAlways, PTL DEF Spec, OnlyEscapesSurvive
=============================================================================
