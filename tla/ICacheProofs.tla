---------------------------- MODULE ICacheProofs ----------------------------
(***************************************************************************)
(* Proofs about the cache of decoded instructions, for every size of       *)
(* memory, pages, lines, cache and pool, and for every program.            *)
(***************************************************************************)
EXTENDS ICache, WellFoundedInduction, TLAPS

Place == 0 .. PoolLen - 1
Slot == 0 .. Slots - 1
PageNo == 0 .. Pages - 1

Link == [next : Place \cup {Invalid}, stamp : Nat]
Decoded == [pAddr : Address, bytes : Seq(Bytes), link : Link]
Entry == [pAddr : Int, traceMask : SUBSET Lines, age : Nat, tlen : Nat,
          i : Nat]
Cache == [entry : [Slot -> Entry],
          pool : [Place -> Decoded \cup {Dummy}],
          split : [0 .. SplitEntries - 1 -> [ppf : PageNo \cup {Invalid}, e : Slot]],
          nextSplit : 0 .. SplitEntries - 1,
          mpindex : 0 .. PoolLen,
          stamp : 0 .. MaxStamp - 1]

\* Traces that can be found lie in the used part of the pool, apart from each
\* other, and end in a dummy; none is younger than switches n.
EntriesOK(c, n) ==
  /\ \A s \in Slot : c.entry[s].pAddr \in Address =>
       /\ Hash(c.entry[s].pAddr) = s
       /\ c.entry[s].age <= n
       /\ c.entry[s].tlen >= 1
       /\ c.entry[s].i + c.entry[s].tlen <= c.mpindex
       /\ c.pool[c.entry[s].i + c.entry[s].tlen - 1] = Dummy
  /\ \A s, r \in Slot :
       s # r /\ c.entry[s].pAddr \in Address /\ c.entry[r].pAddr \in Address =>
         Extent(c.entry[s]) \cap Extent(c.entry[r]) = {}

\* The lines of the write-stamp map that hold the instruction at a.
LineOf(a) == <<Page(a), Line(a)>>
InsnLines(m, a) == {LineOf(NextAddress(a, k)) : k \in 0 .. ILen(m, a) - 1}

\* Place k holds what is in memory m, all of it in lines mp, and a straight
\* instruction is followed by the next one or by the end.
Fresh(c, m, mp, k) ==
  \/ c.pool[k] = Dummy
  \/ /\ c.pool[k] \in Decoded
     /\ c.pool[k].bytes = Decode(m, c.pool[k].pAddr).bytes
     /\ InsnLines(m, c.pool[k].pAddr) \subseteq mp
     /\ \/ c.pool[k].bytes[1] = "branch"
        \/ c.pool[k + 1] = Dummy
        \/ c.pool[k + 1].pAddr = NextAddress(c.pool[k].pAddr, ILen(m, c.pool[k].pAddr))

\* Execution may enter the pool at place p for the instruction at a.
Runs(c, m, mp, p, a) ==
  /\ p \in Nat
  /\ c.pool[p] = Dummy \/ c.pool[p].pAddr = a
  /\ \E q \in p .. c.mpindex - 1 : /\ c.pool[q] = Dummy
                                   /\ \A k \in p .. q : Fresh(c, m, mp, k)

\* The lines that invalidate entry e when they are written.
EntryLines(m, e) ==
  ({Page(e.pAddr)} \X e.traceMask)
    \cup (IF PageSplit(m, e.pAddr) THEN {<<SecondPage(m, e.pAddr), 0>>} ELSE {})

\* The trace of the entry in slot s is fresh, and every write to its lines finds
\* it.
TraceOK(c, m, mp, s) ==
  LET e == c.entry[s]
  IN  /\ c.pool[e.i] = Dummy \/ c.pool[e.i].pAddr = e.pAddr
      /\ \A k \in Extent(e) :
           /\ Fresh(c, m, mp, k)
           /\ c.pool[k] # Dummy => InsnLines(m, c.pool[k].pAddr) \subseteq EntryLines(m, e)
      /\ EntryLines(m, e) \subseteq mp
      /\ Line(e.pAddr) \in e.traceMask
      /\ \A l \in e.traceMask : Line(e.pAddr) <= l
      /\ PageSplit(m, e.pAddr) =>
           \E k \in DOMAIN c.split : c.split[k] = [ppf |-> SecondPage(m, e.pAddr), e |-> s]

CodeOK(c, m, mp, n) ==
  \A s \in Slot : c.entry[s].pAddr \in Address /\ c.entry[s].age = n => TraceOK(c, m, mp, s)

\* Links of the current time stamp lead to where their branches go now.
StampsOK(c) == \A k \in 0 .. c.mpindex - 1 : c.pool[k].link.stamp <= c.stamp
LinksOK(c, m, mp, sp) ==
  \A k \in 0 .. c.mpindex - 1 :
    c.pool[k].link.next # Invalid /\ c.pool[k].link.stamp = c.stamp =>
      Runs(c, m, mp, c.pool[k].link.next, Target[sp][c.pool[k].pAddr])

\* A stack page that pushes do not look up in the map has no line in it.  In a
\* SplitFree program no instruction that continues can give it one.
StackType == [page : StackPages \cup {Invalid}, stamped : BOOLEAN]
StackOK == ~stack.stamped => \A l \in Lines : <<stack.page, l>> \notin mapping
SplitMem == \A a \in Address : BeforeStack(a) => mem[a] # "wide"
SideOK == stack \in StackType /\ StackOK /\ SplitMem

\* The inductive invariant of the cache.
CacheInv ==
  /\ TypeOK
  /\ SideOK
  /\ ic \in Cache
  /\ EntriesOK(ic, switches)
  /\ StampsOK(ic)
  /\ pc = "vm" => switches < MaxSwitches
  /\ pc = "dispatch" => /\ switches <= MaxSwitches
                        /\ \A s \in Slot : Valid(s) => ic.entry[s].age # switches
  /\ pc \notin {"vm", "dispatch"} => CodeOK(ic, mem, mapping, switches)
  /\ pc \in {"device", "fetch", "exec", "end"} => LinksOK(ic, mem, mapping, as)
  /\ pc = "exec" => Runs(ic, mem, mapping, cur, rip)

-----------------------------------------------------------------------------
(* Addresses, pages and lines.                                             *)

\* Quotient and remainder.
LEMMA DivOK ==
  ASSUME NEW n \in Nat, NEW d \in Nat \ {0}
  PROVE  /\ n \div d \in Nat /\ n % d \in 0 .. d - 1
         /\ n = d * (n \div d) + (n % d)
  OBVIOUS

\* A larger number has no smaller quotient.
LEMMA DivMonotone ==
  ASSUME NEW a \in Nat, NEW b \in Nat, a <= b, NEW d \in Nat \ {0}
  PROVE  a \div d <= b \div d
  OBVIOUS

\* The page, offset and line of an address.
LEMMA AddressOK ==
  ASSUME NEW a \in Address
  PROVE  /\ a \in Nat /\ Page(a) \in PageNo /\ Offset(a) \in 0 .. PageLen - 1
         /\ a = PageLen * Page(a) + Offset(a)
         /\ Line(a) \in Lines
<1>1. Pages \in Nat \ {0} /\ PageLen \in Nat \ {0} /\ LineLen \in Nat \ {0}
  BY CacheAssumption
<1>2. a \in Nat /\ a < Pages * PageLen
  BY <1>1 DEF Address
<1>3. Page(a) \in Nat /\ Offset(a) \in 0 .. PageLen - 1 /\ a = PageLen * Page(a) + Offset(a)
  BY <1>1, <1>2, DivOK DEF Page, Offset
<1>4. Page(a) < Pages
  <2>1. ASSUME NEW p \in Nat, NEW o \in Nat, PageLen * p + o < Pages * PageLen PROVE p < Pages
    <3>1. ASSUME p >= Pages PROVE FALSE
      <4>1. PICK k \in Nat : p = Pages + k
        BY <1>1, <3>1
      <4>2. PageLen * p = Pages * PageLen + PageLen * k /\ PageLen * k \in Nat
        BY <1>1, <4>1
      <4>. QED BY <1>1, <2>1, <4>2
    <3>. QED BY <1>1, <3>1
  <2>. QED BY <1>2, <1>3, <2>1
<1>5. Line(a) \in Lines
  <2>1. Offset(a) \in Nat /\ Offset(a) <= PageLen - 1 /\ PageLen - 1 \in Nat
    BY <1>1, <1>3
  <2>. DEFINE o == Offset(a)
              z == PageLen - 1
  <2>. HIDE DEF o, z
  <2>2. o \div LineLen <= z \div LineLen /\ o \div LineLen \in Nat
    BY <1>1, <2>1, DivMonotone, DivOK DEF o, z
  <2>3. z \div LineLen \in Nat
    BY <1>1, <2>1, DivOK DEF z
  <2>. QED BY <2>2, <2>3 DEF Line, Lines, o, z
<1>. QED BY <1>1, <1>2, <1>3, <1>4, <1>5 DEF PageNo

\* The byte after an address, in the same page or at the start of the next.
LEMMA NextOK ==
  ASSUME NEW a \in Address, NEW n \in Nat
  PROVE  /\ NextAddress(a, n) \in Address
         /\ Offset(a) + n < PageLen =>
              /\ NextAddress(a, n) = a + n
              /\ Page(a + n) = Page(a) /\ Offset(a + n) = Offset(a) + n
<1>1. Pages \in Nat \ {0} /\ PageLen \in Nat \ {0}
  BY CacheAssumption
<1>. DEFINE t == Pages * PageLen
<1>2. t \in Nat \ {0}
  BY <1>1
<1>3. NextAddress(a, n) \in Address
  <2>1. a + n \in Nat
    BY AddressOK
  <2>. HIDE DEF t
  <2>2. (a + n) % t \in 0 .. t - 1
    BY <1>2, <2>1
  <2>. QED BY <2>2 DEF NextAddress, Address, t
<1>4. ASSUME Offset(a) + n < PageLen
      PROVE  /\ NextAddress(a, n) = a + n
             /\ Page(a + n) = Page(a) /\ Offset(a + n) = Offset(a) + n
  <2>. DEFINE p == Page(a)
              o == Offset(a) + n
  <2>1. p \in Nat /\ p <= Pages - 1 /\ o \in 0 .. PageLen - 1 /\ a + n = PageLen * p + o /\ a + n \in Nat
    BY <1>1, <1>4, AddressOK DEF PageNo
  <2>. HIDE DEF p, o, t
  <2>2. \A x \in Nat, y \in 0 .. PageLen - 1 : (PageLen * x + y) \div PageLen = x /\ (PageLen * x + y) % PageLen = y
    BY <1>1
  <2>3. (a + n) \div PageLen = p /\ (a + n) % PageLen = o
    BY <2>1, <2>2
  <2>4. a + n < t
    <3>1. PICK k \in Nat : Pages = p + 1 + k
      BY <1>1, <2>1
    <3>2. t = PageLen * p + PageLen + PageLen * k /\ PageLen * k \in Nat
      BY <1>1, <2>1, <3>1 DEF t
    <3>. QED BY <1>1, <2>1, <3>2
  <2>5. (a + n) % t = a + n
    <3>1. \A x \in Nat, y \in Nat \ {0} : x < y => x % y = x
      OBVIOUS
    <3>. QED BY <1>2, <2>1, <2>4, <3>1
  <2>. QED BY <2>3, <2>5 DEF NextAddress, Page, Offset, t, p, o
<1>. QED BY <1>3, <1>4

\* The lines of a page are in the order of its bytes.
LEMMA LineOrder ==
  ASSUME NEW a \in Address, NEW n \in Nat, Offset(a) + n < PageLen
  PROVE  /\ a + n \in Address /\ Page(a + n) = Page(a)
         /\ Line(a) \in Nat /\ Line(a + n) \in Lines /\ Line(a) <= Line(a + n)
<1>1. a + n \in Address /\ Page(a + n) = Page(a) /\ Offset(a + n) = Offset(a) + n
  BY NextOK
<1>2. Line(a) \in Lines /\ Line(a + n) \in Lines
  BY <1>1, AddressOK
<1>3. Offset(a) \in Nat /\ LineLen \in Nat \ {0} /\ PageLen \in Nat
  BY AddressOK, CacheAssumption
<1>4. Offset(a) \div LineLen <= (Offset(a) + n) \div LineLen /\ Offset(a) \div LineLen \in Nat
  <2>. DEFINE o == Offset(a)
  <2>. HIDE DEF o
  <2>1. o \in Nat /\ o + n \in Nat /\ o <= o + n
    BY <1>3 DEF o
  <2>2. o \div LineLen <= (o + n) \div LineLen /\ o \div LineLen \in Nat
    BY <1>3, <2>1, DivMonotone, DivOK
  <2>. QED BY <2>2 DEF o
<1>. QED BY <1>1, <1>2, <1>4 DEF Line

\* The last line of a page is that of its last byte.
LEMMA LastLine ==
  ASSUME NEW a \in Address, Offset(a) = PageLen - 1
  PROVE  Line(a) = Max(Lines) /\ Max(Lines) \in Lines
<1>. DEFINE z == (PageLen - 1) \div LineLen
<1>1. z \in Nat
  <2>. DEFINE y == PageLen - 1
  <2>. HIDE DEF y
  <2>1. y \in Nat /\ LineLen \in Nat \ {0}
    BY CacheAssumption DEF y
  <2>2. y \div LineLen \in Nat
    BY <2>1, DivOK
  <2>. QED BY <2>2 DEF y
<1>2. Line(a) = z
  BY DEF Line
<1>. HIDE DEF z
<1>3. Lines = 0 .. z
  BY DEF Lines, z
<1>4. \A x \in 0 .. z : (\A y \in 0 .. z : x >= y) <=> x = z
  BY <1>1
<1>5. Max(0 .. z) = z
  <2>1. z \in 0 .. z /\ \A y \in 0 .. z : z >= y
    BY <1>1, <1>4
  <2>2. Max(0 .. z) \in 0 .. z /\ \A y \in 0 .. z : Max(0 .. z) >= y
    BY <2>1, Zenon DEF Max
  <2>. QED BY <1>4, <2>2
<1>. QED BY <1>1, <1>2, <1>3, <1>5

\* The length of an instruction.
LEMMA ILenOK ==
  ASSUME NEW m \in [Address -> Bytes], NEW a \in Address
  PROVE  ILen(m, a) \in 1 .. 2 /\ NextAddress(a, 0) = a
<1>1. ILen(m, a) \in 1 .. 2
  BY DEF ILen, MaxInsn
<1>2. Offset(a) + 0 < PageLen /\ a + 0 = a
  BY AddressOK, CacheAssumption
<1>3. NextAddress(a, 0) = a
  BY <1>2, NextOK
<1>. QED BY <1>1, <1>3

\* What is decoded has its type.
LEMMA DecodeOK ==
  ASSUME NEW m \in [Address -> Bytes], NEW a \in Address
  PROVE  /\ Decode(m, a) \in Decoded /\ Decode(m, a).pAddr = a /\ Decode(m, a).link = NoLink
         /\ Decode(m, a) # Dummy
         /\ Len(Decode(m, a).bytes) = ILen(m, a) /\ Decode(m, a).bytes[1] = m[a]
<1>1. ILen(m, a) \in 1 .. 2 /\ NextAddress(a, 0) = a /\ ILen(m, a) \in Nat
  BY ILenOK
<1>. DEFINE b == [n \in 1 .. ILen(m, a) |-> m[NextAddress(a, n - 1)]]
<1>2. \A n \in 1 .. ILen(m, a) : m[NextAddress(a, n - 1)] \in Bytes
  BY <1>1, NextOK
<1>3. b \in Seq(Bytes) /\ Len(b) = ILen(m, a)
  BY <1>1, <1>2
<1>4. b[1] = m[a]
  BY <1>1
<1>5. Decode(m, a) = [pAddr |-> a, bytes |-> b, link |-> NoLink]
  BY DEF Decode
<1>. HIDE DEF b
<1>6. NoLink \in Link
  BY DEF NoLink, Link
<1>7. a # Invalid
  BY AddressOK DEF Invalid
<1>. QED BY <1>3, <1>4, <1>5, <1>6, <1>7 DEF Decoded, Dummy

\* The lines of an instruction that stays in its page, and of one that does not.
LEMMA InsnLinesOK ==
  ASSUME NEW m \in [Address -> Bytes], NEW a \in Address
  PROVE  /\ LineOf(a) \in InsnLines(m, a)
         /\ ~PageSplit(m, a) =>
              /\ a + ILen(m, a) - 1 \in Address
              /\ InsnLines(m, a) = {Page(a)} \X {Line(a), Line(a + ILen(m, a) - 1)}
              /\ Line(a) <= Line(a + ILen(m, a) - 1)
              /\ Line(a) \in Lines /\ Line(a + ILen(m, a) - 1) \in Lines
              /\ Offset(a) + ILen(m, a) # PageLen =>
                   /\ a + ILen(m, a) \in Address /\ NextAddress(a, ILen(m, a)) = a + ILen(m, a)
                   /\ Page(a + ILen(m, a)) = Page(a) /\ Line(a) <= Line(a + ILen(m, a))
         /\ PageSplit(m, a) =>
              /\ Offset(a) = PageLen - 1 /\ Line(a) = Max(Lines) /\ Max(Lines) \in Lines
              /\ SecondPage(m, a) \in PageNo
              /\ InsnLines(m, a) \subseteq {<<Page(a), Max(Lines)>>, <<SecondPage(m, a), 0>>}
              /\ 0 \in Lines
<1>1. ILen(m, a) \in 1 .. 2 /\ NextAddress(a, 0) = a
  BY ILenOK
<1>2. /\ a \in Nat /\ Offset(a) \in 0 .. PageLen - 1 /\ PageLen \in Nat \ {0} /\ LineLen \in Nat \ {0}
      /\ Line(a) \in Lines /\ Page(a) \in PageNo
  BY AddressOK, CacheAssumption
<1>3. LineOf(a) \in InsnLines(m, a)
  BY <1>1 DEF InsnLines
<1>. DEFINE n == ILen(m, a)
<1>4. n = 1 \/ n = 2
  BY <1>1
<1>5. n = 1 => InsnLines(m, a) = {LineOf(a)}
  <2>1. ASSUME n = 1 PROVE 0 .. n - 1 = {0}
    BY <2>1
  <2>. QED BY <1>1, <2>1 DEF InsnLines
<1>6. n = 2 => InsnLines(m, a) = {LineOf(a), LineOf(NextAddress(a, 1))}
  <2>1. ASSUME n = 2 PROVE 0 .. n - 1 = {0, 1}
    BY <2>1
  <2>. QED BY <1>1, <2>1 DEF InsnLines
<1>. HIDE DEF n
<1>7. ASSUME ~PageSplit(m, a)
      PROVE  /\ a + n - 1 \in Address
             /\ InsnLines(m, a) = {Page(a)} \X {Line(a), Line(a + n - 1)}
             /\ Line(a) <= Line(a + n - 1)
             /\ Line(a) \in Lines /\ Line(a + n - 1) \in Lines
             /\ Offset(a) + n # PageLen =>
                  /\ a + n \in Address /\ NextAddress(a, n) = a + n
                  /\ Page(a + n) = Page(a) /\ Line(a) <= Line(a + n)
  <2>1. Offset(a) + n <= PageLen
    BY <1>2, <1>4, <1>7 DEF PageSplit, n
  <2>2. CASE n = 1
    <3>1. a + n - 1 = a
      BY <1>2, <2>2
    <3>2. Line(a) <= Line(a)
      BY <1>2, LineOrder
    <3>3. InsnLines(m, a) = {Page(a)} \X {Line(a), Line(a)}
      BY <1>5, <2>2 DEF LineOf
    <3>4. Offset(a) + n # PageLen => Offset(a) + n < PageLen
      BY <1>2, <2>1, <2>2
    <3>. QED BY <1>2, <1>4, <3>1, <3>2, <3>3, <3>4, NextOK, LineOrder
  <2>3. CASE n = 2
    <3>1. a + n - 1 = a + 1 /\ Offset(a) + 1 < PageLen
      BY <1>2, <2>1, <2>3
    <3>2. a + 1 \in Address /\ Line(a) <= Line(a + 1) /\ Line(a + 1) \in Lines /\ Page(a + 1) = Page(a)
      BY <3>1, LineOrder
    <3>3. InsnLines(m, a) = {Page(a)} \X {Line(a), Line(a + 1)}
      BY <1>6, <2>3, <3>1, <3>2, NextOK DEF LineOf
    <3>4. Offset(a) + n # PageLen => Offset(a) + n < PageLen
      BY <1>2, <2>1, <2>3
    <3>. QED BY <1>2, <1>4, <3>1, <3>2, <3>3, <3>4, NextOK, LineOrder
  <2>. QED BY <1>4, <2>2, <2>3
<1>8. ASSUME PageSplit(m, a)
      PROVE  /\ Offset(a) = PageLen - 1 /\ Line(a) = Max(Lines) /\ Max(Lines) \in Lines
             /\ SecondPage(m, a) \in PageNo
             /\ InsnLines(m, a) \subseteq {<<Page(a), Max(Lines)>>, <<SecondPage(m, a), 0>>}
             /\ 0 \in Lines
  <2>1. Offset(a) + n > PageLen
    BY <1>8 DEF PageSplit, n
  <2>2. n = 2 /\ Offset(a) = PageLen - 1
    BY <1>2, <1>4, <2>1
  <2>3. Line(a) = Max(Lines) /\ Max(Lines) \in Lines
    BY <2>2, LastLine
  <2>4. NextAddress(a, 1) \in Address /\ SecondPage(m, a) = Page(NextAddress(a, 1))
    BY <2>2, NextOK DEF SecondPage, n
  <2>5. Line(NextAddress(a, 1)) = 0 /\ 0 \in Lines
    <3>. DEFINE t == Pages * PageLen
                p == Page(a)
    <3>1. p \in Nat /\ p <= Pages - 1 /\ a + 1 = PageLen * (p + 1) /\ Pages \in Nat \ {0} /\ a + 1 \in Nat
      BY <1>2, <2>2, AddressOK, CacheAssumption DEF PageNo
    <3>2. CASE p + 1 = Pages
      <4>1. a + 1 = t /\ t \in Nat \ {0}
        BY <1>2, <3>1, <3>2
      <4>2. \A x \in Nat \ {0} : x % x = 0
        OBVIOUS
      <4>3. NextAddress(a, 1) = 0
        BY <4>1, <4>2 DEF NextAddress
      <4>4. 0 % PageLen = 0 /\ 0 \div LineLen = 0
        BY <1>2
      <4>5. Line(NextAddress(a, 1)) = 0
        BY <4>3, <4>4 DEF Line, Offset
      <4>. QED BY <2>4, <4>5, AddressOK
    <3>3. CASE p + 1 # Pages
      <4>1. a + 1 < t
        <5>1. \A u, w \in Nat : u <= w - 1 /\ u + 1 # w => \E k \in Nat : w = u + 2 + k
          <6>. SUFFICES ASSUME NEW u \in Nat, NEW w \in Nat, u <= w - 1, u + 1 # w
                        PROVE  \E k \in Nat : w = u + 2 + k
            OBVIOUS
          <6>1. w - u - 2 \in Nat /\ w = u + 2 + (w - u - 2)
            OBVIOUS
          <6>. QED BY <6>1
        <5>2. PICK k \in Nat : Pages = p + 2 + k
          <6>. HIDE DEF p
          <6>. QED BY <3>1, <3>3, <5>1
        <5>3. t = PageLen * (p + 1) + PageLen + PageLen * k /\ PageLen * k \in Nat
          BY <1>2, <3>1, <5>2
        <5>4. PageLen * (p + 1) \in Nat
          BY <1>2, <3>1
        <5>. HIDE DEF t, p
        <5>. QED BY <1>2, <3>1, <5>3, <5>4
      <4>2. t \in Nat \ {0}
        BY <1>2, <3>1
      <4>3. \A x \in Nat, y \in Nat \ {0} : x < y => x % y = x
        OBVIOUS
      <4>4. NextAddress(a, 1) = a + 1
        BY <3>1, <4>1, <4>2, <4>3 DEF NextAddress
      <4>5. (a + 1) % PageLen = 0
        <5>1. \A x \in Nat : (PageLen * x) % PageLen = 0
          BY <1>2
        <5>. QED BY <3>1, <5>1
      <4>6. 0 \div LineLen = 0
        BY <1>2
      <4>7. Line(NextAddress(a, 1)) = 0
        BY <4>4, <4>5, <4>6 DEF Line, Offset
      <4>. QED BY <2>4, <4>7, AddressOK
    <3>. QED BY <3>2, <3>3
  <2>6. SecondPage(m, a) \in PageNo
    BY <2>4, AddressOK
  <2>. QED BY <1>6, <2>2, <2>3, <2>4, <2>5, <2>6 DEF LineOf
<1>. QED BY <1>3, <1>7, <1>8 DEF n

\* Memory that does not change in the lines of an instruction still holds it.
LEMMA DecodeKept ==
  ASSUME NEW m \in [Address -> Bytes], NEW x \in [Address -> Bytes], NEW a \in Address,
         \A b \in Address : LineOf(b) \in InsnLines(m, a) => x[b] = m[b]
  PROVE  /\ ILen(x, a) = ILen(m, a) /\ Decode(x, a) = Decode(m, a)
         /\ InsnLines(x, a) = InsnLines(m, a)
<1>1. x[a] = m[a]
  BY InsnLinesOK
<1>2. ILen(x, a) = ILen(m, a)
  BY <1>1 DEF ILen
<1>3. \A n \in 1 .. ILen(m, a) : NextAddress(a, n - 1) \in Address /\ LineOf(NextAddress(a, n - 1)) \in InsnLines(m, a)
  BY ILenOK, NextOK DEF InsnLines
<1>4. \A n \in 1 .. ILen(m, a) : x[NextAddress(a, n - 1)] = m[NextAddress(a, n - 1)]
  BY <1>3
<1>. QED BY <1>2, <1>4 DEF Decode, InsnLines

-----------------------------------------------------------------------------
(* What keeps traces fresh.                                                *)

\* Cache d has at place k what c has, up to its link, or a dummy.
Keeps(c, d, k) ==
  \/ d.pool[k] = Dummy
  \/ /\ c.pool[k] \in Decoded /\ d.pool[k] \in Decoded
     /\ d.pool[k].pAddr = c.pool[k].pAddr /\ d.pool[k].bytes = c.pool[k].bytes

\* A dummy is no instruction.
LEMMA DummyOK == Dummy \notin Decoded /\ Dummy.pAddr = Invalid /\ Dummy.link = NoLink
<1>1. Invalid \notin Address
  BY AddressOK DEF Invalid
<1>. QED BY <1>1 DEF Dummy, Decoded

\* A place stays fresh if it and its successor keep, and its lines too.
LEMMA FreshKept ==
  ASSUME NEW c, NEW d, NEW m \in [Address -> Bytes], NEW x \in [Address -> Bytes],
         NEW mp, NEW mq, NEW k,
         Fresh(c, m, mp, k), Keeps(c, d, k), c.pool[k] # Dummy => Keeps(c, d, k + 1),
         c.pool[k] # Dummy =>
           /\ InsnLines(m, c.pool[k].pAddr) \subseteq mq
           /\ \A b \in Address : LineOf(b) \in InsnLines(m, c.pool[k].pAddr) => x[b] = m[b]
  PROVE  Fresh(d, x, mq, k)
<1>1. CASE d.pool[k] = Dummy
  BY <1>1 DEF Fresh
<1>2. CASE d.pool[k] # Dummy
  <2>. DEFINE a == c.pool[k].pAddr
  <2>1. /\ c.pool[k] \in Decoded /\ d.pool[k] \in Decoded /\ c.pool[k] # Dummy
        /\ d.pool[k].pAddr = a /\ d.pool[k].bytes = c.pool[k].bytes
    BY <1>2, DummyOK DEF Keeps
  <2>2. a \in Address
    BY <2>1 DEF Decoded
  <2>3. /\ c.pool[k].bytes = Decode(m, a).bytes
        /\ \/ c.pool[k].bytes[1] = "branch"
           \/ c.pool[k + 1] = Dummy
           \/ c.pool[k + 1].pAddr = NextAddress(a, ILen(m, a))
    BY <2>1 DEF Fresh
  <2>4. InsnLines(m, a) \subseteq mq /\ Keeps(c, d, k + 1)
    BY <2>1
  <2>5. ILen(x, a) = ILen(m, a) /\ Decode(x, a) = Decode(m, a) /\ InsnLines(x, a) = InsnLines(m, a)
    BY <2>1, <2>2, DecodeKept
  <2>. HIDE DEF a
  <2>6. \/ d.pool[k].bytes[1] = "branch"
        \/ d.pool[k + 1] = Dummy
        \/ d.pool[k + 1].pAddr = NextAddress(a, ILen(x, a))
    BY <2>1, <2>3, <2>4, <2>5, DummyOK DEF Keeps
  <2>. QED BY <2>1, <2>3, <2>4, <2>5, <2>6 DEF Fresh
<1>. QED BY <1>1, <1>2

\* Where execution may enter, it may still enter after a change of memory outside
\* of the lines that hold code, and with more of the pool in use.
LEMMA RunsKept ==
  ASSUME NEW c \in Cache, NEW d \in Cache,
         NEW m \in [Address -> Bytes], NEW x \in [Address -> Bytes],
         NEW mp, NEW mq, mp \subseteq mq,
         \A b \in Address : LineOf(b) \in mp => x[b] = m[b],
         c.mpindex <= d.mpindex,
         \A k \in 0 .. c.mpindex - 1 : Keeps(c, d, k),
         NEW p, NEW a, Runs(c, m, mp, p, a)
  PROVE  Runs(d, x, mq, p, a)
<1>1. /\ c.mpindex \in Nat /\ d.mpindex \in Nat
      /\ c.pool \in [Place -> Decoded \cup {Dummy}] /\ c.mpindex <= PoolLen /\ PoolLen \in Nat
  BY CacheAssumption DEF Cache
<1>2. p \in Nat
  BY DEF Runs
<1>3. PICK q \in p .. c.mpindex - 1 : c.pool[q] = Dummy /\ \A k \in p .. q : Fresh(c, m, mp, k)
  BY DEF Runs
<1>4. q \in p .. d.mpindex - 1 /\ p \in 0 .. c.mpindex - 1 /\ q \in 0 .. c.mpindex - 1 /\ p \in p .. q
  BY <1>1, <1>2, <1>3
<1>5. \A k \in 0 .. c.mpindex - 1 : c.pool[k] = Dummy => d.pool[k] = Dummy
  BY DummyOK DEF Keeps
<1>6. d.pool[p] = Dummy \/ d.pool[p].pAddr = a
  BY <1>4, DummyOK DEF Keeps, Runs
<1>7. ASSUME NEW k \in p .. q PROVE Fresh(d, x, mq, k)
  <2>1. k \in 0 .. c.mpindex - 1
    BY <1>1, <1>2, <1>3, <1>7
  <2>2. c.pool[k] # Dummy => k + 1 \in 0 .. c.mpindex - 1
    <3>1. k # q => k + 1 \in 0 .. c.mpindex - 1
      BY <1>1, <1>2, <1>3, <1>7
    <3>. QED BY <1>3, <3>1
  <2>3. Fresh(c, m, mp, k)
    BY <1>3
  <2>4. c.pool[k] # Dummy => InsnLines(m, c.pool[k].pAddr) \subseteq mp
    BY <2>3 DEF Fresh
  <2>. QED BY <2>1, <2>2, <2>3, <2>4, FreshKept
<1>. QED BY <1>2, <1>3, <1>4, <1>5, <1>6, <1>7 DEF Runs

\* What an entry depends on is decided by its first byte.
LEMMA EntryLinesKept ==
  ASSUME NEW m \in [Address -> Bytes], NEW x \in [Address -> Bytes], NEW e \in Entry,
         e.pAddr \in Address, x[e.pAddr] = m[e.pAddr]
  PROVE  /\ ILen(x, e.pAddr) = ILen(m, e.pAddr)
         /\ PageSplit(x, e.pAddr) <=> PageSplit(m, e.pAddr)
         /\ SecondPage(x, e.pAddr) = SecondPage(m, e.pAddr)
         /\ EntryLines(x, e) = EntryLines(m, e)
<1>1. ILen(x, e.pAddr) = ILen(m, e.pAddr)
  BY DEF ILen
<1>2. PageSplit(x, e.pAddr) <=> PageSplit(m, e.pAddr)
  BY <1>1 DEF PageSplit
<1>3. SecondPage(x, e.pAddr) = SecondPage(m, e.pAddr)
  BY <1>1 DEF SecondPage
<1>. QED BY <1>1, <1>2, <1>3 DEF EntryLines

\* A trace stays as it should be if its lines are neither written nor unmarked.
LEMMA TraceKept ==
  ASSUME NEW c \in Cache, NEW d \in Cache,
         NEW m \in [Address -> Bytes], NEW x \in [Address -> Bytes],
         NEW mp, NEW mq, NEW s \in Slot,
         c.entry[s].pAddr \in Address, d.entry[s] = c.entry[s],
         c.entry[s].tlen >= 1, c.pool[c.entry[s].i + c.entry[s].tlen - 1] = Dummy,
         \A k \in Extent(c.entry[s]) : Keeps(c, d, k),
         EntryLines(m, c.entry[s]) \subseteq mq,
         \A b \in Address : LineOf(b) \in EntryLines(m, c.entry[s]) => x[b] = m[b],
         \A k \in DOMAIN c.split :
           c.split[k] = [ppf |-> SecondPage(m, c.entry[s].pAddr), e |-> s] => d.split[k] = c.split[k],
         TraceOK(c, m, mp, s)
  PROVE  TraceOK(d, x, mq, s)
<1>. DEFINE e == c.entry[s]
<1>1. /\ e \in Entry /\ e.pAddr \in Address /\ e.i \in Nat /\ e.tlen \in Nat /\ e.tlen >= 1
      /\ DOMAIN d.split = DOMAIN c.split
  BY DEF Cache, Entry
<1>. HIDE DEF e
<1>2. /\ c.pool[e.i] = Dummy \/ c.pool[e.i].pAddr = e.pAddr
      /\ \A k \in Extent(e) :
           /\ Fresh(c, m, mp, k)
           /\ c.pool[k] # Dummy => InsnLines(m, c.pool[k].pAddr) \subseteq EntryLines(m, e)
      /\ Line(e.pAddr) \in e.traceMask
      /\ \A l \in e.traceMask : Line(e.pAddr) <= l
      /\ PageSplit(m, e.pAddr) =>
           \E k \in DOMAIN c.split : c.split[k] = [ppf |-> SecondPage(m, e.pAddr), e |-> s]
  BY DEF TraceOK, e
<1>3. LineOf(e.pAddr) \in EntryLines(m, e)
  BY <1>2 DEF LineOf, EntryLines
<1>4. x[e.pAddr] = m[e.pAddr]
  BY <1>1, <1>3 DEF e
<1>5. /\ PageSplit(x, e.pAddr) <=> PageSplit(m, e.pAddr)
      /\ SecondPage(x, e.pAddr) = SecondPage(m, e.pAddr)
      /\ EntryLines(x, e) = EntryLines(m, e)
  BY <1>1, <1>4, EntryLinesKept DEF e
<1>6. e.i \in Extent(e) /\ \A k \in Extent(e) : k = e.i + e.tlen - 1 \/ k + 1 \in Extent(e)
  BY <1>1 DEF Extent
<1>7. d.pool[e.i] = Dummy \/ d.pool[e.i].pAddr = e.pAddr
  BY <1>2, <1>6, DummyOK DEF Keeps, e
<1>8. ASSUME NEW k \in Extent(e)
      PROVE  /\ Fresh(d, x, mq, k)
             /\ d.pool[k] # Dummy => InsnLines(x, d.pool[k].pAddr) \subseteq EntryLines(x, e)
  <2>1. Keeps(c, d, k) /\ (c.pool[k] # Dummy => Keeps(c, d, k + 1))
    BY <1>6 DEF e
  <2>2. /\ Fresh(c, m, mp, k)
        /\ c.pool[k] # Dummy => InsnLines(m, c.pool[k].pAddr) \subseteq EntryLines(m, e)
    BY <1>2
  <2>3. c.pool[k] # Dummy =>
          /\ InsnLines(m, c.pool[k].pAddr) \subseteq mq
          /\ \A b \in Address : LineOf(b) \in InsnLines(m, c.pool[k].pAddr) => x[b] = m[b]
    BY <2>2 DEF e
  <2>4. Fresh(d, x, mq, k)
    BY <2>1, <2>2, <2>3, FreshKept
  <2>5. ASSUME d.pool[k] # Dummy PROVE InsnLines(x, d.pool[k].pAddr) \subseteq EntryLines(x, e)
    <3>1. c.pool[k] \in Decoded /\ d.pool[k].pAddr = c.pool[k].pAddr /\ c.pool[k] # Dummy
      BY <2>1, <2>5, DummyOK DEF Keeps
    <3>2. c.pool[k].pAddr \in Address
      BY <3>1 DEF Decoded
    <3>3. InsnLines(x, c.pool[k].pAddr) = InsnLines(m, c.pool[k].pAddr)
      BY <2>3, <3>1, <3>2, DecodeKept
    <3>. QED BY <1>5, <2>2, <3>1, <3>3
  <2>. QED BY <2>4, <2>5
<1>9. PageSplit(x, e.pAddr) =>
        \E k \in DOMAIN d.split : d.split[k] = [ppf |-> SecondPage(x, e.pAddr), e |-> s]
  BY <1>1, <1>2, <1>5 DEF e
<1>10. d.entry[s] = e /\ EntryLines(x, e) \subseteq mq
  BY <1>5 DEF e
<1>. QED BY <1>2, <1>7, <1>8, <1>9, <1>10 DEF TraceOK

-----------------------------------------------------------------------------
(* Flushing and breaking links.                                            *)

\* No place has a link of the current time stamp.
Unlinked(c) ==
  \A k \in 0 .. c.mpindex - 1 : c.pool[k].link.next = Invalid \/ c.pool[k].link.stamp < c.stamp

\* An empty entry is one that no address finds.
LEMMA NoEntryOK == NoEntry \in Entry /\ NoEntry.pAddr \notin Address /\ Invalid \notin Address
<1>1. Invalid \notin Address
  BY AddressOK DEF Invalid
<1>. QED BY <1>1 DEF NoEntry, Entry, Invalid

\* The parts of a cache.
LEMMA CacheOK ==
  ASSUME NEW c \in Cache
  PROVE  /\ \A s \in Slot : /\ c.entry[s] \in Entry
                            /\ c.entry[s].pAddr \in Int
                            /\ c.entry[s].traceMask \subseteq Lines
                            /\ c.entry[s].age \in Nat /\ c.entry[s].tlen \in Nat /\ c.entry[s].i \in Nat
         /\ \A k \in Place : c.pool[k] \in Decoded \cup {Dummy}
         /\ \A k \in 0 .. SplitEntries - 1 : c.split[k].e \in Slot
         /\ DOMAIN c.entry = Slot /\ DOMAIN c.pool = Place /\ DOMAIN c.split = 0 .. SplitEntries - 1
         /\ c.mpindex \in Nat /\ c.mpindex <= PoolLen /\ PoolLen \in Nat /\ c.stamp \in Nat
         /\ \A k \in 0 .. c.mpindex - 1 : k \in Place
<1>1. /\ c.entry \in [Slot -> Entry] /\ c.pool \in [Place -> Decoded \cup {Dummy}]
      /\ c.split \in [0 .. SplitEntries - 1 -> [ppf : PageNo \cup {Invalid}, e : Slot]]
      /\ c.mpindex \in 0 .. PoolLen /\ c.stamp \in 0 .. MaxStamp - 1
  BY DEF Cache
<1>2. \A x \in Entry : /\ x.pAddr \in Int /\ x.traceMask \subseteq Lines
                       /\ x.age \in Nat /\ x.tlen \in Nat /\ x.i \in Nat
  BY DEF Entry
<1>3. \A x \in [ppf : PageNo \cup {Invalid}, e : Slot] : x.e \in Slot
  OBVIOUS
<1>4. PoolLen \in Nat /\ MaxStamp \in Nat
  BY CacheAssumption
<1>5. c.mpindex \in Nat /\ c.mpindex <= PoolLen /\ c.stamp \in Nat
  BY <1>1, <1>4
<1>6. \A k \in 0 .. c.mpindex - 1 : k \in Place
  BY <1>4, <1>5 DEF Place
<1>. QED BY <1>1, <1>2, <1>3, <1>4, <1>5, <1>6

\* Traces that can be found lie within the used part of the pool.
LEMMA ExtentOK ==
  ASSUME NEW c \in Cache, NEW n, EntriesOK(c, n), NEW s \in Slot, c.entry[s].pAddr \in Address
  PROVE  /\ c.entry[s].i \in Nat /\ c.entry[s].tlen \in Nat /\ c.entry[s].tlen >= 1
         /\ c.entry[s].i + c.entry[s].tlen <= c.mpindex
         /\ c.pool[c.entry[s].i + c.entry[s].tlen - 1] = Dummy
         /\ c.entry[s].i + c.entry[s].tlen - 1 \in Place
         /\ Extent(c.entry[s]) \subseteq 0 .. c.mpindex - 1
         /\ \A k \in Extent(c.entry[s]) : k \in Place
<1>. DEFINE i == c.entry[s].i
            l == c.entry[s].tlen
<1>1. i \in Nat /\ l \in Nat /\ c.mpindex \in Nat /\ \A k \in 0 .. c.mpindex - 1 : k \in Place
  BY CacheOK
<1>2. l >= 1 /\ i + l <= c.mpindex /\ c.pool[i + l - 1] = Dummy
  BY DEF EntriesOK
<1>3. Extent(c.entry[s]) = i .. i + l - 1
  BY DEF Extent
<1>. HIDE DEF i, l
<1>4. i + l - 1 \in 0 .. c.mpindex - 1 /\ i .. i + l - 1 \subseteq 0 .. c.mpindex - 1
  BY <1>1, <1>2
<1>. QED BY <1>1, <1>2, <1>3, <1>4 DEF i, l

\* The stamp of a link is a number.
LEMMA LinkOK ==
  ASSUME NEW x \in Decoded \cup {Dummy}
  PROVE  x.link \in Link /\ x.link.stamp \in Nat /\ x.link.next \in Place \cup {Invalid}
<1>1. NoLink \in Link
  BY DEF NoLink, Link
<1>2. x.link \in Link
  BY <1>1, DummyOK DEF Decoded
<1>. QED BY <1>2 DEF Link

\* Without links of the current time stamp there is nothing to say of them.
LEMMA UnlinkedOK ==
  ASSUME NEW c \in Cache, Unlinked(c), NEW m, NEW mp, NEW sp
  PROVE  LinksOK(c, m, mp, sp)
<1>1. \A k \in 0 .. c.mpindex - 1 : c.pool[k].link.stamp \in Nat /\ c.stamp \in Nat
  BY CacheOK, LinkOK
<1>. QED BY <1>1 DEF Unlinked, LinksOK

\* A cache without entries and without instructions satisfies everything.
LEMMA EmptyOK ==
  ASSUME NEW c \in Cache, c.mpindex = 0, \A s \in Slot : c.entry[s].pAddr \notin Address,
         NEW n, NEW m, NEW mp
  PROVE  EntriesOK(c, n) /\ StampsOK(c) /\ Unlinked(c) /\ CodeOK(c, m, mp, n)
<1>1. 0 .. c.mpindex - 1 = {}
  OBVIOUS
<1>. QED BY <1>1 DEF EntriesOK, StampsOK, Unlinked, CodeOK

\* flushICacheEntries() leaves a cache without entries.
LEMMA FlushOK ==
  ASSUME NEW c \in Cache
  PROVE  /\ FlushEntries(c) \in Cache /\ FlushEntries(c).mpindex = 0
         /\ \A s \in Slot : FlushEntries(c).entry[s].pAddr \notin Address
<1>. DEFINE d == FlushEntries(c)
<1>1. /\ NoEntry \in Entry /\ NoEntry.pAddr \notin Address
      /\ NoSplit \in [ppf : PageNo \cup {Invalid}, e : Slot]
  BY NoEntryOK, CacheAssumption DEF NoSplit, Slot
<1>2. /\ 0 \in 0 .. SplitEntries - 1 /\ 0 \in 0 .. PoolLen /\ 0 \in 0 .. MaxStamp - 1
  BY CacheAssumption
<1>3. /\ c.entry \in [Slot -> Entry] /\ c.pool \in [Place -> Decoded \cup {Dummy}]
      /\ c.split \in [0 .. SplitEntries - 1 -> [ppf : PageNo \cup {Invalid}, e : Slot]]
      /\ c = [entry |-> c.entry, pool |-> c.pool, split |-> c.split, nextSplit |-> c.nextSplit,
              mpindex |-> c.mpindex, stamp |-> c.stamp]
  BY DEF Cache
<1>. DEFINE E == [s \in Slot |-> NoEntry]
            P == [k \in 0 .. SplitEntries - 1 |-> NoSplit]
<1>4. d = [c EXCEPT !.entry = E, !.split = P, !.nextSplit = 0, !.mpindex = 0, !.stamp = 0]
  <2>1. DOMAIN c.entry = Slot /\ DOMAIN c.split = 0 .. SplitEntries - 1
    BY <1>3
  <2>. QED BY <2>1, Zenon DEF FlushEntries
<1>5. /\ E \in [Slot -> Entry] /\ \A s \in Slot : E[s] = NoEntry
      /\ P \in [0 .. SplitEntries - 1 -> [ppf : PageNo \cup {Invalid}, e : Slot]]
  BY <1>1
<1>. HIDE DEF d, E, P
<1>6. d.entry = E /\ d.mpindex = 0
  BY <1>3, <1>4
<1>7. d \in Cache
  BY <1>2, <1>4, <1>5 DEF Cache
<1>. QED BY <1>1, <1>5, <1>6, <1>7 DEF d

\* breakLinks() breaks every link, and leaves traces as they are or none at all.
LEMMA BreakOK ==
  ASSUME NEW c \in Cache, NEW n, EntriesOK(c, n), StampsOK(c)
  PROVE  /\ BreakLinks(c) \in Cache /\ EntriesOK(BreakLinks(c), n)
         /\ StampsOK(BreakLinks(c)) /\ Unlinked(BreakLinks(c))
         /\ \A s \in Slot : BreakLinks(c).entry[s] = c.entry[s] \/ BreakLinks(c).entry[s].pAddr \notin Address
         /\ \A m \in [Address -> Bytes] : \A mp : CodeOK(c, m, mp, n) => CodeOK(BreakLinks(c), m, mp, n)
<1>1. CASE Wraps(c)
  <2>1. BreakLinks(c) = FlushEntries(c)
    BY <1>1 DEF BreakLinks
  <2>. QED BY <2>1, FlushOK, EmptyOK
<1>2. CASE ~Wraps(c)
  <2>. DEFINE d == BreakLinks(c)
  <2>1. d = [c EXCEPT !.stamp = @ + 1]
    BY <1>2 DEF BreakLinks
  <2>2. c.stamp \in 0 .. MaxStamp - 1 /\ MaxStamp \in Nat /\ c.stamp + 1 # MaxStamp
    BY <1>2, CacheAssumption DEF Cache, Wraps
  <2>3. /\ d \in Cache /\ d.entry = c.entry /\ d.pool = c.pool /\ d.split = c.split
        /\ d.mpindex = c.mpindex /\ d.stamp = c.stamp + 1
    BY <2>1, <2>2 DEF Cache
  <2>. HIDE DEF d
  <2>4. EntriesOK(d, n)
    BY <2>3 DEF EntriesOK
  <2>5. \A k \in 0 .. c.mpindex - 1 : c.pool[k].link.stamp \in Nat /\ c.pool[k].link.stamp <= c.stamp
    BY CacheOK, LinkOK DEF StampsOK
  <2>6. StampsOK(d) /\ Unlinked(d)
    BY <2>2, <2>3, <2>5 DEF StampsOK, Unlinked
  <2>7. ASSUME NEW m \in [Address -> Bytes], NEW mp, CodeOK(c, m, mp, n) PROVE CodeOK(d, m, mp, n)
    BY <2>3, <2>7 DEF CodeOK, TraceOK, Fresh
  <2>. QED BY <2>3, <2>4, <2>6, <2>7 DEF d
<1>. QED BY <1>1, <1>2

\* flushSMC() removes the entries of slots S and turns places into dummies.
LEMMA FlushSMCOK ==
  ASSUME NEW c \in Cache, NEW n, EntriesOK(c, n), StampsOK(c), Unlinked(c), NEW S \in SUBSET Slot
  PROVE  LET d == FlushSMC(c, S)
         IN  /\ d \in Cache /\ EntriesOK(d, n) /\ StampsOK(d) /\ Unlinked(d)
             /\ d.split = c.split /\ d.mpindex = c.mpindex
             /\ \A s \in Slot : d.entry[s].pAddr \in Address => s \notin S /\ d.entry[s] = c.entry[s]
             /\ \A k \in Place : d.pool[k] = c.pool[k] \/ d.pool[k] = Dummy
<1>. DEFINE live == {s \in S : c.entry[s].pAddr # Invalid}
            dead == {c.entry[s].i : s \in live}
            d == FlushSMC(c, S)
<1>1. NoEntry \in Entry /\ NoEntry.pAddr \notin Address
  BY NoEntryOK
<1>2. /\ c.entry \in [Slot -> Entry] /\ c.pool \in [Place -> Decoded \cup {Dummy}]
      /\ c = [entry |-> c.entry, pool |-> c.pool, split |-> c.split, nextSplit |-> c.nextSplit,
              mpindex |-> c.mpindex, stamp |-> c.stamp]
  BY DEF Cache
<1>. DEFINE E == [s \in Slot |-> IF s \in live THEN NoEntry ELSE c.entry[s]]
            P == [k \in Place |-> IF k \in dead THEN Dummy ELSE c.pool[k]]
<1>3. d = [c EXCEPT !.entry = E, !.pool = P]
  <2>1. DOMAIN c.entry = Slot /\ DOMAIN c.pool = Place
    BY <1>2
  <2>. QED BY <2>1, Zenon DEF FlushSMC
<1>. HIDE DEF live, dead
<1>4. /\ E \in [Slot -> Entry] /\ P \in [Place -> Decoded \cup {Dummy}]
      /\ \A s \in Slot : E[s] = IF s \in live THEN NoEntry ELSE c.entry[s]
      /\ \A k \in Place : P[k] = IF k \in dead THEN Dummy ELSE c.pool[k]
  BY <1>1, <1>2
<1>. HIDE DEF d, E, P
<1>5. /\ d.split = c.split /\ d.mpindex = c.mpindex /\ d.stamp = c.stamp
      /\ \A s \in Slot : d.entry[s] = IF s \in live THEN NoEntry ELSE c.entry[s]
      /\ \A k \in Place : d.pool[k] = IF k \in dead THEN Dummy ELSE c.pool[k]
  BY <1>2, <1>3, <1>4
<1>6. d \in Cache
  BY <1>3, <1>4 DEF Cache
<1>7. \A s \in Slot : d.entry[s].pAddr \in Address => s \notin S /\ d.entry[s] = c.entry[s]
  <2>1. \A s \in Slot : c.entry[s].pAddr \in Address => c.entry[s].pAddr # Invalid
    BY NoEntryOK
  <2>. QED BY <1>1, <1>5, <2>1 DEF live
<1>8. \A k \in Place : d.pool[k] = c.pool[k] \/ d.pool[k] = Dummy
  BY <1>5
<1>9. EntriesOK(d, n)
  <2>1. ASSUME NEW s \in Slot, d.entry[s].pAddr \in Address
        PROVE  /\ Hash(d.entry[s].pAddr) = s
               /\ d.entry[s].age <= n
               /\ d.entry[s].tlen >= 1
               /\ d.entry[s].i + d.entry[s].tlen <= d.mpindex
               /\ d.pool[d.entry[s].i + d.entry[s].tlen - 1] = Dummy
    <3>1. d.entry[s] = c.entry[s]
      BY <1>7, <2>1
    <3>2. /\ Hash(c.entry[s].pAddr) = s /\ c.entry[s].age <= n /\ c.entry[s].tlen >= 1
          /\ c.entry[s].i + c.entry[s].tlen <= c.mpindex
          /\ c.pool[c.entry[s].i + c.entry[s].tlen - 1] = Dummy
      BY <2>1, <3>1 DEF EntriesOK
    <3>3. c.entry[s].i + c.entry[s].tlen - 1 \in Place
      BY <2>1, <3>1, ExtentOK
    <3>. QED BY <1>5, <1>8, <3>1, <3>2, <3>3
  <2>2. \A s, r \in Slot :
          s # r /\ d.entry[s].pAddr \in Address /\ d.entry[r].pAddr \in Address =>
            Extent(d.entry[s]) \cap Extent(d.entry[r]) = {}
    BY <1>7 DEF EntriesOK
  <2>. QED BY <2>1, <2>2 DEF EntriesOK
<1>10. StampsOK(d) /\ Unlinked(d)
  <2>1. \A k \in 0 .. c.mpindex - 1 : k \in Place
    BY CacheOK
  <2>2. Dummy.link.next = Invalid /\ Dummy.link.stamp = 0 /\ c.stamp \in Nat
    BY CacheOK, DummyOK DEF NoLink
  <2>3. 0 <= c.stamp
    BY <2>2
  <2>4. StampsOK(d)
    BY <1>5, <1>8, <2>1, <2>2, <2>3 DEF StampsOK
  <2>5. Unlinked(d)
    BY <1>5, <1>8, <2>1, <2>2 DEF Unlinked
  <2>. QED BY <2>4, <2>5
<1>. QED BY <1>5, <1>6, <1>7, <1>8, <1>9, <1>10 DEF d

\* handleSMC() finds every trace with a byte in the lines that change, so that
\* the traces that remain are fresh in the memory x that is written next.
LEMMA HandleSMCOK ==
  ASSUME NEW c \in Cache, NEW n, EntriesOK(c, n), StampsOK(c),
         NEW m \in [Address -> Bytes], NEW x \in [Address -> Bytes], NEW mp,
         CodeOK(c, m, mp, n),
         NEW pg, NEW mask \in SUBSET Lines, \A l \in mask : l <= Max(mask),
         Max(mask) \in Lines,
         \A b \in Address : LineOf(b) \notin {pg} \X mask => x[b] = m[b]
  PROVE  LET d == HandleSMC(c, pg, mask)
         IN  /\ d \in Cache /\ EntriesOK(d, n) /\ StampsOK(d) /\ Unlinked(d)
             /\ CodeOK(d, x, mp \ ({pg} \X mask), n)
<1>. DEFINE b == BreakLinks(c)
            splits == SplitHits(b, pg, mask)
            S == {b.split[k].e : k \in splits}
            f == FlushSMC(b, S)
            P == [k \in DOMAIN f.split |-> IF k \in splits THEN NoSplit ELSE f.split[k]]
            d == [f EXCEPT !.split = P]
            T == TraceHits(d, pg, mask)
            g == FlushSMC(d, T)
            mq == mp \ ({pg} \X mask)
<1>1. b \in Cache /\ EntriesOK(b, n) /\ StampsOK(b) /\ Unlinked(b) /\ CodeOK(b, m, mp, n)
  BY BreakOK
<1>2. HandleSMC(c, pg, mask) = IF Wraps(c) THEN b ELSE g
  BY DEF HandleSMC
<1>3. CASE Wraps(c)
  <2>1. b = FlushEntries(c)
    BY <1>3 DEF BreakLinks
  <2>2. CodeOK(b, x, mq, n)
    BY <1>1, <2>1, FlushOK, EmptyOK
  <2>. QED BY <1>1, <1>2, <1>3, <2>2
<1>4. CASE ~Wraps(c)
  <2>. HIDE DEF b, mq
  <2>1. S \in SUBSET Slot
    <3>1. splits \subseteq 0 .. SplitEntries - 1
      BY <1>1, CacheOK DEF SplitHits
    <3>. QED BY <1>1, <3>1, CacheOK
  <2>. HIDE DEF S
  <2>2. /\ f \in Cache /\ EntriesOK(f, n) /\ StampsOK(f) /\ Unlinked(f)
        /\ f.split = b.split
        /\ \A s \in Slot : f.entry[s].pAddr \in Address => s \notin S /\ f.entry[s] = b.entry[s]
        /\ \A k \in Place : f.pool[k] = b.pool[k] \/ f.pool[k] = Dummy
    BY <1>1, <2>1, FlushSMCOK
  <2>. HIDE DEF f
  <2>3. P \in [0 .. SplitEntries - 1 -> [ppf : PageNo \cup {Invalid}, e : Slot]]
    <3>1. f.split \in [0 .. SplitEntries - 1 -> [ppf : PageNo \cup {Invalid}, e : Slot]]
      BY <2>2 DEF Cache
    <3>2. NoSplit \in [ppf : PageNo \cup {Invalid}, e : Slot]
      BY CacheAssumption DEF NoSplit, Slot
    <3>. QED BY <3>1, <3>2
  <2>4. \A k \in 0 .. SplitEntries - 1 : P[k] = IF k \in splits THEN NoSplit ELSE b.split[k]
    BY <1>1, <2>2, CacheOK
  <2>. HIDE DEF P
  <2>5. /\ d \in Cache /\ d.entry = f.entry /\ d.pool = f.pool /\ d.split = P
        /\ d.mpindex = f.mpindex /\ d.stamp = f.stamp
    BY <2>2, <2>3 DEF Cache
  <2>. HIDE DEF d
  <2>6. EntriesOK(d, n) /\ StampsOK(d) /\ Unlinked(d)
    <3>1. EntriesOK(f, n) /\ StampsOK(f) /\ Unlinked(f)
      BY <2>2
    <3>2. d.entry = f.entry /\ d.pool = f.pool /\ d.mpindex = f.mpindex /\ d.stamp = f.stamp
      BY <2>5
    <3>3. EntriesOK(d, n)
      BY <3>1, <3>2 DEF EntriesOK
    <3>4. StampsOK(d) /\ Unlinked(d)
      BY <3>1, <3>2 DEF StampsOK, Unlinked
    <3>. QED BY <3>3, <3>4
  <2>7. T \in SUBSET Slot
    BY <2>5, CacheOK DEF TraceHits
  <2>. HIDE DEF T
  <2>8. /\ g \in Cache /\ EntriesOK(g, n) /\ StampsOK(g) /\ Unlinked(g)
        /\ g.split = d.split
        /\ \A s \in Slot : g.entry[s].pAddr \in Address => s \notin T /\ g.entry[s] = d.entry[s]
        /\ \A k \in Place : g.pool[k] = d.pool[k] \/ g.pool[k] = Dummy
    BY <2>5, <2>6, <2>7, FlushSMCOK
  <2>. HIDE DEF g
  <2>9. ASSUME NEW s \in Slot, g.entry[s].pAddr \in Address, g.entry[s].age = n
        PROVE  TraceOK(g, x, mq, s)
    <3>. DEFINE e == b.entry[s]
    <3>1. g.entry[s] = e /\ d.entry[s] = e /\ s \notin T /\ s \notin S
      BY <2>2, <2>5, <2>8, <2>9
    <3>2. e.pAddr \in Address /\ e.age = n /\ e \in Entry /\ e.pAddr \in Address /\ e.traceMask \subseteq Lines
      BY <1>1, <2>9, <3>1, CacheOK
    <3>3. TraceOK(b, m, mp, s)
      BY <1>1, <3>2 DEF CodeOK
    <3>4. /\ e.tlen >= 1 /\ b.pool[e.i + e.tlen - 1] = Dummy /\ e.i \in Nat /\ e.tlen \in Nat
          /\ e.i + e.tlen <= b.mpindex
      BY <1>1, <3>2, CacheOK DEF EntriesOK
    <3>5. \A k \in Extent(e) : k \in Place
      BY <1>1, <3>4, CacheOK DEF Extent, Place
    <3>6. \A k \in Place : Keeps(b, g, k)
      <4>1. \A k \in Place : b.pool[k] \in Decoded \cup {Dummy}
        BY <1>1, CacheOK
      <4>. QED BY <2>2, <2>5, <2>8, <4>1 DEF Keeps
    <3>. HIDE DEF e
    <3>7. \A k \in 0 .. SplitEntries - 1 : k \in splits => b.split[k].e \in S
      BY DEF S
    <3>8. PageSplit(m, e.pAddr) => <<SecondPage(m, e.pAddr), 0>> \notin {pg} \X mask
      <4>1. SUFFICES ASSUME PageSplit(m, e.pAddr), SecondPage(m, e.pAddr) = pg, 0 \in mask PROVE FALSE
        OBVIOUS
      <4>2. PICK k \in DOMAIN b.split : b.split[k] = [ppf |-> pg, e |-> s]
        BY <3>3, <4>1 DEF TraceOK, e
      <4>3. b.split[k].ppf = pg /\ b.split[k].e = s
        BY <4>2
      <4>4. k \in splits
        BY <4>1, <4>3 DEF SplitHits
      <4>. QED BY <1>1, <3>1, <3>7, <4>3, <4>4, CacheOK
    <3>9. ({Page(e.pAddr)} \X e.traceMask) \cap ({pg} \X mask) = {}
      <4>1. SUFFICES ASSUME NEW l \in e.traceMask \cap mask, Page(e.pAddr) = pg PROVE FALSE
        OBVIOUS
      <4>2. Line(e.pAddr) <= l
        BY <3>3, <4>1 DEF TraceOK, e
      <4>3. Line(e.pAddr) \in Int /\ l \in Int /\ l <= Max(mask) /\ Max(mask) \in Int
        BY <3>2, <4>1, AddressOK DEF Lines
      <4>4. Line(e.pAddr) <= Max(mask)
        BY <4>2, <4>3
      <4>5. s \in TraceHits(d, pg, mask)
        BY <2>5, <3>1, <3>2, <4>1, <4>4, CacheOK, NoEntryOK DEF TraceHits
      <4>. QED BY <3>1, <4>5 DEF T
    <3>10. EntryLines(m, e) \cap ({pg} \X mask) = {}
      BY <3>8, <3>9 DEF EntryLines
    <3>11. EntryLines(m, e) \subseteq mq
      BY <3>3, <3>10 DEF TraceOK, e, mq
    <3>12. \A a \in Address : LineOf(a) \in EntryLines(m, e) => x[a] = m[a]
      BY <3>10
    <3>13. \A k \in DOMAIN b.split :
             b.split[k] = [ppf |-> SecondPage(m, e.pAddr), e |-> s] => g.split[k] = b.split[k]
      <4>1. ASSUME NEW k \in DOMAIN b.split, b.split[k].e = s PROVE g.split[k] = b.split[k]
        <5>1. k \in 0 .. SplitEntries - 1
          BY <1>1, CacheOK
        <5>2. k \notin splits
          BY <3>1, <3>7, <4>1, <5>1
        <5>. QED BY <2>4, <2>5, <2>8, <5>1, <5>2
      <4>2. \A k \in DOMAIN b.split : b.split[k] = [ppf |-> SecondPage(m, e.pAddr), e |-> s] => b.split[k].e = s
        OBVIOUS
      <4>. QED BY <4>1, <4>2
    <3>. QED BY <1>1, <2>8, <3>1, <3>2, <3>3, <3>4, <3>5, <3>6, <3>11, <3>12, <3>13, TraceKept DEF e
  <2>10. CodeOK(g, x, mq, n)
    BY <2>9 DEF CodeOK
  <2>. QED BY <1>2, <1>4, <2>8, <2>10 DEF mq
<1>. QED BY <1>3, <1>4

-----------------------------------------------------------------------------
(* Writes.                                                                 *)

\* Max() of a set of numbers that has a greatest one.
LEMMA MaxOK ==
  ASSUME NEW S, NEW x \in S, \A y \in S : x >= y
  PROVE  Max(S) \in S /\ \A y \in S : Max(S) >= y
  BY Zenon DEF Max

\* A write changes only bytes in the lines it stamps, those of a store as well as
\* all lines of the page.
LEMMA WriteOK ==
  ASSUME mem \in [Address -> Bytes], NEW w \in Writes, NEW mask \in {StoreMask(w), Lines}
  PROVE  /\ Written(w) \in [Address -> Bytes]
         /\ mask \in SUBSET Lines /\ Max(mask) \in Lines /\ \A l \in mask : l <= Max(mask)
         /\ Page(w[1]) \in PageNo
         /\ \A b \in Address : LineOf(b) \notin {Page(w[1])} \X mask => Written(w)[b] = mem[b]
<1>. DEFINE a == w[1]
            n == Len(w[2])
<1>1. /\ a \in Address /\ w[2] \in UNION {[1 .. k -> Bytes] : k \in 1 .. MaxInsn}
      /\ Offset(a) + Len(w[2]) <= PageLen
  BY GuestAssumption
<1>2. PICK k \in 1 .. MaxInsn : w[2] \in [1 .. k -> Bytes]
  BY <1>1
<1>3. n = k /\ (n = 1 \/ n = 2) /\ \A j \in 1 .. n : w[2][j] \in Bytes
  <2>1. k \in Nat /\ (k = 1 \/ k = 2)
    BY DEF MaxInsn
  <2>2. w[2] \in Seq(Bytes) /\ Len(w[2]) = k
    BY <1>2, <2>1
  <2>. QED BY <1>2, <2>1, <2>2
<1>. HIDE DEF a, n
<1>4. a \in Nat /\ Offset(a) \in Nat /\ PageLen \in Nat /\ Line(a) \in Lines /\ Page(a) \in PageNo
  BY <1>1, AddressOK, CacheAssumption DEF a
<1>5. Offset(a) + (n - 1) < PageLen /\ n - 1 \in Nat /\ a + n - 1 = a + (n - 1)
  BY <1>1, <1>3, <1>4 DEF a, n
<1>6. /\ a + (n - 1) \in Address /\ Page(a + (n - 1)) = Page(a)
      /\ Line(a + (n - 1)) \in Lines /\ Line(a) <= Line(a + (n - 1))
  BY <1>1, <1>5, LineOrder DEF a
<1>7. StoreMask(w) = {Line(a), Line(a + (n - 1))}
  BY <1>5 DEF StoreMask, a, n
<1>8. \A b \in Address : Written(w)[b] = IF b \in a .. a + n - 1 THEN w[2][b - a + 1] ELSE mem[b]
  BY DEF Written, a, n
<1>9. Written(w) \in [Address -> Bytes]
  <2>1. \A b \in Address : b \in a .. a + n - 1 => b - a + 1 \in 1 .. n
    BY <1>3, <1>4
  <2>2. \A b \in Address : (IF b \in a .. a + n - 1 THEN w[2][b - a + 1] ELSE mem[b]) \in Bytes
    BY <1>3, <2>1
  <2>. QED BY <2>2 DEF Written, a, n
<1>10. \A y \in Lines : y \in Nat
  BY DEF Lines
<1>11. mask \in SUBSET Lines /\ Max(mask) \in Lines /\ \A l \in mask : l <= Max(mask)
  <2>1. CASE mask = StoreMask(w)
    <3>1. \A y \in mask : Line(a + (n - 1)) >= y
      BY <1>4, <1>6, <1>7, <1>10, <2>1
    <3>2. Max(mask) \in mask /\ \A y \in mask : Max(mask) >= y
      BY <1>7, <2>1, <3>1, MaxOK
    <3>. QED BY <1>4, <1>6, <1>7, <1>10, <2>1, <3>2
  <2>2. CASE mask = Lines
    <3>. DEFINE z == (PageLen - 1) \div LineLen
    <3>1. z \in Nat
      <4>1. PageLen - 1 \in Nat /\ LineLen \in Nat \ {0}
        BY CacheAssumption
      <4>. DEFINE y == PageLen - 1
      <4>. HIDE DEF y
      <4>2. y \div LineLen \in Nat
        BY <4>1, DivOK DEF y
      <4>. QED BY <4>2 DEF y
    <3>. HIDE DEF z
    <3>2. Lines = 0 .. z
      BY DEF Lines, z
    <3>3. z \in Lines /\ \A y \in Lines : z >= y
      BY <3>1, <3>2
    <3>4. Max(Lines) \in Lines /\ \A y \in Lines : Max(Lines) >= y
      BY <3>3, MaxOK
    <3>. QED BY <1>10, <2>2, <3>4
  <2>. QED BY <2>1, <2>2
<1>12. ASSUME NEW b \in Address, LineOf(b) \notin {Page(a)} \X mask PROVE Written(w)[b] = mem[b]
  <2>1. SUFFICES ASSUME b \in a .. a + n - 1 PROVE FALSE
    BY <1>8
  <2>2. b = a \/ b = a + (n - 1)
    BY <1>3, <1>4, <2>1
  <2>3. Page(b) = Page(a) /\ Line(b) \in {Line(a), Line(a + (n - 1))}
    BY <1>6, <2>2
  <2>. QED BY <1>4, <1>6, <1>7, <1>12, <2>3 DEF LineOf
<1>. QED BY <1>4, <1>9, <1>11, <1>12 DEF a

\* A write by the CPU or a device, with what decWriteStamp() does before it.
LEMMA StampOK ==
  ASSUME mem \in [Address -> Bytes], ic \in Cache, mapping \subseteq PageNo \X Lines,
         EntriesOK(ic, switches), StampsOK(ic), CodeOK(ic, mem, mapping, switches),
         NEW w \in Writes, NEW mask \in {StoreMask(w), Lines},
         DecWriteStamp(Page(w[1]), mask), mem' = Written(w)
  PROVE  /\ mem' \in [Address -> Bytes] /\ ic' \in Cache /\ mapping' \subseteq PageNo \X Lines
         /\ EntriesOK(ic', switches) /\ StampsOK(ic')
         /\ CodeOK(ic', mem', mapping', switches)
         /\ \A sp : LinksOK(ic, mem, mapping, sp) => LinksOK(ic', mem', mapping', sp)
         /\ ~Cached(Page(w[1]), mask) =>
              \A p, a : Runs(ic, mem, mapping, p, a) => Runs(ic', mem', mapping', p, a)
<1>. DEFINE x == Written(w)
            pg == Page(w[1])
            mq == mapping \ ({pg} \X mask)
<1>1. /\ x \in [Address -> Bytes] /\ mask \in SUBSET Lines /\ Max(mask) \in Lines
      /\ \A l \in mask : l <= Max(mask)
      /\ \A b \in Address : LineOf(b) \notin {pg} \X mask => x[b] = mem[b]
  BY WriteOK
<1>2. mem' = x
  OBVIOUS
<1>. HIDE DEF x, pg
<1>3. CASE Cached(pg, mask)
  <2>1. ic' = HandleSMC(ic, pg, mask) /\ mapping' = mq
    BY <1>3 DEF DecWriteStamp, pg
  <2>2. LET d == HandleSMC(ic, pg, mask)
        IN  /\ d \in Cache /\ EntriesOK(d, switches) /\ StampsOK(d) /\ Unlinked(d)
            /\ CodeOK(d, x, mq, switches)
    BY <1>1, HandleSMCOK
  <2>3. /\ ic' \in Cache /\ EntriesOK(ic', switches) /\ StampsOK(ic') /\ Unlinked(ic')
        /\ CodeOK(ic', x, mapping', switches)
    BY <2>1, <2>2
  <2>4. \A sp : LinksOK(ic', x, mapping', sp)
    BY <2>3, UnlinkedOK
  <2>5. mapping' \subseteq PageNo \X Lines
    BY <2>1
  <2>. QED BY <1>1, <1>2, <1>3, <2>3, <2>4, <2>5 DEF pg
<1>4. CASE ~Cached(pg, mask)
  <2>1. ic' = ic /\ mapping' = mapping
    BY <1>4 DEF DecWriteStamp, pg
  <2>2. \A b \in Address : LineOf(b) \in mapping => x[b] = mem[b]
    <3>1. ({pg} \X mask) \cap mapping = {}
      BY <1>4 DEF Cached
    <3>. QED BY <1>1, <3>1
  <2>3. \A k \in 0 .. ic.mpindex - 1 : Keeps(ic, ic, k)
    BY CacheOK DEF Keeps
  <2>4. \A p, a : Runs(ic, mem, mapping, p, a) => Runs(ic, x, mapping, p, a)
    <3>1. ic.mpindex <= ic.mpindex
      BY CacheOK
    <3>. QED BY <1>1, <2>2, <2>3, <3>1, RunsKept
  <2>5. \A sp : LinksOK(ic, mem, mapping, sp) => LinksOK(ic, x, mapping, sp)
    BY <2>4 DEF LinksOK
  <2>6. ASSUME NEW s \in Slot, ic.entry[s].pAddr \in Address, ic.entry[s].age = switches
        PROVE  TraceOK(ic, x, mapping, s)
    <3>1. TraceOK(ic, mem, mapping, s)
      BY <2>6 DEF CodeOK
    <3>2. EntryLines(mem, ic.entry[s]) \subseteq mapping
      BY <3>1 DEF TraceOK
    <3>3. /\ ic.entry[s].tlen >= 1 /\ ic.pool[ic.entry[s].i + ic.entry[s].tlen - 1] = Dummy
          /\ ic.entry[s].i + ic.entry[s].tlen <= ic.mpindex
      BY <2>6 DEF EntriesOK
    <3>4. \A k \in Extent(ic.entry[s]) : k \in 0 .. ic.mpindex - 1
      BY <3>3, CacheOK DEF Extent
    <3>5. \A k \in Extent(ic.entry[s]) : Keeps(ic, ic, k)
      BY <2>3, <3>4
    <3>6. \A b \in Address : LineOf(b) \in EntryLines(mem, ic.entry[s]) => x[b] = mem[b]
      BY <2>2, <3>2
    <3>. QED BY <1>1, <2>6, <3>1, <3>2, <3>3, <3>5, <3>6, TraceKept
  <2>7. CodeOK(ic, x, mapping, switches)
    BY <2>6 DEF CodeOK
  <2>. QED BY <1>1, <1>2, <1>4, <2>1, <2>4, <2>5, <2>7 DEF pg
<1>. QED BY <1>3, <1>4

-----------------------------------------------------------------------------
(* Building a trace.                                                       *)

\* Induction over the natural numbers, as a fact about a set.
LEMMA Induction ==
  ASSUME NEW T, 0 \in T, \A n \in Nat : n \in T => n + 1 \in T
  PROVE  Nat \subseteq T
<1>. SUFFICES ASSUME Nat \ T # {} PROVE FALSE
  OBVIOUS
<1>. DEFINE S == Nat \ T
            R == {p \in Nat \X Nat : p[1] < p[2]}
<1>1. OpToRel(<, Nat) = R
  BY Zenon DEF OpToRel
<1>2. IsWellFoundedOn(R, Nat)
  BY <1>1, NatLessThanWellFounded, Zenon
<1>3. \A a, b \in Nat : a < b => <<a, b>> \in R
  OBVIOUS
<1>4. S \subseteq Nat /\ S # {}
  OBVIOUS
<1>. HIDE DEF R, S
<1>5. PICK x \in S : \A y \in S : ~(<<y, x>> \in R)
  BY <1>2, <1>4, WFMin, Zenon
<1>6. x \in Nat /\ x \notin T
  BY <1>5 DEF S
<1>7. x - 1 \in Nat /\ x - 1 < x /\ (x - 1) + 1 = x
  BY <1>6
<1>8. x - 1 \notin S
  BY <1>3, <1>5, <1>6, <1>7
<1>. QED BY <1>6, <1>7, <1>8 DEF S

NoTrace(a) == [ins |-> << >>, mask |-> {}, at |-> a, left |-> FALSE, merged |-> FALSE]

\* f has the first k rounds of the loop of serveICacheMiss().
HasRounds(f, c, m, a, k) ==
  /\ f = [n \in 0 .. k |-> f[n]]
  /\ f[0] = NoTrace(a)
  /\ \A n \in 0 .. k - 1 : f[n + 1] = Round(c, m, f[n])

\* The recursive definition of Trace defines what it seems to.
LEMMA TraceDef ==
  ASSUME NEW c, NEW m, NEW a
  PROVE  \E f : /\ HasRounds(f, c, m, a, MaxTrace)
                /\ Trace(c, m, a) = IF f[MaxTrace].merged THEN f[MaxTrace]
                                    ELSE [f[MaxTrace] EXCEPT !.ins = Append(@, Dummy)]
<1>. DEFINE F(g) == [n \in 0 .. MaxTrace |-> IF n = 0 THEN NoTrace(a) ELSE Round(c, m, g[n - 1])]
            C == CHOOSE g : g = F(g)
            T == {k \in Nat : \E f : HasRounds(f, c, m, a, k)}
<1>1. 0 \in T
  <2>. DEFINE f == [n \in 0 .. 0 |-> NoTrace(a)]
  <2>1. HasRounds(f, c, m, a, 0)
    BY DEF HasRounds
  <2>. QED BY <2>1
<1>2. ASSUME NEW k \in Nat, k \in T PROVE k + 1 \in T
  <2>1. PICK f : HasRounds(f, c, m, a, k)
    BY <1>2
  <2>. DEFINE g == [n \in 0 .. k + 1 |-> IF n = k + 1 THEN Round(c, m, f[k]) ELSE f[n]]
  <2>2. g[0] = NoTrace(a) /\ g = [n \in 0 .. k + 1 |-> g[n]]
    BY <2>1 DEF HasRounds
  <2>3. ASSUME NEW n \in 0 .. (k + 1) - 1 PROVE g[n + 1] = Round(c, m, g[n])
    <3>1. CASE n = k
      BY <3>1
    <3>2. CASE n # k
      <4>1. n \in 0 .. k - 1 /\ n + 1 \in 0 .. k + 1 /\ n + 1 # k + 1 /\ n # k + 1 /\ n \in 0 .. k + 1
        BY <3>2
      <4>. QED BY <2>1, <4>1 DEF HasRounds
    <3>. QED BY <3>1, <3>2
  <2>. HIDE DEF g
  <2>4. HasRounds(g, c, m, a, k + 1)
    BY <2>2, <2>3 DEF HasRounds
  <2>. QED BY <2>4
<1>3. MaxTrace \in T
  <2>. HIDE DEF T
  <2>1. Nat \subseteq T
    BY <1>1, <1>2, Induction
  <2>. QED BY <2>1, CacheAssumption
<1>4. PICK f : HasRounds(f, c, m, a, MaxTrace)
  BY <1>3
<1>5. MaxTrace \in Nat
  BY CacheAssumption
<1>6. f = F(f)
  <2>1. \A n \in 0 .. MaxTrace : n # 0 => n - 1 \in 0 .. MaxTrace - 1 /\ (n - 1) + 1 = n
    BY <1>5
  <2>2. \A n \in 0 .. MaxTrace : f[n] = IF n = 0 THEN NoTrace(a) ELSE Round(c, m, f[n - 1])
    BY <1>4, <2>1 DEF HasRounds
  <2>. QED BY <1>4, <2>2 DEF HasRounds
<1>7. C = F(C)
  <2>1. \E g : g = F(g)
    BY <1>6
  <2>. HIDE DEF F
  <2>. QED BY <2>1, Zenon
<1>8. HasRounds(C, c, m, a, MaxTrace)
  <2>1. DOMAIN C = 0 .. MaxTrace /\ C = [n \in 0 .. MaxTrace |-> C[n]]
    BY <1>7
  <2>2. \A n \in 0 .. MaxTrace : C[n] = IF n = 0 THEN NoTrace(a) ELSE Round(c, m, C[n - 1])
    BY <1>7
  <2>. HIDE DEF C
  <2>3. C[0] = NoTrace(a)
    BY <1>5, <2>2
  <2>4. \A n \in 0 .. MaxTrace - 1 : n + 1 \in 0 .. MaxTrace /\ n + 1 # 0 /\ (n + 1) - 1 = n
    BY <1>5
  <2>5. \A n \in 0 .. MaxTrace - 1 : C[n + 1] = Round(c, m, C[n])
    BY <2>2, <2>4
  <2>. QED BY <2>1, <2>3, <2>5 DEF HasRounds
<1>9. Trace(c, m, a) = IF C[MaxTrace].merged THEN C[MaxTrace]
                       ELSE [C[MaxTrace] EXCEPT !.ins = Append(@, Dummy)]
  BY DEF Trace, NoTrace
<1>. HIDE DEF C
<1>. QED BY <1>8, <1>9

\* Instruction d is a dummy or one of memory m, in lines L.  If it is linked, it
\* is a copy of an instruction that is in the pool.
Good(c, m, L, d) ==
  \/ d = Dummy
  \/ /\ d \in Decoded
     /\ d.bytes = Decode(m, d.pAddr).bytes
     /\ InsnLines(m, d.pAddr) \subseteq L
     /\ \/ d.link = NoLink
        \/ \E j \in 0 .. c.mpindex - 1 : c.pool[j].link = d.link /\ c.pool[j].pAddr = d.pAddr

Follows(m, d, f) ==
  \/ d = Dummy \/ d.bytes[1] = "branch" \/ f = Dummy
  \/ f.pAddr = NextAddress(d.pAddr, ILen(m, d.pAddr))

\* Instructions ins are a trace for address a, in lines L, as yet outside of the
\* pool.
Sound(c, m, a, L, ins) ==
  /\ ins \in Seq(Decoded \cup {Dummy})
  /\ \A k \in 1 .. Len(ins) : Good(c, m, L, ins[k])
  /\ \A k \in 1 .. Len(ins) - 1 : Follows(m, ins[k], ins[k + 1])
  /\ Len(ins) >= 1 => ins[1] = Dummy \/ ins[1].pAddr = a

\* After ins the next address is b.
Reached(m, a, ins, b) ==
  IF Len(ins) = 0 THEN b = a
  ELSE b = NextAddress(ins[Len(ins)].pAddr, ILen(m, ins[Len(ins)].pAddr))

\* Two parts of a trace, the second of which begins where the first ends.
LEMMA SoundConcat ==
  ASSUME NEW c, NEW m, NEW a, NEW b, NEW L, NEW M, NEW u, NEW v,
         Sound(c, m, a, L, u), Sound(c, m, b, M, v), Len(v) >= 1,
         v[1] = Dummy \/ Reached(m, a, u, b)
  PROVE  Sound(c, m, a, L \cup M, u \o v) /\ Len(u \o v) = Len(u) + Len(v)
<1>. DEFINE w == u \o v
            D == Decoded \cup {Dummy}
<1>1. u \in Seq(D) /\ v \in Seq(D) /\ Len(u) \in Nat /\ Len(v) \in Nat
  BY DEF Sound
<1>. HIDE DEF D
<1>2. /\ w \in Seq(D) /\ Len(w) = Len(u) + Len(v)
      /\ \A k \in 1 .. Len(u) : w[k] = u[k]
      /\ \A k \in 1 .. Len(v) : w[Len(u) + k] = v[k]
  BY <1>1
<1>. HIDE DEF w
<1>3. ASSUME NEW k \in 1 .. Len(w) PROVE k \in 1 .. Len(u) \/ \E j \in 1 .. Len(v) : k = Len(u) + j
  <2>1. ASSUME k \notin 1 .. Len(u) PROVE k - Len(u) \in 1 .. Len(v) /\ k = Len(u) + (k - Len(u))
    BY <1>1, <1>2, <2>1
  <2>. QED BY <2>1
<1>4. \A d : Good(c, m, L, d) \/ Good(c, m, M, d) => Good(c, m, L \cup M, d)
  BY Zenon DEF Good
<1>5. \A k \in 1 .. Len(w) : Good(c, m, L \cup M, w[k])
  BY <1>2, <1>3, <1>4 DEF Sound
<1>6. ASSUME NEW k \in 1 .. Len(w) - 1 PROVE Follows(m, w[k], w[k + 1])
  <2>1. CASE k \in 1 .. Len(u) - 1
    <3>1. k \in 1 .. Len(u) /\ k + 1 \in 1 .. Len(u)
      BY <1>1, <2>1
    <3>. QED BY <1>2, <2>1, <3>1 DEF Sound
  <2>2. CASE k = Len(u)
    <3>1. k \in 1 .. Len(u) /\ k + 1 = Len(u) + 1 /\ 1 \in 1 .. Len(v) /\ Len(u) # 0
      BY <1>1, <2>2
    <3>2. w[k] = u[Len(u)] /\ w[k + 1] = v[1]
      BY <1>2, <2>2, <3>1
    <3>3. v[1] = Dummy \/ v[1].pAddr = b
      BY DEF Sound
    <3>. QED BY <3>1, <3>2, <3>3 DEF Follows, Reached
  <2>3. CASE k > Len(u)
    <3>1. PICK j \in 1 .. Len(v) : k = Len(u) + j
      <4>1. k \in 1 .. Len(w) /\ k \notin 1 .. Len(u)
        BY <1>1, <1>2, <2>3
      <4>. QED BY <1>3, <4>1
    <3>2. j + 1 \in 1 .. Len(v) /\ j \in 1 .. Len(v) - 1 /\ k + 1 = Len(u) + (j + 1)
      BY <1>1, <1>2, <3>1
    <3>. QED BY <1>2, <3>1, <3>2 DEF Sound
  <2>. QED BY <1>1, <2>1, <2>2, <2>3
<1>7. w[1] = Dummy \/ w[1].pAddr = a
  <2>1. CASE Len(u) = 0
    <3>1. w[1] = v[1] /\ (v[1] = Dummy \/ (v[1].pAddr = b /\ b = a))
      BY <1>1, <1>2, <2>1 DEF Sound, Reached
    <3>. QED BY <3>1
  <2>2. CASE Len(u) # 0
    <3>1. Len(u) >= 1 /\ 1 \in 1 .. Len(u)
      BY <1>1, <2>2
    <3>. QED BY <1>2, <3>1 DEF Sound
  <2>. QED BY <2>1, <2>2
<1>. QED BY <1>2, <1>5, <1>6, <1>7 DEF Sound, w, D

\* A single instruction, decoded or the end of a trace.
LEMMA SoundOne ==
  ASSUME NEW c, NEW m \in [Address -> Bytes], NEW a \in Address
  PROVE  /\ Sound(c, m, a, InsnLines(m, a), <<Decode(m, a)>>)
         /\ \A L : Sound(c, m, a, L, <<Dummy>>)
<1>1. ASSUME NEW d \in Decoded \cup {Dummy}, NEW L, Good(c, m, L, d), d = Dummy \/ d.pAddr = a
      PROVE  Sound(c, m, a, L, <<d>>)
  <2>1. <<d>> \in Seq(Decoded \cup {Dummy}) /\ Len(<<d>>) = 1 /\ <<d>>[1] = d
    OBVIOUS
  <2>2. 1 .. 1 = {1} /\ 1 .. 1 - 1 = {}
    OBVIOUS
  <2>. QED BY <1>1, <2>1, <2>2 DEF Sound
<1>2. \A L : Good(c, m, L, Dummy)
  BY DEF Good
<1>3. Good(c, m, InsnLines(m, a), Decode(m, a)) /\ Decode(m, a) \in Decoded /\ Decode(m, a).pAddr = a
  BY DecodeOK DEF Good
<1>. QED BY <1>1, <1>2, <1>3

\* The hash of an address is a slot.
LEMMA HashOK == ASSUME NEW a \in Address PROVE Hash(a) \in Slot
<1>1. a \in Nat /\ Slots \in Nat \ {0}
  BY AddressOK, CacheAssumption
<1>. QED BY <1>1, DivOK DEF Hash, Slot

\* The tail that mergeTraces() copies is itself a trace, with its end.
LEMMA MergeOK ==
  ASSUME NEW c \in Cache, NEW m \in [Address -> Bytes], NEW mp, NEW y \in Address, NEW n \in Nat,
         EntriesOK(c, switches), CodeOK(c, m, mp, switches), Mergeable(c, y, n)
  PROVE  LET e == c.entry[Hash(y)]
             v == [k \in 1 .. e.tlen |-> c.pool[e.i + k - 1]]
         IN  /\ Sound(c, m, y, {Page(y)} \X e.traceMask, v)
             /\ Len(v) = e.tlen /\ e.tlen \in Nat /\ e.tlen >= 1 /\ e.tlen + n <= MaxTrace
             /\ v[e.tlen] = Dummy
             /\ e.traceMask \subseteq Lines /\ \A l \in e.traceMask : Line(y) <= l
<1>. DEFINE s == Hash(y)
            e == c.entry[s]
            v == [k \in 1 .. e.tlen |-> c.pool[e.i + k - 1]]
<1>1. s \in Slot
  BY HashOK
<1>2. e.pAddr = y /\ e.age = switches /\ PageLen - Offset(y) >= 2 /\ e.tlen + n <= MaxTrace
  BY DEF Mergeable, FindEntry, MaxInsn
<1>3. y # Invalid
  BY AddressOK DEF Invalid
<1>4. e.i \in Nat /\ e.tlen \in Nat /\ e.traceMask \subseteq Lines /\ c.mpindex \in Nat
  BY <1>1, CacheOK
<1>5. e.tlen >= 1 /\ e.i + e.tlen <= c.mpindex /\ c.pool[e.i + e.tlen - 1] = Dummy
  BY <1>1, <1>2, <1>3 DEF EntriesOK
<1>6. TraceOK(c, m, mp, s)
  BY <1>1, <1>2, <1>3 DEF CodeOK
<1>7. ~PageSplit(m, y)
  <2>1. ILen(m, y) \in 1 .. 2 /\ Offset(y) \in Nat /\ PageLen \in Nat
    BY ILenOK, AddressOK, CacheAssumption
  <2>. QED BY <1>2, <2>1 DEF PageSplit
<1>8. EntryLines(m, e) = {Page(y)} \X e.traceMask
  BY <1>2, <1>7 DEF EntryLines
<1>9. /\ c.pool[e.i] = Dummy \/ c.pool[e.i].pAddr = y
      /\ \A k \in Extent(e) :
           /\ Fresh(c, m, mp, k)
           /\ c.pool[k] # Dummy => InsnLines(m, c.pool[k].pAddr) \subseteq {Page(y)} \X e.traceMask
      /\ \A l \in e.traceMask : Line(y) <= l
  BY <1>2, <1>6, <1>8 DEF TraceOK
<1>. HIDE DEF e, s
<1>10. \A k \in 1 .. e.tlen : /\ e.i + k - 1 \in Extent(e) /\ e.i + k - 1 \in 0 .. c.mpindex - 1
                              /\ e.i + (k + 1) - 1 = (e.i + k - 1) + 1
  BY <1>4, <1>5 DEF Extent
<1>11. \A k \in 1 .. e.tlen : v[k] = c.pool[e.i + k - 1] /\ v[k] \in Decoded \cup {Dummy}
  BY <1>10, CacheOK
<1>12. v \in Seq(Decoded \cup {Dummy}) /\ Len(v) = e.tlen
  <2>. DEFINE D == Decoded \cup {Dummy}
  <2>1. v \in [1 .. e.tlen -> D]
    BY <1>11
  <2>. HIDE DEF D, v
  <2>2. v \in Seq(D) /\ Len(v) = e.tlen
    BY <1>4, <2>1
  <2>. QED BY <2>2 DEF D
<1>13. v[e.tlen] = Dummy
  BY <1>4, <1>5
<1>14. v[1] = Dummy \/ v[1].pAddr = y
  <2>1. 1 \in 1 .. e.tlen /\ e.i + 1 - 1 = e.i
    BY <1>4, <1>5
  <2>. QED BY <1>9, <1>11, <2>1
<1>. HIDE DEF v
<1>15. ASSUME NEW k \in 1 .. e.tlen PROVE Good(c, m, {Page(y)} \X e.traceMask, v[k])
  <2>. DEFINE j == e.i + k - 1
  <2>1. j \in Extent(e) /\ j \in 0 .. c.mpindex - 1 /\ v[k] = c.pool[j]
    BY <1>10, <1>11
  <2>. HIDE DEF j
  <2>2. Fresh(c, m, mp, j)
    BY <1>9, <2>1
  <2>. QED BY <1>9, <2>1, <2>2 DEF Fresh, Good
<1>16. ASSUME NEW k \in 1 .. e.tlen - 1 PROVE Follows(m, v[k], v[k + 1])
  <2>. DEFINE j == e.i + k - 1
  <2>1. k \in 1 .. e.tlen /\ k + 1 \in 1 .. e.tlen
    BY <1>4
  <2>2. j \in Extent(e) /\ v[k] = c.pool[j] /\ v[k + 1] = c.pool[j + 1]
    BY <1>10, <1>11, <2>1
  <2>. HIDE DEF j
  <2>3. Fresh(c, m, mp, j)
    BY <1>9, <2>2
  <2>. QED BY <2>2, <2>3 DEF Fresh, Follows
<1>17. Sound(c, m, y, {Page(y)} \X e.traceMask, v)
  BY <1>12, <1>14, <1>15, <1>16 DEF Sound
<1>. QED BY <1>2, <1>4, <1>5, <1>9, <1>12, <1>13, <1>17 DEF v, e, s

TraceSoFar == [ins : Seq(Decoded \cup {Dummy}), mask : SUBSET Lines, at : Address,
               left : BOOLEAN, merged : BOOLEAN]

\* What holds of a trace after n rounds.
RoundInv(c, m, a, n, t) ==
  /\ t \in TraceSoFar
  /\ Sound(c, m, a, {Page(a)} \X t.mask, t.ins)
  /\ \A l \in t.mask : Line(a) <= l
  /\ Len(t.ins) >= 1 => Line(a) \in t.mask
  /\ t.merged => t.left /\ Len(t.ins) \in 1 .. MaxTrace /\ t.ins[Len(t.ins)] = Dummy
  /\ ~t.merged => Len(t.ins) <= n
  /\ ~t.left => /\ Page(t.at) = Page(a) /\ Line(a) <= Line(t.at)
                /\ Reached(m, a, t.ins, t.at) /\ Len(t.ins) = n
  /\ t.left /\ ~PageSplit(m, a) => Len(t.ins) >= 1

\* One instruction longer.
LEMMA LongerOK ==
  ASSUME NEW c, NEW m \in [Address -> Bytes], NEW a \in Address, NEW n \in Nat, NEW t,
         RoundInv(c, m, a, n, t), ~t.left, ~PageSplit(m, t.at)
  PROVE  LET x == t.at
             len == ILen(m, x)
             ins == Append(t.ins, Decode(m, x))
             mask == t.mask \cup {Line(x), Line(x + len - 1)}
         IN  /\ ins \in Seq(Decoded \cup {Dummy}) /\ Len(ins) = Len(t.ins) + 1
             /\ Len(ins) >= 1 /\ Len(ins) = n + 1
             /\ mask \subseteq Lines /\ Sound(c, m, a, {Page(a)} \X mask, ins)
             /\ Line(a) \in mask /\ \A l \in mask : Line(a) <= l
             /\ Reached(m, a, ins, NextAddress(x, len))
             /\ NextAddress(x, len) \in Address
             /\ Offset(x) + len # PageLen =>
                  /\ Page(NextAddress(x, len)) = Page(a)
                  /\ Line(a) <= Line(NextAddress(x, len))
<1>. DEFINE x == t.at
            len == ILen(m, x)
            d == Decode(m, x)
            mask == t.mask \cup {Line(x), Line(x + len - 1)}
            D == Decoded \cup {Dummy}
<1>1. /\ t.ins \in Seq(D) /\ Len(t.ins) \in Nat /\ t.mask \subseteq Lines /\ x \in Address
      /\ Sound(c, m, a, {Page(a)} \X t.mask, t.ins)
      /\ Reached(m, a, t.ins, x) /\ Page(x) = Page(a) /\ Line(a) <= Line(x)
  BY DEF RoundInv, TraceSoFar
<1>2. d \in D /\ d.pAddr = x
  BY <1>1, DecodeOK
<1>3. /\ x + len - 1 \in Address
      /\ InsnLines(m, x) = {Page(x)} \X {Line(x), Line(x + len - 1)}
      /\ Line(x) <= Line(x + len - 1)
      /\ Line(x) \in Lines /\ Line(x + len - 1) \in Lines
      /\ Offset(x) + len # PageLen =>
           /\ x + len \in Address /\ NextAddress(x, len) = x + len
           /\ Page(x + len) = Page(x) /\ Line(x) <= Line(x + len)
  BY <1>1, InsnLinesOK
<1>4. \A l \in Lines : l \in Nat
  BY DEF Lines
<1>5. Line(a) \in Lines
  BY AddressOK
<1>6. len \in Nat /\ NextAddress(x, len) \in Address
  BY <1>1, ILenOK, NextOK
<1>. HIDE DEF x, len, d, D
<1>7. Append(t.ins, d) = t.ins \o <<d>>
  BY <1>1, <1>2
<1>8. Sound(c, m, x, InsnLines(m, x), <<d>>)
  BY <1>1, SoundOne DEF d
<1>9. Len(<<d>>) >= 1 /\ Len(<<d>>) = 1
  OBVIOUS
<1>10. /\ Sound(c, m, a, ({Page(a)} \X t.mask) \cup InsnLines(m, x), t.ins \o <<d>>)
       /\ Len(t.ins \o <<d>>) = Len(t.ins) + Len(<<d>>)
  <2>. DEFINE u == t.ins
              v == <<d>>
              L == {Page(a)} \X t.mask
              M == InsnLines(m, x)
  <2>1. Sound(c, m, a, L, u) /\ Sound(c, m, x, M, v) /\ Len(v) >= 1 /\ Reached(m, a, u, x)
    BY <1>1, <1>8, <1>9
  <2>. HIDE DEF u, v, L, M
  <2>2. Sound(c, m, a, L \cup M, u \o v) /\ Len(u \o v) = Len(u) + Len(v)
    BY <2>1, SoundConcat
  <2>. QED BY <2>2 DEF u, v, L, M
<1>11. ({Page(a)} \X t.mask) \cup InsnLines(m, x) = {Page(a)} \X mask
  BY <1>1, <1>3
<1>12. /\ Append(t.ins, d) \in Seq(D) /\ Len(Append(t.ins, d)) = Len(t.ins) + 1
       /\ Append(t.ins, d)[Len(t.ins) + 1] = d
  BY <1>1, <1>2
<1>13. Reached(m, a, Append(t.ins, d), NextAddress(x, len))
  BY <1>1, <1>2, <1>12 DEF Reached, len
<1>14. /\ mask \subseteq Lines
       /\ Offset(x) + len # PageLen => Page(NextAddress(x, len)) = Page(a)
  BY <1>1, <1>3
<1>15. \A l \in mask : Line(a) <= l
  <2>1. \A l \in t.mask : Line(a) <= l
    BY DEF RoundInv
  <2>2. Line(a) <= Line(x + len - 1)
    BY <1>1, <1>3, <1>4, <1>5
  <2>. QED BY <1>1, <2>1, <2>2
<1>16. Offset(x) + len # PageLen => Line(a) <= Line(NextAddress(x, len))
  <2>1. Offset(x) + len # PageLen => Line(x + len) \in Lines
    BY <1>3, AddressOK
  <2>. QED BY <1>1, <1>3, <1>4, <1>5, <2>1
<1>17. Line(a) \in mask
  <2>1. CASE Len(t.ins) = 0
    BY <1>1, <2>1 DEF Reached
  <2>2. CASE Len(t.ins) # 0
    <3>1. Len(t.ins) >= 1
      BY <1>1, <2>2
    <3>. QED BY <3>1 DEF RoundInv
  <2>. QED BY <2>1, <2>2
<1>18. Len(t.ins) + 1 >= 1 /\ Len(t.ins) + 1 = n + 1
  BY <1>1 DEF RoundInv
<1>. QED BY <1>6, <1>7, <1>10, <1>11, <1>12, <1>13, <1>14, <1>15, <1>16, <1>17, <1>18 DEF x, len, d, D

\* The last of two sequences.
LEMMA ConcatLast ==
  ASSUME NEW S, NEW u \in Seq(S), NEW v \in Seq(S), Len(v) >= 1
  PROVE  (u \o v)[Len(u) + Len(v)] = v[Len(v)]
<1>1. Len(u) \in Nat /\ Len(v) \in Nat /\ Len(v) \in 1 .. Len(v)
  OBVIOUS
<1>2. \A k \in 1 .. Len(v) : (u \o v)[Len(u) + k] = v[k]
  OBVIOUS
<1>. QED BY <1>1, <1>2

\* A round of the loop of serveICacheMiss().
LEMMA RoundOK ==
  ASSUME NEW c \in Cache, NEW m \in [Address -> Bytes], NEW mp, NEW a \in Address, NEW n \in Nat,
         NEW t, EntriesOK(c, switches), CodeOK(c, m, mp, switches), RoundInv(c, m, a, n, t)
  PROVE  RoundInv(c, m, a, n + 1, Round(c, m, t))
<1>. DEFINE x == t.at
            len == ILen(m, x)
            y == NextAddress(x, len)
            ins == Append(t.ins, Decode(m, x))
            mask == t.mask \cup {Line(x), Line(x + len - 1)}
            longer == [t EXCEPT !.ins = ins, !.mask = mask, !.at = y]
            e == c.entry[Hash(y)]
            v == [k \in 1 .. e.tlen |-> c.pool[e.i + k - 1]]
            D == Decoded \cup {Dummy}
<1>1. /\ t \in TraceSoFar
      /\ t = [ins |-> t.ins, mask |-> t.mask, at |-> t.at, left |-> t.left, merged |-> t.merged]
      /\ t.ins \in Seq(D) /\ t.mask \in SUBSET Lines /\ t.at \in Address
      /\ t.left \in BOOLEAN /\ t.merged \in BOOLEAN /\ Len(t.ins) \in Nat
  BY DEF RoundInv, TraceSoFar
<1>2. CASE t.left
  <2>1. Round(c, m, t) = t
    BY <1>2 DEF Round
  <2>2. Len(t.ins) <= n => Len(t.ins) <= n + 1
    BY <1>1
  <2>. QED BY <1>2, <2>1, <2>2 DEF RoundInv
<1>3. CASE ~t.left /\ PageSplit(m, x)
  <2>1. Round(c, m, t) = [t EXCEPT !.left = TRUE]
    BY <1>3 DEF Round
  <2>2. ~t.merged
    BY <1>3 DEF RoundInv
  <2>. DEFINE r == [t EXCEPT !.left = TRUE]
  <2>3. r \in TraceSoFar /\ r.ins = t.ins /\ r.mask = t.mask /\ r.left /\ ~r.merged
    BY <1>1, <2>2 DEF TraceSoFar
  <2>. HIDE DEF r
  <2>4. ~PageSplit(m, a) => Len(t.ins) >= 1
    <3>1. Reached(m, a, t.ins, x)
      BY <1>3 DEF RoundInv
    <3>2. Len(t.ins) = 0 => x = a
      BY <3>1 DEF Reached
    <3>. QED BY <1>1, <1>3, <3>2
  <2>5. Len(t.ins) <= n + 1
    BY <1>1, <2>2 DEF RoundInv
  <2>6. RoundInv(c, m, a, n + 1, r)
    BY <2>3, <2>4, <2>5 DEF RoundInv
  <2>. QED BY <2>1, <2>6 DEF r
<1>4. CASE ~t.left /\ ~PageSplit(m, x)
  <2>1. /\ ins \in Seq(D) /\ Len(ins) = Len(t.ins) + 1
        /\ Len(ins) >= 1 /\ Len(ins) = n + 1
        /\ mask \subseteq Lines /\ Sound(c, m, a, {Page(a)} \X mask, ins)
        /\ Line(a) \in mask /\ \A l \in mask : Line(a) <= l
        /\ Reached(m, a, ins, y)
        /\ y \in Address
        /\ Offset(x) + len # PageLen => Page(y) = Page(a) /\ Line(a) <= Line(y)
    BY <1>4, LongerOK
  <2>2. Len(ins) \in Nat /\ ~t.merged
    BY <1>1, <1>4, <2>1 DEF RoundInv
  <2>3. Round(c, m, t) =
          IF m[x] = "branch" \/ Offset(x) + len = PageLen THEN [longer EXCEPT !.left = TRUE]
          ELSE IF Mergeable(c, y, Len(longer.ins))
          THEN [longer EXCEPT !.ins = @ \o v, !.mask = @ \cup e.traceMask,
                              !.left = TRUE, !.merged = TRUE]
          ELSE longer
    BY <1>4, Zenon DEF Round
  <2>. HIDE DEF ins, mask, y, x, len, D
  <2>4. /\ longer \in TraceSoFar /\ longer.ins = ins /\ longer.mask = mask /\ longer.at = y
        /\ ~longer.left /\ ~longer.merged
    BY <1>1, <1>4, <2>1, <2>2 DEF TraceSoFar, D
  <2>. HIDE DEF longer
  <2>5. CASE m[x] = "branch" \/ Offset(x) + len = PageLen
    <3>. DEFINE r == [longer EXCEPT !.left = TRUE]
    <3>1. /\ r \in TraceSoFar /\ r.ins = ins /\ r.mask = mask /\ r.left /\ ~r.merged
      BY <2>4 DEF TraceSoFar
    <3>2. Round(c, m, t) = r
      BY <2>3, <2>5
    <3>. HIDE DEF r
    <3>3. Len(ins) <= n + 1
      BY <2>1
    <3>. QED BY <2>1, <3>1, <3>2, <3>3 DEF RoundInv
  <2>6. CASE ~(m[x] = "branch" \/ Offset(x) + len = PageLen) /\ Mergeable(c, y, Len(ins))
    <3>. DEFINE r == [longer EXCEPT !.ins = @ \o v, !.mask = @ \cup e.traceMask,
                                    !.left = TRUE, !.merged = TRUE]
    <3>1. Round(c, m, t) = r
      BY <2>3, <2>4, <2>6
    <3>2. /\ Sound(c, m, y, {Page(y)} \X e.traceMask, v)
          /\ Len(v) = e.tlen /\ e.tlen \in Nat /\ e.tlen >= 1 /\ e.tlen + Len(ins) <= MaxTrace
          /\ v[e.tlen] = Dummy
          /\ e.traceMask \subseteq Lines /\ \A l \in e.traceMask : Line(y) <= l
      BY <2>1, <2>2, <2>6, MergeOK
    <3>. HIDE DEF v, e
    <3>3. /\ Sound(c, m, a, ({Page(a)} \X mask) \cup ({Page(y)} \X e.traceMask), ins \o v)
          /\ Len(ins \o v) = Len(ins) + Len(v)
      BY <2>1, <3>2, SoundConcat
    <3>4. ({Page(a)} \X mask) \cup ({Page(y)} \X e.traceMask) = {Page(a)} \X (mask \cup e.traceMask)
      BY <2>1, <2>6
    <3>5. v \in Seq(D) /\ (ins \o v)[Len(ins \o v)] = Dummy /\ ins \o v \in Seq(D)
      <4>1. v \in Seq(D)
        BY <3>2 DEF Sound, D
      <4>2. ins \in Seq(D) /\ Len(v) >= 1
        BY <2>1, <3>2
      <4>3. (ins \o v)[Len(ins) + Len(v)] = v[Len(v)]
        BY <4>1, <4>2, ConcatLast
      <4>. QED BY <2>1, <3>2, <3>3, <4>1, <4>3
    <3>6. mask \cup e.traceMask \in SUBSET Lines
      BY <2>1, <3>2
    <3>7. /\ r \in TraceSoFar /\ r.ins = ins \o v /\ r.mask = mask \cup e.traceMask
          /\ r.left /\ r.merged
      BY <2>4, <3>5, <3>6 DEF TraceSoFar, D
    <3>. HIDE DEF r
    <3>8. \A l \in mask \cup e.traceMask : Line(a) <= l
      <4>1. \A l \in Lines : l \in Nat
        BY DEF Lines
      <4>2. Line(a) \in Lines /\ Line(y) \in Lines
        BY <2>1, AddressOK
      <4>3. Line(a) <= Line(y)
        BY <2>1, <2>6
      <4>. QED BY <2>1, <3>2, <4>1, <4>2, <4>3
    <3>9. Len(ins \o v) \in 1 .. MaxTrace /\ Len(ins \o v) >= 1
      BY <2>1, <2>2, <3>2, <3>3, CacheAssumption
    <3>10. RoundInv(c, m, a, n + 1, r)
      BY <2>1, <3>3, <3>4, <3>5, <3>7, <3>8, <3>9 DEF RoundInv
    <3>. QED BY <3>1, <3>10
  <2>7. CASE ~(m[x] = "branch" \/ Offset(x) + len = PageLen) /\ ~Mergeable(c, y, Len(ins))
    <3>1. Round(c, m, t) = longer
      BY <2>3, <2>4, <2>7
    <3>2. Len(ins) <= n + 1
      BY <2>1
    <3>. QED BY <2>1, <2>4, <2>7, <3>1, <3>2 DEF RoundInv
  <2>. QED BY <2>5, <2>6, <2>7
<1>. QED BY <1>1, <1>2, <1>3, <1>4

\* serveICacheMiss() builds a trace with its end, no longer than alloc_trace()
\* made room for.
LEMMA TraceBuilt ==
  ASSUME NEW c \in Cache, NEW m \in [Address -> Bytes], NEW mp, NEW a \in Address,
         EntriesOK(c, switches), CodeOK(c, m, mp, switches), ~PageSplit(m, a)
  PROVE  LET t == Trace(c, m, a)
         IN  /\ t.mask \subseteq Lines /\ Sound(c, m, a, {Page(a)} \X t.mask, t.ins)
             /\ Line(a) \in t.mask /\ \A l \in t.mask : Line(a) <= l
             /\ Len(t.ins) \in 1 .. MaxTrace + 1 /\ t.ins[Len(t.ins)] = Dummy
<1>1. PICK f : /\ HasRounds(f, c, m, a, MaxTrace)
               /\ Trace(c, m, a) = IF f[MaxTrace].merged THEN f[MaxTrace]
                                   ELSE [f[MaxTrace] EXCEPT !.ins = Append(@, Dummy)]
  BY TraceDef
<1>2. MaxTrace \in Nat /\ MaxTrace >= 1
  BY CacheAssumption
<1>. DEFINE T == {n \in Nat : n <= MaxTrace => RoundInv(c, m, a, n, f[n])}
<1>3. 0 \in T
  <2>. DEFINE t == NoTrace(a)
  <2>1. f[0] = t
    BY <1>1 DEF HasRounds
  <2>2. /\ t.ins = << >> /\ t.mask = {} /\ t.at = a /\ t.left = FALSE /\ t.merged = FALSE
        /\ t \in TraceSoFar
    BY DEF NoTrace, TraceSoFar
  <2>3. << >> \in Seq(Decoded \cup {Dummy}) /\ Len(<< >>) = 0
    OBVIOUS
  <2>4. Line(a) <= Line(a)
    BY AddressOK DEF Lines
  <2>5. Sound(c, m, a, {Page(a)} \X t.mask, t.ins)
    BY <2>2, <2>3 DEF Sound
  <2>. HIDE DEF t
  <2>6. RoundInv(c, m, a, 0, t)
    BY <2>2, <2>3, <2>4, <2>5 DEF RoundInv, Reached
  <2>. QED BY <2>1, <2>6
<1>4. ASSUME NEW n \in Nat, n \in T PROVE n + 1 \in T
  <2>1. SUFFICES ASSUME n + 1 <= MaxTrace PROVE RoundInv(c, m, a, n + 1, f[n + 1])
    OBVIOUS
  <2>2. n <= MaxTrace /\ n \in 0 .. MaxTrace - 1
    BY <1>2, <2>1
  <2>3. RoundInv(c, m, a, n, f[n]) /\ f[n + 1] = Round(c, m, f[n])
    BY <1>1, <1>4, <2>2 DEF HasRounds
  <2>. QED BY <2>3, RoundOK
<1>. DEFINE t == f[MaxTrace]
<1>5. RoundInv(c, m, a, MaxTrace, t)
  <2>. HIDE DEF T
  <2>1. Nat \subseteq T
    BY <1>3, <1>4, Induction
  <2>2. MaxTrace \in T
    BY <1>2, <2>1
  <2>. QED BY <1>2, <2>2 DEF T
<1>. HIDE DEF t, T
<1>6. /\ t \in TraceSoFar /\ t.ins \in Seq(Decoded \cup {Dummy}) /\ Len(t.ins) \in Nat
      /\ t.mask \subseteq Lines
  BY <1>5 DEF RoundInv, TraceSoFar
<1>7. Len(t.ins) >= 1
  BY <1>2, <1>5 DEF RoundInv
<1>8. CASE t.merged
  <2>1. Trace(c, m, a) = t
    BY <1>1, <1>8 DEF t
  <2>2. 1 .. MaxTrace \subseteq 1 .. MaxTrace + 1
    BY <1>2
  <2>. QED BY <1>5, <1>6, <1>7, <1>8, <2>1, <2>2 DEF RoundInv
<1>9. CASE ~t.merged
  <2>. DEFINE r == Trace(c, m, a)
              D == Decoded \cup {Dummy}
  <2>1. r = [t EXCEPT !.ins = Append(@, Dummy)]
    BY <1>1, <1>9 DEF t
  <2>2. r.ins = Append(t.ins, Dummy) /\ r.mask = t.mask
    BY <1>6, <2>1 DEF TraceSoFar
  <2>. HIDE DEF r, D
  <2>3. Append(t.ins, Dummy) = t.ins \o <<Dummy>> /\ Append(t.ins, Dummy)[Len(t.ins) + 1] = Dummy
        /\ Len(Append(t.ins, Dummy)) = Len(t.ins) + 1
    <3>1. t.ins \in Seq(D) /\ Dummy \in D
      BY <1>6 DEF D
    <3>. QED BY <3>1
  <2>4. Sound(c, m, a, {Page(a)} \X t.mask, t.ins) /\ Sound(c, m, a, {}, <<Dummy>>)
    BY <1>5, SoundOne DEF RoundInv
  <2>5. Len(<<Dummy>>) >= 1 /\ <<Dummy>>[1] = Dummy
    OBVIOUS
  <2>6. Sound(c, m, a, ({Page(a)} \X t.mask) \cup {}, t.ins \o <<Dummy>>)
    BY <2>4, <2>5, SoundConcat
  <2>7. ({Page(a)} \X t.mask) \cup {} = {Page(a)} \X t.mask
    OBVIOUS
  <2>8. Sound(c, m, a, {Page(a)} \X r.mask, r.ins)
    BY <2>2, <2>3, <2>6, <2>7
  <2>9. Len(t.ins) + 1 \in 1 .. MaxTrace + 1
    BY <1>2, <1>5, <1>6, <1>9 DEF RoundInv
  <2>10. Line(a) \in t.mask /\ \A l \in t.mask : Line(a) <= l
    BY <1>5, <1>7 DEF RoundInv
  <2>. QED BY <1>6, <2>2, <2>3, <2>8, <2>9, <2>10 DEF r
<1>. QED BY <1>8, <1>9

-----------------------------------------------------------------------------
(* Serving a miss.                                                         *)

NewEntry(c, a, ins, mask) ==
  [pAddr |-> a, traceMask |-> mask, age |-> switches, tlen |-> Len(ins), i |-> c.mpindex]

\* What a new trace changes in the cache.
LEMMA CommitFields ==
  ASSUME NEW c \in Cache, NEW a \in Address, NEW ins \in Seq(Decoded \cup {Dummy}),
         NEW mask \in SUBSET Lines, switches \in Nat, c.mpindex + Len(ins) <= PoolLen
  PROVE  LET d == Commit(c, a, ins, mask)
         IN  /\ d \in Cache
             /\ d.split = c.split /\ d.nextSplit = c.nextSplit /\ d.stamp = c.stamp
             /\ d.mpindex = c.mpindex + Len(ins)
             /\ d.entry[Hash(a)] = NewEntry(c, a, ins, mask)
             /\ \A s \in Slot : s # Hash(a) => d.entry[s] = c.entry[s]
             /\ \A k \in 0 .. c.mpindex - 1 : d.pool[k] = c.pool[k]
             /\ \A k \in 1 .. Len(ins) : d.pool[c.mpindex + k - 1] = ins[k]
<1>. DEFINE d == Commit(c, a, ins, mask)
            D == Decoded \cup {Dummy}
            q == Hash(a)
            x == NewEntry(c, a, ins, mask)
            P == [p \in Place |-> IF p \in c.mpindex .. c.mpindex + Len(ins) - 1
                                  THEN ins[p - c.mpindex + 1] ELSE c.pool[p]]
            E == [c.entry EXCEPT ![q] = x]
            n == c.mpindex + Len(ins)
<1>1. /\ c.entry \in [Slot -> Entry] /\ c.pool \in [Place -> D]
      /\ c.mpindex \in Nat /\ PoolLen \in Nat /\ DOMAIN c.pool = Place
  BY CacheOK DEF Cache
<1>2. Len(ins) \in Nat /\ \A k \in 1 .. Len(ins) : ins[k] \in D
  OBVIOUS
<1>3. q \in Slot
  BY HashOK
<1>4. x \in Entry
  BY <1>1, <1>2, AddressOK DEF NewEntry, Entry
<1>. HIDE DEF D, q, x
<1>5. d = [c EXCEPT !.pool = P, !.entry = E, !.mpindex = n]
  <2>1. d = [c EXCEPT !.pool = [p \in DOMAIN c.pool |-> IF p \in c.mpindex .. c.mpindex + Len(ins) - 1
                                  THEN ins[p - c.mpindex + 1] ELSE c.pool[p]],
                      !.entry[q] = x, !.mpindex = n]
    BY Zenon DEF Commit, NewEntry, q, x
  <2>. QED BY <1>1, <2>1
<1>6. \A p \in Place : p \in c.mpindex .. c.mpindex + Len(ins) - 1 => p - c.mpindex + 1 \in 1 .. Len(ins)
  BY <1>1, <1>2 DEF Place
<1>7. /\ \A p \in Place : P[p] = IF p \in c.mpindex .. c.mpindex + Len(ins) - 1
                                  THEN ins[p - c.mpindex + 1] ELSE c.pool[p]
      /\ P \in [Place -> D]
  BY <1>1, <1>2, <1>6
<1>8. /\ E \in [Slot -> Entry] /\ E[q] = x /\ \A s \in Slot : s # q => E[s] = c.entry[s]
  BY <1>1, <1>3, <1>4
<1>9. n \in 0 .. PoolLen
  BY <1>1, <1>2
<1>. HIDE DEF P, E, d, n
<1>10. /\ d.split = c.split /\ d.nextSplit = c.nextSplit /\ d.stamp = c.stamp
       /\ d.mpindex = n /\ d.entry = E /\ d.pool = P
  BY <1>5 DEF Cache
<1>11. d \in Cache
  BY <1>5, <1>7, <1>8, <1>9 DEF Cache, D
<1>12. \A k \in 0 .. c.mpindex - 1 : P[k] = c.pool[k]
  <2>1. \A k \in 0 .. c.mpindex - 1 : k \in Place /\ k \notin c.mpindex .. c.mpindex + Len(ins) - 1
    BY <1>1, <1>2, CacheOK
  <2>. QED BY <1>7, <2>1
<1>13. \A k \in 1 .. Len(ins) : P[c.mpindex + k - 1] = ins[k]
  <2>1. ASSUME NEW k \in 1 .. Len(ins)
        PROVE  /\ c.mpindex + k - 1 \in Place
               /\ c.mpindex + k - 1 \in c.mpindex .. c.mpindex + Len(ins) - 1
               /\ (c.mpindex + k - 1) - c.mpindex + 1 = k
    BY <1>1, <1>2 DEF Place
  <2>. QED BY <1>7, <2>1
<1>. QED BY <1>8, <1>10, <1>11, <1>12, <1>13 DEF d, n, q, x

\* An instruction of a new trace has no link or that of one in the pool, of which
\* it is a copy.
Copied(c, x) == x.link = NoLink \/ \E j \in 0 .. c.mpindex - 1 : c.pool[j].link = x.link

\* A new trace goes where no other is.
LEMMA CommitEntries ==
  ASSUME NEW c \in Cache, NEW a \in Address, NEW ins \in Seq(Decoded \cup {Dummy}),
         NEW mask \in SUBSET Lines, switches \in Nat, EntriesOK(c, switches), StampsOK(c),
         Len(ins) >= 1, ins[Len(ins)] = Dummy, c.mpindex + Len(ins) <= PoolLen,
         \A k \in 1 .. Len(ins) : Copied(c, ins[k])
  PROVE  LET d == Commit(c, a, ins, mask)
         IN  EntriesOK(d, switches) /\ StampsOK(d)
<1>. DEFINE d == Commit(c, a, ins, mask)
            q == Hash(a)
            x == NewEntry(c, a, ins, mask)
            n == Len(ins)
            z == c.mpindex
<1>1. n \in Nat /\ z \in Nat /\ PoolLen \in Nat /\ q \in Slot
  BY HashOK, CacheOK
<1>2. /\ d \in Cache /\ d.stamp = c.stamp
      /\ d.mpindex = z + n
      /\ d.entry[q] = x
      /\ \A s \in Slot : s # q => d.entry[s] = c.entry[s]
      /\ \A k \in 0 .. z - 1 : d.pool[k] = c.pool[k]
      /\ \A k \in 1 .. n : d.pool[z + k - 1] = ins[k]
  BY <1>1, CommitFields
<1>3. x.pAddr = a /\ x.traceMask = mask /\ x.age = switches /\ x.tlen = n /\ x.i = z
  BY DEF NewEntry
<1>. HIDE DEF d, x, n, z, q
<1>4. 0 .. d.mpindex - 1 = 0 .. z + n - 1 /\ n \in Nat /\ z \in Nat
  BY <1>1, <1>2
<1>5. \A k \in z .. z + n - 1 : k - z + 1 \in 1 .. n /\ z + (k - z + 1) - 1 = k
  BY <1>1
<1>6. \A k \in z .. z + n - 1 : d.pool[k] = ins[k - z + 1]
  BY <1>2, <1>5
<1>7. n >= 1 /\ z + n - 1 \in z .. z + n - 1 /\ (z + n - 1) - z + 1 = n
  BY <1>1 DEF n
<1>8. d.pool[z + n - 1] = Dummy
  BY <1>6, <1>7 DEF n
<1>9. \A s \in Slot : s # q /\ d.entry[s].pAddr \in Address =>
        /\ d.entry[s] = c.entry[s] /\ c.entry[s].tlen >= 1 /\ c.entry[s].i \in Nat
        /\ c.entry[s].tlen \in Nat /\ c.entry[s].i + c.entry[s].tlen <= z
        /\ Hash(c.entry[s].pAddr) = s /\ c.entry[s].age <= switches
        /\ c.pool[c.entry[s].i + c.entry[s].tlen - 1] = Dummy
        /\ Extent(c.entry[s]) \subseteq 0 .. z - 1
  <2>1. ASSUME NEW s \in Slot, s # q, d.entry[s].pAddr \in Address
        PROVE  /\ d.entry[s] = c.entry[s] /\ c.entry[s].tlen >= 1 /\ c.entry[s].i \in Nat
               /\ c.entry[s].tlen \in Nat /\ c.entry[s].i + c.entry[s].tlen <= z
               /\ Hash(c.entry[s].pAddr) = s /\ c.entry[s].age <= switches
               /\ c.pool[c.entry[s].i + c.entry[s].tlen - 1] = Dummy
    BY <1>2, <2>1, CacheOK DEF EntriesOK, z
  <2>2. ASSUME NEW s \in Slot, s # q, d.entry[s].pAddr \in Address
        PROVE  Extent(c.entry[s]) \subseteq 0 .. z - 1
    <3>1. c.entry[s].pAddr \in Address
      BY <1>2, <2>2
    <3>. QED BY <3>1, ExtentOK DEF z
  <2>. QED BY <2>1, <2>2
<1>10. EntriesOK(d, switches)
  <2>1. ASSUME NEW s \in Slot, d.entry[s].pAddr \in Address
        PROVE  /\ Hash(d.entry[s].pAddr) = s
               /\ d.entry[s].age <= switches
               /\ d.entry[s].tlen >= 1
               /\ d.entry[s].i + d.entry[s].tlen <= d.mpindex
               /\ d.pool[d.entry[s].i + d.entry[s].tlen - 1] = Dummy
    <3>1. CASE s = q
      <4>1. d.entry[s] = x /\ Hash(x.pAddr) = s /\ x.age <= switches
        BY <1>2, <1>3, <3>1 DEF q
      <4>2. x.i + x.tlen <= d.mpindex /\ x.i + x.tlen - 1 = z + n - 1
        BY <1>2, <1>3, <1>4
      <4>. QED BY <1>3, <1>7, <1>8, <4>1, <4>2
    <3>2. CASE s # q
      <4>. DEFINE e == c.entry[s]
      <4>1. /\ d.entry[s] = e /\ e.tlen >= 1 /\ e.i \in Nat /\ e.tlen \in Nat /\ e.i + e.tlen <= z
            /\ Hash(e.pAddr) = s /\ e.age <= switches /\ c.pool[e.i + e.tlen - 1] = Dummy
        BY <1>9, <2>1, <3>2
      <4>. HIDE DEF e
      <4>2. e.i + e.tlen - 1 \in 0 .. z - 1 /\ e.i + e.tlen <= z + n
        BY <1>1, <4>1
      <4>3. d.pool[e.i + e.tlen - 1] = Dummy
        BY <1>2, <4>1, <4>2
      <4>. QED BY <1>2, <4>1, <4>2, <4>3
    <3>. QED BY <3>1, <3>2
  <2>2. Extent(x) = z .. z + n - 1 /\ (z .. z + n - 1) \cap (0 .. z - 1) = {}
    BY <1>1, <1>3 DEF Extent
  <2>3. ASSUME NEW s \in Slot, NEW r \in Slot, s # r, d.entry[s].pAddr \in Address,
               d.entry[r].pAddr \in Address
        PROVE  Extent(d.entry[s]) \cap Extent(d.entry[r]) = {}
    <3>1. CASE s = q
      <4>1. Extent(d.entry[r]) \subseteq 0 .. z - 1 /\ d.entry[s] = x
        BY <1>2, <1>9, <2>3, <3>1
      <4>. QED BY <2>2, <4>1
    <3>2. CASE r = q
      <4>1. Extent(d.entry[s]) \subseteq 0 .. z - 1 /\ d.entry[r] = x
        BY <1>2, <1>9, <2>3, <3>2
      <4>. QED BY <2>2, <4>1
    <3>3. CASE s # q /\ r # q
      <4>1. d.entry[s] = c.entry[s] /\ d.entry[r] = c.entry[r]
        BY <1>2, <3>3
      <4>. QED BY <2>3, <4>1 DEF EntriesOK
    <3>. QED BY <3>1, <3>2, <3>3
  <2>. QED BY <2>1, <2>3 DEF EntriesOK
<1>11. \A k \in 0 .. z + n - 1 : k \in 0 .. z - 1 \/ k \in z .. z + n - 1
  BY <1>1
<1>12. StampsOK(d)
  <2>1. ASSUME NEW k \in 0 .. z + n - 1 PROVE d.pool[k].link.stamp <= d.stamp
    <3>1. c.stamp \in Nat /\ NoLink.stamp = 0
      BY CacheOK DEF NoLink
    <3>2. \A j \in 0 .. z - 1 : c.pool[j].link.stamp <= c.stamp
      BY DEF StampsOK, z
    <3>3. CASE k \in 0 .. z - 1
      BY <1>2, <3>2, <3>3
    <3>4. CASE k \in z .. z + n - 1
      <4>1. Copied(c, d.pool[k])
        BY <1>5, <1>6, <3>4 DEF n
      <4>. QED BY <1>2, <3>1, <3>2, <4>1 DEF Copied, z
    <3>. QED BY <1>11, <3>3, <3>4
  <2>. QED BY <1>4, <2>1 DEF StampsOK
<1>. QED BY <1>10, <1>12 DEF d

\* A new trace goes where no other is, and leaves all others as they are.
LEMMA CommitOK ==
  ASSUME NEW c \in Cache, NEW m \in [Address -> Bytes], NEW mp, NEW a \in Address, NEW L,
         NEW ins, NEW mask \in SUBSET Lines, switches \in Nat,
         EntriesOK(c, switches), StampsOK(c), CodeOK(c, m, mp, switches),
         Sound(c, m, a, L, ins), Len(ins) >= 1, ins[Len(ins)] = Dummy,
         c.mpindex + Len(ins) <= PoolLen,
         L = EntryLines(m, NewEntry(c, a, ins, mask)),
         Line(a) \in mask, \A l \in mask : Line(a) <= l
  PROVE  LET d == Commit(c, a, ins, mask)
             mq == mp \cup L
         IN  /\ d \in Cache /\ EntriesOK(d, switches) /\ StampsOK(d)
             /\ \A s \in Slot : s # Hash(a) /\ d.entry[s].pAddr \in Address /\ d.entry[s].age = switches
                  => TraceOK(d, m, mq, s)
             /\ \A g \in Cache :
                  /\ g.pool = d.pool /\ g.entry[Hash(a)] = d.entry[Hash(a)]
                  /\ PageSplit(m, a) =>
                       \E k \in DOMAIN g.split :
                         g.split[k] = [ppf |-> SecondPage(m, a), e |-> Hash(a)]
                  => TraceOK(g, m, mq, Hash(a))
             /\ \A sp : LinksOK(c, m, mp, sp) => LinksOK(d, m, mq, sp)
             /\ Runs(d, m, mq, c.mpindex, a)
<1>. DEFINE d == Commit(c, a, ins, mask)
            mq == mp \cup L
            q == Hash(a)
            x == NewEntry(c, a, ins, mask)
            n == Len(ins)
            z == c.mpindex
<1>1. ins \in Seq(Decoded \cup {Dummy}) /\ n \in Nat /\ z \in Nat /\ PoolLen \in Nat /\ q \in Slot
  BY HashOK, CacheOK DEF Sound
<1>2. /\ d \in Cache
      /\ d.split = c.split /\ d.nextSplit = c.nextSplit /\ d.stamp = c.stamp
      /\ d.mpindex = z + n
      /\ d.entry[q] = x
      /\ \A s \in Slot : s # q => d.entry[s] = c.entry[s]
      /\ \A k \in 0 .. z - 1 : d.pool[k] = c.pool[k]
      /\ \A k \in 1 .. n : d.pool[z + k - 1] = ins[k]
  BY <1>1, CommitFields
<1>3. x.pAddr = a /\ x.traceMask = mask /\ x.age = switches /\ x.tlen = n /\ x.i = z
  BY DEF NewEntry
<1>4. a # Invalid
  BY AddressOK DEF Invalid
<1>. HIDE DEF d, x, n, z, q
<1>5. 0 .. d.mpindex - 1 = 0 .. z + n - 1 /\ n \in Nat /\ z \in Nat
  BY <1>1, <1>2
<1>6. \A k \in z .. z + n - 1 : k - z + 1 \in 1 .. n /\ z + (k - z + 1) - 1 = k
  BY <1>1
<1>7. \A k \in z .. z + n - 1 : d.pool[k] = ins[k - z + 1]
  BY <1>2, <1>6
<1>8. n >= 1 /\ z + n - 1 \in z .. z + n - 1 /\ z \in z .. z + n - 1 /\ (z + n - 1) - z + 1 = n /\ z - z + 1 = 1
  BY <1>1 DEF n
<1>9. d.pool[z + n - 1] = Dummy /\ d.pool[z] = ins[1]
  BY <1>7, <1>8 DEF n
<1>10. \A s \in Slot : s # q /\ d.entry[s].pAddr \in Address =>
         /\ d.entry[s] = c.entry[s] /\ c.entry[s].tlen >= 1 /\ c.entry[s].i \in Nat
         /\ c.entry[s].tlen \in Nat /\ c.entry[s].i + c.entry[s].tlen <= z
         /\ Hash(c.entry[s].pAddr) = s /\ c.entry[s].age <= switches
         /\ c.pool[c.entry[s].i + c.entry[s].tlen - 1] = Dummy
         /\ Extent(c.entry[s]) \subseteq 0 .. z - 1
  <2>1. ASSUME NEW s \in Slot, s # q, d.entry[s].pAddr \in Address
        PROVE  /\ d.entry[s] = c.entry[s] /\ c.entry[s].tlen >= 1 /\ c.entry[s].i \in Nat
               /\ c.entry[s].tlen \in Nat /\ c.entry[s].i + c.entry[s].tlen <= z
               /\ Hash(c.entry[s].pAddr) = s /\ c.entry[s].age <= switches
               /\ c.pool[c.entry[s].i + c.entry[s].tlen - 1] = Dummy
    BY <1>2, <2>1, CacheOK DEF EntriesOK, z
  <2>2. ASSUME NEW s \in Slot, s # q, d.entry[s].pAddr \in Address
        PROVE  Extent(c.entry[s]) \subseteq 0 .. z - 1
    <3>1. c.entry[s].pAddr \in Address
      BY <1>2, <2>2
    <3>. QED BY <3>1, ExtentOK DEF z
  <2>. QED BY <2>1, <2>2
<1>11. EntriesOK(d, switches) /\ StampsOK(d)
  <2>1. \A k \in 1 .. Len(ins) : Copied(c, ins[k])
    <3>1. ASSUME NEW k \in 1 .. Len(ins) PROVE Copied(c, ins[k])
      <4>1. Good(c, m, L, ins[k])
        BY <3>1 DEF Sound
      <4>. QED BY <4>1, DummyOK DEF Good, Copied
    <3>. QED BY <3>1
  <2>. QED BY <1>1, <2>1, CommitEntries DEF d
<1>12. \A k \in 0 .. z + n - 1 : k \in 0 .. z - 1 \/ k \in z .. z + n - 1
  BY <1>1
<1>13. \A k \in z .. z + n - 1 : Good(c, m, L, d.pool[k])
  BY <1>6, <1>7 DEF Sound, n
<1>14. \A k \in 0 .. z - 1 : Keeps(c, d, k)
  <2>1. \A k \in 0 .. z - 1 : c.pool[k] \in Decoded \cup {Dummy}
    BY CacheOK DEF z
  <2>. QED BY <1>2, <2>1 DEF Keeps
<1>15. \A p, b : Runs(c, m, mp, p, b) => Runs(d, m, mq, p, b)
  <2>1. c.mpindex <= d.mpindex
    BY <1>1, <1>2 DEF z
  <2>. HIDE DEF mq
  <2>2. mp \subseteq mq
    BY DEF mq
  <2>. QED BY <1>2, <1>14, <2>1, <2>2, RunsKept DEF z
<1>16. \A s \in Slot : s # q /\ d.entry[s].pAddr \in Address /\ d.entry[s].age = switches
         => TraceOK(d, m, mq, s)
  <2>. SUFFICES ASSUME NEW s \in Slot, s # q, d.entry[s].pAddr \in Address, d.entry[s].age = switches
                PROVE  TraceOK(d, m, mq, s)
    OBVIOUS
  <2>1. /\ d.entry[s] = c.entry[s] /\ c.entry[s].tlen >= 1
        /\ c.pool[c.entry[s].i + c.entry[s].tlen - 1] = Dummy
        /\ \A k \in Extent(c.entry[s]) : Keeps(c, d, k)
    BY <1>10, <1>14
  <2>2. TraceOK(c, m, mp, s)
    BY <2>1 DEF CodeOK
  <2>3. EntryLines(m, c.entry[s]) \subseteq mq
    BY <2>2 DEF TraceOK
  <2>4. \A k \in DOMAIN c.split : d.split[k] = c.split[k]
    BY <1>2
  <2>. HIDE DEF mq
  <2>. QED BY <1>2, <2>1, <2>2, <2>3, <2>4, TraceKept
<1>17. \A k \in z .. z + n - 1 : Fresh(d, m, mq, k)
  <2>. SUFFICES ASSUME NEW k \in z .. z + n - 1, d.pool[k] # Dummy PROVE Fresh(d, m, mq, k)
    BY DEF Fresh
  <2>1. /\ d.pool[k] \in Decoded /\ d.pool[k].bytes = Decode(m, d.pool[k].pAddr).bytes
        /\ InsnLines(m, d.pool[k].pAddr) \subseteq mq
    BY <1>13 DEF Good
  <2>. DEFINE j == k - z + 1
  <2>2. k # z + n - 1
    BY <1>9
  <2>3. j \in 1 .. n - 1 /\ k + 1 \in z .. z + n - 1 /\ (k + 1) - z + 1 = j + 1
    <3>1. k \in Int /\ z <= k /\ k <= z + n - 1
      BY <1>5
    <3>2. k <= z + n - 2
      BY <1>5, <2>2, <3>1
    <3>. QED BY <1>5, <3>1, <3>2
  <2>4. d.pool[k] = ins[j] /\ d.pool[k + 1] = ins[j + 1]
    BY <1>7, <2>3
  <2>. HIDE DEF j
  <2>5. Follows(m, d.pool[k], d.pool[k + 1])
    BY <2>3, <2>4 DEF Sound, n
  <2>. QED BY <2>1, <2>5 DEF Fresh, Follows
<1>18. d.pool[z] = Dummy \/ d.pool[z].pAddr = a
  BY <1>9 DEF Sound
<1>19. Runs(d, m, mq, z, a)
  <2>1. z + n - 1 \in z .. d.mpindex - 1
    BY <1>1, <1>2, <1>8
  <2>. QED BY <1>1, <1>9, <1>17, <1>18, <2>1 DEF Runs
<1>20. ASSUME NEW sp, LinksOK(c, m, mp, sp) PROVE LinksOK(d, m, mq, sp)
  <2>1. \A j \in 0 .. z - 1 :
          c.pool[j].link.next # Invalid /\ c.pool[j].link.stamp = c.stamp =>
            Runs(d, m, mq, c.pool[j].link.next, Target[sp][c.pool[j].pAddr])
    BY <1>15, <1>20 DEF LinksOK, z
  <2>2. ASSUME NEW k \in 0 .. z + n - 1, d.pool[k].link.next # Invalid, d.pool[k].link.stamp = d.stamp
        PROVE  Runs(d, m, mq, d.pool[k].link.next, Target[sp][d.pool[k].pAddr])
    <3>1. NoLink.next = Invalid
      BY DEF NoLink
    <3>2. CASE k \in 0 .. z - 1
      BY <1>2, <2>1, <2>2, <3>2
    <3>3. CASE k \in z .. z + n - 1
      <4>1. PICK j \in 0 .. z - 1 : c.pool[j].link = d.pool[k].link /\ c.pool[j].pAddr = d.pool[k].pAddr
        BY <1>13, <2>2, <3>1, <3>3, DummyOK DEF Good, z
      <4>. QED BY <1>2, <2>1, <2>2, <4>1
    <3>. QED BY <1>12, <3>2, <3>3
  <2>. QED BY <1>5, <2>2 DEF LinksOK
<1>21. ASSUME NEW g \in Cache, g.pool = d.pool, g.entry[q] = d.entry[q],
              PageSplit(m, a) =>
                \E k \in DOMAIN g.split : g.split[k] = [ppf |-> SecondPage(m, a), e |-> q]
       PROVE  TraceOK(g, m, mq, q)
  <2>1. g.entry[q] = x /\ Extent(x) = z .. z + n - 1
    BY <1>2, <1>3, <1>21 DEF Extent
  <2>2. L = EntryLines(m, x) /\ L \subseteq mq
    BY DEF x
  <2>3. \A k \in Extent(x) : /\ Fresh(g, m, mq, k)
                             /\ g.pool[k] # Dummy => InsnLines(m, g.pool[k].pAddr) \subseteq L
    BY <1>13, <1>17, <1>21, <2>1 DEF Good, Fresh
  <2>. QED BY <1>3, <1>18, <1>21, <2>1, <2>2, <2>3 DEF TraceOK
<1>. QED BY <1>2, <1>11, <1>16, <1>19, <1>20, <1>21 DEF d, q, z

\* alloc_trace() makes room for a trace and its end.
LEMMA AllocOK ==
  ASSUME NEW c \in Cache, NEW m, NEW mp, EntriesOK(c, switches), StampsOK(c),
         CodeOK(c, m, mp, switches)
  PROVE  LET r == AllocTrace(c)
         IN  /\ r \in Cache /\ EntriesOK(r, switches) /\ StampsOK(r) /\ CodeOK(r, m, mp, switches)
             /\ r.mpindex + MaxTrace + 1 <= PoolLen
             /\ \A sp : LinksOK(c, m, mp, sp) => LinksOK(r, m, mp, sp)
<1>1. MaxTrace \in Nat /\ PoolLen \in Nat /\ PoolLen > MaxTrace /\ c.mpindex \in Nat
  BY CacheAssumption, CacheOK
<1>2. CASE c.mpindex + MaxTrace + 1 > PoolLen
  <2>. DEFINE r == FlushEntries(c)
  <2>1. AllocTrace(c) = r
    BY <1>2 DEF AllocTrace
  <2>2. r \in Cache /\ r.mpindex = 0 /\ \A s \in Slot : r.entry[s].pAddr \notin Address
    BY FlushOK
  <2>. HIDE DEF r
  <2>3. EntriesOK(r, switches) /\ StampsOK(r) /\ Unlinked(r) /\ CodeOK(r, m, mp, switches)
    BY <2>2, EmptyOK
  <2>4. \A sp : LinksOK(r, m, mp, sp)
    BY <2>2, <2>3, UnlinkedOK
  <2>5. r.mpindex + MaxTrace + 1 <= PoolLen
    BY <1>1, <2>2
  <2>. QED BY <2>1, <2>2, <2>3, <2>4, <2>5
<1>3. CASE ~(c.mpindex + MaxTrace + 1 > PoolLen)
  <2>1. AllocTrace(c) = c
    BY <1>3 DEF AllocTrace
  <2>2. c.mpindex + MaxTrace + 1 <= PoolLen
    BY <1>1, <1>3
  <2>. QED BY <2>1, <2>2
<1>. QED BY <1>2, <1>3

\* What commit_page_split_trace() changes in the cache.
LEMMA SplitFields ==
  ASSUME NEW d \in Cache, NEW a \in Address, NEW ppf \in PageNo
  PROVE  LET g == CommitSplit(d, a, ppf)
             k == d.nextSplit
         IN  /\ g \in Cache /\ k \in DOMAIN g.split /\ DOMAIN g.split = DOMAIN d.split
             /\ g.pool = d.pool /\ g.mpindex = d.mpindex /\ g.stamp = d.stamp
             /\ g.split[k] = [ppf |-> ppf, e |-> Hash(a)]
             /\ \A j \in DOMAIN d.split : j # k => g.split[j] = d.split[j]
             /\ \A s \in Slot : /\ g.entry[s] = d.entry[s] \/ g.entry[s].pAddr \notin Address
                                /\ g.entry[s].i = d.entry[s].i
             /\ d.split[k].ppf # Invalid => g.entry[d.split[k].e].pAddr \notin Address
<1>. DEFINE g == CommitSplit(d, a, ppf)
            k == d.nextSplit
            old == d.split[k]
            I == 0 .. SplitEntries - 1
            R == [ppf : PageNo \cup {Invalid}, e : Slot]
            E == IF old.ppf = Invalid THEN d.entry ELSE [d.entry EXCEPT ![old.e].pAddr = Invalid]
            x == [ppf |-> ppf, e |-> Hash(a)]
            P == [d.split EXCEPT ![k] = x]
            n == (k + 1) % SplitEntries
<1>1. /\ d.entry \in [Slot -> Entry] /\ d.split \in [I -> R] /\ k \in I
  BY DEF Cache
<1>2. SplitEntries \in Nat \ {0}
  BY CacheAssumption
<1>3. x \in R
  BY HashOK
<1>4. old \in R
  BY <1>1
<1>. HIDE DEF R
<1>5. n \in I
  <2>1. k + 1 \in Nat
    BY <1>1, <1>2
  <2>. QED BY <1>2, <2>1, DivOK
<1>6. /\ P \in [I -> R] /\ P[k] = x /\ \A j \in I : j # k => P[j] = d.split[j]
  BY <1>1, <1>3
<1>7. /\ E \in [Slot -> Entry]
      /\ \A s \in Slot : (E[s] = d.entry[s] \/ E[s].pAddr \notin Address) /\ E[s].i = d.entry[s].i
      /\ old.ppf # Invalid => E[old.e].pAddr \notin Address
  <2>1. CASE old.ppf = Invalid
    BY <1>1, <2>1
  <2>2. CASE old.ppf # Invalid
    <3>1. old.e \in Slot
      BY <1>4 DEF R
    <3>. DEFINE y == old.e
    <3>. HIDE DEF old
    <3>2. E = [d.entry EXCEPT ![y].pAddr = Invalid]
      BY <2>2
    <3>. HIDE DEF E, y
    <3>3. d.entry[y] \in Entry /\ y \in Slot
      BY <1>1, <3>1 DEF y
    <3>4. E = [d.entry EXCEPT ![y] = [d.entry[y] EXCEPT !.pAddr = Invalid]]
      BY <3>2
    <3>. DEFINE z == [d.entry[y] EXCEPT !.pAddr = Invalid]
    <3>5. z \in Entry /\ z.pAddr \notin Address /\ z.i = d.entry[y].i
      BY <3>3, NoEntryOK DEF Entry, Invalid
    <3>. HIDE DEF z
    <3>6. E \in [Slot -> Entry] /\ E[y] = z /\ \A s \in Slot : s # y => E[s] = d.entry[s]
      BY <1>1, <3>3, <3>4, <3>5 DEF z
    <3>. QED BY <3>5, <3>6 DEF y
  <2>. QED BY <2>1, <2>2
<1>8. g = [d EXCEPT !.entry = E, !.split = P, !.nextSplit = n]
  <2>1. CASE old.ppf = Invalid
    <3>1. g = [d EXCEPT !.split[k] = x, !.nextSplit = n]
      BY <2>1 DEF CommitSplit
    <3>2. E = d.entry
      BY <2>1
    <3>. QED BY <3>1, <3>2 DEF Cache
  <2>2. CASE old.ppf # Invalid
    <3>. DEFINE f == [d EXCEPT !.entry[old.e].pAddr = Invalid]
    <3>1. g = [f EXCEPT !.split[k] = x, !.nextSplit = (@ + 1) % SplitEntries]
      BY <2>2 DEF CommitSplit
    <3>2. f = [d EXCEPT !.entry = E]
      BY <2>2
    <3>. HIDE DEF f, E, old
    <3>3. f.split = d.split /\ f.nextSplit = k
      BY <3>2 DEF Cache
    <3>4. g = [f EXCEPT !.split = P, !.nextSplit = n]
      BY <3>1, <3>3
    <3>. HIDE DEF P, n, k
    <3>. QED BY <3>2, <3>4 DEF Cache
  <2>. QED BY <2>1, <2>2
<1>. HIDE DEF g, E, P, n
<1>9. /\ g.entry = E /\ g.split = P /\ g.pool = d.pool /\ g.mpindex = d.mpindex /\ g.stamp = d.stamp
  BY <1>8 DEF Cache
<1>10. g \in Cache
  BY <1>5, <1>6, <1>7, <1>8 DEF Cache, R
<1>11. DOMAIN P = I /\ DOMAIN d.split = I
  BY <1>1, <1>6
<1>. QED BY <1>1, <1>6, <1>7, <1>9, <1>10, <1>11 DEF g

\* Removing entries leaves the others as they were.
LEMMA FewerEntries ==
  ASSUME NEW d, NEW g, NEW n, EntriesOK(d, n), g.pool = d.pool, g.mpindex = d.mpindex,
         \A s \in Slot : g.entry[s].pAddr \in Address => g.entry[s] = d.entry[s]
  PROVE  EntriesOK(g, n)
<1>1. ASSUME NEW s \in Slot, g.entry[s].pAddr \in Address
      PROVE  /\ Hash(g.entry[s].pAddr) = s
             /\ g.entry[s].age <= n
             /\ g.entry[s].tlen >= 1
             /\ g.entry[s].i + g.entry[s].tlen <= g.mpindex
             /\ g.pool[g.entry[s].i + g.entry[s].tlen - 1] = Dummy
  <2>1. g.entry[s] = d.entry[s]
    BY <1>1
  <2>. QED BY <1>1, <2>1 DEF EntriesOK
<1>2. ASSUME NEW s \in Slot, NEW t \in Slot, s # t, g.entry[s].pAddr \in Address,
             g.entry[t].pAddr \in Address
      PROVE  Extent(g.entry[s]) \cap Extent(g.entry[t]) = {}
  <2>1. g.entry[s] = d.entry[s] /\ g.entry[t] = d.entry[t]
    BY <1>2
  <2>. QED BY <1>2, <2>1 DEF EntriesOK
<1>. QED BY <1>1, <1>2 DEF EntriesOK

\* serveICacheMiss(): the address has a trace that may be entered, and the others
\* are as they were.
LEMMA MissOK ==
  ASSUME NEW c \in Cache, NEW m \in [Address -> Bytes], NEW mp \in SUBSET (PageNo \X Lines),
         NEW a \in Address, switches \in Nat,
         EntriesOK(c, switches), StampsOK(c), CodeOK(c, m, mp, switches)
  PROVE  LET g == ServeMiss(c, m, a)
             mq == mp \cup Marks(c, m, a)
         IN  /\ g \in Cache /\ EntriesOK(g, switches) /\ StampsOK(g)
             /\ CodeOK(g, m, mq, switches)
             /\ \A sp : LinksOK(c, m, mp, sp) => LinksOK(g, m, mq, sp)
             /\ Runs(g, m, mq, g.entry[Hash(a)].i, a)
             /\ mq \in SUBSET (PageNo \X Lines)
<1>. DEFINE r == AllocTrace(c)
            q == Hash(a)
<1>1. /\ r \in Cache /\ EntriesOK(r, switches) /\ StampsOK(r) /\ CodeOK(r, m, mp, switches)
      /\ r.mpindex + MaxTrace + 1 <= PoolLen
      /\ \A sp : LinksOK(c, m, mp, sp) => LinksOK(r, m, mp, sp)
  BY AllocOK
<1>2. /\ MaxTrace \in Nat /\ MaxTrace >= 1 /\ PoolLen \in Nat /\ r.mpindex \in Nat
      /\ q \in Slot /\ Page(a) \in PageNo /\ a # Invalid
  BY <1>1, CacheAssumption, CacheOK, HashOK, AddressOK DEF Invalid
<1>3. CASE ~PageSplit(m, a)
  <2>. DEFINE t == Trace(r, m, a)
              ins == t.ins
              mask == t.mask
              L == {Page(a)} \X mask
              g == Commit(r, a, ins, mask)
              mq == mp \cup L
  <2>1. ServeMiss(c, m, a) = g /\ Marks(c, m, a) = L
    BY <1>3 DEF ServeMiss, Marks
  <2>. HIDE DEF r, q
  <2>2. /\ mask \subseteq Lines /\ Sound(r, m, a, L, ins)
        /\ Line(a) \in mask /\ \A l \in mask : Line(a) <= l
        /\ Len(ins) \in 1 .. MaxTrace + 1 /\ ins[Len(ins)] = Dummy
    BY <1>1, <1>3, TraceBuilt
  <2>. HIDE DEF t, ins, mask, L
  <2>3. Len(ins) >= 1 /\ r.mpindex + Len(ins) <= PoolLen
    BY <1>1, <1>2, <2>2
  <2>4. L = EntryLines(m, NewEntry(r, a, ins, mask))
    <3>1. NewEntry(r, a, ins, mask).pAddr = a /\ NewEntry(r, a, ins, mask).traceMask = mask
      BY DEF NewEntry
    <3>. QED BY <1>3, <3>1 DEF EntryLines, L
  <2>5. /\ g \in Cache /\ EntriesOK(g, switches) /\ StampsOK(g)
        /\ \A s \in Slot : s # q /\ g.entry[s].pAddr \in Address /\ g.entry[s].age = switches
             => TraceOK(g, m, mq, s)
        /\ \A h \in Cache :
             /\ h.pool = g.pool /\ h.entry[q] = g.entry[q]
             /\ PageSplit(m, a) =>
                  \E k \in DOMAIN h.split : h.split[k] = [ppf |-> SecondPage(m, a), e |-> q]
             => TraceOK(h, m, mq, q)
        /\ \A sp : LinksOK(r, m, mp, sp) => LinksOK(g, m, mq, sp)
        /\ Runs(g, m, mq, r.mpindex, a)
    BY <1>1, <2>2, <2>3, <2>4, CommitOK DEF q
  <2>6. g.entry[q].i = r.mpindex
    <3>1. g.entry[q] = NewEntry(r, a, ins, mask)
      <4>1. ins \in Seq(Decoded \cup {Dummy})
        BY <2>2 DEF Sound
      <4>. QED BY <1>1, <2>2, <2>3, <4>1, CommitFields DEF q
    <3>. QED BY <3>1 DEF NewEntry
  <2>. HIDE DEF g, mq
  <2>7. TraceOK(g, m, mq, q)
    BY <1>3, <2>5
  <2>8. CodeOK(g, m, mq, switches)
    BY <2>5, <2>7 DEF CodeOK
  <2>9. mq \in SUBSET (PageNo \X Lines)
    BY <1>2, <2>2 DEF mq, L
  <2>. QED BY <1>1, <2>1, <2>5, <2>6, <2>8, <2>9 DEF mq, q
<1>4. CASE PageSplit(m, a)
  <2>. DEFINE ins == <<Decode(m, a), Dummy>>
              mask == {Max(Lines)}
              ppf == SecondPage(m, a)
              L == {<<Page(a), Max(Lines)>>, <<ppf, 0>>}
              d == Commit(r, a, ins, mask)
              g == CommitSplit(d, a, ppf)
              mq == mp \cup L
  <2>1. ServeMiss(c, m, a) = g /\ Marks(c, m, a) = L
    BY <1>4 DEF ServeMiss, Marks
  <2>2. /\ Line(a) = Max(Lines) /\ Max(Lines) \in Lines /\ ppf \in PageNo /\ 0 \in Lines
        /\ InsnLines(m, a) \subseteq L
    BY <1>4, InsnLinesOK
  <2>. HIDE DEF r, q, ppf
  <2>3. Sound(r, m, a, L, ins) /\ Len(ins) = 2 /\ ins[Len(ins)] = Dummy
    <3>. DEFINE u == <<Decode(m, a)>>
                v == <<Dummy>>
    <3>1. ins = u \o v /\ Len(ins) = 2 /\ ins[2] = Dummy /\ Len(v) >= 1 /\ v[1] = Dummy
      OBVIOUS
    <3>2. Sound(r, m, a, InsnLines(m, a), u) /\ Sound(r, m, a, L, v)
      BY SoundOne
    <3>. HIDE DEF u, v, L, ins
    <3>3. Sound(r, m, a, InsnLines(m, a) \cup L, u \o v)
      BY <3>1, <3>2, SoundConcat
    <3>4. InsnLines(m, a) \cup L = L
      BY <2>2
    <3>. QED BY <3>1, <3>3, <3>4
  <2>4. L = EntryLines(m, NewEntry(r, a, ins, mask))
    <3>1. NewEntry(r, a, ins, mask).pAddr = a /\ NewEntry(r, a, ins, mask).traceMask = mask
      BY DEF NewEntry
    <3>. HIDE DEF ins
    <3>2. EntryLines(m, NewEntry(r, a, ins, mask)) = ({Page(a)} \X mask) \cup {<<ppf, 0>>}
      BY <1>4, <3>1 DEF EntryLines, ppf
    <3>. QED BY <3>2
  <2>5. mask \in SUBSET Lines /\ Line(a) \in mask /\ \A l \in mask : Line(a) <= l
    BY <2>2 DEF Lines
  <2>. HIDE DEF ins, mask, L
  <2>6. Len(ins) >= 1 /\ r.mpindex + Len(ins) <= PoolLen
    BY <1>1, <1>2, <2>3
  <2>7. /\ d \in Cache /\ EntriesOK(d, switches) /\ StampsOK(d)
        /\ \A s \in Slot : s # q /\ d.entry[s].pAddr \in Address /\ d.entry[s].age = switches
             => TraceOK(d, m, mq, s)
        /\ \A h \in Cache :
             /\ h.pool = d.pool /\ h.entry[q] = d.entry[q]
             /\ PageSplit(m, a) =>
                  \E k \in DOMAIN h.split : h.split[k] = [ppf |-> SecondPage(m, a), e |-> q]
             => TraceOK(h, m, mq, q)
        /\ \A sp : LinksOK(r, m, mp, sp) => LinksOK(d, m, mq, sp)
        /\ Runs(d, m, mq, r.mpindex, a)
    BY <1>1, <2>3, <2>4, <2>5, <2>6, CommitOK DEF q
  <2>8. d.entry[q].i = r.mpindex
    <3>1. d.entry[q] = NewEntry(r, a, ins, mask)
      <4>1. ins \in Seq(Decoded \cup {Dummy})
        BY <2>3 DEF Sound
      <4>. QED BY <1>1, <2>5, <2>6, <4>1, CommitFields DEF q
    <3>. QED BY <3>1 DEF NewEntry
  <2>. HIDE DEF d, mq
  <2>. DEFINE k == d.nextSplit
  <2>9. /\ g \in Cache /\ k \in DOMAIN g.split /\ DOMAIN g.split = DOMAIN d.split
        /\ g.pool = d.pool /\ g.mpindex = d.mpindex /\ g.stamp = d.stamp
        /\ g.split[k] = [ppf |-> ppf, e |-> q]
        /\ \A j \in DOMAIN d.split : j # k => g.split[j] = d.split[j]
        /\ \A s \in Slot : /\ g.entry[s] = d.entry[s] \/ g.entry[s].pAddr \notin Address
                           /\ g.entry[s].i = d.entry[s].i
        /\ d.split[k].ppf # Invalid => g.entry[d.split[k].e].pAddr \notin Address
    BY <2>2, <2>7, SplitFields DEF q
  <2>. HIDE DEF g, k
  <2>10. \A s \in Slot : g.entry[s].pAddr \in Address => g.entry[s] = d.entry[s]
    BY <2>9
  <2>11. EntriesOK(g, switches)
    BY <2>7, <2>9, <2>10, FewerEntries
  <2>12. StampsOK(g)
    BY <2>7, <2>9 DEF StampsOK
  <2>13. \A p, b : Runs(d, m, mq, p, b) => Runs(g, m, mq, p, b)
    BY <2>9 DEF Runs, Fresh
  <2>14. \A sp : LinksOK(d, m, mq, sp) => LinksOK(g, m, mq, sp)
    BY <2>9, <2>13 DEF LinksOK
  <2>15. ASSUME NEW s \in Slot, g.entry[s].pAddr \in Address, g.entry[s].age = switches
         PROVE  TraceOK(g, m, mq, s)
    <3>1. g.entry[s] = d.entry[s]
      BY <2>10, <2>15
    <3>2. CASE s = q
      BY <2>7, <2>9, <3>1, <3>2 DEF ppf
    <3>3. CASE s # q
      <4>1. TraceOK(d, m, mq, s)
        BY <2>7, <2>15, <3>1, <3>3
      <4>2. d \in Cache /\ EntriesOK(d, switches) /\ d.entry[s].pAddr \in Address
        BY <2>7, <2>15, <3>1
      <4>3. /\ d.entry[s].tlen >= 1 /\ d.pool[d.entry[s].i + d.entry[s].tlen - 1] = Dummy
            /\ \A j \in Extent(d.entry[s]) : j \in Place
        BY <4>2, ExtentOK
      <4>4. \A j \in Extent(d.entry[s]) : Keeps(d, g, j)
        <5>1. \A j \in Place : d.pool[j] \in Decoded \cup {Dummy}
          BY <2>7, CacheOK
        <5>. QED BY <2>9, <4>3, <5>1 DEF Keeps
      <4>5. EntryLines(m, d.entry[s]) \subseteq mq
        BY <4>1 DEF TraceOK
      <4>6. d.entry[s].pAddr \in Address /\ d.entry[s].pAddr \in Address
        BY <2>7, <2>15, <3>1, CacheOK
      <4>7. ASSUME NEW j \in DOMAIN d.split,
                   d.split[j] = [ppf |-> SecondPage(m, d.entry[s].pAddr), e |-> s]
            PROVE  g.split[j] = d.split[j]
        <5>1. SecondPage(m, d.entry[s].pAddr) # Invalid
          <6>1. SecondPage(m, d.entry[s].pAddr) \in Nat
            <7>1. ILen(m, d.entry[s].pAddr) - 1 \in Nat
              BY <4>6, ILenOK
            <7>2. NextAddress(d.entry[s].pAddr, ILen(m, d.entry[s].pAddr) - 1) \in Address
              BY <4>6, <7>1, NextOK
            <7>3. SecondPage(m, d.entry[s].pAddr) \in PageNo
              BY <7>2, AddressOK DEF SecondPage
            <7>. QED BY <7>3 DEF PageNo
          <6>. QED BY <6>1 DEF Invalid
        <5>2. d.split[j].e = s /\ d.split[j].ppf # Invalid
          BY <4>7, <5>1
        <5>3. j # k
          BY <2>9, <2>15, <5>2
        <5>. QED BY <2>9, <5>3
      <4>. QED BY <2>7, <2>9, <3>1, <4>1, <4>3, <4>4, <4>5, <4>6, <4>7, TraceKept
    <3>. QED BY <3>2, <3>3
  <2>16. CodeOK(g, m, mq, switches)
    BY <2>15 DEF CodeOK
  <2>17. mq \in SUBSET (PageNo \X Lines)
    BY <1>2, <2>2 DEF mq, L
  <2>18. g.entry[q].i = r.mpindex
    BY <1>2, <2>8, <2>9
  <2>. QED BY <1>1, <2>1, <2>7, <2>9, <2>11, <2>12, <2>13, <2>14, <2>16, <2>17, <2>18 DEF mq, q
<1>. QED BY <1>3, <1>4

\* A miss that faults on its second page removes the entry of the address.
LEMMA FailedOK ==
  ASSUME NEW c \in Cache, NEW m \in [Address -> Bytes], NEW mp, NEW a \in Address, switches \in Nat,
         EntriesOK(c, switches), StampsOK(c), CodeOK(c, m, mp, switches)
  PROVE  LET g == FailedMiss(c, a)
         IN  g \in Cache /\ EntriesOK(g, switches) /\ StampsOK(g) /\ CodeOK(g, m, mp, switches)
<1>. DEFINE r == AllocTrace(c)
            q == Hash(a)
            f == [pAddr |-> -1 - a, traceMask |-> {}, age |-> switches, tlen |-> 1, i |-> r.mpindex]
            E == [r.entry EXCEPT ![q] = f]
            g == FailedMiss(c, a)
<1>1. r \in Cache /\ EntriesOK(r, switches) /\ StampsOK(r) /\ CodeOK(r, m, mp, switches)
  BY AllocOK
<1>2. f \in Entry /\ f.pAddr \notin Address /\ q \in Slot
  <2>1. a \in Nat /\ r.mpindex \in Nat
    BY <1>1, AddressOK, CacheOK
  <2>2. -1 - a \in Int /\ \A b \in Address : b # -1 - a
    BY <2>1, AddressOK
  <2>. QED BY <2>1, <2>2, HashOK DEF Entry
<1>3. g = [r EXCEPT !.entry = E]
  BY DEF FailedMiss
<1>. HIDE DEF r, q, f
<1>4. r.entry \in [Slot -> Entry]
  BY <1>1 DEF Cache
<1>5. E \in [Slot -> Entry] /\ E[q] = f /\ \A s \in Slot : s # q => E[s] = r.entry[s]
  BY <1>2, <1>4
<1>. HIDE DEF g, E
<1>6. /\ g \in Cache /\ g.entry = E /\ g.pool = r.pool /\ g.split = r.split
      /\ g.mpindex = r.mpindex /\ g.stamp = r.stamp
  BY <1>1, <1>3, <1>5 DEF Cache
<1>7. \A s \in Slot : g.entry[s].pAddr \in Address => g.entry[s] = r.entry[s]
  BY <1>2, <1>5, <1>6
<1>8. EntriesOK(g, switches)
  BY <1>1, <1>6, <1>7, FewerEntries
<1>9. StampsOK(g)
  BY <1>1, <1>6 DEF StampsOK
<1>10. ASSUME NEW s \in Slot, g.entry[s].pAddr \in Address, g.entry[s].age = switches
       PROVE  TraceOK(g, m, mp, s)
  <2>1. g.entry[s] = r.entry[s]
    BY <1>7, <1>10
  <2>2. TraceOK(r, m, mp, s)
    BY <1>1, <1>10, <2>1 DEF CodeOK
  <2>3. \A k : Fresh(r, m, mp, k) => Fresh(g, m, mp, k)
    BY <1>6 DEF Fresh
  <2>. QED BY <1>6, <2>1, <2>2, <2>3 DEF TraceOK
<1>11. CodeOK(g, m, mp, switches)
  BY <1>10 DEF CodeOK
<1>. QED BY <1>6, <1>8, <1>9, <1>11 DEF g

-----------------------------------------------------------------------------
(* Executing traces.                                                       *)

\* Where execution may enter there is the instruction at the address, or an end.
LEMMA RunsAt ==
  ASSUME NEW c \in Cache, NEW m \in [Address -> Bytes], NEW mp, NEW p, NEW a,
         Runs(c, m, mp, p, a)
  PROVE  /\ p \in 0 .. c.mpindex - 1 /\ p \in Place
         /\ c.pool[p] # Dummy =>
              /\ c.pool[p] \in Decoded /\ c.pool[p].pAddr = a /\ a \in Address
              /\ c.pool[p].bytes = Decode(m, a).bytes /\ Len(c.pool[p].bytes) = ILen(m, a)
<1>1. PICK q \in p .. c.mpindex - 1 : c.pool[q] = Dummy /\ \A k \in p .. q : Fresh(c, m, mp, k)
  BY DEF Runs
<1>2. p \in Nat /\ (c.pool[p] = Dummy \/ c.pool[p].pAddr = a) /\ c.mpindex \in Nat
  BY CacheOK DEF Runs
<1>3. p \in 0 .. c.mpindex - 1 /\ p \in p .. q
  BY <1>1, <1>2
<1>4. p \in Place
  BY <1>3, CacheOK
<1>5. Fresh(c, m, mp, p)
  BY <1>1, <1>3
<1>6. ASSUME c.pool[p] # Dummy
      PROVE  /\ c.pool[p] \in Decoded /\ c.pool[p].pAddr = a /\ a \in Address
             /\ c.pool[p].bytes = Decode(m, a).bytes /\ Len(c.pool[p].bytes) = ILen(m, a)
  <2>1. c.pool[p] \in Decoded /\ c.pool[p].pAddr = a /\ c.pool[p].bytes = Decode(m, a).bytes
    BY <1>2, <1>5, <1>6 DEF Fresh
  <2>2. a \in Address
    BY <2>1 DEF Decoded
  <2>. QED BY <2>1, <2>2, DecodeOK
<1>. QED BY <1>3, <1>4, <1>6

\* After a straight instruction comes the next place of the pool.
LEMMA RunsOn ==
  ASSUME NEW c \in Cache, NEW m \in [Address -> Bytes], NEW mp, NEW p, NEW a,
         Runs(c, m, mp, p, a), c.pool[p] # Dummy, c.pool[p].bytes[1] # "branch"
  PROVE  /\ Runs(c, m, mp, p + 1, NextAddress(a, Len(c.pool[p].bytes)))
         /\ NextAddress(a, Len(c.pool[p].bytes)) \in Address
<1>1. PICK q \in p .. c.mpindex - 1 : c.pool[q] = Dummy /\ \A k \in p .. q : Fresh(c, m, mp, k)
  BY DEF Runs
<1>2. /\ p \in 0 .. c.mpindex - 1 /\ c.pool[p].pAddr = a /\ a \in Address
      /\ Len(c.pool[p].bytes) = ILen(m, a) /\ c.mpindex \in Nat
  BY RunsAt, CacheOK
<1>3. p # q
  BY <1>1
<1>4. p + 1 \in Nat /\ q \in p + 1 .. c.mpindex - 1 /\ p \in p .. q /\ \A k \in p + 1 .. q : k \in p .. q
  BY <1>1, <1>2, <1>3
<1>5. c.pool[p + 1] = Dummy \/ c.pool[p + 1].pAddr = NextAddress(a, ILen(m, a))
  BY <1>1, <1>2, <1>4 DEF Fresh
<1>6. Runs(c, m, mp, p + 1, NextAddress(a, ILen(m, a)))
  BY <1>1, <1>4, <1>5 DEF Runs
<1>7. ILen(m, a) \in Nat
  BY <1>2, ILenOK
<1>. QED BY <1>2, <1>6, <1>7, NextOK

\* The trace of an entry that is found may be entered.
LEMMA EntryRuns ==
  ASSUME NEW c \in Cache, NEW m \in [Address -> Bytes], NEW mp, NEW a \in Address,
         EntriesOK(c, switches), CodeOK(c, m, mp, switches), FindEntry(c, a)
  PROVE  Runs(c, m, mp, c.entry[Hash(a)].i, a)
<1>. DEFINE s == Hash(a)
            e == c.entry[s]
<1>1. s \in Slot /\ a # Invalid
  BY HashOK, AddressOK DEF Invalid
<1>2. e.pAddr = a /\ e.age = switches
  BY DEF FindEntry
<1>3. /\ e.i \in Nat /\ e.tlen \in Nat /\ c.mpindex \in Nat /\ e.tlen >= 1
      /\ e.i + e.tlen <= c.mpindex /\ c.pool[e.i + e.tlen - 1] = Dummy
  BY <1>1, <1>2, CacheOK DEF EntriesOK
<1>4. TraceOK(c, m, mp, s)
  BY <1>1, <1>2 DEF CodeOK
<1>. HIDE DEF s
<1>5. /\ c.pool[e.i] = Dummy \/ c.pool[e.i].pAddr = a
      /\ \A k \in Extent(e) : Fresh(c, m, mp, k)
  BY <1>2, <1>4 DEF TraceOK
<1>. HIDE DEF e
<1>6. e.i + e.tlen - 1 \in e.i .. c.mpindex - 1
  BY <1>3
<1>7. Runs(c, m, mp, e.i, a)
  BY <1>3, <1>5, <1>6 DEF Runs, Extent
<1>. QED BY <1>7 DEF e, s

\* linkTrace() changes a link and nothing else.
LEMMA LinkMade ==
  ASSUME NEW c \in Cache, NEW m \in [Address -> Bytes], NEW mp, NEW sp, NEW p, NEW a,
         NEW t, t = Target[sp][a],
         EntriesOK(c, switches), StampsOK(c), CodeOK(c, m, mp, switches), LinksOK(c, m, mp, sp),
         Runs(c, m, mp, p, a), c.pool[p] # Dummy, t \in Address, FindEntry(c, t)
  PROVE  LET d == [c EXCEPT !.pool[p].link = [next |-> c.entry[Hash(t)].i, stamp |-> c.stamp]]
         IN  /\ d \in Cache /\ EntriesOK(d, switches) /\ StampsOK(d) /\ CodeOK(d, m, mp, switches)
             /\ LinksOK(d, m, mp, sp) /\ Runs(d, m, mp, c.entry[Hash(t)].i, t)
<1>. DEFINE d == [c EXCEPT !.pool[p].link = [next |-> c.entry[Hash(t)].i, stamp |-> c.stamp]]
            b == c.entry[Hash(t)].i
            L == [next |-> b, stamp |-> c.stamp]
            x == [c.pool[p] EXCEPT !.link = L]
            P == [c.pool EXCEPT ![p] = x]
<1>1. /\ p \in 0 .. c.mpindex - 1 /\ p \in Place /\ c.pool[p] \in Decoded /\ c.pool[p].pAddr = a
  BY RunsAt
<1>2. Runs(c, m, mp, b, t)
  BY EntryRuns
<1>3. b \in Place /\ c.stamp \in Nat
  BY <1>2, RunsAt, CacheOK
<1>4. L \in Link /\ L.next = b /\ L.stamp = c.stamp
  BY <1>3 DEF Link
<1>5. d = [c EXCEPT !.pool = P]
  OBVIOUS
<1>. HIDE DEF b, L, d
<1>6. x \in Decoded /\ x.pAddr = a /\ x.bytes = c.pool[p].bytes /\ x.link = L
  BY <1>1, <1>4 DEF Decoded
<1>7. c.pool \in [Place -> Decoded \cup {Dummy}]
  BY DEF Cache
<1>. HIDE DEF x
<1>8. P \in [Place -> Decoded \cup {Dummy}] /\ P[p] = x /\ \A k \in Place : k # p => P[k] = c.pool[k]
  BY <1>1, <1>6, <1>7
<1>. HIDE DEF P
<1>9. /\ d \in Cache /\ d.pool = P /\ d.entry = c.entry /\ d.split = c.split
      /\ d.mpindex = c.mpindex /\ d.stamp = c.stamp
  BY <1>5, <1>8 DEF Cache
<1>10. \A k \in Place : k # p => d.pool[k] = c.pool[k]
  BY <1>8, <1>9
<1>11. \A k \in Place : Keeps(c, d, k)
  <2>1. Keeps(c, d, p)
    BY <1>1, <1>6, <1>8, <1>9 DEF Keeps
  <2>2. ASSUME NEW k \in Place, k # p PROVE Keeps(c, d, k)
    BY <1>7, <1>10, <2>2 DEF Keeps
  <2>. QED BY <2>1, <2>2
<1>12. \A k \in 0 .. c.mpindex - 1 : k \in Place
  BY CacheOK
<1>13. \A k \in Place : c.pool[k] = Dummy => d.pool[k] = Dummy
  BY <1>10
<1>14. \A s \in Slot : c.entry[s].pAddr \in Address =>
         /\ c.entry[s].i + c.entry[s].tlen - 1 \in Place
         /\ \A k \in Extent(c.entry[s]) : k \in Place
  <2>. SUFFICES ASSUME NEW s \in Slot, c.entry[s].pAddr \in Address
                PROVE  /\ c.entry[s].i + c.entry[s].tlen - 1 \in Place
                       /\ \A k \in Extent(c.entry[s]) : k \in Place
    OBVIOUS
  <2>1. /\ c.entry[s].i \in Nat /\ c.entry[s].tlen \in Nat /\ c.entry[s].tlen >= 1
        /\ c.entry[s].i + c.entry[s].tlen <= c.mpindex
        /\ c.mpindex \in Nat /\ PoolLen \in Nat /\ c.mpindex <= PoolLen
    BY CacheOK DEF EntriesOK
  <2>. QED BY <2>1 DEF Place, Extent
<1>15. EntriesOK(d, switches)
  BY <1>9, <1>13, <1>14 DEF EntriesOK
<1>16. StampsOK(d)
  <2>1. ASSUME NEW k \in 0 .. c.mpindex - 1 PROVE d.pool[k].link.stamp <= c.stamp
    <3>1. CASE k = p
      BY <1>3, <1>4, <1>6, <1>8, <1>9, <3>1
    <3>2. CASE k # p
      BY <1>10, <1>12, <2>1, <3>2 DEF StampsOK
    <3>. QED BY <3>1, <3>2
  <2>. QED BY <1>9, <2>1 DEF StampsOK
<1>17. \A r, y : Runs(c, m, mp, r, y) => Runs(d, m, mp, r, y)
  <2>1. c.mpindex <= d.mpindex /\ \A k \in 0 .. c.mpindex - 1 : Keeps(c, d, k)
    BY <1>9, <1>11, <1>12, CacheOK
  <2>. QED BY <1>9, <2>1, RunsKept
<1>18. LinksOK(d, m, mp, sp)
  <2>1. ASSUME NEW k \in 0 .. c.mpindex - 1, d.pool[k].link.next # Invalid,
               d.pool[k].link.stamp = c.stamp
        PROVE  Runs(d, m, mp, d.pool[k].link.next, Target[sp][d.pool[k].pAddr])
    <3>1. CASE k = p
      BY <1>2, <1>4, <1>6, <1>8, <1>9, <1>17, <3>1
    <3>2. CASE k # p
      <4>1. d.pool[k] = c.pool[k]
        BY <1>10, <1>12, <3>2
      <4>. QED BY <1>17, <2>1, <4>1 DEF LinksOK
    <3>. QED BY <3>1, <3>2
  <2>. QED BY <1>9, <2>1 DEF LinksOK
<1>19. ASSUME NEW s \in Slot, d.entry[s].pAddr \in Address, d.entry[s].age = switches
       PROVE  TraceOK(d, m, mp, s)
  <2>1. d.entry[s] = c.entry[s] /\ TraceOK(c, m, mp, s)
    BY <1>9, <1>19 DEF CodeOK
  <2>2. c.entry[s].tlen >= 1 /\ c.pool[c.entry[s].i + c.entry[s].tlen - 1] = Dummy
    BY <1>19, <2>1 DEF EntriesOK
  <2>3. \A k \in Extent(c.entry[s]) : Keeps(c, d, k)
    BY <1>11, <1>14, <1>19, <2>1
  <2>4. EntryLines(m, c.entry[s]) \subseteq mp
    BY <2>1 DEF TraceOK
  <2>. QED BY <1>9, <1>19, <2>1, <2>2, <2>3, <2>4, TraceKept
<1>20. CodeOK(d, m, mp, switches)
  BY <1>19 DEF CodeOK
<1>. QED BY <1>2, <1>9, <1>15, <1>16, <1>17, <1>18, <1>20 DEF b, d

\* What the invariant gives to a step.
LEMMA InvElim ==
  ASSUME CacheInv
  PROVE  /\ pc \in {"host", "device", "fetch", "exec", "end", "fault", "vm", "dispatch"}
         /\ mem \in [Address -> Bytes] /\ rip \in Address /\ as \in AddressSpaces /\ cur \in Place
         /\ mapping \in SUBSET (PageNo \X Lines)
         /\ switches \in 0 .. MaxSwitches + 1 /\ switches \in Nat
         /\ ic \in Cache /\ EntriesOK(ic, switches) /\ StampsOK(ic)
         /\ pc \notin {"vm", "dispatch"} => CodeOK(ic, mem, mapping, switches)
         /\ pc \in {"device", "fetch", "exec", "end"} => LinksOK(ic, mem, mapping, as)
         /\ pc = "exec" => Runs(ic, mem, mapping, cur, rip)
         /\ SideOK
<1>1. switches \in 0 .. MaxSwitches + 1 /\ MaxSwitches \in Nat
  BY CacheAssumption DEF CacheInv, TypeOK
<1>2. switches \in Nat
  BY <1>1
<1>. QED BY <1>1, <1>2 DEF CacheInv, TypeOK, Place, PageNo

\* getICacheEntry(): the address has a trace that may be entered.
LEMMA GetEntryOK ==
  ASSUME CacheInv, pc \in {"fetch", "end"}, GetEntry
  PROVE  /\ ic' \in Cache /\ EntriesOK(ic', switches) /\ StampsOK(ic')
         /\ CodeOK(ic', mem, mapping', switches) /\ LinksOK(ic', mem, mapping', as)
         /\ mapping' \subseteq PageNo \X Lines
         /\ Runs(ic', mem, mapping', ic'.entry[Hash(rip)].i, rip)
         /\ mapping' \subseteq mapping \cup Marks(ic, mem, rip)
         /\ (stack' = stack /\ mapping' = mapping) \/ MissStack
<1>1. /\ ic \in Cache /\ mem \in [Address -> Bytes] /\ mapping \in SUBSET (PageNo \X Lines)
      /\ rip \in Address /\ switches \in Nat
      /\ EntriesOK(ic, switches) /\ StampsOK(ic) /\ CodeOK(ic, mem, mapping, switches)
      /\ LinksOK(ic, mem, mapping, as)
  BY InvElim
<1>2. CASE FindEntry(ic, rip)
  <2>1. ic' = ic /\ mapping' = mapping /\ stack' = stack
    BY <1>2 DEF GetEntry
  <2>2. Runs(ic, mem, mapping, ic.entry[Hash(rip)].i, rip)
    BY <1>1, <1>2, EntryRuns
  <2>. QED BY <1>1, <2>1, <2>2
<1>3. CASE ~FindEntry(ic, rip)
  <2>. DEFINE g == ServeMiss(ic, mem, rip)
              mq == mapping \cup Marks(ic, mem, rip)
  <2>1. ic' = g /\ mapping' = mq /\ MissStack
    BY <1>3 DEF GetEntry
  <2>2. mapping' \subseteq mapping \cup Marks(ic, mem, rip)
    BY <2>1
  <2>3. /\ g \in Cache /\ EntriesOK(g, switches) /\ StampsOK(g)
        /\ CodeOK(g, mem, mq, switches)
        /\ \A sp : LinksOK(ic, mem, mapping, sp) => LinksOK(g, mem, mq, sp)
        /\ Runs(g, mem, mq, g.entry[Hash(rip)].i, rip)
        /\ mq \in SUBSET (PageNo \X Lines)
    BY <1>1, MissOK
  <2>. HIDE DEF g, mq
  <2>. QED BY <1>1, <2>1, <2>2, <2>3
<1>. QED BY <1>2, <1>3

\* What a step has to show.
LEMMA InvIntro ==
  ASSUME pc' \in {"host", "device", "fetch", "exec", "end", "fault", "vm", "dispatch"},
         mem' \in [Address -> Bytes], rip' \in Address, as' \in AddressSpaces, cur' \in Place,
         mapping' \subseteq PageNo \X Lines, switches' \in 0 .. MaxSwitches + 1,
         ic' \in Cache, EntriesOK(ic', switches'), StampsOK(ic'),
         pc' = "vm" => switches' < MaxSwitches,
         pc' = "dispatch" => /\ switches' <= MaxSwitches
                             /\ \A s \in Slot : ic'.entry[s].pAddr \in Address => ic'.entry[s].age # switches',
         pc' \notin {"vm", "dispatch"} => CodeOK(ic', mem', mapping', switches'),
         pc' \in {"device", "fetch", "exec", "end"} => LinksOK(ic', mem', mapping', as'),
         pc' = "exec" => Runs(ic', mem', mapping', cur', rip'),
         SideOK'
  PROVE  CacheInv'
<1>1. ic'.mpindex \in 0 .. PoolLen /\ ic'.stamp \in 0 .. MaxStamp - 1 /\ ic'.nextSplit \in 0 .. SplitEntries - 1
  BY DEF Cache
<1>2. TypeOK'
  <2>1. stack' \in [page : StackPages \cup {Invalid}, stamped : BOOLEAN]
    BY DEF SideOK, StackType
  <2>. QED BY <1>1, <2>1 DEF TypeOK, Place, PageNo
<1>3. \A s \in Slot : Valid(s)' <=> ic'.entry[s].pAddr \in Address
  BY DEF Valid
<1>. QED BY <1>2, <1>3 DEF CacheInv

\* No stack page, and one that is looked up.
LEMMA NoStackOK ==
  /\ NoStack \in StackType /\ NoStack.stamped
  /\ \A pg \in StackPages : StackPrefetch(pg) \in StackType
BY DEF NoStack, StackType, StackPrefetch

\* Bytes that change keep the program free of instructions that continue onto a
\* page of the stack.
LEMMA WrittenApart ==
  ASSUME SplitFree, SplitMem, mem \in [Address -> Bytes], NEW w \in Writes, mem' = Written(w)
  PROVE  SplitMem'
<1>1. SUFFICES ASSUME NEW a \in Address, BeforeStack(a) PROVE Written(w)[a] # "wide"
  BY DEF SplitMem
<1>2. w[1] \in Nat /\ Len(w[2]) \in Nat
  <2>1. w[1] \in Address /\ w[2] \in UNION {[1 .. n -> Bytes] : n \in 1 .. MaxInsn}
    BY GuestAssumption
  <2>2. PICK n \in 1 .. MaxInsn : w[2] \in [1 .. n -> Bytes]
    BY <2>1
  <2>3. n \in Nat
    BY <2>2 DEF MaxInsn
  <2>4. w[2] \in Seq(Bytes) /\ Len(w[2]) = n
    BY <2>2, <2>3
  <2>. QED BY <2>1, <2>3, <2>4, AddressOK
<1>3. CASE a \in w[1] .. w[1] + Len(w[2]) - 1
  <2>. DEFINE k == a - w[1] + 1
  <2>1. Written(w)[a] = w[2][k]
    BY <1>3 DEF Written
  <2>2. k \in 1 .. Len(w[2]) /\ w[1] + k - 1 = a
    BY <1>2, <1>3, AddressOK
  <2>. HIDE DEF k
  <2>. QED BY <1>1, <2>1, <2>2 DEF SplitFree
<1>4. CASE a \notin w[1] .. w[1] + Len(w[2]) - 1
  <2>1. Written(w)[a] = mem[a]
    BY <1>4 DEF Written
  <2>. QED BY <1>1, <2>1 DEF SplitMem
<1>. QED BY <1>3, <1>4

\* What keeps the stack page in step with the map.
LEMMA StackKept ==
  ASSUME SideOK, mapping' \subseteq mapping,
         stack' \in {stack, NoStack} \cup {StackPrefetch(pg) : pg \in StackPages}
  PROVE  stack' \in StackType /\ StackOK'
<1>1. CASE stack' = stack
  BY <1>1 DEF SideOK, StackOK
<1>2. CASE stack' = NoStack
  BY <1>2, NoStackOK DEF StackOK
<1>3. CASE \E pg \in StackPages : stack' = StackPrefetch(pg)
  <2>1. PICK pg \in StackPages : stack' = StackPrefetch(pg)
    BY <1>3
  <2>2. stack'.page = pg /\ stack'.stamped = (\E l \in Lines : <<pg, l>> \in mapping)
    BY <2>1 DEF StackPrefetch
  <2>. QED BY <2>1, <2>2, NoStackOK DEF StackOK
<1>. QED BY <1>1, <1>2, <1>3

LEMMA SideKept ==
  ASSUME SideOK, mapping' \subseteq mapping, mem' = mem,
         stack' \in {stack, NoStack} \cup {StackPrefetch(pg) : pg \in StackPages}
  PROVE  SideOK'
<1>1. SplitMem'
  BY DEF SideOK, SplitMem
<1>. QED BY <1>1, StackKept DEF SideOK

\* A write looks at the map and takes lines off it, if any.
LEMMA MappingShrinks ==
  ASSUME NEW pg, NEW mask, DecWriteStamp(pg, mask)
  PROVE  mapping' \subseteq mapping
BY DEF DecWriteStamp

\* A push that does not look at the map would have found nothing there.
LEMMA StackWriteOK ==
  ASSUME SplitFree, SideOK, mem \in [Address -> Bytes],
         NEW w \in Writes, NEW s \in StackFor(Page(w[1])), StackWrite(w, s)
  PROVE  /\ DecWriteStamp(Page(w[1]), StoreMask(w)) /\ mem' = Written(w)
         /\ StackStops(w, s) <=> Cached(Page(w[1]), StoreMask(w))
         /\ SideOK'
<1>. DEFINE pg == Page(w[1])
<1>1. /\ pg \in StackPages /\ stack' = s /\ mem' = Written(w)
      /\ s \in {NoStack, StackPrefetch(pg)} \cup {z \in {stack} : z.page = pg}
  BY DEF StackWrite, StackFor
<1>2. StoreMask(w) \in SUBSET Lines
  BY WriteOK
<1>3. ASSUME ~s.stamped PROVE ~Cached(pg, StoreMask(w))
  <2>1. \A l \in Lines : <<pg, l>> \notin mapping
    <3>1. CASE s = StackPrefetch(pg)
      BY <1>3, <3>1 DEF StackPrefetch
    <3>2. CASE s = stack /\ s.page = pg
      BY <1>3, <3>2 DEF SideOK, StackOK
    <3>. QED BY <1>1, <1>3, <3>1, <3>2, NoStackOK
  <2>. QED BY <1>2, <2>1 DEF Cached
<1>4. DecWriteStamp(pg, StoreMask(w))
  <2>1. CASE s.stamped
    BY <2>1 DEF StackWrite
  <2>2. CASE ~s.stamped
    <3>1. UNCHANGED <<ic, mapping>>
      BY <2>2 DEF StackWrite
    <3>. QED BY <1>3, <2>2, <3>1 DEF DecWriteStamp
  <2>. QED BY <2>1, <2>2
<1>5. StackStops(w, s) <=> Cached(pg, StoreMask(w))
  BY <1>3 DEF StackStops, Stops
<1>6. SplitMem'
  BY <1>1, WrittenApart DEF SideOK
<1>7. stack' \in StackType /\ StackOK'
  BY <1>1, <1>4, MappingShrinks, StackKept
<1>. QED BY <1>1, <1>4, <1>5, <1>6, <1>7 DEF SideOK

\* A store that goes around the stack page.
LEMMA SideStored ==
  ASSUME SplitFree, SideOK, mem \in [Address -> Bytes], NEW w \in Writes, NEW mask,
         DecWriteStamp(Page(w[1]), mask), mem' = Written(w), stack' = stack
  PROVE  SideOK'
<1>1. SplitMem'
  BY WrittenApart DEF SideOK
<1>2. stack' \in StackType /\ StackOK'
  BY MappingShrinks, StackKept
<1>. QED BY <1>1, <1>2 DEF SideOK

\* A miss marks the page of the first byte, which is then no longer the stack's,
\* and perhaps the next one, which never is.
LEMMA MissSide ==
  ASSUME SideOK, ic \in Cache, mem \in [Address -> Bytes], rip \in Address, MissStack, mem' = mem,
         mapping' \subseteq mapping \cup Marks(ic, mem, rip)
  PROVE  SideOK'
<1>1. SplitMem'
  BY DEF SideOK, SplitMem
<1>2. stack' \in StackType
  BY NoStackOK DEF SideOK, MissStack
<1>3. ASSUME ~stack'.stamped, NEW l \in Lines, <<stack'.page, l>> \in mapping' PROVE FALSE
  <2>1. stack' = stack /\ stack.page # Page(rip)
    BY <1>3, NoStackOK DEF MissStack
  <2>2. <<stack.page, l>> \in Marks(ic, mem, rip)
    BY <1>3, <2>1 DEF SideOK, StackOK
  <2>3. CASE PageSplit(mem, rip)
    <3>1. stack.page = SecondPage(mem, rip)
      BY <2>1, <2>2, <2>3 DEF Marks
    <3>2. Offset(rip) = PageLen - 1 /\ SecondPage(mem, rip) \in PageNo
      BY <2>3, InsnLinesOK
    <3>3. SecondPage(mem, rip) # Invalid
      BY <3>2, CacheAssumption DEF PageNo, Invalid
    <3>4. stack.page \in StackPages
      BY <3>1, <3>3 DEF SideOK, StackType
    <3>5. mem[rip] = "wide" /\ ILen(mem, rip) = 2
      <4>1. Offset(rip) + ILen(mem, rip) > PageLen /\ PageLen \in Nat
        BY <2>3, CacheAssumption DEF PageSplit
      <4>2. ILen(mem, rip) # 1
        BY <3>2, <4>1
      <4>. QED BY <4>2 DEF ILen, MaxInsn
    <3>6. SecondPage(mem, rip) = Page(NextAddress(rip, 1))
      BY <3>5 DEF SecondPage
    <3>7. BeforeStack(rip)
      BY <3>1, <3>2, <3>4, <3>6 DEF BeforeStack
    <3>. QED BY <3>5, <3>7 DEF SideOK, SplitMem
  <2>4. CASE ~PageSplit(mem, rip)
    <3>1. <<stack.page, l>> \in {Page(rip)} \X Trace(AllocTrace(ic), mem, rip).mask
      BY <2>2, <2>4 DEF Marks
    <3>. QED BY <2>1, <3>1
  <2>. QED BY <2>3, <2>4
<1>4. StackOK'
  BY <1>3 DEF StackOK
<1>. QED BY <1>1, <1>2, <1>4 DEF SideOK

\* The empty cache.
LEMMA EmptyCache ==
  ASSUME Init
  PROVE  /\ ic \in Cache /\ ic.mpindex = 0 /\ ic.stamp = 0 /\ ic.nextSplit = 0
         /\ \A s \in Slot : ic.entry[s].pAddr \notin Address
<1>1. /\ NoEntry \in Entry /\ NoEntry.pAddr \notin Address
      /\ NoSplit \in [ppf : PageNo \cup {Invalid}, e : Slot]
  BY NoEntryOK, CacheAssumption DEF NoSplit, Slot
<1>2. 0 \in 0 .. SplitEntries - 1 /\ 0 \in 0 .. PoolLen /\ 0 \in 0 .. MaxStamp - 1
  BY CacheAssumption
<1>. DEFINE E == [s \in Slot |-> NoEntry]
            Q == [p \in Place |-> Dummy]
            S == [k \in 0 .. SplitEntries - 1 |-> NoSplit]
<1>3. ic = [entry |-> E, pool |-> Q, split |-> S, nextSplit |-> 0, mpindex |-> 0, stamp |-> 0]
  BY DEF Init, Slot, Place
<1>4. /\ E \in [Slot -> Entry] /\ Q \in [Place -> Decoded \cup {Dummy}]
      /\ S \in [0 .. SplitEntries - 1 -> [ppf : PageNo \cup {Invalid}, e : Slot]]
      /\ \A s \in Slot : E[s].pAddr \notin Address
  BY <1>1
<1>. HIDE DEF E, Q, S
<1>. QED BY <1>2, <1>3, <1>4 DEF Cache

\* The invariant holds at first.
LEMMA CacheInit == SplitFree /\ Init => CacheInv
<1>. SUFFICES ASSUME SplitFree, Init PROVE CacheInv
  OBVIOUS
<1>1. /\ 0 \in 0 .. SplitEntries - 1 /\ 0 \in 0 .. PoolLen /\ 0 \in 0 .. MaxStamp - 1 /\ 0 \in Place
      /\ 0 \in 0 .. MaxSwitches + 1
  BY CacheAssumption DEF Place
<1>2. 0 \in Address
  <2>1. Pages \in Nat \ {0} /\ PageLen \in Nat \ {0}
    BY CacheAssumption
  <2>2. Pages * PageLen \in Nat \ {0}
    BY <2>1
  <2>. QED BY <2>2 DEF Address
<1>3. /\ ic \in Cache /\ ic.mpindex = 0 /\ ic.stamp = 0 /\ ic.nextSplit = 0
      /\ \A s \in Slot : ic.entry[s].pAddr \notin Address
  BY EmptyCache
<1>4. EntriesOK(ic, switches) /\ StampsOK(ic) /\ CodeOK(ic, mem, mapping, switches)
  BY <1>3, EmptyOK
<1>5. /\ pc = "host" /\ mem = Original /\ rip = 0 /\ as \in AddressSpaces /\ cur = 0 /\ mapping = {}
      /\ switches = 0 /\ stack = NoStack
  BY DEF Init
<1>6. SideOK
  <2>1. SplitMem
    BY <1>5 DEF SplitFree, SplitMem
  <2>. QED BY <1>5, <2>1, NoStackOK DEF SideOK, StackOK
<1>7. TypeOK
  BY <1>1, <1>2, <1>3, <1>5, <1>6, GuestAssumption DEF TypeOK, Place, SideOK, StackType
<1>. QED BY <1>3, <1>4, <1>5, <1>6, <1>7 DEF CacheInv

\* Flushing the TLB, as every step into Bochs does, breaks the links.
LEMMA TlbFlushOK ==
  ASSUME CacheInv, TlbFlush
  PROVE  /\ ic' \in Cache /\ EntriesOK(ic', switches) /\ StampsOK(ic')
         /\ \A m, mp, sp : LinksOK(ic', m, mp, sp)
         /\ CodeOK(ic, mem, mapping, switches) => CodeOK(ic', mem, mapping, switches)
         /\ \A s \in Slot : ic'.entry[s].pAddr \in Address => ic'.entry[s].age <= switches
<1>1. ic \in Cache /\ EntriesOK(ic, switches) /\ StampsOK(ic) /\ mem \in [Address -> Bytes]
  BY InvElim
<1>. DEFINE g == BreakLinks(ic)
<1>2. /\ g \in Cache /\ EntriesOK(g, switches) /\ StampsOK(g) /\ Unlinked(g)
      /\ \A m \in [Address -> Bytes] : \A mp : CodeOK(ic, m, mp, switches) => CodeOK(g, m, mp, switches)
  BY <1>1, BreakOK
<1>3. ic' = g
  BY DEF TlbFlush
<1>. HIDE DEF g
<1>4. \A m, mp, sp : LinksOK(g, m, mp, sp)
  BY <1>2, UnlinkedOK
<1>5. \A s \in Slot : g.entry[s].pAddr \in Address => g.entry[s].age <= switches
  BY <1>2 DEF EntriesOK
<1>. QED BY <1>1, <1>2, <1>3, <1>4, <1>5

\* set_context() makes every entry older than the current switch.
LEMMA SetContextOK ==
  ASSUME CacheInv, SetContext
  PROVE  /\ rip' \in Address /\ switches' = switches + 1
         /\ ic' \in Cache /\ EntriesOK(ic', switches') /\ StampsOK(ic')
         /\ \A s \in Slot : ic'.entry[s].pAddr \in Address => ic'.entry[s].age # switches'
         /\ \A m, mp : CodeOK(ic', m, mp, switches')
<1>1. rip' \in Address /\ switches' = switches + 1 /\ TlbFlush /\ switches \in Nat
  BY InvElim, GuestAssumption DEF SetContext
<1>2. /\ ic' \in Cache /\ EntriesOK(ic', switches) /\ StampsOK(ic')
  BY <1>1, TlbFlushOK
<1>3. \A s \in Slot : ic'.entry[s].pAddr \in Address =>
        ic'.entry[s].age # switches + 1 /\ ic'.entry[s].age <= switches + 1
  <2>1. \A s \in Slot : ic'.entry[s].age \in Nat /\ (ic'.entry[s].pAddr \in Address => ic'.entry[s].age <= switches)
    BY <1>1, <1>2, CacheOK, TlbFlushOK
  <2>. QED BY <1>1, <2>1
<1>4. EntriesOK(ic', switches + 1)
  BY <1>2, <1>3 DEF EntriesOK
<1>5. \A m, mp : CodeOK(ic', m, mp, switches + 1)
  BY <1>3 DEF CodeOK
<1>. QED BY <1>1, <1>2, <1>3, <1>4, <1>5

\* A store by the emulated CPU, and one by a device.
LEMMA StoreOK ==
  ASSUME CacheInv, pc \in {"device", "fetch", "exec", "end"},
         NEW w \in Writes, NEW mask \in {StoreMask(w), Lines},
         DecWriteStamp(Page(w[1]), mask), mem' = Written(w)
  PROVE  /\ mem' \in [Address -> Bytes] /\ ic' \in Cache /\ mapping' \subseteq PageNo \X Lines
         /\ EntriesOK(ic', switches) /\ StampsOK(ic')
         /\ CodeOK(ic', mem', mapping', switches) /\ LinksOK(ic', mem', mapping', as)
         /\ ~Cached(Page(w[1]), mask) =>
              \A p, a : Runs(ic, mem, mapping, p, a) => Runs(ic', mem', mapping', p, a)
<1>1. /\ mem \in [Address -> Bytes] /\ ic \in Cache /\ mapping \subseteq PageNo \X Lines
      /\ EntriesOK(ic, switches) /\ StampsOK(ic) /\ CodeOK(ic, mem, mapping, switches)
      /\ LinksOK(ic, mem, mapping, as)
  BY InvElim
<1>. QED BY <1>1, StampOK

\* A straight instruction is one of memory, and the next place has the next one.
LEMMA StraightOK ==
  ASSUME CacheInv, Straight
  PROVE  /\ pc = "exec" /\ rip' \in Address
         /\ Runs(ic, mem, mapping, cur + 1, rip')
<1>1. /\ pc = "exec" /\ ic.pool[cur] # Dummy /\ ic.pool[cur].bytes[1] # "branch"
      /\ rip' = NextAddress(rip, Len(ic.pool[cur].bytes))
  BY DEF Straight, Insn
<1>2. ic \in Cache /\ mem \in [Address -> Bytes] /\ Runs(ic, mem, mapping, cur, rip)
  BY <1>1, InvElim
<1>. QED BY <1>1, <1>2, RunsOn

\* A branch goes to an address.
LEMMA BranchesOK ==
  ASSUME CacheInv, Branches
  PROVE  /\ pc = "exec" /\ rip' = Target[as][rip] /\ rip' \in Address
         /\ ic.pool[cur] # Dummy /\ Runs(ic, mem, mapping, cur, rip)
         /\ cur \in 0 .. ic.mpindex - 1 /\ ic.pool[cur].pAddr = rip
<1>1. pc = "exec" /\ ic.pool[cur] # Dummy /\ rip' = Target[as][rip]
  BY DEF Branches, Insn
<1>2. /\ ic \in Cache /\ mem \in [Address -> Bytes] /\ Runs(ic, mem, mapping, cur, rip)
      /\ rip \in Address /\ as \in AddressSpaces
  BY <1>1, InvElim
<1>3. rip' \in Address
  <2>1. Target \in [AddressSpaces -> [Address -> Address]]
    BY GuestAssumption
  <2>2. Target[as][rip] \in Address
    BY <1>2, <2>1
  <2>. QED BY <1>1, <2>2
<1>4. ic.pool[cur] # Dummy
  BY <1>1
<1>5. cur \in 0 .. ic.mpindex - 1 /\ ic.pool[cur].pAddr = rip
  BY <1>2, <1>4, RunsAt
<1>. QED BY <1>1, <1>2, <1>3, <1>5

\* Every action keeps the invariant.
LEMMA CacheNext == SplitFree /\ CacheInv /\ [Next]_vars => CacheInv'
<1>. SUFFICES ASSUME SplitFree, CacheInv, [Next]_vars PROVE CacheInv'
  OBVIOUS
<1>. DEFINE PCs == {"host", "device", "fetch", "exec", "end", "fault", "vm", "dispatch"}
            CodePCs == {"device", "fetch", "exec", "end"}
<1>1. /\ pc \in PCs
      /\ mem \in [Address -> Bytes] /\ rip \in Address /\ as \in AddressSpaces /\ cur \in Place
      /\ mapping \in SUBSET (PageNo \X Lines) /\ mapping \subseteq PageNo \X Lines
      /\ switches \in 0 .. MaxSwitches + 1 /\ switches \in Nat
      /\ ic \in Cache /\ EntriesOK(ic, switches) /\ StampsOK(ic)
      /\ pc \notin {"vm", "dispatch"} => CodeOK(ic, mem, mapping, switches)
      /\ pc \in CodePCs => LinksOK(ic, mem, mapping, as)
      /\ pc = "exec" => Runs(ic, mem, mapping, cur, rip)
      /\ SideOK
  BY InvElim
<1>2. ASSUME mapping' \subseteq mapping, mem' = mem, stack' = stack \/ stack' = NoStack PROVE SideOK'
  BY <1>1, <1>2, SideKept
<1>3. MaxSwitches \in Nat /\ 0 \in Place
  BY CacheAssumption DEF Place
<1>4. CASE StepDevice \/ StepCpu
  <2>1. /\ pc = "host" /\ TlbFlush /\ pc' \in {"device", "fetch"} /\ mem' = mem /\ rip' = rip
        /\ as' = as /\ cur' = cur /\ mapping' = mapping /\ switches' = switches
        /\ stack' = NoStack
    BY <1>4 DEF StepDevice, StepCpu, TlbFlush
  <2>2. /\ ic' \in Cache /\ EntriesOK(ic', switches) /\ StampsOK(ic')
        /\ LinksOK(ic', mem, mapping, as) /\ CodeOK(ic', mem, mapping, switches)
    BY <1>1, <2>1, TlbFlushOK
  <2>3. SideOK'
    BY <1>2, <2>1
  <2>. QED BY <1>1, <2>1, <2>2, <2>3, InvIntro
<1>5. CASE StepReturn
  <2>1. /\ pc \in {"device", "fetch"} /\ pc' = "host"
        /\ UNCHANGED <<mem, rip, as, cur, ic, mapping, stack, switches>>
    BY <1>5 DEF StepReturn
  <2>2. SideOK'
    BY <1>2, <2>1
  <2>. QED BY <1>1, <2>1, <2>2, InvIntro
<1>6. CASE DmaWrite
  <2>1. PICK w \in Writes : DecWriteStamp(Page(w[1]), Lines) /\ mem' = Written(w)
    BY <1>6 DEF DmaWrite
  <2>2. pc = "device" /\ UNCHANGED <<pc, rip, as, cur, stack, switches>>
    BY <1>6 DEF DmaWrite
  <2>3. /\ mem' \in [Address -> Bytes] /\ ic' \in Cache /\ mapping' \subseteq PageNo \X Lines
        /\ EntriesOK(ic', switches) /\ StampsOK(ic')
        /\ CodeOK(ic', mem', mapping', switches) /\ LinksOK(ic', mem', mapping', as)
    BY <2>1, <2>2, StoreOK
  <2>4. SideOK'
    BY <1>1, <2>1, <2>2, SideStored
  <2>. QED BY <1>1, <2>2, <2>3, <2>4, InvIntro
<1>7. CASE PushFrame
  <2>1. PICK w \in Writes : \E s \in StackFor(Page(w[1])) : StackWrite(w, s)
    BY <1>7 DEF PushFrame
  <2>2. PICK s \in StackFor(Page(w[1])) : StackWrite(w, s)
    BY <2>1
  <2>3. DecWriteStamp(Page(w[1]), StoreMask(w)) /\ mem' = Written(w) /\ SideOK'
    BY <1>1, <2>2, StackWriteOK
  <2>4. /\ pc \in {"device", "fetch", "fault"} /\ UNCHANGED <<as, cur, switches>> /\ rip' \in Address
        /\ pc' = IF pc = "fault" THEN "host" ELSE pc
    BY <1>7, GuestAssumption DEF PushFrame
  <2>5. /\ mem' \in [Address -> Bytes] /\ ic' \in Cache /\ mapping' \subseteq PageNo \X Lines
        /\ EntriesOK(ic', switches) /\ StampsOK(ic')
        /\ CodeOK(ic', mem', mapping', switches)
        /\ \A sp : LinksOK(ic, mem, mapping, sp) => LinksOK(ic', mem', mapping', sp)
    BY <1>1, <2>3, <2>4, StampOK
  <2>6. pc # "fault" => LinksOK(ic', mem', mapping', as)
    BY <1>1, <2>4, <2>5
  <2>. QED BY <1>1, <2>3, <2>4, <2>5, <2>6, InvIntro
<1>8. CASE Fetch
  <2>1. /\ pc = "fetch" /\ GetEntry /\ cur' = ic'.entry[Hash(rip)].i /\ pc' = "exec"
        /\ UNCHANGED <<mem, rip, as, switches>>
    BY <1>8 DEF Fetch
  <2>2. /\ ic' \in Cache /\ EntriesOK(ic', switches) /\ StampsOK(ic')
        /\ CodeOK(ic', mem, mapping', switches) /\ LinksOK(ic', mem, mapping', as)
        /\ mapping' \subseteq PageNo \X Lines
        /\ Runs(ic', mem, mapping', cur', rip)
        /\ mapping' \subseteq mapping \cup Marks(ic, mem, rip)
        /\ (stack' = stack /\ mapping' = mapping) \/ MissStack
    BY <2>1, GetEntryOK
  <2>3. cur' \in Place
    BY <1>1, <2>2, RunsAt
  <2>4. SideOK'
    BY <1>1, <2>1, <2>2, <1>2, MissSide
  <2>. QED BY <1>1, <2>1, <2>2, <2>3, <2>4, InvIntro
<1>9. CASE FetchAgain
  <2>1. pc = "end" /\ GetEntry /\ pc' = "fetch" /\ UNCHANGED <<mem, rip, as, cur, switches>>
    BY <1>9 DEF FetchAgain
  <2>2. /\ ic' \in Cache /\ EntriesOK(ic', switches) /\ StampsOK(ic')
        /\ CodeOK(ic', mem, mapping', switches) /\ LinksOK(ic', mem, mapping', as)
        /\ mapping' \subseteq PageNo \X Lines
        /\ mapping' \subseteq mapping \cup Marks(ic, mem, rip)
        /\ (stack' = stack /\ mapping' = mapping) \/ MissStack
    BY <2>1, GetEntryOK
  <2>3. SideOK'
    BY <1>1, <2>1, <2>2, <1>2, MissSide
  <2>. QED BY <1>1, <2>1, <2>2, <2>3, InvIntro
<1>10. CASE FetchFault
  <2>1. /\ pc \in {"fetch", "end"} /\ ic' = FailedMiss(ic, rip) /\ pc' = "fault" /\ MissStack
        /\ UNCHANGED <<mem, rip, as, cur, mapping, switches>>
    BY <1>10 DEF FetchFault
  <2>2. CodeOK(ic, mem, mapping, switches)
    BY <1>1, <2>1
  <2>3. ic' \in Cache /\ EntriesOK(ic', switches) /\ StampsOK(ic') /\ CodeOK(ic', mem, mapping, switches)
    BY <1>1, <2>1, <2>2, FailedOK
  <2>4. SideOK'
    BY <1>1, <2>1, MissSide
  <2>. QED BY <1>1, <2>1, <2>3, <2>4, InvIntro
<1>11. CASE ExecEnd
  <2>1. pc = "exec" /\ pc' = "end" /\ cur' = 0 /\ UNCHANGED <<mem, rip, as, ic, mapping, stack, switches>>
    BY <1>11 DEF ExecEnd, Leave
  <2>2. SideOK'
    BY <1>2, <2>1
  <2>. QED BY <1>1, <1>3, <2>1, <2>2, InvIntro
<1>12. CASE ExecPlain
  <2>1. Straight /\ cur' = cur + 1 /\ UNCHANGED <<pc, mem, as, ic, mapping, stack, switches>>
    BY <1>12 DEF ExecPlain
  <2>2. pc = "exec" /\ rip' \in Address /\ Runs(ic, mem, mapping, cur', rip')
    BY <2>1, StraightOK
  <2>3. cur' \in Place
    BY <1>1, <2>2, RunsAt
  <2>4. SideOK'
    BY <1>2, <2>1
  <2>. QED BY <1>1, <2>1, <2>2, <2>3, <2>4, InvIntro
<1>13. CASE ExecStore
  <2>1. PICK w \in Writes :
          /\ DecWriteStamp(Page(w[1]), StoreMask(w)) /\ mem' = Written(w)
          /\ IF Cached(Page(w[1]), StoreMask(w)) THEN pc' = "fetch" /\ cur' = 0
             ELSE cur' = cur + 1 /\ pc' = pc
    BY <1>13 DEF ExecStore, Store, Stops, Leave
  <2>2. Straight /\ UNCHANGED <<as, stack, switches>>
    BY <1>13 DEF ExecStore
  <2>3. pc = "exec" /\ rip' \in Address /\ Runs(ic, mem, mapping, cur + 1, rip')
    BY <2>2, StraightOK
  <2>4. /\ mem' \in [Address -> Bytes] /\ ic' \in Cache /\ mapping' \subseteq PageNo \X Lines
        /\ EntriesOK(ic', switches) /\ StampsOK(ic')
        /\ CodeOK(ic', mem', mapping', switches) /\ LinksOK(ic', mem', mapping', as)
        /\ ~Cached(Page(w[1]), StoreMask(w)) => Runs(ic', mem', mapping', cur + 1, rip')
    BY <2>1, <2>3, StoreOK
  <2>5. SideOK'
    BY <1>1, <2>1, <2>2, SideStored
  <2>6. CASE Cached(Page(w[1]), StoreMask(w))
    BY <1>1, <1>3, <2>1, <2>2, <2>3, <2>4, <2>5, <2>6, InvIntro
  <2>7. CASE ~Cached(Page(w[1]), StoreMask(w))
    <3>1. Runs(ic', mem', mapping', cur', rip') /\ pc' = "exec"
      BY <2>1, <2>3, <2>4, <2>7
    <3>2. cur' \in Place
      BY <2>4, <3>1, RunsAt
    <3>. QED BY <1>1, <2>2, <2>3, <2>4, <2>5, <3>1, <3>2, InvIntro
  <2>. QED BY <2>6, <2>7
<1>14. CASE ExecPush
  <2>1. PICK w \in Writes : \E s \in StackFor(Page(w[1])) :
          /\ StackWrite(w, s)
          /\ IF StackStops(w, s) THEN pc' = "fetch" /\ cur' = 0 ELSE cur' = cur + 1 /\ pc' = pc
    BY <1>14 DEF ExecPush, Leave
  <2>2. PICK s \in StackFor(Page(w[1])) :
         /\ StackWrite(w, s)
         /\ IF StackStops(w, s) THEN pc' = "fetch" /\ cur' = 0 ELSE cur' = cur + 1 /\ pc' = pc
    BY <2>1
  <2>3. /\ DecWriteStamp(Page(w[1]), StoreMask(w)) /\ mem' = Written(w) /\ SideOK'
        /\ IF Cached(Page(w[1]), StoreMask(w)) THEN pc' = "fetch" /\ cur' = 0
           ELSE cur' = cur + 1 /\ pc' = pc
    BY <1>1, <2>2, StackWriteOK
  <2>4. Straight /\ UNCHANGED <<as, switches>>
    BY <1>14 DEF ExecPush
  <2>5. pc = "exec" /\ rip' \in Address /\ Runs(ic, mem, mapping, cur + 1, rip')
    BY <2>4, StraightOK
  <2>6. /\ mem' \in [Address -> Bytes] /\ ic' \in Cache /\ mapping' \subseteq PageNo \X Lines
        /\ EntriesOK(ic', switches) /\ StampsOK(ic')
        /\ CodeOK(ic', mem', mapping', switches) /\ LinksOK(ic', mem', mapping', as)
        /\ ~Cached(Page(w[1]), StoreMask(w)) => Runs(ic', mem', mapping', cur + 1, rip')
    BY <2>3, <2>5, StoreOK
  <2>7. CASE Cached(Page(w[1]), StoreMask(w))
    BY <1>1, <1>3, <2>3, <2>4, <2>5, <2>6, <2>7, InvIntro
  <2>8. CASE ~Cached(Page(w[1]), StoreMask(w))
    <3>1. Runs(ic', mem', mapping', cur', rip') /\ pc' = "exec"
      BY <2>3, <2>5, <2>6, <2>8
    <3>2. cur' \in Place
      BY <2>6, <3>1, RunsAt
    <3>. QED BY <1>1, <2>3, <2>4, <2>5, <2>6, <3>1, <3>2, InvIntro
  <2>. QED BY <2>7, <2>8
<1>15. CASE ExecPop
  <2>1. /\ Straight /\ cur' = cur + 1 /\ UNCHANGED <<pc, mem, as, ic, mapping, switches>>
        /\ stack' \in {NoStack} \cup {StackPrefetch(pg) : pg \in StackPages}
    BY <1>15 DEF ExecPop
  <2>2. pc = "exec" /\ rip' \in Address /\ Runs(ic, mem, mapping, cur', rip')
    BY <2>1, StraightOK
  <2>3. cur' \in Place
    BY <1>1, <2>2, RunsAt
  <2>4. SideOK'
    BY <1>1, <2>1, SideKept
  <2>. QED BY <1>1, <2>1, <2>2, <2>3, <2>4, InvIntro
<1>16. CASE ExecMovCR3
  <2>1. /\ Straight /\ as' \in AddressSpaces /\ TlbFlush /\ pc' = "end" /\ cur' = 0
        /\ UNCHANGED <<mem, mapping, switches>> /\ stack' = NoStack
    BY <1>16 DEF ExecMovCR3, Leave, TlbFlush
  <2>2. pc = "exec" /\ rip' \in Address
    BY <2>1, StraightOK
  <2>3. /\ ic' \in Cache /\ EntriesOK(ic', switches) /\ StampsOK(ic')
        /\ LinksOK(ic', mem, mapping, as') /\ CodeOK(ic', mem, mapping, switches)
    BY <1>1, <2>1, <2>2, TlbFlushOK
  <2>4. SideOK'
    BY <1>2, <2>1
  <2>. QED BY <1>1, <1>3, <2>1, <2>2, <2>3, <2>4, InvIntro
<1>17. CASE ExecInvd
  <2>1. /\ Straight /\ ic' = FlushEntries(ic) /\ mapping' = {} /\ pc' = "fetch" /\ cur' = 0
        /\ UNCHANGED <<mem, as, stack, switches>>
    BY <1>17 DEF ExecInvd, Leave
  <2>2. pc = "exec" /\ rip' \in Address
    BY <2>1, StraightOK
  <2>3. ic' \in Cache /\ ic'.mpindex = 0 /\ \A s \in Slot : ic'.entry[s].pAddr \notin Address
    BY <1>1, <2>1, FlushOK
  <2>4. EntriesOK(ic', switches) /\ StampsOK(ic') /\ Unlinked(ic') /\ CodeOK(ic', mem, mapping', switches)
    BY <2>3, EmptyOK
  <2>5. LinksOK(ic', mem, mapping', as)
    BY <2>3, <2>4, UnlinkedOK
  <2>6. SideOK'
    BY <1>2, <2>1
  <2>. QED BY <1>1, <1>3, <2>1, <2>2, <2>3, <2>4, <2>5, <2>6, InvIntro
<1>18. CASE ExecFault
  <2>1. pc = "exec" /\ pc' = "fault" /\ cur' = 0 /\ UNCHANGED <<mem, rip, as, ic, mapping, stack, switches>>
    BY <1>18 DEF ExecFault, Leave
  <2>2. SideOK'
    BY <1>2, <2>1
  <2>. QED BY <1>1, <1>3, <2>1, <2>2, InvIntro
<1>19. CASE FollowLink
  <2>1. Branches /\ Linked /\ cur' = ic.pool[cur].link.next /\ UNCHANGED <<pc, mem, as, ic, mapping, stack, switches>>
    BY <1>19 DEF FollowLink, Insn
  <2>2. /\ pc = "exec" /\ rip' = Target[as][rip] /\ rip' \in Address
        /\ cur \in 0 .. ic.mpindex - 1 /\ ic.pool[cur].pAddr = rip
    BY <2>1, BranchesOK
  <2>3. ic.pool[cur].link.next # Invalid /\ ic.pool[cur].link.stamp = ic.stamp
    <3>1. ic.pool[cur].link.next # Invalid /\ ic.stamp <= ic.pool[cur].link.stamp
      BY <2>1 DEF Linked, Insn
    <3>2. ic.pool[cur].link.stamp <= ic.stamp
      BY <1>1, <2>2 DEF StampsOK
    <3>3. ic.stamp \in Nat /\ ic.pool[cur].link.stamp \in Nat
      BY <1>1, CacheOK, LinkOK
    <3>. QED BY <3>1, <3>2, <3>3
  <2>4. Runs(ic, mem, mapping, cur', rip')
    BY <1>1, <2>1, <2>2, <2>3 DEF LinksOK
  <2>5. cur' \in Place
    BY <1>1, <2>4, RunsAt
  <2>6. SideOK'
    BY <1>2, <2>1
  <2>. QED BY <1>1, <2>1, <2>2, <2>4, <2>5, <2>6, InvIntro
<1>20. CASE MakeLink
  <2>1. /\ Branches /\ FindEntry(ic, rip') /\ cur' = ic.entry[Hash(rip')].i
        /\ ic' = [ic EXCEPT !.pool[cur].link = [next |-> ic.entry[Hash(rip')].i, stamp |-> ic.stamp]]
        /\ UNCHANGED <<pc, mem, as, mapping, stack, switches>>
    BY <1>20 DEF MakeLink
  <2>2. /\ pc = "exec" /\ rip' = Target[as][rip] /\ rip' \in Address
        /\ ic.pool[cur] # Dummy /\ Runs(ic, mem, mapping, cur, rip)
    BY <2>1, BranchesOK
  <2>3. CodeOK(ic, mem, mapping, switches) /\ LinksOK(ic, mem, mapping, as)
    BY <1>1, <2>2
  <2>4. /\ ic' \in Cache /\ EntriesOK(ic', switches) /\ StampsOK(ic') /\ CodeOK(ic', mem, mapping, switches)
        /\ LinksOK(ic', mem, mapping, as) /\ Runs(ic', mem, mapping, cur', rip')
    BY <1>1, <2>1, <2>2, <2>3, LinkMade
  <2>5. cur' \in Place
    BY <1>1, <2>4, RunsAt
  <2>6. /\ mem' = mem /\ as' = as /\ mapping' = mapping /\ switches' = switches /\ pc' = "exec"
    BY <2>1, <2>2
  <2>7. SideOK'
    BY <1>2, <2>1
  <2>. QED BY <1>1, <2>2, <2>4, <2>5, <2>6, <2>7, InvIntro
<1>21. CASE NoLinkTaken
  <2>1. Branches /\ pc' = "end" /\ cur' = 0 /\ UNCHANGED <<mem, as, ic, mapping, stack, switches>>
    BY <1>21 DEF NoLinkTaken, Leave
  <2>2. pc = "exec" /\ rip' \in Address
    BY <2>1, BranchesOK
  <2>3. SideOK'
    BY <1>2, <2>1
  <2>. QED BY <1>1, <1>3, <2>1, <2>2, <2>3, InvIntro
<1>22. CASE ExecCall
  <2>1. PICK w \in Writes : \E s \in StackFor(Page(w[1])) :
          StackWrite(w, s) /\ pc' \in {"fetch", "end"} /\ cur' = 0
    BY <1>22 DEF ExecCall, Leave
  <2>2. PICK s \in StackFor(Page(w[1])) : StackWrite(w, s) /\ pc' \in {"fetch", "end"} /\ cur' = 0
    BY <2>1
  <2>3. DecWriteStamp(Page(w[1]), StoreMask(w)) /\ mem' = Written(w) /\ SideOK'
    BY <1>1, <2>2, StackWriteOK
  <2>4. pc = "exec" /\ rip' \in Address /\ UNCHANGED <<as, switches>>
    BY <1>22, BranchesOK DEF ExecCall
  <2>5. /\ mem' \in [Address -> Bytes] /\ ic' \in Cache /\ mapping' \subseteq PageNo \X Lines
        /\ EntriesOK(ic', switches) /\ StampsOK(ic')
        /\ CodeOK(ic', mem', mapping', switches) /\ LinksOK(ic', mem', mapping', as)
    BY <2>3, <2>4, StoreOK
  <2>. QED BY <1>1, <1>3, <2>2, <2>3, <2>4, <2>5, InvIntro
<1>23. CASE VmEnter
  <2>1. /\ pc = "host" /\ switches < MaxSwitches /\ pc' = "vm"
        /\ UNCHANGED <<mem, rip, as, cur, ic, mapping, stack, switches>>
    BY <1>23 DEF VmEnter
  <2>2. SideOK'
    BY <1>2, <2>1
  <2>. QED BY <1>1, <2>1, <2>2, InvIntro
<1>24. CASE VmWrite
  <2>1. PICK w \in Writes : mem' = Written(w)
    BY <1>24 DEF VmWrite
  <2>2. /\ pc = "vm" /\ UNCHANGED <<pc, rip, as, cur, ic, mapping, stack, switches>>
        /\ mem' \in [Address -> Bytes]
    BY <1>1, <1>24, <2>1, WriteOK DEF VmWrite
  <2>3. SideOK'
    <3>1. SplitMem'
      BY <1>1, <2>1, WrittenApart DEF SideOK
    <3>. QED BY <1>1, <2>2, <3>1, StackKept DEF SideOK
  <2>4. switches < MaxSwitches
    BY <2>2 DEF CacheInv
  <2>. QED BY <1>1, <2>2, <2>3, <2>4, InvIntro
<1>25. CASE VmExit
  <2>1. /\ pc = "vm" /\ SetContext /\ as' \in AddressSpaces /\ pc' = "dispatch"
        /\ UNCHANGED <<mem, cur, mapping>> /\ stack' = NoStack
    BY <1>25 DEF VmExit, SetContext, TlbFlush
  <2>2. /\ rip' \in Address /\ switches' = switches + 1
        /\ ic' \in Cache /\ EntriesOK(ic', switches') /\ StampsOK(ic')
        /\ \A s \in Slot : ic'.entry[s].pAddr \in Address => ic'.entry[s].age # switches'
    BY <2>1, SetContextOK
  <2>3. switches < MaxSwitches
    BY <2>1 DEF CacheInv
  <2>4. switches' \in 0 .. MaxSwitches + 1 /\ switches' <= MaxSwitches
    BY <1>1, <1>3, <2>2, <2>3
  <2>5. SideOK'
    BY <1>2, <2>1
  <2>. QED BY <1>1, <2>1, <2>2, <2>4, <2>5, InvIntro
<1>26. CASE Recommit
  <2>1. pc = "dispatch" /\ SetContext /\ pc' = "host" /\ UNCHANGED <<mem, as, cur, mapping>> /\ stack' = NoStack
    BY <1>26 DEF Recommit, SetContext, TlbFlush
  <2>2. /\ rip' \in Address /\ switches' = switches + 1
        /\ ic' \in Cache /\ EntriesOK(ic', switches') /\ StampsOK(ic')
        /\ CodeOK(ic', mem, mapping, switches')
    BY <2>1, SetContextOK
  <2>3. switches <= MaxSwitches
    BY <2>1 DEF CacheInv
  <2>4. switches' \in 0 .. MaxSwitches + 1
    BY <1>1, <1>3, <2>2, <2>3
  <2>5. SideOK'
    BY <1>2, <2>1
  <2>. QED BY <1>1, <2>1, <2>2, <2>4, <2>5, InvIntro
<1>27. ASSUME pc = "dispatch"
       PROVE  /\ switches <= MaxSwitches /\ \A m, mp : CodeOK(ic, m, mp, switches)
              /\ \A s \in Slot : ic.entry[s].pAddr \in Address => ic.entry[s].age # switches
  BY <1>27 DEF CacheInv, CodeOK, Valid
<1>28. CASE Restore
  <2>1. pc = "dispatch" /\ UNCHANGED <<pc, rip, as, cur, ic, mapping, stack, switches>>
    BY <1>28 DEF Restore
  <2>2. PICK P \in SUBSET (0 .. Pages - 1) :
          mem' = [a \in Address |-> IF Page(a) \in P THEN Original[a] ELSE mem[a]]
    BY <1>28 DEF Restore
  <2>3. mem' \in [Address -> Bytes]
    BY <1>1, <2>2, GuestAssumption
  <2>4. SideOK'
    <3>1. SplitMem'
      BY <1>1, <2>2 DEF SideOK, SplitMem, SplitFree
    <3>. QED BY <1>1, <2>1, <3>1, StackKept DEF SideOK
  <2>. QED BY <1>1, <1>27, <2>1, <2>3, <2>4, InvIntro
<1>29. CASE Dispatched
  <2>1. pc = "dispatch" /\ pc' = "host" /\ UNCHANGED <<mem, rip, as, cur, ic, mapping, stack, switches>>
    BY <1>29 DEF Dispatched
  <2>2. SideOK'
    BY <1>2, <2>1
  <2>. QED BY <1>1, <1>27, <2>1, <2>2, InvIntro
<1>30. CASE UNCHANGED vars
  <2>1. UNCHANGED <<pc, mem, rip, as, cur, ic, mapping, stack, switches>>
    BY <1>30 DEF vars
  <2>2. pc = "vm" => switches < MaxSwitches
    BY DEF CacheInv
  <2>3. SideOK'
    BY <1>2, <2>1
  <2>. QED BY <1>1, <1>27, <2>1, <2>2, <2>3, InvIntro
<1>. QED BY <1>4, <1>5, <1>6, <1>7, <1>8, <1>9, <1>10, <1>11, <1>12, <1>13, <1>14, <1>15, <1>16, <1>17, <1>18, <1>19, <1>20, <1>21, <1>22, <1>23, <1>24, <1>25, <1>26, <1>28, <1>29, <1>30 DEF Next

-----------------------------------------------------------------------------
(* The shape of the cache: what holds of the pool and of the tables whether *)
(* or not the code in them is that of memory.                              *)

\* The used part of the pool ends with the end of a trace, and links of the
\* current time stamp stay within it.
Ended(c) == c.mpindex = 0 \/ c.pool[c.mpindex - 1] = Dummy
LinksIn(c) == \A k \in 0 .. c.mpindex - 1 :
                c.pool[k].link.stamp = c.stamp => c.pool[k].link.next < c.mpindex

Shape(c, n) == c \in Cache /\ EntriesOK(c, n) /\ StampsOK(c) /\ Ended(c) /\ LinksIn(c)

\* A cache in which every link is broken.
LEMMA ShapeUnlinked ==
  ASSUME NEW c \in Cache, Unlinked(c)
  PROVE  LinksIn(c)
<1>1. \A k \in 0 .. c.mpindex - 1 : c.pool[k].link.stamp \in Nat
  BY CacheOK, LinkOK
<1>2. c.mpindex \in Nat /\ c.stamp \in Nat
  BY CacheOK
<1>3. ASSUME NEW k \in 0 .. c.mpindex - 1, c.pool[k].link.stamp = c.stamp
      PROVE  c.pool[k].link.next < c.mpindex
  <2>1. c.pool[k].link.next = Invalid
    BY <1>1, <1>2, <1>3 DEF Unlinked
  <2>. QED BY <1>2, <2>1 DEF Invalid
<1>. QED BY <1>3 DEF LinksIn

\* flushICacheEntries().
LEMMA ShapeFlush ==
  ASSUME NEW c \in Cache, NEW n
  PROVE  Shape(FlushEntries(c), n)
<1>. DEFINE d == FlushEntries(c)
<1>1. d \in Cache /\ d.mpindex = 0 /\ \A s \in Slot : d.entry[s].pAddr \notin Address
  BY FlushOK
<1>. HIDE DEF d
<1>2. EntriesOK(d, n) /\ StampsOK(d) /\ Unlinked(d)
  BY <1>1, EmptyOK
<1>3. LinksIn(d)
  BY <1>1, <1>2, ShapeUnlinked
<1>. QED BY <1>1, <1>2, <1>3 DEF Shape, Ended, d

\* breakLinks().
LEMMA ShapeBreak ==
  ASSUME NEW c, NEW n, Shape(c, n)
  PROVE  Shape(BreakLinks(c), n) /\ Unlinked(BreakLinks(c))
<1>. DEFINE d == BreakLinks(c)
<1>1. d \in Cache /\ EntriesOK(d, n) /\ StampsOK(d) /\ Unlinked(d)
  BY BreakOK DEF Shape
<1>2. Ended(d)
  <2>1. CASE Wraps(c)
    <3>1. d = FlushEntries(c)
      BY <2>1 DEF BreakLinks
    <3>. QED BY <3>1, FlushOK DEF Shape, Ended
  <2>2. CASE ~Wraps(c)
    <3>1. d = [c EXCEPT !.stamp = @ + 1]
      BY <2>2 DEF BreakLinks
    <3>2. d.pool = c.pool /\ d.mpindex = c.mpindex
      BY <3>1 DEF Shape, Cache
    <3>. HIDE DEF d
    <3>. QED BY <3>2 DEF Shape, Ended
  <2>. QED BY <2>1, <2>2
<1>. HIDE DEF d
<1>3. LinksIn(d)
  BY <1>1, ShapeUnlinked
<1>. QED BY <1>1, <1>2, <1>3 DEF Shape, d

\* flushSMC().
LEMMA ShapeFlushSMC ==
  ASSUME NEW c, NEW n, Shape(c, n), Unlinked(c), NEW S \in SUBSET Slot
  PROVE  Shape(FlushSMC(c, S), n) /\ Unlinked(FlushSMC(c, S))
<1>. DEFINE d == FlushSMC(c, S)
<1>1. /\ d \in Cache /\ EntriesOK(d, n) /\ StampsOK(d) /\ Unlinked(d) /\ d.mpindex = c.mpindex
      /\ \A k \in Place : d.pool[k] = c.pool[k] \/ d.pool[k] = Dummy
  BY FlushSMCOK DEF Shape
<1>. HIDE DEF d
<1>2. Ended(d)
  <2>1. CASE c.mpindex = 0
    BY <1>1, <2>1 DEF Ended
  <2>2. CASE c.mpindex # 0
    <3>1. c.mpindex - 1 \in 0 .. c.mpindex - 1
      BY <2>2, CacheOK DEF Shape
    <3>2. c.mpindex - 1 \in Place
      BY <3>1, CacheOK DEF Shape
    <3>. QED BY <1>1, <2>2, <3>2 DEF Shape, Ended
  <2>. QED BY <2>1, <2>2
<1>3. LinksIn(d)
  BY <1>1, ShapeUnlinked
<1>. QED BY <1>1, <1>2, <1>3 DEF Shape, d

\* handleSMC().
LEMMA ShapeHandleSMC ==
  ASSUME NEW c, NEW n, Shape(c, n), NEW pg, NEW mask
  PROVE  Shape(HandleSMC(c, pg, mask), n)
<1>. DEFINE b == BreakLinks(c)
            splits == SplitHits(b, pg, mask)
            S == {b.split[k].e : k \in splits}
            f == FlushSMC(b, S)
            P == [k \in DOMAIN f.split |-> IF k \in splits THEN NoSplit ELSE f.split[k]]
            d == [f EXCEPT !.split = P]
            T == TraceHits(d, pg, mask)
<1>1. Shape(b, n) /\ Unlinked(b) /\ b \in Cache
  BY ShapeBreak DEF Shape
<1>2. HandleSMC(c, pg, mask) = IF Wraps(c) THEN b ELSE FlushSMC(d, T)
  BY DEF HandleSMC
<1>. HIDE DEF b
<1>3. S \in SUBSET Slot
  <2>1. splits \subseteq 0 .. SplitEntries - 1
    BY <1>1, CacheOK DEF SplitHits
  <2>. QED BY <1>1, <2>1, CacheOK
<1>. HIDE DEF S
<1>4. Shape(f, n) /\ Unlinked(f) /\ f \in Cache
  BY <1>1, <1>3, ShapeFlushSMC DEF Shape
<1>. HIDE DEF f
<1>5. P \in [0 .. SplitEntries - 1 -> [ppf : PageNo \cup {Invalid}, e : Slot]]
  <2>1. f.split \in [0 .. SplitEntries - 1 -> [ppf : PageNo \cup {Invalid}, e : Slot]]
    BY <1>4 DEF Cache
  <2>2. NoSplit \in [ppf : PageNo \cup {Invalid}, e : Slot]
    BY CacheAssumption DEF NoSplit, Slot
  <2>. QED BY <2>1, <2>2
<1>. HIDE DEF P
<1>6. /\ d \in Cache /\ d.entry = f.entry /\ d.pool = f.pool
      /\ d.mpindex = f.mpindex /\ d.stamp = f.stamp
  BY <1>4, <1>5 DEF Cache
<1>. HIDE DEF d
<1>7. Unlinked(d) /\ StampsOK(d) /\ Ended(d) /\ LinksIn(d)
  BY <1>4, <1>6 DEF Shape, Unlinked, StampsOK, Ended, LinksIn
<1>8. EntriesOK(d, n)
  BY <1>4, <1>6, FewerEntries DEF Shape
<1>9. Shape(d, n)
  BY <1>6, <1>7, <1>8 DEF Shape
<1>10. T \in SUBSET Slot
  BY <1>6, CacheOK DEF TraceHits
<1>. HIDE DEF T
<1>11. Shape(FlushSMC(d, T), n)
  BY <1>7, <1>9, <1>10, ShapeFlushSMC
<1>. QED BY <1>1, <1>2, <1>11

\* decWriteStamp().
LEMMA ShapeStamped ==
  ASSUME NEW n, Shape(ic, n), NEW pg, NEW mask, DecWriteStamp(pg, mask)
  PROVE  /\ Shape(ic', n) /\ mapping' \subseteq mapping
         /\ ~Cached(pg, mask) => ic' = ic
BY ShapeHandleSMC DEF DecWriteStamp

\* alloc_trace().
LEMMA ShapeAlloc ==
  ASSUME NEW c, NEW n, Shape(c, n)
  PROVE  /\ Shape(AllocTrace(c), n)
         /\ AllocTrace(c).mpindex \in Nat /\ MaxTrace \in Nat /\ MaxTrace >= 1 /\ PoolLen \in Nat
         /\ AllocTrace(c).mpindex + MaxTrace + 1 <= PoolLen
<1>1. MaxTrace \in Nat /\ MaxTrace >= 1 /\ PoolLen \in Nat /\ PoolLen > MaxTrace /\ c.mpindex \in Nat
  BY CacheAssumption, CacheOK DEF Shape
<1>2. CASE c.mpindex + MaxTrace + 1 > PoolLen
  <2>1. AllocTrace(c) = FlushEntries(c)
    BY <1>2 DEF AllocTrace
  <2>2. FlushEntries(c).mpindex = 0 /\ Shape(FlushEntries(c), n)
    BY FlushOK, ShapeFlush DEF Shape
  <2>. QED BY <1>1, <2>1, <2>2
<1>3. CASE ~(c.mpindex + MaxTrace + 1 > PoolLen)
  <2>1. AllocTrace(c) = c
    BY <1>3 DEF AllocTrace
  <2>. QED BY <1>1, <1>3, <2>1
<1>. QED BY <1>2, <1>3

\* What holds of a trace after n rounds.
RoundShape(c, n, t) ==
  /\ t \in TraceSoFar
  /\ \A k \in 1 .. Len(t.ins) : Copied(c, t.ins[k])
  /\ t.merged => t.left /\ Len(t.ins) \in 1 .. MaxTrace /\ t.ins[Len(t.ins)] = Dummy
  /\ ~t.merged => Len(t.ins) <= n

\* Copied instructions followed by others.
LEMMA CopiedConcat ==
  ASSUME NEW c, NEW S, NEW u \in Seq(S), NEW v \in Seq(S),
         \A k \in 1 .. Len(u) : Copied(c, u[k]), \A k \in 1 .. Len(v) : Copied(c, v[k])
  PROVE  \A k \in 1 .. Len(u \o v) : Copied(c, (u \o v)[k])
<1>. SUFFICES ASSUME NEW k \in 1 .. Len(u \o v) PROVE Copied(c, (u \o v)[k])
  OBVIOUS
<1>1. Len(u) \in Nat /\ Len(v) \in Nat /\ Len(u \o v) = Len(u) + Len(v)
  OBVIOUS
<1>2. CASE k \in 1 .. Len(u)
  <2>1. (u \o v)[k] = u[k]
    BY <1>2
  <2>. QED BY <1>2, <2>1
<1>3. CASE k \notin 1 .. Len(u)
  <2>1. k - Len(u) \in 1 .. Len(v)
    BY <1>1, <1>3
  <2>2. (u \o v)[k] = v[k - Len(u)]
    BY <1>1, <1>3
  <2>. QED BY <2>1, <2>2
<1>. QED BY <1>2, <1>3

\* mergeTraces().
LEMMA ShapeMerge ==
  ASSUME NEW c, Shape(c, switches), NEW y \in Address, NEW n \in Nat, Mergeable(c, y, n)
  PROVE  LET e == c.entry[Hash(y)]
             v == [k \in 1 .. e.tlen |-> c.pool[e.i + k - 1]]
         IN  /\ v \in Seq(Decoded \cup {Dummy}) /\ Len(v) = e.tlen /\ e.tlen \in Nat /\ e.tlen >= 1
             /\ e.tlen + n <= MaxTrace /\ v[e.tlen] = Dummy /\ e.traceMask \subseteq Lines
             /\ \A k \in 1 .. Len(v) : Copied(c, v[k])
<1>. DEFINE s == Hash(y)
            e == c.entry[s]
            D == Decoded \cup {Dummy}
            v == [k \in 1 .. e.tlen |-> c.pool[e.i + k - 1]]
<1>1. s \in Slot /\ c \in Cache /\ EntriesOK(c, switches)
  BY HashOK DEF Shape
<1>2. e.pAddr = y /\ e.tlen + n <= MaxTrace
  BY DEF Mergeable, FindEntry
<1>3. /\ e.i \in Nat /\ e.tlen \in Nat /\ e.tlen >= 1 /\ e.i + e.tlen <= c.mpindex
      /\ c.pool[e.i + e.tlen - 1] = Dummy /\ e.traceMask \subseteq Lines /\ c.mpindex \in Nat
  BY <1>1, <1>2, CacheOK, ExtentOK
<1>. HIDE DEF s, e
<1>4. \A k \in 1 .. e.tlen : e.i + k - 1 \in 0 .. c.mpindex - 1
  BY <1>3
<1>5. \A k \in 1 .. e.tlen : c.pool[e.i + k - 1] \in D
  BY <1>1, <1>4, CacheOK
<1>. HIDE DEF D
<1>6. v \in Seq(D) /\ Len(v) = e.tlen /\ \A k \in 1 .. e.tlen : v[k] = c.pool[e.i + k - 1]
  <2>1. v \in [1 .. e.tlen -> D] /\ \A k \in 1 .. e.tlen : v[k] = c.pool[e.i + k - 1]
    BY <1>5
  <2>. HIDE DEF v
  <2>2. e.tlen \in Nat
    BY <1>3
  <2>3. v \in Seq(D) /\ Len(v) = e.tlen
    BY <2>1, <2>2
  <2>. QED BY <2>1, <2>3
<1>. HIDE DEF v
<1>7. v[e.tlen] = Dummy
  BY <1>3, <1>6
<1>8. \A k \in 1 .. e.tlen : Copied(c, v[k])
  BY <1>4, <1>6 DEF Copied
<1>. QED BY <1>2, <1>3, <1>6, <1>7, <1>8 DEF v, e, s, D

\* A round of the loop of serveICacheMiss().
LEMMA ShapeRound ==
  ASSUME NEW c, Shape(c, switches), NEW m \in [Address -> Bytes], NEW n \in Nat, NEW t,
         RoundShape(c, n, t)
  PROVE  RoundShape(c, n + 1, Round(c, m, t))
<1>. DEFINE x == t.at
            len == ILen(m, x)
            y == NextAddress(x, len)
            dec == Decode(m, x)
            ins == Append(t.ins, dec)
            mask == t.mask \cup {Line(x), Line(x + len - 1)}
            longer == [t EXCEPT !.ins = ins, !.mask = mask, !.at = y]
            e == c.entry[Hash(y)]
            v == [k \in 1 .. e.tlen |-> c.pool[e.i + k - 1]]
            D == Decoded \cup {Dummy}
<1>1. /\ t \in TraceSoFar
      /\ t.ins \in Seq(D) /\ t.mask \in SUBSET Lines /\ t.at \in Address
      /\ t.left \in BOOLEAN /\ t.merged \in BOOLEAN /\ Len(t.ins) \in Nat
  BY DEF RoundShape, TraceSoFar
<1>2. CASE t.left
  <2>1. Round(c, m, t) = t
    BY <1>2 DEF Round
  <2>2. Len(t.ins) <= n => Len(t.ins) <= n + 1
    BY <1>1
  <2>. QED BY <1>2, <2>1, <2>2 DEF RoundShape
<1>3. CASE ~t.left /\ PageSplit(m, x)
  <2>. DEFINE r == [t EXCEPT !.left = TRUE]
  <2>1. Round(c, m, t) = r
    BY <1>3 DEF Round
  <2>2. ~t.merged /\ Len(t.ins) <= n + 1
    BY <1>1, <1>3 DEF RoundShape
  <2>3. r \in TraceSoFar /\ r.ins = t.ins /\ r.left /\ ~r.merged
    BY <1>1, <2>2 DEF TraceSoFar
  <2>. HIDE DEF r
  <2>. QED BY <2>1, <2>2, <2>3 DEF RoundShape
<1>4. CASE ~t.left /\ ~PageSplit(m, x)
  <2>1. /\ Line(x) \in Lines /\ Line(x + len - 1) \in Lines /\ y \in Address
    <3>1. len \in Nat
      BY <1>1, ILenOK
    <3>. QED BY <1>1, <1>4, <3>1, InsnLinesOK, NextOK
  <2>2. dec \in D /\ Copied(c, dec)
    <3>1. dec \in Decoded
      BY <1>1, DecodeOK
    <3>2. dec.link = NoLink
      BY DEF Decode
    <3>. QED BY <3>1, <3>2 DEF Copied
  <2>3. ~t.merged /\ Len(t.ins) <= n
    BY <1>4 DEF RoundShape
  <2>4. Round(c, m, t) =
          IF m[x] = "branch" \/ Offset(x) + len = PageLen THEN [longer EXCEPT !.left = TRUE]
          ELSE IF Mergeable(c, y, Len(longer.ins))
          THEN [longer EXCEPT !.ins = @ \o v, !.mask = @ \cup e.traceMask,
                              !.left = TRUE, !.merged = TRUE]
          ELSE longer
    BY <1>4, Zenon DEF Round
  <2>. HIDE DEF x, len, y, dec, D
  <2>5. ins \in Seq(D) /\ Len(ins) = Len(t.ins) + 1 /\ Len(ins) \in Nat /\ Len(ins) <= n + 1
    BY <1>1, <2>2, <2>3
  <2>6. \A k \in 1 .. Len(ins) : Copied(c, ins[k])
    <3>1. <<dec>> \in Seq(D) /\ \A k \in 1 .. Len(<<dec>>) : Copied(c, <<dec>>[k])
      BY <2>2
    <3>2. ins = t.ins \o <<dec>>
      BY <1>1, <2>2
    <3>3. \A k \in 1 .. Len(t.ins) : Copied(c, t.ins[k])
      BY DEF RoundShape
    <3>. QED BY <1>1, <3>1, <3>2, <3>3, CopiedConcat
  <2>7. mask \in SUBSET Lines
    BY <1>1, <2>1
  <2>. HIDE DEF ins, mask
  <2>8. /\ longer \in TraceSoFar /\ longer.ins = ins /\ longer.mask = mask
        /\ ~longer.left /\ ~longer.merged
    BY <1>1, <1>4, <2>1, <2>3, <2>5, <2>7 DEF TraceSoFar, D
  <2>. HIDE DEF longer
  <2>9. CASE m[x] = "branch" \/ Offset(x) + len = PageLen
    <3>. DEFINE r == [longer EXCEPT !.left = TRUE]
    <3>1. r \in TraceSoFar /\ r.ins = ins /\ r.left /\ ~r.merged
      BY <2>8 DEF TraceSoFar
    <3>2. Round(c, m, t) = r
      BY <2>4, <2>9
    <3>. HIDE DEF r
    <3>. QED BY <2>5, <2>6, <3>1, <3>2 DEF RoundShape
  <2>10. CASE ~(m[x] = "branch" \/ Offset(x) + len = PageLen) /\ Mergeable(c, y, Len(ins))
    <3>. DEFINE r == [longer EXCEPT !.ins = @ \o v, !.mask = @ \cup e.traceMask,
                                    !.left = TRUE, !.merged = TRUE]
    <3>1. Round(c, m, t) = r
      BY <2>4, <2>8, <2>10
    <3>2. /\ v \in Seq(D) /\ Len(v) = e.tlen /\ e.tlen \in Nat /\ e.tlen >= 1
          /\ e.tlen + Len(ins) <= MaxTrace /\ v[e.tlen] = Dummy /\ e.traceMask \subseteq Lines
          /\ \A k \in 1 .. Len(v) : Copied(c, v[k])
      BY <2>1, <2>5, <2>10, ShapeMerge DEF D
    <3>. HIDE DEF v, e
    <3>3. ins \o v \in Seq(D) /\ Len(ins \o v) = Len(ins) + Len(v)
      <4>1. ins \in Seq(D) /\ v \in Seq(D)
        BY <2>5, <3>2
      <4>. QED BY <4>1
    <3>4. (ins \o v)[Len(ins \o v)] = Dummy
      BY <2>5, <3>2, <3>3, ConcatLast
    <3>5. \A k \in 1 .. Len(ins \o v) : Copied(c, (ins \o v)[k])
      BY <2>5, <2>6, <3>2, CopiedConcat
    <3>6. Len(ins \o v) \in 1 .. MaxTrace
      BY <2>5, <3>2, <3>3, CacheAssumption
    <3>7. mask \cup e.traceMask \in SUBSET Lines
      BY <2>7, <3>2
    <3>8. r \in TraceSoFar /\ r.ins = ins \o v /\ r.left /\ r.merged
      BY <2>8, <3>3, <3>7 DEF TraceSoFar, D
    <3>. HIDE DEF r
    <3>. QED BY <3>1, <3>4, <3>5, <3>6, <3>8 DEF RoundShape
  <2>11. CASE ~(m[x] = "branch" \/ Offset(x) + len = PageLen) /\ ~Mergeable(c, y, Len(ins))
    <3>1. Round(c, m, t) = longer
      BY <2>4, <2>8, <2>11
    <3>. QED BY <2>5, <2>6, <2>8, <3>1 DEF RoundShape
  <2>. QED BY <2>9, <2>10, <2>11
<1>. QED BY <1>1, <1>2, <1>3, <1>4

\* The loop builds a trace with its end, no longer than alloc_trace() made room
\* for.
LEMMA ShapeTrace ==
  ASSUME NEW c, Shape(c, switches), NEW m \in [Address -> Bytes], NEW a \in Address
  PROVE  LET t == Trace(c, m, a)
         IN  /\ t.ins \in Seq(Decoded \cup {Dummy}) /\ t.mask \subseteq Lines
             /\ \A k \in 1 .. Len(t.ins) : Copied(c, t.ins[k])
             /\ Len(t.ins) \in 1 .. MaxTrace + 1 /\ t.ins[Len(t.ins)] = Dummy
<1>. DEFINE D == Decoded \cup {Dummy}
<1>1. PICK f : /\ HasRounds(f, c, m, a, MaxTrace)
               /\ Trace(c, m, a) = IF f[MaxTrace].merged THEN f[MaxTrace]
                                   ELSE [f[MaxTrace] EXCEPT !.ins = Append(@, Dummy)]
  BY TraceDef
<1>2. MaxTrace \in Nat /\ MaxTrace >= 1
  BY CacheAssumption
<1>. DEFINE T == {n \in Nat : n <= MaxTrace => RoundShape(c, n, f[n])}
<1>3. 0 \in T
  <2>. DEFINE t == NoTrace(a)
  <2>1. f[0] = t
    BY <1>1 DEF HasRounds
  <2>2. t.ins = << >> /\ t.merged = FALSE /\ t \in TraceSoFar
    BY DEF NoTrace, TraceSoFar
  <2>3. Len(<< >>) = 0
    OBVIOUS
  <2>. HIDE DEF t
  <2>4. RoundShape(c, 0, t)
    BY <2>2, <2>3 DEF RoundShape
  <2>. QED BY <2>1, <2>4
<1>4. ASSUME NEW n \in Nat, n \in T PROVE n + 1 \in T
  <2>1. SUFFICES ASSUME n + 1 <= MaxTrace PROVE RoundShape(c, n + 1, f[n + 1])
    OBVIOUS
  <2>2. n <= MaxTrace /\ n \in 0 .. MaxTrace - 1
    BY <1>2, <2>1
  <2>3. RoundShape(c, n, f[n]) /\ f[n + 1] = Round(c, m, f[n])
    BY <1>1, <1>4, <2>2 DEF HasRounds
  <2>. QED BY <2>3, ShapeRound
<1>. DEFINE t == f[MaxTrace]
<1>5. RoundShape(c, MaxTrace, t)
  <2>. HIDE DEF T
  <2>1. Nat \subseteq T
    BY <1>3, <1>4, Induction
  <2>2. MaxTrace \in T
    BY <1>2, <2>1
  <2>. QED BY <1>2, <2>2 DEF T
<1>. HIDE DEF t, T, D
<1>6. t \in TraceSoFar /\ t.ins \in Seq(D) /\ Len(t.ins) \in Nat /\ t.mask \subseteq Lines
  BY <1>5 DEF RoundShape, TraceSoFar, D
<1>7. CASE t.merged
  <2>1. Trace(c, m, a) = t
    BY <1>1, <1>7 DEF t
  <2>2. 1 .. MaxTrace \subseteq 1 .. MaxTrace + 1
    BY <1>2
  <2>. QED BY <1>5, <1>6, <1>7, <2>1, <2>2 DEF RoundShape, D
<1>8. CASE ~t.merged
  <2>. DEFINE r == Trace(c, m, a)
  <2>1. r = [t EXCEPT !.ins = Append(@, Dummy)]
    BY <1>1, <1>8 DEF t
  <2>2. r.ins = Append(t.ins, Dummy) /\ r.mask = t.mask
    BY <1>6, <2>1 DEF TraceSoFar
  <2>. HIDE DEF r
  <2>3. Dummy \in D /\ Copied(c, Dummy)
    BY DummyOK DEF D, Copied
  <2>4. /\ r.ins = t.ins \o <<Dummy>> /\ r.ins \in Seq(D) /\ Len(r.ins) = Len(t.ins) + 1
        /\ r.ins[Len(t.ins) + 1] = Dummy
    BY <1>6, <2>2, <2>3
  <2>5. \A k \in 1 .. Len(r.ins) : Copied(c, r.ins[k])
    <3>1. <<Dummy>> \in Seq(D) /\ \A k \in 1 .. Len(<<Dummy>>) : Copied(c, <<Dummy>>[k])
      BY <2>3
    <3>2. \A k \in 1 .. Len(t.ins) : Copied(c, t.ins[k])
      BY <1>5 DEF RoundShape
    <3>. QED BY <1>6, <2>4, <3>1, <3>2, CopiedConcat
  <2>6. Len(r.ins) \in 1 .. MaxTrace + 1
    BY <1>2, <1>5, <1>6, <1>8, <2>4 DEF RoundShape
  <2>. QED BY <1>6, <2>2, <2>4, <2>5, <2>6 DEF r, D
<1>. QED BY <1>7, <1>8

\* A new trace.
LEMMA ShapeCommit ==
  ASSUME NEW c, Shape(c, switches), switches \in Nat, NEW a \in Address,
         NEW ins \in Seq(Decoded \cup {Dummy}), NEW mask \in SUBSET Lines,
         Len(ins) >= 1, ins[Len(ins)] = Dummy, c.mpindex + Len(ins) <= PoolLen,
         \A k \in 1 .. Len(ins) : Copied(c, ins[k])
  PROVE  LET d == Commit(c, a, ins, mask)
         IN  /\ Shape(d, switches)
             /\ d.entry[Hash(a)].i = c.mpindex /\ c.mpindex < d.mpindex
<1>. DEFINE d == Commit(c, a, ins, mask)
            n == Len(ins)
            z == c.mpindex
<1>1. c \in Cache /\ EntriesOK(c, switches) /\ StampsOK(c) /\ LinksIn(c)
  BY DEF Shape
<1>2. n \in Nat /\ n >= 1 /\ z \in Nat /\ c.stamp \in Nat
  BY <1>1, CacheOK
<1>3. /\ d \in Cache /\ d.stamp = c.stamp /\ d.mpindex = z + n
      /\ d.entry[Hash(a)] = NewEntry(c, a, ins, mask)
      /\ \A k \in 0 .. z - 1 : d.pool[k] = c.pool[k]
      /\ \A k \in 1 .. n : d.pool[z + k - 1] = ins[k]
  BY <1>1, CommitFields
<1>4. EntriesOK(d, switches) /\ StampsOK(d)
  BY <1>1, CommitEntries
<1>5. d.entry[Hash(a)].i = z
  BY <1>3 DEF NewEntry
<1>6. ins[n] = Dummy /\ \A k \in 1 .. n : Copied(c, ins[k])
  OBVIOUS
<1>. HIDE DEF d, n, z
<1>7. Ended(d)
  <2>1. n \in 1 .. n /\ (z + n) - 1 = z + n - 1
    BY <1>2
  <2>2. d.pool[z + n - 1] = Dummy
    BY <1>3, <1>6, <2>1
  <2>. QED BY <1>3, <2>1, <2>2 DEF Ended
<1>8. LinksIn(d)
  <2>1. \A j \in 0 .. z - 1 : c.pool[j].link.stamp = c.stamp => c.pool[j].link.next < z
    BY <1>1 DEF LinksIn, z
  <2>2. \A j \in 0 .. z - 1 : c.pool[j].link.next \in Int
    BY <1>1, CacheOK, LinkOK DEF z, Place, Invalid
  <2>3. ASSUME NEW k \in 0 .. z + n - 1, d.pool[k].link.stamp = d.stamp
        PROVE  d.pool[k].link.next < z + n
    <3>1. CASE k \in 0 .. z - 1
      <4>1. d.pool[k] = c.pool[k] /\ d.stamp = c.stamp
        BY <1>3, <3>1
      <4>2. d.pool[k].link.next < z /\ d.pool[k].link.next \in Int
        BY <2>1, <2>2, <2>3, <3>1, <4>1
      <4>. QED BY <1>2, <4>2
    <3>2. CASE k \notin 0 .. z - 1
      <4>1. k - z + 1 \in 1 .. n /\ z + (k - z + 1) - 1 = k
        BY <1>2, <3>2
      <4>2. Copied(c, d.pool[k])
        BY <1>3, <1>6, <4>1
      <4>3. CASE d.pool[k].link = NoLink
        <5>1. d.pool[k].link.next = -1
          BY <4>3 DEF NoLink, Invalid
        <5>. QED BY <1>2, <5>1
      <4>4. CASE \E j \in 0 .. z - 1 : c.pool[j].link = d.pool[k].link
        <5>1. PICK j \in 0 .. z - 1 : c.pool[j].link = d.pool[k].link
          BY <4>4
        <5>2. d.stamp = c.stamp
          BY <1>3
        <5>3. d.pool[k].link.next < z /\ d.pool[k].link.next \in Int
          BY <2>1, <2>2, <2>3, <5>1, <5>2
        <5>. QED BY <1>2, <5>3
      <4>. QED BY <4>2, <4>3, <4>4 DEF Copied, z
    <3>. QED BY <3>1, <3>2
  <2>4. 0 .. d.mpindex - 1 = 0 .. z + n - 1
    BY <1>2, <1>3
  <2>. QED BY <1>3, <2>3, <2>4 DEF LinksIn
<1>9. z < z + n
  BY <1>2
<1>. QED BY <1>3, <1>4, <1>5, <1>7, <1>8, <1>9 DEF Shape, d, z

\* serveICacheMiss().
LEMMA ShapeMiss ==
  ASSUME NEW c, Shape(c, switches), switches \in Nat, NEW m \in [Address -> Bytes],
         NEW a \in Address
  PROVE  LET g == ServeMiss(c, m, a)
         IN  /\ Shape(g, switches) /\ g.entry[Hash(a)].i \in Nat /\ g.entry[Hash(a)].i < g.mpindex
             /\ Marks(c, m, a) \subseteq PageNo \X Lines
<1>. DEFINE r == AllocTrace(c)
            q == Hash(a)
<1>1. /\ Shape(r, switches) /\ r.mpindex \in Nat /\ MaxTrace \in Nat /\ MaxTrace >= 1
      /\ PoolLen \in Nat /\ r.mpindex + MaxTrace + 1 <= PoolLen
  BY ShapeAlloc
<1>2. q \in Slot /\ Page(a) \in PageNo
  BY HashOK, AddressOK
<1>3. CASE ~PageSplit(m, a)
  <2>. DEFINE t == Trace(r, m, a)
              ins == t.ins
              g == Commit(r, a, ins, t.mask)
  <2>1. ServeMiss(c, m, a) = g /\ Marks(c, m, a) = {Page(a)} \X t.mask
    BY <1>3 DEF ServeMiss, Marks
  <2>. HIDE DEF r
  <2>2. /\ ins \in Seq(Decoded \cup {Dummy}) /\ t.mask \subseteq Lines
        /\ \A k \in 1 .. Len(ins) : Copied(r, ins[k])
        /\ Len(ins) \in 1 .. MaxTrace + 1 /\ ins[Len(ins)] = Dummy
    BY <1>1, ShapeTrace
  <2>. HIDE DEF t, ins
  <2>3. Len(ins) >= 1 /\ r.mpindex + Len(ins) <= PoolLen
    BY <1>1, <2>2
  <2>4. Shape(g, switches) /\ g.entry[q].i = r.mpindex /\ r.mpindex < g.mpindex
    BY <1>1, <2>2, <2>3, ShapeCommit
  <2>5. {Page(a)} \X t.mask \subseteq PageNo \X Lines
    BY <1>2, <2>2
  <2>. QED BY <1>1, <2>1, <2>4, <2>5 DEF q
<1>4. CASE PageSplit(m, a)
  <2>. DEFINE ins == <<Decode(m, a), Dummy>>
              mask == {Max(Lines)}
              ppf == SecondPage(m, a)
              d == Commit(r, a, ins, mask)
              g == CommitSplit(d, a, ppf)
  <2>1. ServeMiss(c, m, a) = g /\ Marks(c, m, a) = {<<Page(a), Max(Lines)>>, <<ppf, 0>>}
    BY <1>4 DEF ServeMiss, Marks
  <2>2. Max(Lines) \in Lines /\ ppf \in PageNo /\ 0 \in Lines
    BY <1>4, InsnLinesOK
  <2>. HIDE DEF r, ppf
  <2>3. /\ ins \in Seq(Decoded \cup {Dummy}) /\ Len(ins) = 2 /\ ins[Len(ins)] = Dummy
        /\ \A k \in 1 .. Len(ins) : Copied(r, ins[k])
    <3>1. Decode(m, a) \in Decoded /\ Copied(r, Decode(m, a)) /\ Copied(r, Dummy)
      BY DecodeOK, DummyOK DEF Copied, Decode
    <3>2. ins \in Seq(Decoded \cup {Dummy}) /\ Len(ins) = 2
      BY <3>1
    <3>3. \A k \in 1 .. 2 : k = 1 \/ k = 2
      OBVIOUS
    <3>. QED BY <3>1, <3>2, <3>3
  <2>4. mask \in SUBSET Lines
    BY <2>2
  <2>. HIDE DEF ins, mask
  <2>5. Len(ins) >= 1 /\ r.mpindex + Len(ins) <= PoolLen
    BY <1>1, <2>3
  <2>6. Shape(d, switches) /\ d.entry[q].i = r.mpindex /\ r.mpindex < d.mpindex
    BY <1>1, <2>3, <2>4, <2>5, ShapeCommit
  <2>. HIDE DEF d
  <2>7. d \in Cache
    BY <2>6 DEF Shape
  <2>. DEFINE k == d.nextSplit
  <2>8. /\ g \in Cache /\ k \in DOMAIN g.split /\ DOMAIN g.split = DOMAIN d.split
        /\ g.pool = d.pool /\ g.mpindex = d.mpindex /\ g.stamp = d.stamp
        /\ g.split[k] = [ppf |-> ppf, e |-> q]
        /\ \A j \in DOMAIN d.split : j # k => g.split[j] = d.split[j]
        /\ \A s \in Slot : /\ g.entry[s] = d.entry[s] \/ g.entry[s].pAddr \notin Address
                           /\ g.entry[s].i = d.entry[s].i
        /\ d.split[k].ppf # Invalid => g.entry[d.split[k].e].pAddr \notin Address
    BY <2>2, <2>7, SplitFields
  <2>. HIDE DEF g, q, k
  <2>9. StampsOK(g) /\ Ended(g) /\ LinksIn(g)
    BY <2>6, <2>8 DEF Shape, StampsOK, Ended, LinksIn
  <2>10. EntriesOK(g, switches)
    <3>1. \A s \in Slot : g.entry[s].pAddr \in Address => g.entry[s] = d.entry[s]
      BY <2>8
    <3>. QED BY <2>6, <2>8, <3>1, FewerEntries DEF Shape
  <2>11. {<<Page(a), Max(Lines)>>, <<ppf, 0>>} \subseteq PageNo \X Lines
    BY <1>2, <2>2
  <2>. QED BY <1>1, <1>2, <2>1, <2>6, <2>8, <2>9, <2>10, <2>11 DEF Shape, q
<1>. QED BY <1>3, <1>4

\* A miss that faults.
LEMMA ShapeFailed ==
  ASSUME NEW c, Shape(c, switches), switches \in Nat, NEW a \in Address
  PROVE  Shape(FailedMiss(c, a), switches)
<1>. DEFINE r == AllocTrace(c)
            q == Hash(a)
            f == [pAddr |-> -1 - a, traceMask |-> {}, age |-> switches, tlen |-> 1, i |-> r.mpindex]
            E == [r.entry EXCEPT ![q] = f]
            g == FailedMiss(c, a)
<1>1. Shape(r, switches) /\ r.mpindex \in Nat
  BY ShapeAlloc
<1>2. f \in Entry /\ f.pAddr \notin Address /\ q \in Slot
  <2>1. a \in Nat /\ r.mpindex \in Nat
    BY <1>1, AddressOK
  <2>2. -1 - a \in Int /\ \A b \in Address : b # -1 - a
    BY <2>1, AddressOK
  <2>. QED BY <2>1, <2>2, HashOK DEF Entry
<1>3. g = [r EXCEPT !.entry = E]
  BY DEF FailedMiss
<1>. HIDE DEF r, q, f
<1>4. r.entry \in [Slot -> Entry]
  BY <1>1 DEF Shape, Cache
<1>5. E \in [Slot -> Entry] /\ E[q] = f /\ \A s \in Slot : s # q => E[s] = r.entry[s]
  BY <1>2, <1>4
<1>. HIDE DEF g, E
<1>6. /\ g \in Cache /\ g.entry = E /\ g.pool = r.pool
      /\ g.mpindex = r.mpindex /\ g.stamp = r.stamp
  BY <1>1, <1>3, <1>5 DEF Shape, Cache
<1>7. \A s \in Slot : g.entry[s].pAddr \in Address => g.entry[s] = r.entry[s]
  BY <1>2, <1>5, <1>6
<1>8. EntriesOK(g, switches)
  BY <1>1, <1>6, <1>7, FewerEntries DEF Shape
<1>9. StampsOK(g) /\ Ended(g) /\ LinksIn(g)
  BY <1>1, <1>6 DEF Shape, StampsOK, Ended, LinksIn
<1>. QED BY <1>6, <1>8, <1>9 DEF Shape, g

\* linkTrace() changes a link.
LEMMA ShapeLink ==
  ASSUME NEW c, NEW n, Shape(c, n), NEW p \in 0 .. c.mpindex - 1, c.pool[p] # Dummy,
         NEW b \in 0 .. c.mpindex - 1
  PROVE  LET d == [c EXCEPT !.pool[p].link = [next |-> b, stamp |-> c.stamp]]
         IN  Shape(d, n) /\ d.mpindex = c.mpindex
<1>. DEFINE L == [next |-> b, stamp |-> c.stamp]
            d == [c EXCEPT !.pool[p].link = L]
            x == [c.pool[p] EXCEPT !.link = L]
            P == [c.pool EXCEPT ![p] = x]
<1>1. /\ c \in Cache /\ c.pool \in [Place -> Decoded \cup {Dummy}] /\ p \in Place /\ b \in Place
      /\ c.stamp \in Nat /\ c.mpindex \in Nat /\ \A k \in 0 .. c.mpindex - 1 : k \in Place
  BY CacheOK DEF Shape, Cache
<1>2. L \in Link /\ L.next = b /\ L.stamp = c.stamp
  BY <1>1 DEF Link
<1>3. d = [c EXCEPT !.pool = P]
  OBVIOUS
<1>. HIDE DEF L, d
<1>4. x \in Decoded /\ x.link = L
  <2>1. c.pool[p] \in Decoded
    BY <1>1
  <2>. QED BY <1>2, <2>1 DEF Decoded
<1>. HIDE DEF x
<1>5. P \in [Place -> Decoded \cup {Dummy}] /\ P[p] = x /\ \A k \in Place : k # p => P[k] = c.pool[k]
  BY <1>1, <1>4
<1>. HIDE DEF P
<1>6. /\ d \in Cache /\ d.pool = P /\ d.entry = c.entry /\ d.mpindex = c.mpindex /\ d.stamp = c.stamp
  BY <1>1, <1>3, <1>5 DEF Cache
<1>7. \A k \in Place : c.pool[k] = Dummy => d.pool[k] = Dummy
  BY <1>5, <1>6
<1>8. EntriesOK(d, n)
  <2>1. \A s \in Slot : c.entry[s].pAddr \in Address => c.entry[s].i + c.entry[s].tlen - 1 \in Place
    BY <1>1, ExtentOK DEF Shape
  <2>. QED BY <1>6, <1>7, <2>1 DEF Shape, EntriesOK
<1>9. StampsOK(d)
  <2>1. ASSUME NEW k \in 0 .. c.mpindex - 1 PROVE d.pool[k].link.stamp <= c.stamp
    <3>1. CASE k = p
      BY <1>1, <1>2, <1>4, <1>5, <1>6, <3>1
    <3>2. CASE k # p
      BY <1>1, <1>5, <1>6, <3>2 DEF Shape, StampsOK
    <3>. QED BY <3>1, <3>2
  <2>. QED BY <1>6, <2>1 DEF StampsOK
<1>10. LinksIn(d)
  <2>1. ASSUME NEW k \in 0 .. c.mpindex - 1, d.pool[k].link.stamp = c.stamp
        PROVE  d.pool[k].link.next < c.mpindex
    <3>1. CASE k = p
      <4>1. d.pool[k].link.next = b
        BY <1>2, <1>4, <1>5, <1>6, <3>1
      <4>. QED BY <1>1, <4>1
    <3>2. CASE k # p
      BY <1>1, <1>5, <1>6, <2>1, <3>2 DEF Shape, LinksIn
    <3>. QED BY <3>1, <3>2
  <2>. QED BY <1>6, <2>1 DEF LinksIn
<1>11. Ended(d)
  <2>1. CASE c.mpindex = 0
    BY <1>6, <2>1 DEF Ended
  <2>2. CASE c.mpindex # 0
    <3>1. c.mpindex - 1 \in Place
      BY <1>1, <2>2
    <3>. QED BY <1>6, <1>7, <2>2, <3>1 DEF Shape, Ended
  <2>. QED BY <2>1, <2>2
<1>. QED BY <1>6, <1>8, <1>9, <1>10, <1>11 DEF Shape, d, L

\* The invariant of the shape: execution stays in the used part of the pool.
ShapeInv ==
  /\ TypeOK
  /\ Shape(ic, switches)
  /\ pc = "exec" => cur < ic.mpindex
  /\ pc = "vm" => switches < MaxSwitches
  /\ pc = "dispatch" => switches <= MaxSwitches

\* What a step has to show.
LEMMA ShapeIntro ==
  ASSUME pc' \in {"host", "device", "fetch", "exec", "end", "fault", "vm", "dispatch"},
         mem' \in [Address -> Bytes], rip' \in Address, as' \in AddressSpaces, cur' \in Nat,
         mapping' \subseteq PageNo \X Lines, stack' \in StackType, switches' \in 0 .. MaxSwitches + 1,
         Shape(ic', switches'),
         pc' = "exec" \/ cur' # 0 => cur' \in Place,
         pc' = "exec" => cur' < ic'.mpindex,
         pc' = "vm" => switches' < MaxSwitches,
         pc' = "dispatch" => switches' <= MaxSwitches
  PROVE  ShapeInv'
<1>1. ic'.mpindex \in 0 .. PoolLen /\ ic'.stamp \in 0 .. MaxStamp - 1 /\ ic'.nextSplit \in 0 .. SplitEntries - 1
  BY DEF Shape, Cache
<1>2. cur' \in 0 .. PoolLen - 1
  BY CacheAssumption DEF Place
<1>3. TypeOK'
  BY <1>1, <1>2 DEF TypeOK, PageNo, StackType
<1>. QED BY <1>3 DEF ShapeInv

\* What the invariant gives to a step.
LEMMA ShapeElim ==
  ASSUME ShapeInv
  PROVE  /\ pc \in {"host", "device", "fetch", "exec", "end", "fault", "vm", "dispatch"}
         /\ mem \in [Address -> Bytes] /\ rip \in Address /\ as \in AddressSpaces
         /\ cur \in Place /\ cur \in Nat
         /\ mapping \subseteq PageNo \X Lines /\ stack \in StackType
         /\ switches \in 0 .. MaxSwitches + 1 /\ switches \in Nat /\ MaxSwitches \in Nat
         /\ Shape(ic, switches)
         /\ pc = "exec" => cur < ic.mpindex
         /\ pc = "vm" => switches < MaxSwitches
         /\ pc = "dispatch" => switches <= MaxSwitches
<1>1. /\ pc \in {"host", "device", "fetch", "exec", "end", "fault", "vm", "dispatch"}
      /\ mem \in [Address -> Bytes] /\ rip \in Address /\ as \in AddressSpaces
      /\ cur \in Place /\ mapping \subseteq PageNo \X Lines /\ stack \in StackType
      /\ switches \in 0 .. MaxSwitches + 1
  BY DEF ShapeInv, TypeOK, Place, PageNo, StackType
<1>2. MaxSwitches \in Nat /\ PoolLen \in Nat
  BY CacheAssumption
<1>3. cur \in Nat /\ switches \in Nat
  BY <1>1, <1>2 DEF Place
<1>. QED BY <1>1, <1>2, <1>3 DEF ShapeInv

\* A place in the used part of the pool.
LEMMA UsedPlace ==
  ASSUME NEW n, Shape(ic, n), NEW p \in Nat, p < ic.mpindex
  PROVE  p \in Place /\ p \in 0 .. ic.mpindex - 1
<1>1. ic.mpindex \in Nat /\ ic.mpindex <= PoolLen /\ PoolLen \in Nat
  BY CacheOK DEF Shape
<1>. QED BY <1>1 DEF Place

\* After an instruction that is no end comes another place of the used part.
LEMMA ShapeStraight ==
  ASSUME ShapeInv, Straight
  PROVE  /\ pc = "exec" /\ rip' \in Address /\ cur + 1 \in Place /\ cur + 1 \in Nat
         /\ cur + 1 < ic.mpindex
<1>1. /\ pc = "exec" /\ ic.pool[cur] # Dummy /\ rip' = NextAddress(rip, Len(ic.pool[cur].bytes))
  BY DEF Straight, Insn
<1>2. /\ Shape(ic, switches) /\ cur \in Nat /\ cur < ic.mpindex /\ rip \in Address
  BY <1>1, ShapeElim
<1>3. cur \in Place /\ ic.mpindex \in Nat
  BY <1>2, UsedPlace, CacheOK DEF Shape
<1>4. cur # ic.mpindex - 1 /\ cur + 1 < ic.mpindex
  BY <1>1, <1>2, <1>3 DEF Shape, Ended
<1>5. ic.pool[cur] \in Decoded
  BY <1>1, <1>2, <1>3, CacheOK DEF Shape
<1>6. Len(ic.pool[cur].bytes) \in Nat
  BY <1>5 DEF Decoded
<1>7. rip' \in Address
  BY <1>1, <1>2, <1>6, NextOK
<1>8. cur + 1 \in Nat
  BY <1>2
<1>9. cur + 1 \in Place
  BY <1>2, <1>4, <1>8, UsedPlace
<1>. QED BY <1>1, <1>4, <1>7, <1>8, <1>9

\* A branch is in the used part, and goes to an address.
LEMMA ShapeBranches ==
  ASSUME ShapeInv, Branches
  PROVE  /\ pc = "exec" /\ rip' \in Address /\ ic.pool[cur] # Dummy
         /\ cur \in 0 .. ic.mpindex - 1 /\ cur \in Place
<1>1. pc = "exec" /\ ic.pool[cur] # Dummy /\ rip' = Target[as][rip]
  BY DEF Branches, Insn
<1>2. Shape(ic, switches) /\ cur \in Nat /\ cur < ic.mpindex /\ rip \in Address /\ as \in AddressSpaces
  BY <1>1, ShapeElim
<1>3. Target[as][rip] \in Address
  <2>1. Target \in [AddressSpaces -> [Address -> Address]]
    BY GuestAssumption
  <2>. QED BY <1>2, <2>1
<1>. QED BY <1>1, <1>2, <1>3, UsedPlace

\* getICacheEntry().
LEMMA ShapeGetEntry ==
  ASSUME ShapeInv, GetEntry
  PROVE  /\ Shape(ic', switches) /\ mapping' \subseteq PageNo \X Lines /\ stack' \in StackType
         /\ ic'.entry[Hash(rip)].i \in Nat /\ ic'.entry[Hash(rip)].i < ic'.mpindex
         /\ ic'.entry[Hash(rip)].i \in Place
<1>1. /\ Shape(ic, switches) /\ mem \in [Address -> Bytes] /\ rip \in Address
      /\ mapping \subseteq PageNo \X Lines /\ stack \in StackType /\ switches \in Nat
  BY ShapeElim
<1>2. /\ Shape(ic', switches) /\ mapping' \subseteq PageNo \X Lines /\ stack' \in StackType
      /\ ic'.entry[Hash(rip)].i \in Nat /\ ic'.entry[Hash(rip)].i < ic'.mpindex
  <2>1. CASE FindEntry(ic, rip)
    <3>1. ic' = ic /\ mapping' = mapping /\ stack' = stack
      BY <2>1 DEF GetEntry
    <3>. DEFINE e == ic.entry[Hash(rip)]
    <3>2. e.pAddr \in Address /\ Hash(rip) \in Slot
      BY <1>1, <2>1, HashOK DEF FindEntry
    <3>3. e.i \in Nat /\ e.tlen \in Nat /\ e.tlen >= 1 /\ e.i + e.tlen <= ic.mpindex /\ ic.mpindex \in Nat
      BY <1>1, <3>2, ExtentOK, CacheOK DEF Shape
    <3>. HIDE DEF e
    <3>4. e.i < ic.mpindex
      BY <3>3
    <3>. QED BY <1>1, <3>1, <3>3, <3>4 DEF e
  <2>2. CASE ~FindEntry(ic, rip)
    <3>1. /\ ic' = ServeMiss(ic, mem, rip) /\ mapping' = mapping \cup Marks(ic, mem, rip)
          /\ stack' \in {stack, NoStack}
      BY <2>2 DEF GetEntry, MissStack
    <3>. QED BY <1>1, <3>1, ShapeMiss, NoStackOK
  <2>. QED BY <2>1, <2>2
<1>3. ic'.mpindex \in Nat /\ ic'.mpindex <= PoolLen /\ PoolLen \in Nat
  BY <1>2, CacheOK DEF Shape
<1>. QED BY <1>2, <1>3 DEF Place

\* A push.
LEMMA ShapePush ==
  ASSUME ShapeInv, NEW w \in Writes, NEW s \in StackFor(Page(w[1])), StackWrite(w, s)
  PROVE  /\ Shape(ic', switches) /\ mapping' \subseteq PageNo \X Lines /\ stack' \in StackType
         /\ mem' \in [Address -> Bytes]
         /\ ~StackStops(w, s) => ic' = ic
<1>1. /\ Shape(ic, switches) /\ mem \in [Address -> Bytes]
      /\ mapping \subseteq PageNo \X Lines /\ stack \in StackType
  BY ShapeElim
<1>2. /\ stack' = s /\ mem' = Written(w) /\ Page(w[1]) \in StackPages
      /\ IF s.stamped THEN DecWriteStamp(Page(w[1]), StoreMask(w)) ELSE UNCHANGED <<ic, mapping>>
  BY DEF StackWrite
<1>3. s \in StackType
  BY <1>1, <1>2, NoStackOK DEF StackFor
<1>4. mem' \in [Address -> Bytes]
  BY <1>1, <1>2, WriteOK
<1>5. CASE s.stamped
  <2>1. /\ Shape(ic', switches) /\ mapping' \subseteq mapping
        /\ ~Cached(Page(w[1]), StoreMask(w)) => ic' = ic
    BY <1>1, <1>2, <1>5, ShapeStamped
  <2>. QED BY <1>1, <1>2, <1>3, <1>4, <1>5, <2>1 DEF StackStops, Stops
<1>6. CASE ~s.stamped
  BY <1>1, <1>2, <1>3, <1>4, <1>6
<1>. QED BY <1>5, <1>6

\* Flushing the TLB, and set_context().
LEMMA ShapeTlbFlush ==
  ASSUME ShapeInv, TlbFlush
  PROVE  Shape(ic', switches) /\ stack' \in StackType
BY ShapeBreak, NoStackOK DEF ShapeInv, TlbFlush

LEMMA ShapeSetContext ==
  ASSUME ShapeInv, SetContext
  PROVE  Shape(ic', switches') /\ stack' \in StackType /\ rip' \in Address /\ switches' = switches + 1
<1>1. rip' \in Address /\ switches' = switches + 1 /\ TlbFlush
  BY GuestAssumption DEF SetContext
<1>2. Shape(ic', switches) /\ stack' \in StackType
  BY <1>1, ShapeTlbFlush
<1>3. switches \in Nat
  BY ShapeElim
<1>4. \A s \in Slot : ic'.entry[s].age \in Nat
  BY <1>2, CacheOK DEF Shape
<1>5. EntriesOK(ic', switches + 1)
  BY <1>2, <1>3, <1>4 DEF Shape, EntriesOK
<1>. QED BY <1>1, <1>2, <1>5 DEF Shape

\* The empty cache.
LEMMA ShapeInit == Init => ShapeInv
<1>. SUFFICES ASSUME Init PROVE ShapeInv
  OBVIOUS
<1>1. 0 \in Address /\ 0 \in 0 .. PoolLen - 1 /\ 0 \in 0 .. MaxSwitches + 1
  <2>1. Pages \in Nat \ {0} /\ PageLen \in Nat \ {0}
    BY CacheAssumption
  <2>2. Pages * PageLen \in Nat \ {0}
    BY <2>1
  <2>. QED BY <2>2, CacheAssumption DEF Address
<1>2. /\ ic \in Cache /\ ic.mpindex = 0 /\ ic.stamp = 0 /\ ic.nextSplit = 0
      /\ \A s \in Slot : ic.entry[s].pAddr \notin Address
  BY EmptyCache
<1>3. EntriesOK(ic, switches) /\ StampsOK(ic) /\ Unlinked(ic)
  BY <1>2, EmptyOK
<1>4. Shape(ic, switches)
  BY <1>2, <1>3, ShapeUnlinked DEF Shape, Ended
<1>5. /\ pc = "host" /\ mem = Original /\ rip = 0 /\ as \in AddressSpaces /\ cur = 0 /\ mapping = {}
      /\ switches = 0 /\ stack = NoStack
  BY DEF Init
<1>6. ic.mpindex \in 0 .. PoolLen /\ ic.stamp \in 0 .. MaxStamp - 1 /\ ic.nextSplit \in 0 .. SplitEntries - 1
  BY <1>2 DEF Cache
<1>7. TypeOK
  BY <1>1, <1>5, <1>6, NoStackOK, GuestAssumption DEF TypeOK, StackType
<1>. QED BY <1>4, <1>5, <1>7 DEF ShapeInv

\* Every action keeps the shape.
LEMMA ShapeNext == ShapeInv /\ [Next]_vars => ShapeInv'
<1>. SUFFICES ASSUME ShapeInv, [Next]_vars PROVE ShapeInv'
  OBVIOUS
<1>1. /\ pc \in {"host", "device", "fetch", "exec", "end", "fault", "vm", "dispatch"}
      /\ mem \in [Address -> Bytes] /\ rip \in Address /\ as \in AddressSpaces
      /\ cur \in Place /\ cur \in Nat /\ 0 \in Nat
      /\ mapping \subseteq PageNo \X Lines /\ stack \in StackType
      /\ switches \in 0 .. MaxSwitches + 1 /\ switches \in Nat /\ MaxSwitches \in Nat
      /\ Shape(ic, switches)
      /\ pc = "exec" => cur < ic.mpindex
      /\ pc = "vm" => switches < MaxSwitches
      /\ pc = "dispatch" => switches <= MaxSwitches
  BY ShapeElim
<1>2. CASE StepDevice \/ StepCpu
  <2>1. TlbFlush /\ pc' \in {"device", "fetch"} /\ UNCHANGED <<mem, rip, as, cur, mapping, switches>>
    BY <1>2 DEF StepDevice, StepCpu
  <2>2. Shape(ic', switches) /\ stack' \in StackType
    BY <2>1, ShapeTlbFlush
  <2>. QED BY <1>1, <2>1, <2>2, ShapeIntro
<1>3. CASE StepReturn
  <2>1. pc' = "host" /\ UNCHANGED <<mem, rip, as, cur, ic, mapping, stack, switches>>
    BY <1>3 DEF StepReturn
  <2>. QED BY <1>1, <2>1, ShapeIntro
<1>4. CASE DmaWrite
  <2>1. PICK w \in Writes : DecWriteStamp(Page(w[1]), Lines) /\ mem' = Written(w)
    BY <1>4 DEF DmaWrite
  <2>2. pc = "device" /\ UNCHANGED <<pc, rip, as, cur, stack, switches>>
    BY <1>4 DEF DmaWrite
  <2>3. Shape(ic', switches) /\ mapping' \subseteq mapping /\ mem' \in [Address -> Bytes]
    BY <1>1, <2>1, ShapeStamped, WriteOK
  <2>. QED BY <1>1, <2>2, <2>3, ShapeIntro
<1>5. CASE PushFrame
  <2>1. PICK w \in Writes : \E s \in StackFor(Page(w[1])) : StackWrite(w, s)
    BY <1>5 DEF PushFrame
  <2>2. PICK s \in StackFor(Page(w[1])) : StackWrite(w, s)
    BY <2>1
  <2>3. /\ pc' \in {"device", "fetch", "host"} /\ UNCHANGED <<as, cur, switches>> /\ rip' \in Address
    BY <1>5, GuestAssumption DEF PushFrame
  <2>4. /\ Shape(ic', switches) /\ mapping' \subseteq PageNo \X Lines /\ stack' \in StackType
        /\ mem' \in [Address -> Bytes]
    BY <2>2, ShapePush
  <2>. QED BY <1>1, <2>3, <2>4, ShapeIntro
<1>6. CASE Fetch
  <2>1. /\ GetEntry /\ cur' = ic'.entry[Hash(rip)].i /\ pc' = "exec"
        /\ UNCHANGED <<mem, rip, as, switches>>
    BY <1>6 DEF Fetch
  <2>2. /\ Shape(ic', switches) /\ mapping' \subseteq PageNo \X Lines /\ stack' \in StackType
        /\ cur' \in Nat /\ cur' < ic'.mpindex /\ cur' \in Place
    BY <2>1, ShapeGetEntry
  <2>. QED BY <1>1, <2>1, <2>2, ShapeIntro
<1>7. CASE FetchAgain
  <2>1. GetEntry /\ pc' = "fetch" /\ UNCHANGED <<mem, rip, as, cur, switches>>
    BY <1>7 DEF FetchAgain
  <2>2. Shape(ic', switches) /\ mapping' \subseteq PageNo \X Lines /\ stack' \in StackType
    BY <2>1, ShapeGetEntry
  <2>. QED BY <1>1, <2>1, <2>2, ShapeIntro
<1>8. CASE FetchFault
  <2>1. /\ ic' = FailedMiss(ic, rip) /\ pc' = "fault" /\ stack' \in {stack, NoStack}
        /\ UNCHANGED <<mem, rip, as, cur, mapping, switches>>
    BY <1>8 DEF FetchFault, MissStack
  <2>2. Shape(ic', switches) /\ stack' \in StackType
    BY <1>1, <2>1, ShapeFailed, NoStackOK
  <2>. QED BY <1>1, <2>1, <2>2, ShapeIntro
<1>9. CASE ExecEnd \/ ExecFault
  <2>1. pc' \in {"end", "fault"} /\ cur' = 0 /\ UNCHANGED <<mem, rip, as, ic, mapping, stack, switches>>
    BY <1>9 DEF ExecEnd, ExecFault, Leave
  <2>. QED BY <1>1, <2>1, ShapeIntro
<1>10. CASE ExecPlain \/ ExecPop
  <2>1. Straight /\ cur' = cur + 1 /\ UNCHANGED <<pc, mem, as, ic, mapping, switches>>
    BY <1>10 DEF ExecPlain, ExecPop
  <2>2. stack' \in StackType
    BY <1>1, <1>10, NoStackOK DEF ExecPlain, ExecPop
  <2>3. pc = "exec" /\ rip' \in Address /\ cur' \in Place /\ cur' \in Nat /\ cur' < ic.mpindex
    BY <2>1, ShapeStraight
  <2>. QED BY <1>1, <2>1, <2>2, <2>3, ShapeIntro
<1>11. CASE ExecStore
  <2>1. PICK w \in Writes :
          /\ DecWriteStamp(Page(w[1]), StoreMask(w)) /\ mem' = Written(w)
          /\ IF Cached(Page(w[1]), StoreMask(w)) THEN pc' = "fetch" /\ cur' = 0
             ELSE cur' = cur + 1 /\ pc' = pc
    BY <1>11 DEF ExecStore, Store, Stops, Leave
  <2>2. Straight /\ UNCHANGED <<as, stack, switches>>
    BY <1>11 DEF ExecStore
  <2>3. /\ Shape(ic', switches) /\ mapping' \subseteq mapping /\ mem' \in [Address -> Bytes]
        /\ ~Cached(Page(w[1]), StoreMask(w)) => ic' = ic
    BY <1>1, <2>1, ShapeStamped, WriteOK
  <2>4. pc = "exec" /\ rip' \in Address /\ cur + 1 \in Place /\ cur + 1 \in Nat /\ cur + 1 < ic.mpindex
    BY <2>2, ShapeStraight
  <2>5. CASE Cached(Page(w[1]), StoreMask(w))
    BY <1>1, <2>1, <2>2, <2>3, <2>4, <2>5, ShapeIntro
  <2>6. CASE ~Cached(Page(w[1]), StoreMask(w))
    BY <1>1, <2>1, <2>2, <2>3, <2>4, <2>6, ShapeIntro
  <2>. QED BY <2>5, <2>6
<1>12. CASE ExecPush
  <2>1. PICK w \in Writes : \E s \in StackFor(Page(w[1])) :
          /\ StackWrite(w, s)
          /\ IF StackStops(w, s) THEN pc' = "fetch" /\ cur' = 0 ELSE cur' = cur + 1 /\ pc' = pc
    BY <1>12 DEF ExecPush, Leave
  <2>2. PICK s \in StackFor(Page(w[1])) :
          /\ StackWrite(w, s)
          /\ IF StackStops(w, s) THEN pc' = "fetch" /\ cur' = 0 ELSE cur' = cur + 1 /\ pc' = pc
    BY <2>1
  <2>3. Straight /\ UNCHANGED <<as, switches>>
    BY <1>12 DEF ExecPush
  <2>4. /\ Shape(ic', switches) /\ mapping' \subseteq PageNo \X Lines /\ stack' \in StackType
        /\ mem' \in [Address -> Bytes]
        /\ ~StackStops(w, s) => ic' = ic
    BY <2>2, ShapePush
  <2>5. pc = "exec" /\ rip' \in Address /\ cur + 1 \in Place /\ cur + 1 \in Nat /\ cur + 1 < ic.mpindex
    BY <2>3, ShapeStraight
  <2>6. CASE StackStops(w, s)
    <3>1. pc' = "fetch" /\ cur' = 0
      BY <2>2, <2>6
    <3>. QED BY <1>1, <2>3, <2>4, <2>5, <3>1, ShapeIntro
  <2>7. CASE ~StackStops(w, s)
    <3>1. pc' = "exec" /\ cur' = cur + 1 /\ ic' = ic
      BY <2>2, <2>4, <2>5, <2>7
    <3>. QED BY <1>1, <2>3, <2>4, <2>5, <3>1, ShapeIntro
  <2>. QED BY <2>6, <2>7
<1>13. CASE ExecMovCR3
  <2>1. /\ Straight /\ as' \in AddressSpaces /\ TlbFlush /\ pc' = "end" /\ cur' = 0
        /\ UNCHANGED <<mem, mapping, switches>>
    BY <1>13 DEF ExecMovCR3, Leave
  <2>2. rip' \in Address /\ Shape(ic', switches) /\ stack' \in StackType
    BY <2>1, ShapeStraight, ShapeTlbFlush
  <2>. QED BY <1>1, <2>1, <2>2, ShapeIntro
<1>14. CASE ExecInvd
  <2>1. /\ Straight /\ ic' = FlushEntries(ic) /\ mapping' = {} /\ pc' = "fetch" /\ cur' = 0
        /\ UNCHANGED <<mem, as, stack, switches>>
    BY <1>14 DEF ExecInvd, Leave
  <2>2. rip' \in Address /\ Shape(ic', switches)
    BY <1>1, <2>1, ShapeStraight, ShapeFlush DEF Shape
  <2>. QED BY <1>1, <2>1, <2>2, ShapeIntro
<1>15. CASE FollowLink
  <2>1. /\ Branches /\ Linked /\ cur' = ic.pool[cur].link.next
        /\ UNCHANGED <<pc, mem, as, ic, mapping, stack, switches>>
    BY <1>15 DEF FollowLink, Insn
  <2>2. pc = "exec" /\ rip' \in Address /\ cur \in 0 .. ic.mpindex - 1 /\ cur \in Place
    BY <2>1, ShapeBranches
  <2>3. ic.pool[cur].link.next # Invalid /\ ic.stamp <= ic.pool[cur].link.stamp
    BY <2>1 DEF Linked, Insn
  <2>4. /\ ic.stamp \in Nat /\ ic.pool[cur].link.stamp \in Nat
        /\ ic.pool[cur].link.next \in Place \cup {Invalid}
    BY <1>1, <2>2, CacheOK, LinkOK DEF Shape
  <2>5. ic.pool[cur].link.stamp = ic.stamp
    BY <1>1, <2>2, <2>3, <2>4 DEF Shape, StampsOK
  <2>6. cur' \in Place /\ cur' < ic.mpindex
    BY <1>1, <2>1, <2>2, <2>3, <2>4, <2>5 DEF Shape, LinksIn
  <2>7. cur' \in Nat
    BY <2>6 DEF Place
  <2>. QED BY <1>1, <2>1, <2>2, <2>6, <2>7, ShapeIntro
<1>16. CASE MakeLink
  <2>. DEFINE b == ic.entry[Hash(rip')].i
  <2>1. /\ Branches /\ FindEntry(ic, rip') /\ cur' = b
        /\ ic' = [ic EXCEPT !.pool[cur].link = [next |-> b, stamp |-> ic.stamp]]
        /\ UNCHANGED <<pc, mem, as, mapping, stack, switches>>
    BY <1>16 DEF MakeLink
  <2>2. /\ pc = "exec" /\ rip' \in Address /\ cur \in 0 .. ic.mpindex - 1 /\ ic.pool[cur] # Dummy
    BY <2>1, ShapeBranches
  <2>3. b \in 0 .. ic.mpindex - 1 /\ b \in Place /\ b \in Nat /\ b < ic.mpindex
    <3>. DEFINE e == ic.entry[Hash(rip')]
    <3>1. e.pAddr \in Address /\ Hash(rip') \in Slot
      BY <2>1, <2>2, HashOK DEF FindEntry
    <3>2. e.i \in Nat /\ e.tlen \in Nat /\ e.tlen >= 1 /\ e.i + e.tlen <= ic.mpindex /\ ic.mpindex \in Nat
      BY <1>1, <3>1, ExtentOK, CacheOK DEF Shape
    <3>. HIDE DEF e
    <3>3. e.i < ic.mpindex
      BY <3>2
    <3>4. e.i \in Place /\ e.i \in 0 .. ic.mpindex - 1
      BY <1>1, <3>2, <3>3, UsedPlace
    <3>. QED BY <3>2, <3>3, <3>4 DEF e
  <2>. HIDE DEF b
  <2>4. Shape(ic', switches) /\ ic'.mpindex = ic.mpindex
    BY <1>1, <2>1, <2>2, <2>3, ShapeLink
  <2>5. cur' \in Place /\ cur' \in Nat /\ cur' < ic'.mpindex
    BY <2>1, <2>3, <2>4
  <2>6. mem' = mem /\ as' = as /\ mapping' = mapping /\ stack' = stack /\ switches' = switches /\ pc' = "exec"
    BY <2>1, <2>2
  <2>. QED BY <1>1, <2>2, <2>4, <2>5, <2>6, ShapeIntro
<1>17. CASE NoLinkTaken
  <2>1. Branches /\ pc' = "end" /\ cur' = 0 /\ UNCHANGED <<mem, as, ic, mapping, stack, switches>>
    BY <1>17 DEF NoLinkTaken, Leave
  <2>2. rip' \in Address
    BY <2>1, ShapeBranches
  <2>. QED BY <1>1, <2>1, <2>2, ShapeIntro
<1>18. CASE ExecCall
  <2>1. PICK w \in Writes : \E s \in StackFor(Page(w[1])) :
          StackWrite(w, s) /\ pc' \in {"fetch", "end"} /\ cur' = 0
    BY <1>18 DEF ExecCall, Leave
  <2>2. PICK s \in StackFor(Page(w[1])) : StackWrite(w, s) /\ pc' \in {"fetch", "end"} /\ cur' = 0
    BY <2>1
  <2>3. rip' \in Address /\ UNCHANGED <<as, switches>>
    BY <1>18, ShapeBranches DEF ExecCall
  <2>4. /\ Shape(ic', switches) /\ mapping' \subseteq PageNo \X Lines /\ stack' \in StackType
        /\ mem' \in [Address -> Bytes]
    BY <2>2, ShapePush
  <2>. QED BY <1>1, <2>2, <2>3, <2>4, ShapeIntro
<1>19. CASE VmEnter
  <2>1. /\ switches < MaxSwitches /\ pc' = "vm"
        /\ UNCHANGED <<mem, rip, as, cur, ic, mapping, stack, switches>>
    BY <1>19 DEF VmEnter
  <2>. QED BY <1>1, <2>1, ShapeIntro
<1>20. CASE VmWrite
  <2>1. pc = "vm" /\ UNCHANGED <<pc, rip, as, cur, ic, mapping, stack, switches>>
    BY <1>20 DEF VmWrite
  <2>2. mem' \in [Address -> Bytes]
    BY <1>1, <1>20, WriteOK DEF VmWrite
  <2>. QED BY <1>1, <2>1, <2>2, ShapeIntro
<1>21. CASE VmExit
  <2>1. /\ pc = "vm" /\ SetContext /\ as' \in AddressSpaces /\ pc' = "dispatch"
        /\ UNCHANGED <<mem, cur, mapping>>
    BY <1>21 DEF VmExit
  <2>2. Shape(ic', switches') /\ stack' \in StackType /\ rip' \in Address /\ switches' = switches + 1
    BY <2>1, ShapeSetContext
  <2>3. switches' \in 0 .. MaxSwitches + 1 /\ switches' <= MaxSwitches
    BY <1>1, <2>1, <2>2
  <2>. QED BY <1>1, <2>1, <2>2, <2>3, ShapeIntro
<1>22. CASE Recommit
  <2>1. pc = "dispatch" /\ SetContext /\ pc' = "host" /\ UNCHANGED <<mem, as, cur, mapping>>
    BY <1>22 DEF Recommit
  <2>2. Shape(ic', switches') /\ stack' \in StackType /\ rip' \in Address /\ switches' = switches + 1
    BY <2>1, ShapeSetContext
  <2>3. switches' \in 0 .. MaxSwitches + 1
    BY <1>1, <2>1, <2>2
  <2>. QED BY <1>1, <2>1, <2>2, <2>3, ShapeIntro
<1>23. CASE Restore
  <2>1. pc = "dispatch" /\ UNCHANGED <<pc, rip, as, cur, ic, mapping, stack, switches>>
    BY <1>23 DEF Restore
  <2>2. mem' \in [Address -> Bytes]
    BY <1>1, <1>23, GuestAssumption DEF Restore
  <2>. QED BY <1>1, <2>1, <2>2, ShapeIntro
<1>24. CASE Dispatched
  <2>1. pc' = "host" /\ UNCHANGED <<mem, rip, as, cur, ic, mapping, stack, switches>>
    BY <1>24 DEF Dispatched
  <2>. QED BY <1>1, <2>1, ShapeIntro
<1>25. CASE UNCHANGED vars
  <2>1. UNCHANGED <<pc, mem, rip, as, cur, ic, mapping, stack, switches>>
    BY <1>25 DEF vars
  <2>. QED BY <1>1, <2>1, ShapeIntro
<1>. QED BY <1>2, <1>3, <1>4, <1>5, <1>6, <1>7, <1>8, <1>9, <1>10, <1>11, <1>12, <1>13, <1>14, <1>15, <1>16, <1>17, <1>18, <1>19, <1>20, <1>21, <1>22, <1>23, <1>24, <1>25 DEF Next

-----------------------------------------------------------------------------
(* The theorems.                                                           *)

\* The shape of the cache holds of every reachable state.
LEMMA ShapeInvariant == Spec => []ShapeInv
<1>1. ShapeInv /\ [Next]_vars => ShapeInv'
  BY ShapeNext
<1>. QED BY <1>1, ShapeInit, PTL DEF Spec

\* In a program in which no instruction continues onto a page of the stack, the
\* inductive invariant of the code holds of every reachable state.
LEMMA CacheInvariant == SplitFree => (Spec => []CacheInv)
<1>. SUFFICES ASSUME SplitFree PROVE Spec => []CacheInv
  OBVIOUS
<1>1. Init => CacheInv
  BY CacheInit
<1>2. CacheInv /\ [Next]_vars => CacheInv'
  BY CacheNext
<1>. QED BY <1>1, <1>2, PTL DEF Spec

\* serveICacheMiss(), commit_trace(), mergeTraces() and the loop keep within the
\* pool and the tables: no index of the cache, and no place where execution
\* continues, is ever out of bounds, not even with stale code in the cache.
THEOREM CacheTypeCorrect == Spec => []TypeOK
<1>1. ShapeInv => TypeOK
  BY DEF ShapeInv
<1>. QED BY <1>1, ShapeInvariant, PTL

\* Traces that find_entry() can return never overlap in the pool, whatever
\* alloc_trace(), flushSMC() and commit_page_split_trace() did before.
THEOREM CacheTracesDisjoint == Spec => []TracesDisjoint
<1>1. ASSUME ShapeInv PROVE TracesDisjoint
  <2>1. ic \in Cache /\ EntriesOK(ic, switches)
    BY <1>1 DEF ShapeInv, Shape
  <2>2. DOMAIN ic.entry = Slot /\ ic.mpindex \in Nat
    BY <2>1, CacheOK
  <2>3. ASSUME NEW s \in Slot, ic.entry[s].pAddr \in Address
        PROVE  Extent(ic.entry[s]) \subseteq 0 .. ic.mpindex - 1
    <3>1. /\ ic.entry[s].i \in Nat /\ ic.entry[s].tlen \in Nat
          /\ ic.entry[s].i + ic.entry[s].tlen <= ic.mpindex
      BY <2>1, <2>3, CacheOK DEF EntriesOK
    <3>. QED BY <2>2, <3>1 DEF Extent
  <2>4. \A s, r \in Slot : s # r /\ ic.entry[s].pAddr \in Address /\ ic.entry[r].pAddr \in Address
          => Extent(ic.entry[s]) \cap Extent(ic.entry[r]) = {}
    BY <2>1 DEF EntriesOK
  <2>. QED BY <2>2, <2>3, <2>4 DEF TracesDisjoint, Valid
<1>. QED BY <1>1, ShapeInvariant, PTL

\* Every instruction that is executed from the cache, after getICacheEntry(),
\* along a link of linkTrace(), in a tail of mergeTraces() or as the next one of
\* a trace, is the one that memory holds at RIP: decWriteStamp() finds the
\* traces that Bochs' own writes touch, pushes through the cached stack page
\* that do not call it have none to find, and the age check and breakLinks()
\* leave none that the guest under WHVP or restore() could have changed.  The
\* hypothesis is needed: serveICacheMiss() compares the stack page with the
\* first page of a trace only.
THEOREM CacheNoStaleCode == SplitFree => (Spec => []NoStaleCode)
<1>. SUFFICES ASSUME SplitFree PROVE Spec => []NoStaleCode
  OBVIOUS
<1>1. ASSUME CacheInv PROVE NoStaleCode
  <2>1. SUFFICES ASSUME pc = "exec", ic.pool[cur] # Dummy
                 PROVE  [ic.pool[cur] EXCEPT !.link = NoLink] = Decode(mem, rip)
    BY DEF NoStaleCode, Insn
  <2>2. ic \in Cache /\ mem \in [Address -> Bytes] /\ Runs(ic, mem, mapping, cur, rip)
    BY <1>1, <2>1, InvElim
  <2>. DEFINE x == ic.pool[cur]
  <2>3. x \in Decoded /\ x.pAddr = rip /\ x.bytes = Decode(mem, rip).bytes
    BY <2>1, <2>2, RunsAt
  <2>. HIDE DEF x
  <2>4. [x EXCEPT !.link = NoLink] = [pAddr |-> x.pAddr, bytes |-> x.bytes, link |-> NoLink]
    BY <2>3 DEF Decoded
  <2>5. Decode(mem, rip) = [pAddr |-> rip, bytes |-> Decode(mem, rip).bytes, link |-> NoLink]
    BY DEF Decode
  <2>. QED BY <2>3, <2>4, <2>5 DEF x
<1>. QED BY <1>1, CacheInvariant, PTL
=============================================================================
