------------------------------- MODULE ICache -------------------------------
(***************************************************************************)
(* Bochs' cache of decoded instructions and applepie's patch to it.        *)
(*                                                                         *)
(* Bochs decodes a run of instructions into a trace (serveICacheMiss),     *)
(* finds it again by physical address, lets a branch jump from one trace   *)
(* straight into another (linkTrace) and copies the tail of one trace into *)
(* another (mergeTraces).  Its own writes to memory find the traces they   *)
(* touch through a map of cache lines (pageWriteStampTable).  The guest    *)
(* under WHVP and restore() write memory without telling anyone: for them  *)
(* each entry carries an age, the number of context switches when it was   *)
(* built, and every step into Bochs breaks the links between traces.       *)
(*                                                                         *)
(* Pushes go through a cached translation of the stack page, which also    *)
(* remembers whether that page had lines in the map: if it had none, they  *)
(* do not look at the map.                                                 *)
(*                                                                         *)
(* Memory is a row of bytes.  "plain" and "branch" are instructions of one *)
(* byte, "wide" is the first byte of an instruction of MaxInsn = 2.  An    *)
(* address is physical; where a branch goes is a function of the address   *)
(* space.  The fetch mode (it selects among entries, never invalidates     *)
(* one) and the report of coverage are left out.                           *)
(***************************************************************************)
EXTENDS Integers, Sequences, FiniteSetsExt

CONSTANTS
  Pages,         \* physical pages
  PageLen,       \* bytes in a page
  LineLen,       \* bytes in a line of the write-stamp map (128)
  MaxTrace,      \* BX_MAX_TRACE_LENGTH (32)
  PoolLen,       \* BxICacheMemPool
  Slots,         \* BxICacheEntries, a multiple of the page size
  SplitEntries,  \* BX_ICACHE_PAGE_SPLIT_ENTRIES (8)
  MaxStamp,      \* the time stamp that makes breakLinks() start over (2^32-1)
  MaxSwitches,   \* bound: no VM run after so many switches
  AddressSpaces, \* values of CR3
  Target,        \* Target[as][a]: where the branch at a goes
  EntryPoints,   \* where an interrupt or an exit may leave RIP
  StackPages,    \* pages the stack may lie in
  Original,      \* memory at the snapshot
  Writes         \* the writes that happen: <<first address, bytes>>

MaxInsn == 2
Bytes == {"plain", "wide", "branch"}
Address == 0 .. Pages * PageLen - 1
Page(a) == a \div PageLen
Offset(a) == a % PageLen
Line(a) == Offset(a) \div LineLen
Lines == 0 .. (PageLen - 1) \div LineLen
Invalid == -1                        \* BX_ICACHE_INVALID_PHY_ADDRESS

ASSUME CacheAssumption ==
  /\ Pages \in Nat \ {0} /\ PageLen \in Nat \ {0, 1} /\ LineLen \in Nat \ {0}
  /\ PageLen % LineLen = 0
  /\ MaxTrace \in Nat \ {0, 1} /\ PoolLen \in Nat /\ PoolLen > MaxTrace
  /\ Slots \in Nat \ {0} /\ Slots % PageLen = 0
  /\ SplitEntries \in Nat \ {0}
  /\ MaxStamp \in Nat \ {0, 1} /\ MaxSwitches \in Nat

ASSUME GuestAssumption ==
  /\ Original \in [Address -> Bytes]
  /\ EntryPoints \subseteq Address
  /\ StackPages \subseteq 0 .. Pages - 1
  /\ Target \in [AddressSpaces -> [Address -> Address]]
  /\ \A w \in Writes : /\ w[1] \in Address
                       /\ w[2] \in UNION {[1 .. n -> Bytes] : n \in 1 .. MaxInsn}
                       /\ Offset(w[1]) + Len(w[2]) <= PageLen

VARIABLES
  pc,       \* "host", "device", "fetch", "exec", "end" (of a trace), "fault",
            \* "vm", "dispatch"
  mem,      \* guest memory
  rip, as,  \* the next instruction, CR3
  cur,      \* the place in the pool of the instruction being executed
  ic,       \* bxICache_c
  mapping,  \* fineGranularityMapping: lines of a page with cached code
  stack,    \* pAddrStackPage and whether espPageFineGranularityMapping # 0
  switches  \* hypervisor_context_switches

vars == <<pc, mem, rip, as, cur, ic, mapping, stack, switches>>

-----------------------------------------------------------------------------
(* bxICache_c: entries by hash of the address, the pool of instructions,   *)
(* the index of page-split traces and the time stamp of links.  An entry   *)
(* that is flushed forgets all of its fields, not only its address.        *)

NoEntry == [pAddr |-> Invalid, traceMask |-> {}, age |-> 0, tlen |-> 0, i |-> 0]
NoSplit == [ppf |-> Invalid, e |-> 0]
NoLink == [next |-> Invalid, stamp |-> 0]

\* genDummyICacheEntry(): BxEndTrace, which returns to the loop.
Dummy == [pAddr |-> Invalid, bytes |-> << >>, link |-> NoLink]

Hash(a) == a % Slots

\* flushICacheEntries().
FlushEntries(c) ==
  [c EXCEPT !.entry = [s \in DOMAIN @ |-> NoEntry],
            !.split = [k \in DOMAIN @ |-> NoSplit],
            !.nextSplit = 0,
            !.mpindex = 0,
            !.stamp = 0]

\* breakLinks(): it starts over when the stamp is used up.
Wraps(c) == c.stamp + 1 = MaxStamp
BreakLinks(c) == IF Wraps(c) THEN FlushEntries(c) ELSE [c EXCEPT !.stamp = @ + 1]

\* flushSMC() on the entries in slots S: their first instruction becomes a
\* dummy, so that whoever is linked to the trace returns.
FlushSMC(c, S) ==
  LET live == {s \in S : c.entry[s].pAddr # Invalid}
      dead == {c.entry[s].i : s \in live}
  IN [c EXCEPT !.entry = [s \in DOMAIN @ |->
                            IF s \in live THEN NoEntry ELSE @[s]],
               !.pool = [p \in DOMAIN @ |-> IF p \in dead THEN Dummy ELSE @[p]]]

\* handleSMC(): lines mask of page pg are about to change.  A trace in the page
\* starts in or before the last of them.
SplitHits(c, pg, mask) ==
  {k \in DOMAIN c.split : 0 \in mask /\ c.split[k].ppf = pg}

TraceHits(c, pg, mask) ==
  {s \in DOMAIN c.entry :
     /\ c.entry[s].pAddr # Invalid
     /\ Page(c.entry[s].pAddr) = pg
     /\ Line(c.entry[s].pAddr) <= Max(mask)
     /\ c.entry[s].traceMask \cap mask # {}}

HandleSMC(c, pg, mask) ==
  LET b == BreakLinks(c)
      splits == SplitHits(b, pg, mask)
      d == [FlushSMC(b, {b.split[k].e : k \in splits}) EXCEPT
              !.split = [k \in DOMAIN @ |->
                           IF k \in splits THEN NoSplit ELSE @[k]]]
  IN IF Wraps(c) THEN b ELSE FlushSMC(d, TraceHits(d, pg, mask))

\* Mutant of FindEntry: the age is not compared.
FindEntryAnyAge(c, a) == c.entry[Hash(a)].pAddr = a

\* find_entry(): the address must match, and the age (applepie's check).
FindEntry(c, a) ==
  /\ c.entry[Hash(a)].pAddr = a
  /\ c.entry[Hash(a)].age = switches

\* Mutant of AllocTrace: no room for the inserted end of the trace.
AllocTraceTight(c) == IF c.mpindex + MaxTrace > PoolLen THEN FlushEntries(c) ELSE c

\* alloc_trace(): room for a whole trace and its end, or a fresh start.
AllocTrace(c) == IF c.mpindex + MaxTrace + 1 > PoolLen THEN FlushEntries(c) ELSE c

-----------------------------------------------------------------------------
(* Decoding.                                                               *)

ILen(m, a) == IF m[a] = "wide" THEN MaxInsn ELSE 1

\* The page after the one of a; the last page is followed by the first.
NextAddress(a, n) == (a + n) % (Pages * PageLen)

Decode(m, a) ==
  [pAddr |-> a,
   bytes |-> [n \in 1 .. ILen(m, a) |-> m[NextAddress(a, n - 1)]],
   link |-> NoLink]

\* An instruction that continues on the next page.
PageSplit(m, a) == Offset(a) + ILen(m, a) > PageLen

\* mergeTraces(): the trace cached for address a is appended to the n
\* instructions decoded so far, if that is not too long.
Mergeable(c, a, n) ==
  /\ PageLen - Offset(a) >= MaxInsn
  /\ FindEntry(c, a)
  /\ c.entry[Hash(a)].tlen + n <= MaxTrace

\* One round of the loop of serveICacheMiss(): t is the trace so far, its
\* instructions, lines and the address reached.
Round(c, m, t) ==
  LET x == t.at
      len == ILen(m, x)
      y == NextAddress(x, len)
      longer == [t EXCEPT !.ins = Append(@, Decode(m, x)),
                          !.mask = @ \cup {Line(x), Line(x + len - 1)},
                          !.at = y]
      e == c.entry[Hash(y)]
  IN IF t.left THEN t
     ELSE IF PageSplit(m, x) THEN [t EXCEPT !.left = TRUE]
     ELSE IF m[x] = "branch" \/ Offset(x) + len = PageLen THEN [longer EXCEPT !.left = TRUE]
     ELSE IF Mergeable(c, y, Len(longer.ins))
     THEN [longer EXCEPT !.ins = @ \o [k \in 1 .. e.tlen |-> c.pool[e.i + k - 1]],
                         !.mask = @ \cup e.traceMask,
                         !.left = TRUE, !.merged = TRUE]
     ELSE longer

Trace(c, m, a) ==
  LET Rounds[n \in 0 .. MaxTrace] ==
        IF n = 0
        THEN [ins |-> << >>, mask |-> {}, at |-> a, left |-> FALSE, merged |-> FALSE]
        ELSE Round(c, m, Rounds[n - 1])
      t == Rounds[MaxTrace]
  IN IF t.merged THEN t ELSE [t EXCEPT !.ins = Append(@, Dummy)]

\* Mutant of Commit: the inserted end of the trace is not counted.
CommitShort(c, a, ins, mask) ==
  [c EXCEPT !.pool = [p \in DOMAIN @ |->
                        IF p \in c.mpindex .. c.mpindex + Len(ins) - 1
                        THEN ins[p - c.mpindex + 1] ELSE @[p]],
            !.entry[Hash(a)] = [pAddr |-> a, traceMask |-> mask, age |-> switches,
                                tlen |-> Len(ins), i |-> c.mpindex],
            !.mpindex = @ + Len(ins) - 1]

\* Instructions ins go into the pool at mpindex, and address a gets an entry.
Commit(c, a, ins, mask) ==
  [c EXCEPT !.pool = [p \in DOMAIN @ |->
                        IF p \in c.mpindex .. c.mpindex + Len(ins) - 1
                        THEN ins[p - c.mpindex + 1] ELSE @[p]],
            !.entry[Hash(a)] = [pAddr |-> a, traceMask |-> mask, age |-> switches,
                                tlen |-> Len(ins), i |-> c.mpindex],
            !.mpindex = @ + Len(ins)]

\* commit_page_split_trace(): the oldest of the page-split traces gives way.  It
\* may sit in the same slot as the new one, which is then executed but not kept.
CommitSplit(c, a, ppf) ==
  LET old == c.split[c.nextSplit]
      free == IF old.ppf = Invalid THEN c ELSE [c EXCEPT !.entry[old.e].pAddr = Invalid]
  IN [free EXCEPT !.split[c.nextSplit] = [ppf |-> ppf, e |-> Hash(a)],
                  !.nextSplit = (@ + 1) % SplitEntries]

\* serveICacheMiss(): the new cache, and the lines it marks.
SecondPage(m, a) == Page(NextAddress(a, ILen(m, a) - 1))

ServeMiss(c, m, a) ==
  LET room == AllocTrace(c)
      t == Trace(room, m, a)
  IN IF PageSplit(m, a)
     THEN CommitSplit(Commit(room, a, <<Decode(m, a), Dummy>>, {Max(Lines)}),
                      a, SecondPage(m, a))
     ELSE Commit(room, a, t.ins, t.mask)

Marks(c, m, a) ==
  IF PageSplit(m, a)
  THEN {<<Page(a), Max(Lines)>>, <<SecondPage(m, a), 0>>}
  ELSE {Page(a)} \X Trace(AllocTrace(c), m, a).mask

\* boundaryFetch() faults on the second page: the entry keeps the complement of
\* its address, and a place of the pool that was not taken.
FailedMiss(c, a) ==
  LET room == AllocTrace(c)
  IN [room EXCEPT !.entry[Hash(a)] = [pAddr |-> -1 - a, traceMask |-> {}, age |-> switches,
                                      tlen |-> 1, i |-> room.mpindex]]

-----------------------------------------------------------------------------
(* Writes.                                                                 *)

Written(w) == [a \in Address |->
                 IF a \in w[1] .. w[1] + Len(w[2]) - 1 THEN w[2][a - w[1] + 1] ELSE mem[a]]

\* decWriteStamp() for lines mask of page pg, before the bytes change.
Cached(pg, mask) == \E l \in mask : <<pg, l>> \in mapping
DecWriteStamp(pg, mask) ==
  IF Cached(pg, mask)
  THEN /\ ic' = HandleSMC(ic, pg, mask)
       /\ mapping' = mapping \ ({pg} \X mask)
  ELSE UNCHANGED <<ic, mapping>>

\* The lines a store of w touches.
StoreMask(w) == {Line(w[1]), Line(w[1] + Len(w[2]) - 1)}

\* A store by the emulated CPU, and whether it asks the running trace to stop.
Store(w) == DecWriteStamp(Page(w[1]), StoreMask(w)) /\ mem' = Written(w)
Stops(w) == Cached(Page(w[1]), StoreMask(w))

\* invalidate_stack_cache(): the next access to the stack looks its page up.  A
\* write that goes around the cached page looks at the map.
NoStack == [page |-> Invalid, stamped |-> TRUE]

\* stackPrefetch().
StackPrefetch(pg) == [page |-> pg, stamped |-> \E l \in Lines : <<pg, l>> \in mapping]

\* What a push into page pg may find: no writable translation, a new one, or
\* the cached one.
StackFor(pg) == {NoStack, StackPrefetch(pg)} \cup {s \in {stack} : s.page = pg}

\* stack_write_*() of w through s.
StackWrite(w, s) ==
  /\ Page(w[1]) \in StackPages
  /\ stack' = s
  /\ mem' = Written(w)
  /\ IF s.stamped THEN DecWriteStamp(Page(w[1]), StoreMask(w)) ELSE UNCHANGED <<ic, mapping>>

StackStops(w, s) == s.stamped /\ Stops(w)

-----------------------------------------------------------------------------
(* Actions.                                                                *)

Init ==
  /\ pc = "host"
  /\ mem = Original
  /\ rip \in {0}
  /\ as \in AddressSpaces
  /\ cur = 0
  /\ ic = [entry |-> [s \in 0 .. Slots - 1 |-> NoEntry],
           pool |-> [p \in 0 .. PoolLen - 1 |-> Dummy],
           split |-> [k \in 0 .. SplitEntries - 1 |-> NoSplit],
           nextSplit |-> 0, mpindex |-> 0, stamp |-> 0]
  /\ mapping = {}
  /\ stack = NoStack
  /\ switches = 0

\* step_device() and step_cpu() flush the TLB first, with it the links and the
\* stack page.
TlbFlush == ic' = BreakLinks(ic) /\ stack' = NoStack

StepDevice ==
  /\ pc = "host"
  /\ TlbFlush
  /\ pc' = "device"
  /\ UNCHANGED <<mem, rip, as, cur, mapping, switches>>

StepCpu ==
  /\ pc = "host"
  /\ TlbFlush
  /\ pc' = "fetch"
  /\ UNCHANGED <<mem, rip, as, cur, mapping, switches>>

\* Both return; step_cpu() between two traces.
StepReturn ==
  /\ pc \in {"device", "fetch"}
  /\ pc' = "host"
  /\ UNCHANGED <<mem, rip, as, cur, ic, mapping, stack, switches>>

\* A device writes memory by DMA: the whole page is stamped.
DmaWrite ==
  /\ pc = "device"
  /\ \E w \in Writes : DecWriteStamp(Page(w[1]), Lines) /\ mem' = Written(w)
  /\ UNCHANGED <<pc, rip, as, cur, stack, switches>>

\* Delivering an interrupt pushes a frame, before a device step or a trace.  So
\* does delivering an exception, which then leaves step_cpu() by longjmp.
PushFrame ==
  /\ pc \in {"device", "fetch", "fault"}
  /\ \E w \in Writes : \E s \in StackFor(Page(w[1])) : StackWrite(w, s)
  /\ rip' \in EntryPoints
  /\ pc' = IF pc = "fault" THEN "host" ELSE pc
  /\ UNCHANGED <<as, cur, switches>>

\* A miss drops the stack page if it is the page of the first byte.
MissStack == stack' = IF stack.page = Page(rip) THEN NoStack ELSE stack

\* getICacheEntry().
GetEntry ==
  IF FindEntry(ic, rip)
  THEN UNCHANGED <<ic, mapping, stack>>
  ELSE /\ ic' = ServeMiss(ic, mem, rip)
       /\ mapping' = mapping \cup Marks(ic, mem, rip)
       /\ MissStack

Fetch ==
  /\ pc = "fetch"
  /\ GetEntry
  /\ cur' = ic'.entry[Hash(rip)].i
  /\ pc' = "exec"
  /\ UNCHANGED <<mem, rip, as, switches>>

\* step_cpu() asks for the entry after the trace once more, and drops it.
FetchAgain ==
  /\ pc = "end"
  /\ GetEntry
  /\ pc' = "fetch"
  /\ UNCHANGED <<mem, rip, as, cur, switches>>

\* The second half of an instruction is on a page that is not present.
FetchFault ==
  /\ pc \in {"fetch", "end"}
  /\ ~FindEntry(ic, rip)
  /\ PageSplit(mem, rip)
  /\ ic' = FailedMiss(ic, rip)
  /\ MissStack
  /\ pc' = "fault"
  /\ UNCHANGED <<mem, rip, as, cur, mapping, switches>>

Insn == ic.pool[cur]

\* The running instruction is no branch; RIP moves past it.
Straight ==
  /\ pc = "exec" /\ Insn # Dummy /\ Insn.bytes[1] # "branch"
  /\ rip' = NextAddress(rip, Len(Insn.bytes))

\* The trace is left for place p of the loop.
Leave(p) == pc' = p /\ cur' = 0

\* BxEndTrace().
ExecEnd ==
  /\ pc = "exec" /\ Insn = Dummy
  /\ Leave("end")
  /\ UNCHANGED <<mem, rip, as, ic, mapping, stack, switches>>

\* BX_NEXT_INSTR().
ExecPlain ==
  /\ Straight
  /\ cur' = cur + 1
  /\ UNCHANGED <<pc, mem, as, ic, mapping, stack, switches>>

\* The same, with a store; a store into cached code ends the trace.
ExecStore ==
  /\ Straight
  /\ \E w \in Writes :
       /\ Store(w)
       /\ IF Stops(w) THEN Leave("fetch") ELSE cur' = cur + 1 /\ UNCHANGED pc
  /\ UNCHANGED <<as, stack, switches>>

\* The same, with a push.
ExecPush ==
  /\ Straight
  /\ \E w \in Writes : \E s \in StackFor(Page(w[1])) :
       /\ StackWrite(w, s)
       /\ IF StackStops(w, s) THEN Leave("fetch") ELSE cur' = cur + 1 /\ UNCHANGED pc
  /\ UNCHANGED <<as, switches>>

\* A pop may look the stack page up, and a load of SS drops it.
ExecPop ==
  /\ Straight
  /\ stack' \in {NoStack} \cup {StackPrefetch(pg) : pg \in StackPages}
  /\ cur' = cur + 1
  /\ UNCHANGED <<pc, mem, as, ic, mapping, switches>>

\* MOV CR3 flushes the TLB and ends the trace.
ExecMovCR3 ==
  /\ Straight
  /\ as' \in AddressSpaces
  /\ TlbFlush
  /\ Leave("end")
  /\ UNCHANGED <<mem, mapping, switches>>

\* INVD: flushICaches().
ExecInvd ==
  /\ Straight
  /\ ic' = FlushEntries(ic)
  /\ mapping' = {}
  /\ Leave("fetch")
  /\ UNCHANGED <<mem, as, stack, switches>>

\* An exception leaves the trace.
ExecFault ==
  /\ pc = "exec" /\ Insn # Dummy
  /\ Leave("fault")
  /\ UNCHANGED <<mem, rip, as, ic, mapping, stack, switches>>

\* The running instruction is a branch, and it is taken.
Branches ==
  /\ pc = "exec" /\ Insn # Dummy /\ Insn.bytes[1] = "branch"
  /\ rip' = Target[as][rip]

\* getNextTrace(): a link made before the links were broken is not followed.
Linked == Insn.link.next # Invalid /\ ic.stamp <= Insn.link.stamp

\* linkTrace(): into the linked trace, or into a cached one that becomes
\* linked, or back to the loop.  The depth of links, a timer that is due or a
\* pending event also lead back.
FollowLink ==
  /\ Branches /\ Linked
  /\ cur' = Insn.link.next
  /\ UNCHANGED <<pc, mem, as, ic, mapping, stack, switches>>

MakeLink ==
  /\ Branches /\ ~Linked
  /\ FindEntry(ic, rip')
  /\ cur' = ic.entry[Hash(rip')].i
  /\ ic' = [ic EXCEPT !.pool[cur].link = [next |-> cur', stamp |-> ic.stamp]]
  /\ UNCHANGED <<pc, mem, as, mapping, stack, switches>>

NoLinkTaken ==
  /\ Branches
  /\ Leave("end")
  /\ UNCHANGED <<mem, as, ic, mapping, stack, switches>>

\* A call pushes its return address first.
ExecCall ==
  /\ Branches
  /\ \E w \in Writes : \E s \in StackFor(Page(w[1])) :
       StackWrite(w, s) /\ Leave(IF StackStops(w, s) THEN "fetch" ELSE "end")
  /\ UNCHANGED <<as, switches>>

\* The guest under WHVP: its writes reach memory and nothing else.
VmEnter ==
  /\ pc = "host" /\ switches < MaxSwitches
  /\ pc' = "vm"
  /\ UNCHANGED <<mem, rip, as, cur, ic, mapping, stack, switches>>

VmWrite ==
  /\ pc = "vm"
  /\ \E w \in Writes : mem' = Written(w)
  /\ UNCHANGED <<pc, rip, as, cur, ic, mapping, stack, switches>>

\* set_context(): it counts the switch, and breaks the links as it flushes the
\* TLB.  Some arms of the dispatch call it again with a changed RIP.
SetContext ==
  /\ rip' \in EntryPoints
  /\ switches' = switches + 1
  /\ TlbFlush

VmExit ==
  /\ pc = "vm"
  /\ SetContext
  /\ as' \in AddressSpaces
  /\ pc' = "dispatch"
  /\ UNCHANGED <<mem, cur, mapping>>

Recommit ==
  /\ pc = "dispatch"
  /\ SetContext
  /\ pc' = "host"
  /\ UNCHANGED <<mem, as, cur, mapping>>

\* restore(), after an exit: pages get their contents back.
Restore ==
  /\ pc = "dispatch"
  /\ \E P \in SUBSET (0 .. Pages - 1) :
       mem' = [a \in Address |-> IF Page(a) \in P THEN Original[a] ELSE mem[a]]
  /\ UNCHANGED <<pc, rip, as, cur, ic, mapping, stack, switches>>

Dispatched ==
  /\ pc = "dispatch"
  /\ pc' = "host"
  /\ UNCHANGED <<mem, rip, as, cur, ic, mapping, stack, switches>>

Next ==
  \/ StepDevice \/ StepCpu \/ StepReturn \/ DmaWrite \/ PushFrame
  \/ Fetch \/ FetchAgain \/ FetchFault
  \/ ExecEnd \/ ExecPlain \/ ExecStore \/ ExecPush \/ ExecPop \/ ExecMovCR3
  \/ ExecInvd \/ ExecFault
  \/ FollowLink \/ MakeLink \/ NoLinkTaken \/ ExecCall
  \/ VmEnter \/ VmWrite \/ VmExit \/ Recommit \/ Restore \/ Dispatched

Spec == Init /\ [][Next]_vars

-----------------------------------------------------------------------------
(* Properties.                                                             *)

\* The places of a trace in the pool.
Extent(e) == e.i .. e.i + e.tlen - 1
Valid(s) == ic.entry[s].pAddr \in Address

\* The byte before a page of the stack, and programs in which no instruction
\* continues onto one.
BeforeStack(a) == Offset(a) = PageLen - 1 /\ Page(NextAddress(a, 1)) \in StackPages
SplitFree ==
  \A a \in Address : BeforeStack(a) =>
    /\ Original[a] # "wide"
    /\ \A w \in Writes : \A k \in 1 .. Len(w[2]) : w[1] + k - 1 = a => w[2][k] # "wide"

\* Every place of the loop keeps within the pool: a trace with its end, merged
\* tails included, never runs past the memory alloc_trace() set aside.
TypeOK ==
  /\ pc \in {"host", "device", "fetch", "exec", "end", "fault", "vm", "dispatch"}
  /\ mem \in [Address -> Bytes]
  /\ rip \in Address /\ as \in AddressSpaces
  /\ cur \in 0 .. PoolLen - 1
  /\ ic.mpindex \in 0 .. PoolLen
  /\ ic.stamp \in 0 .. MaxStamp - 1
  /\ ic.nextSplit \in 0 .. SplitEntries - 1
  /\ mapping \subseteq (0 .. Pages - 1) \X Lines
  /\ stack \in [page : StackPages \cup {Invalid}, stamped : BOOLEAN]
  /\ switches \in 0 .. MaxSwitches + 1

\* Whatever path led to it (a lookup, a link, a merged tail, the next place of a
\* trace), the instruction about to be executed is the one at RIP and was
\* decoded from the bytes that are in memory now, although the CPU, the devices,
\* the guest under WHVP and restore() all write memory.
NoStaleCode ==
  pc = "exec" /\ Insn # Dummy => [Insn EXCEPT !.link = NoLink] = Decode(mem, rip)

\* Traces that can still be found do not share places of the pool, and lie
\* below the place where the next one goes: a new trace overwrites no old one.
TracesDisjoint ==
  \A s \in DOMAIN ic.entry : Valid(s) =>
    /\ Extent(ic.entry[s]) \subseteq 0 .. ic.mpindex - 1
    /\ \A r \in DOMAIN ic.entry \ {s} :
         Valid(r) => Extent(ic.entry[s]) \cap Extent(ic.entry[r]) = {}

=============================================================================
