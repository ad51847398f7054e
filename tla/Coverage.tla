------------------------------ MODULE Coverage ------------------------------
(***************************************************************************)
(* Coverage by module and offset: report_coverage(), the cache of the      *)
(* module list it consults, the walk of the guest's list when the cache    *)
(* does not know an address (get_modlist() and its two halves), and the    *)
(* table of module ordinals.                                               *)
(*                                                                         *)
(* The lists belong to the guest: a circular doubly linked list per        *)
(* process and one for the kernel, changed by the guest's loader one store *)
(* at a time.  A report can come between any two of its stores, but the    *)
(* guest is stopped while a report is made.                                *)
(***************************************************************************)
EXTENDS Integers, Sequences, Functions

CONSTANTS
  Users,    \* module lists of processes
  Kernel,   \* the module list of the kernel
  Entries,  \* entries that can be linked into each list
  Entry,    \* of each entry: [info, base, len, sane]
  Initial,  \* the entries each list starts with, in order
  Code,     \* addresses executed in each context
  MaxOps    \* bound: changes to the lists

Lists == Users \cup {Kernel}
\* The head of a list.
Anchor == "head"
Nil == "none"
AllEntries == UNION {Entries[l] : l \in Lists}

\* The addresses of an entry's module, and that two modules can be loaded
\* together.  What an entry that is not sane says of its module is not read.
Extent(e) == Entry[e].base .. Entry[e].base + Entry[e].len - 1
Apart(d, e) == Entry[d].sane /\ Entry[e].sane => Extent(d) \cap Extent(e) = {}

ASSUME ListsAssumption ==
  /\ Kernel \notin Users
  /\ Nil \notin Lists
  /\ \A l \in Lists : /\ Anchor \notin Entries[l]
                      /\ Code[l] \subseteq Nat
  /\ \A e \in AllEntries : /\ Entry[e].base \in Nat
                           /\ Entry[e].len \in Nat \ {0}
                           /\ Entry[e].sane \in BOOLEAN
                           /\ Entry[e].info # Nil
  /\ \A d, e \in AllEntries : Entry[d].info = Entry[e].info => Entry[d].len = Entry[e].len

ASSUME InitialAssumption ==
  \A l \in Lists :
    /\ Initial[l] \in Seq(Entries[l])
    /\ \A i, j \in DOMAIN Initial[l] :
         i # j => Initial[l][i] # Initial[l][j] /\ Apart(Initial[l][i], Initial[l][j])

ASSUME OpsAssumption == MaxOps \in Nat

VARIABLES
  flinks,  \* of each list, the forward link of the head and of each entry
  tail,    \* of each list, the head's backward link
  op,      \* the loader's change in progress
  ops,     \* changes so far
  ctx,     \* whose code runs
  kml,     \* kernel_module_list is known
  cache,   \* module_list_cache
  ords,    \* ord_to_modinfo; an ordinal is an index
  cov,     \* the bits set in the coverage bitmaps, <<ordinal, offset>>
  pc,      \* "guest", "walk" or "hang"
  rip,     \* the address reported
  flink,   \* the walk's position
  ret,     \* the list it has built
  seen,    \* entries it has passed
  full,    \* the walk has skipped no entry but ones that are not sane
  source,  \* the list the cache is a true copy of, or Nil
  last     \* what the last report credited: [rip, info, off]

guest == <<flinks, tail, op, ops>>
walk == <<flink, ret, seen, full>>
coverageVars == <<guest, ctx, kml, cache, ords, cov, pc, rip, walk, source, last>>

NoOp == [kind |-> Nil, list |-> Kernel, entry |-> Anchor]
NoCredit == [rip |-> 0, info |-> Nil, off |-> 0]

\* The links of a list that holds the entries of sequence s.
Ring(s) == [e \in AllEntries \cup {Anchor} |->
              LET i == IF e = Anchor THEN 0
                       ELSE IF \E j \in DOMAIN s : s[j] = e
                            THEN CHOOSE j \in DOMAIN s : s[j] = e ELSE Len(s)
              IN  IF i < Len(s) THEN s[i + 1] ELSE Anchor]

\* No walk in progress.
Idle ==
  /\ flink' = Anchor
  /\ ret' = <<>>
  /\ seen' = {}

CoverageInit ==
  /\ flinks = [l \in Lists |-> Ring(Initial[l])]
  /\ tail = [l \in Lists |-> IF Initial[l] = <<>> THEN Anchor ELSE Initial[l][Len(Initial[l])]]
  /\ op = NoOp
  /\ ops = 0
  /\ ctx \in Lists
  /\ kml = FALSE
  /\ cache = <<>>
  /\ ords = <<>>
  /\ cov = {}
  /\ pc = "guest"
  /\ rip = 0
  /\ flink = Anchor
  /\ ret = <<>>
  /\ seen = {}
  /\ full = FALSE
  /\ source = Nil
  /\ last = NoCredit

-----------------------------------------------------------------------------
(* The guest.                                                              *)

\* The entries that the forward links of list l lead to: those in every set
\* that holds the head and with each node the next one; and what precedes one.
Linked(l) ==
  {e \in Entries[l] : \A s \in SUBSET (Entries[l] \cup {Anchor}) :
     Anchor \in s /\ (\A x \in s : flinks[l][x] \in s) => e \in s}
Before(l, e) == CHOOSE d \in Linked(l) \cup {Anchor} : flinks[l][d] = e

\* A change of list l makes a copy of it, and a credit given by it, obsolete.
Touches(l) ==
  /\ source' = IF source = l THEN Nil ELSE source
  /\ last' = NoCredit
  /\ UNCHANGED <<ctx, kml, cache, ords, cov, pc, rip, walk>>

\* InsertTailList(), up to the store that links the entry behind the old tail,
\* and its last store.  A module is loaded where no other is.
InsertLink(l, e) ==
  /\ pc = "guest" /\ op = NoOp /\ ops < MaxOps
  /\ e \in Entries[l] \ Linked(l)
  /\ \A d \in Linked(l) : Apart(d, e)
  /\ flinks' = [flinks EXCEPT ![l] = [@ EXCEPT ![e] = Anchor, ![tail[l]] = e]]
  /\ op' = [kind |-> "insert", list |-> l, entry |-> e]
  /\ ops' = ops + 1
  /\ UNCHANGED tail
  /\ Touches(l)

InsertEnd ==
  /\ pc = "guest" /\ op.kind = "insert"
  /\ tail' = [tail EXCEPT ![op.list] = op.entry]
  /\ op' = NoOp
  /\ UNCHANGED <<flinks, ops>>
  /\ Touches(op.list)

\* RemoveEntryList(): its two stores.
RemoveLink(l, e) ==
  /\ pc = "guest" /\ op = NoOp /\ ops < MaxOps
  /\ e \in Linked(l)
  /\ flinks' = [flinks EXCEPT ![l][Before(l, e)] = flinks[l][e]]
  /\ op' = [kind |-> IF e = tail[l] THEN "remove_tail" ELSE "remove",
            list |-> l, entry |-> Before(l, e)]
  /\ ops' = ops + 1
  /\ UNCHANGED tail
  /\ Touches(l)

RemoveEnd ==
  /\ pc = "guest" /\ op.kind \in {"remove", "remove_tail"}
  /\ tail' = IF op.kind = "remove_tail" THEN [tail EXCEPT ![op.list] = op.entry] ELSE tail
  /\ op' = NoOp
  /\ UNCHANGED <<flinks, ops>>
  /\ Touches(op.list)

\* A process switch, a system call or its return.
Switch(c) ==
  /\ pc = "guest"
  /\ c # ctx
  /\ ctx' = c
  /\ last' = NoCredit
  /\ UNCHANGED <<guest, kml, cache, ords, cov, pc, rip, walk, source>>

\* The periodic report of the CPU loop looks for the kernel's list, once, when
\* it happens to run in the kernel.
FindKernelModlist ==
  /\ pc = "guest"
  /\ ~kml
  /\ ctx = Kernel
  /\ kml' = TRUE
  /\ UNCHANGED <<guest, ctx, cache, ords, cov, pc, rip, walk, source, last>>

-----------------------------------------------------------------------------
(* report_coverage().                                                      *)

\* get_modoff(): the index of the nearest module at or below address a, if a is
\* inside it; 0 if there is none.  What the binary search finds on a list
\* sorted by base.
GetModoff(ml, a) ==
  LET below == {i \in DOMAIN ml : ml[i].base <= a}
      i     == CHOOSE i \in below : \A j \in below : j <= i
  IN  IF below # {} /\ (a = ml[i].base \/ a - ml[i].base < ml[i].len) THEN i ELSE 0

\* The report of address a ends with module list ml: a bit is set and the
\* report is credited to a module if ml knows one.
Credit(ml, a) ==
  LET i == GetModoff(ml, a)
  IN  /\ cov' = IF i = 0 THEN cov ELSE cov \cup {<<ml[i].ord, a - ml[i].base>>}
      /\ last' = IF i = 0 THEN [NoCredit EXCEPT !.rip = a]
                 ELSE [rip |-> a, info |-> ml[i].info, off |-> a - ml[i].base]

\* The cache knows the module.
ReportCached(a) ==
  /\ pc = "guest"
  /\ a \in Code[ctx]
  /\ GetModoff(cache, a) # 0
  /\ Credit(cache, a)
  /\ UNCHANGED <<guest, ctx, kml, cache, ords, pc, rip, walk, source>>

\* It does not, and the list to walk is not known or its head cannot be read:
\* the report is dropped.
ReportDropped(a) ==
  /\ pc = "guest"
  /\ a \in Code[ctx]
  /\ GetModoff(cache, a) = 0
  /\ last' = NoCredit
  /\ UNCHANGED <<guest, ctx, kml, cache, ords, cov, pc, rip, walk, source>>

\* It does not, and the walk of the current context's list begins.
ReportWalk(a) ==
  /\ pc = "guest"
  /\ a \in Code[ctx]
  /\ GetModoff(cache, a) = 0
  /\ ctx = Kernel => kml
  /\ rip' = a
  /\ flink' = flinks[ctx][Anchor]
  /\ ret' = <<>>
  /\ seen' = {}
  /\ full' = TRUE
  /\ pc' = "walk"
  /\ last' = NoCredit
  /\ UNCHANGED <<guest, ctx, kml, cache, ords, cov, source>>

\* Mutant of Ordinal: an ordinal is the module's place in the list.
OrdinalByPlace(info, os) == Len(ret) + 1

\* Mutant of Ordinal: an ordinal is the size of the table after the insertion.
OrdinalPastEnd(info, os) == Len(os) + 1

\* allocate_ordinal(): the ordinal of a module, given the table os it is in.
Ordinal(info, os) == CHOOSE i \in DOMAIN os : os[i] = info
WithOrdinal(info) ==
  IF \E i \in DOMAIN ords : ords[i] = info THEN ords ELSE Append(ords, info)

\* The walk ends behind the entry that was last when it began.
Ends == flink = tail[ctx]

\* Mutant of Finish: the list is cached as the guest links it.
FinishUnsorted(ml) ==
  /\ pc' = "guest"
  /\ cache' = ml
  /\ source' = IF full' /\ (op = NoOp \/ op.list # ctx) THEN ctx ELSE Nil
  /\ Credit(ml, rip)

\* sort_by_key(), by what it gives: the modules ml in the order of their bases.
SortedByBase(ml) ==
  {s \in {[k \in DOMAIN ml |-> ml[p[k]]] : p \in Bijection(DOMAIN ml, DOMAIN ml)} :
     \A i, j \in DOMAIN ml : i < j => s[i].base <= s[j].base}

\* The end of a walk that found modules ml: they are sorted by base, cached,
\* and the address is looked up again.
Finish(ml) ==
  \E sorted \in SortedByBase(ml) :
    /\ pc' = "guest"
    /\ cache' = sorted
    /\ source' = IF full' /\ (op = NoOp \/ op.list # ctx) THEN ctx ELSE Nil
    /\ Credit(sorted, rip)

\* What follows an entry, with ml found so far.
Advance(ml) ==
  /\ \/ /\ ~Ends
        /\ flink' = flinks[ctx][flink]
        /\ ret' = ml
        /\ seen' = seen \cup {flink}
        /\ UNCHANGED <<pc, cache, source, cov, rip, last>>
     \/ /\ Ends
        /\ Finish(ml)
        /\ Idle
        /\ rip' = 0
  /\ UNCHANGED <<guest, ctx, kml>>

Usable(e) == e # Anchor /\ Entry[e].sane

\* An entry that is added.
WalkAdd ==
  /\ pc = "walk" /\ flink \notin seen
  /\ Usable(flink)
  /\ LET e == Entry[flink]
     IN  /\ ords' = WithOrdinal(e.info)
         /\ UNCHANGED full
         /\ Advance(Append(ret, [info |-> e.info, base |-> e.base, len |-> e.len,
                                 ord |-> Ordinal(e.info, ords')]))

\* Mutant of WalkSkip: behind a skipped entry the end is not looked for.
WalkSkipOn ==
  /\ pc = "walk" /\ flink \notin seen
  /\ full' = (full /\ ~Usable(flink))
  /\ flink' = flinks[ctx][flink]
  /\ seen' = seen \cup {flink}
  /\ UNCHANGED <<guest, ctx, kml, cache, ords, cov, pc, rip, ret, source, last>>

\* An entry that is skipped: it does not look sane, or its name cannot be read.
\* The head is no entry; taken for one, it does not look sane.
WalkSkip ==
  /\ pc = "walk" /\ flink \notin seen
  /\ full' = (full /\ ~Usable(flink))
  /\ UNCHANGED ords
  /\ Advance(ret)

\* A part of the entry cannot be read: the walk is given up and the cache kept.
WalkFails ==
  /\ pc = "walk" /\ flink \notin seen
  /\ pc' = "guest"
  /\ Idle
  /\ full' = FALSE
  /\ rip' = 0
  /\ UNCHANGED <<guest, ctx, kml, cache, ords, cov, source, last>>

\* An entry seen before: nothing changes while the guest is stopped, so the
\* loop never ends.
WalkHangs ==
  /\ pc \in {"walk", "hang"}
  /\ pc = "walk" => flink \in seen
  /\ pc' = "hang"
  /\ UNCHANGED <<guest, ctx, kml, cache, ords, cov, rip, walk, source, last>>

CoverageNext ==
  \/ \E l \in Lists : \E e \in Entries[l] : InsertLink(l, e)
  \/ InsertEnd
  \/ \E l \in Lists : \E e \in Entries[l] : RemoveLink(l, e)
  \/ RemoveEnd
  \/ \E c \in Lists : Switch(c)
  \/ FindKernelModlist
  \/ \E a \in Code[ctx] : ReportCached(a)
  \/ \E a \in Code[ctx] : ReportDropped(a)
  \/ \E a \in Code[ctx] : ReportWalk(a)
  \/ WalkAdd
  \/ WalkSkip
  \/ WalkFails
  \/ WalkHangs

CoverageSpec == CoverageInit /\ [][CoverageNext]_coverageVars

-----------------------------------------------------------------------------
(* Properties.                                                             *)

\* Types.
TypeOK ==
  /\ op.kind \in {Nil, "insert", "remove", "remove_tail"}
  /\ ops \in 0 .. MaxOps
  /\ ctx \in Lists
  /\ kml \in BOOLEAN
  /\ \A i \in DOMAIN cache : cache[i].ord \in DOMAIN ords
  /\ \A c \in cov : c[1] \in DOMAIN ords /\ c[2] \in Nat
  /\ pc \in {"guest", "walk", "hang"}
  /\ flink \in AllEntries \cup {Anchor}
  /\ source \in Lists \cup {Nil}

\* An ordinal means one module for good: no module has two, a cached entry's
\* ordinal is its module's even after walks that were given up half way, and
\* every bit lies inside the bitmap report_coverage() sized for its module.
OrdinalsAgree ==
  /\ \A i, j \in DOMAIN ords : ords[i] = ords[j] => i = j
  /\ \A i \in DOMAIN cache : ords[cache[i].ord] = cache[i].info
  /\ \A c \in cov : \E e \in AllEntries : /\ Entry[e].info = ords[c[1]]
                                          /\ c[2] < Entry[e].len

\* The entry of list l whose module holds address a.
ModulesAt(l, a) == {e \in Linked(l) : Entry[e].sane /\ a \in Extent(e)}

\* While the cache is a true copy of the current context's list, a report is
\* credited to the module that holds the address, and to none only if none
\* does: what get_modoff(), the sort and the walk are together meant to give.
\* (A cache of another context's list is consulted all the same and may credit
\* a module the context does not have.)
CreditedRight ==
  last.rip # 0 /\ source = ctx =>
    IF last.info = Nil THEN ModulesAt(ctx, last.rip) = {}
    ELSE \E e \in ModulesAt(ctx, last.rip) :
           Entry[e].info = last.info /\ Entry[e].base + last.off = last.rip

\* The walk of the module list ends from every state the guest's loader can
\* leave the list in, except between the two stores that remove the last entry.
HangsOnlyIfTorn == pc = "hang" => op.kind = "remove_tail" /\ op.list = ctx
=============================================================================
