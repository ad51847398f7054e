------------------------- MODULE DeviceStateProofs -------------------------
(***************************************************************************)
(* Proofs about the list of device states, the allocation of guest memory  *)
(* and restore(), for every set of parameters and number of blocks.        *)
(***************************************************************************)
EXTENDS DeviceState, FiniteSetTheorems, TLAPS

Region == [addr : Nat, len : Nat \ {0}, original : Seq(Byte)]
File == [there : BOOLEAN, host : [Addr -> Byte],
         blocks : [Block -> Block \cup {NoBlock}], ram : [Block -> {0, 1}]]

\* Types of everything but the list.
VarsInv ==
  /\ pc \in {"register", "load", "entry", "merge", "map", "run", "stop", "panic"}
  /\ pending \subseteq Params
  /\ host \in [Addr -> Byte]
  /\ blocks \in [Block -> Block \cup {NoBlock}]
  /\ ram \in [Block -> {0, 1}]
  /\ dirty \subseteq Block
  /\ ii \in Nat \ {0}
  /\ locked \in BOOLEAN /\ mapped \in BOOLEAN
  /\ file \in File
  /\ resumed \in [Addr -> Byte]
  /\ writes \in 0 .. MaxWrites

\* How the phases of a process go together.
FlowInv ==
  /\ pc \in {"load", "entry", "merge", "map", "run"} => pending = {}
  /\ pc \in {"register", "load"} => ~locked
  /\ pc \in {"merge", "map", "run"} => locked
  /\ pc \in {"load", "merge"} => Snapshot
  /\ pc = "run" => mapped
  /\ mapped => locked

\* The bytes of the shadow parameters constructed so far.
Constructed == UNION {Span(p) : p \in {q \in Params \ pending : q.kind = "shadow"}}

Ends(s) == s.addr + s.len

\* No region of the list has its copy yet.
Uncopied == pc \in {"register", "load", "merge"} \/ (pc = "entry" /\ ~locked)

\* The list: regions that do not overlap and cover what has been constructed;
\* while they are merged, in ascending order and apart below ii.
ListInv ==
  /\ states \in Seq(Region)
  /\ \A k \in DOMAIN states : /\ Span(states[k]) \subseteq Addr
                              /\ Len(states[k].original) \in {0, states[k].len}
  /\ \A i, j \in DOMAIN states : i # j => Span(states[i]) \cap Span(states[j]) = {}
  /\ Saved = Constructed
  /\ Uncopied => \A k \in DOMAIN states : Len(states[k].original) = 0
  /\ pc = "merge" =>
       /\ ii <= Len(states)
       /\ \A i, j \in DOMAIN states : i < j => Ends(states[i]) <= states[j].addr
       /\ \A k \in 1 .. ii - 1 : Ends(states[k]) < states[k + 1].addr

\* Whether a snapshot session still has to copy its states, or has done so.
ToCopy == Snapshot /\ (pc = "merge" \/ (pc = "entry" /\ ~locked))
Copied == Snapshot /\ (pc \in {"map", "run"} \/ (pc = "entry" /\ locked))

\* The copy is what the guest was resumed with: what the snapshot's files gave
\* the variables, but for those computed anew.
CopyInv ==
  /\ ToCopy => host = resumed
  /\ ToCopy \/ Copied => \A a \in InTree \ Derived : resumed[a] = file.host[a]
  /\ Copied =>
       /\ \A k \in DOMAIN states :
            /\ Len(states[k].original) = states[k].len
            /\ \A j \in 1 .. states[k].len :
                 states[k].original[j] = resumed[states[k].addr + j - 1]
       /\ \A k \in 1 .. Len(states) - 1 : Ends(states[k]) < states[k + 1].addr

\* While blocks are still to be allocated, used_blocks is above all that are and
\* leaves room for the rest.
AllocInv ==
  /\ NoSharing
  /\ mapped => Unused = {}
  /\ Unused # {} => \A b \in Block : blocks[b] # NoBlock => blocks[b] < host[UsedAt]
  /\ Unused # {} => host[UsedAt] + Cardinality(Unused) = Blocks
  /\ Snapshot => /\ \A b \in Block : file.blocks[b] # NoBlock
                 /\ \A b, c \in Block : b # c => file.blocks[b] # file.blocks[c]

\* The inductive invariant of device states and memory blocks.
DeviceInv == VarsInv /\ FlowInv /\ ListInv /\ CopyInv /\ AllocInv

-----------------------------------------------------------------------------
(* Facts about the parameters.                                             *)

\* A registered parameter covers at least one byte of the device state.
LEMMA ParamOK ==
  ASSUME NEW p \in Params
  PROVE  p.addr \in Nat /\ p.len \in Nat \ {0} /\ Span(p) \subseteq Addr /\ Span(p) # {}
<1>1. p.addr \in Nat /\ p.len \in Nat \ {0} /\ Span(p) \subseteq Addr
  BY ParamsAssumption
<1>2. p.addr \in Span(p)
  BY <1>1 DEF Span
<1>. QED BY <1>1, <1>2

\* The memory system's counter is itself registered and tracked.
LEMMA UsedAtOK == UsedAt \in Addr /\ UsedAt \in Tracked /\ UsedAt \in InTree
<1>1. PICK p \in Params : p.kind = "shadow" /\ Span(p) = {UsedAt}
  BY ParamsAssumption
<1>. QED BY <1>1, ParamOK DEF Tracked, InTree

\* What is tracked was registered, and what was registered is device state.
LEMMA TrackedOK == Tracked \subseteq InTree /\ InTree \subseteq Addr
  BY ParamOK DEF Tracked, InTree

\* The sets of numbers the invariants range over.
LEMMA NumbersOK ==
  /\ Blocks \in Nat /\ Blocks >= 2 /\ 0 \in Block /\ NoBlock \notin Block
  /\ Block \subseteq Nat /\ Byte \subseteq Nat /\ 0 \in Byte /\ 1 \in Byte
  /\ IsFiniteSet(Block) /\ Cardinality(Block) = Blocks
<1>1. IsFiniteSet(0 .. Blocks - 1) /\ Cardinality(0 .. Blocks - 1) = Blocks
  BY SizeAssumption, FS_Interval
<1>. QED BY <1>1, SizeAssumption DEF Block, NoBlock, Byte

\* The fields of a saved region.
LEMMA RegionOK ==
  ASSUME NEW s \in Region
  PROVE  /\ s.addr \in Nat /\ s.len \in Nat \ {0} /\ s.original \in Seq(Byte)
         /\ Ends(s) \in Nat /\ s.addr < Ends(s)
  BY DEF Region, Ends

\* Two regions that do not overlap lie one after the other.
LEMMA ApartOK ==
  ASSUME NEW s \in Region, NEW t \in Region, Span(s) \cap Span(t) = {}, s.addr <= t.addr
  PROVE  Ends(s) <= t.addr
<1>1. s.addr \in Nat /\ s.len \in Nat \ {0} /\ t.addr \in Nat /\ t.len \in Nat \ {0}
  BY DEF Region
<1>2. t.addr \in Span(t)
  BY <1>1 DEF Span
<1>3. t.addr \notin s.addr .. s.addr + s.len - 1
  BY <1>2 DEF Span
<1>. QED BY <1>1, <1>3 DEF Ends

-----------------------------------------------------------------------------
(* The steps.                                                              *)

\* The invariant holds at the start.
LEMMA DeviceInit == Init => DeviceInv
<1>. SUFFICES ASSUME Init PROVE DeviceInv
  OBVIOUS
<1>. USE NumbersOK, SizeAssumption DEF Init
<1>1. file \in File /\ ~Snapshot
  BY DEF NoFile, File, Snapshot
<1>2. VarsInv
  BY <1>1 DEF VarsInv
<1>3. FlowInv
  BY DEF FlowInv
<1>4. ListInv
  BY DEF ListInv, Saved, Constructed
<1>5. CopyInv
  BY <1>1 DEF CopyInv, ToCopy, Copied
<1>6. AllocInv
  <2>1. Unused = Block /\ host[UsedAt] = 0
    BY UsedAtOK DEF Unused
  <2>. QED BY <1>1, <2>1 DEF AllocInv, NoSharing
<1>. QED BY <1>2, <1>3, <1>4, <1>5, <1>6 DEF DeviceInv

\* Where the run is says which lists are complete.
LEMMA FlowStep == DeviceInv /\ Next => FlowInv'
<1>. SUFFICES ASSUME DeviceInv, Next PROVE FlowInv'
  OBVIOUS
<1>0. FlowInv /\ VarsInv
  BY DEF DeviceInv
<1>. USE DEF FlowInv, Snapshot, VarsInv
<1>1. ASSUME NEW p \in Params, Register(p) PROVE FlowInv'
  BY <1>0, <1>1 DEF Register
<1>2. ASSUME NEW b \in Block, Touch(b) PROVE FlowInv'
  BY <1>0, <1>2 DEF Touch
<1>3. CASE Load
  BY <1>0, <1>3 DEF Load
<1>4. CASE Enter
  BY <1>0, <1>4 DEF Enter
<1>5. CASE Merge
  BY <1>0, <1>5 DEF Merge
<1>6. CASE Save
  BY <1>0, <1>6 DEF Save
<1>7. CASE MapMemory
  BY <1>0, <1>7 DEF MapMemory
<1>8. ASSUME NEW a \in Addr, NEW v \in {0, 1}, DeviceWrite(a, v) PROVE FlowInv'
  BY <1>0, <1>8 DEF DeviceWrite
<1>9. ASSUME NEW b \in Block, NEW v \in {0, 1}, GuestWrite(b, v) PROVE FlowInv'
  BY <1>0, <1>9 DEF GuestWrite
<1>10. CASE Longjmp \/ HotPlug \/ TakeSnapshot \/ Restart
  BY <1>0, <1>10 DEF Longjmp, HotPlug, TakeSnapshot, Restart
<1>11. CASE Restore
  BY <1>0, <1>11 DEF Restore
<1>. QED BY <1>1, <1>2, <1>3, <1>4, <1>5, <1>6, <1>7, <1>8, <1>9, <1>10, <1>11 DEF Next

\* The regions of the sorted list are those of the list.
LEMMA SortedOK ==
  ASSUME NEW s \in Seq(Region), NEW t \in Sorted(s)
  PROVE  \E p \in [DOMAIN s -> DOMAIN s] :
           /\ t = [k \in DOMAIN s |-> s[p[k]]]
           /\ \A i, j \in DOMAIN s : i # j => p[i] # p[j]
           /\ \A k \in DOMAIN s : \E i \in DOMAIN s : p[i] = k
           /\ \A i, j \in DOMAIN s : i < j => t[i].addr <= t[j].addr
  BY DEF Sorted, Bijection, Injection, Surjection, IsInjective

\* The list of saved regions stays sorted, separate and made of what was registered.
LEMMA ListStep == DeviceInv /\ Next => ListInv'
<1>. SUFFICES ASSUME DeviceInv, Next PROVE ListInv'
  OBVIOUS
<1>0. ListInv /\ FlowInv /\ VarsInv
  BY DEF DeviceInv
<1>1. ASSUME NEW p \in Params, Register(p) PROVE ListInv'
  <2>1. /\ pc = "register" /\ p \in pending /\ pending' = pending \ {p}
        /\ states' = IF p.kind = "shadow"
                     THEN Append(states, [addr |-> p.addr, len |-> p.len, original |-> <<>>])
                     ELSE states
        /\ pc' # "merge" /\ Uncopied
    BY <1>1 DEF Register, Uncopied
  <2>2. CASE p.kind # "shadow"
    <3>1. states' = states
      BY <2>1, <2>2
    <3>2. Constructed' = Constructed
      BY <2>1, <2>2 DEF Constructed
    <3>. QED BY <1>0, <2>1, <3>1, <3>2 DEF ListInv, Saved
  <2>3. CASE p.kind = "shadow"
    <3>. DEFINE r == [addr |-> p.addr, len |-> p.len, original |-> <<>>]
                n == Len(states)
    <3>1. r \in Region /\ Span(r) = Span(p) /\ Span(p) \subseteq Addr /\ Len(r.original) = 0
      BY ParamOK DEF Region, Span
    <3>2. states' = Append(states, r) /\ states \in Seq(Region) /\ n \in Nat
      BY <1>0, <2>1, <2>3 DEF ListInv
    <3>. HIDE DEF r
    <3>3. /\ states' \in Seq(Region) /\ Len(states') = n + 1 /\ DOMAIN states' = 1 .. n + 1
          /\ DOMAIN states = 1 .. n
          /\ states'[n + 1] = r
          /\ \A k \in 1 .. n : states'[k] = states[k]
      BY <3>1, <3>2
    <3>4. Constructed' = Constructed \cup Span(p)
      BY <2>1, <2>3 DEF Constructed, VarsInv
    <3>5. Span(p) \cap Constructed = {}
      BY <2>1, ParamsAssumption DEF Constructed
    <3>6. Saved' = Saved \cup Span(p)
      BY <3>1, <3>2, <3>3 DEF Saved
    <3>7. \A k \in 1 .. n : Span(states[k]) \cap Span(r) = {}
      BY <1>0, <3>1, <3>3, <3>5 DEF ListInv, Saved
    <3>8. ASSUME NEW i \in 1 .. n + 1, NEW j \in 1 .. n + 1, i # j
          PROVE  Span(states'[i]) \cap Span(states'[j]) = {}
      <4>1. CASE i = n + 1
        <5>1. j \in 1 .. n
          BY <3>2, <3>8, <4>1
        <5>. QED BY <3>3, <3>7, <4>1, <5>1
      <4>2. CASE j = n + 1
        <5>1. i \in 1 .. n
          BY <3>2, <3>8, <4>2
        <5>. QED BY <3>3, <3>7, <4>2, <5>1
      <4>3. CASE i # n + 1 /\ j # n + 1
        <5>1. i \in 1 .. n /\ j \in 1 .. n
          BY <3>2, <4>3
        <5>. QED BY <1>0, <3>3, <3>8, <5>1 DEF ListInv
      <4>. QED BY <4>1, <4>2, <4>3
    <3>9. ASSUME NEW k \in 1 .. n + 1
          PROVE  Span(states'[k]) \subseteq Addr /\ Len(states'[k].original) \in {0, states'[k].len}
      <4>1. CASE k = n + 1
        BY <3>1, <3>3, <4>1
      <4>2. CASE k # n + 1
        <5>1. k \in 1 .. n
          BY <3>2, <4>2
        <5>. QED BY <1>0, <3>3, <5>1 DEF ListInv
      <4>. QED BY <4>1, <4>2
    <3>10. Saved' = Constructed'
      BY <1>0, <3>4, <3>6 DEF ListInv
    <3>11. ASSUME NEW k \in 1 .. n + 1 PROVE Len(states'[k].original) = 0
      <4>1. CASE k = n + 1
        BY <3>1, <3>3, <4>1
      <4>2. CASE k # n + 1
        <5>1. k \in 1 .. n
          BY <3>2, <4>2
        <5>. QED BY <1>0, <2>1, <3>3, <5>1 DEF ListInv
      <4>. QED BY <4>1, <4>2
    <3>. HIDE DEF n
    <3>. QED BY <2>1, <3>3, <3>8, <3>9, <3>10, <3>11 DEF ListInv
  <2>. QED BY <2>2, <2>3
<1>2. CASE Enter
  <2>1. pc = "entry" /\ UNCHANGED pending /\ ii' = 1 /\ Constructed' = Constructed
    BY <1>2 DEF Enter, Constructed
  <2>2. CASE ~locked /\ Snapshot
    <3>1. states' \in Sorted(states) /\ (pc' = "merge" => states # <<>>)
      BY <1>2, <2>2 DEF Enter
    <3>. DEFINE D == DOMAIN states
    <3>2. states \in Seq(Region)
      BY <1>0 DEF ListInv
    <3>3. PICK p \in [D -> D] :
           /\ states' = [k \in D |-> states[p[k]]]
           /\ \A i, j \in D : i # j => p[i] # p[j]
           /\ \A k \in D : \E i \in D : p[i] = k
           /\ \A i, j \in D : i < j => states'[i].addr <= states'[j].addr
      BY <3>1, <3>2, SortedOK
    <3>4. /\ D = 1 .. Len(states) /\ Len(states) \in Nat
          /\ states' \in Seq(Region) /\ DOMAIN states' = D /\ Len(states') = Len(states)
      <4>1. D = 1 .. Len(states) /\ Len(states) \in Nat /\ \A k \in D : states[k] \in Region
        BY <3>2
      <4>2. states' \in [1 .. Len(states) -> Region]
        BY <3>3, <4>1
      <4>. QED BY <4>1, <4>2
    <3>5. \A k \in D : states'[k] = states[p[k]] /\ p[k] \in D
      BY <3>3
    <3>6. \A k \in D : Span(states'[k]) \subseteq Addr /\ Len(states'[k].original) \in {0, states'[k].len}
      BY <1>0, <3>5 DEF ListInv
    <3>7. \A i, j \in D : i # j => Span(states'[i]) \cap Span(states'[j]) = {}
      BY <1>0, <3>3, <3>5 DEF ListInv
    <3>8. Saved' = Saved
      BY <3>3, <3>4, <3>5 DEF Saved
    <3>9. \A i, j \in D : i < j => Ends(states'[i]) <= states'[j].addr
      <4>1. ASSUME NEW i \in D, NEW j \in D, i < j PROVE Ends(states'[i]) <= states'[j].addr
        <5>1. states'[i] \in Region /\ states'[j] \in Region /\ i # j
          BY <3>4, <4>1
        <5>. QED BY <3>3, <3>7, <4>1, <5>1, ApartOK
      <4>. QED BY <4>1
    <3>10. pc' = "merge" => ii' <= Len(states')
      BY <2>1, <3>1, <3>2, <3>4
    <3>11. \A k \in 1 .. ii' - 1 : Ends(states'[k]) < states'[k + 1].addr
      BY <2>1
    <3>12. Saved' = Constructed'
      BY <1>0, <2>1, <3>8 DEF ListInv
    <3>13. \A k \in D : Len(states'[k].original) = 0
      BY <1>0, <2>1, <2>2, <3>5 DEF ListInv, Uncopied
    <3>. HIDE DEF D
    <3>. QED BY <3>4, <3>6, <3>7, <3>9, <3>10, <3>11, <3>12, <3>13 DEF ListInv
  <2>3. CASE ~(~locked /\ Snapshot)
    <3>1. states' = states /\ pc' \notin {"register", "load", "entry", "merge"}
      BY <1>2, <2>3 DEF Enter
    <3>. QED BY <1>0, <2>1, <3>1 DEF ListInv, Saved, Uncopied
  <2>. QED BY <2>2, <2>3
<1>3. CASE Merge
  <2>. DEFINE n == Len(states)
  <2>1. /\ pc = "merge" /\ pc' = "merge" /\ ii < n /\ UNCHANGED pending
        /\ states \in Seq(Region) /\ n \in Nat /\ DOMAIN states = 1 .. n
        /\ ii \in Nat /\ ii >= 1 /\ Constructed' = Constructed
    BY <1>0, <1>3 DEF Merge, ListInv, VarsInv, Constructed
  <2>2. \A k \in 1 .. n : /\ states[k] \in Region
                          /\ states[k].addr \in Nat /\ states[k].len \in Nat \ {0}
                          /\ Ends(states[k]) \in Nat
    <3>1. \A k \in 1 .. n : states[k] \in Region
      BY <2>1
    <3>. QED BY <3>1, RegionOK
  <2>3. \A i, j \in 1 .. n : i < j => Ends(states[i]) <= states[j].addr
    BY <1>0, <2>1 DEF ListInv
  <2>4. CASE ~Adjoins(states[ii], states[ii + 1])
    <3>1. ii' = ii + 1 /\ states' = states
      BY <1>3, <2>4 DEF Merge
    <3>2. Ends(states[ii]) < states[ii + 1].addr
      <4>1. ii \in 1 .. n /\ ii + 1 \in 1 .. n /\ ii < ii + 1
        BY <2>1
      <4>2. Ends(states[ii]) <= states[ii + 1].addr /\ Ends(states[ii]) # states[ii + 1].addr
        BY <2>3, <2>4, <4>1 DEF Adjoins, Ends
      <4>. QED BY <2>2, <4>1, <4>2
    <3>3. \A k \in 1 .. ii' - 1 : Ends(states'[k]) < states'[k + 1].addr
      <4>1. ASSUME NEW k \in 1 .. ii PROVE Ends(states[k]) < states[k + 1].addr
        <5>1. CASE k = ii
          BY <3>2, <5>1
        <5>2. CASE k # ii
          <6>1. k \in 1 .. ii - 1
            BY <2>1, <5>2
          <6>. QED BY <1>0, <2>1, <6>1 DEF ListInv
        <5>. QED BY <5>1, <5>2
      <4>2. ii' - 1 = ii
        BY <2>1, <3>1
      <4>. QED BY <3>1, <4>1, <4>2
    <3>4. ii' <= Len(states')
      BY <2>1, <3>1
    <3>. QED BY <1>0, <2>1, <3>1, <3>3, <3>4 DEF ListInv, Saved, Uncopied
  <2>5. CASE Adjoins(states[ii], states[ii + 1])
    <3>. DEFINE r == [states[ii] EXCEPT !.len = @ + states[ii + 1].len]
    <3>1. /\ ii' = ii
          /\ states' = [k \in 1 .. n - 1 |-> CASE k < ii -> states[k]
                                               [] k = ii -> [states[k] EXCEPT !.len = @ + states[k + 1].len]
                                               [] OTHER  -> states[k + 1]]
      BY <1>3, <2>4, <2>5 DEF Merge
    <3>2. ii \in 1 .. n - 1 /\ ii \in 1 .. n /\ ii + 1 \in 1 .. n
      BY <2>1
    <3>3. /\ r \in Region /\ r.addr = states[ii].addr /\ r.original = states[ii].original
          /\ r.len = states[ii].len + states[ii + 1].len
      <4>1. \A s \in Region, l \in Nat \ {0} :
               LET q == [s EXCEPT !.len = @ + l]
               IN  /\ q \in Region /\ q.addr = s.addr /\ q.original = s.original
                   /\ q.len = s.len + l
        BY DEF Region
      <4>. QED BY <2>2, <3>2, <4>1
    <3>4. Ends(r) = Ends(states[ii + 1]) /\ Span(r) = Span(states[ii]) \cup Span(states[ii + 1])
      <4>1. /\ states[ii].addr \in Nat /\ states[ii].len \in Nat \ {0}
            /\ states[ii + 1].addr \in Nat /\ states[ii + 1].len \in Nat \ {0}
        BY <2>2, <3>2
      <4>2. states[ii].addr + states[ii].len = states[ii + 1].addr
        BY <2>5 DEF Adjoins
      <4>. HIDE DEF r
      <4>3. Ends(r) = Ends(states[ii + 1])
        BY <3>3, <4>1, <4>2 DEF Ends
      <4>4. Span(r) = Span(states[ii]) \cup Span(states[ii + 1])
        BY <3>3, <4>1, <4>2 DEF Span
      <4>. QED BY <4>3, <4>4
    <3>. HIDE DEF r
    <3>5. ASSUME NEW k \in 1 .. n - 1
          PROVE  /\ k < ii => states'[k] = states[k] /\ k \in 1 .. n
                 /\ k = ii => states'[k] = r
                 /\ k > ii => states'[k] = states[k + 1] /\ k + 1 \in 1 .. n /\ k + 1 > ii + 1
      BY <2>1, <3>1, <3>2 DEF r
    <3>6. ASSUME NEW k \in 1 .. n - 1 PROVE states'[k] \in Region
      <4>1. k < ii \/ k = ii \/ k > ii
        BY <2>1
      <4>. QED BY <2>2, <3>3, <3>5, <4>1
    <3>7. states' \in Seq(Region) /\ Len(states') = n - 1 /\ DOMAIN states' = 1 .. n - 1
      <4>1. DOMAIN states' = 1 .. n - 1 /\ states' \in [1 .. n - 1 -> Region]
        BY <3>1, <3>6
      <4>2. n - 1 \in Nat
        BY <2>1
      <4>. QED BY <4>1, <4>2
    <3>. USE <2>1
    <3>8. \A i, j \in 1 .. n - 1 : i < j => Ends(states'[i]) <= states'[j].addr
      <4>1. ASSUME NEW i \in 1 .. n - 1, NEW j \in 1 .. n - 1, i < j
            PROVE  Ends(states'[i]) <= states'[j].addr
        <5>1. CASE j < ii
          BY <2>3, <3>5, <4>1, <5>1
        <5>2. CASE j = ii
          <6>1. i < ii /\ states'[i] = states[i] /\ i \in 1 .. n /\ states'[j].addr = states[ii].addr
            BY <3>3, <3>5, <4>1, <5>2
          <6>. QED BY <2>3, <3>2, <6>1
        <5>3. CASE j > ii /\ i < ii
          <6>1. i < j + 1
            BY <4>1
          <6>. QED BY <2>3, <3>5, <4>1, <5>3, <6>1
        <5>4. CASE j > ii /\ i = ii
          <6>1. states'[i] = r /\ states'[j] = states[j + 1] /\ j + 1 \in 1 .. n /\ ii + 1 < j + 1
            BY <3>5, <4>1, <5>4
          <6>2. Ends(states[ii + 1]) <= states[j + 1].addr
            BY <2>3, <3>2, <6>1
          <6>. QED BY <3>4, <6>1, <6>2
        <5>5. CASE j > ii /\ i > ii
          <6>1. i + 1 < j + 1
            BY <4>1
          <6>. QED BY <2>3, <3>5, <4>1, <5>5, <6>1
        <5>. QED BY <4>1, <5>1, <5>2, <5>3, <5>4, <5>5
      <4>. QED BY <4>1
    <3>9. \A i, j \in 1 .. n - 1 : i # j => Span(states'[i]) \cap Span(states'[j]) = {}
      <4>1. ASSUME NEW i \in 1 .. n - 1, NEW j \in 1 .. n - 1, i < j
            PROVE  Span(states'[i]) \cap Span(states'[j]) = {}
        <5>. DEFINE s == states'[i]
                    u == states'[j]
        <5>1. /\ s.addr \in Nat /\ s.len \in Nat /\ u.addr \in Nat /\ u.len \in Nat
              /\ s.addr + s.len <= u.addr
          BY <3>6, <3>8, <4>1 DEF Region, Ends
        <5>. HIDE DEF s, u
        <5>2. Span(s) \cap Span(u) = {}
          BY <5>1 DEF Span
        <5>. QED BY <5>2 DEF s, u
      <4>2. ASSUME NEW i \in 1 .. n - 1, NEW j \in 1 .. n - 1, i # j
            PROVE  Span(states'[i]) \cap Span(states'[j]) = {}
        <5>1. i < j \/ j < i
          BY <4>2
        <5>. QED BY <4>1, <5>1
      <4>. QED BY <4>2
    <3>10. Saved' = Saved
      <4>1. ASSUME NEW a \in Saved' PROVE a \in Saved
        <5>1. PICK k \in 1 .. n - 1 : a \in Span(states'[k])
          BY <3>7, <4>1 DEF Saved
        <5>. QED BY <3>2, <3>4, <3>5, <5>1 DEF Saved
      <4>2. ASSUME NEW a \in Saved PROVE a \in Saved'
        <5>1. PICK k \in 1 .. n : a \in Span(states[k])
          BY <4>2 DEF Saved
        <5>2. \E m \in 1 .. n - 1 : a \in Span(states'[m])
          <6>1. CASE k < ii
            <7>1. k \in 1 .. n - 1
              BY <6>1
            <7>. QED BY <3>5, <5>1, <6>1, <7>1
          <6>2. CASE k = ii \/ k = ii + 1
            BY <3>2, <3>4, <3>5, <5>1, <6>2
          <6>3. CASE k > ii + 1
            <7>1. k - 1 \in 1 .. n - 1 /\ k - 1 > ii /\ k - 1 + 1 = k
              BY <6>3
            <7>. QED BY <3>5, <5>1, <7>1
          <6>. QED BY <6>1, <6>2, <6>3
        <5>. QED BY <3>7, <5>2 DEF Saved
      <4>. QED BY <4>1, <4>2
    <3>11. \A k \in 1 .. n - 1 : Span(states'[k]) \subseteq Addr
      BY <1>0, <3>2, <3>4, <3>5 DEF ListInv
    <3>12. \A k \in 1 .. n - 1 : Len(states'[k].original) = 0
      BY <1>0, <3>2, <3>3, <3>5 DEF ListInv, Uncopied
    <3>13. \A k \in 1 .. ii - 1 : Ends(states'[k]) < states'[k + 1].addr
      <4>1. ASSUME NEW k \in 1 .. ii - 1 PROVE Ends(states'[k]) < states'[k + 1].addr
        <5>1. k \in 1 .. n - 1 /\ k + 1 \in 1 .. n - 1 /\ k < ii /\ k + 1 <= ii
          OBVIOUS
        <5>2. states'[k] = states[k]
          BY <3>5, <5>1
        <5>3. states'[k + 1].addr = states[k + 1].addr
          <6>1. CASE k + 1 < ii
            BY <3>5, <5>1, <6>1
          <6>2. CASE k + 1 = ii
            BY <3>3, <3>5, <5>1, <6>2
          <6>. QED BY <5>1, <6>1, <6>2
        <5>. QED BY <1>0, <5>2, <5>3 DEF ListInv
      <4>. QED BY <4>1
    <3>14. ii' <= Len(states') /\ ii' = ii
      BY <3>1, <3>7
    <3>15. Saved' = Constructed'
      BY <1>0, <3>10 DEF ListInv
    <3>. HIDE DEF n
    <3>. QED BY <3>7, <3>8, <3>9, <3>11, <3>12, <3>13, <3>14, <3>15 DEF ListInv
  <2>. QED BY <2>4, <2>5
<1>4. CASE Save
  <2>1. /\ pc = "merge" /\ pc' \in {"panic", "run", "map"} /\ UNCHANGED pending
        /\ Constructed' = Constructed /\ states \in Seq(Region)
    BY <1>0, <1>4 DEF Save, Constructed, ListInv
  <2>2. CASE states' = states
    BY <1>0, <2>1, <2>2 DEF ListInv, Saved, Uncopied
  <2>3. CASE states' # states
    <3>. DEFINE Copy(s) == [j \in 1 .. s.len |-> host[s.addr + j - 1]]
    <3>1. states' = [k \in DOMAIN states |-> [states[k] EXCEPT !.original = Copy(states[k])]]
      BY <1>4, <2>3 DEF Save
    <3>2. ASSUME NEW k \in DOMAIN states
          PROVE  /\ states'[k] \in Region
                 /\ states'[k].addr = states[k].addr /\ states'[k].len = states[k].len
                 /\ Len(states'[k].original) = states[k].len
      <4>. DEFINE s == states[k]
      <4>1. s \in Region /\ Span(s) \subseteq Addr
        BY <1>0, <2>1 DEF ListInv
      <4>2. s.addr \in Nat /\ s.len \in Nat
        BY <4>1 DEF Region
      <4>3. \A j \in 1 .. s.len : s.addr + j - 1 \in Span(s)
        <5>. HIDE DEF s
        <5>. QED BY <4>2 DEF Span
      <4>4. \A j \in 1 .. s.len : host[s.addr + j - 1] \in Byte
        BY <1>0, <4>1, <4>3 DEF VarsInv
      <4>. HIDE DEF s
      <4>5. Copy(s) \in [1 .. s.len -> Byte]
        BY <4>4
      <4>6. Copy(s) \in Seq(Byte) /\ Len(Copy(s)) = s.len
        <5>. HIDE DEF Copy
        <5>. QED BY <4>2, <4>5
      <4>. HIDE DEF Copy
      <4>7. states'[k] = [s EXCEPT !.original = Copy(s)]
        BY <3>1 DEF s
      <4>. QED BY <4>1, <4>6, <4>7 DEF Region, s
    <3>. HIDE DEF Copy
    <3>3. states' \in Seq(Region) /\ DOMAIN states' = DOMAIN states
      <4>1. DOMAIN states = 1 .. Len(states) /\ Len(states) \in Nat
        BY <2>1
      <4>2. DOMAIN states' = 1 .. Len(states) /\ states' \in [1 .. Len(states) -> Region]
        BY <3>1, <3>2, <4>1
      <4>. QED BY <4>1, <4>2
    <3>4. \A k \in DOMAIN states : Span(states'[k]) = Span(states[k])
      BY <3>2 DEF Span
    <3>5. Saved' = Saved
      BY <3>3, <3>4 DEF Saved
    <3>. QED BY <1>0, <2>1, <3>2, <3>3, <3>4, <3>5 DEF ListInv, Uncopied
  <2>. QED BY <2>2, <2>3
<1>5. CASE Restart
  BY <1>5 DEF Restart, ListInv, Saved, Constructed, Uncopied
<1>6. ASSUME UNCHANGED <<pending, states, locked>>, pc' # "merge", Uncopied' => Uncopied
      PROVE  ListInv'
  <2>1. Saved' = Saved /\ Constructed' = Constructed
    BY <1>6 DEF Saved, Constructed
  <2>. QED BY <1>0, <1>6, <2>1 DEF ListInv
<1>7. ASSUME NEW b \in Block, Touch(b) PROVE ListInv'
  BY <1>6, <1>7 DEF Touch, Uncopied
<1>8. CASE Load
  BY <1>0, <1>6, <1>8 DEF Load, Uncopied, FlowInv
<1>9. CASE MapMemory
  BY <1>6, <1>9 DEF MapMemory, Uncopied
<1>10. ASSUME NEW a \in Addr, NEW v \in {0, 1}, DeviceWrite(a, v) PROVE ListInv'
  BY <1>6, <1>10 DEF DeviceWrite, Uncopied
<1>11. ASSUME NEW b \in Block, NEW v \in {0, 1}, GuestWrite(b, v) PROVE ListInv'
  BY <1>6, <1>11 DEF GuestWrite, Uncopied
<1>12. CASE Longjmp \/ HotPlug \/ TakeSnapshot \/ Restore
  BY <1>0, <1>6, <1>12 DEF Longjmp, HotPlug, TakeSnapshot, Restore, Uncopied, FlowInv
<1>. QED BY <1>1, <1>2, <1>3, <1>4, <1>5, <1>7, <1>8, <1>9, <1>10, <1>11, <1>12 DEF Next

\* A region of the list gives back what the snapshot's files held.
LEMMA SavedOK ==
  ASSUME DeviceInv, pc = "run", Snapshot
  PROVE  Saved = Tracked /\ \A a \in Saved : SavedByte(a) = resumed[a]
<1>1. ListInv /\ CopyInv /\ FlowInv /\ Copied
  BY DEF DeviceInv, Copied
<1>2. Saved = Tracked
  BY <1>1 DEF ListInv, FlowInv, Constructed, Tracked
<1>3. ASSUME NEW a \in Saved PROVE SavedByte(a) = resumed[a]
  <2>. DEFINE k == CHOOSE k \in DOMAIN states : a \in Span(states[k])
  <2>1. k \in DOMAIN states /\ a \in Span(states[k])
    BY <1>3 DEF Saved
  <2>2. SavedByte(a) = states[k].original[a - states[k].addr + 1]
    BY DEF SavedByte
  <2>. HIDE DEF k
  <2>3. states[k] \in Region
    BY <1>1, <2>1 DEF ListInv
  <2>4. states[k].addr \in Nat /\ states[k].len \in Nat
    BY <2>3, RegionOK
  <2>. DEFINE j == a - states[k].addr + 1
  <2>5. j \in 1 .. states[k].len /\ states[k].addr + j - 1 = a
    BY <2>1, <2>4 DEF Span
  <2>6. states[k].original[j] = resumed[states[k].addr + j - 1]
    <3>. HIDE DEF j
    <3>. QED BY <1>1, <2>1, <2>5 DEF CopyInv
  <2>. QED BY <2>2, <2>5, <2>6
<1>. QED BY <1>2, <1>3

\* Blocks allocated in ascending order get different numbers.
LEMMA BelowOK ==
  ASSUME NEW S \in SUBSET Block
  PROVE  /\ IsFiniteSet(S) /\ Cardinality(S) \in Nat
         /\ \A b \in S : /\ Cardinality({c \in S : c < b}) \in Nat
                         /\ Cardinality({c \in S : c < b}) < Cardinality(S)
         /\ \A b, d \in S : b < d => Cardinality({c \in S : c < b}) < Cardinality({c \in S : c < d})
<1>1. IsFiniteSet(S) /\ Cardinality(S) \in Nat
  BY NumbersOK, FS_Subset, FS_CardinalityType
<1>. DEFINE L(b) == {c \in S : c < b}
<1>2. \A b \in S : L(b) \subseteq S /\ IsFiniteSet(L(b)) /\ Cardinality(L(b)) \in Nat
  BY <1>1, FS_Subset, FS_CardinalityType
<1>3. \A b \in S : b \in Nat
  BY NumbersOK
<1>4. ASSUME NEW b \in S PROVE Cardinality(L(b)) < Cardinality(S)
  <2>1. b \notin L(b)
    BY <1>3
  <2>2. L(b) # S
    BY <2>1
  <2>3. Cardinality(L(b)) <= Cardinality(S) /\ (Cardinality(L(b)) = Cardinality(S) => L(b) = S)
    BY <1>1, <1>2, FS_Subset
  <2>. HIDE DEF L
  <2>. QED BY <1>1, <1>2, <2>2, <2>3
<1>5. ASSUME NEW b \in S, NEW d \in S, b < d PROVE Cardinality(L(b)) < Cardinality(L(d))
  <2>1. b \notin L(b) /\ b \in L(d)
    BY <1>3, <1>5
  <2>2. L(b) \subseteq L(d)
    BY <1>3, <1>5
  <2>. HIDE DEF L
  <2>3. Cardinality(L(b)) <= Cardinality(L(d)) /\ (Cardinality(L(b)) = Cardinality(L(d)) => L(b) = L(d))
    BY <1>2, <2>2, FS_Subset
  <2>. QED BY <1>2, <2>1, <2>3
<1>. QED BY <1>1, <1>2, <1>4, <1>5

\* What creating the hypervisor does to the block table.
LEMMA MappedOK ==
  ASSUME DeviceInv, MapMemory
  PROVE  /\ blocks' \in [Block -> Block]
         /\ host' \in [Addr -> Byte]
         /\ \A b, c \in Block : b # c => blocks'[b] # blocks'[c]
<1>. DEFINE u == host[UsedAt]
            L(b) == Cardinality({c \in Unused : c < b})
            n == Cardinality(Unused)
<1>1. VarsInv /\ AllocInv
  BY DEF DeviceInv
<1>2. u \in Nat /\ u + n <= Blocks /\ Unused \subseteq Block
  BY <1>1, UsedAtOK, NumbersOK DEF VarsInv, MapMemory, Unused
<1>3. n \in Nat /\ \A b \in Unused : L(b) \in Nat /\ L(b) < n
  BY <1>2, BelowOK
<1>4. \A b, c \in Unused : b # c => L(b) # L(c)
  <2>1. \A b, c \in Unused : b < c => L(b) < L(c)
    BY <1>2, BelowOK
  <2>2. \A b, c \in Unused : b \in Nat /\ c \in Nat
    BY <1>2, NumbersOK
  <2>3. \A b, c \in Unused : b # c => b < c \/ c < b
    BY <2>2
  <2>. HIDE DEF L
  <2>. QED BY <1>3, <2>1, <2>3
<1>5. /\ blocks' = [b \in Block |-> IF b \in Unused THEN u + L(b) ELSE blocks[b]]
      /\ host' = [host EXCEPT ![UsedAt] = u + n]
  BY DEF MapMemory
<1>. HIDE DEF L, u, n
<1>6. \A b \in Unused : u + L(b) \in Block
  BY <1>2, <1>3, NumbersOK DEF Block
<1>7. \A b \in Block \ Unused : blocks[b] \in Block
  BY <1>1 DEF VarsInv, Unused
<1>8. blocks' \in [Block -> Block]
  BY <1>5, <1>6, <1>7
<1>9. u + n \in Byte
  BY <1>2, <1>3, NumbersOK DEF Byte
<1>10. host' \in [Addr -> Byte]
  BY <1>1, <1>5, <1>9 DEF VarsInv
<1>11. ASSUME NEW b \in Block, NEW c \in Block, b # c PROVE blocks'[b] # blocks'[c]
  <2>1. CASE b \in Unused /\ c \in Unused
    <3>1. blocks'[b] = u + L(b) /\ blocks'[c] = u + L(c) /\ L(b) # L(c)
      BY <1>4, <1>5, <1>11, <2>1
    <3>. QED BY <1>2, <1>3, <2>1, <3>1
  <2>2. ASSUME NEW d \in Unused, NEW e \in Block \ Unused PROVE blocks'[d] # blocks'[e]
    <3>1. blocks'[d] = u + L(d) /\ blocks'[e] = blocks[e]
      BY <1>2, <1>5, <2>2
    <3>2. blocks[e] < u
      BY <1>1, <2>2 DEF AllocInv, u, Unused
    <3>3. blocks[e] \in Nat
      BY <1>7, NumbersOK
    <3>. QED BY <1>2, <1>3, <3>1, <3>2, <3>3
  <2>3. CASE b \notin Unused /\ c \notin Unused
    BY <1>1, <1>5, <1>11, <2>3 DEF AllocInv, NoSharing, Unused
  <2>. QED BY <2>1, <2>2, <2>3
<1>. QED BY <1>8, <1>10, <1>11

\* What loading a snapshot leaves in Bochs' variables.
LEMMA LoadedOK ==
  ASSUME DeviceInv, Load
  PROVE  /\ host' \in [Addr -> Byte]
         /\ \A a \in InTree \ Derived : host'[a] = file.host[a]
<1>1. host \in [Addr -> Byte] /\ file.host \in [Addr -> Byte]
  BY DEF DeviceInv, VarsInv, File
<1>. DEFINE loaded == [a \in Addr |-> IF a \in InTree THEN file.host[a] ELSE host[a]]
<1>2. PICK anew \in [Derived -> {0, 1}] :
        host' = [a \in Addr |-> IF a \in Derived THEN anew[a] ELSE loaded[a]]
  BY DEF Load, AfterRestoreState
<1>. QED BY <1>1, <1>2, NumbersOK, TrackedOK

\* The remaining variables keep their types.
LEMMA VarsStep == DeviceInv /\ Next => VarsInv'
<1>. SUFFICES ASSUME DeviceInv, Next PROVE VarsInv'
  OBVIOUS
<1>0. VarsInv /\ ListInv /\ FlowInv
  BY DEF DeviceInv
<1>. USE DEF VarsInv
<1>1. ASSUME NEW p \in Params, Register(p) PROVE VarsInv'
  BY <1>0, <1>1 DEF Register
<1>2. ASSUME NEW b \in Block, Touch(b) PROVE VarsInv'
  <2>1. CASE host[UsedAt] < Blocks
    <3>1. host[UsedAt] \in Block /\ host[UsedAt] + 1 \in Byte
      BY <1>0, <2>1, UsedAtOK, NumbersOK DEF Block, Byte
    <3>2. blocks' = [blocks EXCEPT ![b] = host[UsedAt]] /\ host' = [host EXCEPT ![UsedAt] = host[UsedAt] + 1]
      BY <1>2, <2>1 DEF Touch
    <3>3. blocks' \in [Block -> Block \cup {NoBlock}] /\ host' \in [Addr -> Byte]
      BY <1>0, <3>1, <3>2
    <3>. QED BY <1>0, <1>2, <3>3 DEF Touch
  <2>2. CASE ~(host[UsedAt] < Blocks)
    BY <1>0, <1>2, <2>2 DEF Touch
  <2>. QED BY <2>1, <2>2
<1>3. CASE Load
  <2>0. host' \in [Addr -> Byte]
    BY <1>3, LoadedOK
  <2>1. /\ file.host \in [Addr -> Byte] /\ file.blocks \in [Block -> Block \cup {NoBlock}]
        /\ file.ram \in [Block -> {0, 1}]
    BY <1>0 DEF File
  <2>. QED BY <1>0, <1>3, <2>0, <2>1 DEF Load
<1>4. CASE Enter
  BY <1>0, <1>4 DEF Enter
<1>5. CASE Merge
  BY <1>0, <1>5 DEF Merge
<1>6. CASE Save
  BY <1>0, <1>6 DEF Save
<1>7. CASE MapMemory
  BY <1>0, <1>7, MappedOK DEF MapMemory
<1>8. ASSUME NEW a \in Addr, NEW v \in {0, 1}, DeviceWrite(a, v) PROVE VarsInv'
  <2>1. v \in Byte
    BY NumbersOK
  <2>2. host' \in [Addr -> Byte] /\ writes' \in 0 .. MaxWrites
    BY <1>0, <1>8, <2>1, SizeAssumption DEF DeviceWrite
  <2>. QED BY <1>0, <1>8, <2>2 DEF DeviceWrite
<1>9. ASSUME NEW b \in Block, NEW v \in {0, 1}, GuestWrite(b, v) PROVE VarsInv'
  <2>1. writes' \in 0 .. MaxWrites /\ dirty' \subseteq Block /\ ram' \in [Block -> {0, 1}]
    BY <1>0, <1>9, SizeAssumption DEF GuestWrite
  <2>. QED BY <1>0, <1>9, <2>1 DEF GuestWrite
<1>10. CASE Longjmp \/ HotPlug
  BY <1>0, <1>10 DEF Longjmp, HotPlug
<1>11. CASE Restore
  <2>1. file.host \in [Addr -> Byte] /\ file.ram \in [Block -> {0, 1}]
    BY <1>0 DEF File
  <2>2. \A a \in Saved : SavedByte(a) = resumed[a]
    BY <1>11, SavedOK DEF Restore
  <2>3. host' \in [Addr -> Byte]
    BY <1>0, <1>11, <2>1, <2>2 DEF Restore
  <2>. QED BY <1>0, <1>11, <2>1, <2>3 DEF Restore
<1>12. CASE TakeSnapshot
  BY <1>0, <1>12 DEF TakeSnapshot, File
<1>13. CASE Restart
  <2>1. host' \in [Addr -> Byte] /\ ram' \in [Block -> {0, 1}] /\ blocks' \in [Block -> Block \cup {NoBlock}]
    BY <1>13, NumbersOK DEF Restart
  <2>2. writes' \in 0 .. MaxWrites
    BY <1>13, SizeAssumption DEF Restart
  <2>3. /\ pc' = "register" /\ pending' = Params /\ dirty' = {} /\ ii' = 1
        /\ locked' = FALSE /\ mapped' = FALSE /\ file' = file
        /\ resumed' = host'
    BY <1>13 DEF Restart
  <2>4. file' \in File /\ locked' \in BOOLEAN /\ mapped' \in BOOLEAN /\ resumed' \in [Addr -> Byte]
    BY <1>0, <2>1, <2>3
  <2>5. /\ pc' \in {"register", "load", "entry", "merge", "map", "run", "stop", "panic"}
        /\ pending' \subseteq Params /\ dirty' \subseteq Block /\ ii' \in Nat \ {0}
    BY <2>3
  <2>. QED BY <2>1, <2>2, <2>4, <2>5
<1>. QED BY <1>1, <1>2, <1>3, <1>4, <1>5, <1>6, <1>7, <1>8, <1>9, <1>10, <1>11, <1>12, <1>13 DEF Next

\* The saved bytes stay those the guest was resumed with.
LEMMA CopyStep == DeviceInv /\ Next => CopyInv'
<1>. SUFFICES ASSUME DeviceInv, Next PROVE CopyInv'
  OBVIOUS
<1>0. VarsInv /\ ListInv /\ FlowInv /\ CopyInv
  BY DEF DeviceInv
<1>1. ASSUME UNCHANGED <<states, file, resumed>>, ~ToCopy', Copied' => Copied PROVE CopyInv'
  BY <1>0, <1>1 DEF CopyInv
<1>2. ASSUME NEW p \in Params, Register(p) PROVE CopyInv'
  BY <1>0, <1>2 DEF Register, CopyInv, ToCopy, Copied, Snapshot, FlowInv
<1>3. ASSUME NEW b \in Block, Touch(b) PROVE CopyInv'
  BY <1>1, <1>3 DEF Touch, ToCopy, Copied, Snapshot
<1>4. CASE Load
  <2>1. \A a \in InTree \ Derived : host'[a] = file.host[a]
    BY <1>4, LoadedOK
  <2>. QED BY <1>0, <1>4, <2>1 DEF Load, CopyInv, Copied, FlowInv
<1>5. CASE Enter
  <2>1. CASE ~locked /\ Snapshot
    BY <1>0, <1>5, <2>1 DEF Enter, CopyInv, ToCopy, Copied
  <2>2. CASE ~(~locked /\ Snapshot)
    BY <1>1, <1>5, <2>2 DEF Enter, ToCopy, Copied, Snapshot
  <2>. QED BY <2>1, <2>2
<1>6. CASE Merge
  BY <1>0, <1>6 DEF Merge, CopyInv, ToCopy, Copied, Snapshot
<1>7. CASE Save
  <2>1. pc = "merge" /\ pc' \in {"panic", "run", "map"} /\ UNCHANGED <<file, resumed, host, locked>> /\ ii >= Len(states)
    BY <1>7 DEF Save
  <2>2. \A i, j \in DOMAIN states : i # j => Span(states[i]) \cap Span(states[j]) = {}
    BY <1>0 DEF ListInv
  <2>. DEFINE Copy(s) == [j \in 1 .. s.len |-> host[s.addr + j - 1]]
  <2>3. states' = [k \in DOMAIN states |-> [states[k] EXCEPT !.original = Copy(states[k])]]
    BY <1>7, <2>2 DEF Save
  <2>4. Snapshot /\ ToCopy
    BY <1>0, <2>1 DEF FlowInv, ToCopy
  <2>5. /\ states \in Seq(Region) /\ Len(states) \in Nat /\ ii = Len(states)
        /\ DOMAIN states = 1 .. Len(states)
    BY <1>0, <2>1 DEF ListInv, VarsInv
  <2>6. ASSUME NEW k \in DOMAIN states
        PROVE  /\ states'[k].addr = states[k].addr /\ states'[k].len = states[k].len
               /\ Len(states'[k].original) = states[k].len
               /\ \A j \in 1 .. states[k].len : states'[k].original[j] = resumed[states[k].addr + j - 1]
    <3>. DEFINE s == states[k]
    <3>1. s \in Region /\ Span(s) \subseteq Saved
      BY <2>5 DEF Saved
    <3>2. s.addr \in Nat /\ s.len \in Nat
      BY <3>1, RegionOK
    <3>3. Saved \subseteq InTree
      BY <1>0 DEF ListInv, Constructed, InTree
    <3>. HIDE DEF s
    <3>4. \A j \in 1 .. s.len : s.addr + j - 1 \in Span(s)
      BY <3>2 DEF Span
    <3>5. \A j \in 1 .. s.len : Copy(s)[j] = resumed[s.addr + j - 1]
      BY <1>0, <2>4, <3>1, <3>3, <3>4 DEF CopyInv
    <3>6. \A j \in 1 .. s.len : host[s.addr + j - 1] \in Byte
      BY <1>0, <3>1, <3>3, <3>4, TrackedOK DEF VarsInv
    <3>7. Copy(s) \in [1 .. s.len -> Byte]
      BY <3>6
    <3>. HIDE DEF Copy
    <3>8. Len(Copy(s)) = s.len
      BY <3>2, <3>7
    <3>9. states'[k] = [s EXCEPT !.original = Copy(s)]
      BY <2>3 DEF s
    <3>10. /\ states'[k].addr = s.addr /\ states'[k].len = s.len /\ states'[k].original = Copy(s)
      BY <3>1, <3>9 DEF Region
    <3>. QED BY <3>5, <3>8, <3>10 DEF s
  <2>. HIDE DEF Copy
  <2>7. DOMAIN states' = DOMAIN states /\ Len(states') = Len(states)
    <3>1. DOMAIN states' = 1 .. Len(states)
      BY <2>3, <2>5
    <3>2. states' \in Seq(Region)
      BY <1>7, ListStep DEF ListInv
    <3>. QED BY <2>5, <3>1, <3>2
  <2>8. \A k \in 1 .. Len(states') - 1 : Ends(states'[k]) < states'[k + 1].addr
    <3>1. ASSUME NEW k \in 1 .. Len(states) - 1 PROVE Ends(states'[k]) < states'[k + 1].addr
      <4>1. k \in DOMAIN states /\ k + 1 \in DOMAIN states /\ k \in 1 .. ii - 1
        BY <2>5
      <4>2. Ends(states[k]) < states[k + 1].addr
        BY <1>0, <2>1, <4>1 DEF ListInv
      <4>3. Ends(states'[k]) = Ends(states[k]) /\ states'[k + 1].addr = states[k + 1].addr
        BY <2>6, <4>1 DEF Ends
      <4>. QED BY <4>2, <4>3
    <3>. QED BY <2>7, <3>1
  <2>9. ~ToCopy'
    BY <2>1 DEF ToCopy
  <2>10. \A a \in InTree \ Derived : resumed'[a] = (file.host)'[a]
    BY <1>0, <2>1, <2>4 DEF CopyInv
  <2>11. \A k \in DOMAIN states' :
           /\ Len(states'[k].original) = states'[k].len
           /\ \A j \in 1 .. states'[k].len :
                states'[k].original[j] = resumed'[states'[k].addr + j - 1]
    <3>1. resumed' = resumed
      BY <2>1
    <3>. QED BY <2>6, <2>7, <3>1
  <2>. QED BY <2>8, <2>9, <2>10, <2>11 DEF CopyInv
<1>8. CASE MapMemory
  BY <1>1, <1>8 DEF MapMemory, ToCopy, Copied, Snapshot
<1>9. ASSUME NEW a \in Addr, NEW v \in {0, 1}, DeviceWrite(a, v) PROVE CopyInv'
  BY <1>1, <1>9 DEF DeviceWrite, ToCopy, Copied, Snapshot
<1>10. ASSUME NEW b \in Block, NEW v \in {0, 1}, GuestWrite(b, v) PROVE CopyInv'
  BY <1>1, <1>10 DEF GuestWrite, ToCopy, Copied, Snapshot
<1>11. CASE Longjmp \/ HotPlug \/ Restore
  BY <1>0, <1>1, <1>11 DEF Longjmp, HotPlug, Restore, ToCopy, Copied, Snapshot, FlowInv
<1>12. CASE TakeSnapshot \/ Restart
  BY <1>12 DEF TakeSnapshot, Restart, CopyInv, ToCopy, Copied
<1>. QED BY <1>2, <1>3, <1>4, <1>5, <1>6, <1>7, <1>8, <1>9, <1>10, <1>11, <1>12 DEF Next

\* The block table and the counter of used blocks stay in agreement.
LEMMA AllocStep == DeviceInv /\ Next => AllocInv'
<1>. SUFFICES ASSUME DeviceInv, Next PROVE AllocInv'
  OBVIOUS
<1>0. VarsInv /\ FlowInv /\ AllocInv
  BY DEF DeviceInv
<1>1. ASSUME UNCHANGED <<blocks, file, mapped>>, host'[UsedAt] = host[UsedAt] \/ Unused = {} PROVE AllocInv'
  <2>1. Unused' = Unused
    BY <1>1 DEF Unused
  <2>. QED BY <1>0, <1>1, <2>1 DEF AllocInv, NoSharing, Snapshot
<1>2. ASSUME NEW p \in Params, Register(p) PROVE AllocInv'
  BY <1>1, <1>2 DEF Register
<1>3. ASSUME NEW b \in Block, Touch(b) PROVE AllocInv'
  <2>1. UNCHANGED <<file, mapped>> /\ b \in Unused
    BY <1>3 DEF Touch, Unused
  <2>2. CASE host[UsedAt] < Blocks
    <3>. DEFINE u == host[UsedAt]
    <3>1. u \in Nat /\ u # NoBlock
      <4>1. u \in Nat
        BY <1>0, UsedAtOK, NumbersOK DEF VarsInv
      <4>. QED BY <2>2, <4>1, NumbersOK DEF NoBlock
    <3>2. \A c \in Block : blocks[c] # NoBlock => blocks[c] < u /\ blocks[c] \in Nat
      BY <1>0, <2>1, NumbersOK DEF AllocInv, VarsInv
    <3>3. blocks' = [blocks EXCEPT ![b] = u] /\ host' = [host EXCEPT ![UsedAt] = u + 1]
      BY <1>3, <2>2 DEF Touch
    <3>4. host'[UsedAt] = u + 1
      BY <1>0, <3>3, UsedAtOK DEF VarsInv
    <3>5. \A c \in Block : blocks'[c] = IF c = b THEN u ELSE blocks[c]
      BY <1>0, <3>3 DEF VarsInv
    <3>. HIDE DEF u
    <3>6. \A c \in Block : blocks'[c] # NoBlock => blocks'[c] < u + 1
      BY <3>1, <3>2, <3>5
    <3>7. NoSharing'
      <4>1. ASSUME NEW c \in Block, NEW d \in Block, c # d, blocks'[c] # NoBlock
            PROVE  blocks'[c] # blocks'[d]
        <5>1. \A e \in Block : blocks[e] # u
          BY <3>1, <3>2
        <5>2. CASE c = b
          BY <3>5, <4>1, <5>1, <5>2
        <5>3. CASE d = b
          BY <3>5, <4>1, <5>1, <5>3
        <5>4. CASE c # b /\ d # b
          BY <1>0, <3>5, <4>1, <5>4 DEF AllocInv, NoSharing
        <5>. QED BY <5>2, <5>3, <5>4
      <4>. QED BY <4>1 DEF NoSharing
    <3>8. ~mapped
      BY <1>0, <2>1 DEF AllocInv
    <3>9. Unused' = Unused \ {b}
      BY <3>1, <3>5 DEF Unused
    <3>10. IsFiniteSet(Unused) /\ Cardinality(Unused) \in Nat
      BY BelowOK DEF Unused
    <3>11. Cardinality(Unused') = Cardinality(Unused) - 1
      BY <2>1, <3>9, <3>10, FS_RemoveElement
    <3>12. u + Cardinality(Unused) = Blocks
      BY <1>0, <2>1 DEF AllocInv, u
    <3>13. (u + 1) + Cardinality(Unused') = Blocks
      BY <3>1, <3>10, <3>11, <3>12
    <3>. QED BY <1>0, <2>1, <3>4, <3>6, <3>7, <3>8, <3>13 DEF AllocInv, Snapshot
  <2>3. CASE ~(host[UsedAt] < Blocks)
    BY <1>1, <1>3, <2>3 DEF Touch
  <2>. QED BY <2>2, <2>3
<1>4. CASE Load
  <2>1. blocks' = file.blocks /\ UNCHANGED <<file, mapped>> /\ Snapshot
    BY <1>0, <1>4 DEF Load, FlowInv
  <2>2. Unused' = {}
    BY <1>0, <2>1 DEF AllocInv, Unused
  <2>. QED BY <1>0, <2>1, <2>2 DEF AllocInv, NoSharing, Snapshot
<1>5. CASE Enter \/ Merge \/ Save \/ Longjmp \/ HotPlug
  BY <1>1, <1>5 DEF Enter, Merge, Save, Longjmp, HotPlug
<1>6. CASE MapMemory
  <2>1. UNCHANGED file
    BY <1>6 DEF MapMemory
  <2>2. Unused' = {}
    BY <1>6, MappedOK, NumbersOK DEF Unused
  <2>3. NoSharing'
    BY <1>6, MappedOK DEF NoSharing
  <2>. QED BY <1>0, <2>1, <2>2, <2>3 DEF AllocInv, Snapshot
<1>7. ASSUME NEW a \in Addr, NEW v \in {0, 1}, DeviceWrite(a, v) PROVE AllocInv'
  BY <1>0, <1>1, <1>7, UsedAtOK DEF DeviceWrite, VarsInv
<1>8. ASSUME NEW b \in Block, NEW v \in {0, 1}, GuestWrite(b, v) PROVE AllocInv'
  BY <1>1, <1>8 DEF GuestWrite
<1>9. CASE Restore
  BY <1>0, <1>1, <1>9 DEF Restore, FlowInv, AllocInv
<1>10. CASE TakeSnapshot
  <2>1. Unused = {} /\ UNCHANGED <<blocks, host, mapped>> /\ file'.blocks = blocks
    BY <1>0, <1>10 DEF TakeSnapshot, FlowInv, AllocInv
  <2>2. Unused' = {}
    BY <2>1 DEF Unused
  <2>3. \A b \in Block : blocks[b] # NoBlock
    BY <2>1 DEF Unused
  <2>. QED BY <1>0, <2>1, <2>2, <2>3 DEF AllocInv, NoSharing
<1>11. CASE Restart
  <2>1. blocks' = [b \in Block |-> NoBlock] /\ mapped' = FALSE /\ UNCHANGED file
    BY <1>11 DEF Restart
  <2>2. Unused' = Block /\ host'[UsedAt] = 0
    BY <1>11, <2>1, UsedAtOK DEF Restart, Unused
  <2>3. host'[UsedAt] + Cardinality(Unused') = Blocks
    BY <2>2, NumbersOK
  <2>. QED BY <1>0, <2>1, <2>3 DEF AllocInv, NoSharing, Snapshot
<1>. QED BY <1>2, <1>3, <1>4, <1>5, <1>6, <1>7, <1>8, <1>9, <1>10, <1>11 DEF Next

\* Every step keeps the invariant.
LEMMA DeviceStep == DeviceInv /\ [Next]_vars => DeviceInv'
<1>1. CASE Next
  BY <1>1, FlowStep, ListStep, VarsStep, CopyStep, AllocStep DEF DeviceInv
<1>2. CASE UNCHANGED vars
  <2>. SUFFICES ASSUME DeviceInv PROVE DeviceInv'
    BY <1>2
  <2>. USE <1>2 DEF vars, DeviceInv
  <2>1. VarsInv' /\ FlowInv'
    BY DEF VarsInv, FlowInv, Snapshot
  <2>2. ListInv'
    BY DEF ListInv, Saved, Constructed, Uncopied
  <2>3. CopyInv'
    BY DEF CopyInv, ToCopy, Copied, Snapshot
  <2>4. AllocInv'
    BY DEF AllocInv, NoSharing, Unused, Snapshot
  <2>. QED BY <2>1, <2>2, <2>3, <2>4
<1>. QED BY <1>1, <1>2

\* DeviceInv holds in every reachable state.
LEMMA DeviceAlways == Spec => []DeviceInv
  BY DeviceInit, DeviceStep, PTL DEF Spec
-----------------------------------------------------------------------------
(* The theorems.                                                           *)

\* The regions of the list stay inside Bochs' variables however many parameters
\* there are and in whatever order they were constructed, sorted and merged.
THEOREM DeviceTypeCorrect == Spec => []TypeOK
<1>1. DeviceInv => TypeOK
  <2>. SUFFICES ASSUME DeviceInv PROVE TypeOK
    OBVIOUS
  <2>1. VarsInv /\ ListInv
    BY DEF DeviceInv
  <2>2. \A k \in DOMAIN states : states[k] \in Region
    BY <2>1 DEF ListInv
  <2>3. \A k \in DOMAIN states : states[k].len > 0
    BY <2>2, RegionOK
  <2>4. file.there \in BOOLEAN
    BY <2>1 DEF VarsInv, File
  <2>. QED BY <2>1, <2>3, <2>4 DEF VarsInv, ListInv, TypeOK
<1>. QED BY <1>1, DeviceAlways, PTL

\* For every layout of the parameters, the list that the first entry of
\* bochs_cpu_loop() sorts, merges and copies in a snapshot session holds exactly
\* the registered bytes, in separate regions with a gap between any two.
THEOREM DeviceSavedExactly == Spec => []SavedExactly
<1>1. DeviceInv => SavedExactly
  <2>. SUFFICES ASSUME DeviceInv, pc = "run", Snapshot PROVE SavedExactly
    BY DEF SavedExactly
  <2>1. CopyInv /\ Copied
    BY DEF DeviceInv, Copied
  <2>2. Saved = Tracked
    BY SavedOK
  <2>. QED BY <2>1, <2>2 DEF SavedExactly, CopyInv, Ends
<1>. QED BY <1>1, DeviceAlways, PTL

\* allocate_block() never hands out host memory that another block has, whichever
\* blocks are touched before the hypervisor is created, and although restore()
\* sets used_blocks back and leaves the block table alone.
THEOREM DeviceNoSharing == Spec => []NoSharing
<1>1. DeviceInv => NoSharing
  BY DEF DeviceInv, AllocInv
<1>. QED BY <1>1, DeviceAlways, PTL

\* When the hypervisor is created there is host memory left for every block that
\* is still unused, so the walk over guest memory never meets the panic of
\* allocate_block(), which MapMemory leaves out.
THEOREM DeviceRoom == Spec => [](pc = "map" => host[UsedAt] + Cardinality(Unused) <= Blocks)
<1>1. DeviceInv => host[UsedAt] + Cardinality(Unused) <= Blocks
  <2>. SUFFICES ASSUME DeviceInv PROVE host[UsedAt] + Cardinality(Unused) <= Blocks
    OBVIOUS
  <2>1. host[UsedAt] \in 0 .. Blocks /\ Blocks \in Nat
    BY UsedAtOK, NumbersOK DEF DeviceInv, VarsInv, Byte
  <2>2. CASE Unused = {}
    <3>1. Cardinality(Unused) = 0
      BY <2>2, FS_EmptySet
    <3>. QED BY <2>1, <3>1
  <2>3. CASE Unused # {}
    BY <2>1, <2>3 DEF DeviceInv, AllocInv
  <2>. QED BY <2>2, <2>3
<1>. QED BY <1>1, DeviceAlways, PTL

\* restore() brings every registered byte back to the value the guest was
\* resumed with and touches no other, from every state a session can reach,
\* whatever bx_sr_after_restore_state() computes anew.
THEOREM DeviceRestoreExact == Spec => RestoreExact
<1>. DEFINE Step == Restore => /\ \A a \in Tracked : host'[a] = resumed[a]
                               /\ \A a \in Tracked \ Derived : host'[a] = file.host[a]
                               /\ \A a \in Addr \ Tracked : host'[a] = host[a]
<1>1. DeviceInv => Step
  <2>. SUFFICES ASSUME DeviceInv, Restore PROVE Step
    OBVIOUS
  <2>1. /\ pc = "run" /\ Snapshot
        /\ host' = [a \in Addr |-> IF a \in Saved THEN SavedByte(a) ELSE host[a]]
    BY DEF Restore
  <2>2. \A a \in Tracked \ Derived : resumed[a] = file.host[a]
    BY <2>1, TrackedOK DEF DeviceInv, CopyInv, Copied
  <2>. QED BY <2>1, <2>2, SavedOK, TrackedOK
<1>2. Spec => [][DeviceInv]_vars
  BY DeviceAlways, PTL
<1>. QED BY <1>1, <1>2, PTL DEF RestoreExact

-----------------------------------------------------------------------------
(* Guest memory.  When no optional RAM image lies above the first block,   *)
(* blocks are allocated in ascending order.                                *)

Identity(table) == \A b \in Block : table[b] = b

GuestInv ==
  /\ \A b \in Block : blocks[b] \in {NoBlock, b}
  /\ \/ Unused = {}
     \/ Unused = Block /\ host[UsedAt] = 0
     \/ Unused = Block \ {0} /\ host[UsedAt] = 1
  /\ Snapshot => Identity(file.blocks)
  /\ Snapshot /\ pc \in {"entry", "merge", "map", "run"} =>
       \A b \in Block \ dirty : ram[b] = file.ram[b]

\* Blocks mapped in ascending order after nothing else are mapped to themselves.
LEMMA AscendingOK ==
  ASSUME DeviceInv, GuestInv, MapMemory
  PROVE  Identity(blocks')
<1>1. blocks \in [Block -> Block \cup {NoBlock}]
  BY DEF DeviceInv, VarsInv
<1>2. blocks' = [b \in Block |->
                  IF b \in Unused THEN host[UsedAt] + Cardinality({c \in Unused : c < b})
                  ELSE blocks[b]]
  BY DEF MapMemory
<1>3. ASSUME NEW b \in Block PROVE blocks'[b] = b
  <2>1. b \in Nat /\ b < Blocks
    BY NumbersOK DEF Block
  <2>2. CASE b \notin Unused
    BY <1>2, <2>2 DEF GuestInv, Unused
  <2>3. CASE b \in Unused /\ Unused = Block /\ host[UsedAt] = 0
    <3>1. {c \in Block : c < b} = 0 .. b - 1
      BY <2>1, NumbersOK DEF Block
    <3>2. Cardinality(0 .. b - 1) = b
      BY <2>1, FS_Interval
    <3>3. blocks'[b] = 0 + Cardinality({c \in Block : c < b})
      BY <1>2, <2>3
    <3>4. blocks'[b] = 0 + b
      BY <3>1, <3>2, <3>3, Zenon
    <3>. QED BY <2>1, <3>4
  <2>4. CASE b \in Unused /\ Unused = Block \ {0} /\ host[UsedAt] = 1
    <3>1. {c \in Block \ {0} : c < b} = 1 .. b - 1
      BY <2>1, NumbersOK DEF Block
    <3>2. b > 0
      BY <2>1, <2>4
    <3>3. Cardinality(1 .. b - 1) = b - 1
      BY <2>1, <3>2, FS_Interval
    <3>4. blocks'[b] = 1 + Cardinality({c \in Block \ {0} : c < b})
      BY <1>2, <2>4
    <3>5. blocks'[b] = 1 + (b - 1)
      BY <3>1, <3>3, <3>4, Zenon
    <3>. QED BY <2>1, <3>5
  <2>. QED BY <2>2, <2>3, <2>4 DEF GuestInv
<1>. QED BY <1>3 DEF Identity

\* Every step keeps the invariant about the guest.
LEMMA GuestStep ==
  ASSUME OptRam \subseteq {0}, DeviceInv, GuestInv, [Next]_vars
  PROVE  GuestInv'
<1>0. VarsInv /\ FlowInv /\ AllocInv
  BY DEF DeviceInv
<1>1. ASSUME UNCHANGED <<blocks, file>>, host'[UsedAt] = host[UsedAt] \/ Unused = {},
             Snapshot /\ pc' \in {"entry", "merge", "map", "run"} =>
               \A b \in Block \ dirty' : ram'[b] = file.ram[b]
      PROVE  GuestInv'
  <2>1. Unused' = Unused
    BY <1>1 DEF Unused
  <2>. QED BY <1>1, <2>1 DEF GuestInv, Snapshot, Identity
<1>2. ASSUME UNCHANGED <<blocks, file, ram, dirty>>, host'[UsedAt] = host[UsedAt],
             Snapshot /\ pc' \in {"entry", "merge", "map", "run"} => pc \in {"entry", "merge", "map", "run"}
      PROVE  GuestInv'
  <2>1. Snapshot /\ pc' \in {"entry", "merge", "map", "run"} =>
               \A b \in Block \ dirty' : ram'[b] = file.ram[b]
    BY <1>2 DEF GuestInv
  <2>. QED BY <1>1, <1>2, <2>1
<1>3. ASSUME NEW p \in Params, Register(p) PROVE GuestInv'
  <2>1. Snapshot /\ pc' \in {"entry", "merge", "map", "run"} => pc \in {"entry", "merge", "map", "run"}
    BY <1>3 DEF Register
  <2>. QED BY <1>2, <1>3, <2>1 DEF Register
<1>4. ASSUME NEW b \in Block, Touch(b) PROVE GuestInv'
  <2>1. b \in Unused /\ pc = "register" /\ b = 0
    <3>1. b \in Unused
      BY <1>4 DEF Touch, Unused
    <3>. QED BY <1>0, <1>4, <3>1 DEF Touch, FlowInv, AllocInv
  <2>2. Unused = Block /\ host[UsedAt] = 0
    BY <2>1 DEF GuestInv
  <2>3. blocks' = [blocks EXCEPT ![0] = 0] /\ host' = [host EXCEPT ![UsedAt] = 1] /\ pc' = pc /\ UNCHANGED file
    BY <1>4, <2>1, <2>2, NumbersOK DEF Touch
  <2>4. host'[UsedAt] = 1
    BY <1>0, <2>3, UsedAtOK DEF VarsInv
  <2>5. \A c \in Block : blocks'[c] = IF c = 0 THEN 0 ELSE blocks[c]
    BY <1>0, <2>3 DEF VarsInv
  <2>6. Unused' = Block \ {0}
    BY <2>2, <2>5, NumbersOK DEF Unused
  <2>. QED BY <2>1, <2>3, <2>4, <2>5, <2>6 DEF GuestInv, Snapshot, Identity
<1>5. CASE Load
  <2>1. blocks' = file.blocks /\ UNCHANGED file /\ ram' = file.ram /\ Snapshot
    BY <1>0, <1>5 DEF Load, FlowInv
  <2>2. Identity(file.blocks) /\ Identity(blocks')
    BY <2>1 DEF GuestInv
  <2>3. Unused' = {}
    BY <2>2, NumbersOK DEF Unused, Identity
  <2>. QED BY <2>1, <2>2, <2>3 DEF GuestInv, Snapshot, Identity
<1>6. CASE Enter \/ Merge \/ Save \/ Longjmp \/ HotPlug
  BY <1>2, <1>6 DEF Enter, Merge, Save, Longjmp, HotPlug
<1>7. CASE MapMemory
  <2>1. UNCHANGED <<ram, dirty, file>> /\ pc = "map"
    BY <1>7 DEF MapMemory
  <2>2. Identity(blocks')
    BY <1>7, AscendingOK
  <2>3. Unused' = {}
    BY <2>2, NumbersOK DEF Unused, Identity
  <2>. QED BY <2>1, <2>2, <2>3 DEF GuestInv, Snapshot, Identity
<1>8. ASSUME NEW a \in Addr, NEW v \in {0, 1}, DeviceWrite(a, v) PROVE GuestInv'
  BY <1>0, <1>2, <1>8, UsedAtOK DEF DeviceWrite, VarsInv
<1>9. ASSUME NEW b \in Block, NEW v \in {0, 1}, GuestWrite(b, v) PROVE GuestInv'
  <2>1. /\ pc = "run" /\ ram' = [ram EXCEPT ![blocks[b]] = v] /\ dirty' = dirty \cup {b}
        /\ UNCHANGED <<host, blocks, file>> /\ blocks[b] = b
    BY <1>9 DEF GuestWrite, GuestInv
  <2>2. \A c \in Block \ dirty' : ram'[c] = ram[c]
    BY <1>0, <2>1 DEF VarsInv
  <2>3. Snapshot => \A c \in Block \ dirty' : ram'[c] = file.ram[c]
    BY <2>1, <2>2 DEF GuestInv
  <2>. QED BY <1>1, <2>1, <2>3
<1>10. CASE Restore
  <2>1. \A b \in Block \ dirty : ram[b] = file.ram[b]
    BY <1>10 DEF Restore, GuestInv
  <2>2. \A b \in Block : ram'[b] = file.ram[b]
    BY <1>10, <2>1 DEF Restore
  <2>3. Unused = {}
    BY <1>0, <1>10 DEF Restore, FlowInv, AllocInv
  <2>. QED BY <1>1, <1>10, <2>2, <2>3 DEF Restore
<1>11. CASE TakeSnapshot
  <2>1. Unused = {} /\ UNCHANGED <<blocks, host>> /\ file'.blocks = blocks /\ pc' = "stop"
    BY <1>0, <1>11 DEF TakeSnapshot, FlowInv, AllocInv
  <2>2. Unused' = {}
    BY <2>1 DEF Unused
  <2>3. Identity(blocks)
    BY <2>1 DEF GuestInv, Unused, Identity
  <2>. QED BY <2>1, <2>2, <2>3 DEF GuestInv, Identity
<1>12. CASE Restart
  <2>1. blocks' = [b \in Block |-> NoBlock] /\ host' = [a \in Addr |-> 0] /\ pc' = "register" /\ UNCHANGED file
    BY <1>12 DEF Restart
  <2>2. Unused' = Block /\ host'[UsedAt] = 0
    BY <2>1, UsedAtOK DEF Unused
  <2>. QED BY <2>1, <2>2 DEF GuestInv, Snapshot, Identity
<1>13. CASE UNCHANGED vars
  BY <1>2, <1>13 DEF vars
<1>. QED BY <1>3, <1>4, <1>5, <1>6, <1>7, <1>8, <1>9, <1>10, <1>11, <1>12, <1>13 DEF Next

\* restore() gives the guest the snapshot's memory for every number of blocks,
\* as long as optional RAM images stay within the first block: then every block
\* is backed by the host memory of its own index, which is how restore() finds it.
THEOREM DeviceGuestRestored == OptRam \subseteq {0} /\ Spec => GuestRestored
<1>. DEFINE Step == Restore => \A b \in Block : file.blocks[b] # NoBlock =>
                                 ram'[blocks'[b]] = file.ram[file.blocks[b]]
<1>. SUFFICES ASSUME OptRam \subseteq {0} PROVE Spec => GuestRestored
  OBVIOUS
<1>1. Init => GuestInv
  <2>. SUFFICES ASSUME Init PROVE GuestInv
    OBVIOUS
  <2>1. Unused = Block /\ host[UsedAt] = 0 /\ ~Snapshot /\ \A b \in Block : blocks[b] = NoBlock
    BY UsedAtOK DEF Init, Unused, Snapshot, NoFile
  <2>. QED BY <2>1 DEF GuestInv
<1>2. DeviceInv /\ GuestInv /\ [Next]_vars => GuestInv'
  BY GuestStep
<1>3. DeviceInv /\ GuestInv => Step
  <2>. SUFFICES ASSUME DeviceInv, GuestInv, Restore, NEW b \in Block
                PROVE  ram'[blocks'[b]] = file.ram[file.blocks[b]]
    OBVIOUS
  <2>1. pc = "run" /\ Snapshot /\ blocks' = blocks
    BY DEF Restore
  <2>2. Unused = {}
    BY <2>1 DEF DeviceInv, FlowInv, AllocInv
  <2>3. blocks[b] = b /\ file.blocks[b] = b
    BY <2>1, <2>2 DEF GuestInv, Unused, Identity
  <2>4. ram'[b] = file.ram[b]
    BY <2>1 DEF Restore, GuestInv
  <2>. QED BY <2>1, <2>3, <2>4
<1>. QED BY <1>1, <1>2, <1>3, DeviceAlways, PTL DEF Spec, GuestRestored
=============================================================================
