--------------------------- MODULE MCGuestMemory ---------------------------
(***************************************************************************)
(* A guest of ten pages for TLC: page tables in pages 0 to 3, data in 4,   *)
(* 5 and 8, a device at 6, the BIOS window at 7 and a ROM at 9.            *)
(***************************************************************************)
EXTENDS GuestMemory

PcKind == [p \in 0 .. 9 |-> CASE p = 6 -> "mmio" [] p = 7 -> "bios" [] p = 9 -> "rom"
                              [] OTHER -> "ram"]

\* Bochs has touched nothing yet, or a later block first.
BlockOrders == {<<>>, <<1>>, <<2, 0>>}

Np == [present |-> FALSE, ps |-> FALSE, frame |-> 0]
To(f) == [present |-> TRUE, ps |-> FALSE, frame |-> f]
Large(f) == [present |-> TRUE, ps |-> TRUE, frame |-> f]

\* Data slots are told apart by their address.
Datum(a) == [present |-> FALSE, ps |-> FALSE, frame |-> a]

\* Tables with every kind of entry at every level that allows it, one that leads
\* outside of memory among them; PS in the last level is the PAT bit.
GuestTables ==
  {[a \in 0 .. 19 |-> CASE a = 0 -> To(1) [] a = 1 -> top
                        [] a = 2 -> To(2) [] a = 3 -> huge
                        [] a = 4 -> To(3) [] a = 5 -> big
                        [] a = 6 -> pte0  [] a = 7 -> pte1
                        [] OTHER -> Datum(a)] :
     top \in {Np, Large(1)}, huge \in {Np, Large(4)}, big \in {Np, To(3), Large(4), Large(8)},
     pte0 \in {Np, To(4), To(6), To(12)}, pte1 \in {To(5), Large(8), To(9)}}

\* CR3 without flag bits.
PlainCr3 == {0}
=============================================================================
