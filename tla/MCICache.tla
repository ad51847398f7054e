------------------------------ MODULE MCICache ------------------------------
(***************************************************************************)
(* Two pages of three lines.  Page 0 starts with a plain instruction and a *)
(* branch, so that a trace from 0 can take over the one from 1; page 1     *)
(* starts with a branch whose target depends on the address space and ends *)
(* with an instruction that continues on page 0.                           *)
(***************************************************************************)
EXTENDS ICache

MCOriginal == [a \in Address |->
                 CASE a \in {1, 3} -> "branch" [] a = 5 -> "wide" [] OTHER -> "plain"]

MCTarget == [s \in AddressSpaces |->
               [a \in Address |-> CASE a = 3 /\ s = "as1" -> 1
                                    [] a = 3 /\ s = "as2" -> 5
                                    [] OTHER -> 3]]

\* Both bytes at the start of page 0 by one store, which turns its branch into a
\* plain instruction; the branch of page 1.
MCWrites == {<<0, <<"plain", "plain">>>>, <<3, <<"plain">>>>}

=============================================================================
