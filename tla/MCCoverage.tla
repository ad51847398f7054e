----------------------------- MODULE MCCoverage -----------------------------
(* An instance of Coverage: two processes that load the same module at     *)
(* different addresses, one with a module below it that was loaded later   *)
(* and one whose entry is not sane, the other with a module that can take  *)
(* its place, and a kernel with one module.                                *)
EXTENDS Coverage

entry(i, b, l, s) == [info |-> i, base |-> b, len |-> l, sane |-> s]

MCUsers == {"p", "q"}
MCKernel == "k"
MCEntries == [l \in Lists |-> CASE l = "p" -> {"p1", "p2", "p3"}
                                [] l = "q" -> {"q1", "q2"}
                                [] l = "k" -> {"k1"}]
MCEntry == [e \in AllEntries |-> CASE e = "p1" -> entry("A", 4, 2, TRUE)
                                   [] e = "p2" -> entry("B", 1, 2, TRUE)
                                   [] e = "p3" -> entry("C", 3, 1, FALSE)
                                   [] e = "q1" -> entry("A", 2, 2, TRUE)
                                   [] e = "q2" -> entry("B", 3, 2, TRUE)
                                   [] e = "k1" -> entry("N", 10, 1, TRUE)]
MCInitial == [l \in Lists |-> CASE l = "p" -> <<"p1", "p3", "p2">>
                                [] l = "q" -> <<"q1">>
                                [] l = "k" -> <<"k1">>]
MCCode == [l \in Lists |-> IF l = "k" THEN {10} ELSE {1, 3, 5}]
=============================================================================
