--------------------------- MODULE MCContextSync ---------------------------
(***************************************************************************)
(* A guest that moves between all five modes, with both values of the CS   *)
(* RPL, checking alignment and using SIMD; in real and 64-bit mode also    *)
(* with CR0.TS set.                                                        *)
(***************************************************************************)
EXTENDS ContextSync

In(mode, rpl, simd) ==
  [pe |-> mode # "real", vm |-> mode = "v8086", lma |-> LongMode(mode),
   csl |-> mode = "long64", csd |-> mode = "protected", rpl |-> rpl,
   am |-> simd, ac |-> simd, ts |-> ~simd, em |-> FALSE,
   osfxsr |-> TRUE, osxsave |-> TRUE, xcr0 |-> TRUE]

MCControls ==
  {In(m, r, TRUE) : m \in {"real", "v8086", "protected", "compat", "long64"}, r \in {0, 3}}
    \cup {In(m, 0, FALSE) : m \in {"real", "long64"}}

\* Tag words: as reset() leaves them, all empty, and the one (up to the upper
\* registers) whose low byte is its abridged form.
MCTagWords ==
  {[r \in Reg |-> t] : t \in {1, 3}} \cup
  {[r \in Reg |-> CASE r = 0 -> 1 [] r = 1 -> 3 [] OTHER -> 0]}

=============================================================================
