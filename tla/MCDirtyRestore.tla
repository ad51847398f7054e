--------------------------- MODULE MCDirtyRestore ---------------------------
(***************************************************************************)
(* A scaled-down PC for TLC: words of 2 pages, first-level bits of 4.  As  *)
(* on the real machine the low region ends in the middle of a word (160    *)
(* pages of conventional memory are 2.5 words); a framebuffer shorter than *)
(* a word follows, then ROM, which the hypervisor does not map; the high   *)
(* region and the linear framebuffer beyond RAM are aligned, and there is  *)
(* ROM at the very end of the bitmap.                                      *)
(***************************************************************************)
EXTENDS DirtyRestore

region(b, s, r) == [base |-> b, size |-> s, ram |-> r]
PcRegions == {region(0, 5, TRUE), region(5, 1, FALSE),
              region(8, 4, TRUE), region(12, 2, FALSE)}

\* VGA memory and ROM.
LegacyPages == 5 .. 7

\* RAM, ROM below 1 MiB and at the end of the bitmap, and an address too high.
CpuPages == {1, 6, 11, 15, 16}

\* RAM, the word of the low region that is cut off (page 4) and both
\* framebuffers.
VmPages == {1, 2, 4, 5, 8, 11, 13}

DmaPages   == {9, 15}
TouchPages == {11}
=============================================================================
