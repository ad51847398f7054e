----------------------------- MODULE MCCpuLoop -----------------------------
(***************************************************************************)
(* Instances of the CPU loop for TLC: the guests the runs are about.       *)
(***************************************************************************)
EXTENDS CpuLoop

\* One exit per arm that behaves differently.
MixedExits == {"MemoryAccess", "X64Halt", "X64Cpuid", "Exception",
               "MagicException", "Unhandled"}

CpuFaults == {"cpu"}
AllFaults == {"cpu", "device"}
HaltExits == {"X64Halt"}
NoExits == {}
=============================================================================
