---------------------------- MODULE ContextSync ----------------------------
(***************************************************************************)
(* The transfer of the processor state between Bochs and the hypervisor:   *)
(* get_context() and set_context() of main.cc.                             *)
(*                                                                         *)
(* Some sixty registers are copied as they are and left out.  What is kept *)
(* is what is converted, what is chosen by other state, what has no field  *)
(* in the context at all, and the state Bochs derives from registers       *)
(* (CPU mode, CPL, alignment mask, SSE/AVX permission, fetch mode), which  *)
(* set_context() has to bring up to date by hand.                          *)
(*                                                                         *)
(* `truth' is the state the guest would have on one processor: each engine *)
(* writes its own copy and truth alike, transfers leave truth alone.       *)
(***************************************************************************)
EXTENDS Integers, FiniteSets

CONSTANTS
  FpuRegs,   \* registers of the x87 stack (8)
  Controls,  \* the control states the guest can be in
  TagWords,  \* the x87 tag words a session can start with
  Values,    \* contents of registers
  MaxSteps   \* bound on the changes a guest makes in a behaviour

Reg == 0 .. FpuRegs - 1
Tag == 0 .. 3                \* valid, zero, special, empty
Rights == {"code", "data"}   \* access rights in the CS cache; "data" is present, read/write

\* CR0.PE, AM, TS, EM; EFLAGS.VM, AC; EFER.LMA; CS.L, CS.D and the low bits of
\* the CS selector; CR4.OSFXSR, OSXSAVE; XCR0 with SSE and YMM.
Control == [pe : BOOLEAN, am : BOOLEAN, ts : BOOLEAN, em : BOOLEAN,
            vm : BOOLEAN, ac : BOOLEAN, lma : BOOLEAN,
            csl : BOOLEAN, csd : BOOLEAN, rpl : {0, 3},
            osfxsr : BOOLEAN, osxsave : BOOLEAN, xcr0 : BOOLEAN]

\* States a processor can be in.
Legal(c) ==
  /\ c.lma => c.pe
  /\ c.vm => c.pe /\ ~c.lma
  /\ c.csl => c.lma /\ ~c.csd

ASSUME FpuAssumption == FpuRegs \in Nat \ {0} /\ FpuRegs % 2 = 0
ASSUME ControlAssumption == Controls \subseteq {c \in Control : Legal(c)}
ASSUME TagAssumption == TagWords \subseteq [Reg -> Tag]
ASSUME ValueAssumption == 0 \in Values /\ MaxSteps \in Nat

VARIABLES
  pc,     \* the engine that runs the guest: "bochs" or "vm"
  bochs,  \* BX_CPU_C
  hyp,    \* the virtual processor, as WHVP_CONTEXT_NAMES shows it
  truth,  \* the state one processor would have
  lost,   \* groups of registers a known gap of the transfer has hit
  steps   \* changes made so far

vars == <<pc, bochs, hyp, truth, lost, steps>>

Groups == {"ctl", "cs", "ptr", "tpr", "fpu", "tag", "ext"}

-----------------------------------------------------------------------------
(* What Bochs derives from the registers: cpu_mode, the RPL of the CS       *)
(* selector (which is the CPL), user_pl, alignment_check_mask, sse_ok,     *)
(* avx_ok and fetchModeMask.                                               *)

LongMode(mode) == mode \in {"long64", "compat"}
ProtectedMode(mode) == mode \in {"protected", "compat", "long64"}

CpuMode(c) ==
  IF c.lma THEN (IF c.csl THEN "long64" ELSE "compat")
  ELSE IF ~c.pe THEN "real" ELSE IF c.vm THEN "v8086" ELSE "protected"

\* Each handler changes some fields of the derived state d, from the registers c
\* and from what the other handlers left in d.
UpdateFetchModeMask(d, c) ==
  [d EXCEPT !.fetch = [avx_ok |-> d.avx_ok, sse_ok |-> d.sse_ok,
                       long64 |-> d.mode = "long64", d_b |-> c.csd],
            !.user_pl = (d.cpl = 3)]

HandleAlignmentCheck(d, c) == [d EXCEPT !.align = (d.cpl = 3 /\ c.am /\ c.ac)]

HandleSseModeChange(d, c) ==
  UpdateFetchModeMask([d EXCEPT !.sse_ok = (~c.ts /\ ~c.em /\ c.osfxsr)], c)

HandleAvxModeChange(d, c) ==
  UpdateFetchModeMask(
    [d EXCEPT !.avx_ok = (~c.ts /\ ProtectedMode(d.mode) /\ c.osxsave /\ c.xcr0)], c)

\* Real and virtual-8086 mode fix the CPL.
HandleCpuModeChange(d, c) ==
  LET mode == CpuMode(c)
      e == [d EXCEPT !.mode = mode,
                     !.cpl = CASE mode = "v8086" -> 3 [] mode = "real" -> 0 [] OTHER -> @]
  IN HandleAvxModeChange(UpdateFetchModeMask(e, c), c)

\* Mutant of Handlers: handleSseModeChange() is not called.
HandlersNoSse(d, c) ==
  HandleAvxModeChange(HandleCpuModeChange(HandleAlignmentCheck(d, c), c), c)

\* The calls at the end of set_context(), and of SetCR0(), where they come from.
Handlers(d, c) ==
  HandleAvxModeChange(
    HandleSseModeChange(HandleCpuModeChange(HandleAlignmentCheck(d, c), c), c), c)

\* What the registers mean, as the architecture has it.
Meaning(c) ==
  LET mode == CpuMode(c)
      cpl == CASE mode = "real" -> 0 [] mode = "v8086" -> 3 [] OTHER -> c.rpl
      sse == c.osfxsr /\ ~(c.ts \/ c.em)
      avx == c.pe /\ mode # "v8086" /\ c.osxsave /\ c.xcr0 /\ ~c.ts
  IN [mode |-> mode, cpl |-> cpl, user_pl |-> cpl = 3,
      align |-> c.am /\ c.ac /\ cpl = 3, sse_ok |-> sse, avx_ok |-> avx,
      fetch |-> [avx_ok |-> avx, sse_ok |-> sse, long64 |-> c.lma /\ c.csl, d_b |-> c.csd]]

\* handleCpuModeChange() in real mode: "CS segment in real mode always allows full
\* access".
CsCache(c, rights) == IF CpuMode(c) = "real" THEN "data" ELSE rights

-----------------------------------------------------------------------------
(* The x87.  st_space, tos and twd in Bochs; ST(i), TOP and a tag byte in  *)
(* the context, which has a bit for each register that is not empty.       *)

ST(f, i) == f.st_space[(f.tos + i) % FpuRegs]

\* The stack as an instruction sees it.  GET_FP_REG reads relative to tos and the
\* status word carries tos, so it is also what the context gets.
FpuView(f) == [top |-> f.tos, st |-> [i \in Reg |-> ST(f, i)]]

\* What the tags mean: an instruction tells only empty registers from others.
Abridged(twd) == [r \in Reg |-> twd[r] # 3]

\* FpTag gets the low byte of twd, two bits for each of the lower registers,
\* where the hypervisor reads a bit for each register.
GetTag(twd) == [r \in Reg |-> twd[r \div 2] \in (IF r % 2 = 0 THEN {1, 3} ELSE {2, 3})]

\* twd gets FpTag, zero-extended.
SetTag(tag) ==
  [r \in Reg |-> IF 2 * r + 1 < FpuRegs
                 THEN (IF tag[2 * r] THEN 1 ELSE 0) + (IF tag[2 * r + 1] THEN 2 ELSE 0)
                 ELSE 0]

\* SET_FP_REG writes st_space by number; tos is not written.
SetFpu(f, x, tag) == [st_space |-> x.st, tos |-> f.tos, twd |-> SetTag(tag)]

\* Mutant of Push: tos is not reduced modulo the number of registers.
PushNoMask(f, v) ==
  LET t == f.tos - 1
  IN [st_space |-> [f.st_space EXCEPT ![t] = v], tos |-> t, twd |-> [f.twd EXCEPT ![t] = 0]]

\* A value is pushed, by FPU_push() and FPU_save_regi(), and tagged valid.
Push(f, v) ==
  LET t == (f.tos - 1) % FpuRegs
  IN [st_space |-> [f.st_space EXCEPT ![t] = v], tos |-> t, twd |-> [f.twd EXCEPT ![t] = 0]]

\* FPU_pop(): the register becomes empty.
Pop(f) == [f EXCEPT !.twd[f.tos] = 3, !.tos = (@ + 1) % FpuRegs]

\* The same on a context, where the registers move.
PushView(x, v) == [top |-> (x.top - 1) % FpuRegs,
                   st |-> [i \in Reg |-> IF i = 0 THEN v ELSE x.st[i - 1]]]
PushTag(top, tag) == [tag EXCEPT ![(top - 1) % FpuRegs] = TRUE]

PopView(x) == [top |-> (x.top + 1) % FpuRegs,
               st |-> [i \in Reg |-> x.st[(i + 1) % FpuRegs]]]
PopTag(top, tag) == [tag EXCEPT ![top] = FALSE]

-----------------------------------------------------------------------------
(* The instruction and data pointers of the x87: a 64-bit offset in long   *)
(* mode, a 32-bit offset and a selector otherwise, in the same bytes of    *)
(* the context.  Only what those upper bytes hold is kept.                 *)

PtrView(b) == IF b.ctl.lma THEN b.fip ELSE b.fcs

\* get_context().
GetContext(b) ==
  [ctl |-> b.ctl, cs |-> b.cs, ptr |-> PtrView(b), cr8 |-> b.tpr[1],
   fpu |-> FpuView(b.fpu), tag |-> GetTag(b.fpu.twd)]

\* Mutant of SetPtr: the new EFER decides, but the selector is not written.
SetPtrNoSelector(b, c) ==
  IF c.ctl.lma THEN [fip |-> c.ptr, fcs |-> b.fcs] ELSE [fip |-> 0, fcs |-> b.fcs]

\* The layout is chosen by EFER.LMA, which is set only later.
SetPtr(b, c) ==
  IF b.ctl.lma THEN [fip |-> c.ptr, fcs |-> b.fcs] ELSE [fip |-> 0, fcs |-> c.ptr]

\* setEFlags() drops VM while Bochs is in long mode, which it still is when the
\* flags are copied, before CS, CR0 and EFER.
SetFlags(b, c) == [c.ctl EXCEPT !.vm = @ /\ ~LongMode(b.derived.mode)]

\* What it does to the derived state meanwhile: it knows only the new flags.
FlagHandlers(b, c) ==
  LET mid == [b.ctl EXCEPT !.vm = SetFlags(b, c).vm, !.ac = c.ctl.ac]
      d == HandleAlignmentCheck(b.derived, mid)
  IN IF mid.vm # b.ctl.vm THEN HandleCpuModeChange(d, mid) ELSE d

\* set_context(): the flags, then the segments (CS brings its RPL), then the rest,
\* and the handlers at the end.
SetContext(b, c) ==
  LET ctl == SetFlags(b, c)
      p == SetPtr(b, c)
      loaded == [FlagHandlers(b, c) EXCEPT !.cpl = ctl.rpl]
  IN [ctl |-> ctl, derived |-> Handlers(loaded, ctl), cs |-> CsCache(ctl, c.cs),
      fip |-> p.fip, fcs |-> p.fcs,
      tpr |-> <<c.cr8, 0>>,
      fpu |-> SetFpu(b.fpu, c.fpu, c.tag),
      ext |-> b.ext]

-----------------------------------------------------------------------------
(* Actions.                                                                *)

\* Every register holds 0; reset() tags them all "zero", FNINIT "empty", and a
\* snapshot can have any tags.
ZeroFpu(twd) == [st_space |-> [r \in Reg |-> 0], tos |-> 0, twd |-> twd]

Init ==
  /\ pc = "bochs"
  /\ \E c \in Controls, twd \in TagWords, rights \in Rights :
       LET f == ZeroFpu(twd)
           cs == CsCache(c, rights)
       IN /\ bochs = [ctl |-> c, derived |-> Meaning(c), cs |-> cs, fip |-> 0, fcs |-> 0,
                      tpr |-> <<0, 0>>, fpu |-> f, ext |-> 0]
          /\ truth = [ctl |-> c, cs |-> cs, ptr |-> 0, tpr |-> <<0, 0>>,
                      fpu |-> FpuView(f), tag |-> Abridged(twd), ext |-> 0]
          /\ hyp = [ctl |-> c, cs |-> cs, ptr |-> 0, cr8 |-> 0,
                    fpu |-> FpuView(f), tag |-> Abridged(twd), ext |-> 0]
  /\ lost = {}
  /\ steps = 0

\* The gaps of the transfer to the hypervisor: a tag word whose low byte does not
\* happen to be its abridged form, and state the context has no field for (the
\* upper halves of the YMM registers, PKRU).
GapsToHypervisor ==
  {g \in Groups :
     \/ g = "tag" /\ GetTag(bochs.fpu.twd) # Abridged(bochs.fpu.twd)
     \/ g = "ext" /\ hyp.ext # bochs.ext}

\* The gaps of the transfer to Bochs: V8086 mode entered straight from long mode,
\* a CS in real mode that is not a data segment, pointers across a change of
\* EFER.LMA, the low bits of the task priority, an x87 stack whose top is not
\* register 0 (values and tags then belong to other registers), and a tag byte
\* that, read as half a tag word, means other tags.
GapsToBochs ==
  LET topGap == bochs.fpu.tos # 0 \/ hyp.fpu.top # 0
  IN {g \in Groups :
        \/ g = "ctl" /\ LongMode(bochs.derived.mode) /\ hyp.ctl.vm
        \/ g = "cs" /\ ~hyp.ctl.pe /\ hyp.cs # "data"
        \/ g = "ptr" /\ bochs.ctl.lma # hyp.ctl.lma
        \/ g = "tpr" /\ bochs.tpr[2] # 0
        \/ g = "fpu" /\ topGap
        \/ g = "tag" /\ (topGap \/ Abridged(SetTag(hyp.tag)) # hyp.tag)
        \/ g = "ext" /\ hyp.ext # bochs.ext}

SyncToHypervisor ==
  /\ pc = "bochs"
  /\ pc' = "vm"
  /\ LET c == GetContext(bochs)
     IN hyp' = [ctl |-> c.ctl, cs |-> c.cs, ptr |-> c.ptr, cr8 |-> c.cr8,
                fpu |-> c.fpu, tag |-> c.tag, ext |-> hyp.ext]
  /\ lost' = lost \cup GapsToHypervisor
  /\ UNCHANGED <<bochs, truth, steps>>

SyncToBochs ==
  /\ pc = "vm"
  /\ pc' = "bochs"
  /\ bochs' = SetContext(bochs, hyp)
  /\ lost' = lost \cup GapsToBochs
  /\ UNCHANGED <<hyp, truth, steps>>

\* An x87 operation on a context: it records its address.
AfterFpu(x, v, pop) ==
  [x EXCEPT !.fpu = IF pop THEN PopView(@) ELSE PushView(@, v),
            !.tag = IF pop THEN PopTag(x.fpu.top, @) ELSE PushTag(x.fpu.top, @),
            !.ptr = v]

Step == steps < MaxSteps /\ steps' = steps + 1 /\ UNCHANGED <<pc, lost>>

\* Emulated instructions: a change of mode, an x87 operation (which records its
\* address), a write to the APIC's task priority, an AVX instruction.
BochsControl ==
  /\ pc = "bochs" /\ Step
  /\ \E c \in Controls, rights \in Rights :
       /\ bochs' = [bochs EXCEPT !.ctl = c, !.cs = CsCache(c, rights),
                                 !.derived = Handlers([@ EXCEPT !.cpl = c.rpl], c)]
       /\ truth' = [truth EXCEPT !.ctl = c, !.cs = CsCache(c, rights), !.ptr = PtrView(bochs')]
  /\ UNCHANGED hyp

BochsFpu ==
  /\ pc = "bochs" /\ Step
  /\ \E v \in Values, pop \in BOOLEAN :
       /\ bochs' = [bochs EXCEPT !.fpu = IF pop THEN Pop(@) ELSE Push(@, v),
                                 !.fip = IF bochs.ctl.lma THEN v ELSE 0,
                                 !.fcs = v]
       /\ truth' = AfterFpu(truth, v, pop)
  /\ UNCHANGED hyp

BochsTpr ==
  /\ pc = "bochs" /\ Step
  /\ \E p \in Values \X Values :
       bochs' = [bochs EXCEPT !.tpr = p] /\ truth' = [truth EXCEPT !.tpr = p]
  /\ UNCHANGED hyp

BochsExt ==
  /\ pc = "bochs" /\ Step
  /\ \E v \in Values : bochs' = [bochs EXCEPT !.ext = v] /\ truth' = [truth EXCEPT !.ext = v]
  /\ UNCHANGED hyp

\* The same under WHVP; MOV CR8 clears the low bits of the task priority.
VmControl ==
  /\ pc = "vm" /\ Step
  /\ \E c \in Controls, rights \in Rights :
       LET After(x) == [x EXCEPT !.ctl = c, !.cs = rights]
       IN hyp' = After(hyp) /\ truth' = After(truth)
  /\ UNCHANGED bochs

VmFpu ==
  /\ pc = "vm" /\ Step
  /\ \E v \in Values, pop \in BOOLEAN :
       hyp' = AfterFpu(hyp, v, pop) /\ truth' = AfterFpu(truth, v, pop)
  /\ UNCHANGED bochs

VmCr8 ==
  /\ pc = "vm" /\ Step
  /\ \E v \in Values : hyp' = [hyp EXCEPT !.cr8 = v] /\ truth' = [truth EXCEPT !.tpr = <<v, 0>>]
  /\ UNCHANGED bochs

VmExt ==
  /\ pc = "vm" /\ Step
  /\ \E v \in Values : hyp' = [hyp EXCEPT !.ext = v] /\ truth' = [truth EXCEPT !.ext = v]
  /\ UNCHANGED bochs

Next ==
  \/ SyncToHypervisor \/ SyncToBochs
  \/ BochsControl \/ BochsFpu \/ BochsTpr \/ BochsExt
  \/ VmControl \/ VmFpu \/ VmCr8 \/ VmExt

Spec == Init /\ [][Next]_vars

-----------------------------------------------------------------------------
(* Properties.                                                             *)

\* Types of the two copies.
TypeOK ==
  /\ pc \in {"bochs", "vm"}
  /\ bochs.ctl \in Control /\ Legal(bochs.ctl)
  /\ hyp.ctl \in Control /\ Legal(hyp.ctl)
  /\ bochs.fpu \in [st_space : [Reg -> Values], tos : Reg, twd : [Reg -> Tag]]
  /\ lost \subseteq Groups
  /\ steps \in 0 .. MaxSteps

\* After every transfer Bochs runs in the mode its registers say, with the right
\* privilege, SSE/AVX permission and fetch mode, whatever mode the guest left and
\* entered under WHVP.  The alignment mask is right when the low bits of the CS
\* selector are the CPL; real and V8086 mode set the CPL after it is computed.
DerivedCoherent ==
  pc = "bochs" =>
    LET want == Meaning(bochs.ctl)
    IN /\ [bochs.derived EXCEPT !.align = want.align] = want
       /\ bochs.ctl.rpl = want.cpl => bochs.derived.align = want.align

\* What Bochs has of each group.
BochsView ==
  [ctl |-> bochs.ctl, cs |-> bochs.cs, ptr |-> PtrView(bochs), tpr |-> bochs.tpr,
   fpu |-> FpuView(bochs.fpu), tag |-> Abridged(bochs.fpu.twd), ext |-> bochs.ext]

\* The engine that runs the guest has its state, group by group; the groups a
\* known gap has hit are the only ones that may differ.
OnlyKnownGaps ==
  \A g \in Groups \ lost :
    /\ pc = "bochs" => truth[g] = BochsView[g]
    /\ pc = "vm" => IF g = "tpr" THEN truth.tpr[1] = hyp.cr8 ELSE truth[g] = hyp[g]
=============================================================================
