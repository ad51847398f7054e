------------------------------ MODULE CpuLoop ------------------------------
(***************************************************************************)
(* The Rust CPU loop of bochservisor: one emulator thread that alternates  *)
(* between stepping Bochs' devices, emulating instructions in Bochs and    *)
(* running the guest under WHVP, and the kicker thread that cancels runs   *)
(* which last too long.                                                    *)
(*                                                                         *)
(* Register state lives in three copies (Bochs' CPU, the WHVP virtual      *)
(* processor, the loop's local `context`).  `fresh` is the set of copies   *)
(* that hold the newest state; of the registers only EFLAGS.IF is kept.    *)
(***************************************************************************)
EXTENDS Naturals

CONSTANTS
  EMULATE_STEPS,    \* instructions emulated for an exit WHVP cannot handle
  MAX_EMULATE,      \* most instructions handed to one step_cpu() call
  COVERAGE_STEPS,   \* extra instructions one step can earn by new coverage
  COVERAGE_DISABLE, \* the build flag of the same name
  Snapshot,         \* TRUE iff orig_memory is Some: running from a snapshot
  Exits,            \* the VM exits the guest causes by itself
  Faults,           \* where Bochs raises guest exceptions: "cpu", "device"
  Inhibits,         \* emulated code inhibits interrupts (STI, MOV SS)
  MaxTicks          \* bound on the device ticks of one synchronisation

\* Exits that are answered by emulating EMULATE_STEPS instructions.
EmulateExits == {"MemoryAccess", "X64IoPortAccess", "InvalidVpRegisterValue",
                 "UnrecoverableException", "X64MsrAccess"}

\* Exits the guest's own instructions cause; "MagicException" is a #DB with the
\* magic breakpoint set, "Unhandled" any reason the loop has no arm for.
GuestExits == EmulateExits \cup {"X64Halt", "X64Cpuid", "Exception",
                                 "MagicException", "Unhandled"}

ASSUME StepsAssumption ==
  /\ EMULATE_STEPS \in Nat \ {0}
  /\ MAX_EMULATE \in Nat \ {0}
  /\ COVERAGE_STEPS \in Nat
  /\ MaxTicks \in Nat \ {0}

ASSUME ModeAssumption ==
  /\ COVERAGE_DISABLE \in BOOLEAN
  /\ Snapshot \in BOOLEAN
  /\ Exits \subseteq GuestExits
  /\ Faults \subseteq {"cpu", "device"}
  /\ Inhibits \in BOOLEAN

VARIABLES
  pc,         \* where the emulator thread is
  persist,    \* the RefCell PERSIST: "free" or "borrowed"
  hypervisor, \* persist.hypervisor is Some (and the kicker was spawned)
  emulating,  \* persist.emulating
  emu,        \* the local `emu` of the loop
  left,       \* steps left in the current step_device()/step_cpu() call
  vmran,      \* a VM run happened since the last device synchronisation
  vmexit,     \* reason of the last VM exit
  fresh,      \* the copies that hold the newest register state
  IF_,        \* EFLAGS.IF in each copy
  next,       \* the guest's next instruction, where it is known
  activity,   \* BX_CPU activity_state
  async,      \* BX_CPU async_event
  intr,       \* an interrupt is pending at the interrupt controller
  inhibit,    \* interrupts_inhibited(): no instruction since the STI or MOV SS
  active,     \* KICKER_ACTIVE
  kpc,        \* where the kicker thread is
  cancel,     \* WHVP holds a cancellation for the virtual processor
  window      \* an interrupt-window notification is registered

loopVars  == <<persist, hypervisor, emulating, emu>>
regVars   == <<fresh, IF_, next>>
bochsVars == <<activity, async, intr, inhibit>>
whvpVars  == <<cancel, window>>
kickVars  == <<active, kpc>>
vars == <<pc, left, vmran, vmexit, loopVars, regVars, bochsVars, whvpVars, kickVars>>

Copies == {"bochs", "hyp", "ctx"}

\* The emulator thread's locations: the Rust loop, the two Bochs callbacks it
\* calls (step_device: device/tick, step_cpu: cpu/exec) and where it ends.
DevicePCs == {"device", "tick"}
CpuPCs    == {"cpu", "exec"}
LoopPCs   == {"top", "decide", "sync", "kick", "run", "unkick", "resync",
              "dispatch"} \cup DevicePCs
EndPCs    == {"panic", "unhandled", "exited"}
PCs       == {"entry"} \cup LoopPCs \cup CpuPCs \cup EndPCs

MinOf(a, b) == IF a < b THEN a ELSE b

Init ==
  /\ pc = "entry"
  /\ persist = "free"
  /\ hypervisor = FALSE
  /\ emulating = 0 /\ emu = 0
  /\ left = 0
  /\ vmran = FALSE
  /\ vmexit = "None"
  /\ fresh = {"bochs"}
  /\ IF_ = [c \in Copies |-> FALSE]
  /\ next = "any"
  /\ activity = "active"
  /\ async = FALSE
  /\ intr = FALSE
  /\ inhibit = FALSE
  /\ active = 0
  /\ kpc = "none"
  /\ cancel = FALSE
  /\ window = FALSE

-----------------------------------------------------------------------------
(* Bochs' event machinery.                                                 *)

\* setEFlags() on Bochs' copy: setting IF unmasks a pending interrupt.
SetEFlags(f) ==
  /\ IF_' = [IF_ EXCEPT !["bochs"] = f]
  /\ async' = (async \/ (f /\ ~IF_["bochs"] /\ intr))

\* A pending interrupt is unmasked when Bochs' copy has IF set, and deliverable
\* when it is not inhibited either; waking a halted CPU clears the inhibition.
Unmasked == intr /\ IF_["bochs"]
Deliverable == Unmasked /\ (~inhibit \/ activity = "hlt")

\* handleAsyncEvent(), including handleWaitForEvent(): a deliverable interrupt
\* wakes a halted CPU and is acknowledged (an interrupt gate clears IF, a trap
\* gate keeps it); without one a halted CPU stays halted but the call still
\* returns 0.  async_event stays set only for an inhibited interrupt.
HandleAsyncEvent ==
  IF Deliverable
    THEN /\ activity' = "active"
         /\ intr' = FALSE
         /\ inhibit' = FALSE
         /\ async' = FALSE
         /\ \E f \in BOOLEAN : IF_' = [IF_ EXCEPT !["bochs"] = f]
         /\ fresh' = {"bochs"}
         /\ next' = "any"
    ELSE /\ async' = Unmasked
         /\ UNCHANGED <<activity, intr, inhibit, IF_, fresh, next>>

\* longjmp() back to cpu_loop(), which calls bochs_cpu_loop() again.  Jumping
\* over a live RefMut is undefined behaviour: the borrow may or may not be
\* released by the unwinder.
Longjmp ==
  /\ pc' = "entry"
  /\ persist' \in IF persist = "borrowed" THEN {"borrowed", "free"} ELSE {"free"}

\* exception(): Bochs delivers a guest exception (the gate may clear IF, and the
\* inhibition ends) and longjmps.
RaiseException ==
  /\ Longjmp
  /\ inhibit' = FALSE
  /\ fresh' = {"bochs"}
  /\ next' = "any"
  /\ \E f \in {IF_["bochs"], FALSE} : SetEFlags(f)

-----------------------------------------------------------------------------
(* Entry and the device synchronisation.                                   *)

\* bochs_cpu_loop() up to its loop: borrow PERSIST (panicking if it is already
\* borrowed), create the hypervisor and the kicker once, reset `emulating`.
\* The overhead measurement in Whvp::new() runs before memory is mapped.
Enter ==
  /\ pc = "entry"
  /\ IF persist = "borrowed"
       THEN /\ pc' = "panic"
            /\ UNCHANGED <<loopVars, kpc, fresh>>
       ELSE /\ pc' = "top"
            /\ persist' = "borrowed"
            /\ hypervisor' = TRUE
            /\ kpc' = IF hypervisor THEN kpc ELSE "wait"
            /\ emulating' = 0
            /\ fresh' = fresh \ {"ctx"}
            /\ UNCHANGED emu
  /\ vmran' = FALSE
  /\ UNCHANGED <<left, vmexit, IF_, next, bochsVars, whvpVars, active>>

\* Top of the loop: elapsed wall-clock time becomes device ticks.  A VM round
\* trip takes longer than one tick (1us); other iterations may take less.
SyncDevices(n) ==
  /\ pc = "top"
  /\ n >= (IF vmran THEN 1 ELSE 0)
  /\ left' = n
  /\ vmran' = FALSE
  /\ pc' = "device"
  /\ UNCHANGED <<vmexit, loopVars, regVars, bochsVars, whvpVars, kickVars>>

\* One iteration of step_device(): events first, then one tick.
DeviceAsync ==
  /\ pc = "device" /\ left > 0
  /\ IF async THEN HandleAsyncEvent ELSE UNCHANGED <<regVars, bochsVars>>
  /\ pc' = "tick"
  /\ UNCHANGED <<left, vmran, vmexit, loopVars, whvpVars, kickVars>>

\* The interrupt is acknowledged but delivering it faults (the push onto the
\* guest's stack, the IDT): the exception longjmps out of step_device().
DeviceFault ==
  /\ "device" \in Faults
  /\ pc = "device" /\ left > 0
  /\ async /\ Deliverable
  /\ RaiseException
  /\ left' = 0
  /\ activity' = "active"
  /\ intr' = FALSE
  /\ UNCHANGED <<vmran, vmexit, hypervisor, emulating, emu, whvpVars, kickVars>>

\* bx_pc_system.tickn(1): a timer may raise an interrupt; signal_event() sets
\* async_event unless IF masks the event.
DeviceTick ==
  /\ pc = "tick"
  /\ \E raise \in {intr, TRUE} :
       /\ intr' = raise
       /\ async' = (async \/ (raise /\ ~intr /\ IF_["bochs"]))
  /\ left' = left - 1
  /\ pc' = "device"
  /\ UNCHANGED <<vmran, vmexit, loopVars, regVars, activity, inhibit, whvpVars,
                 kickVars>>

DeviceDone ==
  /\ pc = "device" /\ left = 0
  /\ pc' = "decide"
  /\ UNCHANGED <<left, vmran, vmexit, loopVars, regVars, bochsVars, whvpVars, kickVars>>

-----------------------------------------------------------------------------
(* Emulation in Bochs.                                                     *)

\* Mutant of Decide: the clamp of `emulating` is forgotten.
DecideUnclamped ==
  /\ pc = "decide"
  /\ IF emulating > 0
       THEN /\ emu' = emulating
            /\ left' = emulating
            /\ persist' = "free"
            /\ pc' = "cpu"
       ELSE /\ pc' = "sync"
            /\ UNCHANGED <<emu, left, persist>>
  /\ UNCHANGED <<vmran, vmexit, hypervisor, emulating, regVars, bochsVars, whvpVars,
                 kickVars>>

\* Clamp `emulating`; with a budget left, release PERSIST and call step_cpu().
Decide ==
  /\ pc = "decide"
  /\ emulating' = MinOf(MAX_EMULATE, emulating)
  /\ IF emulating > 0
       THEN /\ emu' = MinOf(MAX_EMULATE, emulating)
            /\ left' = MinOf(MAX_EMULATE, emulating)
            /\ persist' = "free"
            /\ pc' = "cpu"
       ELSE /\ pc' = "sync"
            /\ UNCHANGED <<emu, left, persist>>
  /\ UNCHANGED <<vmran, vmexit, hypervisor, regVars, bochsVars, whvpVars, kickVars>>

\* One iteration of step_cpu(): account for the step and handle events ...
CpuAsync ==
  /\ pc = "cpu" /\ left > 0
  /\ left' = left - 1
  /\ IF async THEN HandleAsyncEvent ELSE UNCHANGED <<regVars, bochsVars>>
  /\ pc' = "exec"
  /\ UNCHANGED <<vmran, vmexit, loopVars, whvpVars, kickVars>>

\* ... delivering them may raise an exception ...
CpuAsyncFault ==
  /\ "cpu" \in Faults
  /\ pc = "cpu" /\ left > 0
  /\ async /\ Deliverable
  /\ RaiseException
  /\ left' = 0
  /\ activity' = "active"
  /\ intr' = FALSE
  /\ UNCHANGED <<vmran, vmexit, hypervisor, emulating, emu, whvpVars, kickVars>>

\* Mutant of ReportCoverage: the budget is replaced instead of extended.
ReportCoverageReplaces ==
  emulating' \in IF COVERAGE_DISABLE THEN {emulating}
                 ELSE {emulating, COVERAGE_STEPS}

\* report_coverage(), called before every emulated instruction: it borrows
\* PERSIST and grants extra steps for new coverage.
ReportCoverage ==
  emulating' \in IF COVERAGE_DISABLE THEN {emulating}
                 ELSE {emulating, emulating + COVERAGE_STEPS}

\* What inhibit_interrupts() leaves after an instruction that sets IF to f: STI
\* inhibits when it sets IF, MOV SS unless interrupts are inhibited already.  A
\* step without events is a whole trace, which may end either way.
InhibitInterrupts(f) ==
  {FALSE} \cup (IF Inhibits /\ ((f /\ ~IF_["bochs"]) \/ ~inhibit \/ ~async)
                 THEN {TRUE} ELSE {})

\* ... and execute one instruction, or a trace of them: they change IF or leave it
\* alone, may inhibit interrupts for the next one, or access a device, which
\* raises or lowers its interrupt (instructions do not tick: BX_TICK1 and
\* BX_TICKN are empty) ...
ExecPlain ==
  /\ pc = "exec" /\ next = "any"
  /\ ReportCoverage
  /\ \E f, raise \in BOOLEAN :
       /\ IF_' = [IF_ EXCEPT !["bochs"] = f]
       /\ intr' = raise
       /\ async' = (async \/ (f /\ raise /\ ~Unmasked))
       /\ inhibit' \in InhibitInterrupts(f)
  /\ fresh' = {"bochs"}
  /\ pc' = "cpu"
  /\ UNCHANGED <<left, vmran, vmexit, persist, hypervisor, emu, next, activity,
                 whvpVars, kickVars>>

\* ... HLT, which enters the sleep state and asks for an event check ...
ExecHlt ==
  /\ pc = "exec" /\ "X64Halt" \in Exits /\ next \in {"any", "hlt"}
  /\ ReportCoverage
  /\ activity' = "hlt"
  /\ async' = TRUE
  /\ inhibit' = FALSE
  /\ next' = "any"
  /\ fresh' = {"bochs"}
  /\ pc' = "cpu"
  /\ UNCHANGED <<left, vmran, vmexit, persist, hypervisor, emu, IF_, intr,
                 whvpVars, kickVars>>

\* ... CPUID, undone and left to the hypervisor (but cpu_loop() counts it as an
\* instruction, which ends an inhibition) ...
ExecCpuid ==
  /\ pc = "exec" /\ "X64Cpuid" \in Exits /\ next \in {"any", "cpuid"}
  /\ ReportCoverage
  /\ Longjmp
  /\ next' = "cpuid"
  /\ inhibit' = FALSE
  /\ left' = 0
  /\ UNCHANGED <<vmran, vmexit, hypervisor, emu, fresh, IF_, activity, async, intr,
                 whvpVars, kickVars>>

\* ... or one that faults.
ExecFault ==
  /\ "cpu" \in Faults
  /\ pc = "exec"
  /\ ReportCoverage
  /\ RaiseException
  /\ left' = 0
  /\ UNCHANGED <<vmran, vmexit, hypervisor, emu, activity, intr, whvpVars, kickVars>>

\* Back from step_cpu(): borrow PERSIST again and charge the steps just taken
\* with checked_sub(); either can panic.
StepCpuReturn ==
  /\ pc = "cpu" /\ left = 0
  /\ IF persist = "borrowed" \/ emulating < emu
       THEN pc' = "panic" /\ UNCHANGED <<persist, emulating>>
       ELSE /\ pc' = "top"
            /\ persist' = "borrowed"
            /\ emulating' = emulating - emu
  /\ UNCHANGED <<left, vmran, vmexit, hypervisor, emu, regVars, bochsVars,
                 whvpVars, kickVars>>

-----------------------------------------------------------------------------
(* Running under the hypervisor.                                           *)

\* get_context() from Bochs, set_context() into the virtual processor.
SyncToHypervisor ==
  /\ pc = "sync"
  /\ IF_' = [c \in Copies |-> IF_["bochs"]]
  /\ fresh' = IF "bochs" \in fresh THEN Copies ELSE fresh \ {"hyp", "ctx"}
  /\ pc' = "kick"
  /\ UNCHANGED <<left, vmran, vmexit, loopVars, next, bochsVars, whvpVars, kickVars>>

KickerOn ==
  /\ pc = "kick"
  /\ active' = 1
  /\ pc' = "run"
  /\ UNCHANGED <<left, vmran, vmexit, loopVars, regVars, bochsVars, whvpVars, kpc>>

\* The guest runs (external): with no cancellation and no interrupt window
\* waiting it executes, changing IF as it likes, ...
GuestStep ==
  /\ pc = "run" /\ ~cancel /\ ~(window /\ IF_["hyp"])
  /\ next = "any"
  /\ \E f \in BOOLEAN : IF_' = [IF_ EXCEPT !["hyp"] = f]
  /\ fresh' = {"hyp"}
  /\ UNCHANGED <<pc, left, vmran, vmexit, loopVars, next, bochsVars, whvpVars, kickVars>>

\* ... or exits; HLT and CPUID exits leave RIP at the instruction.
GuestExit(r) ==
  /\ pc = "run" /\ ~cancel /\ ~(window /\ IF_["hyp"])
  /\ \/ next = "any" /\ r \in Exits
     \/ next = "hlt" /\ r \in {"X64Halt"} \cup (Exits \cap EmulateExits)
     \/ next = "cpuid" /\ r \in {"X64Cpuid"} \cup (Exits \cap EmulateExits)
  /\ vmexit' = r
  /\ next' = CASE r = "X64Halt"  -> "hlt"
               [] r = "X64Cpuid" -> "cpuid"
               [] OTHER          -> next
  /\ pc' = "unkick"
  /\ UNCHANGED <<left, vmran, loopVars, fresh, IF_, bochsVars, whvpVars, kickVars>>

\* A cancellation ends the run at once and is consumed.
CancelExit ==
  /\ pc = "run" /\ cancel
  /\ vmexit' = "Canceled"
  /\ cancel' = FALSE
  /\ pc' = "unkick"
  /\ UNCHANGED <<left, vmran, loopVars, regVars, bochsVars, window, kickVars>>

\* A registered interrupt window ends the run as soon as IF is set.
WindowExit ==
  /\ pc = "run" /\ ~cancel /\ window /\ IF_["hyp"]
  /\ vmexit' = "X64InterruptWindow"
  /\ window' = FALSE
  /\ pc' = "unkick"
  /\ UNCHANGED <<left, vmran, loopVars, regVars, bochsVars, cancel, kickVars>>

KickerOff ==
  /\ pc = "unkick"
  /\ active' = 0
  /\ vmran' = TRUE
  /\ pc' = "resync"
  /\ UNCHANGED <<left, vmexit, loopVars, regVars, bochsVars, whvpVars, kpc>>

\* Mutant of SyncToBochs: EFLAGS is copied without unmasking events.
SyncToBochsRawFlags ==
  /\ pc = "resync"
  /\ IF_' = [c \in Copies |-> IF_["hyp"]]
  /\ fresh' = IF "hyp" \in fresh THEN Copies ELSE fresh \ {"bochs", "ctx"}
  /\ ReportCoverage
  /\ pc' = "dispatch"
  /\ UNCHANGED <<left, vmran, vmexit, persist, hypervisor, emu, next, bochsVars,
                 whvpVars, kickVars>>

\* get_context() from the hypervisor, set_context() into Bochs; with coverage
\* built in, the block the guest stopped at is reported too.
SyncToBochs ==
  /\ pc = "resync"
  /\ IF_' = [c \in Copies |-> IF_["hyp"]]
  /\ async' = (async \/ (IF_["hyp"] /\ ~IF_["bochs"] /\ intr))
  /\ fresh' = IF "hyp" \in fresh THEN Copies ELSE fresh \ {"bochs", "ctx"}
  /\ ReportCoverage
  /\ pc' = "dispatch"
  /\ UNCHANGED <<left, vmran, vmexit, persist, hypervisor, emu, next, activity,
                 intr, inhibit, whvpVars, kickVars>>

-----------------------------------------------------------------------------
(* The match on the exit reason, one action per arm.                       *)

Dispatch(reasons) ==
  /\ pc = "dispatch" /\ vmexit \in reasons
  /\ UNCHANGED <<left, vmran, vmexit, persist, hypervisor, emu, activity, intr,
                 inhibit, cancel, kickVars>>

\* Mutant of CommitContext: the changed context never reaches Bochs.
CommitContextForgotten ==
  /\ fresh' = {"ctx"}
  /\ UNCHANGED IF_

\* set_context(context) after the local context was changed: the local copy and
\* Bochs' become the newest.
CommitContext ==
  /\ fresh' = {"bochs", "ctx"}
  /\ IF_' = [IF_ EXCEPT !["bochs"] = IF_["ctx"]]

DispatchEmulate ==
  /\ Dispatch(EmulateExits)
  /\ emulating' = emulating + EMULATE_STEPS
  /\ pc' = "top"
  /\ UNCHANGED <<regVars, async, window>>

DispatchHalt ==
  /\ Dispatch({"X64Halt"})
  /\ emulating' = emulating + 1
  /\ pc' = "top"
  /\ UNCHANGED <<regVars, async, window>>

\* Ask WHVP to exit as soon as the guest can take an interrupt.
RegisterInterruptWindow == window' = TRUE

\* Mutant of DispatchCanceled: the interrupt window is never requested.
DispatchCanceledNoWindow ==
  /\ Dispatch({"Canceled"})
  /\ pc' = "top"
  /\ UNCHANGED <<emulating, regVars, async, window>>

DispatchCanceled ==
  /\ Dispatch({"Canceled"})
  /\ IF IF_["ctx"] THEN UNCHANGED window ELSE RegisterInterruptWindow
  /\ pc' = "top"
  /\ UNCHANGED <<emulating, regVars, async>>

DispatchCpuid ==
  /\ Dispatch({"X64Cpuid"})
  /\ CommitContext
  /\ next' = "any"
  /\ pc' = "top"
  /\ UNCHANGED <<emulating, async, window>>

DispatchInterruptWindow ==
  /\ Dispatch({"X64InterruptWindow"})
  /\ pc' = "top"
  /\ UNCHANGED <<emulating, regVars, async, window>>

\* #DB while running from a snapshot: cleared, RF set, committed to Bochs.
DispatchExceptionSnapshot ==
  /\ Snapshot
  /\ Dispatch({"Exception", "MagicException"})
  /\ CommitContext
  /\ pc' = "top"
  /\ UNCHANGED <<emulating, next, async, window>>

\* #DB while running live: DR6 is cleared in the local context only.
DispatchExceptionLive ==
  /\ ~Snapshot
  /\ Dispatch({"Exception"})
  /\ fresh' = {"ctx"}
  /\ pc' = "top"
  /\ UNCHANGED <<emulating, IF_, next, async, window>>

\* The magic breakpoint: take_snapshot() saves the state and exits.
TakeSnapshot ==
  /\ ~Snapshot
  /\ Dispatch({"MagicException"})
  /\ fresh' = {"ctx"}
  /\ pc' = "exited"
  /\ UNCHANGED <<emulating, IF_, next, async, window>>

DispatchUnhandled ==
  /\ Dispatch({"Unhandled"})
  /\ pc' = "unhandled"
  /\ UNCHANGED <<emulating, regVars, async, window>>

-----------------------------------------------------------------------------
(* The kicker thread.                                                      *)

kickerUnchanged == UNCHANGED <<pc, left, vmran, vmexit, loopVars, regVars,
                               bochsVars, window, active>>

KickerWait ==
  /\ kpc = "wait" /\ active = 1
  /\ kpc' = "spin"
  /\ kickerUnchanged /\ UNCHANGED cancel

\* The busy loop ends when the period has elapsed or the run has ended.
KickerSpin ==
  /\ kpc = "spin"
  /\ kpc' = "check"
  /\ kickerUnchanged /\ UNCHANGED cancel

\* Mutant of KickerCheck: the test of KICKER_ACTIVE is inverted.
KickerCheckInverted ==
  /\ kpc = "check"
  /\ kpc' = IF active = 1 THEN "wait" ELSE "cancel"
  /\ kickerUnchanged /\ UNCHANGED cancel

KickerCheck ==
  /\ kpc = "check"
  /\ kpc' = IF active = 0 THEN "wait" ELSE "cancel"
  /\ kickerUnchanged /\ UNCHANGED cancel

\* WHvCancelRunVirtualProcessor(): a run that has ended meanwhile leaves the
\* cancellation to the next one.
KickerCancel ==
  /\ kpc = "cancel"
  /\ cancel' = TRUE
  /\ kpc' = "wait"
  /\ kickerUnchanged

-----------------------------------------------------------------------------

Emulator ==
  \/ Enter
  \/ \E n \in 0..MaxTicks : SyncDevices(n)
  \/ DeviceAsync \/ DeviceFault \/ DeviceTick \/ DeviceDone
  \/ Decide
  \/ CpuAsync \/ CpuAsyncFault
  \/ ExecPlain \/ ExecHlt \/ ExecCpuid \/ ExecFault
  \/ StepCpuReturn
  \/ SyncToHypervisor \/ KickerOn \/ KickerOff \/ SyncToBochs
  \/ DispatchEmulate \/ DispatchHalt \/ DispatchCanceled \/ DispatchCpuid
  \/ DispatchInterruptWindow \/ DispatchExceptionSnapshot
  \/ DispatchExceptionLive \/ TakeSnapshot \/ DispatchUnhandled

Guest == GuestStep \/ \E r \in GuestExits : GuestExit(r)

Hypervisor == CancelExit \/ WindowExit

Kicker == KickerWait \/ KickerSpin \/ KickerCheck \/ KickerCancel

\* A stopped emulator thread; the kicker keeps polling.
Stopped == pc \in EndPCs

Next == Emulator \/ Guest \/ Hypervisor \/ Kicker \/ (Stopped /\ UNCHANGED vars)

\* Threads are scheduled and WHVP honours cancellations and windows; the guest
\* owes nothing.
Fairness == WF_vars(Emulator) /\ WF_vars(Hypervisor) /\ WF_vars(Kicker)

Spec == Init /\ [][Next]_vars

FairSpec == Spec /\ Fairness

-----------------------------------------------------------------------------
(* Properties.                                                             *)

\* The control state and the counters of the loop.
ControlOK ==
  /\ pc \in PCs
  /\ persist \in {"free", "borrowed"}
  /\ emulating \in Nat /\ emu \in 0..MAX_EMULATE /\ left \in Nat
  /\ vmexit \in GuestExits \cup {"None", "Canceled", "X64InterruptWindow"}
  /\ next \in {"any", "hlt", "cpuid"}
  /\ activity \in {"active", "hlt"}
  /\ active \in {0, 1}
  /\ kpc \in {"none", "wait", "spin", "check", "cancel"}

\* The flags and the register copies.
FlagsOK ==
  /\ fresh \subseteq Copies
  /\ IF_ \in [Copies -> BOOLEAN]
  /\ hypervisor \in BOOLEAN /\ vmran \in BOOLEAN
  /\ async \in BOOLEAN /\ intr \in BOOLEAN /\ inhibit \in BOOLEAN
  /\ cancel \in BOOLEAN /\ window \in BOOLEAN

\* Types, and the ranges of the counters: however much coverage grants, one
\* step_cpu() call never gets more than MAX_EMULATE instructions.
TypeOK == ControlOK /\ FlagsOK

\* Whatever instruction longjmps out of Bochs, and however much coverage adds
\* to the budget, neither PERSIST.borrow_mut() (lib.rs 1066, 1349) nor the
\* "Underflow on emulating" check (lib.rs 1353) ever panics.
NoPanic == pc # "panic"

\* The side that is about to advance the guest holds the newest register state:
\* Bochs when it steps devices or instructions, the virtual processor when it
\* runs (README 192-194, "always in sync").
FreshRegisters ==
  /\ pc \in DevicePCs \cup CpuPCs => "bochs" \in fresh
  /\ pc = "run" => "hyp" \in fresh

\* A halted processor executes nothing, in Bochs or under WHVP, until an
\* interrupt has woken it (proc_ctrl.cc 184-185, "will remain in a sleep state
\* until one of the wakeup conditions is met").
SleepHolds == pc \in {"exec", "run"} => activity = "active"

\* The newest IF of the guest.
GuestIF == \E c \in fresh : IF_[c]

\* Whatever the guest does, the devices are ticked again and again: the kicker
\* gets the loop out of a guest that never exits by itself.
DevicesKeepTicking == []<>(pc = "tick" \/ Stopped)

\* A pending interrupt is delivered unless the guest masks it: no path through
\* the loop loses the request while IF stays set.
InterruptDelivered == intr ~> (~intr \/ ~GuestIF \/ Stopped)

\* A guest whose runs last long enough for the kicker to cancel some of them
\* and that enables interrupts again and again, however briefly, gets its pending
\* interrupt: a run cancelled with IF clear asks for an interrupt window
\* (lib.rs 1552-1561), which no other exit, fault or longjmp takes away.
CanceledDelivers ==
  ([]<>(pc = "run" /\ IF_["hyp"]) /\ []<>(pc = "dispatch" /\ vmexit = "Canceled"))
    => (intr ~> (~intr \/ Stopped))
=============================================================================
