---------------------------- MODULE CpuLoopProofs ----------------------------
(***************************************************************************)
(* Proofs about the CPU loop, for every budget, exit set and fault set.    *)
(***************************************************************************)
EXTENDS CpuLoop, TLAPS

-----------------------------------------------------------------------------
(* Types.                                                                  *)

\* Types of the control state, and that a device tick is only taken while
\* ticks are left.
ControlInv == ControlOK /\ (pc = "tick" => left > 0)

\* Every action keeps the control state typed; Decide's clamp keeps `emu` in
\* range.
LEMMA ControlStep == ControlInv /\ [Next]_vars => ControlInv'
<1>. SUFFICES ASSUME ControlInv, [Next]_vars PROVE ControlInv'
  OBVIOUS
<1>. USE StepsAssumption, ModeAssumption
     DEF ControlInv, ControlOK, PCs, LoopPCs, DevicePCs, CpuPCs, EndPCs, GuestExits,
         EmulateExits, loopVars, regVars, bochsVars, whvpVars, kickVars
<1>1. CASE Enter
  BY <1>1 DEF Enter
<1>2. ASSUME NEW n \in 0..MaxTicks, SyncDevices(n)
      PROVE  ControlInv'
  BY <1>2 DEF SyncDevices
<1>3. CASE DeviceAsync
  BY <1>3 DEF DeviceAsync, HandleAsyncEvent, Deliverable, Unmasked
<1>4. CASE DeviceFault
  BY <1>4 DEF DeviceFault, RaiseException, Longjmp, SetEFlags, Deliverable, Unmasked
<1>5. CASE DeviceTick
  BY <1>5 DEF DeviceTick
<1>6. CASE DeviceDone
  BY <1>6 DEF DeviceDone
<1>7. CASE Decide
  BY <1>7 DEF Decide, MinOf
<1>8. CASE CpuAsync
  BY <1>8 DEF CpuAsync, HandleAsyncEvent, Deliverable, Unmasked
<1>9. CASE CpuAsyncFault
  BY <1>9 DEF CpuAsyncFault, RaiseException, Longjmp, SetEFlags, Deliverable, Unmasked
<1>10. CASE ExecPlain
  BY <1>10 DEF ExecPlain, ReportCoverage, Unmasked, InhibitInterrupts
<1>11. CASE ExecHlt
  BY <1>11 DEF ExecHlt, ReportCoverage
<1>12. CASE ExecCpuid
  BY <1>12 DEF ExecCpuid, ReportCoverage, Longjmp
<1>13. CASE ExecFault
  BY <1>13 DEF ExecFault, ReportCoverage, RaiseException, Longjmp, SetEFlags
<1>14. CASE StepCpuReturn
  BY <1>14 DEF StepCpuReturn
<1>15. CASE SyncToHypervisor
  BY <1>15 DEF SyncToHypervisor
<1>16. CASE KickerOn
  BY <1>16 DEF KickerOn
<1>17. CASE KickerOff
  BY <1>17 DEF KickerOff
<1>18. CASE SyncToBochs
  BY <1>18 DEF SyncToBochs, ReportCoverage
<1>19. CASE DispatchEmulate
  BY <1>19 DEF DispatchEmulate, Dispatch, EmulateExits
<1>20. CASE DispatchHalt
  BY <1>20 DEF DispatchHalt, Dispatch
<1>21. CASE DispatchCanceled
  BY <1>21 DEF DispatchCanceled, Dispatch, RegisterInterruptWindow
<1>22. CASE DispatchCpuid
  BY <1>22 DEF DispatchCpuid, Dispatch, CommitContext
<1>23. CASE DispatchInterruptWindow
  BY <1>23 DEF DispatchInterruptWindow, Dispatch
<1>24. CASE DispatchExceptionSnapshot
  BY <1>24 DEF DispatchExceptionSnapshot, Dispatch, CommitContext
<1>25. CASE DispatchExceptionLive
  BY <1>25 DEF DispatchExceptionLive, Dispatch
<1>26. CASE TakeSnapshot
  BY <1>26 DEF TakeSnapshot, Dispatch
<1>27. CASE DispatchUnhandled
  BY <1>27 DEF DispatchUnhandled, Dispatch
<1>28. CASE GuestStep
  BY <1>28 DEF GuestStep
<1>29. ASSUME NEW r \in GuestExits, GuestExit(r)
      PROVE  ControlInv'
  BY <1>29 DEF GuestExit
<1>30. CASE CancelExit
  BY <1>30 DEF CancelExit
<1>31. CASE WindowExit
  BY <1>31 DEF WindowExit
<1>32. CASE KickerWait
  BY <1>32 DEF KickerWait, kickerUnchanged
<1>33. CASE KickerSpin
  BY <1>33 DEF KickerSpin, kickerUnchanged
<1>34. CASE KickerCheck
  BY <1>34 DEF KickerCheck, kickerUnchanged
<1>35. CASE KickerCancel
  BY <1>35 DEF KickerCancel, kickerUnchanged
<1>36. CASE UNCHANGED vars
  BY <1>36 DEF vars
<1>. QED
  BY <1>1, <1>2, <1>3, <1>4, <1>5, <1>6, <1>7, <1>8, <1>9, <1>10, <1>11, <1>12,
     <1>13, <1>14, <1>15, <1>16, <1>17, <1>18, <1>19, <1>20, <1>21, <1>22, <1>23, <1>24,
     <1>25, <1>26, <1>27, <1>28, <1>29, <1>30, <1>31, <1>32, <1>33, <1>34, <1>35, <1>36
     DEF Next, Emulator, Guest, Hypervisor, Kicker

\* Every action keeps the flags and the register copies typed.
LEMMA FlagsStep == FlagsOK /\ [Next]_vars => FlagsOK'
<1>. SUFFICES ASSUME FlagsOK, [Next]_vars PROVE FlagsOK'
  OBVIOUS
<1>. USE DEF FlagsOK, Copies, loopVars, regVars, bochsVars, whvpVars, kickVars
<1>1. CASE Enter
  BY <1>1 DEF Enter
<1>2. ASSUME NEW n \in 0..MaxTicks, SyncDevices(n)
      PROVE  FlagsOK'
  BY <1>2 DEF SyncDevices
<1>3. CASE DeviceAsync
  BY <1>3 DEF DeviceAsync, HandleAsyncEvent, Deliverable, Unmasked
<1>4. CASE DeviceFault
  BY <1>4 DEF DeviceFault, RaiseException, Longjmp, SetEFlags, Deliverable, Unmasked
<1>5. CASE DeviceTick
  BY <1>5 DEF DeviceTick
<1>6. CASE DeviceDone
  BY <1>6 DEF DeviceDone
<1>7. CASE Decide
  BY <1>7 DEF Decide, MinOf
<1>8. CASE CpuAsync
  BY <1>8 DEF CpuAsync, HandleAsyncEvent, Deliverable, Unmasked
<1>9. CASE CpuAsyncFault
  BY <1>9 DEF CpuAsyncFault, RaiseException, Longjmp, SetEFlags, Deliverable, Unmasked
<1>10. CASE ExecPlain
  BY <1>10 DEF ExecPlain, ReportCoverage, Unmasked, InhibitInterrupts
<1>11. CASE ExecHlt
  BY <1>11 DEF ExecHlt, ReportCoverage
<1>12. CASE ExecCpuid
  BY <1>12 DEF ExecCpuid, ReportCoverage, Longjmp
<1>13. CASE ExecFault
  BY <1>13 DEF ExecFault, ReportCoverage, RaiseException, Longjmp, SetEFlags
<1>14. CASE StepCpuReturn
  BY <1>14 DEF StepCpuReturn
<1>15. CASE SyncToHypervisor
  BY <1>15 DEF SyncToHypervisor
<1>16. CASE KickerOn
  BY <1>16 DEF KickerOn
<1>17. CASE KickerOff
  BY <1>17 DEF KickerOff
<1>18. CASE SyncToBochs
  BY <1>18 DEF SyncToBochs, ReportCoverage
<1>19. CASE DispatchEmulate
  BY <1>19 DEF DispatchEmulate, Dispatch, EmulateExits
<1>20. CASE DispatchHalt
  BY <1>20 DEF DispatchHalt, Dispatch
<1>21. CASE DispatchCanceled
  BY <1>21 DEF DispatchCanceled, Dispatch, RegisterInterruptWindow
<1>22. CASE DispatchCpuid
  BY <1>22 DEF DispatchCpuid, Dispatch, CommitContext
<1>23. CASE DispatchInterruptWindow
  BY <1>23 DEF DispatchInterruptWindow, Dispatch
<1>24. CASE DispatchExceptionSnapshot
  BY <1>24 DEF DispatchExceptionSnapshot, Dispatch, CommitContext
<1>25. CASE DispatchExceptionLive
  BY <1>25 DEF DispatchExceptionLive, Dispatch
<1>26. CASE TakeSnapshot
  BY <1>26 DEF TakeSnapshot, Dispatch
<1>27. CASE DispatchUnhandled
  BY <1>27 DEF DispatchUnhandled, Dispatch
<1>28. CASE GuestStep
  BY <1>28 DEF GuestStep
<1>29. ASSUME NEW r \in GuestExits, GuestExit(r)
      PROVE  FlagsOK'
  BY <1>29 DEF GuestExit
<1>30. CASE CancelExit
  BY <1>30 DEF CancelExit
<1>31. CASE WindowExit
  BY <1>31 DEF WindowExit
<1>32. CASE KickerWait
  BY <1>32 DEF KickerWait, kickerUnchanged
<1>33. CASE KickerSpin
  BY <1>33 DEF KickerSpin, kickerUnchanged
<1>34. CASE KickerCheck
  BY <1>34 DEF KickerCheck, kickerUnchanged
<1>35. CASE KickerCancel
  BY <1>35 DEF KickerCancel, kickerUnchanged
<1>36. CASE UNCHANGED vars
  BY <1>36 DEF vars
<1>. QED
  BY <1>1, <1>2, <1>3, <1>4, <1>5, <1>6, <1>7, <1>8, <1>9, <1>10, <1>11, <1>12,
     <1>13, <1>14, <1>15, <1>16, <1>17, <1>18, <1>19, <1>20, <1>21, <1>22, <1>23, <1>24,
     <1>25, <1>26, <1>27, <1>28, <1>29, <1>30, <1>31, <1>32, <1>33, <1>34, <1>35, <1>36
     DEF Next, Emulator, Guest, Hypervisor, Kicker

\* The control state is typed throughout.
LEMMA ControlAlways == Spec => []ControlInv
<1>1. Init => ControlInv
  BY StepsAssumption DEF Init, ControlInv, ControlOK, PCs, LoopPCs, DevicePCs,
                         CpuPCs, EndPCs, GuestExits, EmulateExits
<1>. QED
  BY <1>1, ControlStep, PTL DEF Spec

\* For every budget the loop's counters stay in range: one step_cpu() call is
\* never handed more than MAX_EMULATE instructions, whatever report_coverage()
\* adds.
THEOREM TypeCorrect == Spec => []TypeOK
<1>1. Init => FlagsOK
  BY DEF Init, FlagsOK, Copies
<1>2. Spec => []FlagsOK
  BY <1>1, FlagsStep, PTL DEF Spec
<1>3. ControlInv /\ FlagsOK => TypeOK
  BY DEF ControlInv, TypeOK
<1>. QED
  BY <1>2, <1>3, ControlAlways, PTL

-----------------------------------------------------------------------------
(* The PERSIST cell and the emulation budget.                              *)

\* PERSIST is borrowed exactly while the Rust loop or step_device() runs, and
\* while step_cpu() runs the budget still covers what it will be charged.
BorrowInv ==
  /\ pc \in LoopPCs => persist = "borrowed"
  /\ pc \in CpuPCs \cup {"entry"} => persist = "free"
  /\ pc \in CpuPCs => emu <= emulating
  /\ pc # "panic"

\* With no exception raised inside step_device(), every action keeps BorrowInv.
LEMMA BorrowStep ==
  ASSUME "device" \notin Faults
  PROVE  ControlInv /\ BorrowInv /\ [Next]_vars => BorrowInv'
<1>. SUFFICES ASSUME ControlInv, BorrowInv, [Next]_vars PROVE BorrowInv'
  OBVIOUS
<1>. USE StepsAssumption
     DEF ControlInv, ControlOK, BorrowInv, PCs, LoopPCs, DevicePCs, CpuPCs, EndPCs, loopVars, regVars, bochsVars, whvpVars, kickVars
<1>1. CASE Enter
  BY <1>1 DEF Enter
<1>2. ASSUME NEW n \in 0..MaxTicks, SyncDevices(n)
      PROVE  BorrowInv'
  BY <1>2 DEF SyncDevices
<1>3. CASE DeviceAsync
  BY <1>3 DEF DeviceAsync, HandleAsyncEvent, Deliverable, Unmasked
<1>4. CASE DeviceFault
  BY <1>4 DEF DeviceFault, RaiseException, Longjmp, SetEFlags, Deliverable, Unmasked
<1>5. CASE DeviceTick
  BY <1>5 DEF DeviceTick
<1>6. CASE DeviceDone
  BY <1>6 DEF DeviceDone
<1>7. CASE Decide
  BY <1>7 DEF Decide, MinOf
<1>8. CASE CpuAsync
  BY <1>8 DEF CpuAsync, HandleAsyncEvent, Deliverable, Unmasked
<1>9. CASE CpuAsyncFault
  BY <1>9 DEF CpuAsyncFault, RaiseException, Longjmp, SetEFlags, Deliverable, Unmasked
<1>10. CASE ExecPlain
  BY <1>10 DEF ExecPlain, ReportCoverage, Unmasked, InhibitInterrupts
<1>11. CASE ExecHlt
  BY <1>11 DEF ExecHlt, ReportCoverage
<1>12. CASE ExecCpuid
  BY <1>12 DEF ExecCpuid, ReportCoverage, Longjmp
<1>13. CASE ExecFault
  BY <1>13 DEF ExecFault, ReportCoverage, RaiseException, Longjmp, SetEFlags
<1>14. CASE StepCpuReturn
  BY <1>14 DEF StepCpuReturn
<1>15. CASE SyncToHypervisor
  BY <1>15 DEF SyncToHypervisor
<1>16. CASE KickerOn
  BY <1>16 DEF KickerOn
<1>17. CASE KickerOff
  BY <1>17 DEF KickerOff
<1>18. CASE SyncToBochs
  BY <1>18 DEF SyncToBochs, ReportCoverage
<1>19. CASE DispatchEmulate
  BY <1>19 DEF DispatchEmulate, Dispatch, EmulateExits
<1>20. CASE DispatchHalt
  BY <1>20 DEF DispatchHalt, Dispatch
<1>21. CASE DispatchCanceled
  BY <1>21 DEF DispatchCanceled, Dispatch, RegisterInterruptWindow
<1>22. CASE DispatchCpuid
  BY <1>22 DEF DispatchCpuid, Dispatch, CommitContext
<1>23. CASE DispatchInterruptWindow
  BY <1>23 DEF DispatchInterruptWindow, Dispatch
<1>24. CASE DispatchExceptionSnapshot
  BY <1>24 DEF DispatchExceptionSnapshot, Dispatch, CommitContext
<1>25. CASE DispatchExceptionLive
  BY <1>25 DEF DispatchExceptionLive, Dispatch
<1>26. CASE TakeSnapshot
  BY <1>26 DEF TakeSnapshot, Dispatch
<1>27. CASE DispatchUnhandled
  BY <1>27 DEF DispatchUnhandled, Dispatch
<1>28. CASE GuestStep
  BY <1>28 DEF GuestStep
<1>29. ASSUME NEW r \in GuestExits, GuestExit(r)
      PROVE  BorrowInv'
  BY <1>29 DEF GuestExit
<1>30. CASE CancelExit
  BY <1>30 DEF CancelExit
<1>31. CASE WindowExit
  BY <1>31 DEF WindowExit
<1>32. CASE KickerWait
  BY <1>32 DEF KickerWait, kickerUnchanged
<1>33. CASE KickerSpin
  BY <1>33 DEF KickerSpin, kickerUnchanged
<1>34. CASE KickerCheck
  BY <1>34 DEF KickerCheck, kickerUnchanged
<1>35. CASE KickerCancel
  BY <1>35 DEF KickerCancel, kickerUnchanged
<1>36. CASE UNCHANGED vars
  BY <1>36 DEF vars
<1>. QED
  BY <1>1, <1>2, <1>3, <1>4, <1>5, <1>6, <1>7, <1>8, <1>9, <1>10, <1>11, <1>12,
     <1>13, <1>14, <1>15, <1>16, <1>17, <1>18, <1>19, <1>20, <1>21, <1>22, <1>23, <1>24,
     <1>25, <1>26, <1>27, <1>28, <1>29, <1>30, <1>31, <1>32, <1>33, <1>34, <1>35, <1>36
     DEF Next, Emulator, Guest, Hypervisor, Kicker

\* As long as no guest exception is raised from inside step_device(), where
\* PERSIST is borrowed, no longjmp and no amount of coverage makes the loop
\* panic in borrow_mut() or in the check of `emulating`.
THEOREM LoopNeverPanics ==
  ASSUME "device" \notin Faults
  PROVE  Spec => []NoPanic
<1>1. Init => BorrowInv
  BY DEF Init, BorrowInv, LoopPCs, DevicePCs, CpuPCs
<1>2. ControlInv /\ BorrowInv /\ [Next]_vars => BorrowInv'
  BY BorrowStep
<1>3. BorrowInv => NoPanic
  BY DEF BorrowInv, NoPanic
<1>. QED
  BY <1>1, <1>2, <1>3, ControlAlways, PTL DEF Spec

-----------------------------------------------------------------------------
(* Register freshness.                                                     *)

\* Which copy must hold the newest registers at each point of the loop, and
\* that a #DB exit only happens to a guest that causes them.
FreshInv ==
  /\ pc \in {"entry", "top", "decide", "sync", "dispatch"} \cup DevicePCs \cup CpuPCs
        => "bochs" \in fresh
  /\ pc \in {"kick", "run", "unkick", "resync"} => "hyp" \in fresh
  /\ vmexit = "Exception" => "Exception" \in Exits

\* Every action keeps FreshInv unless it is the live-mode #DB arm.
LEMMA FreshStep ==
  ASSUME Snapshot \/ "Exception" \notin Exits
  PROVE  FreshInv /\ [Next]_vars => FreshInv'
<1>. SUFFICES ASSUME FreshInv, [Next]_vars PROVE FreshInv'
  OBVIOUS
<1>. USE DEF FreshInv, DevicePCs, CpuPCs, Copies, loopVars, regVars, bochsVars, whvpVars, kickVars
<1>1. CASE Enter
  BY <1>1 DEF Enter
<1>2. ASSUME NEW n \in 0..MaxTicks, SyncDevices(n)
      PROVE  FreshInv'
  BY <1>2 DEF SyncDevices
<1>3. CASE DeviceAsync
  BY <1>3 DEF DeviceAsync, HandleAsyncEvent, Deliverable, Unmasked
<1>4. CASE DeviceFault
  BY <1>4 DEF DeviceFault, RaiseException, Longjmp, SetEFlags, Deliverable, Unmasked
<1>5. CASE DeviceTick
  BY <1>5 DEF DeviceTick
<1>6. CASE DeviceDone
  BY <1>6 DEF DeviceDone
<1>7. CASE Decide
  BY <1>7 DEF Decide, MinOf
<1>8. CASE CpuAsync
  BY <1>8 DEF CpuAsync, HandleAsyncEvent, Deliverable, Unmasked
<1>9. CASE CpuAsyncFault
  BY <1>9 DEF CpuAsyncFault, RaiseException, Longjmp, SetEFlags, Deliverable, Unmasked
<1>10. CASE ExecPlain
  BY <1>10 DEF ExecPlain, ReportCoverage, Unmasked, InhibitInterrupts
<1>11. CASE ExecHlt
  BY <1>11 DEF ExecHlt, ReportCoverage
<1>12. CASE ExecCpuid
  BY <1>12 DEF ExecCpuid, ReportCoverage, Longjmp
<1>13. CASE ExecFault
  BY <1>13 DEF ExecFault, ReportCoverage, RaiseException, Longjmp, SetEFlags
<1>14. CASE StepCpuReturn
  BY <1>14 DEF StepCpuReturn
<1>15. CASE SyncToHypervisor
  BY <1>15 DEF SyncToHypervisor
<1>16. CASE KickerOn
  BY <1>16 DEF KickerOn
<1>17. CASE KickerOff
  BY <1>17 DEF KickerOff
<1>18. CASE SyncToBochs
  BY <1>18 DEF SyncToBochs, ReportCoverage
<1>19. CASE DispatchEmulate
  BY <1>19 DEF DispatchEmulate, Dispatch, EmulateExits
<1>20. CASE DispatchHalt
  BY <1>20 DEF DispatchHalt, Dispatch
<1>21. CASE DispatchCanceled
  BY <1>21 DEF DispatchCanceled, Dispatch, RegisterInterruptWindow
<1>22. CASE DispatchCpuid
  BY <1>22 DEF DispatchCpuid, Dispatch, CommitContext
<1>23. CASE DispatchInterruptWindow
  BY <1>23 DEF DispatchInterruptWindow, Dispatch
<1>24. CASE DispatchExceptionSnapshot
  BY <1>24 DEF DispatchExceptionSnapshot, Dispatch, CommitContext
<1>25. CASE DispatchExceptionLive
  BY <1>25 DEF DispatchExceptionLive, Dispatch
<1>26. CASE TakeSnapshot
  BY <1>26 DEF TakeSnapshot, Dispatch
<1>27. CASE DispatchUnhandled
  BY <1>27 DEF DispatchUnhandled, Dispatch
<1>28. CASE GuestStep
  BY <1>28 DEF GuestStep
<1>29. ASSUME NEW r \in GuestExits, GuestExit(r)
      PROVE  FreshInv'
  BY <1>29 DEF GuestExit
<1>30. CASE CancelExit
  BY <1>30 DEF CancelExit
<1>31. CASE WindowExit
  BY <1>31 DEF WindowExit
<1>32. CASE KickerWait
  BY <1>32 DEF KickerWait, kickerUnchanged
<1>33. CASE KickerSpin
  BY <1>33 DEF KickerSpin, kickerUnchanged
<1>34. CASE KickerCheck
  BY <1>34 DEF KickerCheck, kickerUnchanged
<1>35. CASE KickerCancel
  BY <1>35 DEF KickerCancel, kickerUnchanged
<1>36. CASE UNCHANGED vars
  BY <1>36 DEF vars
<1>. QED
  BY <1>1, <1>2, <1>3, <1>4, <1>5, <1>6, <1>7, <1>8, <1>9, <1>10, <1>11, <1>12,
     <1>13, <1>14, <1>15, <1>16, <1>17, <1>18, <1>19, <1>20, <1>21, <1>22, <1>23, <1>24,
     <1>25, <1>26, <1>27, <1>28, <1>29, <1>30, <1>31, <1>32, <1>33, <1>34, <1>35, <1>36
     DEF Next, Emulator, Guest, Hypervisor, Kicker

\* When running from a snapshot, or with a guest that takes no #DB exit, the
\* side about to advance the guest always holds the newest registers.
THEOREM RegistersStayInSync ==
  ASSUME Snapshot \/ "Exception" \notin Exits
  PROVE  Spec => []FreshRegisters
<1>1. Init => FreshInv
  BY DEF Init, FreshInv, DevicePCs, CpuPCs
<1>2. FreshInv /\ [Next]_vars => FreshInv'
  BY FreshStep
<1>3. FreshInv => FreshRegisters
  BY DEF FreshInv, FreshRegisters
<1>. QED
  BY <1>1, <1>2, <1>3, PTL DEF Spec
=============================================================================
