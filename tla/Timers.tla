------------------------------- MODULE Timers -------------------------------
(***************************************************************************)
(* The timers of bx_pc_system_c: one countdown of 32 bits to the earliest  *)
(* of all deadlines, shortened when a device arms an earlier one, and      *)
(* recomputed when it ends, before the callbacks are made that may arm and *)
(* disarm timers themselves.  step_device() ticks them to keep up with the *)
(* wall clock (an emulated access to the sound card's ports ticks, too, and *)
(* other instructions do not), and restore() sets them back.               *)
(***************************************************************************)
EXTENDS Integers, FiniteSets, FiniteSetsExt

CONSTANTS
  MaxTimers,    \* BX_MAX_TIMERS
  NullInterval, \* NullTimerInterval, the largest value of a countdown
  Periods,      \* periods that devices ask for
  Deltas,       \* numbers of ticks passed to tickn()
  MaxTime,      \* bound: the clock
  MaxOps        \* bound: timers armed or disarmed

ASSUME TimersAssumption ==
  /\ MaxTimers \in Nat \ {0}
  /\ NullInterval \in Nat \ {0}
  /\ Periods \subseteq Nat
  /\ Deltas \subseteq Nat
  /\ MaxTime \in Nat
  /\ MaxOps \in Nat

Timer == 0 .. MaxTimers - 1
MinAllowableTimerPeriod == 1
\* Bit32u()
Bits32(n) == n % (NullInterval + 1)

VARIABLES
  timer,               \* timer[]
  numTimers,
  ticksTotal,
  currCountdown,
  currCountdownPeriod,
  saved,               \* the copy of these that restore() goes back to
  left,                \* n of tickn()
  triggered,           \* callbacks still to be made by countdownEvent()
  pc,
  ops                  \* operations so far

clockVars == <<ticksTotal, currCountdown, currCountdownPeriod>>
state == <<timer, numTimers, clockVars>>
vars == <<state, saved, left, triggered, pc, ops>>

\* time_ticks()
Now == ticksTotal + (currCountdownPeriod - currCountdown)

Unused == [inUse |-> FALSE, period |-> 0, timeToFire |-> 0, active |-> FALSE,
           continuous |-> FALSE]
NullTimer == [inUse |-> TRUE, period |-> NullInterval, timeToFire |-> NullInterval,
              active |-> TRUE, continuous |-> TRUE]

\* What restore() brings back: numTimers is not among the registered states.
Fields == [timer |-> timer, ticksTotal |-> ticksTotal, currCountdown |-> currCountdown,
           currCountdownPeriod |-> currCountdownPeriod]

Init ==
  /\ timer = [i \in Timer |-> IF i = 0 THEN NullTimer ELSE Unused]
  /\ numTimers = 1
  /\ ticksTotal = 0
  /\ currCountdown = NullInterval
  /\ currCountdownPeriod = NullInterval
  /\ saved = Fields
  /\ left = 0
  /\ triggered = {}
  /\ pc = "init"
  /\ ops = 0

-----------------------------------------------------------------------------
(* Operations of devices.                                                  *)

\* Mutant of Skew: the countdown is never shortened.
SkewNot(ticks) == UNCHANGED clockVars

\* A timer that is to fire in so many ticks shortens the countdown if need be.
Skew(ticks) ==
  /\ \/ /\ ticks < currCountdown
        /\ currCountdownPeriod' = currCountdownPeriod - (currCountdown - Bits32(ticks))
        /\ currCountdown' = Bits32(ticks)
     \/ /\ ticks >= currCountdown
        /\ UNCHANGED <<currCountdown, currCountdownPeriod>>
  /\ UNCHANGED ticksTotal

Sane(ticks) == Max({ticks, MinAllowableTimerPeriod})

\* register_timer_ticks(), while the devices are initialised.
RegisterTimer(ticks, active, continuous) ==
  LET free == {i \in 1 .. numTimers - 1 : ~timer[i].inUse}
      i    == IF free = {} THEN numTimers ELSE Min(free)
  IN  /\ pc = "init"
      /\ numTimers < MaxTimers \* else a panic
      /\ timer' = [timer EXCEPT ![i] =
           [inUse |-> TRUE, period |-> Sane(ticks), timeToFire |-> Now + Sane(ticks),
            active |-> active, continuous |-> continuous]]
      /\ numTimers' = IF i = numTimers THEN numTimers + 1 ELSE numTimers
      /\ IF active THEN Skew(Sane(ticks)) ELSE UNCHANGED clockVars
      /\ UNCHANGED <<saved, left, triggered, pc, ops>>

\* unregisterTimer(), when a plugin is unloaded; refused for an active timer.
UnregisterTimer(i) ==
  /\ pc = "init"
  /\ i \in 1 .. numTimers - 1
  /\ timer[i].inUse /\ ~timer[i].active
  /\ ops < MaxOps
  /\ timer' = [timer EXCEPT ![i] = Unused]
  /\ numTimers' = IF i = numTimers - 1 THEN numTimers - 1 ELSE numTimers
  /\ ops' = ops + 1
  /\ UNCHANGED <<clockVars, saved, left, triggered, pc>>

\* The first entry of the CPU loop in a snapshot session copies the registered
\* states, module DeviceState.  The process has initialised its devices and then
\* loaded what register_state() names, the clock and all fields of the timers,
\* from a snapshot that another process with the same devices saved between two
\* instructions: it goes on from the state that process was in, whatever its
\* clock had reached.
Save ==
  /\ pc \in {"init", "idle"}
  /\ saved' = Fields
  /\ pc' = "idle"
  /\ UNCHANGED <<state, left, triggered, ops>>

\* Devices are programmed between instructions or from a callback.
Device(i) ==
  /\ pc \in {"idle", "callback"}
  /\ ops < MaxOps
  /\ i \in 1 .. numTimers - 1
  /\ timer[i].inUse
  /\ ops' = ops + 1
  /\ UNCHANGED <<numTimers, saved, left, triggered, pc>>

\* activate_timer() and its variants: with no time given, the timer's period.
ActivateTimer(i, ticks, continuous) ==
  LET t == IF ticks = 0 THEN timer[i].period ELSE Sane(ticks)
  IN  /\ Device(i)
      /\ timer' = [timer EXCEPT ![i] = [@ EXCEPT !.period = t, !.timeToFire = Now + t,
                                                 !.active = TRUE, !.continuous = continuous]]
      /\ Skew(t)

DeactivateTimer(i) ==
  /\ Device(i)
  /\ timer[i].active
  /\ timer' = [timer EXCEPT ![i].active = FALSE]
  /\ UNCHANGED clockVars

-----------------------------------------------------------------------------
(* Time.                                                                   *)

\* tickn(): from step_device() with one tick, from isa_bus_delay() with more.
Tick(n) ==
  /\ pc = "idle"
  /\ Now + n <= MaxTime
  /\ left' = n
  /\ pc' = "tick"
  /\ UNCHANGED <<state, saved, triggered, ops>>

\* Mutant of Fired: a one-shot timer stays active.
FiredOnly(tm) == [tm EXCEPT !.timeToFire = IF tm.continuous THEN @ + tm.period ELSE @]

\* A timer that has fired: a one-shot timer is done, another one is armed anew.
Fired(tm) ==
  IF tm.continuous THEN [tm EXCEPT !.timeToFire = @ + tm.period]
  ELSE [tm EXCEPT !.active = FALSE]

\* countdownEvent() when the countdown has reached 0, up to the first callback.
CountdownEvent ==
  LET total == ticksTotal + currCountdownPeriod
      fired == {i \in 0 .. numTimers - 1 : timer[i].active /\ timer[i].timeToFire = total}
      after == [i \in Timer |-> IF i \in fired THEN Fired(timer[i]) ELSE timer[i]]
      least == Min({after[i].timeToFire : i \in {j \in 0 .. numTimers - 1 : after[j].active}})
  IN  /\ pc = "tick"
      /\ left >= currCountdown
      /\ left' = left - currCountdown
      /\ ticksTotal' = total
      /\ timer' = after
      /\ currCountdown' = Bits32(least - total)
      /\ currCountdownPeriod' = Bits32(least - total)
      /\ triggered' = fired
      /\ pc' = "callbacks"
      /\ UNCHANGED <<numTimers, saved, ops>>

\* The callbacks are made in order.  A timer that an earlier one disarms is
\* called all the same.
Callback ==
  /\ pc = "callbacks"
  /\ triggered # {}
  /\ triggered' = triggered \ {Min(triggered)}
  /\ pc' = "callback"
  /\ UNCHANGED <<state, saved, left, ops>>

CallbackReturns ==
  /\ pc = "callback"
  /\ pc' = "callbacks"
  /\ UNCHANGED <<state, saved, left, triggered, ops>>

EventDone ==
  /\ pc = "callbacks"
  /\ triggered = {}
  /\ pc' = "tick"
  /\ UNCHANGED <<state, saved, left, triggered, ops>>

TickDone ==
  /\ pc = "tick"
  /\ left < currCountdown
  /\ currCountdown' = currCountdown - left
  /\ left' = 0
  /\ pc' = "idle"
  /\ UNCHANGED <<timer, numTimers, ticksTotal, currCountdownPeriod, saved, triggered, ops>>

\* Mutant of Restore: the clock is not among the registered states.
RestoreTimersOnly ==
  /\ pc = "idle"
  /\ timer' = saved.timer
  /\ UNCHANGED <<numTimers, clockVars, saved, left, triggered, pc, ops>>

\* restore(), between instructions.
Restore ==
  /\ pc = "idle"
  /\ timer' = saved.timer
  /\ ticksTotal' = saved.ticksTotal
  /\ currCountdown' = saved.currCountdown
  /\ currCountdownPeriod' = saved.currCountdownPeriod
  /\ UNCHANGED <<numTimers, saved, left, triggered, pc, ops>>

Next ==
  \/ \E t \in Periods, a, c \in BOOLEAN : RegisterTimer(t, a, c)
  \/ \E i \in Timer : UnregisterTimer(i)
  \/ Save
  \/ \E i \in Timer, t \in Periods \cup {0}, c \in BOOLEAN : ActivateTimer(i, t, c)
  \/ \E i \in Timer : DeactivateTimer(i)
  \/ \E n \in Deltas : Tick(n)
  \/ CountdownEvent
  \/ Callback
  \/ CallbackReturns
  \/ EventDone
  \/ TickDone
  \/ Restore

Spec == Init /\ [][Next]_vars

-----------------------------------------------------------------------------
(* Properties.                                                             *)

\* Types.  The countdown fits 32 bits and is never 0 between two calls, though
\* deadlines may lie further ahead: the null timer sees to that.
TypeOK ==
  /\ \A i \in Timer : timer[i].period \in Nat /\ timer[i].timeToFire \in Nat
  /\ numTimers \in 1 .. MaxTimers
  /\ ticksTotal \in Nat
  /\ currCountdown \in 1 .. NullInterval
  /\ currCountdownPeriod \in currCountdown .. NullInterval
  /\ left \in Nat
  /\ triggered \subseteq Timer
  /\ pc \in {"init", "idle", "tick", "callbacks", "callback"}
  /\ ops \in 0 .. MaxOps

\* No timer is missed: countdownEvent() fires a timer only when the clock reads
\* exactly its timeToFire, so the end of the current countdown must never lie
\* behind the deadline of an active timer, whatever callbacks, devices and
\* restore() do, and no unused slot may be active.
NoneMissed ==
  \A i \in Timer : timer[i].active =>
    /\ timer[i].inUse /\ i < numTimers
    /\ timer[i].timeToFire >= ticksTotal + currCountdownPeriod

\* The timers implement TimerSpec: bx_pc_system_c calls every timer exactly when
\* time_ticks() reads its deadline, and restore() rewinds clock and deadlines
\* together.
Deadlines(tm) == [i \in Timer |-> IF tm[i].active THEN {tm[i].timeToFire} ELSE {}]
Abstract == INSTANCE TimerSpec WITH
  Timers <- Timer,
  now <- Now,
  due <- Deadlines(timer),
  owed <- triggered,
  mark <- [now |-> saved.ticksTotal + (saved.currCountdownPeriod - saved.currCountdown),
           due |-> Deadlines(saved.timer)]
ImplementsTimers == Abstract!Spec
=============================================================================
