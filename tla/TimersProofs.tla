---------------------------- MODULE TimersProofs ----------------------------
(***************************************************************************)
(* Proofs about the timers, for every number of timers, width of the       *)
(* countdown, set of periods and numbers of ticks.                         *)
(***************************************************************************)
EXTENDS Timers, WellFoundedInduction, TLAPS

TimerRecord == [inUse : BOOLEAN, period : Nat, timeToFire : Nat, active : BOOLEAN,
                continuous : BOOLEAN]

\* Timers tm, the first n of them in use, fit a clock that read total when the
\* countdown from period started and of which count is left.
InStep(tm, n, total, count, period) ==
  /\ tm \in [Timer -> TimerRecord]
  /\ total \in Nat
  /\ count \in 1 .. NullInterval
  /\ period \in count .. NullInterval
  \* The null timer keeps the next countdown from being longer than 32 bits hold.
  /\ tm[0].active /\ tm[0].inUse /\ tm[0].continuous
  /\ tm[0].period = NullInterval
  /\ tm[0].timeToFire <= total + NullInterval
  /\ \A i \in Timer : tm[i].inUse => tm[i].period >= 1
  /\ \A i \in Timer : tm[i].active =>
       tm[i].inUse /\ i < n /\ tm[i].timeToFire >= total + period

\* The timers, and the copy that restore() goes back to once there is one.
ClockInv ==
  /\ InStep(timer, numTimers, ticksTotal, currCountdown, currCountdownPeriod)
  /\ pc # "init" => InStep(saved.timer, numTimers, saved.ticksTotal, saved.currCountdown,
                           saved.currCountdownPeriod)

FlowInv ==
  /\ numTimers \in 1 .. MaxTimers
  /\ left \in Nat
  /\ triggered \subseteq Timer
  /\ pc \in {"init", "idle", "tick", "callbacks", "callback"}
  /\ pc \in {"init", "idle", "tick"} => triggered = {}
  /\ ops \in 0 .. MaxOps

\* The inductive invariant of the timers.
TimersInv == ClockInv /\ FlowInv

-----------------------------------------------------------------------------
(* Arithmetic.                                                             *)

\* Min() of a set of natural numbers is its least element.
LEMMA MinExists ==
  ASSUME NEW S, S \subseteq Nat, S # {}
  PROVE  Min(S) \in S /\ \A y \in S : Min(S) <= y
<1>. DEFINE R == {p \in Nat \X Nat : p[1] < p[2]}
<1>1. OpToRel(<, Nat) = R
  BY Zenon DEF OpToRel
<1>2. IsWellFoundedOn(R, Nat)
  BY <1>1, NatLessThanWellFounded, Zenon
<1>3. \A a, b \in Nat : a < b => <<a, b>> \in R
  OBVIOUS
<1>. HIDE DEF R
<1>4. PICK x \in S : \A y \in S : ~(<<y, x>> \in R)
  BY <1>2, WFMin, Zenon
<1>5. \A y \in S : y \in Nat /\ x \in Nat /\ ~(y < x)
  BY <1>3, <1>4, Zenon
<1>6. \A y \in S : x <= y
  BY <1>5
<1>. QED BY <1>5, <1>6 DEF Min

\* Bit32u() leaves a countdown as it is.
LEMMA FitsBits32 ==
  ASSUME NEW n \in 0 .. NullInterval
  PROVE  Bits32(n) = n
  BY TimersAssumption DEF Bits32

\* A period a device asks for is at least 1.
LEMMA SaneOK ==
  ASSUME NEW ticks \in Nat
  PROVE  Sane(ticks) \in Nat /\ Sane(ticks) >= 1
<1>. DEFINE S == {ticks, 1}
<1>1. \E x \in S : \A y \in S : x >= y
  <2>1. CASE ticks >= 1 BY <2>1
  <2>2. CASE ticks < 1 BY <2>2
  <2>. QED BY <2>1, <2>2
<1>2. Sane(ticks) \in S /\ \A y \in S : Sane(ticks) >= y
  BY <1>1 DEF Sane, Max, MinAllowableTimerPeriod
<1>. QED BY <1>2

-----------------------------------------------------------------------------
(* The steps.                                                              *)

\* The invariant holds at the start.
LEMMA TimersInit == Init => TimersInv
<1>. SUFFICES ASSUME Init PROVE TimersInv
  OBVIOUS
<1>1. NullTimer \in TimerRecord /\ Unused \in TimerRecord /\ 0 \in Timer
  BY TimersAssumption DEF NullTimer, Unused, TimerRecord, Timer
<1>2. ClockInv
  BY <1>1, TimersAssumption DEF Init, ClockInv, InStep, NullTimer, Unused
<1>3. FlowInv
  BY TimersAssumption DEF Init, FlowInv
<1>. QED BY <1>2, <1>3 DEF TimersInv

\* Arming timer i for t ticks from now, with the countdown shortened if need be,
\* keeps the other timers' deadlines and the new one ahead of the countdown, and
\* does not move the clock.
LEMMA SkewKeeps ==
  ASSUME InStep(timer, numTimers, ticksTotal, currCountdown, currCountdownPeriod),
         numTimers \in Nat,
         NEW i \in Timer, i # 0, NEW n \in Nat, i < n, numTimers <= n,
         NEW t \in Nat, t >= 1, Skew(t),
         NEW tm \in TimerRecord, tm.period >= 1, tm.inUse, tm.timeToFire = Now + t,
         timer' = [timer EXCEPT ![i] = tm]
  PROVE  /\ InStep(timer', n, ticksTotal', currCountdown', currCountdownPeriod')
         /\ Now' = Now
         /\ Now + t > Now
<1>. USE TimersAssumption
<1>1. /\ ticksTotal' = ticksTotal
      /\ currCountdown' \in 1 .. NullInterval
      /\ currCountdownPeriod' \in currCountdown' .. NullInterval
      /\ currCountdownPeriod' <= currCountdownPeriod
      /\ currCountdownPeriod' - currCountdown' = currCountdownPeriod - currCountdown
      /\ currCountdown' <= t
  <2>1. CASE t < currCountdown
    <3>1. Bits32(t) = t
      BY <2>1, FitsBits32 DEF InStep
    <3>. QED BY <2>1, <3>1 DEF Skew, InStep
  <2>2. CASE t >= currCountdown
    BY <2>2 DEF Skew, InStep
  <2>. QED BY <2>1, <2>2 DEF InStep
<1>2. /\ ticksTotal \in Nat /\ currCountdown \in Nat /\ currCountdownPeriod \in Nat
      /\ currCountdown' \in Nat /\ currCountdownPeriod' \in Nat
  BY <1>1 DEF InStep
<1>3. Now' = Now /\ Now + t > Now /\ Now + t >= ticksTotal + currCountdownPeriod'
  <2>1. Now' = ticksTotal + (currCountdownPeriod' - currCountdown')
    BY <1>1 DEF Now
  <2>2. Now' = Now
    BY <1>1, <2>1 DEF Now
  <2>3. Now \in Int /\ Now + t > Now
    BY <1>2 DEF Now
  <2>4. Now + t >= ticksTotal + currCountdownPeriod'
    <3>1. Now = ticksTotal + (currCountdownPeriod' - currCountdown') /\ currCountdown' <= t
      BY <1>1, <2>1, <2>2
    <3>2. \A a, b, c, d \in Nat : c <= d => a + (b - c) + d >= a + b
      OBVIOUS
    <3>. QED BY <1>2, <3>1, <3>2
  <2>. QED BY <2>2, <2>3, <2>4
<1>4. /\ timer' \in [Timer -> TimerRecord]
      /\ timer'[i] = tm
      /\ \A j \in Timer : j # i => timer'[j] = timer[j]
      /\ timer'[0] = timer[0]
  BY DEF InStep, Timer
<1>5. ASSUME NEW j \in Timer, timer'[j].active
      PROVE  timer'[j].inUse /\ j < n /\ timer'[j].timeToFire >= ticksTotal' + currCountdownPeriod'
  <2>1. CASE j = i
    BY <1>1, <1>3, <1>4, <2>1
  <2>2. CASE j # i
    <3>1. /\ timer[j].inUse /\ j < numTimers
          /\ timer[j].timeToFire >= ticksTotal + currCountdownPeriod
          /\ timer[j].timeToFire \in Nat
      BY <1>4, <1>5, <2>2 DEF InStep, TimerRecord
    <3>. QED BY <1>1, <1>2, <1>4, <2>2, <3>1 DEF Timer
  <2>. QED BY <2>1, <2>2
<1>6. \A j \in Timer : timer'[j].inUse => timer'[j].period >= 1
  BY <1>4 DEF InStep
<1>7. InStep(timer', n, ticksTotal', currCountdown', currCountdownPeriod')
  BY <1>1, <1>4, <1>5, <1>6 DEF InStep
<1>. QED BY <1>3, <1>7

\* A countdown ends: what fires is armed anew or disarmed, and the countdown to
\* the next deadline is between 1 and NullInterval.
LEMMA EventKeeps ==
  ASSUME TimersInv, CountdownEvent
  PROVE  LET total == ticksTotal + currCountdownPeriod
             fired == {i \in 0 .. numTimers - 1 : timer[i].active /\ timer[i].timeToFire = total}
         IN  /\ ticksTotal' = total
             /\ triggered' = fired
             /\ fired \subseteq Timer
             /\ \A i \in Timer : timer'[i] = IF i \in fired THEN Fired(timer[i]) ELSE timer[i]
             /\ \A i \in Timer : timer'[i].active => timer'[i].timeToFire > total
             /\ currCountdown' = currCountdownPeriod'
             /\ InStep(timer', numTimers, ticksTotal', currCountdown', currCountdownPeriod')
<1>. DEFINE total == ticksTotal + currCountdownPeriod
            fired == {i \in 0 .. numTimers - 1 : timer[i].active /\ timer[i].timeToFire = total}
            after == [i \in Timer |-> IF i \in fired THEN Fired(timer[i]) ELSE timer[i]]
            live  == {j \in 0 .. numTimers - 1 : after[j].active}
            ends  == {after[i].timeToFire : i \in live}
            least == Min(ends)
<1>. USE TimersAssumption
<1>1. /\ ticksTotal' = total /\ triggered' = fired /\ timer' = after
      /\ currCountdown' = Bits32(least - total)
      /\ currCountdownPeriod' = Bits32(least - total)
  BY DEF CountdownEvent
<1>2. /\ numTimers \in 1 .. MaxTimers
      /\ InStep(timer, numTimers, ticksTotal, currCountdown, currCountdownPeriod)
  BY DEF TimersInv, ClockInv, FlowInv
<1>3. total \in Nat /\ total > ticksTotal /\ total <= ticksTotal + NullInterval
  BY <1>2 DEF InStep
<1>4. 0 \in Timer /\ 0 \in 0 .. numTimers - 1 /\ 0 .. numTimers - 1 \subseteq Timer
  BY <1>2 DEF Timer
<1>5. fired \subseteq Timer
  BY <1>4
<1>6. timer \in [Timer -> TimerRecord]
  BY <1>2 DEF InStep
<1>. HIDE DEF total
\* What a firing does to one timer.
<1>7. ASSUME NEW i \in Timer
      PROVE  /\ after[i] \in TimerRecord
             /\ after[i].inUse = timer[i].inUse
             /\ after[i].continuous = timer[i].continuous
             /\ after[i].period = timer[i].period
             /\ after[i].active => timer[i].active /\ after[i].timeToFire > total
             /\ timer[i].continuous => after[i].active = timer[i].active
             /\ i \in fired /\ timer[i].continuous => after[i].timeToFire = total + timer[i].period
             /\ i \notin fired => after[i].timeToFire = timer[i].timeToFire
  <2>1. timer[i] \in TimerRecord /\ after[i] = IF i \in fired THEN Fired(timer[i]) ELSE timer[i]
    BY <1>6
  <2>2. CASE i \notin fired
    <3>1. after[i] = timer[i]
      BY <2>1, <2>2
    <3>2. timer[i].active => timer[i].timeToFire >= total /\ i < numTimers
      BY <1>2 DEF InStep, total
    <3>3. timer[i].active => timer[i].timeToFire # total
      BY <2>2, <3>2, <1>2 DEF Timer
    <3>4. timer[i].timeToFire \in Nat
      BY <2>1 DEF TimerRecord
    <3>5. timer[i].active => timer[i].timeToFire > total
      BY <1>3, <3>2, <3>3, <3>4
    <3>. HIDE DEF fired, after
    <3>. QED BY <2>1, <2>2, <3>1, <3>5, Zenon
  <2>3. CASE i \in fired
    <3>1. timer[i].active /\ timer[i].timeToFire = total
      BY <2>3
    <3>2. timer[i].inUse /\ timer[i].period >= 1 /\ timer[i].period \in Nat
      BY <1>2, <2>1, <3>1 DEF InStep, TimerRecord
    <3>3. CASE timer[i].continuous
      <4>1. after[i] = [timer[i] EXCEPT !.timeToFire = total + timer[i].period]
        BY <2>1, <2>3, <3>1, <3>3 DEF Fired
      <4>. DEFINE deadline == total + timer[i].period
      <4>2. deadline \in Nat /\ deadline > total
        BY <1>3, <3>2
      <4>. HIDE DEF fired, after, deadline
      <4>3. after[i] = [timer[i] EXCEPT !.timeToFire = deadline]
        BY <4>1 DEF deadline
      <4>4. after[i].timeToFire = deadline /\ after[i] \in TimerRecord
        BY <2>1, <4>2, <4>3 DEF TimerRecord
      <4>5. /\ after[i].inUse = timer[i].inUse /\ after[i].continuous = timer[i].continuous
            /\ after[i].period = timer[i].period /\ after[i].active = timer[i].active
        BY <2>1, <4>3 DEF TimerRecord
      <4>. QED BY <2>3, <3>1, <4>2, <4>4, <4>5 DEF deadline
    <3>4. CASE ~timer[i].continuous
      <4>1. after[i] = [timer[i] EXCEPT !.active = FALSE]
        BY <2>1, <2>3, <3>4 DEF Fired
      <4>. HIDE DEF fired, after
      <4>. QED BY <2>1, <2>3, <3>4, <4>1 DEF TimerRecord
    <3>. QED BY <3>3, <3>4
  <2>. QED BY <2>2, <2>3
<1>8. after \in [Timer -> TimerRecord]
  <2>. HIDE DEF fired
  <2>1. after = [i \in Timer |-> after[i]]
    OBVIOUS
  <2>. HIDE DEF after
  <2>. QED BY <1>7, <2>1
\* The null timer bounds the next deadline.
<1>9. /\ after[0].active /\ after[0].inUse /\ after[0].continuous
      /\ after[0].period = NullInterval
      /\ after[0].timeToFire <= total + NullInterval
  <2>. HIDE DEF fired, after
  <2>1. /\ timer[0].active /\ timer[0].inUse /\ timer[0].continuous
        /\ timer[0].period = NullInterval /\ timer[0].timeToFire <= ticksTotal + NullInterval
        /\ timer[0].timeToFire \in Nat /\ ticksTotal \in Nat
    BY <1>2, <1>4, <1>6 DEF InStep, TimerRecord
  <2>2. CASE 0 \in fired
    BY <1>3, <1>4, <1>7, <2>1, <2>2
  <2>3. CASE 0 \notin fired
    BY <1>3, <1>4, <1>7, <2>1, <2>3
  <2>. QED BY <2>2, <2>3
<1>. HIDE DEF fired, after
<1>10. ends \subseteq Nat /\ after[0].timeToFire \in ends
  BY <1>4, <1>8, <1>9 DEF TimerRecord
<1>11. least \in ends /\ \A d \in ends : least <= d
  <2>. HIDE DEF ends
  <2>. QED BY <1>10, MinExists
<1>12. PICK k \in live : least = after[k].timeToFire
  BY <1>11
<1>13. least \in Nat /\ least > total /\ least <= total + NullInterval
  <2>. HIDE DEF ends, least
  <2>1. least \in Nat /\ after[0].timeToFire \in Nat /\ least <= after[0].timeToFire
    BY <1>10, <1>11
  <2>2. k \in Timer /\ after[k].active
    BY <1>4, <1>12
  <2>. QED BY <1>3, <1>7, <1>9, <1>12, <2>1, <2>2
<1>14. \A i \in Timer : after[i].active => after[i].inUse /\ i < numTimers /\ after[i].timeToFire >= least
  <2>1. ASSUME NEW i \in Timer, after[i].active
        PROVE  after[i].inUse /\ i < numTimers /\ after[i].timeToFire >= least
    <3>1. timer[i].active
      BY <1>7, <2>1
    <3>2. timer[i].inUse /\ i < numTimers
      BY <1>2, <3>1 DEF InStep
    <3>3. i \in live
      BY <1>2, <2>1, <3>2 DEF Timer
    <3>4. after[i].timeToFire \in ends
      BY <3>3
    <3>. HIDE DEF ends, least
    <3>5. least <= after[i].timeToFire /\ after[i].timeToFire \in Nat
      BY <1>10, <1>11, <3>4
    <3>. QED BY <1>7, <1>13, <3>2, <3>5
  <2>. QED BY <2>1
<1>. HIDE DEF least, ends
<1>15. least - total \in 1 .. NullInterval /\ total + (least - total) = least
  BY <1>3, <1>13
<1>16. Bits32(least - total) = least - total
  BY <1>15, FitsBits32
<1>17. \A i \in Timer : after[i].inUse => after[i].period >= 1
  BY <1>2, <1>7 DEF InStep
<1>18. InStep(after, numTimers, total, least - total, least - total)
  BY <1>3, <1>8, <1>9, <1>14, <1>15, <1>17 DEF InStep
<1>19. \A i \in Timer : after[i] = IF i \in fired THEN Fired(timer[i]) ELSE timer[i]
  BY DEF after
<1>20. \A i \in Timer : after[i].active => after[i].timeToFire > total
  BY <1>7
<1>. QED BY <1>1, <1>5, <1>16, <1>18, <1>19, <1>20 DEF total, fired

\* register_timer_ticks() takes a slot that no active timer has.
LEMMA RegisterKeeps ==
  ASSUME TimersInv, NEW ticks \in Nat, NEW a \in BOOLEAN, NEW c \in BOOLEAN,
         RegisterTimer(ticks, a, c)
  PROVE  /\ TimersInv'
         /\ Now' = Now
         /\ \E i \in Timer :
              /\ \A j \in Timer \ {i} : timer'[j] = timer[j]
              /\ timer'[i].active => timer'[i].timeToFire > Now
<1>. DEFINE free == {j \in 1 .. numTimers - 1 : ~timer[j].inUse}
            i    == IF free = {} THEN numTimers ELSE Min(free)
            t    == Sane(ticks)
            tm   == [inUse |-> TRUE, period |-> t, timeToFire |-> Now + t,
                     active |-> a, continuous |-> c]
<1>. USE TimersAssumption
<1>1. /\ pc = "init" /\ numTimers < MaxTimers
      /\ timer' = [timer EXCEPT ![i] = tm]
      /\ numTimers' = IF i = numTimers THEN numTimers + 1 ELSE numTimers
      /\ IF a THEN Skew(t) ELSE UNCHANGED clockVars
      /\ UNCHANGED <<saved, left, triggered, pc, ops>>
  BY DEF RegisterTimer
<1>2. /\ numTimers \in 1 .. MaxTimers
      /\ InStep(timer, numTimers, ticksTotal, currCountdown, currCountdownPeriod)
  BY DEF TimersInv, ClockInv, FlowInv
<1>3. i \in Nat /\ i \in 1 .. numTimers
  <2>1. CASE free = {}
    BY <1>2, <2>1
  <2>2. CASE free # {}
    <3>1. free \subseteq Nat
      OBVIOUS
    <3>2. Min(free) \in free
      <4>. HIDE DEF free
      <4>. QED BY <2>2, <3>1, MinExists
    <3>. QED BY <1>2, <2>2, <3>2
  <2>. QED BY <2>1, <2>2
<1>. HIDE DEF i
<1>4. i \in Timer /\ i # 0 /\ i < numTimers' /\ numTimers' \in 1 .. MaxTimers /\ numTimers <= numTimers'
  BY <1>1, <1>2, <1>3 DEF Timer
<1>5. t \in Nat /\ t >= 1
  BY SaneOK
<1>6. ticksTotal \in Nat /\ Now \in Nat /\ Now >= ticksTotal
  BY <1>2 DEF Now, InStep
<1>. HIDE DEF t
<1>7. /\ tm \in TimerRecord /\ tm.period = t /\ tm.inUse /\ tm.timeToFire = Now + t
      /\ tm.active = a
  BY <1>5, <1>6 DEF TimerRecord
<1>. HIDE DEF tm
<1>8. timer \in [Timer -> TimerRecord]
  BY <1>2 DEF InStep
<1>9. timer'[i] = tm /\ \A j \in Timer : j # i => timer'[j] = timer[j]
  BY <1>1, <1>4, <1>8
<1>10. /\ InStep(timer', numTimers', ticksTotal', currCountdown', currCountdownPeriod')
       /\ Now' = Now
       /\ Now + t > Now
  <2>1. CASE a
    <3>1. Skew(t) BY <1>1, <2>1
    <3>2. numTimers' \in Nat /\ numTimers \in Nat
      BY <1>2, <1>4
    <3>. QED BY <1>1, <1>2, <1>4, <1>5, <1>7, <3>1, <3>2, SkewKeeps
  <2>2. CASE ~a
    <3>1. UNCHANGED <<ticksTotal, currCountdown, currCountdownPeriod>>
      BY <1>1, <2>2 DEF clockVars
    <3>2. timer' \in [Timer -> TimerRecord] /\ timer'[0] = timer[0]
      BY <1>1, <1>4, <1>7, <1>8, <1>9 DEF Timer
    <3>3. \A j \in Timer : timer'[j].inUse => timer'[j].period >= 1
      BY <1>2, <1>5, <1>7, <1>9 DEF InStep
    <3>4. ASSUME NEW j \in Timer, timer'[j].active
          PROVE  /\ timer'[j].inUse /\ j < numTimers'
                 /\ timer'[j].timeToFire >= ticksTotal + currCountdownPeriod
      <4>1. j # i
        BY <1>7, <1>9, <2>2, <3>4
      <4>. QED BY <1>2, <1>4, <1>9, <3>4, <4>1 DEF InStep, Timer
    <3>5. InStep(timer', numTimers', ticksTotal', currCountdown', currCountdownPeriod')
      BY <1>2, <3>1, <3>2, <3>3, <3>4 DEF InStep
    <3>6. Now' = Now
      BY <3>1 DEF Now
    <3>. QED BY <1>5, <1>6, <3>5, <3>6
  <2>. QED BY <2>1, <2>2
<1>11. ClockInv'
  BY <1>1, <1>10 DEF ClockInv
<1>12. FlowInv'
  BY <1>1, <1>4 DEF TimersInv, FlowInv
<1>. QED BY <1>4, <1>7, <1>9, <1>10, <1>11, <1>12 DEF TimersInv

\* Devices arm only timers that are theirs.
LEMMA ActivateKeeps ==
  ASSUME TimersInv, NEW i \in Timer, NEW ticks \in Nat, NEW c \in BOOLEAN,
         ActivateTimer(i, ticks, c)
  PROVE  /\ TimersInv'
         /\ Now' = Now
         /\ \A j \in Timer \ {i} : timer'[j] = timer[j]
         /\ timer'[i].active => timer'[i].timeToFire > Now
<1>. DEFINE t  == IF ticks = 0 THEN timer[i].period ELSE Sane(ticks)
            tm == [timer[i] EXCEPT !.period = t, !.timeToFire = Now + t,
                                   !.active = TRUE, !.continuous = c]
<1>. USE TimersAssumption
<1>1. /\ pc # "init" /\ i \in 1 .. numTimers - 1 /\ timer[i].inUse
      /\ timer' = [timer EXCEPT ![i] = tm]
      /\ Skew(t)
      /\ ops < MaxOps /\ ops' = ops + 1
      /\ UNCHANGED <<numTimers, saved, left, triggered, pc>>
  BY DEF ActivateTimer, Device
<1>2. /\ numTimers \in 1 .. MaxTimers
      /\ InStep(timer, numTimers, ticksTotal, currCountdown, currCountdownPeriod)
  BY DEF TimersInv, ClockInv, FlowInv
<1>3. timer \in [Timer -> TimerRecord] /\ timer[i] \in TimerRecord
  BY <1>2 DEF InStep
<1>4. t \in Nat /\ t >= 1
  <2>1. timer[i].period \in Nat /\ timer[i].period >= 1
    BY <1>1, <1>2, <1>3 DEF InStep, TimerRecord
  <2>. QED BY <2>1, SaneOK
<1>5. Now \in Nat
  BY <1>2 DEF Now, InStep
<1>. HIDE DEF t
<1>6. Now + t \in Nat
  BY <1>4, <1>5
<1>7. /\ tm \in TimerRecord /\ tm.period = t /\ tm.inUse = timer[i].inUse
      /\ tm.timeToFire = Now + t
  BY <1>3, <1>4, <1>6 DEF TimerRecord
<1>. HIDE DEF tm
<1>8. timer'[i] = tm /\ \A j \in Timer : j # i => timer'[j] = timer[j]
  BY <1>1, <1>3
<1>9. i # 0 /\ numTimers \in Nat /\ i < numTimers /\ numTimers <= numTimers
  BY <1>1, <1>2
<1>10. tm.period >= 1 /\ tm.inUse
  BY <1>1, <1>4, <1>7
<1>11. /\ InStep(timer', numTimers, ticksTotal', currCountdown', currCountdownPeriod')
       /\ Now' = Now
       /\ Now + t > Now
  BY <1>1, <1>2, <1>4, <1>7, <1>9, <1>10, SkewKeeps
<1>12. ClockInv'
  BY <1>1, <1>11 DEF TimersInv, ClockInv
<1>13. FlowInv'
  BY <1>1 DEF TimersInv, FlowInv
<1>. QED BY <1>7, <1>8, <1>11, <1>12, <1>13 DEF TimersInv

\* Taking an idle timer away or disarming one keeps the rest.
LEMMA DisarmKeeps ==
  ASSUME TimersInv, NEW i \in Timer, UnregisterTimer(i) \/ DeactivateTimer(i)
  PROVE  /\ TimersInv'
         /\ Now' = Now
         /\ \A j \in Timer \ {i} : timer'[j] = timer[j]
         /\ ~timer'[i].active
<1>. USE TimersAssumption
<1>1. /\ i \in 1 .. numTimers - 1
      /\ ops < MaxOps /\ ops' = ops + 1
      /\ UNCHANGED <<ticksTotal, currCountdown, currCountdownPeriod, saved, left, triggered, pc>>
  BY DEF UnregisterTimer, DeactivateTimer, Device, clockVars
<1>2. /\ numTimers \in 1 .. MaxTimers
      /\ InStep(timer, numTimers, ticksTotal, currCountdown, currCountdownPeriod)
  BY DEF TimersInv, ClockInv, FlowInv
<1>3. timer \in [Timer -> TimerRecord] /\ timer[i] \in TimerRecord
  BY <1>2 DEF InStep
<1>4. /\ timer' \in [Timer -> TimerRecord]
      /\ \A j \in Timer : j # i => timer'[j] = timer[j]
      /\ ~timer'[i].active
      /\ timer'[i].inUse => timer'[i].period = timer[i].period /\ timer[i].inUse
  <2>1. CASE UnregisterTimer(i)
    <3>1. Unused \in TimerRecord /\ ~Unused.active /\ ~Unused.inUse
      BY DEF Unused, TimerRecord
    <3>. QED BY <1>3, <2>1, <3>1 DEF UnregisterTimer
  <2>2. CASE DeactivateTimer(i)
    <3>. DEFINE tm == [timer[i] EXCEPT !.active = FALSE]
    <3>1. timer' = [timer EXCEPT ![i] = tm]
      BY <2>2 DEF DeactivateTimer
    <3>2. tm \in TimerRecord /\ ~tm.active /\ tm.inUse = timer[i].inUse /\ tm.period = timer[i].period
      BY <1>3 DEF TimerRecord
    <3>. HIDE DEF tm
    <3>. QED BY <1>3, <3>1, <3>2
  <2>. QED BY <2>1, <2>2
<1>5. /\ numTimers' \in 1 .. MaxTimers
      /\ pc # "init" => numTimers' = numTimers
      /\ \A j \in Timer : j # i /\ j < numTimers => j < numTimers'
  <2>1. CASE UnregisterTimer(i)
    BY <1>1, <1>2, <2>1 DEF UnregisterTimer, Timer
  <2>2. CASE DeactivateTimer(i)
    BY <1>2, <2>2 DEF DeactivateTimer, Device
  <2>. QED BY <2>1, <2>2
<1>6. timer'[0] = timer[0]
  BY <1>1, <1>4 DEF Timer
<1>7. \A j \in Timer : timer'[j].inUse => timer'[j].period >= 1
  BY <1>2, <1>4 DEF InStep
<1>8. \A j \in Timer : timer'[j].active =>
        timer'[j].inUse /\ j < numTimers' /\ timer'[j].timeToFire >= ticksTotal + currCountdownPeriod
  BY <1>2, <1>4, <1>5 DEF InStep
<1>9. InStep(timer', numTimers', ticksTotal', currCountdown', currCountdownPeriod')
  BY <1>1, <1>2, <1>4, <1>6, <1>7, <1>8 DEF InStep
<1>10. ClockInv'
  BY <1>1, <1>5, <1>9 DEF TimersInv, ClockInv
<1>11. FlowInv'
  BY <1>1, <1>5 DEF TimersInv, FlowInv
<1>12. Now' = Now
  BY <1>1 DEF Now
<1>. QED BY <1>4, <1>10, <1>11, <1>12 DEF TimersInv

\* Every step of the devices, the clock and restore() keeps the invariant.
LEMMA TimersStep == TimersInv /\ [Next]_vars => TimersInv'
<1>. SUFFICES ASSUME TimersInv, [Next]_vars PROVE TimersInv'
  OBVIOUS
<1>. USE TimersAssumption
<1>1. ASSUME NEW t \in Periods, NEW a \in BOOLEAN, NEW c \in BOOLEAN, RegisterTimer(t, a, c)
      PROVE  TimersInv'
  BY <1>1, RegisterKeeps
<1>2. ASSUME NEW i \in Timer, UnregisterTimer(i) PROVE TimersInv'
  BY <1>2, DisarmKeeps
<1>3. CASE Save
  <2>1. ClockInv'
    BY <1>3 DEF Save, Fields, state, clockVars, TimersInv, ClockInv
  <2>2. FlowInv'
    BY <1>3 DEF Save, state, clockVars, TimersInv, FlowInv
  <2>. QED BY <2>1, <2>2 DEF TimersInv
<1>4. ASSUME NEW i \in Timer, NEW t \in Periods \cup {0}, NEW c \in BOOLEAN, ActivateTimer(i, t, c)
      PROVE  TimersInv'
  <2>1. t \in Nat OBVIOUS
  <2>. QED BY <1>4, <2>1, ActivateKeeps
<1>5. ASSUME NEW i \in Timer, DeactivateTimer(i) PROVE TimersInv'
  BY <1>5, DisarmKeeps
<1>6. ASSUME NEW n \in Deltas, Tick(n) PROVE TimersInv'
  <2>1. ClockInv'
    BY <1>6 DEF Tick, state, clockVars, TimersInv, ClockInv
  <2>2. FlowInv'
    BY <1>6 DEF Tick, state, clockVars, TimersInv, FlowInv
  <2>. QED BY <2>1, <2>2 DEF TimersInv
<1>7. CASE CountdownEvent
  <2>1. /\ InStep(timer', numTimers, ticksTotal', currCountdown', currCountdownPeriod')
        /\ triggered' \subseteq Timer
    BY <1>7, EventKeeps
  <2>2. pc = "tick" /\ pc' = "callbacks" /\ UNCHANGED <<numTimers, saved, ops>>
    BY <1>7 DEF CountdownEvent
  <2>3. left' \in Nat
    BY <1>7 DEF CountdownEvent, TimersInv, FlowInv, ClockInv, InStep
  <2>4. ClockInv'
    BY <2>1, <2>2 DEF TimersInv, ClockInv
  <2>5. FlowInv'
    BY <2>1, <2>2, <2>3 DEF TimersInv, FlowInv
  <2>. QED BY <2>4, <2>5 DEF TimersInv
<1>8. CASE Callback \/ CallbackReturns \/ EventDone
  <2>1. /\ UNCHANGED <<timer, numTimers, ticksTotal, currCountdown, currCountdownPeriod, saved, left, ops>>
        /\ pc \in {"callbacks", "callback"}
        /\ triggered' \subseteq triggered
        /\ pc' \in {"callbacks", "callback"} \/ (pc' = "tick" /\ triggered' = {})
    BY <1>8 DEF Callback, CallbackReturns, EventDone, state, clockVars
  <2>2. ClockInv'
    BY <2>1 DEF TimersInv, ClockInv
  <2>3. FlowInv'
    BY <2>1 DEF TimersInv, FlowInv
  <2>. QED BY <2>2, <2>3 DEF TimersInv
<1>9. CASE TickDone
  <2>1. /\ left \in Nat /\ left < currCountdown /\ currCountdown' = currCountdown - left
        /\ UNCHANGED <<timer, numTimers, ticksTotal, currCountdownPeriod, saved, triggered, ops>>
        /\ pc = "tick" /\ pc' = "idle" /\ left' = 0
    BY <1>9 DEF TickDone, TimersInv, FlowInv
  <2>2. InStep(timer', numTimers', ticksTotal', currCountdown', currCountdownPeriod')
    BY <2>1 DEF TimersInv, ClockInv, InStep
  <2>3. ClockInv'
    BY <2>1, <2>2 DEF TimersInv, ClockInv
  <2>4. FlowInv'
    BY <2>1 DEF TimersInv, FlowInv
  <2>. QED BY <2>3, <2>4 DEF TimersInv
<1>10. CASE Restore
  <2>1. ClockInv'
    BY <1>10 DEF Restore, TimersInv, ClockInv
  <2>2. FlowInv'
    BY <1>10 DEF Restore, TimersInv, FlowInv
  <2>. QED BY <2>1, <2>2 DEF TimersInv
<1>11. CASE UNCHANGED vars
  BY <1>11 DEF vars, state, clockVars, TimersInv, ClockInv, FlowInv
<1>. QED BY <1>1, <1>2, <1>3, <1>4, <1>5, <1>6, <1>7, <1>8, <1>9, <1>10, <1>11 DEF Next

\* TimersInv holds in every reachable state.
LEMMA TimersAlways == Spec => []TimersInv
  BY TimersInit, TimersStep, PTL DEF Spec

\* The types, among them the one that matters: the countdown of bx_pc_system_c,
\* which is cut to 32 bits, is never 0 and never cut short, however far away the
\* deadlines are and whatever is armed, disarmed or restored.
THEOREM TimersTypeCorrect == Spec => []TypeOK
<1>1. TimersInv => TypeOK
  BY TimersAssumption DEF TimersInv, ClockInv, InStep, FlowInv, TypeOK, TimerRecord
<1>. QED BY <1>1, TimersAlways, PTL

\* countdownEvent() misses no timer: it fires one only when the clock reads its
\* timeToFire exactly, and no countdown reaches beyond the deadline of an active
\* timer, whatever callbacks, devices and restore() do.
THEOREM TimersNoneMissed == Spec => []NoneMissed
<1>1. TimersInv => NoneMissed
  BY DEF TimersInv, ClockInv, InStep, NoneMissed
<1>. QED BY <1>1, TimersAlways, PTL

-----------------------------------------------------------------------------
(* The timers implement TimerSpec.                                         *)

\* The deadlines of timers are deadlines to TimerSpec.
LEMMA DeadlinesOK ==
  ASSUME NEW tm \in [Timer -> TimerRecord]
  PROVE  Deadlines(tm) \in [Timer -> Abstract!Deadline]
<1>1. {} \in Abstract!Deadline
  BY DEF Abstract!Deadline
<1>2. \A n \in Nat : {n} \in Abstract!Deadline
  BY DEF Abstract!Deadline
<1>3. \A i \in Timer : tm[i].timeToFire \in Nat
  BY DEF TimerRecord
<1>. QED BY <1>1, <1>2, <1>3 DEF Deadlines

\* Initial states map to initial states.
LEMMA RefineInit == Init => Abstract!Init
<1>. SUFFICES ASSUME Init PROVE Abstract!Init
  OBVIOUS
<1>1. TimersInv
  BY TimersInit
<1>2. Deadlines(timer) \in [Timer -> Abstract!Deadline]
  BY <1>1, DeadlinesOK DEF TimersInv, ClockInv, InStep
<1>3. Now = 0
  BY TimersAssumption DEF Init, Now
<1>4. \A i \in Timer : \A d \in Deadlines(timer)[i] : d > 0
  BY TimersAssumption DEF Init, Deadlines, NullTimer, Unused
<1>5. [now |-> saved.ticksTotal + (saved.currCountdownPeriod - saved.currCountdown),
       due |-> Deadlines(saved.timer)] = [now |-> Now, due |-> Deadlines(timer)]
  BY DEF Init, Fields, Now
<1>6. triggered = {}
  BY DEF Init
<1>. QED BY <1>2, <1>3, <1>4, <1>5, <1>6 DEF Abstract!Init

\* A step that changes timer i only, and leaves the clock alone, is TimerSpec's Arm.
LEMMA RefineArm ==
  ASSUME TimersInv, TimersInv', NEW i \in Timer, Now' = Now,
         UNCHANGED <<triggered, saved>>,
         \A j \in Timer \ {i} : timer'[j] = timer[j],
         timer'[i].active => timer'[i].timeToFire > Now
  PROVE  Abstract!Next
<1>1. timer' \in [Timer -> TimerRecord]
  BY DEF TimersInv, ClockInv, InStep
<1>2. Deadlines(timer') \in [Timer -> Abstract!Deadline]
  BY <1>1, DeadlinesOK
<1>3. \A j \in Timer \ {i} : Deadlines(timer')[j] = Deadlines(timer)[j]
  BY DEF Deadlines
<1>4. \A d \in Deadlines(timer')[i] : d > Now
  BY DEF Deadlines
<1>5. Abstract!Arm(i)
  BY <1>2, <1>3, <1>4 DEF Abstract!Arm
<1>. QED BY <1>5 DEF Abstract!Next

\* Every step maps to a step of TimerSpec or a stutter.
LEMMA RefineStep == TimersInv /\ [Next]_vars => [Abstract!Next]_(Abstract!vars)
<1>. SUFFICES ASSUME TimersInv, [Next]_vars PROVE [Abstract!Next]_(Abstract!vars)
  OBVIOUS
<1>. USE TimersAssumption
<1>0. TimersInv'
  BY TimersStep
<1>1. ASSUME NEW t \in Periods, NEW a \in BOOLEAN, NEW c \in BOOLEAN, RegisterTimer(t, a, c)
      PROVE  Abstract!Next
  <2>1. UNCHANGED <<triggered, saved>>
    BY <1>1 DEF RegisterTimer
  <2>2. t \in Nat OBVIOUS
  <2>3. /\ Now' = Now
        /\ \E i \in Timer :
             /\ \A j \in Timer \ {i} : timer'[j] = timer[j]
             /\ timer'[i].active => timer'[i].timeToFire > Now
    BY <1>1, <2>2, RegisterKeeps
  <2>. QED BY <1>0, <2>1, <2>3, RefineArm
<1>2. ASSUME NEW i \in Timer, UnregisterTimer(i) \/ DeactivateTimer(i) PROVE Abstract!Next
  <2>1. UNCHANGED <<triggered, saved>>
    BY <1>2 DEF UnregisterTimer, DeactivateTimer, Device
  <2>. QED BY <1>0, <1>2, <2>1, DisarmKeeps, RefineArm
<1>3. CASE Save
  <2>1. saved' = Fields /\ UNCHANGED <<timer, ticksTotal, currCountdown, currCountdownPeriod, triggered>>
    BY <1>3 DEF Save, state, clockVars
  <2>2. Abstract!Mark
    BY <2>1 DEF Abstract!Mark, Fields, Now
  <2>. QED BY <2>2 DEF Abstract!Next
<1>4. ASSUME NEW i \in Timer, NEW t \in Periods \cup {0}, NEW c \in BOOLEAN, ActivateTimer(i, t, c)
      PROVE  Abstract!Next
  <2>1. UNCHANGED <<triggered, saved>>
    BY <1>4 DEF ActivateTimer, Device
  <2>2. t \in Nat OBVIOUS
  <2>. QED BY <1>0, <1>4, <2>1, <2>2, ActivateKeeps, RefineArm
<1>5. ASSUME NEW n \in Deltas, Tick(n) PROVE UNCHANGED Abstract!vars
  BY <1>5 DEF Tick, state, clockVars, Abstract!vars, Now
<1>6. CASE CountdownEvent
  <2>. DEFINE total == ticksTotal + currCountdownPeriod
              fired == {i \in 0 .. numTimers - 1 : timer[i].active /\ timer[i].timeToFire = total}
  <2>1. /\ ticksTotal' = total /\ triggered' = fired /\ fired \subseteq Timer
        /\ \A i \in Timer : timer'[i] = IF i \in fired THEN Fired(timer[i]) ELSE timer[i]
        /\ \A i \in Timer : timer'[i].active => timer'[i].timeToFire > total
        /\ currCountdown' = currCountdownPeriod'
    BY <1>6, EventKeeps
  <2>2. /\ triggered = {} /\ numTimers \in 1 .. MaxTimers
        /\ InStep(timer, numTimers, ticksTotal, currCountdown, currCountdownPeriod)
        /\ UNCHANGED saved
    BY <1>6 DEF CountdownEvent, TimersInv, FlowInv, ClockInv
  <2>3. /\ ticksTotal \in Nat /\ currCountdown \in Nat /\ currCountdownPeriod \in Nat
        /\ currCountdown >= 1
    BY <2>2 DEF InStep
  <2>4. currCountdownPeriod' \in Nat
    BY <1>0 DEF TimersInv, ClockInv, InStep
  <2>5. total \in Nat /\ total > Now
    BY <2>3 DEF Now
  <2>6. Now' = total
    <3>1. Now' = total + (currCountdownPeriod' - currCountdownPeriod')
      BY <2>1 DEF Now
    <3>. HIDE DEF total
    <3>2. \A a, b \in Nat : a + (b - b) = a
      OBVIOUS
    <3>. QED BY <2>4, <2>5, <3>1, <3>2
  <2>7. \A i \in Timer : timer[i].active => i \in 0 .. numTimers - 1 /\ timer[i].timeToFire >= total
    BY <2>2 DEF InStep, Timer
  <2>. HIDE DEF total
  <2>8. fired = {i \in Timer : timer[i].active /\ timer[i].timeToFire = total}
    BY <2>1, <2>7
  <2>. HIDE DEF fired
  <2>9. fired = {i \in Timer : total \in Deadlines(timer)[i]}
    BY <2>8 DEF Deadlines
  <2>10. \A i \in Timer : \A d \in Deadlines(timer)[i] : d >= total
    BY <2>7 DEF Deadlines
  <2>11. \A i \in Timer \ fired : Deadlines(timer')[i] = Deadlines(timer)[i]
    BY <2>1 DEF Deadlines
  <2>12. \A i \in fired : \A d \in Deadlines(timer')[i] : d > total
    BY <2>1 DEF Deadlines
  <2>13. Deadlines(timer') \in [Timer -> Abstract!Deadline]
    BY <1>0, DeadlinesOK DEF TimersInv, ClockInv, InStep
  <2>14. Abstract!Advance
    BY <2>1, <2>2, <2>5, <2>6, <2>9, <2>10, <2>11, <2>12, <2>13 DEF Abstract!Advance
  <2>. QED BY <2>14 DEF Abstract!Next
<1>7. CASE Callback
  <2>1. /\ triggered # {} /\ triggered' = triggered \ {Min(triggered)}
        /\ UNCHANGED <<timer, ticksTotal, currCountdown, currCountdownPeriod, saved>>
    BY <1>7 DEF Callback, state, clockVars
  <2>2. triggered \subseteq Timer
    BY DEF TimersInv, FlowInv
  <2>3. triggered \subseteq Nat
    BY <2>2 DEF Timer
  <2>4. Min(triggered) \in triggered
    BY <2>1, <2>3, MinExists
  <2>5. Abstract!Call(Min(triggered))
    BY <2>1, <2>4 DEF Abstract!Call, Now
  <2>. QED BY <2>2, <2>4, <2>5 DEF Abstract!Next
<1>8. CASE CallbackReturns \/ EventDone
  BY <1>8 DEF CallbackReturns, EventDone, state, clockVars, Abstract!vars, Now
<1>9. CASE TickDone
  <2>1. /\ left \in Nat /\ left < currCountdown /\ currCountdown' = currCountdown - left
        /\ UNCHANGED <<timer, ticksTotal, currCountdownPeriod, saved, triggered>>
        /\ triggered = {}
        /\ InStep(timer, numTimers, ticksTotal, currCountdown, currCountdownPeriod)
    BY <1>9 DEF TickDone, TimersInv, FlowInv, ClockInv
  <2>2. ticksTotal \in Nat /\ currCountdown \in Nat /\ currCountdownPeriod \in Nat
        /\ currCountdownPeriod >= currCountdown
    BY <2>1 DEF InStep
  <2>3. Now' = ticksTotal + (currCountdownPeriod - (currCountdown - left))
    BY <2>1 DEF Now
  <2>4. Now \in Nat /\ Now' \in Nat /\ Now' = Now + left /\ Now' < ticksTotal + currCountdownPeriod
    BY <2>1, <2>2, <2>3 DEF Now
  <2>5. CASE left = 0
    BY <2>1, <2>4, <2>5 DEF Abstract!vars
  <2>6. CASE left # 0
    <3>1. Now' > Now
      BY <2>1, <2>4, <2>6
    <3>2. \A i \in Timer : timer[i].active =>
             timer[i].timeToFire \in Nat /\ timer[i].timeToFire >= ticksTotal + currCountdownPeriod
      BY <2>1 DEF InStep, TimerRecord
    <3>3. \A i \in Timer : timer[i].active => timer[i].timeToFire > Now'
      BY <2>2, <2>4, <3>2
    <3>4. \A i \in Timer : \A d \in Deadlines(timer)[i] : d >= Now' /\ d # Now'
      BY <2>4, <3>2, <3>3 DEF Deadlines
    <3>5. Deadlines(timer') \in [Timer -> Abstract!Deadline]
      BY <1>0, DeadlinesOK DEF TimersInv, ClockInv, InStep
    <3>6. triggered' = {i \in Timer : Now' \in Deadlines(timer)[i]}
      BY <2>1, <3>4
    <3>7. Abstract!Advance
      BY <2>1, <2>4, <3>1, <3>4, <3>5, <3>6 DEF Abstract!Advance
    <3>. QED BY <3>7 DEF Abstract!Next
  <2>. QED BY <2>5, <2>6
<1>10. CASE Restore
  <2>1. /\ timer' = saved.timer /\ ticksTotal' = saved.ticksTotal
        /\ currCountdown' = saved.currCountdown
        /\ currCountdownPeriod' = saved.currCountdownPeriod
        /\ UNCHANGED <<saved, triggered>> /\ triggered = {}
    BY <1>10 DEF Restore, TimersInv, FlowInv
  <2>2. Abstract!Rewind
    BY <2>1 DEF Abstract!Rewind, Now
  <2>. QED BY <2>2 DEF Abstract!Next
<1>11. CASE UNCHANGED vars
  BY <1>11 DEF vars, state, clockVars, Abstract!vars, Now
<1>. QED BY <1>1, <1>2, <1>3, <1>4, <1>5, <1>6, <1>7, <1>8, <1>9, <1>10, <1>11 DEF Next

\* The timers of bx_pc_system_c implement TimerSpec: every armed timer is called
\* when time_ticks() reads its deadline, no earlier and no later, and restore()
\* sets the clock and the deadlines back together.
THEOREM TimersImplement == Spec => ImplementsTimers
  BY TimersAlways, RefineInit, RefineStep, PTL DEF Spec, ImplementsTimers, Abstract!Spec
=============================================================================
