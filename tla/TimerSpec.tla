----------------------------- MODULE TimerSpec -----------------------------
(***************************************************************************)
(* What the devices may rely on of Bochs' timers, which step_device() and  *)
(* step_cpu() drive: a clock that runs forward, and for every armed timer  *)
(* a call when the clock reads its deadline, no earlier and no later.      *)
(* restore() sets the clock and the deadlines back to where they were      *)
(* marked.                                                                 *)
(***************************************************************************)
EXTENDS Naturals

CONSTANT Timers

VARIABLES
  now,  \* the clock
  due,  \* of each timer, the set of its deadline, empty if it is not armed
  owed, \* timers whose deadline is now and that have yet to be called
  mark  \* [now, due] to go back to

vars == <<now, due, owed, mark>>

Deadline == {S \in SUBSET Nat : \A d, e \in S : d = e}

Init ==
  /\ now = 0
  /\ due \in [Timers -> Deadline]
  /\ \A i \in Timers : \A d \in due[i] : d > 0
  /\ owed = {}
  /\ mark = [now |-> now, due |-> due]

\* A device arms a timer for a later time or disarms it.  A call that is owed
\* is still made.
Arm(i) ==
  /\ due' \in [Timers -> Deadline]
  /\ \A j \in Timers \ {i} : due'[j] = due[j]
  /\ \A d \in due'[i] : d > now
  /\ UNCHANGED <<now, owed, mark>>

\* The clock moves on, over no deadline.  The timers that are due then are owed
\* a call and are disarmed or armed anew.
Advance ==
  /\ owed = {}
  /\ now' \in Nat
  /\ now' > now
  /\ \A i \in Timers : \A d \in due[i] : d >= now'
  /\ owed' = {i \in Timers : now' \in due[i]}
  /\ due' \in [Timers -> Deadline]
  /\ \A i \in Timers \ owed' : due'[i] = due[i]
  /\ \A i \in owed' : \A d \in due'[i] : d > now'
  /\ UNCHANGED mark

Call(i) ==
  /\ i \in owed
  /\ owed' = owed \ {i}
  /\ UNCHANGED <<now, due, mark>>

Mark ==
  /\ mark' = [now |-> now, due |-> due]
  /\ UNCHANGED <<now, due, owed>>

Rewind ==
  /\ owed = {}
  /\ now' = mark.now
  /\ due' = mark.due
  /\ UNCHANGED <<owed, mark>>

Next ==
  \/ \E i \in Timers : Arm(i) \/ Call(i)
  \/ Advance
  \/ Mark
  \/ Rewind

Spec == Init /\ [][Next]_vars
=============================================================================
