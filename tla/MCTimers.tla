------------------------------ MODULE MCTimers ------------------------------
(* Instance of Timers: two timers beside the null timer, one of them slower *)
(* than the longest countdown.                                             *)
EXTENDS Timers
=============================================================================
