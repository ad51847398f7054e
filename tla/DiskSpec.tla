------------------------------ MODULE DiskSpec ------------------------------
(***************************************************************************)
(* What the virtual disk promises: the guest sees a disk of sectors; in a  *)
(* live session every write is durable at once, in a session started from  *)
(* a snapshot nothing is, and a restore takes the guest back to the disk   *)
(* the session started with.                                               *)
(***************************************************************************)
CONSTANTS Sector, Data, NoReply

VARIABLES
  session, \* "off", "live" or "snapshot"
  durable, \* contents that survive the process
  view,    \* contents the guest sees
  reply    \* what the last sector read returned

Init ==
  /\ session = "off"
  /\ durable \in [Sector -> Data]
  /\ view = durable
  /\ reply = NoReply

Start(m) ==
  /\ session = "off"
  /\ session' = m
  /\ view' = durable
  /\ reply' = NoReply
  /\ UNCHANGED durable

Read(s) ==
  /\ session # "off"
  /\ reply' = view[s]
  /\ UNCHANGED <<session, durable, view>>

Write(s, d) ==
  /\ session # "off"
  /\ view' = [view EXCEPT ![s] = d]
  /\ durable' = IF session = "live" THEN view' ELSE durable
  /\ UNCHANGED <<session, reply>>

Restore ==
  /\ session = "snapshot"
  /\ view' = durable
  /\ UNCHANGED <<session, durable, reply>>

\* The process ends, in an orderly way or not.
Stop ==
  /\ session # "off"
  /\ session' = "off"
  /\ view' = durable
  /\ reply' = NoReply
  /\ UNCHANGED durable

Next ==
  \/ \E m \in {"live", "snapshot"} : Start(m)
  \/ \E s \in Sector : Read(s)
  \/ \E s \in Sector, d \in Data : Write(s, d)
  \/ Restore
  \/ Stop

vars == <<session, durable, view, reply>>

Spec == Init /\ [][Next]_vars
=============================================================================
