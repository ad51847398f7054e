----------------------------- MODULE VDiskProofs -----------------------------
(***************************************************************************)
(* Proofs about the virtual disk, for every disk size, sector contents,    *)
(* addresses and transfer length.                                          *)
(***************************************************************************)
EXTENDS VDisk, TLAPS

\* The transfer the controller is in: an idle one has no fields set, a running
\* one has sectors left, and after a seek the image is inside the disk.
XferInv ==
  /\ xfer.op = "idle" => xfer = Idle
  /\ xfer.op # "idle" => xfer.count > 0 /\ entered
  /\ xfer.step = "move" => vblk < Sectors

\* How the session's mode, the volatile store and the CPU loop go together.
SessionInv ==
  /\ entered => opened
  /\ opened => mode # "off"
  /\ mode = "off" => volatile = FALSE
  /\ entered /\ mode = "live" => volatile = FALSE
  /\ opened /\ mode = "snapshot" => volatile = TRUE
  /\ volatile = FALSE => store = Empty
  /\ entered = FALSE => store = Empty /\ reply = None

\* The inductive invariant of the disk.
DiskInv == ContentsOK /\ FlagsOK /\ XferInv /\ SessionInv

\* The state of a process that has just started, or has gone.
LEMMA IdleOK ==
  /\ Idle \in Transfer
  /\ Idle.op = "idle" /\ Idle.step = "seek"
  /\ Empty \in [Sector -> Data \cup {None}]
  BY DiskAssumption DEF Idle, Empty, Transfer

\* A machine that is off satisfies the invariant.
LEMMA DiskInit == Init => DiskInv
<1>. SUFFICES ASSUME Init PROVE DiskInv
  OBVIOUS
<1>. USE DiskAssumption, IdleOK DEF Init
<1>1. ContentsOK
  BY DEF ContentsOK
<1>2. FlagsOK
  BY DEF FlagsOK
<1>3. XferInv
  BY DEF XferInv
<1>4. SessionInv
  BY DEF SessionInv
<1>. QED
  BY <1>1, <1>2, <1>3, <1>4 DEF DiskInv

\* Every action of the disk, the controller and the process keeps the invariant.
LEMMA DiskStep == DiskInv /\ [Next]_vars => DiskInv'
<1>. SUFFICES ASSUME DiskInv, [Next]_vars PROVE DiskInv'
  OBVIOUS
<1>. USE DiskAssumption, IdleOK DEF DiskInv
<1>1. ASSUME NEW m \in {"live", "snapshot"}, VdiskOpen(m)
      PROVE  DiskInv'
  <2>. USE <1>1 DEF VdiskOpen
  <2>1. ContentsOK' BY DEF ContentsOK
  <2>2. FlagsOK' BY DEF FlagsOK
  <2>3. XferInv' BY DEF XferInv, SessionInv, FlagsOK
  <2>4. SessionInv' BY DEF SessionInv, FlagsOK
  <2>. QED BY <2>1, <2>2, <2>3, <2>4
<1>2. CASE EnterLoop
  <2>1. ~(mode = "live" /\ volatile /\ store # Empty)
    BY <1>2 DEF EnterLoop, SessionInv, FlagsOK
  <2>2. /\ volatile' = (volatile /\ mode # "live")
        /\ entered' = TRUE
        /\ opened
        /\ UNCHANGED <<mode, file, opened, store, vblk, xfer, reply, panicked>>
    BY <1>2, <2>1 DEF EnterLoop
  <2>3. ContentsOK' BY <2>2 DEF ContentsOK
  <2>4. FlagsOK' BY <2>2 DEF FlagsOK
  <2>5. XferInv' BY <2>2 DEF XferInv
  <2>6. CASE mode = "live"
    <3>1. volatile' = FALSE /\ store' = Empty
      BY <2>1, <2>2, <2>6 DEF SessionInv, FlagsOK
    <3>2. SessionInv' BY <2>2, <2>6, <3>1 DEF SessionInv
    <3>. QED BY <2>3, <2>4, <2>5, <3>2
  <2>7. CASE mode # "live"
    <3>1. volatile' = volatile
      BY <2>2, <2>7 DEF FlagsOK
    <3>2. SessionInv' BY <2>2, <2>7, <3>1 DEF SessionInv
    <3>. QED BY <2>3, <2>4, <2>5, <3>2
  <2>. QED BY <2>6, <2>7
<1>3. ASSUME NEW op \in {"read", "write"}, NEW regs \in {"lba", "chs"}, NEW lba,
             NEW n \in 1 .. MaxCount, IdeCommand(op, regs, lba, n)
      PROVE  DiskInv'
  <2>. USE <1>3 DEF IdeCommand, diskVars
  <2>0. lba \in Nat
    OBVIOUS
  <2>1. ContentsOK' BY <2>0 DEF ContentsOK, Transfer
  <2>2. FlagsOK' BY DEF FlagsOK
  <2>3. XferInv' BY DEF XferInv
  <2>4. SessionInv' BY DEF SessionInv
  <2>. QED BY <2>1, <2>2, <2>3, <2>4
<1>4. CASE IdeSeek
  <2>. USE <1>4 DEF IdeSeek, diskVars
  <2>0. LogicalSector(xfer) \in Nat
    <3>1. CASE xfer.regs = "lba"
      BY <3>1 DEF LogicalSector, ContentsOK, Transfer
    <3>2. CASE xfer.regs # "lba"
      <4>1. xfer.lba - 1 \in Int
        BY DEF ContentsOK, Transfer
      <4>. QED BY <3>2, <4>1 DEF LogicalSector
    <3>. QED BY <3>1, <3>2
  <2>1. ContentsOK' BY <2>0 DEF ContentsOK, Transfer
  <2>2. FlagsOK' BY DEF FlagsOK
  <2>3. XferInv' BY <2>0 DEF XferInv, ContentsOK, Transfer
  <2>4. SessionInv' BY DEF SessionInv
  <2>. QED BY <2>1, <2>2, <2>3, <2>4
\* A sector of the disk is moved.
<1>5. ASSUME xfer.op # "idle", xfer.step = "move", vblk \in Sector, Advance
      PROVE  /\ vblk' \in 0 .. Sectors
             /\ xfer' \in Transfer
             /\ xfer'.op = "idle" => xfer' = Idle
             /\ xfer'.op # "idle" => xfer'.count > 0
             /\ xfer'.step = "seek"
  <2>1. vblk' \in 0 .. Sectors
    <3>1. vblk \in 0 .. Sectors - 1 /\ vblk' = vblk + 1
      BY <1>5 DEF Advance, Sector
    <3>. QED BY <3>1
  <2>2. xfer.count \in 1 .. MaxCount
    BY <1>5 DEF XferInv, ContentsOK, Transfer
  <2>3. CASE xfer.count = 1
    BY <1>5, <2>1, <2>3 DEF Advance
  <2>4. CASE xfer.count # 1
    <3>1. PICK a \in NextAddress(xfer) :
            xfer' = [xfer EXCEPT !.lba = a, !.count = @ - 1, !.step = "seek"]
      BY <1>5, <2>4 DEF Advance
    <3>2. a \in Nat
      <4>1. CASE xfer.regs = "lba"
        <5>1. xfer.lba + 1 \in Int
          BY DEF ContentsOK, Transfer
        <5>2. a = (xfer.lba + 1) % LbaSpan
          BY <3>1, <4>1 DEF NextAddress
        <5>. QED BY <5>1, <5>2
      <4>2. CASE xfer.regs # "lba"
        BY <3>1, <4>2 DEF NextAddress
      <4>. QED BY <4>1, <4>2
    <3>3. xfer.count - 1 \in 1 .. MaxCount
      BY <2>2, <2>4
    <3>4. xfer' = [op |-> xfer.op, regs |-> xfer.regs, lba |-> a,
                   count |-> xfer.count - 1, step |-> "seek"]
      BY <3>1 DEF ContentsOK, Transfer
    <3>5. xfer.op \in {"idle", "read", "write"} /\ xfer.regs \in {"lba", "chs"}
      BY DEF ContentsOK, Transfer
    <3>6. xfer.count - 1 \in 0 .. MaxCount
      BY <3>3
    <3>7. xfer' \in Transfer
      BY <3>2, <3>4, <3>5, <3>6 DEF Transfer
    <3>. QED BY <1>5, <2>1, <3>3, <3>4, <3>7
  <2>. QED BY <2>3, <2>4
<1>6. xfer.op # "idle" => entered
  BY DEF XferInv
\* An assertion of disk.rs fails: nothing else changes.
<1>12. ASSUME Panic PROVE DiskInv'
  BY <1>12 DEF Panic, ContentsOK, FlagsOK, XferInv, SessionInv
<1>7. ASSUME IdeReadSector, vblk \in Sector PROVE DiskInv'
  <2>1. /\ xfer.op = "read" /\ xfer.step = "move"
        /\ reply' = Lookup(vblk)
        /\ Advance
        /\ UNCHANGED <<diskVars, file, store, panicked>>
    BY <1>7 DEF IdeReadSector
  <2>2. vblk \in Sector /\ entered
    BY <1>6, <1>7, <2>1
  <2>3. ContentsOK' BY <1>5, <2>1, <2>2 DEF ContentsOK, Lookup, diskVars
  <2>4. FlagsOK' BY <2>1 DEF FlagsOK, diskVars
  <2>5. XferInv' BY <1>5, <2>1, <2>2 DEF XferInv, diskVars
  <2>6. SessionInv' BY <2>1, <2>2 DEF SessionInv, diskVars
  <2>. QED BY <2>3, <2>4, <2>5, <2>6
<1>8. ASSUME NEW d \in Data, IdeWriteSector(d), vblk \in Sector
      PROVE  DiskInv'
  <2>1. /\ xfer.op = "write" /\ xfer.step = "move"
        /\ VdiskWrite(d)
        /\ Advance
        /\ UNCHANGED <<diskVars, reply, panicked>>
    BY <1>8 DEF IdeWriteSector
  <2>2. vblk \in Sector /\ entered
    BY <1>6, <1>8, <2>1
  <2>3. ContentsOK' BY <1>5, <2>1, <2>2 DEF ContentsOK, VdiskWrite, diskVars
  <2>4. FlagsOK' BY <2>1 DEF FlagsOK, diskVars
  <2>5. XferInv' BY <1>5, <2>1, <2>2 DEF XferInv, diskVars
  <2>6. SessionInv'
    BY <2>1, <2>2 DEF SessionInv, VdiskWrite, FlagsOK, diskVars
  <2>. QED BY <2>3, <2>4, <2>5, <2>6
<1>9. CASE DiscardChanges
  <2>1. volatile
    BY <1>9 DEF DiscardChanges, SessionInv
  <2>2. /\ store' = Empty
        /\ entered
        /\ UNCHANGED <<diskVars, file, vblk, xfer, reply, panicked>>
    BY <1>9, <2>1 DEF DiscardChanges
  <2>3. ContentsOK' BY <2>2 DEF ContentsOK, diskVars
  <2>4. FlagsOK' BY <2>2 DEF FlagsOK, diskVars
  <2>5. XferInv' BY <2>2 DEF XferInv, diskVars
  <2>6. SessionInv' BY <2>2 DEF SessionInv, diskVars
  <2>. QED BY <2>3, <2>4, <2>5, <2>6
<1>10. CASE Gone
  <2>. USE <1>10 DEF Gone
  <2>1. ContentsOK' BY DEF ContentsOK
  <2>2. FlagsOK' BY DEF FlagsOK
  <2>3. XferInv' BY DEF XferInv
  <2>4. SessionInv' BY DEF SessionInv
  <2>. QED BY <2>1, <2>2, <2>3, <2>4
<1>11. CASE UNCHANGED vars
  BY <1>11 DEF vars, ContentsOK, FlagsOK, XferInv, SessionInv
<1>13. CASE IdeReadSector
  BY <1>7, <1>12, <1>13 DEF IdeReadSector
<1>14. ASSUME NEW d \in Data, IdeWriteSector(d) PROVE DiskInv'
  BY <1>8, <1>12, <1>14 DEF IdeWriteSector
<1>. QED
  BY <1>1, <1>2, <1>3, <1>4, <1>9, <1>10, <1>11, <1>13, <1>14
     DEF Next, VdiskClose, Crash

\* The invariant holds throughout.
LEMMA DiskAlways == Spec => []DiskInv
  BY DiskInit, DiskStep, PTL DEF Spec

\* For every disk and every transfer the variables keep their types: the image
\* is never positioned past the end of the disk.
THEOREM DiskTypeCorrect == Spec => []TypeOK
<1>1. DiskInv => TypeOK
  BY DEF DiskInv, TypeOK
<1>. QED
  BY <1>1, DiskAlways, PTL

\* No assertion fails: the disk is asked
\* for sectors it has, goes non-volatile only before the first write of a live
\* session, and drops its changes only when it is volatile.
PanicInv == panicked = FALSE

\* Every action keeps PanicInv.
LEMMA PanicStep == DiskInv /\ PanicInv /\ [Next]_vars => PanicInv'
<1>. SUFFICES ASSUME DiskInv, PanicInv, [Next]_vars PROVE PanicInv'
  OBVIOUS
<1>. USE DiskAssumption DEF PanicInv
<1>1. ASSUME NEW m \in {"live", "snapshot"}, VdiskOpen(m) PROVE PanicInv'
  BY <1>1 DEF VdiskOpen
<1>2. CASE EnterLoop
  <2>1. ~(mode = "live" /\ volatile /\ store # Empty)
    BY <1>2 DEF EnterLoop, DiskInv, SessionInv, FlagsOK
  <2>. QED BY <1>2, <2>1 DEF EnterLoop
<1>3. ASSUME NEW op \in {"read", "write"}, NEW regs \in {"lba", "chs"}, NEW lba,
             NEW n \in 1 .. MaxCount, IdeCommand(op, regs, lba, n)
      PROVE  PanicInv'
  BY <1>3 DEF IdeCommand
<1>4. CASE IdeSeek
  BY <1>4 DEF IdeSeek
<1>5. xfer.step = "move" => vblk \in Sector
  BY DEF DiskInv, XferInv, ContentsOK, Transfer, Sector
<1>7. CASE IdeReadSector
  BY <1>5, <1>7 DEF IdeReadSector
<1>8. ASSUME NEW d \in Data, IdeWriteSector(d) PROVE PanicInv'
  BY <1>5, <1>8 DEF IdeWriteSector
<1>9. CASE DiscardChanges
  <2>1. volatile
    BY <1>9 DEF DiscardChanges, DiskInv, SessionInv
  <2>. QED BY <1>9, <2>1 DEF DiscardChanges
<1>10. CASE Gone
  BY <1>10 DEF Gone
<1>11. CASE UNCHANGED vars
  BY <1>11 DEF vars
<1>. QED
  BY <1>1, <1>2, <1>3, <1>4, <1>7, <1>8, <1>9, <1>10, <1>11
     DEF Next, VdiskClose, Crash

\* No address a guest asks for, by LBA or by CHS, makes an assertion of disk.rs
\* fail, in whatever order sessions, longjmps, transfers, restores and crashes
\* come.
THEOREM DiskNeverPanics == Spec => []NoPanic
<1>1. Init => PanicInv
  BY DEF Init, PanicInv, Idle
<1>2. DiskInv /\ PanicInv /\ [Next]_vars => PanicInv'
  BY PanicStep
<1>3. PanicInv => NoPanic
  BY DEF PanicInv, NoPanic
<1>. QED
  BY <1>1, <1>2, <1>3, DiskAlways, PTL DEF Spec

-----------------------------------------------------------------------------
(* Refinement.                                                             *)

\* The virtual disk's first states are the abstract disk's.
LEMMA RefineInit == Init => Disk!Init
<1>. SUFFICES ASSUME Init PROVE Disk!Init
  OBVIOUS
<1>1. View = file
  BY DEF Init, View, Lookup
<1>. QED
  BY <1>1 DEF Init, Disk!Init, Session

\* A sector's entry in the guest's view depends only on these variables.
LEMMA ViewUnchanged ==
  UNCHANGED <<file, store, volatile>> => UNCHANGED View
  BY DEF View, Lookup

\* With an empty store the guest sees the file.
LEMMA EmptyView ==
  ASSUME file \in [Sector -> Data], store = Empty
  PROVE  View = file
  BY DEF View, Lookup, Empty

\* Every step of the virtual disk is a step of the abstract one, or changes
\* nothing it can see: entering the loop for the first time starts the session,
\* a sector moved is a read or a write, all bookkeeping is a stuttering step.
LEMMA RefineStep == DiskInv /\ DiskInv' /\ [Next]_vars => [Disk!Next]_(Disk!vars)
<1>. SUFFICES ASSUME DiskInv, DiskInv', [Next]_vars
              PROVE  Disk!Next \/ UNCHANGED <<Session, file, View, reply>>
  BY DEF Disk!vars
<1>0. /\ file \in [Sector -> Data] /\ file' \in [Sector -> Data]
      /\ store \in [Sector -> Data \cup {None}]
      /\ mode \in {"off", "live", "snapshot"}
  BY DEF DiskInv, ContentsOK
<1>1. ASSUME NEW m \in {"live", "snapshot"}, VdiskOpen(m)
      PROVE  UNCHANGED <<Session, file, View, reply>>
  <2>1. entered = FALSE /\ store = Empty
    BY <1>1 DEF VdiskOpen, DiskInv, SessionInv, FlagsOK
  <2>2. store' = Empty /\ UNCHANGED <<file, entered, reply>>
    BY <1>1 DEF VdiskOpen
  <2>3. View = file /\ View' = file'
    BY <1>0, <2>1, <2>2, EmptyView DEF View, Lookup, Empty
  <2>. QED BY <2>1, <2>2, <2>3 DEF Session
<1>2. CASE EnterLoop
  <2>1. /\ entered' = TRUE /\ opened
        /\ UNCHANGED <<mode, file, store, reply>>
    <3>1. ~(mode = "live" /\ volatile /\ store # Empty)
      BY <1>2 DEF EnterLoop, DiskInv, SessionInv, FlagsOK
    <3>. QED BY <1>2, <3>1 DEF EnterLoop
  <2>2. CASE entered
    <3>1. volatile' = volatile
      BY <1>2, <2>1, <2>2 DEF EnterLoop, Panic, DiskInv, SessionInv, FlagsOK
    <3>. QED BY <2>1, <2>2, <3>1, ViewUnchanged DEF Session
  <2>3. CASE ~entered
    <3>1. store = Empty /\ store' = Empty /\ reply = None /\ mode # "off"
      BY <2>1, <2>3 DEF DiskInv, SessionInv, FlagsOK
    <3>2. View = file /\ View' = file'
      BY <1>0, <2>1, <3>1, EmptyView DEF View, Lookup, Empty
    <3>3. Session = "off" /\ Session' = mode
      BY <2>1, <2>3 DEF Session
    <3>4. Disk!Start(mode)
      BY <2>1, <3>1, <3>2, <3>3 DEF Disk!Start
    <3>. QED BY <1>0, <3>1, <3>4 DEF Disk!Next
  <2>. QED BY <2>2, <2>3
<1>3. ASSUME NEW op \in {"read", "write"}, NEW regs \in {"lba", "chs"}, NEW lba,
             NEW n \in 1 .. MaxCount, IdeCommand(op, regs, lba, n)
      PROVE  UNCHANGED <<Session, file, View, reply>>
  BY <1>3, ViewUnchanged DEF IdeCommand, diskVars, Session
<1>4. CASE IdeSeek
  BY <1>4, ViewUnchanged DEF IdeSeek, diskVars, Session
<1>5. xfer.op # "idle" => entered /\ mode # "off"
  <2>1. xfer.op # "idle" => entered
    BY DEF DiskInv, XferInv
  <2>2. entered => mode # "off"
    BY DEF DiskInv, SessionInv
  <2>. QED BY <2>1, <2>2
\* A failed assertion is not visible.
<1>11. ASSUME Panic PROVE UNCHANGED <<Session, file, View, reply>>
  BY <1>11, ViewUnchanged DEF Panic, Session
<1>6. ASSUME IdeReadSector, vblk \in Sector PROVE Disk!Next
  <2>1. /\ vblk \in Sector /\ entered /\ mode # "off"
        /\ reply' = Lookup(vblk)
        /\ UNCHANGED <<diskVars, file, store>>
    BY <1>5, <1>6 DEF IdeReadSector
  <2>2. UNCHANGED <<Session, file, View>> /\ Session # "off" /\ reply' = View[vblk]
    BY <2>1, ViewUnchanged DEF diskVars, Session, View
  <2>3. Disk!Read(vblk)
    BY <2>2 DEF Disk!Read
  <2>. QED BY <2>1, <2>3 DEF Disk!Next
<1>7. ASSUME NEW d \in Data, IdeWriteSector(d), vblk \in Sector
      PROVE  Disk!Next
  <2>1. /\ vblk \in Sector /\ entered /\ mode # "off"
        /\ VdiskWrite(d)
        /\ UNCHANGED <<diskVars, reply>>
    BY <1>5, <1>7 DEF IdeWriteSector
  <2>2. UNCHANGED <<Session, reply>> /\ Session = mode
    BY <2>1 DEF diskVars, Session
  <2>3. d # None
    BY DiskAssumption
  <2>4. View' = [View EXCEPT ![vblk] = d]
    <3>1. volatile' = volatile
      BY <2>1 DEF diskVars
    <3>2. CASE volatile
      <4>1. store' = [store EXCEPT ![vblk] = d] /\ file' = file
        BY <2>1, <3>2 DEF VdiskWrite
      <4>2. \A s \in Sector : Lookup(s)' = IF s = vblk THEN d ELSE Lookup(s)
        BY <1>0, <2>3, <3>1, <3>2, <4>1 DEF Lookup
      <4>. QED BY <4>2 DEF View
    <3>3. CASE ~volatile
      <4>1. file' = [file EXCEPT ![vblk] = d]
        BY <2>1, <3>3 DEF VdiskWrite
      <4>2. \A s \in Sector : Lookup(s)' = IF s = vblk THEN d ELSE Lookup(s)
        BY <1>0, <3>1, <3>3, <4>1 DEF Lookup
      <4>. QED BY <4>2 DEF View
    <3>. QED BY <3>2, <3>3
  <2>5. file' = IF mode = "live" THEN View' ELSE file
    <3>1. CASE mode = "live"
      <4>1. volatile = FALSE /\ store = Empty
        BY <2>1, <3>1 DEF DiskInv, SessionInv
      <4>2. store' = Empty
        BY <2>1, <4>1 DEF VdiskWrite
      <4>3. View' = file'
        BY <1>0, <4>2 DEF View, Lookup, Empty
      <4>. QED BY <3>1, <4>3
    <3>2. CASE mode # "live"
      <4>1. volatile = TRUE
        BY <1>0, <2>1, <3>2 DEF DiskInv, SessionInv
      <4>. QED BY <2>1, <3>2, <4>1 DEF VdiskWrite
    <3>. QED BY <3>1, <3>2
  <2>6. Disk!Write(vblk, d)
    BY <2>1, <2>2, <2>4, <2>5 DEF Disk!Write
  <2>. QED BY <2>1, <2>6 DEF Disk!Next
<1>8. CASE DiscardChanges
  <2>1. /\ entered /\ mode = "snapshot" /\ store' = Empty
        /\ UNCHANGED <<diskVars, file, reply>>
    BY <1>8 DEF DiscardChanges, Panic, DiskInv, SessionInv
  <2>2. View' = file' /\ Session = "snapshot" /\ Session' = Session
    BY <1>0, <2>1 DEF View, Lookup, Empty, Session, diskVars
  <2>3. Disk!Restore
    BY <2>1, <2>2 DEF Disk!Restore
  <2>. QED BY <2>3 DEF Disk!Next
<1>9. CASE Gone
  <2>1. /\ entered' = FALSE /\ store' = Empty /\ reply' = None
        /\ UNCHANGED file
    BY <1>9 DEF Gone
  <2>2. View' = file' /\ Session' = "off"
    BY <1>0, <2>1 DEF View, Lookup, Empty, Session
  <2>3. CASE entered
    <3>1. Session # "off"
      BY <2>3 DEF Session, DiskInv, SessionInv
    <3>2. Disk!Stop
      BY <2>1, <2>2, <3>1 DEF Disk!Stop
    <3>. QED BY <3>2 DEF Disk!Next
  <2>4. CASE ~entered
    <3>1. store = Empty /\ reply = None /\ Session = "off"
      BY <2>4 DEF Session, DiskInv, SessionInv, FlagsOK
    <3>2. View = file
      BY <1>0, <3>1, EmptyView
    <3>. QED BY <2>1, <2>2, <3>1, <3>2
  <2>. QED BY <2>3, <2>4
<1>10. CASE UNCHANGED vars
  BY <1>10, ViewUnchanged DEF vars, Session
<1>12. CASE IdeReadSector
  BY <1>6, <1>11, <1>12 DEF IdeReadSector
<1>13. ASSUME NEW d \in Data, IdeWriteSector(d)
       PROVE  Disk!Next \/ UNCHANGED <<Session, file, View, reply>>
  BY <1>7, <1>11, <1>13 DEF IdeWriteSector
<1>. QED
  BY <1>1, <1>2, <1>3, <1>4, <1>8, <1>9, <1>10, <1>12, <1>13
     DEF Next, VdiskClose, Crash

\* For every disk the virtual disk implements DiskSpec: what the guest reads is
\* what was last written, a live session's writes are in the backing file, and
\* a snapshot session leaves no trace in it.
THEOREM DiskRefinement == Spec => ImplementsDisk
<1>1. Spec => []DiskInv
  BY DiskAlways
<1>. QED
  BY <1>1, RefineInit, RefineStep, PTL DEF Spec, ImplementsDisk, Disk!Spec
=============================================================================
