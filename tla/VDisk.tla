------------------------------- MODULE VDisk -------------------------------
(***************************************************************************)
(* The virtual disk of bochservisor (disk.rs), the dll_image_t that Bochs  *)
(* reaches it through (hdimage.cc) and the sector loops of the IDE         *)
(* controller that call it (harddrv.cc).                                   *)
(*                                                                         *)
(* The backing file outlives the process; everything else is lost when it  *)
(* ends.  A sector's 512 bytes are one element of Data.  Of the address    *)
(* registers one number is kept, the logical block address or the sector   *)
(* counted over all tracks, and which of the two they hold.                *)
(***************************************************************************)
EXTENDS Integers

CONSTANTS
  Sectors,   \* size of the disk in sectors
  Data,      \* sector contents
  LbaSpan,   \* how many addresses the LBA registers can hold
  Chs,       \* CHS addresses as numbers: those before the track plus the
             \* sector number, which counts from 1; 0 is sector 0 of track 0
  ChsSpan,   \* numbers of the unsigned type CHS addresses are computed in
  MaxCount,  \* most sectors in one controller transfer
  None       \* no data

ASSUME DiskAssumption ==
  /\ Sectors \in Nat \ {0}
  /\ LbaSpan \in Nat \ {0}
  /\ Chs \subseteq Nat
  /\ ChsSpan \in Nat \ {0}
  /\ MaxCount \in Nat \ {0}
  /\ None \notin Data

Sector == 0 .. Sectors - 1

VARIABLES
  mode,     \* "off", "live" or "snapshot": how this process was started
  file,     \* contents of the backing file
  opened,   \* DISK_STATE is Some
  volatile, \* volatile_store is Some
  store,    \* the volatile_store HashMap; None where it has no entry
  entered,  \* bochs_cpu_loop() has been entered: the guest runs
  vblk,     \* dll_image_t::vblk
  xfer,     \* the controller's transfer: operation, kind of address, address,
            \* sectors left and whether to seek to or to move the next one
  reply,    \* what the last vdisk_read() put in the buffer
  panicked  \* an assert!/expect() failed

vars == <<mode, file, opened, volatile, store, entered, vblk, xfer, reply, panicked>>
diskVars == <<mode, opened, volatile, entered>>

Empty == [s \in Sector |-> None]
Idle  == [op |-> "idle", regs |-> "lba", lba |-> 0, count |-> 0, step |-> "seek"]

Init ==
  /\ mode = "off"
  /\ file \in [Sector -> Data]
  /\ opened = FALSE
  /\ volatile = FALSE
  /\ store = Empty
  /\ entered = FALSE
  /\ vblk = 0
  /\ xfer = Idle
  /\ reply = None
  /\ panicked = FALSE

Panic == panicked' = TRUE /\ UNCHANGED <<mode, file, opened, volatile, store,
                                         entered, vblk, xfer, reply>>

-----------------------------------------------------------------------------
(* Process start.                                                          *)

\* Bochs starts and opens the drive: a new disk is always volatile.
VdiskOpen(m) ==
  /\ mode = "off" /\ ~panicked
  /\ mode' = m
  /\ opened' = TRUE
  /\ volatile' = TRUE
  /\ store' = Empty
  /\ vblk' = 0
  /\ UNCHANGED <<file, entered, xfer, reply, panicked>>

\* Mutant of EnterLoop: the test for a snapshot is gone.
EnterLoopAlwaysLive ==
  /\ opened /\ xfer = Idle /\ ~panicked
  /\ IF volatile /\ store # Empty
       THEN Panic
       ELSE /\ volatile' = FALSE
            /\ entered' = TRUE
            /\ UNCHANGED <<mode, file, opened, store, vblk, xfer, reply, panicked>>

\* bochs_cpu_loop() is entered, the first time or again after a longjmp: in
\* live mode it calls vdisk_set_non_volatile(), which returns at once for a
\* disk that is non-volatile and else asserts that the store is empty.
EnterLoop ==
  /\ opened /\ xfer = Idle /\ ~panicked
  /\ IF mode = "live" /\ volatile /\ store # Empty
       THEN Panic
       ELSE /\ volatile' = (volatile /\ mode # "live")
            /\ entered' = TRUE
            /\ UNCHANGED <<mode, file, opened, store, vblk, xfer, reply, panicked>>

-----------------------------------------------------------------------------
(* The guest's transfers.                                                  *)

\* The guest has the controller move `n` sectors from `lba`, any address it
\* can put in the registers.
IdeCommand(op, regs, lba, n) ==
  /\ entered /\ xfer = Idle /\ ~panicked
  /\ lba \in IF regs = "lba" THEN 0 .. LbaSpan - 1 ELSE Chs
  /\ xfer' = [op |-> op, regs |-> regs, lba |-> lba, count |-> n, step |-> "seek"]
  /\ UNCHANGED <<diskVars, file, store, vblk, reply, panicked>>

\* calculate_logical_address(): sectors of a track count from 1.  The arithmetic
\* is unsigned, so that sector 0 of the first track is the largest number.
LogicalSector(x) == IF x.regs = "lba" THEN x.lba ELSE (x.lba - 1) % ChsSpan

\* Mutant of IdeSeek: lseek() is called with SEEK_CUR.
IdeSeekRelative ==
  /\ xfer # Idle /\ xfer.step = "seek" /\ ~panicked
  /\ IF LogicalSector(xfer) >= Sectors
       THEN xfer' = Idle /\ UNCHANGED vblk
       ELSE /\ vblk' = vblk + LogicalSector(xfer)
            /\ xfer' = [xfer EXCEPT !.step = "move"]
  /\ UNCHANGED <<diskVars, file, store, reply, panicked>>

\* The bound check and lseek(SEEK_SET): past the end of the disk the command is
\* aborted, and the sectors already moved stay moved.
IdeSeek ==
  /\ xfer # Idle /\ xfer.step = "seek" /\ ~panicked
  /\ IF LogicalSector(xfer) >= Sectors
       THEN xfer' = Idle /\ UNCHANGED vblk
       ELSE /\ vblk' = LogicalSector(xfer)
            /\ xfer' = [xfer EXCEPT !.step = "move"]
  /\ UNCHANGED <<diskVars, file, store, reply, panicked>>

\* increment_address(): the LBA registers wrap; where a CHS address goes at the
\* end of a track or cylinder depends on the geometry and is left open.
NextAddress(x) == IF x.regs = "lba" THEN {(x.lba + 1) % LbaSpan} ELSE Chs

\* After a sector: dll_image_t and the registers move on, and out of the loop
\* after the last one.
Advance ==
  /\ vblk' = vblk + 1
  /\ \/ xfer.count = 1 /\ xfer' = Idle
     \/ \E a \in NextAddress(xfer) :
          /\ xfer.count # 1
          /\ xfer' = [xfer EXCEPT !.lba = a, !.count = @ - 1, !.step = "seek"]

\* Where vdisk_read() finds a sector: in the store if it is there, else in the
\* file.
Lookup(blk) == IF volatile /\ store[blk] # None THEN store[blk] ELSE file[blk]

\* The rest of ide_read_sector() for one sector: vdisk_read(), which asserts
\* that the block exists.
IdeReadSector ==
  /\ xfer.op = "read" /\ xfer.step = "move" /\ ~panicked
  /\ IF vblk \notin Sector
       THEN Panic
       ELSE /\ reply' = Lookup(vblk)
            /\ Advance
            /\ UNCHANGED <<diskVars, file, store, panicked>>

\* Mutant of VdiskWrite: only sectors already in the store are kept there.
VdiskWriteMisses(d) ==
  IF volatile /\ store[vblk] # None
    THEN store' = [store EXCEPT ![vblk] = d] /\ UNCHANGED file
    ELSE file' = [file EXCEPT ![vblk] = d] /\ UNCHANGED store

\* vdisk_write(): into the store in volatile mode, else through to the file.
VdiskWrite(d) ==
  IF volatile
    THEN store' = [store EXCEPT ![vblk] = d] /\ UNCHANGED file
    ELSE file' = [file EXCEPT ![vblk] = d] /\ UNCHANGED store

\* The rest of ide_write_sector() for one sector.
IdeWriteSector(d) ==
  /\ xfer.op = "write" /\ xfer.step = "move" /\ ~panicked
  /\ IF vblk \notin Sector
       THEN Panic
       ELSE /\ VdiskWrite(d)
            /\ Advance
            /\ UNCHANGED <<diskVars, reply, panicked>>

-----------------------------------------------------------------------------
(* Restore, close and crash.                                               *)

\* restore() calls vdisk_discard_changes(), which expects a volatile disk.  It
\* runs in the Rust loop, so between transfers, and only with a snapshot.
DiscardChanges ==
  /\ entered /\ mode = "snapshot" /\ xfer = Idle /\ ~panicked
  /\ IF ~volatile
       THEN Panic
       ELSE /\ store' = Empty
            /\ UNCHANGED <<diskVars, file, vblk, xfer, reply, panicked>>

\* The process is gone: only the backing file is left.
Gone ==
  /\ mode' = "off"
  /\ opened' = FALSE
  /\ volatile' = FALSE
  /\ store' = Empty
  /\ entered' = FALSE
  /\ vblk' = 0
  /\ xfer' = Idle
  /\ reply' = None
  /\ UNCHANGED <<file, panicked>>

\* vdisk_close() as Bochs shuts down.
VdiskClose == opened /\ xfer = Idle /\ ~panicked /\ Gone

\* The process dies at any moment, in the middle of a transfer too.
Crash == mode # "off" /\ ~panicked /\ Gone

Next ==
  \/ \E m \in {"live", "snapshot"} : VdiskOpen(m)
  \/ EnterLoop
  \/ \E op \in {"read", "write"}, regs \in {"lba", "chs"},
        lba \in 0 .. LbaSpan - 1 \cup Chs, n \in 1 .. MaxCount :
       IdeCommand(op, regs, lba, n)
  \/ IdeSeek
  \/ IdeReadSector
  \/ \E d \in Data : IdeWriteSector(d)
  \/ DiscardChanges
  \/ VdiskClose
  \/ Crash

Spec == Init /\ [][Next]_vars

-----------------------------------------------------------------------------
(* Properties.                                                             *)

Transfer == [op : {"idle", "read", "write"}, regs : {"lba", "chs"},
             lba : Nat, count : 0 .. MaxCount, step : {"seek", "move"}]

\* The contents, the position of the image and the transfer.
ContentsOK ==
  /\ mode \in {"off", "live", "snapshot"}
  /\ file \in [Sector -> Data]
  /\ store \in [Sector -> Data \cup {None}]
  /\ vblk \in 0 .. Sectors
  /\ xfer \in Transfer
  /\ reply \in Data \cup {None}

\* The flags.
FlagsOK ==
  /\ opened \in BOOLEAN /\ volatile \in BOOLEAN
  /\ entered \in BOOLEAN /\ panicked \in BOOLEAN

\* Types of the variables; the image is never positioned past the disk's end.
TypeOK == ContentsOK /\ FlagsOK

\* Whatever addresses the guest asks for, and in whatever order sessions,
\* longjmps, transfers and restores come, no assertion of disk.rs fails:
\* "Integer overflow on block", "Out-of-bounds disk access", "Cannot go
\* non-volatile for vdisk with pending stores", "Attempted to discard changes to
\* non-volatile disk".
NoPanic == ~panicked

\* What the guest sees, and the session it sees it in.
View == [s \in Sector |-> Lookup(s)]
Session == IF entered THEN mode ELSE "off"

Disk == INSTANCE DiskSpec WITH
  NoReply <- None, session <- Session, durable <- file, view <- View

\* The virtual disk implements DiskSpec: reads return the latest write, live
\* writes are in the file at once, a snapshot session never changes the file
\* and a restore or a crash takes the guest back to it, even in the middle of a
\* transfer.
ImplementsDisk == Disk!Spec
=============================================================================
