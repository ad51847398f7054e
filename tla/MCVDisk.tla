------------------------------ MODULE MCVDisk ------------------------------
(***************************************************************************)
(* Instances of the virtual disk for TLC.                                  *)
(***************************************************************************)
EXTENDS VDisk

\* CHS addresses from sector 0 of the first track, which no disk has, up to one
\* past the disk's end.
ChsNumbers == 0 .. Sectors + 1
=============================================================================
