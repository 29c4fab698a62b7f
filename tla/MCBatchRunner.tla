---- MODULE MCBatchRunner ----
(* Two devices, and disks of either kind or a reliable one. *)
EXTENDS BatchRunner

CONSTANTS d1, d2

Devices == {d1, d2}
AnyDisk == BOOLEAN
ReliableDisk == {FALSE}
====
