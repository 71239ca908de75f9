---------------------------- MODULE MCVmManager -----------------------------
(* Three CPUs and disk images for two VMs, so that the creation of a third *)
(* one fails.  The memory is just enough for three VMs and two stacks: a   *)
(* stack taken by another "boot" makes an allocation fail.                 *)
EXTENDS VmManager
=============================================================================
