----------------------------- MODULE MCSpinLock -----------------------------
(* Three CPUs, two levels each: enough for a handler on one CPU to contend  *)
(* with the base code of two others.                                        *)
EXTENDS SpinLock
=============================================================================
