-------------------------- MODULE MCVirtioBlkMmio ---------------------------
(* Two descriptor chains and counters of two bits, so that the counters     *)
(* wrap after four requests.                                                *)
EXTENDS VirtioBlkMmio
=============================================================================
