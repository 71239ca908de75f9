-------------------------- MODULE MCMemoryAllocator -------------------------
(* Seven pages of two units, the second of them reserved, and a pool of     *)
(* three entries.                                                           *)
EXTENDS MemoryAllocator

MCRegions == {<<6, 2>>}
MCRequests == {<<2, 0>>, <<2, 2>>, <<4, 2>>}
=============================================================================
