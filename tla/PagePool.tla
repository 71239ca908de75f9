------------------------------ MODULE PagePool ------------------------------
(***************************************************************************)
(* What src/memory_allocator.rs promises its clients: memory is a set of   *)
(* units, each of which is free, owned through exactly one block, or gone  *)
(* (reserved at boot, or lost by a free that failed).                      *)
(***************************************************************************)
EXTENDS Naturals

CONSTANTS
  Ram,        \* the units of memory there are
  Requests    \* the <<size, align_order>> clients may ask for

\* Addresses are numbers and nobody asks for an empty block.
Sized ==
  /\ Ram \subseteq Nat
  /\ Requests \subseteq (Nat \ {0}) \X Nat

VARIABLES
  avail,   \* the units that are free
  blocks,  \* the blocks the clients own, as <<start, size>>
  gone     \* the units that never come back

vars == <<avail, blocks, gone>>

Block(start, size) == start .. start + size - 1

Init ==
  /\ avail = {}
  /\ blocks = {}
  /\ gone = {}

\* The RAM is handed to the allocator, once.
Populate ==
  /\ avail = {} /\ blocks = {} /\ gone = {}
  /\ avail' = Ram
  /\ UNCHANGED <<blocks, gone>>

\* A free range is reserved before any block exists.
Reserve(start, end) ==
  /\ blocks = {}
  /\ start .. end \subseteq avail
  /\ gone' = gone \cup (start .. end)
  /\ avail' = avail \ (start .. end)
  /\ UNCHANGED blocks

\* A client gets an aligned block that was free.
Allocate(start, size, order) ==
  /\ start % 2^order = 0
  /\ Block(start, size) \subseteq avail
  /\ avail' = avail \ Block(start, size)
  /\ blocks' = blocks \cup {<<start, size>>}
  /\ UNCHANGED gone

\* A client gives a block back: it is free again, or lost.
Release(start, size) ==
  /\ <<start, size>> \in blocks
  /\ blocks' = blocks \ {<<start, size>>}
  /\ \/ avail' = avail \cup Block(start, size) /\ UNCHANGED gone
     \/ gone' = gone \cup Block(start, size) /\ UNCHANGED avail

Next ==
  \/ Populate
  \/ \E start, end \in avail : Reserve(start, end)
  \/ \E r \in Requests : \E start \in avail : Allocate(start, r[1], r[2])
  \/ \E b \in blocks : Release(b[1], b[2])

Spec == Init /\ [][Next]_vars

-----------------------------------------------------------------------------
\* No unit of memory has two owners: the blocks of the clients are disjoint,
\* and none overlaps what is free, reserved or lost.
NoDoubleOwner ==
  /\ avail \cap gone = {}
  /\ \A b \in blocks : Block(b[1], b[2]) \cap (avail \cup gone) = {}
  /\ \A b, d \in blocks : b # d => Block(b[1], b[2]) \cap Block(d[1], d[2]) = {}
=============================================================================
