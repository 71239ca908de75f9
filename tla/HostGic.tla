------------------------------ MODULE HostGic -------------------------------
(***************************************************************************)
(* The driver of the physical GICv3, src/drivers/gicv3.rs, as functions of *)
(* the registers of the distributor and of a redistributor: a bit array is *)
(* the set of the INTIDs whose bit is set.                                 *)
(***************************************************************************)
EXTENDS Naturals

CONSTANT IntIds   \* the INTIDs that the machine has

ASSUME HostGicAssumption == IntIds \subseteq 0 .. 1019

\* Registers after a reset, and what the devices have made pending.
Distributor(pending) ==
  [grp1ns |-> FALSE, group |-> {}, modified |-> {}, priority |-> [i \in IntIds |-> 255],
   edge |-> {}, pending |-> pending, enabled |-> {}, router |-> [i \in IntIds |-> 0]]
Redistributor ==
  [awake |-> FALSE, group |-> {}, modified |-> {}, priority |-> [i \in IntIds |-> 255],
   edge |-> {}, enabled |-> {}]

\* GicDistributor::init, and the setters of both: every read-modify-write
\* changes the bits of int_id only.
init_distributor(d) == [d EXCEPT !.grp1ns = TRUE]
set_group(r, int_id) ==
  [r EXCEPT !.group = @ \cup {int_id}, !.modified = @ \ {int_id}]
set_priority(r, int_id, priority) == [r EXCEPT !.priority[int_id] = priority]
set_trigger_mode(r, int_id, is_level_trigger) ==
  [r EXCEPT !.edge = IF is_level_trigger THEN @ \ {int_id} ELSE @ \cup {int_id}]
set_enable(r, int_id) == [r EXCEPT !.enabled = @ \cup {int_id}]

\* ICPENDR reads as the pending bits of 32 INTIDs, and they are all written back.
clear_pending(d, int_id) ==
  [d EXCEPT !.pending = {i \in @ : i \div 32 # int_id \div 32}]

\* 0x6100 is the register of INTID 32, and the index is the INTID.
set_routing(d, int_id, affinity) ==
  [d EXCEPT !.router = [i \in IntIds |-> IF i = int_id + 32 THEN affinity ELSE @[i]]]

init_redistributor(r) == [r EXCEPT !.awake = TRUE]

get_self_redistributor_first(frames, length, size, affinity) ==
  IF length > 0 THEN 1 ELSE 0

\* The redistributor that belongs to a CPU: frames of one size follow each other
\* up to the end of the region, and frames[k] is the affinity of the k-th.
get_self_redistributor(frames, length, size, affinity) ==
  LET own == {k \in DOMAIN frames : (k - 1) * size < length /\ frames[k] = affinity}
  IN  IF own = {} THEN 0 ELSE CHOOSE k \in own : \A j \in own : k <= j
=============================================================================
