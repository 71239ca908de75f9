---------------------------- MODULE Stage2Paging ----------------------------
(***************************************************************************)
(* The stage 2 translation table of a VM, as src/paging.rs builds it: the  *)
(* choice of the root table, and the recursive walk that maps a range with *)
(* blocks where it can and pages where it must, allocating tables on the   *)
(* way.  The reference is what the hardware translates an address to.      *)
(* Only the CPU of the VM touches the table, so a call is one step.        *)
(***************************************************************************)
EXTENDS Naturals, Sequences, FiniteSets

CONSTANTS
  PageShift,     \* PAGE_SHIFT, 12 in the code
  Bits,          \* index bits of a level, 9 in the code
  AddressBits,   \* 64 in the code
  ParangeTable,  \* the pairs <<t0sz, initial_lookup_level>> of the code
  FreeTables,    \* how many tables allocate_pages can still hand out
  Ranges,        \* the <<physical address, IPA, size>> that are mapped
  MaxCalls       \* bound on the calls of map_address_stage2

ASSUME PagingAssumption ==
  /\ {PageShift, Bits} \subseteq Nat \ {0}
  /\ {AddressBits, MaxCalls} \subseteq Nat
  /\ ParangeTable \subseteq (0 .. AddressBits) \X (0 .. 1)
  /\ FreeTables \subseteq Nat
  /\ Ranges \subseteq Nat \X Nat \X (Nat \ {0})

PAGE_SIZE == 2^PageShift
Shift(level) == PageShift + Bits * (3 - level)

VARIABLES
  regs,     \* VTCR_EL2: t0sz and the initial lookup level
  tables,   \* the tables by address (their number); the first is VTTBR_EL2
  free,     \* tables that can still be allocated
  result,   \* "none", "Ok", "Err", or "panic" (no memory for the root)
  mapped,   \* the ranges that were mapped (ghost)
  failed    \* the range whose mapping failed, or nothing (ghost)

vars == <<regs, tables, free, result, mapped, failed>>

Descriptors == [kind : {"invalid", "table", "block", "page"}, address : Nat]
Invalid == [kind |-> "invalid", address |-> 0]

TypeOK ==
  /\ regs \in ParangeTable
  /\ \A t \in 1 .. Len(tables) : \A k \in DOMAIN tables[t] : tables[t][k] \in Descriptors
  /\ \E n \in FreeTables : free \in 0 .. n
  /\ result \in {"none", "Ok", "Err", "panic"}
  /\ mapped \subseteq Ranges /\ failed \subseteq Ranges

NewTable(n) == [k \in 0 .. n - 1 |-> Invalid]

Init ==
  /\ regs \in ParangeTable
  /\ tables = <<>>
  /\ free \in FreeTables
  /\ result = "none"
  /\ mapped = {} /\ failed = {}

-----------------------------------------------------------------------------
\* The literal 43 of the code is AddressBits - PageShift - Bits.
number_of_concatenated_page_tables(t0sz, level) ==
  LET full == AddressBits - PageShift - Bits - (3 - level) * Bits
  IN  IF t0sz > full THEN 1 ELSE 2^(full - t0sz)

\* The root takes number_of_tables contiguous tables, or the CPU panics.
init_stage2_translation_table ==
  LET n == number_of_concatenated_page_tables(regs[1], regs[2]) IN
  /\ tables = <<>> /\ result = "none"
  /\ \/ /\ free >= n
        /\ tables' = <<NewTable(n * 2^Bits)>>
        /\ free' = free - n
        /\ UNCHANGED result
     \/ /\ free < n
        /\ result' = "panic"
        /\ UNCHANGED <<tables, free>>
  /\ UNCHANGED <<regs, mapped, failed>>

-----------------------------------------------------------------------------
(* The walk.  s holds the references it updates (physical_address,          *)
(* intermediate_physical_address, remaining_size) and the memory.           *)

\* A block or page descriptor.
Leaf(s, t, k, kind, size) ==
  [s EXCEPT !.tables[t][k] = [kind |-> kind, address |-> s.pa],
            !.pa = @ + size, !.ipa = @ + size, !.remaining = @ - size]

BlockFits_anyPhysical(s, level) ==
  /\ level >= 1
  /\ s.remaining >= 2^Shift(level)
  /\ s.ipa % 2^Shift(level) = 0

BlockFits(s, level) ==
  /\ level >= 1
  /\ s.remaining >= 2^Shift(level)
  /\ s.pa % 2^Shift(level) = 0
  /\ s.ipa % 2^Shift(level) = 0

NextTable_always(s, t, k) ==
  IF s.free = 0 THEN [s EXCEPT !.ok = FALSE]
  ELSE [s EXCEPT !.tables = Append([@ EXCEPT ![t][k] =
                   [kind |-> "table", address |-> Len(s.tables) + 1]], NewTable(2^Bits)),
                 !.free = @ - 1]

\* The table of the next level, allocated if there is none yet.
NextTable(s, t, k) ==
  IF s.tables[t][k].kind = "table" THEN s
  ELSE IF s.free = 0 THEN [s EXCEPT !.ok = FALSE]
  ELSE [s EXCEPT !.tables = Append([@ EXCEPT ![t][k] =
                   [kind |-> "table", address |-> Len(s.tables) + 1]], NewTable(2^Bits)),
                 !.free = @ - 1]

RECURSIVE Descriptors_from(_, _, _, _)

\* _map_address_stage2: the descriptors from the index of the address on.
map_level(s, t, level) ==
  IF s.ok
  THEN Descriptors_from(s, t, level, (s.ipa \div 2^Shift(level)) % Cardinality(DOMAIN s.tables[t]))
  ELSE s

\* One iteration of its loop.
Descriptor(s, t, level, k) ==
  IF level = 3 THEN Leaf(s, t, k, "page", PAGE_SIZE)
  ELSE IF BlockFits(s, level) THEN Leaf(s, t, k, "block", 2^Shift(level))
  ELSE LET u == NextTable(s, t, k) IN map_level(u, u.tables[t][k].address, level + 1)

\* The loop ends with the table, with the range, or with an error.
Descriptors_from(s, t, level, k) ==
  IF ~s.ok \/ s.remaining = 0 \/ k \notin DOMAIN s.tables[t] THEN s
  ELSE Descriptors_from(Descriptor(s, t, level, k), t, level, k + 1)

Overlap(r, q) == r[2] < q[2] + q[3] /\ q[2] < r[2] + r[3]

\* map_address_stage2 of a range that is not mapped yet and within the IPA space.
map_address_stage2(r) ==
  /\ tables # <<>> /\ result # "Err" /\ Cardinality(mapped) < MaxCalls
  /\ r[2] + r[3] <= 2^(AddressBits - regs[1])
  /\ \A q \in mapped : ~Overlap(r, q)
  /\ IF r[3] % PAGE_SIZE # 0
     THEN result' = "Err" /\ UNCHANGED <<tables, free, mapped, failed>>
     ELSE LET s == map_level([pa |-> r[1], ipa |-> r[2], remaining |-> r[3],
                              tables |-> tables, free |-> free, ok |-> TRUE], 1, regs[2])
          IN  /\ tables' = s.tables /\ free' = s.free
              /\ result' = IF s.ok THEN "Ok" ELSE "Err"
              /\ mapped' = IF s.ok THEN mapped \cup {r} ELSE mapped
              /\ failed' = IF s.ok THEN failed ELSE {r}
  /\ UNCHANGED regs

Next == init_stage2_translation_table \/ \E r \in Ranges : map_address_stage2(r)

Spec == Init /\ [][Next]_vars

-----------------------------------------------------------------------------
(* The hardware's translation table walk *)

RECURSIVE Walk(_, _, _)

\* The physical address of ipa, or nothing: a set.  The low bits of the address
\* in a block descriptor are ignored.
Walk(t, level, ipa) ==
  LET d == tables[t][(ipa \div 2^Shift(level)) % Cardinality(DOMAIN tables[t])]
      size == 2^Shift(level)
  IN  CASE d.kind = "table" /\ level < 3 -> Walk(d.address, level + 1, ipa)
        [] (d.kind = "block" /\ level \in {1, 2}) \/ (d.kind = "page" /\ level = 3) ->
             {(d.address \div size) * size + (ipa % size)}
        [] OTHER -> {}

Translation(ipa) == Walk(1, regs[2], ipa)

\* The physical addresses the calls were asked to give to ipa.
Asked(ranges, ipa) ==
  {r[1] + (ipa - r[2]) : r \in {q \in ranges : q[2] <= ipa /\ ipa < q[2] + q[3]}}

\* A guest sees exactly the memory that was mapped for it: each page of a range
\* whose mapping succeeded translates to its own physical page, no other page
\* translates to anything, and a mapping that ran out of memory half way has
\* left right translations only.
MappedRight ==
  tables # <<>> =>
    \A page \in 0 .. 2^(AddressBits - regs[1] - PageShift) - 1 :
      LET ipa == page * PAGE_SIZE IN
      /\ Asked(mapped, ipa) \subseteq Translation(ipa)
      /\ Translation(ipa) \subseteq Asked(mapped \cup failed, ipa)

\* The tables form a tree: every table but the root is the next level of exactly
\* one descriptor, so none allocated by the walk is lost, not even by a failed
\* call or by the second of two calls that share tables.
TablesFormTree ==
  LET slots == UNION {{t} \X DOMAIN tables[t] : t \in 1 .. Len(tables)} IN
  /\ TypeOK
  /\ \A u \in 2 .. Len(tables) :
       Cardinality({x \in slots :
         tables[x[1]][x[2]] = [kind |-> "table", address |-> u]}) = 1
=============================================================================
