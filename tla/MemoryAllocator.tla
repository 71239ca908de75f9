-------------------------- MODULE MemoryAllocator --------------------------
(***************************************************************************)
(* The physical memory allocator of src/memory_allocator.rs with its       *)
(* clients in src/main.rs.  Free ranges are entries of a fixed pool, each  *)
(* linked into two doubly linked lists: the chain of all entries by        *)
(* address, and the free list of its page order, by size.                  *)
(*                                                                         *)
(* MEMORY_ALLOCATOR is behind a Mutex, so a call is one step.  Its state   *)
(* is one record, and each method a function from the state before to the  *)
(* state after.  An address is a multiple of a small unit of memory.       *)
(***************************************************************************)
EXTENDS Naturals, FiniteSets

CONSTANTS
  PoolSize,       \* POOL_SIZE: entries in the pool
  NumOfFreeList,  \* NUM_OF_FREE_LIST
  PageShift,      \* a page is 2^PageShift units
  RamStart, RamSize,  \* the memory node of the DTB
  Regions,        \* what setup_memory reserves: the DTB, the ELF, the stack
  Requests,       \* the <<size, align_order>> the clients ask for
  MaxFreeSize,    \* bound on free_size, which every free raises
  None            \* Option::None

Ids == 0 .. PoolSize - 1
Orders == 0 .. NumOfFreeList - 1

ASSUME AllocatorAssumption ==
  /\ PoolSize \in Nat \ {0} /\ NumOfFreeList \in Nat \ {0} /\ PageShift \in Nat
  /\ RamStart \in Nat /\ RamSize \in Nat \ {0, 1} /\ MaxFreeSize \in Nat
  /\ Regions \subseteq Nat \X (Nat \ {0})
  /\ Requests \subseteq (Nat \ {0}) \X Nat
  /\ None \notin Ids

VARIABLES
  alloc,     \* MEMORY_ALLOCATOR
  reserved,  \* the regions setup_memory has reserved
  blocks,    \* what the clients own, as <<start, size>>
  lost,      \* what was freed in vain: free returned an error
  mode       \* "boot", then "run" (or "panic" when setup_memory panics)

vars == <<alloc, reserved, blocks, lost, mode>>

Entry ==
  [enabled : BOOLEAN, start : Nat, end : Nat,
   previous : Ids \cup {None}, next : Ids \cup {None},
   list_prev : Ids \cup {None}, list_next : Ids \cup {None}]

\* result is what the last call returned; "assert" is a failed assertion and
\* "overlap" a branch for memory that is already free.
Results == {"Ok", "NoEntry", "NoMemory", "InvalidRequest", "assert", "overlap"}

TypeOK ==
  /\ alloc \in [pool : [Ids -> Entry], first_entry : Ids \cup {None},
                free_list : [Orders -> Ids \cup {None}], free_size : Nat,
                result : Results, address : Nat]
  /\ reserved \subseteq Regions
  /\ blocks \subseteq Nat \X Nat
  /\ lost \subseteq Nat \X Nat
  /\ mode \in {"boot", "run", "panic"}

\* MemoryEntry::new.
NewEntry ==
  [enabled |-> FALSE, start |-> 0, end |-> 0, previous |-> None, next |-> None,
   list_prev |-> None, list_next |-> None]

\* MemoryAllocator::new.
NewAllocator ==
  [pool |-> [i \in Ids |-> NewEntry], first_entry |-> None,
   free_list |-> [o \in Orders |-> None], free_size |-> 0,
   result |-> "Ok", address |-> 0]

-----------------------------------------------------------------------------
(* Entries and the chain by address *)

Size(s, e) == s.pool[e].end - s.pool[e].start + 1

Return(s, r) == [s EXCEPT !.result = IF @ = "assert" THEN @ ELSE r]

Assert(s, ok) == IF ok THEN s ELSE [s EXCEPT !.result = "assert"]

\* set_range, with its assert!(start < end).
set_range(s, e, start, end) ==
  Assert([s EXCEPT !.pool[e].start = start, !.pool[e].end = end], start < end)

\* create_memory_entry: the first entry that is not in use, or None.
Unused(s) ==
  LET unused == {i \in Ids : ~s.pool[i].enabled}
  IN  IF unused = {} THEN None ELSE CHOOSE i \in unused : \A j \in unused : i <= j

create_memory_entry(s) ==
  [s EXCEPT !.pool[Unused(s)] = [NewEntry EXCEPT !.enabled = TRUE]]

chain_after_me(s, e, n) ==
  [s EXCEPT !.pool[e].next = n, !.pool[n].previous = e]

is_first_entry(s, e) == s.pool[e].previous = None

delete_dangling(s, e) ==
  [s EXCEPT !.pool[e].enabled = FALSE, !.pool[e].previous = None, !.pool[e].next = None]

\* MemoryEntry::delete.
delete(s, e) ==
  LET p == s.pool[e].previous
      n == s.pool[e].next
      t == IF p # None /\ n # None THEN chain_after_me(s, p, n)
           ELSE IF p # None THEN [s EXCEPT !.pool[p].next = None]
           ELSE IF n # None THEN [s EXCEPT !.pool[n].previous = None]
           ELSE s
  IN  [t EXCEPT !.pool[e].enabled = FALSE, !.pool[e].previous = None, !.pool[e].next = None]

\* The entries met by following "next" or "list_next" from head: Walk(..)[k]
\* is the k-th, None past the end.  A list has at most PoolSize entries.
Walk(s, head, link) ==
  LET w[k \in 0 .. PoolSize] ==
        IF k = 0 THEN head
        ELSE IF w[k - 1] = None THEN None ELSE s.pool[w[k - 1]][link]
  IN  w

Chain(s) == Walk(s, s.first_entry, "next")

\* The first entry of the walk w that satisfies P, None if there is none.
First(w, P(_)) ==
  LET hits == {k \in DOMAIN w : w[k] # None /\ P(w[k])}
  IN  IF hits = {} THEN None ELSE w[CHOOSE k \in hits : \A j \in hits : k <= j]

search_entry_containing_address(s, a) ==
  LET e == First(Chain(s), LAMBDA i : s.pool[i].start >= a \/ s.pool[i].end >= a)
  IN  IF e # None /\ s.pool[e].start <= a /\ a <= s.pool[e].end THEN e ELSE None

search_entry_previous_address(s, a) ==
  LET e == First(Chain(s), LAMBDA i : s.pool[i].start >= a \/ s.pool[i].next = None)
  IN  IF e = None THEN None
      ELSE IF s.pool[e].start < a /\ s.pool[e].end <= a THEN e
      ELSE s.pool[e].previous

-----------------------------------------------------------------------------
(* The free lists *)

\* size_to_page_order: the last order takes every larger size.
size_to_page_order(size) ==
  CHOOSE o \in Orders :
    /\ o = NumOfFreeList - 1 \/ size <= 2^(o + PageShift)
    /\ \A p \in Orders : p < o => size > 2^(p + PageShift)

unchain_from_freelist_keepsLinks(s, e) ==
  LET p == s.pool[e].list_prev
      n == s.pool[e].list_next
      pool == [i \in Ids |->
                IF i = p THEN [s.pool[i] EXCEPT !.list_next = n]
                ELSE IF i = n THEN [s.pool[i] EXCEPT !.list_prev = p]
                ELSE s.pool[i]]
  IN  [s EXCEPT !.pool = pool]

\* MemoryEntry::unchain_from_freelist.
unchain_from_freelist(s, e) ==
  LET p == s.pool[e].list_prev
      n == s.pool[e].list_next
      pool == [i \in Ids |->
                IF i = p THEN [s.pool[i] EXCEPT !.list_next = n]
                ELSE IF i = n THEN [s.pool[i] EXCEPT !.list_prev = p]
                ELSE IF i = e THEN [s.pool[i] EXCEPT !.list_prev = None, !.list_next = None]
                ELSE s.pool[i]]
  IN  [s EXCEPT !.pool = pool]

\* unchain_entry_from_free_list of an entry that was chained with that size.
Unchain(s, e, size) ==
  LET o == size_to_page_order(size)
      t == IF s.free_list[o] = e THEN [s EXCEPT !.free_list[o] = s.pool[e].list_next] ELSE s
  IN  unchain_from_freelist(t, e)

\* Entry e of order o goes between pred and n, at the head if pred is None.
Splice(s, e, o, pred, n) ==
  [s EXCEPT
    !.free_list[o] = IF pred = None THEN e ELSE @,
    !.pool = [i \in Ids |->
      IF i = e THEN [s.pool[i] EXCEPT !.list_prev = pred, !.list_next = n]
      ELSE IF i = pred THEN [s.pool[i] EXCEPT !.list_next = e]
      ELSE IF i = n THEN [s.pool[i] EXCEPT !.list_prev = e]
      ELSE s.pool[i]]]

\* The insertion: before the first entry of the list that is not smaller.
InsertBefore(s, e, o, w, n) ==
  Splice(s, e, o, IF n = w[0] THEN None ELSE First(w, LAMBDA i : s.pool[i].list_next = n), n)

InsertInto(s, e, o, w) ==
  InsertBefore(s, e, o, w, First(w, LAMBDA i : Size(s, i) >= Size(s, e)))

InsertOrder(s, e, o) == InsertInto(s, e, o, Walk(s, s.free_list[o], "list_next"))

\* assert_eq!(entry.list_next, None), assert_eq!(entry.list_prev, None).
Insert(s, e) ==
  InsertOrder(Assert(s, s.pool[e].list_prev = None /\ s.pool[e].list_next = None),
              e, size_to_page_order(Size(s, e)))

chain_entry_to_free_list_stays(s, e, old) ==
  IF old # 0 THEN s ELSE Insert(s, e)

\* chain_entry_to_free_list, for an entry chained with size old, or 0 if it is
\* in no list; nothing moves when the size is the same.
chain_entry_to_free_list(s, e, old) ==
  IF old = Size(s, e) THEN s
  ELSE Insert(IF old = 0 THEN s ELSE Unchain(s, e, old), e)

-----------------------------------------------------------------------------
(* Taking memory *)

\* The whole entry is taken; the last entry of all cannot be.
TakeAll(s, e) ==
  IF is_first_entry(s, e) /\ s.pool[e].next = None THEN Return(s, "NoEntry")
  ELSE delete(Unchain([s EXCEPT !.first_entry = IF is_first_entry(s, e) THEN s.pool[e].next ELSE @],
                      e, Size(s, e)), e)

\* The entry e becomes from .. to.
Resize(s, e, from, to) ==
  chain_entry_to_free_list(set_range(s, e, from, to), e, Size(s, e))

\* The middle is taken: the entry new, after e in the chain, gets the rest.
LinkAfter(s, e, new, next) ==
  chain_after_me(IF next = None THEN s ELSE chain_after_me(s, new, next), e, new)

Split(s, e, new, start, size) ==
  IF new = None THEN Return(s, "NoEntry")
  ELSE chain_entry_to_free_list(
         Resize(LinkAfter(set_range(create_memory_entry(s), new, start + size, s.pool[e].end),
                          e, new, s.pool[e].next),
                e, s.pool[e].start, start - 1),
         new, 0)

Take(s, e, start, size) ==
  LET from == s.pool[e].start
      to == s.pool[e].end
      end == start + size - 1
  IN
  CASE from = start /\ to = end -> TakeAll(s, e)
    [] from = start /\ to # end -> Resize(s, e, start + size, to)
    [] from # start /\ to = start /\ size # 1 -> Return(s, "InvalidRequest")
    [] from # start /\ to = end -> Resize(s, e, from, start - 1)
    [] OTHER -> Split(s, e, Unused(s), start, size)

\* free_size changes only on success.
Uncount(s, size) == [s EXCEPT !.free_size = IF s.result = "Ok" THEN @ - size ELSE @]

Count(s, size) == [s EXCEPT !.free_size = IF s.result = "Ok" THEN @ + size ELSE @]

\* define_used_memory with align_order 0, as every caller has it, on the entry e.
define_used_memory(s, start, size, e) ==
  IF s.free_size < size THEN Return(s, "NoMemory")
  ELSE IF e = None THEN Return(s, "InvalidRequest")
  ELSE Uncount(Take(Return(s, "Ok"), e, start, size), size)

reserve_memory(s, start, size) ==
  define_used_memory(s, start, size, search_entry_containing_address(s, start))

RoundUp(a, order) == ((a + 2^order - 1) \div 2^order) * 2^order

AlignedStart_unaligned(s, e, order) == s.pool[e].start

\* align_address_and_available_size: where an aligned block would start.
AlignedStart(s, e, order) ==
  IF order = 0 THEN s.pool[e].start ELSE RoundUp(s.pool[e].start, order)

Available_unaligned(s, e, size, order) == Size(s, e) >= size

Available(s, e, size, order) ==
  /\ Size(s, e) >= size
  /\ AlignedStart(s, e, order) + size <= s.pool[e].end + 1

AllocateFrom(s, e, size, order) ==
  IF s.free_size <= size \/ e = None THEN Return(s, "NoMemory")
  ELSE [define_used_memory(s, AlignedStart(s, e, order), size, e)
          EXCEPT !.address = AlignedStart(s, e, order)]

\* The first entry of free list o with room for the request.
Fit(s, o, size, order) ==
  First(Walk(s, s.free_list[o], "list_next"), LAMBDA i : Available(s, i, size, order))

allocate_oneList(s, size, order) ==
  AllocateFrom(s, Fit(s, size_to_page_order(size), size, order), size, order)

\* The free lists from the order of the size upwards, each from its smallest
\* entry; the first that has room at an aligned address is cut.
allocate(s, size, order) ==
  LET fits == {o \in Orders : o >= size_to_page_order(size) /\ Fit(s, o, size, order) # None}
      best == CHOOSE o \in fits : \A p \in fits : o <= p
  IN  AllocateFrom(s, IF fits = {} THEN None ELSE Fit(s, best, size, order), size, order)

-----------------------------------------------------------------------------
(* Giving memory back *)

\* A new entry for start .. end, before the first entry e or after e.
LinkBefore(s, e, new) ==
  chain_after_me(Assert([s EXCEPT !.first_entry = new], is_first_entry(s, e)), new, e)

Link(s, e, new, next) ==
  IF IF next # None THEN s.pool[new].end < s.pool[e].start
                    ELSE s.pool[e].end >= s.pool[new].start
  THEN LinkBefore(s, e, new)
  ELSE LinkAfter(s, e, new, next)

PlaceAt(s, e, new, start, end, old) ==
  IF new = None THEN Return(s, "NoEntry")
  ELSE chain_entry_to_free_list(
         chain_entry_to_free_list(
           Link(set_range(create_memory_entry(s), new, start, end), e, new, s.pool[e].next), e, old),
         new, 0)

Place(s, e, start, end, old) == PlaceAt(s, e, Unused(s), start, end, old)

\* Entry e takes over its neighbour n.
Merge(s, e, n) ==
  delete(Unchain(set_range(s, e, s.pool[e].start,
                           IF s.pool[e].end >= s.pool[n].end THEN s.pool[e].end
                                                             ELSE s.pool[n].end),
                 n, Size(s, n)), n)

\* The successor n of the freed range grows downwards.
GrowNext(s, n, start, end) ==
  IF n # None /\ s.pool[n].start = end + 1
  THEN Resize(s, n, start, s.pool[n].end)
  ELSE s

\* e and its successor merge when they meet.
Join(s, e, n, after, done) ==
  IF /\ n # None
     /\ s.pool[n].start = s.pool[e].end + 1 \/ (done /\ after >= s.pool[n].start)
  THEN Merge(s, e, n)
  ELSE s

\* Entry e, its successor or both grow over the freed range, or a new entry is
\* made for it.
Give(s, e, start, end) ==
  LET n == s.pool[e].next
      after == s.pool[e].end + 1
      up == after = start
      down == is_first_entry(s, e) /\ s.pool[e].start = end + 1
      done == up \/ down \/ (n # None /\ s.pool[n].start = end + 1)
      grown == set_range(s, e, IF down THEN start ELSE s.pool[e].start,
                               IF up THEN end ELSE s.pool[e].end)
  IN  IF done
      THEN chain_entry_to_free_list(Join(GrowNext(grown, n, start, end), e, n, after, TRUE),
                                    e, Size(s, e))
      ELSE Place(Join(s, e, n, after, FALSE), e, start, end, Size(s, e))

\* define_free_memory: e is the entry before the range, or the first one.
FreeNear(s, e, start, end) ==
  IF s.pool[e].start <= start /\ s.pool[e].end >= end THEN Return(s, "InvalidRequest")
  ELSE IF \/ s.pool[e].end >= start /\ ~is_first_entry(s, e)
          \/ s.pool[e].end = end
          \/ s.pool[e].next # None /\ s.pool[s.pool[e].next].start <= start
  THEN Return(s, "overlap")
  ELSE Give(Return(s, "Ok"), e, start, end)

define_free_memory(s, start, size) ==
  LET p == search_entry_previous_address(s, start)
  IN  Count(FreeNear(s, IF p # None THEN p ELSE s.first_entry, start, start + size - 1), size)

\* The first call of free makes the first entry.
FreeFirst(s, start, size) ==
  LET new == Unused(s)
      t == set_range(create_memory_entry(s), new, start, start + size - 1)
  IN  IF new = None THEN Return(s, "NoEntry")
      ELSE [chain_entry_to_free_list(t, new, 0) EXCEPT !.first_entry = new, !.free_size = size]

\* free: except for the first call, the size is added to free_size here and in
\* define_free_memory as well.
free(s, start, size) ==
  IF s.free_size = 0 THEN FreeFirst(s, start, size)
  ELSE Count(define_free_memory(s, start, size), size)

-----------------------------------------------------------------------------
(* The clients *)

\* What a call leaves behind: its result only matters to its caller, unless it
\* should never have been reached.
Stored(t) ==
  [t EXCEPT !.address = 0, !.result = IF @ \in {"assert", "overlap"} THEN @ ELSE "Ok"]

Init ==
  /\ alloc = NewAllocator
  /\ reserved = {}
  /\ blocks = {}
  /\ lost = {}
  /\ mode = "boot"

\* setup_memory: the RAM of the DTB is freed first.
FreeRam ==
  /\ mode = "boot" /\ alloc.free_size = 0
  /\ alloc' = Stored(free(alloc, RamStart, RamSize))
  /\ UNCHANGED <<reserved, blocks, lost, mode>>

\* setup_memory: a region is reserved, or its expect() panics.
Reserve(r) ==
  /\ mode = "boot" /\ alloc.free_size # 0
  /\ r \notin reserved
  /\ \E t \in {reserve_memory(alloc, r[1], r[2])} :
       /\ alloc' = Stored(t)
       /\ reserved' = IF t.result = "Ok" THEN reserved \cup {r} ELSE reserved
       /\ mode' = IF t.result # "Ok" THEN "panic"
                  ELSE IF reserved' = Regions THEN "run" ELSE "boot"
  /\ UNCHANGED <<blocks, lost>>

\* allocate_pages, GlobalAlloc::alloc.
Allocate(size, order) ==
  /\ mode = "run"
  /\ \E t \in {allocate(alloc, size, order)} :
       /\ alloc' = Stored(t)
       /\ blocks' = IF t.result = "Ok" THEN blocks \cup {<<t.address, size>>} ELSE blocks
  /\ UNCHANGED <<reserved, lost, mode>>

\* free_pages, GlobalAlloc::dealloc: a client gives back what it owns and
\* ignores the result.
Free(b) ==
  /\ mode = "run"
  /\ alloc.free_size + 2 * b[2] <= MaxFreeSize
  /\ blocks' = blocks \ {b}
  /\ \E t \in {free(alloc, b[1], b[2])} :
       /\ alloc' = Stored(t)
       /\ lost' = IF t.result = "Ok" THEN lost ELSE lost \cup {b}
  /\ UNCHANGED <<reserved, mode>>

Next ==
  \/ FreeRam
  \/ \E r \in Regions : Reserve(r)
  \/ \E r \in Requests : Allocate(r[1], r[2])
  \/ \E b \in blocks : Free(b)

Spec == Init /\ [][Next]_vars

-----------------------------------------------------------------------------
InUse == {i \in Ids : alloc.pool[i].enabled}

Units(start, end) == start .. end

FreeUnits == UNION {Units(alloc.pool[i].start, alloc.pool[i].end) : i \in InUse}

\* The chain that starts at first_entry visits every entry in use exactly once,
\* by increasing address with a gap between neighbours (so adjacent free ranges
\* are always merged), and "previous" leads back along it; links and sizes stay
\* in range.
ChainSortedAndMerged ==
  LET w == Chain(alloc)
      visits == {k \in DOMAIN w : w[k] # None}
  IN  /\ TypeOK
      /\ {w[k] : k \in visits} = InUse
      /\ Cardinality(visits) = Cardinality(InUse)
      /\ \A k \in visits :
           /\ alloc.pool[w[k]].previous = IF k = 0 THEN None ELSE w[k - 1]
           /\ k > 0 => alloc.pool[w[k - 1]].end + 1 < alloc.pool[w[k]].start

\* Every entry in use is in exactly one free list, the one of its page order,
\* each list is sorted by size and its back links are right: allocate finds
\* the smallest fit and no freed range is forgotten by the lists.
FreeListsExact ==
  LET w == [o \in Orders |-> Walk(alloc, alloc.free_list[o], "list_next")]
      visits == {ok \in Orders \X (0 .. PoolSize) : w[ok[1]][ok[2]] # None}
  IN  /\ {w[ok[1]][ok[2]] : ok \in visits} = InUse
      /\ Cardinality(visits) = Cardinality(InUse)
      /\ \A ok \in visits :
           LET e == w[ok[1]][ok[2]]
               pred == w[ok[1]][ok[2] - 1]
           IN  /\ size_to_page_order(Size(alloc, e)) = ok[1]
               /\ alloc.pool[e].list_prev = IF ok[2] = 0 THEN None ELSE pred
               /\ ok[2] > 0 => Size(alloc, pred) <= Size(alloc, e)

\* No assertion of the allocator fails and no branch for memory that is free
\* already is reached, as long as clients give back what they were given.
NoAssertFails == alloc.result = "Ok"

\* allocate answers NoMemory only when no aligned place in free memory is
\* large enough, or when what it asks for is all the free memory there is.
RefusalJustified ==
  mode = "run" =>
    \A r \in Requests :
      allocate(alloc, r[1], r[2]).result = "NoMemory" =>
        \/ Cardinality(FreeUnits) = r[1]
        \/ ~\E a \in FreeUnits : a % 2^r[2] = 0 /\ Units(a, a + r[1] - 1) \subseteq FreeUnits

UnitsOf(bs) == UNION {Units(b[1], b[1] + b[2] - 1) : b \in bs}

\* The chain and the lists of the allocator implement a plain set of free
\* memory: a block handed out is aligned and was free, a block given back is
\* free again or lost for good, and nothing else ever moves.
Pool == INSTANCE PagePool WITH
  Ram <- Units(RamStart, RamStart + RamSize - 1),
  avail <- FreeUnits,
  gone <- UnitsOf(reserved \cup lost)

ImplementsPagePool == Pool!Spec

\* The blocks the clients of the allocator own are disjoint, and none overlaps
\* an entry of the chain, a reserved region or memory lost by a failed free.
NoDoubleOwner == Pool!NoDoubleOwner
=============================================================================
