--------------------------- MODULE VirtioBlkMmio ----------------------------
(***************************************************************************)
(* The emulated block device of src/mmio/virtio_blk.rs and the guest's     *)
(* driver at the other end of its virtqueue.  The guest has one CPU, and a *)
(* trapped access runs to its end while the guest waits, so every access   *)
(* is one step.  The disk behind it (src/fat32.rs and the host's driver)   *)
(* answers with success or failure.                                        *)
(***************************************************************************)
EXTENDS Naturals, Sequences, FiniteSets, SequencesExt

CONSTANTS
  QueueSize,   \* queue_size, and the number of descriptor chains the guest has
  IdWidth,     \* bits of last_avail_id, used_id and the two idx fields
  Builds,      \* "dev" (cargo run: overflow panics), "release" (it wraps)
  Kinds,       \* kinds of requests the guest makes
  Pages,       \* page sizes of guests, in units of 4 KiB
  None         \* nothing

\* "good"; "badbuffer": a data buffer outside the RAM of the VM; "badstatus":
\* a status byte outside of it; "malformed": a header that operation() rejects.
AllKinds == {"good", "badbuffer", "badstatus", "malformed"}

Heads == 0 .. QueueSize - 1
Ids == 0 .. 2^IdWidth - 1

ASSUME VirtioAssumption ==
  /\ QueueSize \in Nat \ {0} /\ IdWidth \in Nat
  /\ 2^IdWidth % QueueSize = 0 /\ QueueSize < 2^IdWidth
  /\ Builds \subseteq {"dev", "release"}
  /\ Kinds \subseteq AllKinds
  /\ 1 \in Pages /\ Pages \subseteq Nat \ {0}
  /\ None \notin Heads

VARIABLES
  build,             \* how the hypervisor was built
  mode,              \* "reset", "live", or "panic"
  queue,             \* queue_size, page_size, descriptor, avail_ring, used_ring
  page,              \* the page size of the guest
  written,           \* the queue registers the guest wrote since the reset
  interrupt_status,  \* bit 0 of it
  last_avail_id, used_id,             \* the device's counters
  avail_idx, avail_ring,              \* in guest memory, written by the guest
  used_idx, used_ring,                \* in guest memory, written by the device
  kind,              \* kind[h]: the request in descriptor chain h
  status,            \* status[h]: its status byte, "unset" before the answer
  irq,               \* VIRTIO_BLK_INT_ID is pending in the guest's GIC
  last_used,         \* how far the guest has read the used ring
  busy,              \* the chains in use
  older,             \* the pairs of them of which the first was submitted first (ghost)
  stuck,             \* chains taken from the ring and never answered (ghost)
  quiet              \* the last operation() returned early (ghost)

counters == <<last_avail_id, used_id>>
guestRings == <<avail_idx, avail_ring, kind, last_used>>
deviceRings == <<used_idx, used_ring, status>>
setup == <<build, queue, page, written>>
vars == <<setup, mode, interrupt_status, counters, guestRings, deviceRings,
          irq, busy, older, stuck, quiet>>

TypeOK ==
  /\ build \in Builds
  /\ mode \in {"reset", "live", "panic"}
  /\ queue \in [queue_size : {0, QueueSize}, page_size : Pages, descriptor : {"frame", None},
                avail_ring : {None} \cup ({"frame", None} \X {0, QueueSize}),
                used_ring : {None} \cup ({"frame", None} \X {0, QueueSize} \X Pages)]
  /\ page \in Pages /\ written \subseteq {"page", "num", "pfn"}
  /\ {interrupt_status, irq, quiet} \subseteq BOOLEAN
  /\ {last_avail_id, used_id, avail_idx, used_idx, last_used} \subseteq Ids
  /\ {avail_ring, used_ring} \subseteq [Heads -> Heads \cup {None}]
  /\ kind \in [Heads -> Kinds \cup {None}]
  /\ status \in [Heads -> {"unset", "S_OK", "S_IOERR"}]
  /\ busy \subseteq Heads /\ older \subseteq busy \X busy /\ stuck \subseteq busy

\* The registers of the queue after VirtioBlkMmio::new and after a reset.  A
\* descriptor table is None (null) or the "frame" the guest reserved for it; the
\* place of a ring is given by what it is computed from.
NoQueue == [queue_size |-> 0, page_size |-> 1, descriptor |-> None,
            avail_ring |-> None, used_ring |-> None]

AvailAt(base, size) == <<base, size>>
UsedAt(base, size, bytes) == <<base, size, bytes>>

\* VirtioBlkMmio::new; the memory of the rings is still zero.
Init ==
  /\ build \in Builds
  /\ queue = NoQueue /\ page \in Pages /\ written = {}
  /\ mode = "reset"
  /\ interrupt_status = FALSE
  /\ last_avail_id = 0 /\ used_id = 0
  /\ avail_idx = 0 /\ avail_ring = [k \in Heads |-> None]
  /\ used_idx = 0 /\ used_ring = [k \in Heads |-> None]
  /\ kind = [h \in Heads |-> None]
  /\ status = [h \in Heads |-> "unset"]
  /\ irq = FALSE
  /\ last_used = 0
  /\ busy = {} /\ older = {} /\ stuck = {} /\ quiet = FALSE

\* Counters of IdWidth bits.
Plus(id, n) == (id + n) % 2^IdWidth
Minus(id, other) == (id + 2^IdWidth - other) % 2^IdWidth

\* What a ring holds between two counters.
Between(ring, from, to) ==
  [k \in 1 .. Minus(to, from) |-> ring[Plus(from, k - 1) % QueueSize]]

Waiting == Between(avail_ring, last_avail_id, avail_idx)
Unseen == Between(used_ring, last_used, used_idx)

-----------------------------------------------------------------------------
(* The device *)

\* Both rings are placed anew by a write of QUEUE_NUM and by one of QUEUE_PFN.
Placed(q) ==
  [q EXCEPT !.avail_ring = AvailAt(q.descriptor, q.queue_size),
            !.used_ring = UsedAt(q.descriptor, q.queue_size, q.page_size)]

WriteGuestPageSize(bytes) == queue' = [queue EXCEPT !.page_size = bytes]

WriteQueueNum(size) == queue' = Placed([queue EXCEPT !.queue_size = size])

\* A frame outside the RAM of the VM (None) is ignored.
WriteQueuePfn(frame) ==
  queue' = IF frame = None THEN queue
           ELSE Placed([queue EXCEPT !.descriptor = frame])

Answers_skipsBad(h) ==
  IF kind[h] = "good" THEN {"S_OK", "S_IOERR"} ELSE {status[h]}

\* The answers the loop can give to chain h.
Answers(h) ==
  CASE kind[h] = "good" -> {"S_OK", "S_IOERR"}
    [] kind[h] = "badbuffer" -> {"S_IOERR"}
    [] OTHER -> {status[h]}

\* How many chains the loop takes from the avail ring, and how many of them it
\* answers: a malformed one is taken and ends the loop.
Taken ==
  LET bad == {k \in DOMAIN Waiting : kind[Waiting[k]] = "malformed"}
  IN  IF bad = {} THEN Len(Waiting) ELSE CHOOSE k \in bad : \A j \in bad : k <= j

Answered ==
  {k \in 1 .. Taken : kind[Waiting[k]] # "malformed"}

Overflows(id, n) == build = "dev" /\ id + n >= 2^IdWidth

write_used_sameSlot(n) ==
  /\ used_id' = Plus(used_id, n)
  /\ used_ring' = IF n = 0 THEN used_ring
                  ELSE [used_ring EXCEPT ![used_id % QueueSize] = Waiting[n]]
  /\ used_idx' = used_id'

\* write_used of the first n chains that wait.
write_used(n) ==
  /\ used_id' = Plus(used_id, n)
  /\ used_ring' = [s \in Heads |->
       LET k == {j \in 1 .. n : Plus(used_id, j - 1) % QueueSize = s}
       IN  IF k = {} THEN used_ring[s] ELSE Waiting[CHOOSE j \in k : TRUE]]
  /\ used_idx' = used_id'

Announce_statusOnly ==
  /\ interrupt_status' = TRUE
  /\ UNCHANGED irq

\* The end of operation: the interrupt is raised.
Announce ==
  /\ interrupt_status' = TRUE
  /\ irq' = TRUE

\* operation: chains are taken and answered one by one; unless the loop ended
\* early the interrupt is raised, also when nothing was waiting.
operation ==
  /\ ~Overflows(last_avail_id, Taken) /\ ~Overflows(used_id, Cardinality(Answered))
  /\ last_avail_id' = Plus(last_avail_id, Taken)
  /\ write_used(Cardinality(Answered))
  /\ status' \in [Heads -> {"unset", "S_OK", "S_IOERR"}]
  /\ \A h \in Heads : status'[h] \in
       IF h \in {Waiting[k] : k \in Answered} THEN Answers(h) ELSE {status[h]}
  /\ stuck' = stuck \cup {Waiting[k] : k \in (1 .. Taken) \ Answered}
  /\ quiet' = (Taken # Cardinality(Answered))
  /\ IF quiet' THEN UNCHANGED <<interrupt_status, irq>> ELSE Announce
  /\ UNCHANGED mode

\* A counter of the dev build overflows: the hypervisor panics.
operation_panics ==
  /\ Overflows(last_avail_id, Taken) \/ Overflows(used_id, Cardinality(Answered))
  /\ mode' = "panic"
  /\ UNCHANGED <<interrupt_status, counters, deviceRings, irq, stuck, quiet>>

\* A write of QUEUE_NOTIFY.
Notify ==
  /\ mode = "live"
  /\ operation \/ operation_panics
  /\ UNCHANGED <<setup, guestRings, busy, older>>

\* A write of 0 to STATUS.
Reset ==
  /\ mode' = "reset"
  /\ interrupt_status' = FALSE
  /\ last_avail_id' = 0 /\ used_id' = 0
  /\ queue' = NoQueue

-----------------------------------------------------------------------------
(* The guest's driver *)

\* After a reset it writes the page size (which needs no write when it is the
\* default), then QUEUE_NUM and QUEUE_PFN in any order, then DRIVER_OK.
Setup ==
  /\ mode = "reset"
  /\ \/ /\ written = {}
        /\ WriteGuestPageSize(page)
        /\ written' = {"page"}
     \/ /\ "page" \in written \/ page = NoQueue.page_size
        /\ WriteQueueNum(QueueSize)
        /\ written' = written \cup {"num"}
     \/ /\ "page" \in written \/ page = NoQueue.page_size
        /\ \E frame \in {"frame", None} :
             /\ WriteQueuePfn(frame)
             /\ written' = IF frame = None THEN written ELSE written \cup {"pfn"}
  /\ UNCHANGED <<build, page, mode, interrupt_status, counters, guestRings,
                 deviceRings, irq, busy, older, stuck, quiet>>

Start ==
  /\ mode = "reset"
  /\ {"num", "pfn"} \subseteq written
  /\ mode' = "live"
  /\ UNCHANGED <<setup, interrupt_status, counters, guestRings, deviceRings,
                 irq, busy, older, stuck, quiet>>

\* A request in a free descriptor chain is put into the avail ring.
Submit(h, k) ==
  /\ mode = "live"
  /\ h \notin busy
  /\ kind' = [kind EXCEPT ![h] = k]
  /\ status' = [status EXCEPT ![h] = "unset"]
  /\ avail_ring' = [avail_ring EXCEPT ![avail_idx % QueueSize] = h]
  /\ avail_idx' = Plus(avail_idx, 1)
  /\ busy' = busy \cup {h}
  /\ older' = older \cup (busy \X {h})
  /\ UNCHANGED <<setup, mode, interrupt_status, counters, last_used, used_idx, used_ring,
                 irq, stuck, quiet>>

\* Its interrupt handler: INTERRUPT_STATUS is read and written to INTERRUPT_ACK,
\* and if it was set every new element of the used ring ends a request.
HandleInterrupt ==
  /\ mode # "panic" /\ irq
  /\ irq' = FALSE
  /\ interrupt_status' = FALSE
  /\ last_used' = IF interrupt_status THEN used_idx ELSE last_used
  /\ busy' = IF interrupt_status THEN busy \ Range(Unseen) ELSE busy
  /\ older' = older \cap (busy' \X busy')
  /\ UNCHANGED <<setup, mode, counters, avail_idx, avail_ring, kind, deviceRings, stuck, quiet>>

\* It resets the device and clears the rings.  An interrupt may stay pending.
Reprobe ==
  /\ mode = "live"
  /\ Reset
  /\ avail_idx' = 0 /\ avail_ring' = [k \in Heads |-> None] /\ last_used' = 0
  /\ used_idx' = 0 /\ used_ring' = [k \in Heads |-> None]
  /\ kind' = [h \in Heads |-> None]
  /\ status' = [h \in Heads |-> "unset"]
  /\ busy' = {} /\ older' = {} /\ stuck' = {} /\ quiet' = FALSE
  /\ written' = {}
  /\ UNCHANGED <<build, page, irq>>

Next ==
  \/ Setup
  \/ Start
  \/ \E h \in Heads, k \in Kinds : Submit(h, k)
  \/ Notify
  \/ HandleInterrupt
  \/ Reprobe

\* A guest notifies the device of what it has submitted, and takes interrupts.
Fairness == WF_vars(Notify) /\ WF_vars(HandleInterrupt)

Spec == Init /\ [][Next]_vars /\ Fairness

-----------------------------------------------------------------------------
\* The two rings and the counters agree with what is going on: the device looks
\* for the rings where the guest has put them, whichever of QUEUE_NUM and
\* QUEUE_PFN was written last, and the requests of the guest are, oldest first,
\* those answered and not yet seen, then those that wait; only the stuck ones
\* are in neither ring.  So every request is answered at most once, in order,
\* also when the counters wrap.
RingsAgree ==
  /\ TypeOK
  /\ mode = "live" =>
       /\ queue.avail_ring = AvailAt("frame", QueueSize)
       /\ queue.used_ring = UsedAt("frame", QueueSize, page)
       /\ LET q == Unseen \o Waiting
          IN  /\ Range(q) = busy \ stuck
              /\ \A i, j \in DOMAIN q : i < j => <<q[i], q[j]>> \in older

\* An answer is announced: while the used ring holds elements the guest has not
\* seen, its interrupt is pending and INTERRUPT_STATUS says so, except after an
\* operation() that returned early.
CompletionAnnounced ==
  mode = "live" /\ Unseen # <<>> => quiet \/ (irq /\ interrupt_status)

\* The guest never reads a status byte the device has not written (unless it
\* gave an address outside its RAM for it).
StatusFresh ==
  mode = "live" =>
    \A k \in DOMAIN Unseen :
      status[Unseen[k]] = "unset" => kind[Unseen[k]] = "badstatus"

\* Every request is answered and its answer seen, unless the hypervisor panics
\* or operation() met a malformed request.
RequestsEnd ==
  \A h \in Heads :
    h \in busy ~> h \notin busy \/ mode = "panic" \/ stuck # {}
=============================================================================
