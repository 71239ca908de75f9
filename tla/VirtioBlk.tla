----------------------------- MODULE VirtioBlk ------------------------------
(***************************************************************************)
(* The host's driver of src/drivers/virtio_blk.rs and the disk at the      *)
(* other end of its virtqueue.  operation_sync makes one request, spins on *)
(* its status byte and never looks at the used ring, so the disk may still *)
(* be busy with the end of a request when the next one is made.  The       *)
(* caller holds VIRTIO_BLK.  Addresses and lengths count blocks of 512     *)
(* bytes: every caller passes multiples of that.                           *)
(***************************************************************************)
EXTENDS Naturals

CONSTANTS
  NUMBER_OF_DESCRIPTORS,
  IdxLimit,     \* how many values avail.idx has, 2^16 in the code
  Builds,       \* "dev" (cargo run: overflow panics), "release" (it wraps)
  Blocks,       \* the blocks of the disk
  Cells,        \* the memory that buffers are in, by blocks
  Values,       \* what a block can hold
  BlkRequests,  \* what operation_sync may be asked for
  None          \* nothing

Descriptors == 0 .. NUMBER_OF_DESCRIPTORS - 1
Indices == 0 .. IdxLimit - 1

ASSUME VirtioBlkAssumption ==
  /\ NUMBER_OF_DESCRIPTORS \in Nat /\ NUMBER_OF_DESCRIPTORS >= 3
  /\ IdxLimit \in Nat \ {0, 1} /\ IdxLimit % NUMBER_OF_DESCRIPTORS = 0
  /\ Builds \subseteq {"dev", "release"}
  /\ Blocks \subseteq Nat /\ Cells \subseteq Nat
  /\ BlkRequests \subseteq [write : BOOLEAN, block : Nat, length : Nat, buffer : Nat]
  /\ None \notin Nat /\ None \notin BlkRequests

VARIABLES
  build,         \* how the hypervisor was built
  free_bitmap,   \* the descriptors whose bit is set
  descriptors,   \* the descriptor table
  avail,         \* the avail ring: idx and ring
  caller,        \* where operation_sync is, and the descriptors it has
  request,       \* virtio_blk_req and the buffer of the call, or None
  status,        \* the status byte on its stack, "unset" for 0xFF
  result,        \* what the last call returned
  device,        \* what the disk does, and how far it has read the avail ring
  disk, memory   \* the data

data == <<disk, memory>>
driverVars == <<build, free_bitmap, descriptors, avail, caller, request, result>>
blkVars == <<driverVars, status, device, data>>

\* VirtioBlk::new has reset the device and zeroed the queue.
BlkInit ==
  /\ build \in Builds
  /\ free_bitmap = Descriptors
  /\ descriptors = [d \in Descriptors |-> [address |-> None, write |-> FALSE, next |-> None]]
  /\ avail = [idx |-> 0, ring |-> [d \in Descriptors |-> None]]
  /\ caller = [pc |-> "idle", first |-> None, second |-> None, third |-> None]
  /\ request = None /\ status = "unset" /\ result = "Ok"
  /\ device = [stage |-> "sleep", kicked |-> FALSE, last |-> 0]

\* The next value of a counter that wraps.
Succ(idx) == IF idx + 1 = IdxLimit THEN 0 ELSE idx + 1

-----------------------------------------------------------------------------
(* The driver *)

\* The lowest descriptor that is free.
allocate_descriptor(free) ==
  IF free = {} THEN None ELSE CHOOSE d \in free : \A e \in free : d <= e

Linked(first, second, third, write) ==
  [d \in Descriptors |->
     CASE d = first -> [address |-> "req", write |-> FALSE, next |-> second]
       [] d = second -> [address |-> "buffer", write |-> ~write, next |-> third]
       [] d = third -> [address |-> "status", write |-> TRUE, next |-> descriptors[d].next]
       [] OTHER -> descriptors[d]]

\* operation_sync up to the new avail.idx, which is what the disk can see: three
\* descriptors are linked and offered.  Without three the call fails, and what it
\* had taken stays taken; in a dev build the last idx of its width panics.
operation_sync(r) ==
  LET first == allocate_descriptor(free_bitmap)
      second == allocate_descriptor(free_bitmap \ {first})
      third == allocate_descriptor(free_bitmap \ {first, second})
      overflows == build = "dev" /\ avail.idx + 1 = IdxLimit
  IN  /\ caller.pc = "idle"
      /\ free_bitmap' = free_bitmap \ {first, second, third}
      /\ IF None \in {first, second, third}
         THEN result' = "Err" /\ UNCHANGED <<descriptors, avail, caller, request, status>>
         ELSE /\ descriptors' = Linked(first, second, third, r.write)
              /\ avail' = [idx |-> IF overflows THEN avail.idx ELSE Succ(avail.idx),
                           ring |-> [avail.ring EXCEPT
                                       ![avail.idx % NUMBER_OF_DESCRIPTORS] = first]]
              /\ caller' = [pc |-> IF overflows THEN "panic" ELSE "notify",
                            first |-> first, second |-> second, third |-> third]
              /\ request' = r /\ status' = "unset"
              /\ UNCHANGED result
      /\ UNCHANGED <<build, device, data>>

Notify_lost ==
  /\ caller.pc = "notify"
  /\ caller' = [caller EXCEPT !.pc = "spin"]
  /\ UNCHANGED <<build, free_bitmap, descriptors, avail, request, status, result, device, data>>

\* The write of VIRTIO_MMIO_QUEUE_NOTIFY.
Notify ==
  /\ caller.pc = "notify"
  /\ caller' = [caller EXCEPT !.pc = "spin"]
  /\ device' = [device EXCEPT !.kicked = TRUE]
  /\ UNCHANGED <<build, free_bitmap, descriptors, avail, request, status, result, data>>

Return_keepsThird ==
  /\ caller.pc = "spin" /\ status # "unset"
  /\ free_bitmap' = free_bitmap \cup {caller.first, caller.second}
  /\ result' = IF status = "S_OK" THEN "Ok" ELSE "Err"
  /\ caller' = [pc |-> "idle", first |-> None, second |-> None, third |-> None]
  /\ request' = None
  /\ UNCHANGED <<build, descriptors, avail, status, device, data>>

\* The spin loop sees a status: the descriptors are freed and the call returns.
Return ==
  /\ caller.pc = "spin" /\ status # "unset"
  /\ free_bitmap' = free_bitmap \cup {caller.first, caller.second, caller.third}
  /\ result' = IF status = "S_OK" THEN "Ok" ELSE "Err"
  /\ caller' = [pc |-> "idle", first |-> None, second |-> None, third |-> None]
  /\ request' = None
  /\ UNCHANGED <<build, descriptors, avail, status, device, data>>

-----------------------------------------------------------------------------
(* The disk *)

\* The chain that the disk finds at its place in the avail ring.
Offered ==
  LET first == avail.ring[device.last % NUMBER_OF_DESCRIPTORS]
      second == descriptors[first].next
  IN  <<first, second, descriptors[second].next>>

\* The first n blocks of the request are moved.
Move(n) ==
  /\ disk' = [b \in Blocks |->
                IF request.write /\ b \in request.block .. request.block + n - 1
                THEN memory[request.buffer + (b - request.block)] ELSE disk[b]]
  /\ memory' = [a \in Cells |->
                  IF ~request.write /\ a \in request.buffer .. request.buffer + n - 1
                  THEN disk[request.block + (a - request.buffer)] ELSE memory[a]]

DeviceWake ==
  /\ device.stage = "sleep" /\ device.kicked
  /\ device' = [device EXCEPT !.stage = "loop", !.kicked = FALSE]
  /\ UNCHANGED <<driverVars, status, data>>

\* A request is served, or fails half-way; its status is written.
DeviceServe ==
  /\ device.stage = "loop" /\ device.last # avail.idx
  /\ request # None
  /\ \/ /\ request.block .. request.block + request.length - 1 \subseteq Blocks
        /\ Move(request.length)
        /\ status' = "S_OK"
     \/ /\ \E n \in 0 .. request.length :
             request.block .. request.block + n - 1 \subseteq Blocks /\ Move(n)
        /\ status' = "S_IOERR"
  /\ device' = [device EXCEPT !.stage = "used", !.last = Succ(@)]
  /\ UNCHANGED driverVars

\* The used ring is written, after the status; then the disk looks for more.
DeviceUsed ==
  /\ device.stage = "used"
  /\ device' = [device EXCEPT !.stage = "loop"]
  /\ UNCHANGED <<driverVars, status, data>>

DeviceSleep ==
  /\ device.stage = "loop" /\ device.last = avail.idx
  /\ device' = [device EXCEPT !.stage = "sleep"]
  /\ UNCHANGED <<driverVars, status, data>>

Driver == Notify \/ Return
Device == DeviceWake \/ DeviceServe \/ DeviceUsed \/ DeviceSleep

BlkNext ==
  \/ \E r \in BlkRequests : operation_sync(r)
  \/ Driver
  \/ Device

BlkSpec == BlkInit /\ disk \in [Blocks -> Values] /\ memory \in [Cells -> Values]
           /\ [][BlkNext]_blkVars

\* The processor and the disk go on with a request that was made.
BlkFairness == WF_blkVars(Driver) /\ WF_blkVars(Device)

-----------------------------------------------------------------------------
\* The virtqueue holds the request of the running call and nothing else: when no
\* call runs every descriptor is free and the disk has nothing to fetch, and what
\* the disk may fetch is the chain header, buffer, status of the call, with the
\* buffer writable exactly for a read.  So no descriptor leaks, and none is
\* given to a second request while the disk may still read it, although the used
\* ring is never looked at.
QueueExact ==
  LET mine == {caller.first, caller.second, caller.third}
  IN  /\ caller.pc = "idle" => free_bitmap = Descriptors /\ device.last = avail.idx
      /\ caller.pc \in {"notify", "spin"} =>
           /\ free_bitmap = Descriptors \ mine
           /\ device.last = avail.idx <=> status # "unset"
      /\ device.last # avail.idx =>
           /\ avail.idx = Succ(device.last)
           /\ caller.pc \in {"notify", "spin"}
           /\ Offered = <<caller.first, caller.second, caller.third>>
           /\ descriptors[caller.first].address = "req"
           /\ descriptors[caller.second].address = "buffer"
           /\ descriptors[caller.second].write = ~request.write
           /\ descriptors[caller.third].address = "status"
=============================================================================
