---------------------------- MODULE Fat32Proofs -----------------------------
(* The disk driver and the file system above it.  Of the driver: its         *)
(* virtqueue holds the running request only, for every number of             *)
(* descriptors, every width of the index and every request.  Of the file     *)
(* system, for every geometry, file allocation table, directory and set of   *)
(* calls: the same, and every page is given back.                            *)
EXTENDS Fat32, WellFoundedInduction, TLAPS

\* Every non-empty set of natural numbers has a least element.
LEMMA LeastNatural ==
  ASSUME NEW T, T \subseteq Nat, T # {}
  PROVE  \E x \in T : \A y \in T : x <= y
<1> DEFINE Less == OpToRel(<, Nat)
<1>1. IsWellFoundedOn(Less, Nat)
  BY NatLessThanWellFounded, Zenon
<1>2. \A x, y \in Nat : y < x => <<y, x>> \in Less
  BY DEF OpToRel
<1> HIDE DEF Less
<1>3. PICK x \in T : \A y \in T : ~(<<y, x>> \in Less)
  BY <1>1, WFMin, Zenon
<1>4. \A y \in T : ~(y < x)
  BY <1>2, <1>3, Zenon
<1> QED
  BY <1>4

-----------------------------------------------------------------------------
(* The disk driver *)

\* What the queue is made of.
queueVars == <<build, free_bitmap, descriptors, avail, caller, request, status, device>>

Mine == {caller.first, caller.second, caller.third}

\* The inductive invariant: QueueExact, the types of the counters, and the fact
\* that the running call has three different descriptors.
QInv ==
  /\ avail \in [idx : Indices, ring : [Descriptors -> Descriptors \cup {None}]]
  /\ device \in [stage : {"sleep", "loop", "used"}, kicked : BOOLEAN, last : Indices]
  /\ caller \in [pc : {"idle", "notify", "spin", "panic"}, first : Descriptors \cup {None},
                 second : Descriptors \cup {None}, third : Descriptors \cup {None}]
  /\ caller.pc \in {"notify", "spin"} =>
       /\ Mine \subseteq Descriptors
       /\ caller.first # caller.second /\ caller.first # caller.third
       /\ caller.second # caller.third
  /\ QueueExact

\* allocate_descriptor returns a free descriptor if there is one.
LEMMA AllocatesFree ==
  ASSUME NEW free, free \subseteq Descriptors, free # {}
  PROVE  allocate_descriptor(free) \in free
<1>0. free \subseteq Nat
  BY VirtioBlkAssumption DEF Descriptors
<1>1. \E d \in free : \A e \in free : d <= e
  BY <1>0, LeastNatural, ZenonT(60)
<1>2. allocate_descriptor(free) = CHOOSE d \in free : \A e \in free : d <= e
  BY DEF allocate_descriptor
<1> QED
  BY <1>1, <1>2, Zenon

\* A counter and its successor differ and stay in range.
LEMMA SuccIndex ==
  ASSUME NEW i \in Indices
  PROVE  Succ(i) \in Indices /\ Succ(i) # i /\ i % NUMBER_OF_DESCRIPTORS \in Descriptors
  BY VirtioBlkAssumption DEF Indices, Succ, Descriptors

\* What VirtioBlk::new sets up satisfies the invariant.
LEMMA BlkInitQInv == BlkInit => QInv
  BY VirtioBlkAssumption DEF BlkInit, QInv, QueueExact, Indices, Descriptors, Mine

\* operation_sync preserves the invariant: with at least three descriptors, all
\* of them free, it never fails to allocate.
LEMMA operation_syncQInv ==
  ASSUME QInv, NEW r, operation_sync(r)
  PROVE  QInv'
<1> DEFINE first == allocate_descriptor(free_bitmap)
           second == allocate_descriptor(free_bitmap \ {first})
           third == allocate_descriptor(free_bitmap \ {first, second})
           slot == avail.idx % NUMBER_OF_DESCRIPTORS
<1>1. free_bitmap = Descriptors /\ device.last = avail.idx /\ caller.pc = "idle"
  BY DEF operation_sync, QInv, QueueExact
<1>2. 0 \in Descriptors /\ 1 \in Descriptors /\ 2 \in Descriptors /\ None \notin Descriptors
  BY VirtioBlkAssumption DEF Descriptors
<1>3. first \in Descriptors
  BY <1>1, <1>2, AllocatesFree
<1>4. second \in Descriptors \ {first}
  BY <1>1, <1>2, AllocatesFree
<1>5. third \in Descriptors \ {first, second}
  BY <1>1, <1>2, AllocatesFree
<1>6. avail.idx \in Indices /\ slot \in Descriptors /\ Succ(avail.idx) \in Indices
      /\ Succ(avail.idx) # avail.idx
  BY SuccIndex DEF QInv
<1> HIDE DEF first, second, third, slot
<1>7. /\ free_bitmap' = Descriptors \ {first, second, third}
      /\ descriptors' = Linked(first, second, third, r.write)
      /\ request' = r /\ status' = "unset" /\ device' = device
      /\ caller'.first = first /\ caller'.second = second /\ caller'.third = third
      /\ avail'.ring = [avail.ring EXCEPT ![slot] = first]
      /\ caller' \in [pc : {"idle", "notify", "spin", "panic"}, first : Descriptors \cup {None},
                 second : Descriptors \cup {None}, third : Descriptors \cup {None}]
      /\ avail' = [idx |-> avail'.idx, ring |-> avail'.ring]
      /\ \/ caller'.pc = "notify" /\ avail'.idx = Succ(avail.idx)
         \/ caller'.pc = "panic" /\ avail'.idx = avail.idx
  BY <1>1, <1>2, <1>3, <1>4, <1>5, <1>6 DEF operation_sync, first, second, third, slot
<1>8. /\ descriptors'[first] = [address |-> "req", write |-> FALSE, next |-> second]
      /\ descriptors'[second] = [address |-> "buffer", write |-> ~r.write, next |-> third]
      /\ descriptors'[third].address = "status"
  BY <1>3, <1>4, <1>5, <1>7 DEF Linked
<1>9. avail' \in [idx : Indices, ring : [Descriptors -> Descriptors \cup {None}]]
  BY <1>3, <1>6, <1>7 DEF QInv
<1>10. avail'.ring[device'.last % NUMBER_OF_DESCRIPTORS] = first
  BY <1>1, <1>6, <1>7 DEF QInv, slot
<1>11. Offered' = <<first, second, third>>
  BY <1>8, <1>10 DEF Offered
<1>12. QueueExact'
  BY <1>1, <1>6, <1>7, <1>8, <1>11 DEF QueueExact
<1> QED
  BY <1>3, <1>4, <1>5, <1>7, <1>9, <1>12, SMTT(30) DEF QInv, Mine

\* Neither the notification nor the return of a call disturbs the queue.
LEMMA DriverQInv ==
  ASSUME QInv, Driver
  PROVE  QInv'
<1>1. CASE Notify
  BY <1>1, ZenonT(60) DEF Notify, QInv, QueueExact, Mine, Offered
<1>2. CASE Return
  BY <1>2 DEF Return, QInv, QueueExact, Mine, Offered
<1> QED
  BY <1>1, <1>2 DEF Driver

\* The disk takes a request off the queue when it has written its status.
LEMMA DeviceQInv ==
  ASSUME QInv, Device
  PROVE  QInv'
<1> USE DEF QInv, QueueExact, Mine, Offered, driverVars
<1>1. CASE DeviceWake
  BY <1>1, Zenon DEF DeviceWake
<1>2. CASE DeviceServe
  <2>1. status' # "unset" /\ device'.last = avail.idx /\ device.last # avail.idx
    BY <1>2 DEF DeviceServe
  <2>2. device' \in [stage : {"sleep", "loop", "used"}, kicked : BOOLEAN, last : Indices]
    BY <1>2, SuccIndex, ZenonT(60) DEF DeviceServe
  <2> QED
    BY <1>2, <2>1, <2>2, ZenonT(60) DEF DeviceServe
<1>3. CASE DeviceUsed
  BY <1>3 DEF DeviceUsed
<1>4. CASE DeviceSleep
  BY <1>4, SMTT(30) DEF DeviceSleep
<1> QED
  BY <1>1, <1>2, <1>3, <1>4, Zenon DEF Device

\* A step that leaves the queue alone preserves the invariant.
LEMMA StutterQInv ==
  ASSUME QInv, UNCHANGED queueVars
  PROVE  QInv'
  BY DEF queueVars, QInv, QueueExact, Mine, Offered

\* The virtqueue holds the request of the running call and nothing else, although
\* operation_sync never looks at the used ring: for every number of descriptors
\* and width of the index, whatever is asked of the driver.
THEOREM BlkQueueExact == BlkSpec => []QueueExact
<1>1. BlkInit => QInv
  BY BlkInitQInv
<1>2. QInv /\ [BlkNext]_blkVars => QInv'
  BY operation_syncQInv, DriverQInv, DeviceQInv, StutterQInv
  DEF BlkNext, blkVars, driverVars, queueVars
<1>3. QInv => QueueExact
  BY DEF QInv
<1> QED
  BY <1>1, <1>2, <1>3, PTL DEF BlkSpec

-----------------------------------------------------------------------------
(* The file system *)

\* The pages that the mounting holds between two of its reads.
Base == CASE mount = "done" -> {"fat", "root"}
          [] mount = "root" -> {"fat"}
          [] OTHER -> {}

Mounting == {"mbr", "bpb", "fat", "root"}
Serving == {"begin", "skip", "count", "transfer"}

\* The inductive invariant about pages: what is held follows from where the
\* mounting or the call is.  A call runs only when the mounting is done, and
\* only between its transfer and its end may it hold the bounce buffer.
PInv ==
  /\ "pc" \in DOMAIN op
  /\ mount \in Mounting \cup {"done", "failed"}
  /\ \/ op = NoOp /\ pages = Base
     \/ op.pc = "mount" /\ mount \in Mounting /\ pages = Base \cup ({mount} \cap {"fat", "root"})
     \/ op.pc \in Serving /\ mount = "done" /\ call # None /\ pages = {"fat", "root"}
     \/ op.pc = "io" /\ mount = "done" /\ call # None /\ pages \ {"bounce"} = {"fat", "root"}

\* Every step of the file system makes one request, or leaves the queue alone.
LEMMA QueueStep ==
  ASSUME QInv, [Next]_vars
  PROVE  QInv'
<1>1. CASE MountRead
  BY <1>1, operation_syncQInv DEF MountRead
<1>2. CASE Transfer
  <2>1. UNCHANGED blkVars \/ \E r : operation_sync(r)
    BY <1>2 DEF Transfer
  <2>2. UNCHANGED blkVars => UNCHANGED queueVars
    BY DEF blkVars, driverVars, queueVars
  <2> QED
    BY <2>1, <2>2, operation_syncQInv, StutterQInv
<1>3. CASE Driver \/ Device
  BY <1>3, DriverQInv, DeviceQInv
<1>4. CASE MountReturn \/ Begin \/ Skip \/ Count \/ (\E c \in Calls : Start(c)) \/ UNCHANGED vars
  <2>1. UNCHANGED blkVars
    BY <1>4 DEF MountReturn, Begin, Skip, Count, Start, vars
  <2> QED
    BY <2>1, StutterQInv DEF blkVars, driverVars, queueVars
<1>5. CASE Complete
  BY <1>5, StutterQInv, SMTT(30) DEF Complete, driverVars, queueVars
<1> QED
  BY <1>1, <1>2, <1>3, <1>4, <1>5 DEF Next, Step

\* The page bookkeeping of init_fat32, read and write preserves its invariant.
LEMMA PagesStep ==
  ASSUME PInv, [Next]_vars
  PROVE  PInv'
<1> USE DEF PInv, NoOp, Base, Mounting, Serving
<1>1. CASE MountRead
  BY <1>1 DEF MountRead
<1>2. CASE MountReturn
  <2>1. mount \in Mounting /\ pages = Base \cup ({mount} \cap {"fat", "root"}) /\ op' = NoOp
    BY <1>2 DEF MountReturn
  <2>2. CASE mount' = "failed" /\ pages' = {}
    BY <2>1, <2>2
  <2>3. CASE mount' = After[mount] /\ UNCHANGED pages
    <3>1. /\ mount = "mbr" => mount' = "bpb"
          /\ mount = "bpb" => mount' = "fat"
          /\ mount = "fat" => mount' = "root"
          /\ mount = "root" => mount' = "done"
      BY <2>3 DEF After
    <3> QED
      BY <2>1, <2>3, <3>1, Zenon
  <2> QED
    BY <1>2, <2>2, <2>3 DEF MountReturn
<1>3. ASSUME NEW c \in Calls, Start(c) PROVE PInv'
  BY <1>3, Fat32Assumption DEF Start
<1>4. CASE Begin
  BY <1>4 DEF Begin, Finish
<1>5. CASE Skip
  <2>1. mount = "done" /\ call # None /\ pages = {"fat", "root"} /\ UNCHANGED <<mount, pages>>
    BY <1>5 DEF Skip
  <2>2. \/ op' = NoOp
        \/ "pc" \in DOMAIN op' /\ op'.pc \in Serving /\ call' = call
    BY <1>5, Zenon DEF Skip, Finish, Outer
  <2> QED
    BY <2>1, <2>2
<1>6. CASE Count
  <2>1. mount = "done" /\ call # None /\ pages = {"fat", "root"} /\ UNCHANGED <<mount, pages>>
    BY <1>6 DEF Count
  <2>2. \/ op' = NoOp
        \/ "pc" \in DOMAIN op' /\ op'.pc \in Serving /\ call' = call
    BY <1>6, Zenon DEF Count, Finish
  <2> QED
    BY <2>1, <2>2
<1>7. CASE Transfer
  <2>1. mount = "done" /\ call # None /\ pages = {"fat", "root"} /\ UNCHANGED mount
    BY <1>7 DEF Transfer
  <2>2. \/ op' = NoOp /\ UNCHANGED pages
        \/ /\ "pc" \in DOMAIN op' /\ op'.pc = "io" /\ call' = call
           /\ pages' = pages \/ pages' = pages \cup {"bounce"}
    BY <1>7, Zenon DEF Transfer, Finish
  <2> QED
    BY <2>1, <2>2
<1>8. CASE Complete
  <2>1. /\ mount = "done" /\ call # None /\ UNCHANGED mount
        /\ pages' = {"fat", "root"}
    BY <1>8 DEF Complete, FreeBounce
  <2>2. \/ op' = NoOp
        \/ "pc" \in DOMAIN op' /\ op'.pc = "count" /\ call' = call
    BY <1>8, Zenon DEF Complete, Finish, Outer
  <2> QED
    BY <2>1, <2>2
<1>9. CASE UNCHANGED vars \/ UNCHANGED fsVars
  BY <1>9 DEF vars, fsVars
<1> QED
  BY <1>1, <1>2, <1>3, <1>4, <1>5, <1>6, <1>7, <1>8, <1>9 DEF Next, Step

\* The driver below the file system never leaks a descriptor or offers the disk
\* more than the request that operation_sync is waiting for, whatever reads and
\* writes the files are made of.
THEOREM Fat32QueueExact == Spec => []QueueExact
<1>1. Init => QInv
  BY BlkInitQInv DEF Init
<1>2. QInv /\ [Next]_vars => QInv'
  BY QueueStep
<1>3. QInv => QueueExact
  BY DEF QInv
<1> QED
  BY <1>1, <1>2, <1>3, PTL DEF Spec

\* Between calls only the table and the directory are held, and nothing is held
\* after a failed mount: no path through read loses its bounce buffer.
THEOREM Fat32PagesReturned == Spec => []PagesReturned
<1>1. Init => PInv
  BY DEF Init, PInv, NoOp, Base, Mounting
<1>2. PInv /\ [Next]_vars => PInv'
  BY PagesStep
<1>3. PInv => PagesReturned
  BY DEF PInv, PagesReturned, NoOp, Base, Mounting, Serving
<1> QED
  BY <1>1, <1>2, <1>3, PTL DEF Spec
=============================================================================
