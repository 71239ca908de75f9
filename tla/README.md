# MiniVisor in TLA+

MiniVisor is a small type 1 hypervisor for AArch64. Every VM is pinned to one
physical CPU and has an emulated GICv3, PL011 and virtio block device. This
directory models the parts of it that hold state, checks them with TLC on small
instances, and proves the central safety properties with TLAPS.

## The system

| part | source | state | operations | what makes it hard |
|---|---|---|---|---|
| spin lock | `lock.rs` | the flag, DAIF of each CPU | `lock`, `drop` | races of CPUs, IRQ on the holder's CPU |
| virtual GIC | `mmio/gicv3.rs`, `vgic.rs` | distributor, redistributor, queue, list registers | register writes, `trigger_interrupt`, `inject_interrupt_handler`, `maintenance_interrupt_handler` | interrupts for the VM of another CPU, full list registers |
| memory allocator | `memory_allocator.rs` | entry pool, chain, free lists, `free_size` | `allocate`, `free`, `reserve_memory` | long sequences of splits and merges, exhausted pool |
| stage 2 paging | `paging.rs` | translation tables | `init_stage2_translation_table`, `map_address_stage2` | block or page, alignment, failure half way |
| emulated PL011 | `mmio/pl011.rs` | four byte buffer, flags | `push`, register accesses | input while the guest drains, full buffer |
| emulated virtio-blk | `mmio/virtio_blk.rs` | queue registers, counters, rings | register writes, `operation` | early returns, overflow of 16 bit counters, resets |
| VM management | `vm.rs`, `main.rs`, `psci.rs` | `VM_LIST`, `NEXT_VM_ID`, `ACTIVE_VM`, `VIRTIO_BLK` | `create_vm`, `launch_cpu`, `core_main`, `switch_active_vm`, `handle_input` | VMs created concurrently, panics with a lock held |
| console | `console.rs` | command buffer | `write`, `exec_command` | commands that close the console |
| exceptions | `exception.rs` | none of its own | IRQ and abort dispatch | |
| locks together | all users of `Mutex` | who holds and who waits | every handler and `main`, `core_main` | locks nested in each other on several CPUs |
| host virtio-blk driver | `drivers/virtio_blk.rs` | descriptors, avail ring | `operation_sync` | a device that runs on its own, status seen before the used ring |
| FAT32 | `fat32.rs` | the table, the directory, a bounce buffer | `new`, `search_file`, `read`, `write` | offsets inside sectors and clusters, scattered clusters, failing disk |
| device tree | `dtb.rs` | the place a search has reached | `search_node`, `search_node_by_compatible`, property reads | words, padding and nops, searches that go on where the last one ended |
| start of the machine | `main.rs`, `drivers/gicv3.rs`, `drivers/generic_timer.rs` | devices found, interrupt controller | `main`, `launch_cpu`, `core_main` | many shapes of tree, each CPU sets up its own redistributor |
| host UART, ELF | `drivers/pl011.rs`, `elf.rs` | devices, read-only | | locks and range check only; not modelled |

How they interact: a guest's access to a device traps (`data_abort_handler`),
and the handler runs on the guest's CPU with IRQs masked under the device's
lock. Devices raise interrupts through the distributor of the VM; when the VM
runs on another CPU the entry is queued and SGI 11 sent. Serial input arrives on
the CPU that booted and goes to the active VM or to the console. Disk requests
of all VMs go through the one lock `VIRTIO_BLK`, which `core_main` also holds
while it creates a VM.

## Modules

* `SpinLock`: one `Mutex`, every CPU at two levels (base code and IRQ handler).
  A step is one access to the atomic or to DAIF. `Call`, `SeeFree`, `Mask`,
  `CompareExchange`, `Retry` are `lock()`; `Release`, `RestoreDaif` are
  `drop()`.
* `VirtualGic`: delivery of virtual interrupts. A handler is one step except
  where another CPU can see it half done: push (`Distributor_trigger`), SGI
  (`SendSgi`), and the handler of the SGI (`AckInject`, `LockInject`,
  `InjectOne`, `InjectDone`). `holder` is the lock of the distributor. The
  virtual CPU interface (`GuestAck`, `GuestEoi`) is hardware. A guest writes its
  registers in any order (`GuestWrite`, with the values of the constants
  `*Writes`); nothing makes it route an SPI to its own CPU before it enables it.
  The history variable `astray` remembers the VMs that had an SPI enabled with
  another CPU in its router. A router with an Aff0 of 16 or more, on which
  `trigger_interrupt` panics, is left out.
* `PagePool`: what the allocator promises. `MemoryAllocator`: the allocator,
  each method a function on the record of its state; it is shown to implement
  `PagePool`.
* `Stage2Paging`: the root table and the recursive walk; `Walk` is what the
  hardware does with the result. Descriptor attributes, the alignment of the
  root and the TLB are left out. `create_vm` makes one call; the model makes two
  calls on disjoint ranges, which also share tables.
* `Pl011Mmio`: the receive side of the UART, with a guest's driver that reads
  until RXFE is set.
* `VirtioBlkMmio`: the block device, with a guest's driver. The disk answers
  with success or failure. `stuck` and `quiet` remember requests that
  `operation` drops and early returns that skip the interrupt; `busy` and `older`
  which chains are in use and which of two was submitted first.
* `VmManager`: creation of VMs, the console and the disk lock. `create_vm` is
  split at the accesses other CPUs can see. The hardware setup and the kernel
  load in it are one step that succeeds or panics.
* `LockOrder`: CPUs that run handlers, a handler being the sequence of locks it
  takes and drops; all spin with IRQs masked. `LockPaths`: those sequences, one
  operator per function of the source, composed the way the functions call each
  other. A guard that lives to the end of a statement or of a `match` is dropped
  there.
* `VirtioBlk`: `operation_sync` step by step, and the disk (external), which
  moves a request or, when it fails, a first part of it, writes the status and
  then the used ring. It wakes at a notification; a disk that still looks for
  more finds the next request before that.
* `Fat32`: extends `VirtioBlk` with mounting, `search_file` and the two nested
  loops of `read` and `write`. `FileStore`: what a client may rely on; a call
  moves the named blocks of its file, and a call that fails a part of them.
* `DeviceTree`: the parser, on the words of the structure block; strings are
  values with a length. `HostGic`: the registers of distributor and
  redistributors as sets of interrupts. `Boot`: `main` until the first guest,
  `launch_cpu` and `core_main`, on these two; the properties compare with the
  tree itself, not with its words.

`MC*` modules and `.cfg` files instantiate them; `*Proofs` hold the proofs.

## Runs

| run | shows |
|---|---|
| `spin_lock` | `MutualExclusion`, `HolderNotPreempted` (no handler spins on its own CPU's lock), `DaifRestored`, `SomeoneProceeds` |
| `lock_order` | `WaitsUpward` (whoever waits holds only locks of lower rank), `NoCircularWait`, `HandlersReturn` |
| `virtual_gic` | `LiveEntryKept` (a list register in use is not overwritten); for VMs that are not astray `QueuedImpliesSgi` (no lost wake-up) and `QueueDrains`; `InjectedIntoOwner` (only serial input of astray VMs reaches the list registers of another VM) |
| `virtual_gic_three_ints` | `TimerDeactivatedByVgic` is violated (finding) |
| `memory_allocator` | `ChainSortedAndMerged`, `FreeListsExact`, `NoAssertFails`, `RefusalJustified`, `NoDoubleOwner`, `ImplementsPagePool` |
| `stage2_paging` | `MappedRight`, `TablesFormTree` |
| `pl011` | `DeliveredInOrder`, `RxfeTellsEmpty`, `InputDelivered`, until the buffer has once been full |
| `virtio_blk` | `RingsAgree`, `CompletionAnnounced`, `StatusFresh`, `RequestsEnd` |
| `disk` | `QueueExact` (no descriptor leaks, the disk sees one request), `PagesReturned`, `ImplementsFileStore`, `RefusedAtSecondSector`, `CallsReturn` |
| `fat32_fragmented` | `TransfersOwnBlocks` is violated (finding) |
| `boot` | `DevicesFound`, `SearchesComplete`, `InterruptsReady` |
| `vm_manager` | `VmListDense`, `OwnVm`, `MemoryAccounted`, `CommandOfThisSession`, `BootSwitchesOrPanic`, `DiskServed` |

Type invariants are conjuncts of a safety property of the run, or proved.

Findings:

* The timer PPI is left active for the VGIC to deactivate (`exception.rs:273`),
  but an entry is dropped when the list registers are full (`vgic.rs:83`). Three
  sources fill three registers because an INTID whose register is not the first
  usable one gets a second.
* A write (or read) that starts at a later sector of a cluster and ends in the
  next cluster is taken for one that fits in the first: `fat32.rs:443` removes
  the skipped sectors from `data_offset` before `:449` compares. If the next
  cluster is elsewhere on the disk the transfer runs into another file's, and
  the test for clusters that are "not contiguous" (`:462`) is never made.

Behaviour that the passing runs describe or step around, and that a reader
should know:

* The last slot of the UART buffer is never cleared (`mmio/pl011.rs:72`): after
  a fourth buffered byte the guest reads it for ever. The properties of `pl011`
  hold up to that moment.
* "boot" reports success before the VM exists; when `create_vm` panics the
  active VM does not switch (`console.rs:97`), and `VIRTIO_BLK` stays locked.
  The two liveness properties of `vm_manager` except panics.
* No register write of the virtual GIC looks at the router, and `trigger_interrupt`
  compares it with the CPU it runs on, not with the CPU of the VM
  (`mmio/gicv3.rs:180`). Without the exception for astray VMs TLC refutes
  `InjectedIntoOwner` in three steps: a guest on another CPU enables the
  distributor and the interrupt of its serial port with the router at its reset
  value, and the next input is injected on the boot CPU, into the VM there. The
  boot CPU's maintenance then clears its own VM's pending bit.
  `QueuedImpliesSgi` fails likewise: the SGI goes to the boot CPU, whose handler
  empties another queue. The guest cannot avoid this by writing the router of its
  INTID n, since the value is stored at index n - 32 (`:331`) and read at n
  (`:145`): it would have to write that of n + 32, as `RouterWrites` does.
* The parser of the device tree applies `#address-cells` and `#size-cells` of a node,
  which are meant for its subnodes, to the node's own `reg` when they come before
  it (`dtb.rs:258`, `:345`, `:439`), hands them on to a search that goes on from
  the node, and gives a node below a parent without them the cells of an
  ancestor. `DevicesFound` says where registers are only if no node of the kind
  does this. The trees `CellTrees` have such nodes, and without the exception TLC
  refutes the property on them: a UART that sets cells 1 and 1 below a parent with
  2 and 2 is used at address 0. With such a GIC node `main` stops, as the size
  it reads is not that of a distributor.
* `main.rs:104` holds `PL011_DEVICE` during `enable_serial_port_interrupt`,
  which prints if the UART has no level triggered SPI, and printing takes the
  same lock: the CPU waits for itself. `lock_order` boots with an interrupt,
  `main(33)`; with `main(0)` in `MCLockOrder` TLC finds `WaitsUpward` violated.
  In `Boot` the CPU stops there (the tree `EdgeSerial`).
* A write of whole sectors that starts at the second sector of a cluster is
  refused as unaligned (`fat32.rs:443` compares with `>`): this is what
  `RefusedAtSecondSector` says, and that no other such write
  within an extent is.
* After its first transfer a call of `read` or `write` compares the whole length
  again (`fat32.rs:332`, `:435`, `:449`), not what is left. `disk` therefore has
  only calls within clusters that follow each other, and reads of whole
  clusters, for which the count comes out right.
* A search in the device tree that goes on from the node found last ends where
  that node has subnodes or is not followed by another match: a usable UART or
  CPU further on is not seen. `SearchesComplete` speaks of the nodes up to
  there.

* `GicDistributor::set_pending` clears a bit by writing back all pending bits it
  has read (`drivers/gicv3.rs:111`), so it clears those of other interrupts too.
  `main` calls it before any other SPI is enabled, where this makes no difference.
* `GicDistributor::set_routing` adds the INTID to the register of INTID 32
  (`drivers/gicv3.rs:40`, `:134`) and so writes the router of another interrupt.
  `InterruptsReady` holds since the router of the serial port resets to affinity 0
  and CPU 0 has it.

### Bounds

* `spin_lock`: three CPUs, so that one holds, one wins the race and one loses
  it, each with a nested handler.
* `virtual_gic`: two CPUs, of which the second runs the guest that touches its
  GIC and the first gets the serial input; one list register makes overflow
  frequent; a queue of two lets entries pile up behind one SGI. The guest enables
  the timer and the serial port, whose router it writes with either CPU, before or
  after; the disk interrupt, which its own CPU raises, is enabled in
  `virtual_gic_three_ints` only, with the routers of both SPIs.
* `memory_allocator`: seven pages, a reserved one among them, and a pool of
  three entries, which splits exhaust. `MaxFreeSize` bounds `free_size`, which
  each `free` raises too far.
* `stage2_paging`: tables of two descriptors, four shapes of the root, up to 16
  pages; physical addresses of every alignment that matters; memory for 0, 3, 5
  or 20 tables.
* `pl011`: a buffer of four as in the code, six bytes, so that it is filled and
  drained more than once; what was read is recorded up to nine bytes.
* `lock_order`: one CPU boots or serves the console, one runs a VM and its
  handlers, one is being started. Each runs any one of its handlers (`MaxJobs`);
  a circle needs only one handler per CPU.
* `disk`: sectors of two blocks and clusters of four sectors, so that every
  comparison with a sector or a cluster has both outcomes; a file of two extents
  with a part of a cluster at its end; five descriptors, of which a call takes
  three, so that one leaked call is enough to fail the next; counters that
  overflow after five requests, one more than mounting needs.
* `boot`: 44 trees around that of QEMU's virt machine: disabled and missing
  devices, subnodes, other nodes in between, nops, too few redistributors, an
  interrupt `main` does not use, nodes with other cells than their parent's; three CPUs, one of which has another Aff1, and
  redistributors in another order than the CPUs.
* `virtio_blk`: two chains and counters of two bits, which wrap (release) or
  panic (dev) after four requests.
* `vm_manager`: three CPUs, disk images for two VMs, and memory for three VMs
  with nothing to spare, so that the stack of a further "boot" can take what
  `create_vm` needs and both of its panics happen.

### Fairness

A CPU that is on executes: weak fairness of the steps inside handlers and
`create_vm`; a guest cannot mask physical IRQs (`HCR_EL2.IMO`). In `SpinLock`
the fairness is strong, because IRQs may interrupt the spinning code again and
again; nobody is promised to win, so only `SomeoneProceeds` is claimed. In
`VmManager` the requests of a VM are bounded by `MaxIo`: a guest that waits for
the disk gets it if the others stop asking, as the lock is not fair. The drivers
of guests (`Pl011Mmio`, `VirtioBlkMmio`) keep running; nobody has to type or to
submit anything. The disk (`VirtioBlk`) goes on with a request it was notified
of. CPUs in `LockOrder` have weak fairness only: each runs a bounded number of
handlers, so a lock that is waited for is free for good in the end, and a CPU
that loses the race against endless others is not considered. `RequestsEnd`
makes an exception for panics and for requests `operation` rejects,
`BootSwitchesOrPanic`, `DiskServed` and `CallsReturn` for panics. The runs that
may stop (a panic, all mappings done) do not check deadlock.

## Proofs

* `SpinLockProofs` (any set of CPUs): `LockTypeOK`, `LockMutualExclusion`,
  `LockHolderNotPreempted`, `LockDaifRestored`. The inductive invariant adds
  that a live guard implies the flag, that a level between masking and restoring
  runs with IRQs masked, and that DAIF or the saved copy of it is the mask the
  code had.
* `VirtualGicProofs` (any CPUs, INTIDs and list registers, under
  `GicAssumption`, any values guests write): `GicTypeOK`, `NoLostSgi`,
  `OnlyConsoleStrays`, and the action property `ListRegistersKeep`. The invariant
  adds that a VM that is not astray has its own CPU in the router of every SPI it
  has enabled, that entries in a queue belong to its VM, how `pc` and `holder`
  agree, and that the sender of an SGI, who holds the lock and so keeps the guest
  from writing the router, sends it to the VM's own CPU unless the VM is astray.
* `PagePoolProofs` (any memory, requests of a positive size, `Sized`):
  `PoolNoDoubleOwner`, by a direct induction; with `ImplementsPagePool`, checked
  by TLC, it carries over to the allocator on the checked instance.
* `Fat32Proofs`, the host driver and the file system on it.
  `BlkQueueExact` holds for any number of descriptors from three on, width of the
  index, blocks and requests, under `VirtioBlkAssumption`. `QueueExact` alone is
  not inductive: the invariant adds the types of the counters and that a running
  call has three different descriptors. That a set of naturals has a least element
  gives the descriptor `allocate_descriptor` takes. `Fat32QueueExact` (any table,
  directory and calls) follows, since every step of the file system is a step of
  the driver or leaves the queue alone; `Fat32PagesReturned` needs what is held at
  each step of mounting and of a call.
* `LockOrderProofs` (any CPUs, locks and handlers): `OrderedNeverCircular`, from
  `HandlersOrdered`: a handler drops what it takes and takes only locks of a
  higher rank than those it holds. The invariant ties the holder of each lock to
  the prefix of the handler that has run; of the CPUs in a circle, the one that
  waits for the highest lock would be blocked by nobody among them.
  `MiniVisorNeverCircular` applies it to the hypervisor, for any CPUs and VMs:
  `HandlersOrderly` goes through the routines of `LockPaths` and shows for each
  that it keeps the order of `RankOf`, on top of whatever its callers hold. Its
  hypothesis `MiniVisor` says that CPUs run these routines and that the UART has
  an interrupt; without one the property is false, see above.
* `VmManagerProofs` (any number of CPUs, images and sizes of memory, under
  `VmAssumption`): `VmListIsDense`, `EveryCpuFindsItsVm`, `NoMemoryLost`,
  `NoStaleCommand`. The invariant says that one CPU at a time is in `create_vm`
  (`VIRTIO_BLK` is held there, and stays held after a panic), that identifiers are
  given once and in order, and that all but the last one given are in the list. An
  identifier whose owner panicked is never listed, and no other CPU gets far
  enough to list a later one: this is why the list has no gap.
* `Pl011MmioProofs` (any length of the buffer, any bytes): `InputInOrder`,
  `RxfeIsRight`. The invariant `Window` says what the shifts of `read_buffer`
  keep: it holds the input that follows what was read, and behind that copies of
  its last slot.
* `VirtioBlkMmioProofs` (any queue size that divides the range of the counters and
  is below it, both builds, any mix of requests, under `VirtioAssumption`):
  `RequestsInOrder`, `AnswersAnnounced`, `NoStaleStatus`. The invariant `Queued`
  says of every mode what `RingsAgree` says of a running driver: answers not seen
  and requests not answered, read from the two rings by their wrapping counters,
  list the chains in use by age. Since the chains are distinct there are at most
  `QueueSize` of them (a pigeonhole argument), so a slot is never written while it
  is in the window of its ring. The lemmas before it are about that: counters
  modulo `2^IdWidth`, slots modulo the queue size, and what one step does to the
  window.

Only model-checked:

* All liveness, since the prover does not do fairness or ENABLED.
* The chain and the free lists of the allocator, that it implements `PagePool`,
  and that `Fat32` implements `FileStore`: they speak of what following links to
  the end yields, an induction over data.
* `RefusedAtSecondSector`, which holds for consistent tables and directories only.
* `Stage2Paging`, `DeviceTree` and the modules on them: recursive operators, which
  the prover cannot handle.

## Not modelled

* `elf.rs` and the argument parsing of `main`: stateless reads of a header.
* Formatting, printing and identification registers; `list_files`, which prints.
* Reads of the virtual GIC's registers, groups, priorities and active bits: no
  step of delivery depends on them.
* Moving bytes in `drivers/pl011.rs`, the handshake of the host virtio device
  and the waits for RWP in `drivers/gicv3.rs`: single register accesses.
* `registers.rs` and `asm.rs` except DAIF and affinities: constants and single
  instructions.
* Memory ordering and caches: the models are sequentially consistent.
* Calls of `Fat32` over several extents, other than in the finding and in reads
  of whole clusters, have no abstract counterpart, as the code does not give
  them one.
