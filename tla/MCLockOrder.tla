---------------------------- MODULE MCLockOrder -----------------------------
(* Three CPUs: the one that boots and then serves the console, one that runs *)
(* a VM, and one that is being started.                                      *)
EXTENDS LockOrder, LockPaths

MCCPUs == 0 .. 2
VMs == {0, 1}

MCLocks ==
  {CONSOLE, VIRTIO_BLK, VM_LIST, ACTIVE_VM, MEMORY_ALLOCATOR, SERIAL_DEVICE, PL011_DEVICE}
    \cup {Pl011Mmio(v) : v \in VMs} \cup {VirtioBlkMmio(v) : v \in VMs}
    \cup {GicDistributorMmio(v) : v \in VMs} \cup {GicRedistributorMmio(v) : v \in VMs}

MCRank == [l \in MCLocks |-> RankOf(l)]

MCPaths ==
  [c \in MCCPUs |->
     CASE c = 0 -> {main(33)} \cup handle_input({1})
       [] c = 1 -> {maintenance_interrupt_handler(1), inject_interrupt_handler(1),
                    generic_timer_interrupt_handler(1)} \cup data_abort_handler(1)
       [] c = 2 -> {core_main}]
=============================================================================
