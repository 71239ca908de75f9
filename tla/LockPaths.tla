----------------------------- MODULE LockPaths ------------------------------
(***************************************************************************)
(* Which locks the handlers of the hypervisor take, and in which order.  A *)
(* routine stands for the lock sequences it may run through; the work      *)
(* between two lock operations is left out.  A step that may be skipped (a *)
(* message that is printed on a failure, the memory of a list node) is in  *)
(* the sequence: skipping it makes nobody wait.  Panics are left out: a    *)
(* CPU that panics keeps its locks for ever (VmManager is about that).     *)
(***************************************************************************)
EXTENDS Sequences

\* The locks: the statics, and for each VM the ones of its emulated devices.
CONSOLE == <<"CONSOLE", 0>>
VIRTIO_BLK == <<"VIRTIO_BLK", 0>>
VM_LIST == <<"VM_LIST", 0>>
ACTIVE_VM == <<"ACTIVE_VM", 0>>
MEMORY_ALLOCATOR == <<"MEMORY_ALLOCATOR", 0>>
SERIAL_DEVICE == <<"SERIAL_DEVICE", 0>>
PL011_DEVICE == <<"PL011_DEVICE", 0>>
Pl011Mmio(v) == <<"Pl011Mmio", v>>
VirtioBlkMmio(v) == <<"VirtioBlkMmio", v>>
GicDistributorMmio(v) == <<"GicDistributorMmio", v>>
GicRedistributorMmio(v) == <<"GicRedistributorMmio", v>>

\* The order in which they nest.
RankOf(l) ==
  CASE l[1] = "CONSOLE" -> 0
    [] l[1] \in {"Pl011Mmio", "VirtioBlkMmio"} -> 1
    [] l[1] = "VIRTIO_BLK" -> 2
    [] l[1] = "GicDistributorMmio" -> 3
    [] l[1] = "GicRedistributorMmio" -> 4
    [] l[1] = "VM_LIST" -> 5
    [] l[1] = "ACTIVE_VM" -> 6
    [] l[1] = "MEMORY_ALLOCATOR" -> 7
    [] l[1] = "SERIAL_DEVICE" -> 8
    [] l[1] = "PL011_DEVICE" -> 9

\* What runs while the guard of l lives.
While(l, p) == <<[op |-> "lock", lock |-> l]>> \o p \o <<[op |-> "unlock", lock |-> l]>>

Nothing == <<>>

-----------------------------------------------------------------------------
(* Routines that many handlers call *)

print == While(SERIAL_DEVICE, While(PL011_DEVICE, Nothing))

\* The guard lives through the match, the message of a failure included.
allocate_pages == While(MEMORY_ALLOCATOR, print)
free_pages == While(MEMORY_ALLOCATOR, Nothing)

\* The global allocator: a list node or a device is allocated or freed.
alloc == While(MEMORY_ALLOCATOR, print)
dealloc == While(MEMORY_ALLOCATOR, Nothing)

get_current_vm == While(VM_LIST, Nothing)
get_active_vm == While(ACTIVE_VM, Nothing)

switch_active_vm_activeFirst == While(ACTIVE_VM, While(VM_LIST, Nothing))

\* The list stays locked while the active VM is replaced.
switch_active_vm == While(VM_LIST, While(ACTIVE_VM, Nothing))

\* The message of full list registers.
add_virtual_interrupt == print

\* Queued for another CPU, in a new list node; or put into a list register, whose
\* message is printed with fewer locks held than the one of the allocation.
trigger_interrupt == alloc

-----------------------------------------------------------------------------
(* Input of the host's serial port *)

input_uart(v) ==
  get_active_vm \o While(Pl011Mmio(v), While(GicDistributorMmio(v), trigger_interrupt))

\* launch_cpu takes a stack, reports CPUs that fail and gives the stack back.
boot_vm == allocate_pages \o print \o free_pages \o print
switch_vm == switch_active_vm \o print

\* A key is echoed; a line is run as a command.
Console_write == {While(CONSOLE, print \o command) : command \in {boot_vm, switch_vm}}

getc_guardLives(p) == While(PL011_DEVICE, p)

\* A character is taken from the device, whose guard dies before it is used.
getc(p) == While(PL011_DEVICE, Nothing) \o p

\* A pass of the loop: an error, the key of the console, a key for the console
\* or for the active VM.
handle_input(vms) ==
  {getc(p) : p \in {print, While(CONSOLE, print)} \cup Console_write
                     \cup {input_uart(v) : v \in vms}}

-----------------------------------------------------------------------------
(* The other interrupts of the CPU of VM v *)

\* One list register after the other.
maintenance_interrupt_handler(v) ==
  get_current_vm \o While(GicDistributorMmio(v), Nothing)
    \o get_current_vm \o While(GicRedistributorMmio(v), Nothing)

\* The nodes taken from the two queues are freed.
inject_interrupt_handler(v) ==
  get_current_vm \o While(GicDistributorMmio(v), While(GicRedistributorMmio(v),
                      dealloc \o add_virtual_interrupt))

generic_timer_interrupt_handler(v) ==
  get_current_vm \o While(GicRedistributorMmio(v), trigger_interrupt)

-----------------------------------------------------------------------------
(* Accesses of VM v to its devices *)

\* Fat32::read and write: a bounce buffer is taken and freed, or a message printed.
Fat32_transfer == allocate_pages \o free_pages \o print

\* A buffer of a request: its address is looked up, then the disk is locked.
Buffer == get_current_vm \o While(VIRTIO_BLK, Fat32_transfer \o print)

\* A request has a header, buffers and a status, or is given up with a message;
\* in the end the interrupt is raised.
operation(v) ==
  {get_current_vm \o print,
   get_current_vm \o Buffer \o get_current_vm \o print
     \o get_current_vm \o While(GicDistributorMmio(v), trigger_interrupt)}

data_abort_handler(v) ==
  {get_current_vm \o p :
     p \in {While(Pl011Mmio(v), print),
            While(GicDistributorMmio(v), trigger_interrupt),
            While(GicRedistributorMmio(v), trigger_interrupt)}
           \cup {While(VirtioBlkMmio(v), o) : o \in operation(v)}}

-----------------------------------------------------------------------------
(* Start of a CPU *)

\* Memory for the VM, its tables and devices; the files; the list; the message.
create_vm ==
  allocate_pages \o Fat32_transfer \o While(VM_LIST, alloc) \o switch_active_vm \o print

core_main == print \o While(VIRTIO_BLK, create_vm)

setup_memory == print \o While(MEMORY_ALLOCATOR, print)

\* The guard of the device lives through the call, which prints a message when
\* the device has no interrupt.
enable_serial_port_interrupt(int_id) ==
  While(PL011_DEVICE, IF int_id = 0 THEN print ELSE Nothing)

\* The boot CPU, up to its VM.
main(int_id) ==
  setup_memory \o enable_serial_port_interrupt(int_id) \o create_vm \o While(VIRTIO_BLK, Nothing)
=============================================================================
