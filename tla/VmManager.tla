----------------------------- MODULE VmManager ------------------------------
(***************************************************************************)
(* How virtual machines come to be and who gets the input: main,           *)
(* launch_cpu, core_main and handle_input of src/main.rs, create_vm and    *)
(* the lists of src/vm.rs and the commands of src/console.rs.  Every CPU   *)
(* runs one VM.  CPU 0 also takes the interrupts of the serial port.  The  *)
(* lock VIRTIO_BLK is held by core_main during all of create_vm and by a   *)
(* CPU that serves a disk request of its VM; the other locks of these      *)
(* functions are held for one step.                                        *)
(***************************************************************************)
EXTENDS Naturals, Sequences, FiniteSets, SequencesExt

CONSTANTS
  NumCpus,      \* CPUs of the device tree, 0 being the one that boots
  DiskImages,   \* the n for which the disk has a usable file DISKn
  Memory,       \* what allocate_pages can hand out
  StackSize,    \* STACK_SIZE
  RamSize,      \* RAM_SIZE of create_vm
  MaxIo,        \* disk requests of a VM
  MaxLines,     \* command lines typed, and toggles of the console
  None          \* nothing

Cpus == 0 .. NumCpus - 1
VmIds == 0 .. NumCpus - 1

ASSUME VmAssumption ==
  /\ NumCpus \in Nat \ {0}
  /\ DiskImages \subseteq Nat
  /\ {Memory, StackSize, RamSize, MaxIo, MaxLines} \subseteq Nat
  /\ None \notin Nat

Commands == {<<"boot", 0>>} \cup {<<"switch", n>> : n \in VmIds}

VARIABLES
  pc,           \* pc[c]: where CPU c is
  memory,       \* free memory
  VIRTIO_BLK,   \* the CPU that holds the lock, or None
  NEXT_VM_ID,
  vm_id,        \* vm_id[c]: local of create_vm
  VM_LIST,      \* the identifiers of the VMs of the list
  ACTIVE_VM,    \* the identifier of the VM that gets the input, or None
  tpidr_el2,    \* tpidr_el2[c]: register of CPU c
  io,           \* io[c]: disk requests made by the VM of CPU c
  IS_CONSOLE_ACTIVE,
  buffer,       \* the command line in the buffer of the console, or None
  session,      \* how often the console was toggled (ghost)
  typedIn,      \* the session in which buffer was typed (ghost)
  lines         \* command lines typed (bound)

console == <<IS_CONSOLE_ACTIVE, buffer, session, typedIn, lines>>
creation == <<NEXT_VM_ID, vm_id, VM_LIST, tpidr_el2>>
vars == <<pc, memory, VIRTIO_BLK, creation, ACTIVE_VM, io, console>>

Stages == {"off", "entry", "alloc", "id", "build", "list", "switch", "start",
           "run", "wait", "io", "launch", "panic"}

TypeOK ==
  /\ pc \in [Cpus -> Stages]
  /\ memory \in 0 .. Memory
  /\ VIRTIO_BLK \in Cpus \cup {None}
  /\ NEXT_VM_ID \in 0 .. NumCpus
  /\ vm_id \in [Cpus -> VmIds \cup {None}]
  /\ VM_LIST \in Seq(VmIds)
  /\ ACTIVE_VM \in VmIds \cup {None}
  /\ tpidr_el2 \in [Cpus -> VmIds \cup {None}]
  /\ io \in [Cpus -> 0 .. MaxIo]
  /\ IS_CONSOLE_ACTIVE \in BOOLEAN
  /\ buffer \in Commands \cup {None}

\* main has set up the machine and calls create_vm.
Init ==
  /\ pc = [c \in Cpus |-> IF c = 0 THEN "alloc" ELSE "off"]
  /\ memory = Memory
  /\ VIRTIO_BLK = None
  /\ NEXT_VM_ID = 0
  /\ vm_id = [c \in Cpus |-> None]
  /\ VM_LIST = <<>>
  /\ ACTIVE_VM = None
  /\ tpidr_el2 = [c \in Cpus |-> None]
  /\ io = [c \in Cpus |-> 0]
  /\ IS_CONSOLE_ACTIVE = FALSE
  /\ buffer = None
  /\ session = 0 /\ typedIn = 0 /\ lines = 0

Goto(c, stage) == pc' = [pc EXCEPT ![c] = stage]

-----------------------------------------------------------------------------
(* create_vm, on the CPU that will run the VM *)

core_main_unlocked(c) ==
  /\ pc[c] = "entry"
  /\ VIRTIO_BLK = None
  /\ Goto(c, "alloc")
  /\ UNCHANGED <<VIRTIO_BLK, memory, creation, ACTIVE_VM, io, console>>

\* core_main takes VIRTIO_BLK and calls create_vm.
core_main(c) ==
  /\ pc[c] = "entry"
  /\ VIRTIO_BLK = None
  /\ VIRTIO_BLK' = c
  /\ Goto(c, "alloc")
  /\ UNCHANGED <<memory, creation, ACTIVE_VM, io, console>>

\* The RAM of the VM is allocated; without memory the CPU panics.
AllocateRam(c) ==
  /\ pc[c] = "alloc"
  /\ \/ memory >= RamSize /\ memory' = memory - RamSize /\ Goto(c, "id")
     \/ memory < RamSize /\ UNCHANGED memory /\ Goto(c, "panic")
  /\ UNCHANGED <<VIRTIO_BLK, creation, ACTIVE_VM, io, console>>

TakeId(c) ==
  /\ pc[c] = "id"
  /\ vm_id' = [vm_id EXCEPT ![c] = NEXT_VM_ID]
  /\ NEXT_VM_ID' = NEXT_VM_ID + 1
  /\ Goto(c, "build")
  /\ UNCHANGED <<memory, VIRTIO_BLK, VM_LIST, ACTIVE_VM, tpidr_el2, io, console>>

\* The translation table, the devices and the kernel; without its disk image
\* the CPU panics.
BuildVm(c) ==
  /\ pc[c] = "build"
  /\ \/ vm_id[c] \in DiskImages /\ Goto(c, "list")
     \/ vm_id[c] \notin DiskImages /\ Goto(c, "panic")
  /\ UNCHANGED <<memory, VIRTIO_BLK, creation, ACTIVE_VM, io, console>>

AddToList(c) ==
  /\ pc[c] = "list"
  /\ VM_LIST' = Append(VM_LIST, vm_id[c])
  /\ Goto(c, "switch")
  /\ UNCHANGED <<memory, VIRTIO_BLK, NEXT_VM_ID, vm_id, ACTIVE_VM, tpidr_el2, io, console>>

\* switch_active_vm: VM_LIST stays locked while ACTIVE_VM is set.
switch_active_vm(id) ==
  ACTIVE_VM' = IF id \in Range(VM_LIST) THEN id ELSE ACTIVE_VM

ActivateVm(c) ==
  /\ pc[c] = "switch"
  /\ switch_active_vm(vm_id[c])
  /\ Goto(c, "start")
  /\ UNCHANGED <<memory, VIRTIO_BLK, creation, io, console>>

StartVm_noTpidr(c) ==
  /\ pc[c] = "start"
  /\ tpidr_el2' = tpidr_el2
  /\ VIRTIO_BLK' = IF c = 0 THEN VIRTIO_BLK ELSE None
  /\ Goto(c, "run")
  /\ UNCHANGED <<memory, NEXT_VM_ID, vm_id, VM_LIST, ACTIVE_VM, io, console>>

StartVm_keepsLock(c) ==
  /\ pc[c] = "start"
  /\ tpidr_el2' = [tpidr_el2 EXCEPT ![c] = vm_id[c]]
  /\ Goto(c, "run")
  /\ UNCHANGED <<memory, VIRTIO_BLK, NEXT_VM_ID, vm_id, VM_LIST, ACTIVE_VM, io, console>>

\* The end of create_vm, the release of VIRTIO_BLK and boot_vm.
StartVm(c) ==
  /\ pc[c] = "start"
  /\ tpidr_el2' = [tpidr_el2 EXCEPT ![c] = vm_id[c]]
  /\ VIRTIO_BLK' = IF c = 0 THEN VIRTIO_BLK ELSE None
  /\ Goto(c, "run")
  /\ UNCHANGED <<memory, NEXT_VM_ID, vm_id, VM_LIST, ACTIVE_VM, io, console>>

-----------------------------------------------------------------------------
(* Disk requests of the VMs: VirtioBlkMmio::operation needs VIRTIO_BLK.  A CPU *)
(* that waits for it has its interrupts masked.                                *)

RequestDisk(c) ==
  /\ pc[c] = "run" /\ io[c] < MaxIo
  /\ io' = [io EXCEPT ![c] = @ + 1]
  /\ Goto(c, "wait")
  /\ UNCHANGED <<memory, VIRTIO_BLK, creation, ACTIVE_VM, console>>

LockDisk(c) ==
  /\ pc[c] = "wait" /\ VIRTIO_BLK = None
  /\ VIRTIO_BLK' = c
  /\ Goto(c, "io")
  /\ UNCHANGED <<memory, creation, ACTIVE_VM, io, console>>

UnlockDisk(c) ==
  /\ pc[c] = "io"
  /\ VIRTIO_BLK' = None
  /\ Goto(c, "run")
  /\ UNCHANGED <<memory, creation, ACTIVE_VM, io, console>>

-----------------------------------------------------------------------------
(* The interrupt handler of the serial port, on CPU 0 *)

ToggleConsole_keepsBuffer ==
  /\ IS_CONSOLE_ACTIVE' = ~IS_CONSOLE_ACTIVE
  /\ UNCHANGED buffer

\* CONSOLE_SWITCH_KEY: the console is opened with an empty buffer.
ToggleConsole ==
  /\ IS_CONSOLE_ACTIVE' = ~IS_CONSOLE_ACTIVE
  /\ buffer' = IF IS_CONSOLE_ACTIVE THEN buffer ELSE None

PressSwitchKey ==
  /\ pc[0] = "run" /\ session < 2 * MaxLines
  /\ ToggleConsole
  /\ session' = session + 1
  /\ UNCHANGED <<pc, memory, VIRTIO_BLK, creation, ACTIVE_VM, io, typedIn, lines>>

\* Console::write of the characters of a command.
TypeCommand(command) ==
  /\ pc[0] = "run" /\ IS_CONSOLE_ACTIVE /\ lines < MaxLines
  /\ buffer = None
  /\ buffer' = command /\ typedIn' = session /\ lines' = lines + 1
  /\ UNCHANGED <<pc, memory, VIRTIO_BLK, creation, ACTIVE_VM, io, IS_CONSOLE_ACTIVE, session>>

\* What exec_command does with the answer of a command: another prompt, or the
\* console is closed and the buffer stays as it is.
EndCommand(again) ==
  /\ buffer' = IF again THEN None ELSE buffer
  /\ IS_CONSOLE_ACTIVE' = again
  /\ session' = IF again THEN session ELSE session + 1
  /\ UNCHANGED <<typedIn, lines>>

\* "switch n" at the end of the line.
switch_vm ==
  /\ pc[0] = "run" /\ IS_CONSOLE_ACTIVE
  /\ \E n \in VmIds :
       /\ buffer = <<"switch", n>>
       /\ switch_active_vm(n)
       /\ EndCommand(n \notin Range(VM_LIST))
  /\ UNCHANGED <<pc, memory, VIRTIO_BLK, creation, io>>

\* "boot" at the end of the line: launch_cpu allocates a stack.
boot_vm ==
  /\ pc[0] = "run" /\ IS_CONSOLE_ACTIVE
  /\ buffer = <<"boot", 0>>
  /\ \/ memory >= StackSize /\ memory' = memory - StackSize /\ Goto(0, "launch")
     \/ memory < StackSize /\ UNCHANGED memory /\ Goto(0, "panic")
  /\ UNCHANGED <<VIRTIO_BLK, creation, ACTIVE_VM, io, console>>

launch_cpu_leaks ==
  /\ pc[0] = "launch"
  /\ \/ \E c \in Cpus \ {0} :
          /\ pc[c] = "off"
          /\ pc' = [pc EXCEPT ![0] = "run", ![c] = "entry"]
          /\ EndCommand(FALSE)
     \/ Goto(0, "run") /\ EndCommand(TRUE)
  /\ UNCHANGED <<memory, VIRTIO_BLK, creation, ACTIVE_VM, io>>

\* The rest of launch_cpu: some CPU that is off starts in core_main with the
\* stack, or all are on or refused by the firmware and the stack is freed.
launch_cpu ==
  /\ pc[0] = "launch"
  /\ \/ \E c \in Cpus \ {0} :
          /\ pc[c] = "off"
          /\ pc' = [pc EXCEPT ![0] = "run", ![c] = "entry"]
          /\ EndCommand(FALSE)
          /\ UNCHANGED memory
     \/ /\ Goto(0, "run")
        /\ EndCommand(TRUE)
        /\ memory' = memory + StackSize
  /\ UNCHANGED <<VIRTIO_BLK, creation, ACTIVE_VM, io>>

-----------------------------------------------------------------------------
CreateVm(c) ==
  \/ core_main(c) \/ AllocateRam(c) \/ TakeId(c) \/ BuildVm(c)
  \/ AddToList(c) \/ ActivateVm(c) \/ StartVm(c)

Console ==
  \/ PressSwitchKey
  \/ \E command \in Commands : TypeCommand(command)
  \/ switch_vm \/ boot_vm \/ launch_cpu

Next ==
  \/ \E c \in Cpus : CreateVm(c) \/ RequestDisk(c) \/ LockDisk(c) \/ UnlockDisk(c)
  \/ Console

\* A CPU that is on goes on: create_vm and the disk do not block but on the lock.
Fairness ==
  \A c \in Cpus : WF_vars(CreateVm(c)) /\ WF_vars(LockDisk(c)) /\ WF_vars(UnlockDisk(c))

Spec == Init /\ [][Next]_vars /\ Fairness

-----------------------------------------------------------------------------
Panicked == \E c \in Cpus : pc[c] = "panic"

\* VMs enter VM_LIST in the order of their identifiers and none is left out,
\* although CPUs create them concurrently (NEXT_VM_ID and VM_LIST are two steps
\* of create_vm, ordered by VIRTIO_BLK).
VmListDense ==
  /\ \A k \in 1 .. Len(VM_LIST) : VM_LIST[k] = k - 1
  /\ NEXT_VM_ID \in {Len(VM_LIST), Len(VM_LIST) + 1}

InVm(c) == pc[c] \in {"run", "wait", "io", "launch"}

\* While a CPU runs its VM, get_current_vm finds that VM and no other, and two
\* CPUs never have the same VM.  Whenever CPU 0 can take input, get_active_vm
\* finds a VM of the list.  So the unwrap() in neither can fail, whatever numbers
\* are given to "switch".
OwnVm ==
  /\ TypeOK
  /\ \A c \in Cpus : InVm(c) =>
       /\ tpidr_el2[c] = vm_id[c]
       /\ vm_id[c] \in Range(VM_LIST)
       /\ \A d \in Cpus \ {c} : vm_id[d] # vm_id[c]
  /\ InVm(0) => ACTIVE_VM \in Range(VM_LIST)

\* What allocate_pages has given is the stacks of the CPUs that were started
\* (and the one of a launch_cpu under way) and the RAM of the VMs: a "boot" that
\* fails leaks nothing.
MemoryAccounted ==
  LET stacks == Cardinality({c \in Cpus \ {0} : pc[c] # "off"})
                + (IF pc[0] = "launch" THEN 1 ELSE 0)
      rams == Cardinality({c \in Cpus : vm_id[c] # None \/ pc[c] = "id"})
  IN  memory + stacks * StackSize + rams * RamSize = Memory

\* The console only executes a line typed since it was opened, never what an
\* earlier session left in the buffer.
CommandOfThisSession ==
  IS_CONSOLE_ACTIVE /\ buffer # None => typedIn = session

\* After a successful "boot" the active VM switches by itself, as boot_vm of
\* console.rs says, unless a CPU panics in create_vm (no memory or no file DISKn).
BootSwitchesOrPanic ==
  \A c \in Cpus :
    pc[c] = "entry" ~> (vm_id[c] # None /\ ACTIVE_VM = vm_id[c]) \/ Panicked

\* A VM that waits for the disk gets it, unless a CPU panics (it may hold
\* VIRTIO_BLK for ever).
DiskServed ==
  \A c \in Cpus : pc[c] = "wait" ~> pc[c] = "run" \/ Panicked
=============================================================================
