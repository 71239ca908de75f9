-------------------------------- MODULE Boot --------------------------------
(***************************************************************************)
(* How the hypervisor comes up: main, launch_cpu and core_main of          *)
(* src/main.rs find the devices in the device tree and prepare the         *)
(* interrupts of every CPU before its guest runs.  CPU 0 runs main; the    *)
(* others are started from its console, one by one, while CPUs started     *)
(* before may still be in core_main.  Addresses and sizes are in KiB.      *)
(***************************************************************************)
EXTENDS DeviceTree, HostGic, FiniteSets, FiniteSetsExt

CONSTANTS
  NumCpus,
  Trees,        \* the device trees of the machines considered
  Aff3, AffLow, \* Aff3[c], AffLow[c]: the affinity fields of CPU c, 8 and 24 bits
  FrameOrder,   \* the CPUs in the order of their redistributors
  BlkBases,     \* where a virtio transport has a disk behind it
  NumStacks     \* stacks that allocate_pages can hand out

Cpus == 0 .. NumCpus - 1
Stacks == 1 .. NumStacks
UART_SIZE == 4
GICD_MMIO_SIZE == 64
GICR_MMIO_SIZE == 128
DTB_GIC_SPI == 0
DTB_GIC_PPI == 1
DTB_GIC_LEVEL == 4
GIC_PPI_BASE == 16
GIC_SPI_BASE == 32
MAINTENANCE_INTERRUPT_INTID == 25
INJECT_INTERRUPT_INT_ID == 11

ASSUME BootAssumption ==
  /\ NumCpus \in Nat \ {0} /\ NumStacks \in Nat
  /\ Aff3 \in [Cpus -> 0 .. 127] /\ AffLow \in [Cpus -> 0 .. 2^24 - 1]
  /\ \A c, d \in Cpus : Aff3[c] = Aff3[d] /\ AffLow[c] = AffLow[d] => c = d
  /\ FrameOrder \in [1 .. NumCpus -> Cpus]

VARIABLES
  tree,      \* the device tree of this machine
  dt,        \* its structure block
  pc,        \* pc[c]: where CPU c is
  found,     \* found[d]: node and reg that main uses for device d
  PL011_INT_ID,
  GENERIC_TIMER_PHYSICAL_INT_ID,
  gicd,      \* the distributor
  gicr,      \* gicr[k]: the k-th redistributor
  icc,       \* icc[c]: the CPU interface of c is enabled
  frame,     \* frame[c]: the redistributor that c uses, 0 if none
  stack,     \* stack[c]: the stack that c was started on, 0 if none
  launched   \* the last launch_cpu: its answer and the CPUs that PSCI refused

devices == <<found, PL011_INT_ID, GENERIC_TIMER_PHYSICAL_INT_ID>>
gic == <<gicd, gicr, icc, frame>>
vars == <<tree, dt, pc, devices, gic, stack, launched>>

Stages == {"off", "serial", "memory", "gicd", "gicr", "uart", "timer", "blk", "create",
           "guest", "exit", "panic"}
Devices == {"serial", "memory", "gicd", "gicr", "timer", "blk"}
NoDevice == [node |-> NoNode, reg |-> NoReg]

\* Arguments and the header of the device tree were accepted.
Init ==
  /\ tree \in Trees /\ dt = Flat(tree)
  /\ pc = [c \in Cpus |-> IF c = 0 THEN "serial" ELSE "off"]
  /\ found = [d \in Devices |-> NoDevice]
  /\ PL011_INT_ID = 0 /\ GENERIC_TIMER_PHYSICAL_INT_ID = 0
  /\ gicd = Distributor({i \in IntIds : i >= GIC_SPI_BASE})
  /\ gicr = [k \in 1 .. NumCpus |-> Redistributor]
  /\ icc = [c \in Cpus |-> FALSE]
  /\ frame = [c \in Cpus |-> 0]
  /\ stack = [c \in Cpus |-> 0]
  /\ launched = [ok |-> TRUE, refused |-> {}]

Goto(c, stage) == pc' = [pc EXCEPT ![c] = stage]
Found(d, node, reg) == found' = [found EXCEPT ![d] = [node |-> node, reg |-> reg]]

\* asm.rs: MPIDR_EL1 without its flag bits, and packed as in GICR_TYPER.
mpidr_to_affinity(c) == Aff3[c] * WordBase + AffLow[c]
get_packed_affinity(c) == Aff3[c] * 2^24 + AffLow[c]

\* The nodes that a loop of searches meets, each found from the one before.
RECURSIVE Chain(_, _)
Chain(key, current) ==
  LET node == Search(dt, key, current)
  IN  IF node = NoNode THEN <<>> ELSE <<node>> \o Chain(key, node)
Compatible(compatible) == [by |-> "compatible", is |-> compatible]
Named(name) == [by |-> "name", is |-> name]

-----------------------------------------------------------------------------
(* main, on CPU 0 *)

init_serial_port ==
  /\ pc[0] = "serial"
  /\ LET pl011s == SelectSeq(Chain(Compatible("arm,pl011"), NoNode),
                             LAMBDA n : is_node_operational(dt, n))
         pl011 == Head(pl011s)
         reg == read_reg_property(dt, pl011, 0)
         info == get_property(dt, pl011, "interrupts")
         interrupts == read_property_as_u32_array(dt, info)
     IN  IF pl011s = <<>> \/ reg = NoReg THEN Goto(0, "exit") /\ UNCHANGED devices
         ELSE IF \/ info = NoProperty \/ interrupts = <<>>
                 \/ interrupts[1] = DTB_GIC_SPI /\ Len(interrupts) < 3
         THEN Goto(0, "panic") /\ UNCHANGED devices
         ELSE IF reg[2] < UART_SIZE THEN Goto(0, "exit") /\ UNCHANGED devices
         ELSE /\ Found("serial", pl011, reg)
              /\ PL011_INT_ID' = IF /\ interrupts[1] = DTB_GIC_SPI
                                    /\ interrupts[3] = DTB_GIC_LEVEL
                                 THEN GIC_SPI_BASE + interrupts[2] ELSE 0
              /\ UNCHANGED GENERIC_TIMER_PHYSICAL_INT_ID
              /\ Goto(0, "memory")
  /\ UNCHANGED <<tree, dt, gic, stack, launched>>

\* The node that setup_memory and init_gic_* look for, or a panic.
Expect(c, d, node, index, next) ==
  LET reg == read_reg_property(dt, node, index)
  IN  IF node = NoNode \/ reg = NoReg THEN Goto(c, "panic") /\ UNCHANGED found
      ELSE Found(d, node, reg) /\ Goto(c, next)

setup_memory ==
  /\ pc[0] = "memory"
  /\ Expect(0, "memory", search_node(dt, "memory", NoNode), 0, "gicd")
  /\ UNCHANGED <<tree, dt, PL011_INT_ID, GENERIC_TIMER_PHYSICAL_INT_ID, gic, stack, launched>>

init_gic_distributor ==
  /\ pc[0] = "gicd"
  /\ LET node == search_node_by_compatible(dt, "arm,gic-v3", NoNode)
         reg == read_reg_property(dt, node, 0)
     IN  IF node = NoNode \/ reg[2] # GICD_MMIO_SIZE
         THEN Goto(0, "panic") /\ UNCHANGED <<found, gicd>>
         ELSE /\ Found("gicd", node, reg)
              /\ gicd' = init_distributor(gicd)
              /\ Goto(0, "gicr")
  /\ UNCHANGED <<tree, dt, PL011_INT_ID, GENERIC_TIMER_PHYSICAL_INT_ID, gicr, icc, frame,
                 stack, launched>>

init_gic_redistributor(c) ==
  /\ pc[c] = "gicr"
  /\ LET node == search_node_by_compatible(dt, "arm,gic-v3", NoNode)
         reg == read_reg_property(dt, node, 1)
         frames == [k \in 1 .. NumCpus |-> get_packed_affinity(FrameOrder[k])]
         k == get_self_redistributor(frames, reg[2], GICR_MMIO_SIZE, get_packed_affinity(c))
     IN  IF node = NoNode \/ reg = NoReg \/ k = 0
         THEN Goto(c, "panic") /\ UNCHANGED <<found, gicr, icc, frame>>
         ELSE /\ Found("gicr", node, reg)
              /\ gicr' = [gicr EXCEPT ![k] = init_redistributor(@)]
              /\ icc' = [icc EXCEPT ![c] = TRUE]
              /\ frame' = [frame EXCEPT ![c] = k]
              /\ Goto(c, IF c = 0 THEN "uart" ELSE "create")
  /\ UNCHANGED <<tree, dt, PL011_INT_ID, GENERIC_TIMER_PHYSICAL_INT_ID, gicd, stack, launched>>

\* Without an interrupt number println spins on PL011_DEVICE, which main holds.
enable_serial_port_interrupt ==
  /\ pc[0] = "uart"
  /\ PL011_INT_ID # 0
  /\ LET grouped == set_priority(set_group(gicd, PL011_INT_ID), PL011_INT_ID, 0)
         routed == set_trigger_mode(set_routing(grouped, PL011_INT_ID, mpidr_to_affinity(0)),
                                    PL011_INT_ID, TRUE)
     IN  gicd' = set_enable(clear_pending(routed, PL011_INT_ID), PL011_INT_ID)
  /\ Goto(0, "timer")
  /\ UNCHANGED <<tree, dt, devices, gicr, icc, frame, stack, launched>>

init_generic_timer_global ==
  /\ pc[0] = "timer"
  /\ LET node == search_node_by_compatible(dt, "arm,armv8-timer", NoNode)
         info == get_property(dt, node, "interrupts")
         interrupt_number == read_property_as_u32_array(dt, info)
     IN  IF \/ node = NoNode \/ info = NoProperty \/ Len(interrupt_number) < 7
            \/ interrupt_number[7] = DTB_GIC_PPI /\ Len(interrupt_number) < 8
         THEN Goto(0, "panic") /\ UNCHANGED devices
         ELSE /\ Found("timer", node, NoReg)
              /\ GENERIC_TIMER_PHYSICAL_INT_ID' =
                   IF interrupt_number[7] = DTB_GIC_PPI
                   THEN GIC_PPI_BASE + interrupt_number[8] ELSE 0
              /\ UNCHANGED PL011_INT_ID
              /\ Goto(0, "blk")
  /\ UNCHANGED <<tree, dt, gic, stack, launched>>

\* VirtioBlk::new refuses a transport without a disk; one without registers, or
\* no disk at all, makes main panic.
init_virtio_blk ==
  /\ pc[0] = "blk"
  /\ LET virtios == SelectSeq(Chain(Compatible("virtio,mmio"), NoNode),
                              LAMBDA n : is_node_operational(dt, n))
         disks == SelectSeq(virtios, LAMBDA n :
                    read_reg_property(dt, n, 0)[1] \in BlkBases \cup {NoReg[1]})
     IN  IF disks = <<>> \/ read_reg_property(dt, Head(disks), 0) = NoReg
         THEN Goto(0, "panic") /\ UNCHANGED found
         ELSE /\ Found("blk", Head(disks), read_reg_property(dt, Head(disks), 0))
              /\ Goto(0, "create")
  /\ UNCHANGED <<tree, dt, PL011_INT_ID, GENERIC_TIMER_PHYSICAL_INT_ID, gic, stack, launched>>

-----------------------------------------------------------------------------
(* Every CPU *)

EnablePrivate(r, int_id, is_level_trigger) ==
  set_enable(set_trigger_mode(set_priority(set_group(r, int_id), int_id, 0),
                              int_id, is_level_trigger), int_id)

init_vgic(r) ==
  EnablePrivate(EnablePrivate(r, MAINTENANCE_INTERRUPT_INTID, TRUE),
                INJECT_INTERRUPT_INT_ID, FALSE)
init_generic_timer_local(r) == EnablePrivate(r, GENERIC_TIMER_PHYSICAL_INT_ID, TRUE)

\* create_vm prepares the interrupts, and boot_vm enters the guest (VmManager
\* has the rest of create_vm).
create_vm(c) ==
  /\ pc[c] = "create"
  /\ gicr' = [gicr EXCEPT ![frame[c]] = init_generic_timer_local(init_vgic(@))]
  /\ Goto(c, "guest")
  /\ UNCHANGED <<tree, dt, devices, gicd, icc, frame, stack, launched>>

\* launch_cpu, from the console of CPU 0: the first CPU node whose CPU is another
\* one and that the firmware starts.  PSCI refuses the CPUs that are on and may
\* refuse others.
launch_cpu ==
  /\ pc[0] = "guest"
  /\ \E refused \in SUBSET (Cpus \ {0}), cpus \in {Chain(Named("cpu"), NoNode)} :
       LET Starts(c, node) == /\ read_reg_property(dt, node, 0)[1] = mpidr_to_affinity(c)
                              /\ mpidr_to_affinity(c) # mpidr_to_affinity(0)
                              /\ pc[c] = "off" /\ c \notin refused
           started == SelectSeq(cpus, LAMBDA n : \E c \in Cpus : Starts(c, n))
           free == Stacks \ {stack[c] : c \in Cpus}
       IN  IF free = {} THEN Goto(0, "panic") /\ UNCHANGED <<stack, launched>>
           ELSE IF started = <<>>
           THEN launched' = [ok |-> FALSE, refused |-> refused] /\ UNCHANGED <<pc, stack>>
           ELSE \E c \in Cpus :
                  /\ Starts(c, Head(started))
                  /\ stack' = [stack EXCEPT ![c] = Min(free)]
                  /\ launched' = [ok |-> TRUE, refused |-> refused]
                  /\ Goto(c, "gicr")
  /\ UNCHANGED <<tree, dt, devices, gic>>

Next ==
  \/ init_serial_port \/ setup_memory \/ init_gic_distributor
  \/ enable_serial_port_interrupt \/ init_generic_timer_global \/ init_virtio_blk
  \/ launch_cpu
  \/ \E c \in Cpus : init_gic_redistributor(c) \/ create_vm(c)

Spec == Init /\ [][Next]_vars

-----------------------------------------------------------------------------
(* What the device tree says, read as a tree *)

TypeOK ==
  /\ pc \in [Cpus -> Stages]
  /\ frame \in [Cpus -> 0 .. NumCpus] /\ stack \in [Cpus -> 0 .. NumStacks]
  /\ {PL011_INT_ID, GENERIC_TIMER_PHYSICAL_INT_ID} \subseteq IntIds \cup {0}

PropsOf(n, name) == SelectSeq(n.props, LAMBDA p : p.name = name)
HasString(n, name, s) == \E k \in DOMAIN PropsOf(n, name) : s \in PropsOf(n, name)[k].strs
CellOf(n, name, default) ==
  IF PropsOf(n, name) = <<>> THEN default ELSE Head(PropsOf(n, name)).cells[1]

\* The nodes in the order of the blob, each with the cells that its parent sets
\* for it (stated: with properties of its own, not by default) and the identity of
\* the sibling that follows.
RECURSIVE Preorder(_, _, _)
Preorder(n, cells, next) ==
  LET inner == [address |-> CellOf(n, "#address-cells", 2), size |-> CellOf(n, "#size-cells", 1),
                stated |-> \A name \in {"#address-cells", "#size-cells"} : PropsOf(n, name) # <<>>]
      After(k) == IF k < Len(n.kids) THEN n.kids[k + 1].id ELSE -1
  IN  <<[node |-> n, cells |-> cells, next |-> next]>>
      \o FlattenSeq([k \in DOMAIN n.kids |-> Preorder(n.kids[k], inner, After(k))])
Nodes == Preorder(tree, [address |-> 2, size |-> 1, stated |-> TRUE], -1)

Number(cells) == FoldLeft(LAMBDA x, w : x * WordBase + w, 0, cells)
RegOf(e, index) ==
  LET reg == Head(PropsOf(e.node, "reg")).cells
      start == index * (e.cells.address + e.cells.size)
  IN  <<Number(SubSeq(reg, start + 1, start + e.cells.address)),
        Number(SubSeq(reg, start + e.cells.address + 1, start + e.cells.address + e.cells.size))>>

Operational(n) == PropsOf(n, "status") = <<>> \/ HasString(n, "status", "okay")
Matches(e, d) ==
  CASE d = "serial" -> HasString(e.node, "compatible", "arm,pl011")
    [] d = "memory" -> e.node.name = "memory"
    [] d \in {"gicd", "gicr"} -> HasString(e.node, "compatible", "arm,gic-v3")
    [] d = "timer" -> HasString(e.node, "compatible", "arm,armv8-timer")
    [] OTHER -> HasString(e.node, "compatible", "virtio,mmio")
IsDevice(e, d) ==
  /\ Matches(e, d)
  /\ d \in {"serial", "blk"} => Operational(e.node)
  /\ d = "blk" => RegOf(e, 0)[1] \in BlkBases

\* The cells that apply to the reg of a node are the ones the parser has seen last
\* before it: the parent states them, and the node sets no others for its subnodes.
KeepsCells(e) ==
  /\ e.cells.stated
  /\ CellOf(e.node, "#address-cells", e.cells.address) = e.cells.address
  /\ CellOf(e.node, "#size-cells", e.cells.size) = e.cells.size

\* The matching nodes that follow each other: siblings without subnodes, from the
\* first match on.
RECURSIVE Run(_, _)
Run(matches, k) ==
  IF k < Len(matches) /\ matches[k].node.kids = <<>> /\ matches[k].next = matches[k + 1].node.id
  THEN Run(matches, k + 1) ELSE k
FirstRun(Is(_)) ==
  UNION {IF matches = <<>> THEN {} ELSE {matches[k] : k \in 1 .. Run(matches, 1)}
         : matches \in {SelectSeq(Nodes, Is)}}

-----------------------------------------------------------------------------
\* Every device that main uses is the first usable one of the tree, although the
\* parser walks words, nops and padding and goes on from the node it found last.
\* Its registers are where its parent's cells put them when all nodes of its kind
\* keep the cells of their parents: get_property and the searches apply the cells
\* that a node sets for its subnodes to its own reg, and hand them on to the search
\* that goes on from it.  Which transport has the disk depends on its registers too.
DevicesFound ==
  \A nodes \in {Nodes}, d \in Devices : found[d] # NoDevice =>
    LET matches == SelectSeq(nodes, LAMBDA n : Matches(n, d))
        keep == \A k \in DOMAIN matches : KeepsCells(matches[k])
        e == Head(SelectSeq(matches, LAMBDA n : IsDevice(n, d)))
    IN  /\ d # "blk" \/ keep =>
             read_node(dt, found[d].node.address - FDT_TOKEN_BYTE).num = e.node.id
        /\ d # "timer" /\ keep => found[d].reg = RegOf(e, IF d = "gicr" THEN 1 ELSE 0)

\* A loop of searches gives up only when nothing usable is left among the nodes
\* that follow each other: main does not end without a serial port then, and
\* launch_cpu says no only if each of those CPUs is on or refused by PSCI.
SearchesComplete ==
  /\ pc[0] = "exit" =>
       \A e \in FirstRun(LAMBDA n : HasString(n.node, "compatible", "arm,pl011")) :
         ~Operational(e.node)
  /\ ~launched.ok =>
       \A e \in FirstRun(LAMBDA n : n.node.name = "cpu") : \A c \in Cpus :
         RegOf(e, 0)[1] = mpidr_to_affinity(c) => pc[c] # "off" \/ c \in launched.refused

\* The interrupts that irq_handler knows.
Dispatched ==
  {PL011_INT_ID, MAINTENANCE_INTERRUPT_INTID, INJECT_INTERRUPT_INT_ID,
   GENERIC_TIMER_PHYSICAL_INT_ID}

\* When a guest runs, its CPU has set up its own redistributor and no other, with
\* exactly the private interrupts that irq_handler dispatches, and the serial port
\* interrupts CPU 0; the four have different numbers.
InterruptsReady ==
  \A c \in Cpus : pc[c] = "guest" =>
    LET r == gicr[frame[c]]
        private == Dispatched \ {PL011_INT_ID}
    IN  /\ TypeOK /\ Cardinality(Dispatched) = 4
        /\ FrameOrder[frame[c]] = c /\ r.awake /\ icc[c]
        /\ r.enabled = private /\ r.group = private /\ r.edge = {INJECT_INTERRUPT_INT_ID}
        /\ \A i \in private : r.priority[i] = 0
        /\ gicd.grp1ns /\ gicd.enabled = {PL011_INT_ID} /\ gicd.group = {PL011_INT_ID}
        /\ gicd.router[PL011_INT_ID] = mpidr_to_affinity(0)
        /\ \A d \in Cpus \ {c} : frame[d] # frame[c]
=============================================================================
