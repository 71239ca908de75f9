----------------------------- MODULE VirtualGic -----------------------------
(***************************************************************************)
(* Virtual interrupts from a device to a guest: the emulated distributor   *)
(* and redistributor of src/mmio/gicv3.rs, the list registers of           *)
(* src/vgic.rs, the IRQ dispatch of src/exception.rs and the timer handler *)
(* of src/drivers/generic_timer.rs.                                        *)
(*                                                                         *)
(* A VM is pinned to the physical CPU that created it, so a VM is named by *)
(* its CPU.  Everything a CPU does at EL2 runs with IRQs masked; a handler *)
(* is one step except where another CPU can see it half done: the push of  *)
(* an entry for another CPU, the SGI that announces it, and the handler    *)
(* that empties the queue.                                                 *)
(***************************************************************************)
EXTENDS Naturals, Sequences

CONSTANTS
  CPUs,         \* physical CPUs, each with its VM
  BootCpu,      \* the CPU of affinity 0: value of a router never written, and
                \* the CPU that receives the host's PL011 interrupt
  Guests,       \* the CPUs whose guest touches its GIC
  Spis,         \* virtual INTIDs >= 32
  Ppis,         \* virtual INTIDs < 32
  ConsoleInt,   \* mmio/pl011.rs PL011_INT_ID
  DiskInt,      \* mmio/virtio_blk.rs VIRTIO_BLK_INT_ID, None if unused
  Timer,        \* GENERIC_TIMER_VIRTUAL_INT_ID
  NumLr,        \* supported_lrn: list registers in use
  MaxQueue,     \* bound on the queue: input arrives slower than it is drained
  CtlrWrites,   \* the values guests write to GICD_CTLR
  RouterWrites, \* <<n, cpu>>: the CPUs they write to the GICD_IROUTER of INTID
                \* n, None for the affinity of no CPU (with Aff0 below 16, as
                \* trigger_interrupt asserts)
  WakerWrites,  \* the values they write to GICR_WAKER
  ModifierWrites, \* the values they write to the group modifiers
  EnableWrites, DisableWrites, \* the INTIDs they enable and disable
  PendWrites,   \* the INTIDs whose pending bits they set and clear
  EarlyTimer,   \* guests start their timer before their GIC is ready for it
  None          \* no CPU, no VM, no INTID

CtlrBits == {"ENABLE_GRP1NS", "ARE_S"}

ASSUME GicAssumption ==
  /\ BootCpu \in CPUs
  /\ Guests \subseteq CPUs
  /\ Spis \subseteq Nat /\ Ppis \subseteq Nat /\ Spis \cap Ppis = {}
  /\ ConsoleInt \in Spis
  /\ DiskInt \in Spis \cup {None}
  /\ Timer \in Ppis
  /\ CtlrWrites \subseteq SUBSET CtlrBits
  /\ RouterWrites \subseteq Nat \X (CPUs \cup {None})
  /\ WakerWrites \subseteq {"asleep", "awake"}
  /\ ModifierWrites \subseteq SUBSET (Spis \cup Ppis)
  /\ EnableWrites \cup DisableWrites \cup PendWrites \subseteq Spis \cup Ppis
  /\ EarlyTimer \in BOOLEAN
  /\ NumLr \in Nat \ {0}
  /\ MaxQueue \in Nat
  /\ None \notin CPUs \cup Spis \cup Ppis

VARIABLES
  ctlr,      \* ctlr[v]: the bits of GICD_CTLR that are set
  asleep,    \* asleep[v]: GICR_WAKER.ChildrenAsleep
  enable,    \* enable[v], pending[v], modifier[v]: the bits of the
  pending,   \*   distributor (SPIs) and of the redistributor (PPIs) that
  modifier,  \*   are set, as a set of INTIDs
  router,    \* router[v][i]: the CPU that get_router reads for SPI i
  astray,    \* history: VMs that once had an SPI enabled with another CPU in
             \*   its router
  queue,     \* queue[v]: to_inject_interrupt of the distributor
  holder,    \* holder[v]: the CPU inside the Mutex of the distributor
  lr,        \* lr[c]: the list registers of CPU c
  sgi,       \* CPUs at which INJECT_INTERRUPT_INT_ID is pending
  timer,     \* timer[c]: the physical timer PPI, "inactive" or "active"
  pc         \* pc[c]: what CPU c executes

dist == <<ctlr, asleep, enable, modifier, router, astray>>
vars == <<dist, pending, queue, holder, lr, sgi, timer, pc>>

Ints == Spis \cup Ppis
LrIndex == 1 .. NumLr

\* A list register: vm is a ghost (which VM's GIC made the entry), kind is HW
\* ("hw") or EOI ("sw"), state the two status bits.
Entries ==
  [vm : CPUs, int : Ints, kind : {"sw", "hw"},
   state : {"pending", "active", "both", "inactive"}]
NoEntry == [vm |-> None, int |-> None, kind |-> "none", state |-> "inactive"]

TypeOK ==
  /\ ctlr \in [CPUs -> SUBSET CtlrBits]
  /\ asleep \in [CPUs -> {"asleep", "awake"}]
  /\ enable \in [CPUs -> SUBSET Ints]
  /\ pending \in [CPUs -> SUBSET Ints]
  /\ modifier \in [CPUs -> SUBSET Ints]
  /\ router \in [CPUs -> [Spis -> CPUs \cup {None}]]
  /\ astray \subseteq CPUs
  /\ queue \in [CPUs -> Seq(Entries)]
  /\ holder \in [CPUs -> CPUs \cup {None}]
  /\ lr \in [CPUs -> [LrIndex -> Entries \cup {NoEntry}]]
  /\ sgi \subseteq CPUs
  /\ timer \in [CPUs -> {"inactive", "active"}]
  /\ pc \in [CPUs -> {"guest", "send", "inject", "drain"}]

\* GicDistributorMmio::new, GicRedistributorMmio::new, init_vgic.
Init ==
  /\ ctlr = [v \in CPUs |-> {}]
  /\ asleep = [v \in CPUs |-> "asleep"]
  /\ enable = [v \in CPUs |-> {}]
  /\ pending = [v \in CPUs |-> {}]
  /\ modifier = [v \in CPUs |-> {}]
  /\ router = [v \in CPUs |-> [i \in Spis |-> BootCpu]]
  /\ astray = {}
  /\ queue = [v \in CPUs |-> <<>>]
  /\ holder = [v \in CPUs |-> None]
  /\ lr = [c \in CPUs |-> [n \in LrIndex |-> NoEntry]]
  /\ sgi = {}
  /\ timer = [c \in CPUs |-> "inactive"]
  /\ pc = [c \in CPUs |-> "guest"]

-----------------------------------------------------------------------------
(* List registers *)

\* HW with the physical INTID, or the EOI bit that asks for maintenance.
create_list_register_entry(v, i, kind) ==
  [vm |-> v, int |-> i, kind |-> kind, state |-> "pending"]

Usable(r, e) == r.state = "inactive" \/ r.int = e.int

OrPending(r) == [r EXCEPT !.state = IF @ \in {"active", "both"} THEN "both" ELSE "pending"]

add_virtual_interrupt_replaces(regs, e) ==
  [n \in LrIndex |->
    IF Usable(regs[n], e) /\ \A m \in 1 .. n - 1 : ~Usable(regs[m], e) THEN e ELSE regs[n]]

\* The first register that is free or has the same INTID takes the entry; when
\* there is none the entry is lost ("ICH_LRN_EL2 is overflowed.").
add_virtual_interrupt(regs, e) ==
  [n \in LrIndex |->
    IF Usable(regs[n], e) /\ \A m \in 1 .. n - 1 : ~Usable(regs[m], e)
    THEN IF regs[n].state = "inactive" THEN e ELSE OrPending(regs[n])
    ELSE regs[n]]

-----------------------------------------------------------------------------
(* trigger_interrupt of the distributor of VM v, on CPU b, with the enable  *)
(* bits en and the pending bits pend the caller has just written.           *)

Accepts(v) == "ENABLE_GRP1NS" \in ctlr[v]

Delivers(v, i, en) ==
  Accepts(v) /\ i \in en /\ i \notin modifier[v] /\ "ARE_S" \in ctlr[v]

Distributor_trigger_hereAlways(b, v, i, en, pend) ==
  /\ pending' = [pending EXCEPT ![v] = IF Accepts(v) THEN pend \cup {i} ELSE pend]
  /\ lr' = IF Delivers(v, i, en)
           THEN [lr EXCEPT ![b] =
                  add_virtual_interrupt(@, create_list_register_entry(v, i, "sw"))]
           ELSE lr
  /\ UNCHANGED <<queue, holder, pc>>

\* Dropped, injected on this CPU, or pushed for the CPU in the router with the
\* lock kept until the SGI is sent.
Distributor_trigger(b, v, i, en, pend) ==
  LET e == create_list_register_entry(v, i, "sw") IN
  /\ pending' = [pending EXCEPT ![v] = IF Accepts(v) THEN pend \cup {i} ELSE pend]
  /\ \/ /\ ~Delivers(v, i, en)
        /\ UNCHANGED <<lr, queue, holder, pc>>
     \/ /\ Delivers(v, i, en) /\ router[v][i] = b
        /\ lr' = [lr EXCEPT ![b] = add_virtual_interrupt(@, e)]
        /\ UNCHANGED <<queue, holder, pc>>
     \/ /\ Delivers(v, i, en) /\ router[v][i] # b
        /\ Len(queue[v]) < MaxQueue
        /\ queue' = [queue EXCEPT ![v] = Append(@, e)]
        /\ holder' = [holder EXCEPT ![v] = b]
        /\ pc' = [pc EXCEPT ![b] = "send"]
        /\ UNCHANGED lr

\* trigger_interrupt of the redistributor of CPU c: only CPU c ever calls it,
\* so its own to_inject_interrupt stays empty.
Redistributor_trigger(c, i, kind, en, pend) ==
  LET awake == asleep[c] = "awake" IN
  /\ pending' = [pending EXCEPT ![c] = IF awake THEN pend \cup {i} ELSE pend]
  /\ lr' = IF awake /\ i \in en /\ i \notin modifier[c]
           THEN [lr EXCEPT ![c] =
                  add_virtual_interrupt(@, create_list_register_entry(c, i, kind))]
           ELSE lr
  /\ UNCHANGED <<queue, holder, pc>>

Trigger(c, i, en, pend) ==
  \/ i \in Spis /\ Distributor_trigger(c, c, i, en, pend)
  \/ i \in Ppis /\ Redistributor_trigger(c, i, "sw", en, pend)

-----------------------------------------------------------------------------
(* The guest's register writes, one bit at a time.  A write traps to EL2    *)
(* and its handler takes the lock of the distributor.                       *)

Traps(c) == c \in Guests /\ pc[c] = "guest" /\ holder[c] = None

\* GICD_CTLR.
WriteCtlr(c, bits) ==
  /\ Traps(c)
  /\ ctlr' = [ctlr EXCEPT ![c] = bits]
  /\ UNCHANGED <<asleep, enable, modifier, router, astray, pending, queue, holder, lr, sgi, timer, pc>>

\* GICR_WAKER.
WriteWaker(c, s) ==
  /\ Traps(c)
  /\ asleep' = [asleep EXCEPT ![c] = s]
  /\ UNCHANGED <<ctlr, enable, modifier, router, astray, pending, queue, holder, lr, sgi, timer, pc>>

\* A history of the guests, for the properties: c has routers rt and enables en.
Remember(c, rt, en) ==
  astray' = IF \E i \in Spis \cap en : rt[i] # c THEN astray \cup {c} ELSE astray

\* GICD_IROUTER of INTID n: the value is stored at index n - 32, and get_router
\* reads the router of SPI i at index i.  A write to an index that no SPI in use
\* reads is left out.
WriteRouter(c, n, cpu) ==
  /\ Traps(c)
  /\ n - 32 \in Spis
  /\ router' = [router EXCEPT ![c][n - 32] = cpu]
  /\ Remember(c, [router[c] EXCEPT ![n - 32] = cpu], enable[c])
  /\ UNCHANGED <<ctlr, asleep, enable, modifier, pending, queue, holder, lr, sgi, timer, pc>>

\* GICD_IGRPMODR, GICR_IGRPMODR0.
WriteModifier(c, ints) ==
  /\ Traps(c)
  /\ modifier' = [modifier EXCEPT ![c] = ints]
  /\ UNCHANGED <<ctlr, asleep, enable, router, astray, pending, queue, holder, lr, sgi, timer, pc>>

\* GICD_ISENABLER, GICR_ISENABLER0: an interrupt already pending is triggered.
\* The router is not looked at before, and may still be what it was at reset.
SetEnable(c, i) ==
  /\ Traps(c)
  /\ enable' = [enable EXCEPT ![c] = @ \cup {i}]
  /\ Remember(c, router[c], enable[c] \cup {i})
  /\ \/ /\ i \in pending[c]
        /\ Trigger(c, i, enable[c] \cup {i}, pending[c])
     \/ /\ i \notin pending[c]
        /\ UNCHANGED <<pending, lr, queue, holder, pc>>
  /\ UNCHANGED <<ctlr, asleep, modifier, router, sgi, timer>>

\* GICD_ICENABLER, GICR_ICENABLER0.
ClearEnable(c, i) ==
  /\ Traps(c)
  /\ enable' = [enable EXCEPT ![c] = @ \ {i}]
  /\ UNCHANGED <<ctlr, asleep, modifier, router, astray, pending, queue, holder, lr, sgi, timer, pc>>

\* GICD_ISPENDR, GICR_ISPENDR0.
SetPending(c, i) ==
  /\ Traps(c)
  /\ \/ /\ i \in enable[c]
        /\ Trigger(c, i, enable[c], pending[c] \cup {i})
     \/ /\ i \notin enable[c]
        /\ pending' = [pending EXCEPT ![c] = @ \cup {i}]
        /\ UNCHANGED <<lr, queue, holder, pc>>
  /\ UNCHANGED <<dist, sgi, timer>>

\* GICD_ICPENDR, GICR_ICPENDR0.
ClearPending(c, i) ==
  /\ Traps(c)
  /\ pending' = [pending EXCEPT ![c] = @ \ {i}]
  /\ UNCHANGED <<dist, queue, holder, lr, sgi, timer, pc>>

-----------------------------------------------------------------------------
(* Devices.  The IRQ handler of a CPU runs only while its guest does.       *)

\* The end of VirtioBlkMmio::operation, on the CPU of the VM.
DiskDone(c) ==
  /\ Traps(c)
  /\ DiskInt \in Spis
  /\ Distributor_trigger(c, c, DiskInt, enable[c], pending[c])
  /\ UNCHANGED <<dist, sgi, timer>>

\* handle_input and Pl011Mmio::push: BootCpu triggers in the active VM v.
ConsoleInput(v) ==
  /\ pc[BootCpu] = "guest"
  /\ holder[v] = None
  /\ Distributor_trigger(BootCpu, v, ConsoleInt, enable[v], pending[v])
  /\ UNCHANGED <<dist, sgi, timer>>

\* The timer PPI is acknowledged, its priority dropped, and it stays active
\* until a guest's EOI of an HW list register deactivates it.
TimerFires(c) ==
  /\ c \in Guests /\ pc[c] = "guest" /\ timer[c] = "inactive"
  /\ (Timer \in enable[c] /\ asleep[c] = "awake") \/ EarlyTimer
  /\ timer' = [timer EXCEPT ![c] = "active"]
  /\ Redistributor_trigger(c, Timer, "hw", enable[c], pending[c])
  /\ UNCHANGED <<dist, sgi>>

-----------------------------------------------------------------------------
(* An entry for another CPU: SGI 11 and its handler                         *)

SendSgi_self(b, v) ==
  /\ pc[b] = "send" /\ holder[v] = b
  /\ sgi' = sgi \cup {b}
  /\ holder' = [holder EXCEPT ![v] = None]
  /\ pc' = [pc EXCEPT ![b] = "guest"]
  /\ UNCHANGED <<dist, pending, queue, lr, timer>>

\* set_icc_sgi1r_el1 for the CPU in the router of the entry just pushed, if there
\* is such a CPU; then the lock is dropped.
SendSgi(b, v) ==
  /\ pc[b] = "send" /\ holder[v] = b
  /\ sgi' = sgi \cup (CPUs \cap {router[v][queue[v][Len(queue[v])].int]})
  /\ holder' = [holder EXCEPT ![v] = None]
  /\ pc' = [pc EXCEPT ![b] = "guest"]
  /\ UNCHANGED <<dist, pending, queue, lr, timer>>

\* irq_handler: get_acknowledge returns INJECT_INTERRUPT_INT_ID.
AckInject(c) ==
  /\ pc[c] = "guest" /\ c \in sgi
  /\ sgi' = sgi \ {c}
  /\ pc' = [pc EXCEPT ![c] = "inject"]
  /\ UNCHANGED <<dist, pending, queue, holder, lr, timer>>

\* inject_interrupt_handler takes the lock of its own VM's distributor.
LockInject(c) ==
  /\ pc[c] = "inject" /\ holder[c] = None
  /\ holder' = [holder EXCEPT ![c] = c]
  /\ pc' = [pc EXCEPT ![c] = "drain"]
  /\ UNCHANGED <<dist, pending, queue, lr, sgi, timer>>

\* One iteration of its loop.
InjectOne(c) ==
  /\ pc[c] = "drain" /\ queue[c] # <<>>
  /\ lr' = [lr EXCEPT ![c] = add_virtual_interrupt(@, Head(queue[c]))]
  /\ queue' = [queue EXCEPT ![c] = Tail(@)]
  /\ UNCHANGED <<dist, pending, holder, sgi, timer, pc>>

InjectDone_early(c) ==
  /\ pc[c] = "drain"
  /\ holder' = [holder EXCEPT ![c] = None]
  /\ pc' = [pc EXCEPT ![c] = "guest"]
  /\ UNCHANGED <<dist, pending, queue, lr, sgi, timer>>

\* The queue is empty: the lock is dropped and the SGI deactivated.
InjectDone(c) ==
  /\ pc[c] = "drain" /\ queue[c] = <<>>
  /\ holder' = [holder EXCEPT ![c] = None]
  /\ pc' = [pc EXCEPT ![c] = "guest"]
  /\ UNCHANGED <<dist, pending, queue, lr, sgi, timer>>

-----------------------------------------------------------------------------
(* The virtual CPU interface (hardware), driven by the guest of CPU c       *)

GuestAck(c) ==
  /\ pc[c] = "guest"
  /\ \E n \in LrIndex :
       /\ lr[c][n].state = "pending"
       /\ lr' = [lr EXCEPT ![c][n].state = "active"]
  /\ UNCHANGED <<dist, pending, queue, holder, sgi, timer, pc>>

\* EOI also deactivates the physical interrupt of an HW entry.
GuestEoi(c) ==
  /\ pc[c] = "guest"
  /\ \E n \in LrIndex :
       /\ lr[c][n].state \in {"active", "both"}
       /\ lr' = [lr EXCEPT ![c][n].state = IF @ = "both" THEN "pending" ELSE "inactive"]
       /\ timer' = IF lr[c][n].kind = "hw" THEN [timer EXCEPT ![c] = "inactive"] ELSE timer
  /\ UNCHANGED <<dist, pending, queue, holder, sgi, pc>>

\* ICH_EISR_EL2: the registers whose EOI asked for maintenance.
Ended(c) == {n \in LrIndex : lr[c][n].state = "inactive" /\ lr[c][n].kind = "sw"}

\* maintenance_interrupt_handler: the whole loop over the list registers.
Maintenance(c) ==
  /\ pc[c] = "guest" /\ holder[c] = None
  /\ Ended(c) # {}
  /\ pending' = [pending EXCEPT ![c] = @ \ {lr[c][n].int : n \in Ended(c)}]
  /\ lr' = [lr EXCEPT ![c] = [n \in LrIndex |-> IF n \in Ended(c) THEN NoEntry ELSE @[n]]]
  /\ UNCHANGED <<dist, queue, holder, sgi, timer, pc>>

-----------------------------------------------------------------------------
\* What a guest writes is its own affair.
GuestWrite(c) ==
  \/ \E bits \in CtlrWrites : WriteCtlr(c, bits)
  \/ \E s \in WakerWrites : WriteWaker(c, s)
  \/ \E w \in RouterWrites : WriteRouter(c, w[1], w[2])
  \/ \E ints \in ModifierWrites : WriteModifier(c, ints)
  \/ \E i \in EnableWrites : SetEnable(c, i)
  \/ \E i \in DisableWrites : ClearEnable(c, i)
  \/ \E i \in PendWrites : SetPending(c, i) \/ ClearPending(c, i)

Handler(c) ==
  \/ \E v \in CPUs : SendSgi(c, v)
  \/ AckInject(c) \/ LockInject(c) \/ InjectOne(c) \/ InjectDone(c)

Next ==
  \/ \E v \in CPUs : ConsoleInput(v)
  \/ \E c \in CPUs :
       \/ GuestWrite(c) \/ Handler(c)
       \/ DiskDone(c) \/ TimerFires(c)
       \/ GuestAck(c) \/ GuestEoi(c) \/ Maintenance(c)

\* A CPU inside a handler goes on, and a pending SGI interrupts a guest, which
\* cannot mask physical IRQs (HCR_EL2.IMO).  Guests and devices owe nothing.
Fairness == \A c \in CPUs : WF_vars(Handler(c))

Spec == Init /\ [][Next]_vars /\ Fairness

-----------------------------------------------------------------------------
(* What another CPU's trigger does to a VM depends on the routers of the VM, *)
(* and nothing keeps a guest from routing its SPIs elsewhere, or from leaving *)
(* the routers at reset.  The claims hold for VMs that are not astray.        *)

\* No lost wake-up: while entries wait in the queue of a VM, its CPU has SGI
\* 11 pending, or is in the handler that empties the queue, or the CPU that
\* pushed the last entry still holds the lock and has yet to send the SGI.
QueuedImpliesSgi ==
  \A v \in CPUs \ astray : queue[v] # <<>> =>
    \/ v \in sgi
    \/ pc[v] \in {"inject", "drain"}
    \/ \E b \in CPUs : holder[v] = b /\ pc[b] = "send"

\* An interrupt raised in one VM's GIC enters the list registers of a CPU that
\* runs another VM in one case only: it is serial input for a VM that is astray,
\* which trigger_interrupt injects on the CPU it runs on, the boot CPU.
InjectedIntoOwner ==
  \A c \in CPUs, n \in LrIndex :
    \/ lr[c][n].vm \in {c, None}
    \/ c = BootCpu /\ lr[c][n].int = ConsoleInt /\ lr[c][n].vm \in astray

KeepsInterrupt(r, s) == s.vm = r.vm /\ s.int = r.int /\ s.kind = r.kind

\* add_virtual_interrupt and maintenance work on registers that the guest is using
\* meanwhile: a list register that is pending or active keeps its interrupt, and
\* with it the physical INTID that an EOI will deactivate, until the EOI.
LiveEntryKept ==
  [][\A c \in CPUs, n \in LrIndex :
       lr[c][n].state # "inactive" => KeepsInterrupt(lr[c][n], lr'[c][n])]_vars

\* Entries pushed for a VM by another CPU reach its list registers (or the
\* overflow message): the queue is emptied again, unless the VM goes astray.
QueueDrains ==
  \A v \in CPUs : queue[v] # <<>> /\ v \notin astray ~> queue[v] = <<>> \/ v \in astray

\* exception.rs leaves the timer PPI active because "the VGIC deactivates it":
\* so an active timer PPI is backed by an HW list register that is not yet
\* inactive, whose EOI will deactivate it.
TimerDeactivatedByVgic ==
  \A c \in CPUs : timer[c] = "active" =>
    \E n \in LrIndex : /\ lr[c][n].int = Timer
                       /\ lr[c][n].kind = "hw"
                       /\ lr[c][n].state # "inactive"
=============================================================================
