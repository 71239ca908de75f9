-------------------------- MODULE VirtualGicProofs --------------------------
(* Safety of the injection path of VirtualGic, for any number of CPUs, list *)
(* registers, INTIDs and guest behaviours the constants allow.              *)
EXTENDS VirtualGic, SequenceTheorems, TLAPS

Lrs == Entries \cup {NoEntry}

\* What no trigger changes: the registers of the GIC, the SGIs, the timers.  A
\* guest that is not astray has its own CPU in the router of an SPI it enables.
RegsOK ==
  /\ ctlr \in [CPUs -> SUBSET CtlrBits]
  /\ asleep \in [CPUs -> {"asleep", "awake"}]
  /\ enable \in [CPUs -> SUBSET Ints]
  /\ modifier \in [CPUs -> SUBSET Ints]
  /\ router \in [CPUs -> [Spis -> CPUs \cup {None}]]
  /\ astray \subseteq CPUs
  /\ sgi \subseteq CPUs
  /\ timer \in [CPUs -> {"inactive", "active"}]
  /\ \A v \in CPUs \ astray : \A i \in Spis : i \in enable[v] => router[v][i] = v

\* What InjectedIntoOwner allows in a list register of CPU c, when the VMs in
\* strays are astray.
Fits(c, r, strays) ==
  r.vm \in {c, None} \/ (c = BootCpu /\ r.int = ConsoleInt /\ r.vm \in strays)

LrOK ==
  /\ lr \in [CPUs -> [LrIndex -> Lrs]]
  /\ \A c \in CPUs : \A n \in LrIndex : Fits(c, lr[c][n], astray)

QueueOK ==
  /\ queue \in [CPUs -> Seq(Entries)]
  /\ \A c \in CPUs : \A k \in 1 .. Len(queue[c]) : queue[c][k].vm = c

LastInt(q) == q[Len(q)].int

\* Who holds the lock of a distributor: its own CPU while it drains the queue,
\* or one CPU that has pushed an entry and is about to send the SGI, to the CPU
\* of the VM unless the VM is astray.
LockOK ==
  /\ pending \in [CPUs -> SUBSET Ints]
  /\ holder \in [CPUs -> CPUs \cup {None}]
  /\ pc \in [CPUs -> {"guest", "send", "inject", "drain"}]
  /\ \A v, b \in CPUs : holder[v] = b =>
       \/ pc[b] = "drain" /\ b = v
       \/ /\ pc[b] = "send"
          /\ v \in astray \/ router[v][LastInt(queue[v])] = v
          /\ \A w \in CPUs : holder[w] = b => w = v
  /\ \A c \in CPUs : pc[c] = "drain" => holder[c] = c

IInv == RegsOK /\ LrOK /\ QueueOK /\ LockOK /\ QueuedImpliesSgi

-----------------------------------------------------------------------------
(* List registers *)

\* add_virtual_interrupt writes list register values, and only what fits this CPU
\* if the entry does and the registers did.
LEMMA AddVirtual ==
  ASSUME NEW c \in CPUs, NEW strays, NEW regs \in [LrIndex -> Lrs], NEW e \in Entries,
         Fits(c, e, strays), \A n \in LrIndex : Fits(c, regs[n], strays)
  PROVE  /\ add_virtual_interrupt(regs, e) \in [LrIndex -> Lrs]
         /\ \A n \in LrIndex : Fits(c, add_virtual_interrupt(regs, e)[n], strays)
<1>1. ASSUME NEW r \in Lrs, Fits(c, r, strays), r.state # "inactive"
      PROVE  OrPending(r) \in Lrs /\ Fits(c, OrPending(r), strays)
  <2>1. r \in Entries
    BY <1>1 DEF Lrs, NoEntry
  <2>2. OrPending(r) \in Entries /\ OrPending(r).vm = r.vm /\ OrPending(r).int = r.int
    BY <2>1 DEF OrPending, Entries
  <2> QED
    BY <1>1, <2>2 DEF Lrs, Fits
<1> DEFINE f(n) == add_virtual_interrupt(regs, e)[n]
<1>2. ASSUME NEW n \in LrIndex PROVE f(n) \in Lrs /\ Fits(c, f(n), strays)
  <2>1. \/ f(n) \in {e, regs[n]}
        \/ f(n) = OrPending(regs[n]) /\ regs[n].state # "inactive"
    BY DEF add_virtual_interrupt
  <2> QED
    BY <2>1, <1>1 DEF Lrs
<1> QED
  BY <1>2 DEF add_virtual_interrupt

\* create_list_register_entry builds an entry of the VM it is asked for.
LEMMA EntryType ==
  ASSUME NEW v \in CPUs, NEW i \in Ints, NEW kind \in {"sw", "hw"}
  PROVE  /\ create_list_register_entry(v, i, kind) \in Entries
         /\ create_list_register_entry(v, i, kind).vm = v
         /\ create_list_register_entry(v, i, kind).int = i
  BY DEF create_list_register_entry, Entries

\* Writing the registers of one CPU, while VMs may go astray.
LEMMA LrUpdate ==
  ASSUME LrOK, astray \subseteq astray', NEW b \in CPUs, NEW regs \in [LrIndex -> Lrs],
         \A n \in LrIndex : Fits(b, regs[n], astray'),
         lr' = [lr EXCEPT ![b] = regs]
  PROVE  LrOK'
  BY DEF LrOK, Fits

\* The registers are left alone while VMs may go astray.
LEMMA LrSame ==
  ASSUME LrOK, astray \subseteq astray', lr' = lr PROVE LrOK'
  BY DEF LrOK, Fits

\* add_virtual_interrupt on the registers of one CPU.
LEMMA LrAdd ==
  ASSUME LrOK, astray \subseteq astray', NEW b \in CPUs, NEW e \in Entries,
         Fits(b, e, astray'), lr' = [lr EXCEPT ![b] = add_virtual_interrupt(lr[b], e)]
  PROVE  LrOK'
<1>1. lr[b] \in [LrIndex -> Lrs] /\ \A n \in LrIndex : Fits(b, lr[b][n], astray')
  BY DEF LrOK, Fits
<1>2. /\ add_virtual_interrupt(lr[b], e) \in [LrIndex -> Lrs]
      /\ \A n \in LrIndex : Fits(b, add_virtual_interrupt(lr[b], e)[n], astray')
  BY <1>1, AddVirtual
<1> QED
  BY <1>2, LrUpdate

-----------------------------------------------------------------------------
(* Triggers *)

Unlocked(v) == holder[v] = None

\* What a handler on CPU b knows when it triggers SPI i of VM v: it is VM v's own
\* CPU, or the boot CPU with serial input; and VM v is astray, or becomes so in
\* this step, if the SPI is enabled with another CPU in its router.
Called(b, v, i, en) ==
  /\ astray \subseteq astray' /\ astray' \subseteq astray \cup {v}
  /\ i \in Spis \cap en => (router[v][i] = v \/ v \in astray')
  /\ b = v \/ (b = BootCpu /\ i = ConsoleInt)
  /\ pc[b] = "guest" /\ Unlocked(v)
  /\ UNCHANGED <<router, sgi>>

\* trigger_interrupt of a distributor, on a CPU that holds no lock, keeps the
\* invariant: what it delivers goes to the list registers of this CPU only if
\* this CPU is the VM's or the VM is astray, and otherwise is pushed with the SGI
\* still to be sent.
LEMMA DistributorTrigger ==
  ASSUME IInv, NEW b \in CPUs, NEW v \in CPUs, NEW i \in Spis,
         NEW en \in SUBSET Ints, NEW pend \in SUBSET Ints,
         Called(b, v, i, en), Distributor_trigger(b, v, i, en, pend)
  PROVE  LrOK' /\ QueueOK' /\ LockOK' /\ QueuedImpliesSgi'
<1> DEFINE e == create_list_register_entry(v, i, "sw")
<1>1. e \in Entries /\ e.vm = v /\ e.int = i
  BY EntryType DEF Ints
<1>2. pending' \in [CPUs -> SUBSET Ints]
  BY DEF IInv, LockOK, Distributor_trigger, Ints
<1>3. ASSUME UNCHANGED <<queue, holder, pc>>
      PROVE  QueueOK' /\ LockOK' /\ QueuedImpliesSgi'
  <2>1. QueueOK' /\ QueuedImpliesSgi'
    BY <1>3 DEF IInv, QueueOK, QueuedImpliesSgi, Called
  <2>2. LockOK'
    BY <1>2, <1>3 DEF IInv, LockOK, Called
  <2> QED
    BY <2>1, <2>2
<1>4. CASE ~Delivers(v, i, en)
  <2>1. UNCHANGED <<lr, queue, holder, pc>>
    BY <1>4 DEF Distributor_trigger
  <2> QED
    BY <1>3, <2>1, LrSame DEF IInv, Called
<1>5. CASE Delivers(v, i, en) /\ router[v][i] = b
  <2>1. Fits(b, e, astray')
    BY <1>1, <1>5 DEF Delivers, Called, Fits
  <2>2. /\ lr' = [lr EXCEPT ![b] = add_virtual_interrupt(lr[b], e)]
        /\ UNCHANGED <<queue, holder, pc>>
    BY <1>5 DEF Distributor_trigger
  <2>3. LrOK'
    BY <1>1, <2>1, <2>2, LrAdd DEF IInv, Called
  <2> QED
    BY <1>3, <2>2, <2>3
<1>6. CASE Delivers(v, i, en) /\ router[v][i] # b
  <2>1. router[v][i] = v \/ v \in astray'
    BY <1>6 DEF Delivers, Called
  <2>2. /\ queue' = [queue EXCEPT ![v] = Append(queue[v], e)]
        /\ holder' = [holder EXCEPT ![v] = b]
        /\ pc' = [pc EXCEPT ![b] = "send"]
        /\ UNCHANGED lr
    BY <1>6 DEF Distributor_trigger
  <2>3. queue[v] \in Seq(Entries)
    BY DEF IInv, QueueOK
  <2>4. QueueOK'
    <3>1. \A k \in 1 .. Len(Append(queue[v], e)) : Append(queue[v], e)[k].vm = v
      BY <2>3, <1>1, AppendProperties, LenProperties DEF IInv, QueueOK
    <3> QED
      BY <2>3, <3>1, <2>2, <1>1, AppendProperties DEF IInv, QueueOK
  <2>5. LastInt(queue'[v]) = i /\ \A w \in CPUs : w # v => queue'[w] = queue[w]
    BY <2>2, <2>3, <1>1, AppendProperties, LenProperties DEF LastInt, IInv, QueueOK
  <2>6. LockOK'
    <3>1. /\ \A w \in CPUs : holder[w] # b
          /\ \A w \in CPUs : w # v => (w \in astray' <=> w \in astray)
      BY DEF IInv, LockOK, Called
    <3> QED
      BY <1>2, <2>1, <2>2, <2>5, <3>1, GicAssumption DEF IInv, LockOK, Unlocked, Called
  <2>7. QueuedImpliesSgi'
    BY <2>2, <2>5 DEF IInv, QueuedImpliesSgi, LockOK, Unlocked, Called
  <2> QED
    BY <2>2, <2>4, <2>6, <2>7, LrSame DEF IInv, Called
<1> QED
  BY <1>4, <1>5, <1>6 DEF Distributor_trigger

\* trigger_interrupt of a redistributor, always on its own CPU.
LEMMA RedistributorTrigger ==
  ASSUME IInv, NEW c \in CPUs, NEW i \in Ppis, NEW kind \in {"sw", "hw"},
         NEW en \in SUBSET Ints, NEW pend \in SUBSET Ints,
         astray \subseteq astray', UNCHANGED <<router, sgi>>,
         Redistributor_trigger(c, i, kind, en, pend)
  PROVE  LrOK' /\ QueueOK' /\ LockOK' /\ QueuedImpliesSgi'
<1> DEFINE e == create_list_register_entry(c, i, kind)
<1>1. e \in Entries /\ e.vm = c
  BY EntryType DEF Ints
<1>2. pending' \in [CPUs -> SUBSET Ints] /\ UNCHANGED <<queue, holder, pc>>
  BY DEF IInv, LockOK, Redistributor_trigger, Ints
<1>3. LrOK'
  <2>1. lr' = lr \/ lr' = [lr EXCEPT ![c] = add_virtual_interrupt(lr[c], e)]
    BY DEF Redistributor_trigger
  <2>2. CASE lr' = lr
    BY <2>2, LrSame DEF IInv
  <2>3. CASE lr' = [lr EXCEPT ![c] = add_virtual_interrupt(lr[c], e)]
    <3>1. Fits(c, e, astray')
      BY <1>1 DEF Fits
    <3> QED
      BY <1>1, <2>3, <3>1, LrAdd DEF IInv
  <2> QED
    BY <2>1, <2>2, <2>3
<1>4. QueueOK' /\ QueuedImpliesSgi'
  BY <1>2 DEF IInv, QueueOK, QueuedImpliesSgi
<1>5. LockOK'
  BY <1>2 DEF IInv, LockOK
<1> QED
  BY <1>3, <1>4, <1>5

\* The trigger of a guest's own write, an SPI or a PPI.
LEMMA GuestTrigger ==
  ASSUME IInv, NEW c \in CPUs, NEW i \in Ints,
         NEW en \in SUBSET Ints, NEW pend \in SUBSET Ints,
         Called(c, c, i, en), Trigger(c, i, en, pend)
  PROVE  LrOK' /\ QueueOK' /\ LockOK' /\ QueuedImpliesSgi'
  BY DistributorTrigger, RedistributorTrigger DEF Trigger, Called

-----------------------------------------------------------------------------
(* The invariant *)

\* The state that GicDistributorMmio::new and its peers build.
LEMMA InitIInv == Init => IInv
<1> SUFFICES ASSUME Init PROVE IInv
  OBVIOUS
<1>1. RegsOK
  BY GicAssumption DEF Init, RegsOK, Ints
<1>2. LrOK
  BY DEF Init, LrOK, Lrs, NoEntry, Fits
<1>3. QueueOK /\ QueuedImpliesSgi
  BY EmptySeq DEF Init, QueueOK, QueuedImpliesSgi
<1>4. LockOK
  BY GicAssumption DEF Init, LockOK
<1> QED
  BY <1>1, <1>2, <1>3, <1>4 DEF IInv

\* A guest's register write keeps the invariant.
LEMMA GuestWriteIInv ==
  ASSUME IInv, NEW c \in CPUs, GuestWrite(c) PROVE IInv'
<1>1. ASSUME NEW bits \in CtlrWrites, WriteCtlr(c, bits) PROVE IInv'
  <2>1. RegsOK'
    BY <1>1, GicAssumption DEF IInv, RegsOK, WriteCtlr
  <2> QED
    BY <1>1, <2>1 DEF WriteCtlr, IInv, LrOK, QueueOK, LockOK, QueuedImpliesSgi
<1>2. ASSUME NEW s \in WakerWrites, WriteWaker(c, s) PROVE IInv'
  <2>1. RegsOK'
    BY <1>2, GicAssumption DEF IInv, RegsOK, WriteWaker
  <2> QED
    BY <1>2, <2>1 DEF WriteWaker, IInv, LrOK, QueueOK, LockOK, QueuedImpliesSgi
<1>3. ASSUME NEW w \in RouterWrites, WriteRouter(c, w[1], w[2]) PROVE IInv'
  <2> DEFINE i == w[1] - 32
             rt == [router[c] EXCEPT ![i] = w[2]]
  <2>1. /\ i \in Spis /\ router' = [router EXCEPT ![c] = rt] /\ holder[c] = None
        /\ astray' = IF \E j \in Spis \cap enable[c] : rt[j] # c THEN astray \cup {c} ELSE astray
        /\ UNCHANGED <<ctlr, asleep, enable, modifier, pending, queue, holder, lr, sgi, timer, pc>>
    BY <1>3 DEF WriteRouter, Remember, Traps
  <2>2. w[2] \in CPUs \cup {None}
    BY GicAssumption
  <2>3. rt \in [Spis -> CPUs \cup {None}]
    BY <2>1, <2>2 DEF IInv, RegsOK
  <2> HIDE DEF i, rt
  <2>4. RegsOK'
    BY <2>1, <2>3 DEF IInv, RegsOK
  <2>5. LockOK'
    BY <2>1, GicAssumption DEF IInv, LockOK
  <2>6. LrOK'
    BY <2>1, LrSame DEF IInv
  <2>7. QueueOK' /\ QueuedImpliesSgi'
    BY <2>1 DEF IInv, QueueOK, QueuedImpliesSgi
  <2> QED
    BY <2>4, <2>5, <2>6, <2>7 DEF IInv
<1>4. ASSUME NEW ints \in ModifierWrites, WriteModifier(c, ints) PROVE IInv'
  <2>1. RegsOK'
    BY <1>4, GicAssumption DEF IInv, RegsOK, WriteModifier, Ints
  <2> QED
    BY <1>4, <2>1 DEF WriteModifier, IInv, LrOK, QueueOK, LockOK, QueuedImpliesSgi
<1>5. ASSUME NEW i \in EnableWrites, SetEnable(c, i) PROVE IInv'
  <2> DEFINE en == enable[c] \cup {i}
  <2>0. i \in Ints
    BY GicAssumption DEF Ints
  <2>1. /\ enable' = [enable EXCEPT ![c] = en] /\ Traps(c)
        /\ astray' = IF \E j \in Spis \cap en : router[c][j] # c THEN astray \cup {c} ELSE astray
        /\ UNCHANGED <<ctlr, asleep, modifier, router, sgi, timer>>
    BY <1>5 DEF SetEnable, Remember
  <2>2. en \in SUBSET Ints /\ pending[c] \in SUBSET Ints
    BY <2>0 DEF IInv, RegsOK, LockOK
  <2>3. RegsOK'
    BY <2>1, <2>2 DEF IInv, RegsOK
  <2>4. Called(c, c, i, en)
    BY <2>1 DEF Called, Traps, Unlocked
  <2>5. CASE i \in pending[c]
    <3>1. Trigger(c, i, en, pending[c])
      BY <1>5, <2>5 DEF SetEnable
    <3>2. LrOK' /\ QueueOK' /\ LockOK' /\ QueuedImpliesSgi'
      BY <2>0, <2>2, <2>4, <3>1, GuestTrigger
    <3> QED
      BY <2>3, <3>2 DEF IInv
  <2>6. CASE i \notin pending[c]
    <3>1. UNCHANGED <<pending, lr, queue, holder, pc>>
      BY <1>5, <2>6 DEF SetEnable
    <3>2. LrOK'
      BY <2>4, <3>1, LrSame DEF IInv, Called
    <3>3. QueueOK' /\ QueuedImpliesSgi'
      BY <2>4, <3>1 DEF IInv, QueueOK, QueuedImpliesSgi, Called
    <3>4. LockOK'
      BY <2>4, <3>1 DEF IInv, LockOK, Called
    <3> QED
      BY <2>3, <3>2, <3>3, <3>4 DEF IInv
  <2> QED
    BY <2>5, <2>6
<1>6. ASSUME NEW i \in DisableWrites, ClearEnable(c, i) PROVE IInv'
  <2>1. RegsOK'
    BY <1>6 DEF IInv, RegsOK, ClearEnable
  <2> QED
    BY <1>6, <2>1 DEF ClearEnable, IInv, LrOK, QueueOK, LockOK, QueuedImpliesSgi
<1>7. ASSUME NEW i \in PendWrites, SetPending(c, i) PROVE IInv'
  <2>0. i \in Ints
    BY GicAssumption DEF Ints
  <2>1. RegsOK' /\ UNCHANGED <<router, astray, sgi>> /\ Traps(c)
    BY <1>7 DEF IInv, RegsOK, SetPending, dist
  <2>2. CASE i \in enable[c]
    <3>1. Trigger(c, i, enable[c], pending[c] \cup {i})
      BY <1>7, <2>2 DEF SetPending
    <3>2. enable[c] \in SUBSET Ints /\ pending[c] \cup {i} \in SUBSET Ints
      BY <2>0 DEF IInv, RegsOK, LockOK
    <3>3. Called(c, c, i, enable[c])
      BY <2>1 DEF Called, Traps, Unlocked, IInv, RegsOK
    <3>4. LrOK' /\ QueueOK' /\ LockOK' /\ QueuedImpliesSgi'
      BY <2>0, <3>1, <3>2, <3>3, GuestTrigger
    <3> QED
      BY <2>1, <3>4 DEF IInv
  <2>3. CASE i \notin enable[c]
    <3>1. /\ pending' = [pending EXCEPT ![c] = @ \cup {i}]
          /\ UNCHANGED <<lr, queue, holder, pc>>
      BY <1>7, <2>3 DEF SetPending
    <3>2. LockOK'
      BY <2>0, <2>1, <3>1 DEF IInv, LockOK
    <3> QED
      BY <2>1, <3>1, <3>2 DEF IInv, LrOK, QueueOK, QueuedImpliesSgi
  <2> QED
    BY <2>2, <2>3
<1>8. ASSUME NEW i \in PendWrites, ClearPending(c, i) PROVE IInv'
  <2>1. RegsOK' /\ LockOK'
    BY <1>8 DEF IInv, RegsOK, LockOK, ClearPending, dist
  <2> QED
    BY <1>8, <2>1 DEF ClearPending, dist, IInv, LrOK, QueueOK, QueuedImpliesSgi
<1> QED
  BY <1>1, <1>2, <1>3, <1>4, <1>5, <1>6, <1>7, <1>8 DEF GuestWrite

\* The interrupts a device raises keep the invariant.
LEMMA DeviceIInv ==
  ASSUME IInv, NEW c \in CPUs, DiskDone(c) \/ ConsoleInput(c) \/ TimerFires(c)
  PROVE  IInv'
<1>1. enable[c] \in SUBSET Ints /\ pending[c] \in SUBSET Ints
  BY DEF IInv, RegsOK, LockOK
<1>2. \A i \in Spis : i \in enable[c] => (router[c][i] = c \/ c \in astray)
  BY DEF IInv, RegsOK
<1>3. RegsOK' /\ UNCHANGED <<router, astray, sgi>>
  BY Zenon DEF IInv, RegsOK, DiskDone, ConsoleInput, TimerFires, dist
<1>4. CASE DiskDone(c)
  <2>1. /\ DiskInt \in Spis /\ Called(c, c, DiskInt, enable[c])
        /\ Distributor_trigger(c, c, DiskInt, enable[c], pending[c])
    BY <1>2, <1>3, <1>4 DEF DiskDone, Traps, Unlocked, Called
  <2>2. LrOK' /\ QueueOK' /\ LockOK' /\ QueuedImpliesSgi'
    BY <2>1, <1>1, DistributorTrigger
  <2> QED
    BY <2>2, <1>3 DEF IInv
<1>5. CASE ConsoleInput(c)
  <2>1. /\ Called(BootCpu, c, ConsoleInt, enable[c])
        /\ Distributor_trigger(BootCpu, c, ConsoleInt, enable[c], pending[c])
    BY <1>2, <1>3, <1>5 DEF ConsoleInput, Unlocked, Called
  <2>2. BootCpu \in CPUs /\ ConsoleInt \in Spis
    BY GicAssumption
  <2>3. LrOK' /\ QueueOK' /\ LockOK' /\ QueuedImpliesSgi'
    BY <2>1, <2>2, <1>1, DistributorTrigger, Zenon
  <2> QED
    BY <2>3, <1>3 DEF IInv
<1>6. CASE TimerFires(c)
  <2>1. Redistributor_trigger(c, Timer, "hw", enable[c], pending[c]) /\ Timer \in Ppis
    BY <1>6, GicAssumption, Zenon DEF TimerFires
  <2>2. LrOK' /\ QueueOK' /\ LockOK' /\ QueuedImpliesSgi'
    BY <2>1, <1>1, <1>3, RedistributorTrigger
  <2> QED
    BY <2>2, <1>3 DEF IInv
<1> QED
  BY <1>4, <1>5, <1>6

\* The SGI and the steps of its handler keep the invariant.
LEMMA HandlerIInv ==
  ASSUME IInv, NEW c \in CPUs, Handler(c) PROVE IInv'
<1>1. ASSUME NEW v \in CPUs, SendSgi(c, v) PROVE IInv'
  <2>1. v \in astray \/ router[v][LastInt(queue[v])] = v
    BY <1>1 DEF SendSgi, IInv, LockOK
  <2>2. RegsOK'
    BY <1>1, <2>1 DEF SendSgi, dist, IInv, RegsOK
  <2>3. LockOK'
    BY <1>1, GicAssumption DEF SendSgi, dist, IInv, LockOK
  <2>4. QueuedImpliesSgi'
    <3> SUFFICES ASSUME NEW w \in CPUs \ astray, queue[w] # <<>>, w # v
                 PROVE  \/ w \in sgi'
                        \/ pc'[w] \in {"inject", "drain"}
                        \/ \E b \in CPUs : holder'[w] = b /\ pc'[b] = "send"
      BY <1>1, <2>1 DEF SendSgi, dist, QueuedImpliesSgi, LastInt
    <3>1. holder[w] # c
      BY <1>1 DEF SendSgi, IInv, LockOK
    <3> QED
      BY <1>1, <3>1 DEF SendSgi, IInv, LockOK, QueuedImpliesSgi
  <2> QED
    BY <1>1, <2>2, <2>3, <2>4 DEF SendSgi, dist, IInv, LrOK, QueueOK
<1>2. CASE AckInject(c)
  <2>1. RegsOK' /\ LockOK'
    BY <1>2 DEF AckInject, dist, IInv, RegsOK, LockOK
  <2>2. QueuedImpliesSgi'
    BY <1>2 DEF AckInject, dist, IInv, LockOK, QueuedImpliesSgi
  <2> QED
    BY <1>2, <2>1, <2>2 DEF AckInject, dist, IInv, LrOK, QueueOK
<1>3. CASE LockInject(c)
  <2>1. RegsOK'
    BY <1>3 DEF LockInject, dist, IInv, RegsOK
  <2>2. LockOK'
    BY <1>3, GicAssumption DEF LockInject, dist, IInv, LockOK
  <2>3. QueuedImpliesSgi'
    BY <1>3 DEF LockInject, dist, IInv, LockOK, QueuedImpliesSgi
  <2> QED
    BY <1>3, <2>1, <2>2, <2>3 DEF LockInject, dist, IInv, LrOK, QueueOK
<1>4. CASE InjectOne(c)
  <2>1. queue[c] \in Seq(Entries) /\ queue[c] # <<>>
    BY <1>4 DEF InjectOne, IInv, QueueOK
  <2>2. Head(queue[c]) \in Entries /\ Head(queue[c]).vm = c
    BY <2>1, HeadTailProperties, EmptySeq, LenProperties DEF IInv, QueueOK
  <2>3. LrOK'
    <3>1. Fits(c, Head(queue[c]), astray')
      BY <2>2 DEF Fits
    <3> QED
      BY <1>4, <2>2, <3>1, LrAdd, Zenon DEF InjectOne, dist, IInv
  <2>4. QueueOK'
    <3>1. /\ Tail(queue[c]) \in Seq(Entries)
          /\ \A k \in 1 .. Len(Tail(queue[c])) : Tail(queue[c])[k].vm = c
      BY <2>1, HeadTailProperties, LenProperties DEF IInv, QueueOK
    <3> QED
      BY <1>4, <3>1, Zenon DEF InjectOne, IInv, QueueOK
  <2>5. RegsOK' /\ LockOK'
    BY <1>4 DEF InjectOne, dist, IInv, RegsOK, LockOK
  <2>6. QueuedImpliesSgi'
    BY <1>4 DEF InjectOne, dist, IInv, LockOK, QueueOK, QueuedImpliesSgi
  <2> QED
    BY <2>3, <2>4, <2>5, <2>6 DEF IInv
<1>5. CASE InjectDone(c)
  <2>1. RegsOK'
    BY <1>5 DEF InjectDone, dist, IInv, RegsOK
  <2>2. LockOK'
    BY <1>5, GicAssumption DEF InjectDone, dist, IInv, LockOK
  <2>3. QueuedImpliesSgi'
    BY <1>5 DEF InjectDone, dist, IInv, LockOK, QueuedImpliesSgi
  <2> QED
    BY <1>5, <2>1, <2>2, <2>3 DEF InjectDone, dist, IInv, LrOK, QueueOK
<1> QED
  BY <1>1, <1>2, <1>3, <1>4, <1>5 DEF Handler

\* What the guest does to its list registers, and the maintenance handler,
\* keep the invariant.
LEMMA InterfaceIInv ==
  ASSUME IInv, NEW c \in CPUs, GuestAck(c) \/ GuestEoi(c) \/ Maintenance(c)
  PROVE  IInv'
<1>1. ASSUME NEW n \in LrIndex, NEW s \in {"pending", "active", "inactive"},
             lr[c][n].state # "inactive", lr' = [lr EXCEPT ![c][n].state = s],
             UNCHANGED astray
      PROVE  LrOK'
  <2>1. lr[c][n] \in Entries
    BY <1>1 DEF IInv, LrOK, Lrs, NoEntry
  <2>2. [lr[c][n] EXCEPT !.state = s] \in Entries
    BY <2>1 DEF Entries
  <2>3. /\ [lr[c][n] EXCEPT !.state = s].vm = lr[c][n].vm
        /\ [lr[c][n] EXCEPT !.state = s].int = lr[c][n].int
    BY <2>1 DEF Entries
  <2>4. lr' = [lr EXCEPT ![c] = [lr[c] EXCEPT ![n] = [lr[c][n] EXCEPT !.state = s]]]
    BY <1>1 DEF IInv, LrOK
  <2> QED
    BY <1>1, <2>2, <2>3, <2>4 DEF IInv, LrOK, Lrs, Fits
<1>2. CASE GuestAck(c)
  <2>1. LrOK'
    BY <1>2, <1>1, Zenon DEF GuestAck, dist
  <2> QED
    BY <1>2, <2>1 DEF GuestAck, dist, IInv, RegsOK, QueueOK, LockOK, QueuedImpliesSgi
<1>3. CASE GuestEoi(c)
  <2>1. LrOK'
    BY <1>3, <1>1, Zenon DEF GuestEoi, dist
  <2>2. RegsOK'
    BY <1>3 DEF GuestEoi, dist, IInv, RegsOK
  <2> QED
    BY <1>3, <2>1, <2>2 DEF GuestEoi, dist, IInv, QueueOK, LockOK, QueuedImpliesSgi
<1>4. CASE Maintenance(c)
  <2>1. LrOK'
    <3> DEFINE regs == [n \in LrIndex |-> IF n \in Ended(c) THEN NoEntry ELSE lr[c][n]]
    <3>1. regs \in [LrIndex -> Lrs] /\ \A n \in LrIndex : Fits(c, regs[n], astray)
      BY DEF IInv, LrOK, Lrs, NoEntry, Fits
    <3>2. lr' = [lr EXCEPT ![c] = regs] /\ UNCHANGED astray
      BY <1>4 DEF Maintenance, dist
    <3> QED
      BY <3>1, <3>2, LrUpdate, Zenon DEF IInv
  <2>2. LockOK'
    BY <1>4 DEF Maintenance, dist, IInv, LockOK
  <2> QED
    BY <1>4, <2>1, <2>2, Zenon DEF Maintenance, dist, IInv, RegsOK, QueueOK, QueuedImpliesSgi
<1> QED
  BY <1>2, <1>3, <1>4

\* Every step of the system keeps the invariant.
LEMMA NextIInv == IInv /\ [Next]_vars => IInv'
<1> SUFFICES ASSUME IInv, [Next]_vars PROVE IInv'
  OBVIOUS
<1>1. CASE Next
  BY <1>1, GuestWriteIInv, HandlerIInv, DeviceIInv, InterfaceIInv DEF Next
<1>2. CASE UNCHANGED vars
  BY <1>2 DEF vars, dist, IInv, RegsOK, LrOK, QueueOK, LockOK, QueuedImpliesSgi
<1> QED
  BY <1>1, <1>2

\* The inductive invariant holds in every reachable state.
LEMMA SpecIInv == Spec => []IInv
  BY InitIInv, NextIInv, PTL DEF Spec

\* Every variable of the virtual GIC stays in its range: no handler leaves a
\* list register or a queued entry that vgic.rs could not have encoded.
THEOREM GicTypeOK == Spec => []TypeOK
<1>1. IInv => TypeOK
  BY DEF IInv, RegsOK, LrOK, QueueOK, LockOK, TypeOK, Lrs
<1> QED
  BY <1>1, SpecIInv, PTL

\* No lost wake-up between trigger_interrupt on one CPU and
\* inject_interrupt_handler on another, for VMs that are not astray.
THEOREM NoLostSgi == Spec => []QueuedImpliesSgi
<1>1. IInv => QueuedImpliesSgi
  BY DEF IInv
<1> QED
  BY <1>1, SpecIInv, PTL

\* add_virtual_interrupt and the to_inject queue mix up two VMs in one case only:
\* serial input for a VM that enabled the interrupt with another CPU in its router
\* may enter the list registers of the boot CPU.
THEOREM OnlyConsoleStrays == Spec => []InjectedIntoOwner
<1>1. IInv => InjectedIntoOwner
  BY Zenon DEF IInv, LrOK, Fits, InjectedIntoOwner
<1> QED
  BY <1>1, SpecIInv, PTL

-----------------------------------------------------------------------------
(* List registers in use *)

\* What LiveEntryKept says of one step.
LiveKept ==
  \A c \in CPUs, n \in LrIndex :
    lr[c][n].state # "inactive" => KeepsInterrupt(lr[c][n], lr'[c][n])

\* An update of a field other than vm, int and kind.
LEMMA KeepsState ==
  ASSUME NEW r \in Lrs, NEW s
  PROVE  KeepsInterrupt(r, [r EXCEPT !.state = s])
  BY DEF KeepsInterrupt, Lrs, Entries, NoEntry

\* add_virtual_interrupt leaves the interrupts of registers in use alone.
LEMMA AddKeeps ==
  ASSUME LrOK, NEW b \in CPUs, NEW e, lr' = [lr EXCEPT ![b] = add_virtual_interrupt(lr[b], e)]
  PROVE  LiveKept
<1> SUFFICES ASSUME NEW c \in CPUs, NEW n \in LrIndex, lr[c][n].state # "inactive"
             PROVE  KeepsInterrupt(lr[c][n], lr'[c][n])
  BY DEF LiveKept
<1>1. lr[c][n] \in Lrs
  BY DEF LrOK
<1>2. CASE c # b
  BY <1>2 DEF LrOK, KeepsInterrupt
<1>3. CASE c = b
  <2>1. lr'[c][n] \in {lr[c][n], OrPending(lr[c][n])}
    BY <1>3 DEF LrOK, add_virtual_interrupt
  <2>2. KeepsInterrupt(lr[c][n], OrPending(lr[c][n]))
    BY <1>1, KeepsState, Zenon DEF OrPending
  <2>3. KeepsInterrupt(lr[c][n], lr[c][n])
    BY DEF KeepsInterrupt
  <2> QED
    BY <2>1, <2>2, <2>3
<1> QED
  BY <1>2, <1>3

\* A step that leaves the list registers alone.
LEMMA SameKeeps == ASSUME lr' = lr PROVE LiveKept
  BY DEF LiveKept, KeepsInterrupt

\* Both trigger_interrupt write list registers through add_virtual_interrupt.
LEMMA TriggerKeeps ==
  ASSUME LrOK, NEW b \in CPUs, NEW v, NEW i, NEW kind, NEW en, NEW pend,
         \/ Distributor_trigger(b, v, i, en, pend)
         \/ Redistributor_trigger(b, i, kind, en, pend)
  PROVE  LiveKept
<1>1. \/ lr' = lr
      \/ \E e : lr' = [lr EXCEPT ![b] = add_virtual_interrupt(lr[b], e)]
  BY DEF Distributor_trigger, Redistributor_trigger
<1> QED
  BY <1>1, AddKeeps, SameKeeps

\* No step takes the interrupt of a register in use away.
LEMMA NextKeeps == ASSUME IInv, [Next]_vars PROVE LiveKept
<1> USE DEF IInv
<1>1. ASSUME NEW v \in CPUs, ConsoleInput(v) PROVE LiveKept
  BY <1>1, TriggerKeeps, GicAssumption DEF ConsoleInput
<1>2. ASSUME NEW c \in CPUs, DiskDone(c) \/ TimerFires(c) PROVE LiveKept
  BY <1>2, TriggerKeeps, Zenon DEF DiskDone, TimerFires
<1>3. ASSUME NEW c \in CPUs, GuestWrite(c) PROVE LiveKept
  <2>1. CASE lr' = lr
    BY <2>1, SameKeeps
  <2>2. CASE \E i, en, pend : Trigger(c, i, en, pend)
    BY <2>2, TriggerKeeps DEF Trigger
  <2>3. ASSUME NEW i \in EnableWrites, SetEnable(c, i)
        PROVE  \/ lr' = lr
               \/ Trigger(c, i, enable[c] \cup {i}, pending[c])
    BY <2>3 DEF SetEnable
  <2>4. ASSUME NEW i \in PendWrites, SetPending(c, i)
        PROVE  \/ lr' = lr
               \/ Trigger(c, i, enable[c], pending[c] \cup {i})
    BY <2>4 DEF SetPending
  <2> QED
    BY Zenon, <1>3, <2>1, <2>2, <2>3, <2>4
       DEF GuestWrite, WriteCtlr, WriteWaker, WriteRouter, WriteModifier, ClearEnable, ClearPending
<1>4. ASSUME NEW c \in CPUs, Handler(c) PROVE LiveKept
  <2>1. ASSUME InjectOne(c) PROVE LiveKept
    BY <2>1, AddKeeps, Zenon DEF InjectOne
  <2> QED
    BY <1>4, <2>1, SameKeeps DEF Handler, SendSgi, AckInject, LockInject, InjectDone
<1>5. ASSUME NEW c \in CPUs, GuestAck(c) \/ GuestEoi(c) PROVE LiveKept
  <2>0. PICK m \in LrIndex : \E s : lr' = [lr EXCEPT ![c][m].state = s]
    BY <1>5 DEF GuestAck, GuestEoi
  <2>1. PICK s : lr' = [lr EXCEPT ![c][m].state = s]
    BY <2>0, Zenon
  <2>2. ASSUME NEW d \in CPUs, NEW n \in LrIndex PROVE KeepsInterrupt(lr[d][n], lr'[d][n])
    <3>1. lr[d][n] \in Lrs
      BY DEF LrOK
    <3>2. lr'[d][n] \in {lr[d][n], [lr[d][n] EXCEPT !.state = s]}
      BY <2>1 DEF LrOK
    <3>3. KeepsInterrupt(lr[d][n], [lr[d][n] EXCEPT !.state = s])
      BY <3>1, KeepsState
    <3>4. KeepsInterrupt(lr[d][n], lr[d][n])
      BY DEF KeepsInterrupt
    <3> QED
      BY <3>2, <3>3, <3>4
  <2> QED
    BY <2>2 DEF LiveKept
<1>6. ASSUME NEW c \in CPUs, Maintenance(c) PROVE LiveKept
  BY <1>6 DEF Maintenance, Ended, LiveKept, KeepsInterrupt, LrOK
<1>7. CASE UNCHANGED vars
  BY <1>7, SameKeeps DEF vars
<1> QED
  BY <1>1, <1>2, <1>3, <1>4, <1>5, <1>6, <1>7 DEF Next

\* A list register that is pending or active keeps its interrupt in every step,
\* whatever CPUs trigger, inject and maintain meanwhile.
THEOREM ListRegistersKeep == Spec => LiveEntryKept
<1>1. IInv /\ [Next]_vars => [LiveKept]_vars
  BY NextKeeps
<1>2. Spec => []IInv
  BY SpecIInv
<1>3. LiveEntryKept <=> [][LiveKept]_vars
  BY DEF LiveEntryKept, LiveKept
<1> QED
  BY <1>1, <1>2, <1>3, PTL DEF Spec
=============================================================================
