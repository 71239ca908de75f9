-------------------------- MODULE VmManagerProofs ---------------------------
(* What VmManager promises, for every number of CPUs, every amount of memory *)
(* and every set of disk images.                                             *)
EXTENDS VmManager, FiniteSetTheorems, TLAPS

Creating == {"alloc", "id", "build", "list", "switch", "start"}

\* The inductive invariant, in parts.  First: one CPU at a time is in create_vm.
\* CPU 0 does not take the lock there, but no other CPU is on at that time.  A CPU
\* that panics in core_main never drops the lock.
Exclusive ==
  /\ \A c \in Cpus \ {0} : pc[c] \in Creating \cup {"panic"} => VIRTIO_BLK = c
  /\ \A c \in Cpus : pc[c] = "io" => VIRTIO_BLK = c
  /\ pc[0] \notin {"off", "entry"}
  /\ tpidr_el2[0] = None => VIRTIO_BLK = None /\ \A c \in Cpus \ {0} : pc[c] = "off"
  /\ \A c \in Cpus : InVm(c) => tpidr_el2[c] # None
  /\ \A c \in Cpus : pc[c] \in {"off", "entry"} \cup Creating => tpidr_el2[c] = None
  /\ \A c \in Cpus \ {0} : pc[c] = "panic" => tpidr_el2[c] = None

\* CPU c has an identifier that is not in VM_LIST, and may never be.
Pending(c) ==
  \/ pc[c] \in {"build", "list"}
  \/ pc[c] = "panic" /\ vm_id[c] # None /\ tpidr_el2[c] = None

\* Second: a CPU has an identifier from TakeId on, and the one of its own VM in
\* its register.
Local ==
  /\ \A c \in Cpus : pc[c] \in {"off", "entry", "alloc", "id"} => vm_id[c] = None
  /\ \A c \in Cpus : InVm(c) \/ pc[c] \in {"build", "list", "switch", "start"} => vm_id[c] # None
  /\ \A c \in Cpus : tpidr_el2[c] \in {None, vm_id[c]}

\* Third: identifiers are given once, in order, and all but the last one given
\* are in the list.
Identified ==
  /\ \A c, d \in Cpus : vm_id[c] # None /\ vm_id[c] = vm_id[d] => c = d
  /\ \A c \in Cpus : Pending(c) => vm_id[c] = Len(VM_LIST) /\ NEXT_VM_ID = Len(VM_LIST) + 1
  /\ (\A c \in Cpus : ~Pending(c)) => NEXT_VM_ID = Len(VM_LIST)
  /\ \A c \in Cpus : vm_id[c] # None /\ ~Pending(c) => vm_id[c] < Len(VM_LIST)

\* Fourth: VM_LIST holds 0, 1, 2, ... and the active VM is one of them.
Listed ==
  /\ \A k \in 1 .. Len(VM_LIST) : VM_LIST[k] = k - 1
  /\ ACTIVE_VM # None => ACTIVE_VM < Len(VM_LIST)
  /\ pc[0] = "start" \/ tpidr_el2[0] # None => ACTIVE_VM # None

\* Fifth: as many identifiers are given as CPUs have one.
WithId == {c \in Cpus : vm_id[c] # None}
Counted == NEXT_VM_ID = Cardinality(WithId)

IInv == TypeOK /\ Exclusive /\ Local /\ Identified /\ Listed /\ Counted /\ MemoryAccounted

\* The membership test of switch_active_vm, in a list without gaps.
LEMMA InList ==
  ASSUME TypeOK, Listed, NEW n \in Nat
  PROVE  n \in Range(VM_LIST) <=> n < Len(VM_LIST)
<1>1. VM_LIST \in Seq(VmIds) /\ Len(VM_LIST) \in Nat /\ DOMAIN VM_LIST = 1 .. Len(VM_LIST)
  BY DEF TypeOK
<1>2. ASSUME n \in Range(VM_LIST) PROVE n < Len(VM_LIST)
  <2>1. PICK k \in DOMAIN VM_LIST : VM_LIST[k] = n
    BY <1>2 DEF Range
  <2> QED
    BY <1>1, <2>1 DEF Listed
<1>3. ASSUME n < Len(VM_LIST) PROVE n \in Range(VM_LIST)
  <2>1. n + 1 \in DOMAIN VM_LIST /\ VM_LIST[n + 1] = n
    BY <1>1, <1>3, SMTT(30) DEF Listed
  <2> QED
    BY <2>1 DEF Range
<1> QED
  BY <1>2, <1>3

\* Whoever enters or leaves create_vm, the lock keeps the others out.
LEMMA NextExclusive ==
  ASSUME TypeOK, Local, Exclusive, [Next]_vars
  PROVE  Exclusive'
<1> USE VmAssumption DEF TypeOK, Exclusive, Creating, InVm, Goto, creation, Cpus, Stages
<1>0. 0 \in Cpus /\ None \notin Cpus
  OBVIOUS
<1>1. ASSUME NEW c \in Cpus, core_main(c) PROVE Exclusive'
  BY <1>0, <1>1, Zenon DEF core_main
<1>2. ASSUME NEW c \in Cpus, AllocateRam(c) PROVE Exclusive'
  BY <1>0, <1>2, ZenonT(60) DEF AllocateRam
<1>3. ASSUME NEW c \in Cpus, TakeId(c) PROVE Exclusive'
  BY <1>0, <1>3, ZenonT(60) DEF TakeId
<1>4. ASSUME NEW c \in Cpus, BuildVm(c) PROVE Exclusive'
  BY <1>0, <1>4, ZenonT(60) DEF BuildVm
<1>5. ASSUME NEW c \in Cpus, AddToList(c) PROVE Exclusive'
  BY <1>0, <1>5, SMTT(30) DEF AddToList
<1>6. ASSUME NEW c \in Cpus, ActivateVm(c) PROVE Exclusive'
  BY <1>0, <1>6, ZenonT(60) DEF ActivateVm
<1>7. ASSUME NEW c \in Cpus, StartVm(c) PROVE Exclusive'
  <2>1. vm_id[c] # None
    BY <1>7 DEF StartVm, Local
  <2>2. CASE c = 0
    BY <1>0, <1>7, <2>1, <2>2 DEF StartVm
  <2>3. CASE c # 0
    BY <1>0, <1>7, <2>1, <2>3, SMTT(30) DEF StartVm
  <2> QED
    BY <2>2, <2>3
<1>8. ASSUME NEW c \in Cpus, RequestDisk(c) \/ LockDisk(c) \/ UnlockDisk(c) PROVE Exclusive'
  <2>1. CASE RequestDisk(c)
    BY <1>0, <2>1, SMTT(30) DEF RequestDisk
  <2>2. CASE LockDisk(c)
    BY <1>0, <2>2, SMTT(30) DEF LockDisk
  <2>3. CASE UnlockDisk(c)
    BY <1>0, <2>3, SMTT(30) DEF UnlockDisk
  <2> QED
    BY <1>8, <2>1, <2>2, <2>3
<1>9. ASSUME PressSwitchKey \/ (\E command \in Commands : TypeCommand(command)) \/ switch_vm
      PROVE  Exclusive'
  <2>1. UNCHANGED <<pc, VIRTIO_BLK, tpidr_el2>>
    BY <1>9 DEF PressSwitchKey, TypeCommand, switch_vm
  <2> QED
    BY <2>1
<1>10. CASE boot_vm
  <2>1. /\ pc[0] = "run" /\ UNCHANGED <<VIRTIO_BLK, tpidr_el2>>
        /\ pc' = [pc EXCEPT ![0] = "launch"] \/ pc' = [pc EXCEPT ![0] = "panic"]
    BY <1>10 DEF boot_vm
  <2>2. CASE pc' = [pc EXCEPT ![0] = "launch"]
    BY <1>0, <2>1, <2>2
  <2>3. CASE pc' = [pc EXCEPT ![0] = "panic"]
    BY <1>0, <2>1, <2>3
  <2> QED
    BY <2>1, <2>2, <2>3
<1>11. CASE launch_cpu
  <2>1. /\ pc[0] = "launch" /\ UNCHANGED <<VIRTIO_BLK, tpidr_el2>>
        /\ \/ pc' = [pc EXCEPT ![0] = "run"]
           \/ \E c \in Cpus \ {0} : pc[c] = "off" /\ pc' = [pc EXCEPT ![0] = "run", ![c] = "entry"]
    BY <1>11, Zenon DEF launch_cpu
  <2>2. CASE pc' = [pc EXCEPT ![0] = "run"]
    BY <1>0, <2>1, <2>2
  <2>3. ASSUME NEW c \in Cpus \ {0}, pc[c] = "off", pc' = [pc EXCEPT ![0] = "run", ![c] = "entry"]
        PROVE  Exclusive'
    BY <1>0, <2>1, <2>3, ZenonT(60)
  <2> QED
    BY <2>1, <2>2, <2>3, Zenon
<1>12. CASE UNCHANGED vars
  BY <1>12 DEF vars
<1> QED
  BY <1>1, <1>2, <1>3, <1>4, <1>5, <1>6, <1>7, <1>8, <1>9, <1>10, <1>11, <1>12, ZenonT(60)
     DEF Next, CreateVm, Console

\* The identifier of a CPU and its register follow its way through create_vm.
LEMMA NextLocal ==
  ASSUME TypeOK, Exclusive, Local, [Next]_vars
  PROVE  Local'
<1> USE DEF Local, InVm, Goto, creation
<1>0. /\ 0 \in Cpus /\ pc \in [Cpus -> Stages] /\ NEXT_VM_ID # None
      /\ vm_id \in [Cpus -> VmIds \cup {None}] /\ tpidr_el2 \in [Cpus -> VmIds \cup {None}]
  BY VmAssumption DEF TypeOK, Cpus
<1>1. ASSUME NEW c \in Cpus, core_main(c) PROVE Local'
  BY <1>0, <1>1 DEF core_main
<1>2. ASSUME NEW c \in Cpus, AllocateRam(c) PROVE Local'
  BY <1>0, <1>2 DEF AllocateRam
<1>3. ASSUME NEW c \in Cpus, TakeId(c) PROVE Local'
  <2>1. tpidr_el2[c] = None
    BY <1>3 DEF TakeId, Exclusive, Creating
  <2> QED
    BY <1>0, <1>3, <2>1 DEF TakeId
<1>4. ASSUME NEW c \in Cpus, BuildVm(c) PROVE Local'
  BY <1>0, <1>4 DEF BuildVm
<1>5. ASSUME NEW c \in Cpus, AddToList(c) PROVE Local'
  BY <1>0, <1>5 DEF AddToList
<1>6. ASSUME NEW c \in Cpus, ActivateVm(c) PROVE Local'
  BY <1>0, <1>6 DEF ActivateVm
<1>7. ASSUME NEW c \in Cpus, StartVm(c) PROVE Local'
  BY <1>0, <1>7 DEF StartVm
<1>8. ASSUME NEW c \in Cpus, RequestDisk(c) \/ LockDisk(c) \/ UnlockDisk(c) PROVE Local'
  <2>1. /\ pc[c] \in {"run", "wait", "io"} /\ UNCHANGED creation
        /\ \E stage \in {"run", "wait", "io"} : pc' = [pc EXCEPT ![c] = stage]
    BY <1>8 DEF RequestDisk, LockDisk, UnlockDisk
  <2> QED
    BY <1>0, <2>1
<1>9. CASE PressSwitchKey \/ (\E command \in Commands : TypeCommand(command)) \/ switch_vm
  <2>1. UNCHANGED <<pc, creation>>
    BY <1>9 DEF PressSwitchKey, TypeCommand, switch_vm
  <2> QED
    BY <2>1
<1>10. CASE boot_vm
  <2>1. /\ pc[0] = "run" /\ UNCHANGED creation
        /\ \E stage \in {"launch", "panic"} : pc' = [pc EXCEPT ![0] = stage]
    BY <1>10 DEF boot_vm
  <2> QED
    BY <1>0, <2>1
<1>11. CASE launch_cpu
  <2>1. /\ pc[0] = "launch" /\ UNCHANGED creation
        /\ \/ pc' = [pc EXCEPT ![0] = "run"]
           \/ \E c \in Cpus \ {0} : pc[c] = "off" /\ pc' = [pc EXCEPT ![0] = "run", ![c] = "entry"]
    BY <1>11, ZenonT(60) DEF launch_cpu
  <2> QED
    BY <1>0, <2>1
<1>12. CASE UNCHANGED vars
  BY <1>12 DEF vars
<1> QED
  BY <1>1, <1>2, <1>3, <1>4, <1>5, <1>6, <1>7, <1>8, <1>9, <1>10, <1>11, <1>12
     DEF Next, CreateVm, Console

\* A step that gives no identifier and adds nothing to the list keeps the third part.
LEMMA KeepsIdentified ==
  ASSUME Identified, UNCHANGED <<vm_id, VM_LIST, NEXT_VM_ID>>,
         \A d \in Cpus : Pending(d)' <=> Pending(d)
  PROVE  Identified'
<1> QED
  BY DEF Identified

\* TakeId gives an identifier when no other is pending, AddToList lists the pending one.
LEMMA NextIdentified ==
  ASSUME TypeOK, Exclusive, Local, Identified, [Next]_vars
  PROVE  Identified'
<1> USE DEF Goto, creation
<1>0. /\ 0 \in Cpus /\ pc \in [Cpus -> Stages] /\ NEXT_VM_ID \in Nat /\ None \notin Nat
      /\ vm_id \in [Cpus -> VmIds \cup {None}] /\ tpidr_el2 \in [Cpus -> VmIds \cup {None}]
      /\ VM_LIST \in Seq(VmIds) /\ VmIds \subseteq Nat /\ Len(VM_LIST) \in Nat
  BY VmAssumption DEF TypeOK, Cpus, VmIds
<1>1. ASSUME NEW c \in Cpus, core_main(c) PROVE Identified'
  BY <1>0, <1>1, KeepsIdentified DEF core_main, Pending
<1>2. ASSUME NEW c \in Cpus, AllocateRam(c) PROVE Identified'
  <2>1. vm_id[c] = None
    BY <1>2 DEF AllocateRam, Local
  <2> QED
    BY <1>0, <1>2, <2>1, KeepsIdentified DEF AllocateRam, Pending
<1>3. ASSUME NEW c \in Cpus, TakeId(c) PROVE Identified'
  <2>1. \A d \in Cpus : ~Pending(d)
    <3>1. CASE c = 0
      BY <1>0, <1>3, <3>1 DEF TakeId, Pending, Exclusive, Creating, Local
    <3>2. CASE c # 0
      BY <1>0, <1>3, <3>2 DEF TakeId, Pending, Exclusive, Creating
    <3> QED
      BY <3>1, <3>2
  <2>2. Pending(c)' /\ \A d \in Cpus \ {c} : ~Pending(d)'
    BY <1>0, <1>3, <2>1 DEF TakeId, Pending
  <2>3. \A d \in Cpus : vm_id[d] # None => vm_id[d] < NEXT_VM_ID
    BY <2>1 DEF Identified
  <2> QED
    BY <1>0, <1>3, <2>1, <2>2, <2>3 DEF TakeId, Identified
<1>4. ASSUME NEW c \in Cpus, BuildVm(c) PROVE Identified'
  <2>1. vm_id[c] # None /\ tpidr_el2[c] = None
    BY <1>4 DEF BuildVm, Local, Exclusive, Creating
  <2> QED
    BY <1>0, <1>4, <2>1, KeepsIdentified DEF BuildVm, Pending
<1>5. ASSUME NEW c \in Cpus, AddToList(c) PROVE Identified'
  <2>1. \A d \in Cpus \ {c} : ~Pending(d)
    <3>1. CASE c = 0
      BY <1>0, <1>5, <3>1 DEF AddToList, Pending, Exclusive, Creating
    <3>2. CASE c # 0
      BY <1>0, <1>5, <3>2 DEF AddToList, Pending, Exclusive, Creating
    <3> QED
      BY <3>1, <3>2
  <2>2. \A d \in Cpus : ~Pending(d)'
    BY <1>0, <1>5, <2>1 DEF AddToList, Pending
  <2>3. vm_id[c] = Len(VM_LIST) /\ NEXT_VM_ID = Len(VM_LIST) + 1
    BY <1>5 DEF AddToList, Identified, Pending
  <2>4. Len(VM_LIST') = Len(VM_LIST) + 1
    BY <1>0, <1>5, <2>3 DEF AddToList
  <2>5. \A d \in Cpus : vm_id[d] # None => vm_id[d] < Len(VM_LIST) + 1
    BY <1>0, <2>1, <2>3, SMTT(30) DEF Identified
  <2>6. UNCHANGED <<vm_id, NEXT_VM_ID>>
    BY <1>5 DEF AddToList
  <2> QED
    BY <2>2, <2>3, <2>4, <2>5, <2>6 DEF Identified
<1>6. ASSUME NEW c \in Cpus, ActivateVm(c) PROVE Identified'
  BY <1>0, <1>6, KeepsIdentified DEF ActivateVm, Pending
<1>7. ASSUME NEW c \in Cpus, StartVm(c) PROVE Identified'
  BY <1>0, <1>7, KeepsIdentified DEF StartVm, Pending
<1>8. ASSUME NEW c \in Cpus, RequestDisk(c) \/ LockDisk(c) \/ UnlockDisk(c) PROVE Identified'
  <2>1. /\ pc[c] \in {"run", "wait", "io"} /\ UNCHANGED creation
        /\ \E stage \in {"run", "wait", "io"} : pc' = [pc EXCEPT ![c] = stage]
    BY <1>8 DEF RequestDisk, LockDisk, UnlockDisk
  <2> QED
    BY <1>0, <2>1, KeepsIdentified DEF Pending
<1>9. CASE PressSwitchKey \/ (\E command \in Commands : TypeCommand(command)) \/ switch_vm
  <2>1. UNCHANGED <<pc, creation>>
    BY <1>9 DEF PressSwitchKey, TypeCommand, switch_vm
  <2> QED
    BY <2>1, KeepsIdentified DEF Pending
<1>10. CASE boot_vm
  <2>1. /\ pc[0] = "run" /\ UNCHANGED creation
        /\ \E stage \in {"launch", "panic"} : pc' = [pc EXCEPT ![0] = stage]
    BY <1>10 DEF boot_vm
  <2>2. tpidr_el2[0] # None
    BY <1>0, <2>1 DEF Exclusive, InVm
  <2> QED
    BY <1>0, <2>1, <2>2, KeepsIdentified DEF Pending
<1>11. CASE launch_cpu
  <2>1. /\ pc[0] = "launch" /\ UNCHANGED creation
        /\ \/ pc' = [pc EXCEPT ![0] = "run"]
           \/ \E c \in Cpus \ {0} : pc[c] = "off" /\ pc' = [pc EXCEPT ![0] = "run", ![c] = "entry"]
    BY <1>11, Zenon DEF launch_cpu
  <2>2. CASE pc' = [pc EXCEPT ![0] = "run"]
    BY <1>0, <2>1, <2>2, KeepsIdentified DEF Pending
  <2>3. ASSUME NEW c \in Cpus \ {0}, pc[c] = "off", pc' = [pc EXCEPT ![0] = "run", ![c] = "entry"]
        PROVE  Identified'
    BY <1>0, <2>1, <2>3, KeepsIdentified DEF Pending
  <2> QED
    BY <2>1, <2>2, <2>3
<1>12. CASE UNCHANGED vars
  BY <1>12, KeepsIdentified DEF vars, Pending
<1> QED
  BY <1>1, <1>2, <1>3, <1>4, <1>5, <1>6, <1>7, <1>8, <1>9, <1>10, <1>11, <1>12
     DEF Next, CreateVm, Console

\* The list grows by the next number, and switch_active_vm sets listed VMs only.
LEMMA NextListed ==
  ASSUME TypeOK, Exclusive, Local, Identified, Listed, [Next]_vars
  PROVE  Listed'
<1> USE DEF Goto, creation
<1>0. /\ 0 \in Cpus /\ pc \in [Cpus -> Stages] /\ None \notin Nat
      /\ vm_id \in [Cpus -> VmIds \cup {None}] /\ tpidr_el2 \in [Cpus -> VmIds \cup {None}]
      /\ VM_LIST \in Seq(VmIds) /\ VmIds \subseteq Nat /\ Len(VM_LIST) \in Nat
      /\ ACTIVE_VM \in VmIds \cup {None}
  BY VmAssumption DEF TypeOK, Cpus, VmIds
<1>1. ASSUME NEW n \in VmIds, switch_active_vm(n)
      PROVE  ACTIVE_VM' = IF n < Len(VM_LIST) THEN n ELSE ACTIVE_VM
  BY <1>0, <1>1, InList DEF switch_active_vm
<1>2. ASSUME UNCHANGED <<VM_LIST, ACTIVE_VM>>, pc'[0] = "start" => pc[0] = "start",
             tpidr_el2'[0] # None => tpidr_el2[0] # None \/ pc[0] = "start"
      PROVE  Listed'
  BY <1>2 DEF Listed
<1>3. ASSUME NEW c \in Cpus, core_main(c) \/ AllocateRam(c) \/ TakeId(c) \/ BuildVm(c)
      PROVE  Listed'
  BY <1>0, <1>2, <1>3 DEF core_main, AllocateRam, TakeId, BuildVm
<1>4. ASSUME NEW c \in Cpus, AddToList(c) PROVE Listed'
  <2>1. vm_id[c] = Len(VM_LIST) /\ vm_id[c] \in VmIds
    BY <1>0, <1>4 DEF AddToList, Identified, Pending
  <2>2. VM_LIST' = Append(VM_LIST, Len(VM_LIST)) /\ ACTIVE_VM' = ACTIVE_VM
    BY <1>4, <2>1 DEF AddToList
  <2>3. Len(VM_LIST') = Len(VM_LIST) + 1 /\ \A k \in 1 .. Len(VM_LIST') : VM_LIST'[k] = k - 1
    BY <1>0, <2>1, <2>2 DEF Listed
  <2>4. ACTIVE_VM' # None => ACTIVE_VM' < Len(VM_LIST')
    BY <1>0, <2>2, <2>3 DEF Listed
  <2>5. pc'[0] = "start" \/ tpidr_el2'[0] # None => ACTIVE_VM' # None
    BY <1>0, <1>4 DEF AddToList, Listed
  <2> QED
    BY <2>3, <2>4, <2>5 DEF Listed
<1>5. ASSUME NEW c \in Cpus, ActivateVm(c) PROVE Listed'
  <2>1. vm_id[c] < Len(VM_LIST) /\ vm_id[c] \in VmIds
    BY <1>0, <1>5 DEF ActivateVm, Local, Identified, Pending
  <2>2. ACTIVE_VM' = vm_id[c] /\ VM_LIST' = VM_LIST
    BY <1>1, <1>5, <2>1 DEF ActivateVm
  <2> QED
    BY <1>0, <2>1, <2>2 DEF Listed
<1>6. ASSUME NEW c \in Cpus, StartVm(c) \/ RequestDisk(c) \/ LockDisk(c) \/ UnlockDisk(c)
      PROVE  Listed'
  BY <1>0, <1>2, <1>6 DEF StartVm, RequestDisk, LockDisk, UnlockDisk
<1>7. CASE switch_vm
  <2>1. PICK n \in VmIds : switch_active_vm(n)
    BY <1>7 DEF switch_vm
  <2>2. UNCHANGED <<pc, VM_LIST, tpidr_el2>>
    BY <1>7 DEF switch_vm
  <2> QED
    BY <1>0, <1>1, <2>1, <2>2 DEF Listed
<1>8. CASE PressSwitchKey \/ (\E command \in Commands : TypeCommand(command)) \/ boot_vm \/ launch_cpu
  BY <1>0, <1>2, <1>8 DEF PressSwitchKey, TypeCommand, boot_vm, launch_cpu
<1>9. CASE UNCHANGED vars
  BY <1>2, <1>9 DEF vars
<1> QED
  BY <1>3, <1>4, <1>5, <1>6, <1>7, <1>8, <1>9 DEF Next, CreateVm, Console

\* CPUs can be counted.
LEMMA CpusFinite ==
  /\ IsFiniteSet(Cpus) /\ Cardinality(Cpus) = NumCpus
  /\ \A S \in SUBSET Cpus : IsFiniteSet(S) /\ Cardinality(S) \in Nat
<1>0. 0 \in Int /\ NumCpus - 1 \in Int /\ 0 <= NumCpus - 1
  BY VmAssumption
<1>1. IsFiniteSet(Cpus) /\ Cardinality(Cpus) = (NumCpus - 1) - 0 + 1
  BY <1>0, FS_Interval DEF Cpus
<1>2. \A S \in SUBSET Cpus : IsFiniteSet(S)
  BY <1>1, FS_Subset
<1> QED
  BY <1>1, <1>2, FS_CardinalityType, VmAssumption

\* Which variable is written by which operations.
LEMMA WrittenBy ==
  ASSUME [Next]_vars
  PROVE  /\ UNCHANGED memory \/ boot_vm \/ launch_cpu \/ \E c \in Cpus : AllocateRam(c)
         /\ UNCHANGED <<vm_id, NEXT_VM_ID>> \/ \E c \in Cpus : TakeId(c)
         /\ UNCHANGED VM_LIST \/ \E c \in Cpus : AddToList(c)
         /\ UNCHANGED ACTIVE_VM \/ switch_vm \/ \E c \in Cpus : ActivateVm(c)
         /\ UNCHANGED tpidr_el2 \/ \E c \in Cpus : StartVm(c)
         /\ UNCHANGED io \/ \E c \in Cpus : RequestDisk(c)
         /\ \/ UNCHANGED VIRTIO_BLK
            \/ \E c \in Cpus : core_main(c) \/ StartVm(c) \/ LockDisk(c) \/ UnlockDisk(c)
         /\ \/ UNCHANGED console
            \/ PressSwitchKey \/ switch_vm \/ launch_cpu \/ \E x \in Commands : TypeCommand(x)
<1>1. ASSUME NEW c \in Cpus, CreateVm(c) \/ RequestDisk(c) \/ LockDisk(c) \/ UnlockDisk(c)
      PROVE  /\ UNCHANGED memory \/ AllocateRam(c)
             /\ UNCHANGED <<vm_id, NEXT_VM_ID>> \/ TakeId(c)
             /\ UNCHANGED VM_LIST \/ AddToList(c)
             /\ UNCHANGED ACTIVE_VM \/ ActivateVm(c)
             /\ UNCHANGED tpidr_el2 \/ StartVm(c)
             /\ UNCHANGED io \/ RequestDisk(c)
             /\ UNCHANGED VIRTIO_BLK \/ core_main(c) \/ StartVm(c) \/ LockDisk(c) \/ UnlockDisk(c)
             /\ UNCHANGED console
  BY <1>1 DEF CreateVm, core_main, AllocateRam, TakeId, BuildVm, AddToList, ActivateVm, StartVm,
     RequestDisk, LockDisk, UnlockDisk, creation
<1>2. CASE Console
  BY <1>2, Zenon DEF Console, PressSwitchKey, TypeCommand, switch_vm, boot_vm, launch_cpu, creation
<1>3. CASE UNCHANGED vars
  BY <1>3 DEF vars, creation
<1> QED
  BY <1>1, <1>2, <1>3, SMTT(30) DEF Next

\* An identifier is given to a CPU that has none.
LEMMA NextCounted ==
  ASSUME TypeOK, Local, Counted, [Next]_vars
  PROVE  Counted'
<1>1. ASSUME NEW c \in Cpus, TakeId(c) PROVE Counted'
  <2>1. c \notin WithId /\ WithId' = WithId \cup {c}
    BY <1>1, VmAssumption DEF TakeId, Local, WithId, TypeOK
  <2>2. IsFiniteSet(WithId)
    BY CpusFinite DEF WithId
  <2>3. Cardinality(WithId') = Cardinality(WithId) + 1
    BY <2>1, <2>2, FS_AddElement
  <2> QED
    BY <1>1, <2>3 DEF TakeId, Counted
<1>2. CASE UNCHANGED <<vm_id, NEXT_VM_ID>>
  BY <1>2 DEF Counted, WithId
<1> QED
  BY <1>1, <1>2, WrittenBy

\* CPUs that were started, and CPUs whose VM has its RAM.
Started == {c \in Cpus \ {0} : pc[c] # "off"}
WithRam == {c \in Cpus : vm_id[c] # None \/ pc[c] = "id"}
Stacks == Cardinality(Started) + (IF pc[0] = "launch" THEN 1 ELSE 0)
Rams == Cardinality(WithRam)

\* Memory moves between the allocator, the stacks and the VMs.
LEMMA NextAccounted ==
  ASSUME TypeOK, Exclusive, Local, MemoryAccounted, [Next]_vars
  PROVE  MemoryAccounted'
<1> USE DEF Goto, creation
<1>0. /\ 0 \in Cpus /\ pc \in [Cpus -> Stages] /\ NEXT_VM_ID # None
      /\ vm_id \in [Cpus -> VmIds \cup {None}]
      /\ memory \in Nat /\ StackSize \in Nat /\ RamSize \in Nat /\ Memory \in Nat
  BY VmAssumption DEF TypeOK, Cpus
<1>1. /\ IsFiniteSet(Started) /\ IsFiniteSet(WithRam)
      /\ Cardinality(Started) \in Nat /\ Rams \in Nat /\ Stacks \in Nat
  <2>1. Started \in SUBSET Cpus /\ WithRam \in SUBSET Cpus
    BY DEF Started, WithRam
  <2> QED
    BY <2>1, CpusFinite DEF Rams, Stacks
<1>2. memory + Stacks * StackSize + Rams * RamSize = Memory
  BY DEF MemoryAccounted, Stacks, Rams, Started, WithRam
<1>3. ASSUME memory' + Stacks' * StackSize + Rams' * RamSize = Memory PROVE MemoryAccounted'
  BY <1>3 DEF MemoryAccounted, Stacks, Rams, Started, WithRam
<1>4. ASSUME UNCHANGED memory, Started' = Started, WithRam' = WithRam,
             pc'[0] = "launch" <=> pc[0] = "launch"
      PROVE  MemoryAccounted'
  BY <1>2, <1>3, <1>4 DEF Stacks, Rams
<1>5. \A n \in Nat : /\ (n + 1) * StackSize = n * StackSize + StackSize
                     /\ (n + 1) * RamSize = n * RamSize + RamSize
                     /\ n * StackSize \in Nat /\ n * RamSize \in Nat
  BY <1>0
<1>6. ASSUME NEW c \in Cpus,
             \/ core_main(c) \/ TakeId(c) \/ BuildVm(c) \/ AddToList(c) \/ ActivateVm(c)
             \/ StartVm(c) \/ RequestDisk(c) \/ LockDisk(c) \/ UnlockDisk(c)
      PROVE  MemoryAccounted'
  <2>1. /\ UNCHANGED memory /\ pc[c] \notin {"off", "launch"}
        /\ \E stage \in Stages \ {"off", "id", "launch"} : pc' = [pc EXCEPT ![c] = stage]
        /\ \/ UNCHANGED vm_id /\ pc[c] # "id"
           \/ pc[c] = "id" /\ vm_id' = [vm_id EXCEPT ![c] = NEXT_VM_ID]
    BY <1>6 DEF core_main, TakeId, BuildVm, AddToList, ActivateVm, StartVm, RequestDisk, LockDisk,
                UnlockDisk, Stages
  <2>2. Started' = Started /\ (pc'[0] = "launch" <=> pc[0] = "launch")
    BY <1>0, <2>1 DEF Started
  <2>3. WithRam' = WithRam
    BY <1>0, <2>1 DEF WithRam
  <2> QED
    BY <1>4, <2>1, <2>2, <2>3, SMTT(30)
<1>7. ASSUME NEW c \in Cpus, AllocateRam(c) PROVE MemoryAccounted'
  <2>1. /\ pc[c] = "alloc" /\ vm_id[c] = None /\ UNCHANGED vm_id
        /\ \/ memory >= RamSize /\ memory' = memory - RamSize /\ pc' = [pc EXCEPT ![c] = "id"]
           \/ UNCHANGED memory /\ pc' = [pc EXCEPT ![c] = "panic"]
    BY <1>7 DEF AllocateRam, Local
  <2>2. Started' = Started /\ (pc'[0] = "launch" <=> pc[0] = "launch")
    BY <1>0, <2>1 DEF Started
  <2>3. CASE memory' = memory - RamSize /\ pc' = [pc EXCEPT ![c] = "id"]
    <3>1. WithRam' = WithRam \cup {c} /\ c \notin WithRam
      BY <1>0, <2>1, <2>3 DEF WithRam
    <3>2. Rams' = Rams + 1
      BY <1>1, <3>1, FS_AddElement, ZenonT(60) DEF Rams
    <3>3. Rams' * RamSize = Rams * RamSize + RamSize /\ Stacks' = Stacks
      BY <1>1, <1>5, <2>2, <3>2 DEF Stacks
    <3> QED
      BY <1>0, <1>1, <1>2, <1>3, <1>5, <2>3, <3>3
  <2>4. CASE UNCHANGED memory /\ pc' = [pc EXCEPT ![c] = "panic"]
    <3>1. WithRam' = WithRam
      BY <1>0, <2>1, <2>4 DEF WithRam
    <3> QED
      BY <1>4, <2>2, <2>4, <3>1
  <2> QED
    BY <2>1, <2>3, <2>4
<1>8. CASE PressSwitchKey \/ (\E command \in Commands : TypeCommand(command)) \/ switch_vm
  <2>1. UNCHANGED <<pc, creation, memory>>
    BY <1>8 DEF PressSwitchKey, TypeCommand, switch_vm
  <2> QED
    BY <1>4, <2>1 DEF Started, WithRam
<1>9. CASE boot_vm
  <2>1. /\ pc[0] = "run" /\ UNCHANGED vm_id
        /\ \/ memory >= StackSize /\ memory' = memory - StackSize /\ pc' = [pc EXCEPT ![0] = "launch"]
           \/ UNCHANGED memory /\ pc' = [pc EXCEPT ![0] = "panic"]
    BY <1>9 DEF boot_vm
  <2>2. Started' = Started /\ WithRam' = WithRam
    BY <1>0, <2>1 DEF Started, WithRam
  <2>3. CASE memory' = memory - StackSize /\ pc' = [pc EXCEPT ![0] = "launch"]
    <3>1. Stacks' = Stacks + 1 /\ Rams' = Rams
      BY <1>0, <1>1, <2>1, <2>2, <2>3 DEF Stacks, Rams
    <3>2. Stacks' * StackSize = Stacks * StackSize + StackSize
      BY <1>1, <1>5, <3>1
    <3> QED
      BY <1>0, <1>1, <1>2, <1>3, <1>5, <2>3, <3>1, <3>2
  <2>4. CASE UNCHANGED memory /\ pc' = [pc EXCEPT ![0] = "panic"]
    BY <1>0, <1>4, <2>1, <2>2, <2>4
  <2> QED
    BY <2>1, <2>3, <2>4
<1>10. CASE launch_cpu
  <2>1. /\ pc[0] = "launch" /\ UNCHANGED vm_id
        /\ \/ memory' = memory + StackSize /\ pc' = [pc EXCEPT ![0] = "run"]
           \/ /\ UNCHANGED memory
              /\ \E c \in Cpus \ {0} : pc[c] = "off" /\ pc' = [pc EXCEPT ![0] = "run", ![c] = "entry"]
    BY <1>10, Zenon DEF launch_cpu
  <2>2. WithRam' = WithRam /\ pc'[0] = "run"
    BY <1>0, <2>1 DEF WithRam
  <2>3. CASE memory' = memory + StackSize /\ pc' = [pc EXCEPT ![0] = "run"]
    <3>1. Started' = Started
      BY <1>0, <2>1, <2>3 DEF Started
    <3>2. Stacks = Stacks' + 1 /\ Stacks' \in Nat /\ Rams' = Rams
      BY <1>1, <2>1, <2>2, <3>1 DEF Stacks, Rams
    <3>3. Stacks * StackSize = Stacks' * StackSize + StackSize
      BY <1>5, <3>2
    <3>4. /\ Stacks' * StackSize \in Nat /\ Rams * RamSize \in Nat
          /\ Rams' * RamSize = Rams * RamSize
      BY <1>1, <1>5, <3>2
    <3> QED
      BY <1>0, <1>2, <1>3, <2>3, <3>3, <3>4
  <2>4. ASSUME UNCHANGED memory, NEW c \in Cpus \ {0}, pc[c] = "off",
               pc' = [pc EXCEPT ![0] = "run", ![c] = "entry"]
        PROVE  MemoryAccounted'
    <3>1. Started' = Started \cup {c} /\ c \notin Started
      BY <1>0, <2>4 DEF Started
    <3>2. Cardinality(Started') = Cardinality(Started) + 1
      BY <1>1, <3>1, FS_AddElement, ZenonT(60)
    <3>3. Stacks' = Stacks /\ Rams' = Rams
      BY <1>1, <2>1, <2>2, <3>2 DEF Stacks, Rams
    <3> QED
      BY <1>2, <1>3, <2>4, <3>3
  <2> QED
    BY <2>1, <2>3, <2>4
<1>11. CASE UNCHANGED vars
  BY <1>4, <1>11 DEF vars, Started, WithRam
<1> QED
  BY <1>6, <1>7, <1>8, <1>9, <1>10, <1>11 DEF Next, CreateVm, Console

\* No CPU takes two identifiers, so NEXT_VM_ID stays in range; and no more memory is
\* free than there was at first.
LEMMA NextTypeOK ==
  ASSUME IInv, [Next]_vars, MemoryAccounted'
  PROVE  TypeOK'
<1> USE DEF Goto
<1>0. 0 \in Cpus /\ TypeOK /\ NumCpus \in Nat
  BY VmAssumption DEF IInv, Cpus
<1>1. NEXT_VM_ID' \in 0 .. NumCpus /\ vm_id' \in [Cpus -> VmIds \cup {None}]
  <2>1. ASSUME NEW c \in Cpus, TakeId(c)
        PROVE  NEXT_VM_ID' \in 0 .. NumCpus /\ vm_id' \in [Cpus -> VmIds \cup {None}]
    <3>1. c \notin WithId /\ WithId \in SUBSET Cpus
      BY <2>1 DEF TakeId, Local, WithId, IInv
    <3>2. Cardinality(WithId) <= NumCpus /\ Cardinality(WithId) # NumCpus
      BY <3>1, CpusFinite, FS_Subset
    <3>3. NEXT_VM_ID \in VmIds
      BY <1>0, <3>2 DEF IInv, Counted, TypeOK, VmIds
    <3> QED
      BY <1>0, <2>1, <3>3 DEF TakeId, TypeOK, VmIds
  <2>2. CASE UNCHANGED <<vm_id, NEXT_VM_ID>>
    BY <1>0, <2>2 DEF TypeOK
  <2> QED
    BY <2>1, <2>2, WrittenBy
<1>2. pc' \in [Cpus -> Stages]
  <2>0. pc \in [Cpus -> Stages]
    BY <1>0 DEF TypeOK
  <2>1. ASSUME NEW c \in Cpus, CreateVm(c) PROVE \E s \in Stages : pc' = [pc EXCEPT ![c] = s]
    BY <2>1 DEF CreateVm, core_main, AllocateRam, TakeId, BuildVm, AddToList, ActivateVm, StartVm,
       Stages
  <2>2. ASSUME NEW c \in Cpus, RequestDisk(c) \/ LockDisk(c) \/ UnlockDisk(c)
        PROVE  \E s \in Stages : pc' = [pc EXCEPT ![c] = s]
    BY <2>2 DEF RequestDisk, LockDisk, UnlockDisk, Stages
  <2>3. CASE Console
    <3>1. CASE boot_vm
      BY <1>0, <2>0, <3>1 DEF boot_vm, Stages
    <3>2. CASE launch_cpu
      BY <1>0, <2>0, <3>2, Zenon DEF launch_cpu, Stages
    <3>3. CASE PressSwitchKey \/ switch_vm \/ \E x \in Commands : TypeCommand(x)
      BY <2>0, <3>3 DEF PressSwitchKey, switch_vm, TypeCommand, creation
    <3> QED
      BY <2>3, <3>1, <3>2, <3>3 DEF Console
  <2>4. CASE UNCHANGED vars
    BY <2>0, <2>4 DEF vars, creation
  <2> QED
    BY <2>0, <2>1, <2>2, <2>3, <2>4 DEF Next
<1>3. memory' \in 0 .. Memory
  <2>1. memory' \in Nat
    <3>1. memory \in Nat /\ StackSize \in Nat /\ RamSize \in Nat
      BY <1>0, VmAssumption DEF TypeOK
    <3>2. CASE boot_vm
      BY <3>1, <3>2 DEF boot_vm
    <3>3. CASE launch_cpu
      <4>1. memory' = memory \/ memory' = memory + StackSize
        BY <3>3, ZenonT(60) DEF launch_cpu
      <4> QED
        BY <3>1, <4>1
    <3>4. ASSUME NEW c \in Cpus, AllocateRam(c) PROVE memory' \in Nat
      BY <3>1, <3>4 DEF AllocateRam
    <3> QED
      BY <3>1, <3>2, <3>3, <3>4, WrittenBy
  <2>2. Started' \in SUBSET Cpus /\ WithRam' \in SUBSET Cpus
    BY DEF Started, WithRam
  <2>3. Stacks' \in Nat /\ Rams' \in Nat
    BY <2>2, CpusFinite DEF Stacks, Rams
  <2>4. memory' + Stacks' * StackSize + Rams' * RamSize = Memory
    BY DEF MemoryAccounted, Stacks, Rams, Started, WithRam
  <2>5. Stacks' * StackSize \in Nat /\ Rams' * RamSize \in Nat
    BY <2>3, VmAssumption
  <2> QED
    BY <2>1, <2>4, <2>5, VmAssumption
<1>4. VIRTIO_BLK' \in Cpus \cup {None}
  BY <1>0, WrittenBy DEF TypeOK, core_main, StartVm, LockDisk, UnlockDisk
<1>5. VM_LIST' \in Seq(VmIds)
  <2>1. ASSUME NEW c \in Cpus, AddToList(c) PROVE VM_LIST' \in Seq(VmIds)
    <3>1. vm_id[c] \in VmIds
      BY <1>0, <2>1, SMTT(30) DEF AddToList, IInv, Local, TypeOK
    <3> QED
      BY <1>0, <2>1, <3>1 DEF AddToList, TypeOK
  <2> QED
    BY <1>0, <2>1, WrittenBy DEF TypeOK
<1>6. ACTIVE_VM' \in VmIds \cup {None}
  BY <1>0, WrittenBy, ZenonT(60) DEF TypeOK, ActivateVm, switch_vm, switch_active_vm
<1>7. tpidr_el2' \in [Cpus -> VmIds \cup {None}]
  BY <1>0, WrittenBy, Zenon DEF TypeOK, StartVm
<1>8. io' \in [Cpus -> 0 .. MaxIo]
  <2>1. ASSUME NEW c \in Cpus, RequestDisk(c) PROVE io' \in [Cpus -> 0 .. MaxIo]
    BY <1>0, <2>1, VmAssumption, SMTT(30) DEF TypeOK, RequestDisk
  <2> QED
    BY <1>0, <2>1, WrittenBy DEF TypeOK
<1>9. IS_CONSOLE_ACTIVE' \in BOOLEAN /\ buffer' \in Commands \cup {None}
  BY <1>0, WrittenBy, Zenon DEF TypeOK, console, PressSwitchKey, TypeCommand, switch_vm, launch_cpu,
     ToggleConsole, EndCommand
<1> QED
  BY <1>1, <1>2, <1>3, <1>4, <1>5, <1>6, <1>7, <1>8, <1>9 DEF TypeOK

\* main calls create_vm with no VM, no lock and all memory free.
LEMMA InitIInv == Init => IInv
<1> SUFFICES ASSUME Init PROVE IInv
  OBVIOUS
<1>0. 0 \in Cpus /\ {} \in SUBSET Cpus /\ None \notin Nat /\ Memory \in Nat
      /\ StackSize \in Nat /\ RamSize \in Nat /\ MaxIo \in Nat /\ NumCpus \in Nat
  BY VmAssumption DEF Cpus
<1>1. TypeOK
  BY <1>0 DEF Init, TypeOK, Stages
<1>2. Exclusive /\ Local
  BY <1>0 DEF Init, Exclusive, Local, Creating, InVm
<1>3. Identified /\ Listed
  BY <1>0 DEF Init, Identified, Listed, Pending
<1>4. WithId = {} /\ Started = {} /\ WithRam = {}
  BY <1>0 DEF Init, WithId, Started, WithRam
<1>5. Counted
  BY <1>4, FS_EmptySet DEF Counted, Init
<1>6. Stacks = 0 /\ Rams = 0
  BY <1>0, <1>4, FS_EmptySet DEF Stacks, Rams, Init
<1>7. memory + Stacks * StackSize + Rams * RamSize = Memory
  BY <1>0, <1>6 DEF Init
<1>8. MemoryAccounted
  BY <1>7 DEF MemoryAccounted, Stacks, Rams, Started, WithRam
<1> QED
  BY <1>1, <1>2, <1>3, <1>5, <1>8 DEF IInv

\* The five parts together are kept by every step.
LEMMA VmInvariant == Spec => []IInv
<1>1. IInv /\ [Next]_vars => IInv'
  <2> SUFFICES ASSUME IInv, [Next]_vars PROVE IInv'
    OBVIOUS
  <2>1. MemoryAccounted'
    BY NextAccounted DEF IInv
  <2> QED
    BY <2>1, NextTypeOK, NextExclusive, NextLocal, NextIdentified, NextListed, NextCounted DEF IInv
<1> QED
  BY <1>1, InitIInv, PTL DEF Spec

\* VMs enter VM_LIST in the order of their identifiers and without a gap, however
\* many CPUs run create_vm at once.
THEOREM VmListIsDense == Spec => []VmListDense
<1>1. IInv => VmListDense
  <2> SUFFICES ASSUME IInv PROVE VmListDense
    OBVIOUS
  <2>1. NEXT_VM_ID \in {Len(VM_LIST), Len(VM_LIST) + 1}
    BY DEF IInv, Identified
  <2> QED
    BY <2>1 DEF IInv, Listed, VmListDense
<1> QED
  BY <1>1, VmInvariant, PTL

\* get_current_vm finds the VM of its CPU and no other, and get_active_vm finds a
\* VM, in every CPU that is past create_vm: the unwrap() of neither can fail.
THEOREM EveryCpuFindsItsVm == Spec => []OwnVm
<1>1. IInv => OwnVm
  <2> SUFFICES ASSUME IInv PROVE OwnVm
    OBVIOUS
  <2>0. TypeOK /\ Listed /\ 0 \in Cpus /\ VmIds \subseteq Nat /\ None \notin Nat
    BY VmAssumption DEF IInv, Cpus, VmIds
  <2>1. ASSUME NEW c \in Cpus, InVm(c)
        PROVE  /\ tpidr_el2[c] = vm_id[c]
               /\ vm_id[c] \in Range(VM_LIST)
               /\ \A d \in Cpus \ {c} : vm_id[d] # vm_id[c]
    <3>1. vm_id[c] # None /\ tpidr_el2[c] = vm_id[c] /\ ~Pending(c)
      BY <2>1 DEF IInv, Exclusive, Local, InVm, Pending
    <3>2. vm_id[c] \in Nat /\ vm_id[c] < Len(VM_LIST)
      BY <2>0, <3>1, ZenonT(60) DEF IInv, Identified, TypeOK
    <3> QED
      BY <2>0, <3>1, <3>2, InList DEF IInv, Identified
  <2>2. ASSUME InVm(0) PROVE ACTIVE_VM \in Range(VM_LIST)
    <3>1. ACTIVE_VM # None
      BY <2>0, <2>2 DEF IInv, Exclusive, Listed
    <3>2. ACTIVE_VM \in Nat /\ ACTIVE_VM < Len(VM_LIST)
      BY <2>0, <3>1 DEF Listed, TypeOK
    <3> QED
      BY <2>0, <3>2, InList
  <2> QED
    BY <2>0, <2>1, <2>2 DEF OwnVm
<1> QED
  BY <1>1, VmInvariant, PTL

\* No memory is lost by a "boot" that fails, and none is given back twice.
THEOREM NoMemoryLost == Spec => []MemoryAccounted
<1>1. IInv => MemoryAccounted
  BY DEF IInv
<1> QED
  BY <1>1, VmInvariant, PTL

\* No line of an earlier session of the console is executed.
THEOREM NoStaleCommand == Spec => []CommandOfThisSession
<1> DEFINE Fresh == IS_CONSOLE_ACTIVE \in BOOLEAN /\ CommandOfThisSession
<1>1. Init => Fresh
  BY Zenon DEF Init, CommandOfThisSession
<1>2. Fresh /\ [Next]_vars => Fresh'
  <2> SUFFICES ASSUME Fresh, [Next]_vars PROVE Fresh'
    OBVIOUS
  <2>1. CASE UNCHANGED console
    BY <2>1 DEF CommandOfThisSession, console
  <2>2. CASE PressSwitchKey
    BY <2>2, Zenon DEF PressSwitchKey, ToggleConsole, CommandOfThisSession
  <2>3. ASSUME NEW x \in Commands, TypeCommand(x) PROVE Fresh'
    BY <2>3 DEF TypeCommand, CommandOfThisSession
  <2>4. ASSUME NEW again \in BOOLEAN, EndCommand(again) PROVE Fresh'
    BY <2>4 DEF EndCommand, CommandOfThisSession
  <2>5. CASE switch_vm
    BY <2>4, <2>5, Zenon DEF switch_vm
  <2>6. CASE launch_cpu
    BY <2>4, <2>6, Zenon DEF launch_cpu
  <2> QED
    BY <2>1, <2>2, <2>3, <2>5, <2>6, WrittenBy
<1>3. Fresh => CommandOfThisSession
  OBVIOUS
<1> QED
  BY <1>1, <1>2, <1>3, PTL DEF Spec
=============================================================================
