--------------------------- MODULE SpinLockProofs ---------------------------
(* The safety properties of SpinLock, proved for every set of CPUs.         *)
EXTENDS SpinLock, TLAPS

Inside == {"cas", "retry", "held", "drop"}

\* The inductive invariant.  A level that has masked IRQs and not yet restored
\* them is the one its CPU runs; the flag is set while a guard is alive; and
\* DAIF, or the copy of it that the level keeps, is the mask the base code had.
IInv ==
  /\ TypeOK
  /\ MutualExclusion
  /\ \A c \in CPUs : \A x \in Levels :
       /\ Holds(c, x) => lock
       /\ pc[c][x] \in Inside => pstate[c] = "masked" /\ level[c] = x
  /\ \A c \in CPUs : level[c] = "base" =>
       /\ pc[c]["irq"] = "out"
       /\ pc[c]["base"] \in Inside => daif[c]["base"] = entry[c]
       /\ pc[c]["base"] \notin Inside => pstate[c] = entry[c]
  /\ \A c \in CPUs : level[c] = "irq" =>
       /\ pstate[c] = "masked" /\ entry[c] = "open"
       /\ pc[c]["irq"] \in Inside => daif[c]["irq"] = "masked"

\* Before any call of lock() nothing is held and every CPU has its own mask.
LEMMA InitIInv == Init => IInv
<1> SUFFICES ASSUME Init PROVE IInv
  OBVIOUS
<1>1. \A c \in CPUs : level[c] = "base" /\ \A x \in Levels : pc[c][x] = "out"
  BY Zenon DEF Init
<1>2. TypeOK
  BY Zenon DEF Init, TypeOK, Levels, Masks, Steps
<1>3. \A c \in CPUs : pstate[c] = entry[c]
  BY Zenon DEF Init
<1> QED
  BY <1>1, <1>2, <1>3 DEF IInv, MutualExclusion, Holds, Inside, Levels, Masks, Steps

\* Every access to the atomic or to DAIF in lock() and drop(), the entry of an
\* IRQ handler and its return preserve the invariant.
LEMMA NextIInv == IInv /\ [Next]_vars => IInv'
<1> SUFFICES ASSUME IInv, [Next]_vars PROVE IInv'
  OBVIOUS
<1> USE DEF IInv, TypeOK, MutualExclusion, Holds, Inside, Levels, Masks, Steps, At, Goto
<1>1. ASSUME NEW c \in CPUs, TakeIrq(c) PROVE IInv'
  BY <1>1 DEF TakeIrq
<1>2. ASSUME NEW c \in CPUs, ReturnFromIrq(c) PROVE IInv'
  BY <1>2 DEF ReturnFromIrq
<1>3. ASSUME NEW c \in CPUs, NEW x \in Levels, Call(c, x) PROVE IInv'
  BY <1>3 DEF Call
<1>4. ASSUME NEW c \in CPUs, NEW x \in Levels, SeeFree(c, x) PROVE IInv'
  BY <1>4 DEF SeeFree
<1>5. ASSUME NEW c \in CPUs, NEW x \in Levels, Mask(c, x) PROVE IInv'
  BY <1>5 DEF Mask
<1>6. ASSUME NEW c \in CPUs, NEW x \in Levels, CompareExchange(c, x) PROVE IInv'
  BY <1>6 DEF CompareExchange
<1>7. ASSUME NEW c \in CPUs, NEW x \in Levels, Retry(c, x) PROVE IInv'
  BY <1>7 DEF Retry
<1>8. ASSUME NEW c \in CPUs, NEW x \in Levels, Release(c, x) PROVE IInv'
  <2>1. \A d \in CPUs : \A y \in Levels : ~Holds(d, y)'
    BY <1>8 DEF Release
  <2>2. TypeOK'
    BY <1>8, Zenon DEF Release
  <2>3. MutualExclusion'
    BY <2>1
  <2> QED
    BY <1>8, <2>1, <2>2, <2>3 DEF Release
<1>9. ASSUME NEW c \in CPUs, NEW x \in Levels, RestoreDaif(c, x) PROVE IInv'
  BY <1>9 DEF RestoreDaif
<1>10. CASE UNCHANGED vars
  BY <1>10 DEF vars
<1> HIDE DEF IInv, TypeOK, MutualExclusion, Holds, Inside, Levels, Masks, Steps, At, Goto
<1> QED
  BY <1>1, <1>2, <1>3, <1>4, <1>5, <1>6, <1>7, <1>8, <1>9, <1>10
  DEF Next, Advance

\* The inductive invariant holds in every reachable state of the lock.
LEMMA SpecIInv == Spec => []IInv
  BY InitIInv, NextIInv, PTL DEF Spec

\* The lock word, the masks and the program counters keep their types.
THEOREM LockTypeOK == Spec => []TypeOK
<1>1. IInv => TypeOK
  BY DEF IInv
<1> QED
  BY <1>1, SpecIInv, PTL

\* Mutex::lock() hands out at most one guard at a time, for any number of CPUs.
THEOREM LockMutualExclusion == Spec => []MutualExclusion
<1>1. IInv => MutualExclusion
  BY DEF IInv
<1> QED
  BY <1>1, SpecIInv, PTL

\* No IRQ handler of its own CPU ever preempts the owner of a guard.
THEOREM LockHolderNotPreempted == Spec => []HolderNotPreempted
<1>1. IInv => HolderNotPreempted
  BY DEF IInv, HolderNotPreempted, Holds, Inside
<1> QED
  BY <1>1, SpecIInv, PTL

\* lock() followed by drop() leaves the interrupt mask of the caller as it was.
THEOREM LockDaifRestored == Spec => []DaifRestored
<1>1. IInv => DaifRestored
  BY DEF IInv, DaifRestored, At, Inside
<1> QED
  BY <1>1, SpecIInv, PTL
=============================================================================
