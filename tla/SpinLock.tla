------------------------------ MODULE SpinLock ------------------------------
(***************************************************************************)
(* The spin lock Mutex<T> of src/lock.rs, one instance of it, contended by *)
(* every CPU at two levels: code that runs at EL2 ("base") and the IRQ     *)
(* handler that may preempt it on the same CPU ("irq", reached through     *)
(* irq_current_el_stack_pointer_x of src/exception.rs whenever PSTATE does *)
(* not mask IRQs).  A step is one access to the atomic or to DAIF.         *)
(***************************************************************************)
CONSTANT CPUs          \* the physical CPUs

VARIABLES
  lock,       \* Mutex::lock, the AtomicBool
  pstate,     \* pstate[c]: the I and F bits of DAIF of CPU c
  level,      \* level[c]: what CPU c executes, "base" or "irq"
  pc,         \* pc[c][x]: where level x of CPU c stands in lock() or drop()
  daif,       \* daif[c][x]: the DAIF value that level holds (guard.daif)
  entry       \* entry[c]: DAIF of the base code outside the lock (ghost)

vars == <<lock, pstate, level, pc, daif, entry>>

Levels == {"base", "irq"}
Masks == {"open", "masked"}

\* outside; spinning on the load; about to mask; about to compare_exchange;
\* about to restore DAIF after a failure; guard alive; guard dropped but DAIF
\* not yet restored.
Steps == {"out", "spin", "mask", "cas", "retry", "held", "drop"}

TypeOK ==
  /\ lock \in BOOLEAN
  /\ pstate \in [CPUs -> Masks]
  /\ level \in [CPUs -> Levels]
  /\ pc \in [CPUs -> [Levels -> Steps]]
  /\ daif \in [CPUs -> [Levels -> Masks]]
  /\ entry \in [CPUs -> Masks]

Init ==
  /\ lock = FALSE
  /\ pstate \in [CPUs -> Masks]
  /\ entry = pstate
  /\ level = [c \in CPUs |-> "base"]
  /\ pc = [c \in CPUs |-> [x \in Levels |-> "out"]]
  /\ daif = [c \in CPUs |-> [x \in Levels |-> "open"]]

At(c, x, step) == level[c] = x /\ pc[c][x] = step

Goto(c, x, step) == pc' = [pc EXCEPT ![c][x] = step]

\* A call of Mutex::lock().
Call(c, x) ==
  /\ At(c, x, "out")
  /\ Goto(c, x, "spin")
  /\ UNCHANGED <<lock, pstate, level, daif, entry>>

\* The relaxed load that ends the inner loop.
SeeFree(c, x) ==
  /\ At(c, x, "spin")
  /\ lock = FALSE
  /\ Goto(c, x, "mask")
  /\ UNCHANGED <<lock, pstate, level, daif, entry>>

Mask_noMask(c, x) ==
  /\ At(c, x, "mask")
  /\ daif' = [daif EXCEPT ![c][x] = pstate[c]]
  /\ Goto(c, x, "cas")
  /\ UNCHANGED <<lock, pstate, level, entry>>

\* get_daif_and_disable_irq_fiq().
Mask(c, x) ==
  /\ At(c, x, "mask")
  /\ daif' = [daif EXCEPT ![c][x] = pstate[c]]
  /\ pstate' = [pstate EXCEPT ![c] = "masked"]
  /\ Goto(c, x, "cas")
  /\ UNCHANGED <<lock, level, entry>>

CompareExchange_blind(c, x) ==
  /\ At(c, x, "cas")
  /\ lock' = TRUE
  /\ Goto(c, x, "held")
  /\ UNCHANGED <<pstate, level, daif, entry>>

\* compare_exchange(false, true): the guard is created only on success.
CompareExchange(c, x) ==
  /\ At(c, x, "cas")
  /\ lock' = TRUE
  /\ Goto(c, x, IF lock THEN "retry" ELSE "held")
  /\ UNCHANGED <<pstate, level, daif, entry>>

Retry_noRestore(c, x) ==
  /\ At(c, x, "retry")
  /\ Goto(c, x, "spin")
  /\ UNCHANGED <<lock, pstate, level, daif, entry>>

\* set_daif(daif) after a failed exchange, then the outer loop again.
Retry(c, x) ==
  /\ At(c, x, "retry")
  /\ pstate' = [pstate EXCEPT ![c] = daif[c][x]]
  /\ Goto(c, x, "spin")
  /\ UNCHANGED <<lock, level, daif, entry>>

Release_noStore(c, x) ==
  /\ At(c, x, "held")
  /\ Goto(c, x, "drop")
  /\ UNCHANGED <<lock, pstate, level, daif, entry>>

\* MutexGuard::drop, first half: store(false, Release).
Release(c, x) ==
  /\ At(c, x, "held")
  /\ lock' = FALSE
  /\ Goto(c, x, "drop")
  /\ UNCHANGED <<pstate, level, daif, entry>>

\* MutexGuard::drop, second half: set_daif(self.daif).
RestoreDaif(c, x) ==
  /\ At(c, x, "drop")
  /\ pstate' = [pstate EXCEPT ![c] = daif[c][x]]
  /\ Goto(c, x, "out")
  /\ UNCHANGED <<lock, level, daif, entry>>

\* The CPU takes an IRQ at EL2: the exception entry masks DAIF, and the
\* handler may lock the same mutex.
TakeIrq(c) ==
  /\ level[c] = "base"
  /\ pstate[c] = "open"
  /\ level' = [level EXCEPT ![c] = "irq"]
  /\ pstate' = [pstate EXCEPT ![c] = "masked"]
  /\ UNCHANGED <<lock, pc, daif, entry>>

\* eret of exit_exception: SPSR_EL2 brings the unmasked DAIF back.
ReturnFromIrq(c) ==
  /\ At(c, "irq", "out")
  /\ level' = [level EXCEPT ![c] = "base"]
  /\ pstate' = [pstate EXCEPT ![c] = "open"]
  /\ UNCHANGED <<lock, pc, daif, entry>>

\* The steps a level takes once it has called lock(), or dropped the guard.
Advance(c, x) ==
  \/ SeeFree(c, x)
  \/ Mask(c, x)
  \/ CompareExchange(c, x)
  \/ Retry(c, x)
  \/ Release(c, x)
  \/ RestoreDaif(c, x)

Next ==
  \E c \in CPUs :
    \/ TakeIrq(c)
    \/ ReturnFromIrq(c)
    \/ \E x \in Levels : Call(c, x) \/ Advance(c, x)

\* A CPU that is inside lock() or owns a guard keeps executing, also when IRQs
\* keep arriving (strong fairness: they leave it some instructions in between),
\* and a handler that is done returns; nobody is obliged to call lock().
Fairness ==
  \A c \in CPUs :
    /\ SF_vars(\E x \in Levels : Advance(c, x))
    /\ WF_vars(ReturnFromIrq(c))

Spec == Init /\ [][Next]_vars /\ Fairness

-----------------------------------------------------------------------------
Holds(c, x) == pc[c][x] = "held"

\* At most one guard is alive, over all CPUs and both levels of each: the
\* &mut T that lock() hands out is exclusive.
MutualExclusion ==
  \A c, d \in CPUs : \A x, y \in Levels :
    Holds(c, x) /\ Holds(d, y) => c = d /\ x = y

\* While a guard is alive its own CPU cannot leave the holder for a handler:
\* IRQs stay masked and the holder is what the CPU runs.  Without it a handler
\* that locks the same mutex would spin for a guard that can never be dropped.
HolderNotPreempted ==
  \A c \in CPUs : \A x \in Levels : Holds(c, x) => pstate[c] = "masked" /\ level[c] = x

\* Outside lock() and drop(), code sees the interrupt mask it had before: the
\* failed attempts and the drop of every guard put DAIF back.
DaifRestored ==
  \A c \in CPUs : At(c, "base", "out") => pstate[c] = entry[c]

\* When somebody waits for the lock, somebody gets it: no CPU and no handler
\* waits for ever for a lock that nobody takes.  (Which one is not promised.)
SomeoneProceeds ==
  (\E c \in CPUs : \E x \in Levels : At(c, x, "spin"))
    ~> (\E c \in CPUs : \E x \in Levels : Holds(c, x))
=============================================================================
