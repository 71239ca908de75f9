----------------------------- MODULE LockOrder ------------------------------
(***************************************************************************)
(* The locks of the hypervisor taken together.  A CPU runs one handler     *)
(* after another; a handler is a sequence of steps, each of which takes or *)
(* drops a Mutex (src/lock.rs, atomic here: SpinLock has its steps).  IRQs *)
(* are masked while a lock is held, so a handler that interrupts another   *)
(* one runs before or after it, as far as locks are concerned.             *)
(***************************************************************************)
EXTENDS Integers, Sequences

CONSTANTS
  CPUs,
  Locks,
  Paths,     \* Paths[c]: the handlers that CPU c may run
  Rank,      \* the order of the locks
  MaxRank,
  MaxJobs,   \* bound on the handlers that a CPU runs
  NoCPU      \* nobody

Steps == [op : {"lock", "unlock"}, lock : Locks]

ASSUME LockOrderAssumption ==
  /\ \A c \in CPUs : Paths[c] \subseteq Seq(Steps)
  /\ MaxRank \in Nat /\ Rank \in [Locks -> 0 .. MaxRank]
  /\ MaxJobs \in Nat /\ NoCPU \notin CPUs

VARIABLES
  path,    \* path[c]: the handler that runs on c, <<>> if none does
  pc,      \* pc[c]: its next step
  jobs,    \* jobs[c]: the handlers that c has run (bound)
  holder   \* holder[l]: the CPU whose guard of l lives, or NoCPU

vars == <<path, pc, jobs, holder>>

TypeOK ==
  /\ path \in [CPUs -> Seq(Steps)]
  /\ pc \in [CPUs -> Nat \ {0}]
  /\ jobs \in [CPUs -> 0 .. MaxJobs]
  /\ holder \in [Locks -> CPUs \cup {NoCPU}]

Init ==
  /\ path = [c \in CPUs |-> <<>>]
  /\ pc = [c \in CPUs |-> 1]
  /\ jobs = [c \in CPUs |-> 0]
  /\ holder = [l \in Locks |-> NoCPU]

\* CPU c is at a step op, for this lock.
At(c, op) == pc[c] \in DOMAIN path[c] /\ path[c][pc[c]].op = op
Target(c) == path[c][pc[c]].lock

Begin(c) ==
  /\ path[c] = <<>> /\ jobs[c] < MaxJobs
  /\ \E p \in Paths[c] : path' = [path EXCEPT ![c] = p]
  /\ jobs' = [jobs EXCEPT ![c] = @ + 1]
  /\ UNCHANGED <<pc, holder>>

\* lock() spins while any CPU holds the lock, this one included.
Lock(c) ==
  /\ At(c, "lock")
  /\ holder[Target(c)] = NoCPU
  /\ holder' = [holder EXCEPT ![Target(c)] = c]
  /\ pc' = [pc EXCEPT ![c] = @ + 1]
  /\ UNCHANGED <<path, jobs>>

Unlock_keepsFlag(c) ==
  /\ At(c, "unlock")
  /\ pc' = [pc EXCEPT ![c] = @ + 1]
  /\ UNCHANGED <<path, jobs, holder>>

\* The guard is dropped.
Unlock(c) ==
  /\ At(c, "unlock")
  /\ holder' = [holder EXCEPT ![Target(c)] = NoCPU]
  /\ pc' = [pc EXCEPT ![c] = @ + 1]
  /\ UNCHANGED <<path, jobs>>

Return(c) ==
  /\ path[c] # <<>> /\ pc[c] \notin DOMAIN path[c]
  /\ path' = [path EXCEPT ![c] = <<>>]
  /\ pc' = [pc EXCEPT ![c] = 1]
  /\ UNCHANGED <<jobs, holder>>

Step(c) == Lock(c) \/ Unlock(c) \/ Return(c)

Next == \E c \in CPUs : Begin(c) \/ Step(c)

\* A CPU goes on with its handler.  Taking a free lock is weakly fair only: the
\* spin lock has no queue, and it is the bound on handlers that ends contention.
Spec == Init /\ [][Next]_vars /\ \A c \in CPUs : WF_vars(Step(c))

-----------------------------------------------------------------------------
\* Every handler takes locks in one order: while a CPU waits for a lock it holds
\* lower ones only.
WaitsUpward ==
  \A c \in CPUs : At(c, "lock") =>
    \A l \in Locks : holder[l] = c => Rank[l] < Rank[Target(c)]

BlockedBy(c, d) == At(c, "lock") /\ holder[Target(c)] = d

\* No CPUs wait for each other in a circle, and none waits for itself: in every
\* group of CPUs one is not blocked by a member of the group.
NoCircularWait ==
  \A G \in (SUBSET CPUs) \ {{}} : \E c \in G : \A d \in G : ~BlockedBy(c, d)

\* Every handler ends: nobody waits for a lock for ever.
HandlersReturn == (\E c \in CPUs : path[c] # <<>>) ~> (\A c \in CPUs : path[c] = <<>>)
=============================================================================
