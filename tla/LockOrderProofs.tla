-------------------------- MODULE LockOrderProofs ---------------------------
(* Handlers that take locks in one order never wait in a circle, whatever    *)
(* the number of CPUs, of locks and of handlers is; and the handlers of      *)
(* LockPaths do take their locks in one order, for any number of VMs.        *)
EXTENDS LockOrder, LockPaths, WellFoundedInduction, TLAPS

\* The locks whose guards live after the first k - 1 steps of p.
HeldAt(p, k) ==
  {l \in Locks : \E i \in 1 .. k - 1 :
     /\ p[i] = [op |-> "lock", lock |-> l]
     /\ \A j \in i + 1 .. k - 1 : p[j] # [op |-> "unlock", lock |-> l]}

\* Only guards that live are dropped, and all of them are in the end.
Scoped(p) ==
  /\ \A k \in DOMAIN p : p[k].op = "unlock" => p[k].lock \in HeldAt(p, k)
  /\ HeldAt(p, Len(p) + 1) = {}

\* A lock is taken while lower ones are held only.
Ascending(p) ==
  \A k \in DOMAIN p : p[k].op = "lock" => \A l \in HeldAt(p, k) : Rank[l] < Rank[p[k].lock]

\* What a reader of one handler at a time can check.
HandlersOrdered == \A c \in CPUs : \A p \in Paths[c] : Scoped(p) /\ Ascending(p)

\* The inductive invariant: a lock is held by the CPU in whose handler its guard
\* lives.
IInv ==
  /\ TypeOK
  /\ \A c \in CPUs : path[c] = <<>> => pc[c] = 1
  /\ \A c \in CPUs : pc[c] \in 1 .. Len(path[c]) + 1
  /\ \A c \in CPUs : Scoped(path[c]) /\ Ascending(path[c])
  /\ \A c \in CPUs : \A l \in Locks : holder[l] = c <=> l \in HeldAt(path[c], pc[c])

\* A step of a handler, taken apart.
LEMMA StepParts ==
  ASSUME NEW p \in Seq(Steps), NEW k \in DOMAIN p
  PROVE  /\ k \in Nat \ {0} /\ k <= Len(p)
         /\ p[k].lock \in Locks /\ p[k].op \in {"lock", "unlock"}
         /\ p[k] = [op |-> p[k].op, lock |-> p[k].lock]
<1>1. DOMAIN p = 1 .. Len(p) /\ Len(p) \in Nat
  OBVIOUS
<1>2. p[k] \in Steps
  BY <1>1
<1> QED
  BY <1>1, <1>2 DEF Steps

\* A step that takes a lock adds it to the living guards.
LEMMA HeldLock ==
  ASSUME NEW p \in Seq(Steps), NEW k \in DOMAIN p, p[k].op = "lock"
  PROVE  HeldAt(p, k + 1) = HeldAt(p, k) \cup {p[k].lock}
<1> DEFINE m == p[k].lock
<1>1. k \in Nat \ {0} /\ m \in Locks /\ p[k] = [op |-> "lock", lock |-> m]
  BY StepParts
<1> HIDE DEF m
<1>2. ASSUME NEW l \in HeldAt(p, k + 1) PROVE l \in HeldAt(p, k) \cup {m}
  <2>1. PICK i \in 1 .. k : /\ p[i] = [op |-> "lock", lock |-> l]
                            /\ \A j \in i + 1 .. k : p[j] # [op |-> "unlock", lock |-> l]
    BY <1>1, <1>2 DEF HeldAt
  <2>2. CASE i = k
    BY <1>1, <2>1, <2>2
  <2>3. CASE i # k
    BY <1>1, <1>2, <2>1, <2>3 DEF HeldAt
  <2> QED
    BY <2>2, <2>3
<1>3. ASSUME NEW l \in HeldAt(p, k) PROVE l \in HeldAt(p, k + 1)
  <2>1. PICK i \in 1 .. k - 1 : /\ p[i] = [op |-> "lock", lock |-> l]
                                /\ \A j \in i + 1 .. k - 1 : p[j] # [op |-> "unlock", lock |-> l]
    BY <1>1, <1>3 DEF HeldAt
  <2>2. ASSUME NEW j \in i + 1 .. k PROVE p[j] # [op |-> "unlock", lock |-> l]
    BY <1>1, <2>1
  <2>3. i \in 1 .. (k + 1) - 1 /\ (k + 1) - 1 = k /\ l \in Locks
    BY <1>1, <1>3 DEF HeldAt
  <2> QED
    BY <2>1, <2>2, <2>3 DEF HeldAt
<1>4. m \in HeldAt(p, k + 1)
  BY <1>1 DEF HeldAt
<1> QED
  BY <1>2, <1>3, <1>4 DEF m

\* A step that drops a guard removes its lock.
LEMMA HeldUnlock ==
  ASSUME NEW p \in Seq(Steps), NEW k \in DOMAIN p, p[k].op = "unlock"
  PROVE  HeldAt(p, k + 1) = HeldAt(p, k) \ {p[k].lock}
<1> DEFINE m == p[k].lock
<1>1. k \in Nat \ {0} /\ m \in Locks /\ p[k] = [op |-> "unlock", lock |-> m]
  BY StepParts
<1> HIDE DEF m
<1>2. ASSUME NEW l \in HeldAt(p, k + 1) PROVE l \in HeldAt(p, k) \ {m}
  <2>1. PICK i \in 1 .. k : /\ p[i] = [op |-> "lock", lock |-> l]
                            /\ \A j \in i + 1 .. k : p[j] # [op |-> "unlock", lock |-> l]
    BY <1>1, <1>2 DEF HeldAt
  <2>2. i # k
    BY <1>1, <2>1
  <2>3. l # m
    BY <1>1, <2>1, <2>2
  <2> QED
    BY <1>1, <1>2, <2>1, <2>2, <2>3 DEF HeldAt
<1>3. ASSUME NEW l \in HeldAt(p, k) \ {m} PROVE l \in HeldAt(p, k + 1)
  <2>1. PICK i \in 1 .. k - 1 : /\ p[i] = [op |-> "lock", lock |-> l]
                                /\ \A j \in i + 1 .. k - 1 : p[j] # [op |-> "unlock", lock |-> l]
    BY <1>1, <1>3 DEF HeldAt
  <2>2. \A j \in i + 1 .. k : p[j] # [op |-> "unlock", lock |-> l]
    BY <1>1, <1>3, <2>1
  <2> QED
    BY <1>1, <1>3, <2>1, <2>2 DEF HeldAt
<1> QED
  BY <1>2, <1>3 DEF m

\* Every non-empty set of natural numbers has a least element.
LEMMA LeastNatural ==
  ASSUME NEW T, T \subseteq Nat, T # {}
  PROVE  \E x \in T : \A y \in T : x <= y
<1> DEFINE Less == OpToRel(<, Nat)
<1>1. IsWellFoundedOn(Less, Nat)
  BY NatLessThanWellFounded, Zenon
<1>2. \A x, y \in Nat : y < x => <<y, x>> \in Less
  BY DEF OpToRel
<1> HIDE DEF Less
<1>3. PICK x \in T : \A y \in T : ~(<<y, x>> \in Less)
  BY <1>1, WFMin, Zenon
<1>4. \A y \in T : ~(y < x)
  BY <1>2, <1>3, Zenon
<1> QED
  BY <1>4

\* In a bounded set of ranks that is not empty there is a largest one.
LEMMA LargestRank ==
  ASSUME NEW G, G # {}, NEW f, \A c \in G : f[c] \in 0 .. MaxRank
  PROVE  \E c \in G : \A d \in G : f[d] <= f[c]
<1> DEFINE Away == {MaxRank - f[c] : c \in G}
<1>1. Away \subseteq Nat /\ Away # {}
  BY LockOrderAssumption
<1>2. PICK n \in Away : \A m \in Away : n <= m
  BY <1>1, LeastNatural, Zenon
<1>3. PICK c \in G : n = MaxRank - f[c]
  BY <1>2
<1>4. ASSUME NEW d \in G PROVE f[d] <= f[c]
  <2>1. MaxRank - f[d] \in Away
    OBVIOUS
  <2>2. MaxRank - f[c] <= MaxRank - f[d]
    BY <1>2, <1>3, <2>1
  <2> QED
    BY <2>2, LockOrderAssumption
<1> QED
  BY <1>4

\* Whoever waits upward cannot wait in a circle: the CPU of a group that waits
\* for the highest lock is blocked by nobody in the group.
LEMMA UpwardNoCircle ==
  ASSUME TypeOK, WaitsUpward
  PROVE  NoCircularWait
<1> SUFFICES ASSUME NEW G \in SUBSET CPUs, G # {}, \A c \in G : \E d \in G : BlockedBy(c, d)
             PROVE  FALSE
  BY DEF NoCircularWait
<1> DEFINE f == [c \in G |-> Rank[Target(c)]]
<1>1. \A c \in G : At(c, "lock") /\ Target(c) \in Locks
  <2> TAKE c \in G
  <2>1. At(c, "lock")
    BY DEF BlockedBy
  <2>2. path[c] \in Seq(Steps) /\ pc[c] \in DOMAIN path[c]
    BY <2>1 DEF TypeOK, At
  <2> QED
    BY <2>1, <2>2, StepParts DEF Target
<1>2. \A c \in G : f[c] \in 0 .. MaxRank
  BY <1>1, LockOrderAssumption, Zenon
<1>3. PICK c \in G : \A d \in G : f[d] <= f[c]
  <2> HIDE DEF f
  <2> QED
    BY <1>2, LargestRank, Zenon
<1>4. PICK d \in G : holder[Target(c)] = d
  BY DEF BlockedBy
<1>5. Rank[Target(c)] < Rank[Target(d)]
  BY <1>1, <1>4 DEF WaitsUpward
<1>6. Rank[Target(d)] <= Rank[Target(c)]
  BY <1>3
<1>7. Rank[Target(c)] \in Nat /\ Rank[Target(d)] \in Nat
  BY <1>1, LockOrderAssumption
<1> QED
  BY <1>5, <1>6, <1>7

\* At the start no handler runs and every lock is free.
LEMMA InitIInv == Init => IInv
<1> SUFFICES ASSUME Init PROVE IInv
  OBVIOUS
<1>1. \A c \in CPUs : path[c] = <<>> /\ pc[c] = 1
  BY Zenon DEF Init
<1>2. HeldAt(<<>>, 1) = {} /\ Scoped(<<>>) /\ Ascending(<<>>)
  BY DEF HeldAt, Scoped, Ascending
<1>3. TypeOK
  BY LockOrderAssumption DEF Init, TypeOK
<1> QED
  BY <1>1, <1>2, <1>3, LockOrderAssumption DEF Init, IInv

\* The steps of a handler preserve the invariant.
LEMMA NextIInv ==
  ASSUME HandlersOrdered, IInv, [Next]_vars
  PROVE  IInv'
<1>1. ASSUME NEW c \in CPUs, Begin(c) PROVE IInv'
  <2>1. PICK p \in Paths[c] : path' = [path EXCEPT ![c] = p]
    BY <1>1, Zenon DEF Begin
  <2>2. p \in Seq(Steps) /\ Scoped(p) /\ Ascending(p) /\ pc[c] = 1 /\ path[c] = <<>>
    BY <1>1, LockOrderAssumption DEF HandlersOrdered, Begin, IInv
  <2>3. HeldAt(p, 1) = {} /\ HeldAt(<<>>, 1) = {}
    BY DEF HeldAt
  <2>4. TypeOK'
    BY <1>1, <2>1, <2>2, LockOrderAssumption DEF Begin, IInv, TypeOK
  <2> QED
    BY <1>1, <2>1, <2>2, <2>3, <2>4 DEF Begin, IInv, TypeOK
<1>2. ASSUME NEW c \in CPUs, Lock(c) PROVE IInv'
  <2>1. path[c] \in Seq(Steps) /\ pc[c] \in DOMAIN path[c]
    BY <1>2 DEF Lock, At, IInv, TypeOK
  <2>2. Target(c) \in Locks /\ pc[c] <= Len(path[c]) /\ pc[c] \in Nat
    BY <2>1, StepParts DEF Target
  <2>3. HeldAt(path[c], pc[c] + 1) = HeldAt(path[c], pc[c]) \cup {Target(c)}
    BY <1>2, <2>1, HeldLock DEF Lock, At, Target
  <2>4. TypeOK'
    BY <1>2, <2>2 DEF Lock, IInv, TypeOK
  <2>5. \A d \in CPUs : \A l \in Locks : holder'[l] = d <=> l \in HeldAt(path[d], pc'[d])
    BY <1>2, <2>2, <2>3, LockOrderAssumption DEF Lock, IInv, TypeOK
  <2> QED
    BY <1>2, <2>1, <2>2, <2>4, <2>5 DEF Lock, IInv, TypeOK
<1>3. ASSUME NEW c \in CPUs, Unlock(c) PROVE IInv'
  <2>1. path[c] \in Seq(Steps) /\ pc[c] \in DOMAIN path[c]
    BY <1>3 DEF Unlock, At, IInv, TypeOK
  <2>2. Target(c) \in Locks /\ pc[c] <= Len(path[c]) /\ pc[c] \in Nat
    BY <2>1, StepParts DEF Target
  <2>3. HeldAt(path[c], pc[c] + 1) = HeldAt(path[c], pc[c]) \ {Target(c)}
    BY <1>3, <2>1, HeldUnlock DEF Unlock, At, Target
  <2>4. holder[Target(c)] = c
    BY <1>3, <2>1, <2>2 DEF Unlock, At, Target, IInv, Scoped
  <2>5. TypeOK'
    BY <1>3, <2>2 DEF Unlock, IInv, TypeOK
  <2>6. \A d \in CPUs : \A l \in Locks : holder'[l] = d <=> l \in HeldAt(path[d], pc'[d])
    BY <1>3, <2>2, <2>3, <2>4, LockOrderAssumption DEF Unlock, IInv, TypeOK
  <2> QED
    BY <1>3, <2>1, <2>2, <2>5, <2>6 DEF Unlock, IInv, TypeOK
<1>4. ASSUME NEW c \in CPUs, Return(c) PROVE IInv'
  <2>1. path[c] \in Seq(Steps) /\ pc[c] = Len(path[c]) + 1
    BY <1>4 DEF Return, IInv, TypeOK
  <2>2. HeldAt(path[c], pc[c]) = {}
    BY <2>1, Zenon DEF IInv, Scoped
  <2>3. HeldAt(<<>>, 1) = {}
    BY DEF HeldAt
  <2>4. Scoped(<<>>) /\ Ascending(<<>>)
    BY DEF Scoped, Ascending, HeldAt
  <2>5. TypeOK'
    BY <1>4 DEF Return, IInv, TypeOK
  <2> QED
    BY <1>4, <2>1, <2>2, <2>3, <2>4, <2>5 DEF Return, IInv, TypeOK
<1>5. CASE UNCHANGED vars
  BY <1>5 DEF vars, IInv, TypeOK
<1> QED
  BY <1>1, <1>2, <1>3, <1>4, <1>5 DEF Next, Step

\* The invariant and the order of the handlers make every wait go upward.
LEMMA InvariantUpward == IInv => WaitsUpward
<1> SUFFICES ASSUME IInv, NEW c \in CPUs, At(c, "lock"), NEW l \in Locks, holder[l] = c
             PROVE  Rank[l] < Rank[Target(c)]
  BY DEF WaitsUpward
<1>1. Ascending(path[c]) /\ l \in HeldAt(path[c], pc[c]) /\ pc[c] \in DOMAIN path[c]
  BY DEF IInv, At
<1> QED
  BY <1>1 DEF Ascending, At, Target

\* Handlers that drop what they take, and take locks in ascending order only,
\* wait upward and never for each other in a circle: for any number of CPUs,
\* locks and handlers.
THEOREM OrderedNeverCircular == HandlersOrdered => (Spec => [](WaitsUpward /\ NoCircularWait))
<1> SUFFICES ASSUME HandlersOrdered PROVE Spec => [](WaitsUpward /\ NoCircularWait)
  OBVIOUS
<1>1. Init => IInv
  BY InitIInv
<1>2. IInv /\ [Next]_vars => IInv'
  BY NextIInv
<1>3. IInv => WaitsUpward /\ NoCircularWait
  BY InvariantUpward, UpwardNoCircle DEF IInv
<1> QED
  BY <1>1, <1>2, <1>3, PTL DEF Spec

-----------------------------------------------------------------------------
(* The handlers of LockPaths, one routine at a time *)

\* p is scoped and ascending, and takes locks above r only.
Orderly(p, r) ==
  /\ p \in Seq(Steps) /\ Scoped(p) /\ Ascending(p)
  /\ \A k \in DOMAIN p : p[k].op = "lock" => Rank[p[k].lock] > r

\* The living guards of a sequence made of two.
LEMMA HeldConcat ==
  ASSUME NEW p \in Seq(Steps), NEW q \in Seq(Steps)
  PROVE  /\ \A k \in 1 .. Len(p) + 1 : HeldAt(p \o q, k) = HeldAt(p, k)
         /\ \A m \in 1 .. Len(q) + 1 : HeldAt(p \o q, Len(p) + m) =
              HeldAt(q, m) \cup {l \in HeldAt(p, Len(p) + 1) :
                                   \A j \in 1 .. m - 1 : q[j] # [op |-> "unlock", lock |-> l]}
<1>0. /\ Len(p) \in Nat /\ Len(q) \in Nat
      /\ \A i \in 1 .. Len(p) : (p \o q)[i] = p[i]
      /\ \A i \in 1 .. Len(q) : (p \o q)[Len(p) + i] = q[i]
  OBVIOUS
<1>1. ASSUME NEW k \in 1 .. Len(p) + 1 PROVE HeldAt(p \o q, k) = HeldAt(p, k)
  <2>1. \A i \in 1 .. k - 1 : (p \o q)[i] = p[i]
    BY <1>0
  <2>2. \A i \in 1 .. k - 1 : \A j \in i + 1 .. k - 1 : (p \o q)[j] = p[j]
    BY <1>0
  <2> QED
    BY <2>1, <2>2 DEF HeldAt
<1>2. ASSUME NEW m \in 1 .. Len(q) + 1, NEW l \in HeldAt(p \o q, Len(p) + m)
      PROVE  \/ l \in HeldAt(q, m)
             \/ /\ l \in HeldAt(p, Len(p) + 1)
                /\ \A j \in 1 .. m - 1 : q[j] # [op |-> "unlock", lock |-> l]
  <2>1. l \in Locks /\ (Len(p) + m) - 1 = Len(p) + (m - 1)
    BY <1>0, <1>2 DEF HeldAt
  <2>2. PICK i \in 1 .. Len(p) + (m - 1) :
          /\ (p \o q)[i] = [op |-> "lock", lock |-> l]
          /\ \A j \in i + 1 .. Len(p) + (m - 1) : (p \o q)[j] # [op |-> "unlock", lock |-> l]
    BY <1>2, <2>1, Zenon DEF HeldAt
  <2>3. CASE i <= Len(p)
    <3>1. p[i] = [op |-> "lock", lock |-> l]
      BY <1>0, <2>2, <2>3
    <3>2. \A j \in i + 1 .. Len(p) : p[j] # [op |-> "unlock", lock |-> l]
      BY <1>0, <2>2, <2>3
    <3>3. \A j \in 1 .. m - 1 : q[j] # [op |-> "unlock", lock |-> l]
      <4> TAKE j \in 1 .. m - 1
      <4>1. Len(p) + j \in i + 1 .. Len(p) + (m - 1) /\ (p \o q)[Len(p) + j] = q[j]
        BY <1>0, <2>3
      <4> QED
        BY <2>2, <4>1
    <3>4. l \in HeldAt(p, Len(p) + 1)
      BY <1>0, <2>1, <2>3, <3>1, <3>2 DEF HeldAt
    <3> QED
      BY <3>3, <3>4
  <2>4. CASE i > Len(p)
    <3> DEFINE n == i - Len(p)
    <3>1. n \in 1 .. m - 1 /\ i = Len(p) + n
      BY <1>0, <2>4
    <3>2. q[n] = [op |-> "lock", lock |-> l]
      BY <1>0, <2>2, <3>1
    <3>3. \A j \in n + 1 .. m - 1 : q[j] # [op |-> "unlock", lock |-> l]
      <4> TAKE j \in n + 1 .. m - 1
      <4>1. Len(p) + j \in i + 1 .. Len(p) + (m - 1) /\ (p \o q)[Len(p) + j] = q[j]
        BY <1>0, <3>1
      <4> QED
        BY <2>2, <4>1
    <3> QED
      BY <2>1, <3>1, <3>2, <3>3, Zenon DEF HeldAt
  <2> QED
    BY <1>0, <2>3, <2>4
<1>3. ASSUME NEW m \in 1 .. Len(q) + 1, NEW l \in HeldAt(q, m)
      PROVE  l \in HeldAt(p \o q, Len(p) + m)
  <2>1. l \in Locks
    BY <1>3 DEF HeldAt
  <2>2. PICK n \in 1 .. m - 1 : /\ q[n] = [op |-> "lock", lock |-> l]
                                /\ \A j \in n + 1 .. m - 1 : q[j] # [op |-> "unlock", lock |-> l]
    BY <1>3 DEF HeldAt
  <2>3. Len(p) + n \in 1 .. (Len(p) + m) - 1 /\ (p \o q)[Len(p) + n] = q[n]
    BY <1>0
  <2>4. \A j \in Len(p) + n + 1 .. (Len(p) + m) - 1 : (p \o q)[j] # [op |-> "unlock", lock |-> l]
    <3> TAKE j \in Len(p) + n + 1 .. (Len(p) + m) - 1
    <3>1. j - Len(p) \in n + 1 .. m - 1 /\ j - Len(p) \in 1 .. Len(q) /\ j = Len(p) + (j - Len(p))
      BY <1>0
    <3>2. (p \o q)[j] = q[j - Len(p)]
      BY <1>0, <3>1
    <3> QED
      BY <2>2, <3>1, <3>2
  <2> QED
    BY <2>1, <2>2, <2>3, <2>4, Zenon DEF HeldAt
<1>4. ASSUME NEW m \in 1 .. Len(q) + 1, NEW l \in HeldAt(p, Len(p) + 1),
             \A j \in 1 .. m - 1 : q[j] # [op |-> "unlock", lock |-> l]
      PROVE  l \in HeldAt(p \o q, Len(p) + m)
  <2>1. l \in Locks /\ (Len(p) + 1) - 1 = Len(p)
    BY <1>0, <1>4 DEF HeldAt
  <2>2. PICK i \in 1 .. Len(p) : /\ p[i] = [op |-> "lock", lock |-> l]
                                 /\ \A j \in i + 1 .. Len(p) : p[j] # [op |-> "unlock", lock |-> l]
    BY <1>4, <2>1 DEF HeldAt
  <2>3. i \in 1 .. (Len(p) + m) - 1 /\ (p \o q)[i] = p[i]
    BY <1>0
  <2>4. \A j \in i + 1 .. (Len(p) + m) - 1 : (p \o q)[j] # [op |-> "unlock", lock |-> l]
    <3> TAKE j \in i + 1 .. (Len(p) + m) - 1
    <3>1. CASE j <= Len(p)
      BY <1>0, <2>2, <3>1
    <3>2. CASE j > Len(p)
      <4>1. j - Len(p) \in 1 .. m - 1 /\ j - Len(p) \in 1 .. Len(q) /\ j = Len(p) + (j - Len(p))
        BY <1>0, <3>2
      <4>2. (p \o q)[j] = q[j - Len(p)]
        BY <1>0, <4>1
      <4> QED
        BY <1>4, <4>1, <4>2
    <3> QED
      BY <1>0, <3>1, <3>2
  <2> QED
    BY <2>1, <2>2, <2>3, <2>4, Zenon DEF HeldAt
<1>5. ASSUME NEW m \in 1 .. Len(q) + 1
      PROVE  HeldAt(p \o q, Len(p) + m) =
               HeldAt(q, m) \cup {l \in HeldAt(p, Len(p) + 1) :
                                    \A j \in 1 .. m - 1 : q[j] # [op |-> "unlock", lock |-> l]}
  BY <1>2, <1>3, <1>4
<1> QED
  BY <1>1, <1>5

\* Nothing takes nothing.
LEMMA NothingOrderly ==
  ASSUME NEW r \in Int
  PROVE  Orderly(Nothing, r)
<1>1. Nothing \in Seq(Steps) /\ Len(Nothing) = 0 /\ DOMAIN Nothing = {}
  BY DEF Nothing
<1>2. HeldAt(Nothing, 1) = {}
  BY DEF HeldAt
<1> QED
  BY <1>1, <1>2 DEF Orderly, Scoped, Ascending

\* One routine after another.
LEMMA ConcatOrderly ==
  ASSUME NEW r \in Int, NEW p, NEW q, Orderly(p, r), Orderly(q, r)
  PROVE  Orderly(p \o q, r)
<1> DEFINE s == p \o q
<1>0. p \in Seq(Steps) /\ q \in Seq(Steps)
  BY DEF Orderly
<1>1. /\ Len(p) \in Nat /\ Len(q) \in Nat /\ s \in Seq(Steps) /\ Len(s) = Len(p) + Len(q)
      /\ DOMAIN p = 1 .. Len(p) /\ DOMAIN q = 1 .. Len(q) /\ DOMAIN s = 1 .. Len(p) + Len(q)
      /\ \A i \in 1 .. Len(p) : s[i] = p[i]
      /\ \A i \in 1 .. Len(q) : s[Len(p) + i] = q[i]
  BY <1>0
<1>2. HeldAt(p, Len(p) + 1) = {} /\ HeldAt(q, Len(q) + 1) = {}
  BY DEF Orderly, Scoped
<1>3. /\ \A k \in 1 .. Len(p) : HeldAt(s, k) = HeldAt(p, k)
      /\ \A m \in 1 .. Len(q) + 1 : HeldAt(s, Len(p) + m) = HeldAt(q, m)
  <2>1. /\ \A k \in 1 .. Len(p) + 1 : HeldAt(s, k) = HeldAt(p, k)
        /\ \A m \in 1 .. Len(q) + 1 : HeldAt(s, Len(p) + m) =
              HeldAt(q, m) \cup {l \in HeldAt(p, Len(p) + 1) :
                                   \A j \in 1 .. m - 1 : q[j] # [op |-> "unlock", lock |-> l]}
    BY <1>0, HeldConcat
  <2> HIDE DEF s
  <2>2. \A k \in 1 .. Len(p) : k \in 1 .. Len(p) + 1
    BY <1>1
  <2>3. ASSUME NEW m \in 1 .. Len(q) + 1 PROVE HeldAt(s, Len(p) + m) = HeldAt(q, m)
    BY <1>2, <2>1, Zenon
  <2> QED
    BY <2>1, <2>2, <2>3
<1> HIDE DEF s
<1>4. ASSUME NEW k \in DOMAIN s
      PROVE  /\ s[k].op = "unlock" => s[k].lock \in HeldAt(s, k)
             /\ s[k].op = "lock" => \A l \in HeldAt(s, k) : Rank[l] < Rank[s[k].lock]
             /\ s[k].op = "lock" => Rank[s[k].lock] > r
  <2>1. CASE k \in 1 .. Len(p)
    <3>1. k \in DOMAIN p /\ s[k] = p[k] /\ HeldAt(s, k) = HeldAt(p, k)
      BY <1>1, <1>3, <2>1
    <3> QED
      BY <3>1 DEF Orderly, Scoped, Ascending
  <2>2. CASE k \notin 1 .. Len(p)
    <3> DEFINE m == k - Len(p)
    <3>1. m \in DOMAIN q /\ m \in 1 .. Len(q) + 1 /\ k = Len(p) + m
      BY <1>1, <2>2
    <3>2. s[k] = q[m] /\ HeldAt(s, k) = HeldAt(q, m)
      BY <1>1, <1>3, <3>1
    <3> QED
      BY <3>1, <3>2 DEF Orderly, Scoped, Ascending
  <2> QED
    BY <2>1, <2>2
<1>5. HeldAt(s, Len(s) + 1) = {}
  <2>1. Len(s) + 1 = Len(p) + (Len(q) + 1) /\ Len(q) + 1 \in 1 .. Len(q) + 1
    BY <1>1
  <2> QED
    BY <1>2, <1>3, <2>1
<1>6. Orderly(s, r)
  BY <1>1, <1>4, <1>5 DEF Orderly, Scoped, Ascending
<1> QED
  BY <1>6 DEF s

\* What runs while a guard lives takes higher locks.
LEMMA WhileOrderly ==
  ASSUME NEW r \in Int, NEW l \in Locks, Rank[l] > r, NEW p, Orderly(p, Rank[l])
  PROVE  Orderly(While(l, p), r)
<1> DEFINE A == <<[op |-> "lock", lock |-> l]>>
           B == <<[op |-> "unlock", lock |-> l]>>
           s == (A \o p) \o B
<1>0. /\ p \in Seq(Steps) /\ A \in Seq(Steps) /\ B \in Seq(Steps) /\ A \o p \in Seq(Steps)
      /\ Len(p) \in Nat /\ Len(A) = 1 /\ Len(B) = 1 /\ Len(A \o p) = Len(p) + 1
      /\ A[1] = [op |-> "lock", lock |-> l] /\ B[1] = [op |-> "unlock", lock |-> l]
      /\ Rank[l] \in Int
  BY LockOrderAssumption DEF Orderly, Steps
<1>1. /\ s \in Seq(Steps) /\ Len(s) = Len(p) + 2 /\ DOMAIN s = 1 .. Len(p) + 2
      /\ DOMAIN p = 1 .. Len(p) /\ s[1] = [op |-> "lock", lock |-> l]
      /\ \A i \in 1 .. Len(p) : s[i + 1] = p[i]
      /\ s[Len(p) + 2] = [op |-> "unlock", lock |-> l]
  BY <1>0
<1>2. HeldAt(A, 1) = {} /\ HeldAt(B, 1) = {} /\ HeldAt(A, 2) = {l} /\ HeldAt(B, 2) = {}
  BY <1>0 DEF HeldAt
<1>3. \A j \in 1 .. Len(p) : p[j] # [op |-> "unlock", lock |-> l]
  <2> SUFFICES ASSUME NEW j \in 1 .. Len(p), p[j] = [op |-> "unlock", lock |-> l] PROVE FALSE
    OBVIOUS
  <2>1. l \in HeldAt(p, j)
    BY <1>1 DEF Orderly, Scoped
  <2>2. PICK i \in 1 .. j - 1 : p[i] = [op |-> "lock", lock |-> l]
    BY <2>1 DEF HeldAt
  <2>3. i \in DOMAIN p /\ p[i].op = "lock" /\ p[i].lock = l
    BY <1>1, <2>2
  <2> QED
    BY <1>0, <2>3 DEF Orderly
<1>4. \A m \in 1 .. Len(p) + 1 : HeldAt(A \o p, m + 1) = HeldAt(p, m) \cup {l}
  <2> TAKE m \in 1 .. Len(p) + 1
  <2>1. \A j \in 1 .. m - 1 : p[j] # [op |-> "unlock", lock |-> l]
    BY <1>0, <1>3
  <2>2. HeldAt(A \o p, Len(A) + m) =
          HeldAt(p, m) \cup {x \in HeldAt(A, Len(A) + 1) :
                               \A j \in 1 .. m - 1 : p[j] # [op |-> "unlock", lock |-> x]}
    <3> HIDE DEF A
    <3> QED
      BY <1>0, HeldConcat
  <2>3. Len(A) + m = m + 1 /\ Len(A) + 1 = 2
    BY <1>0
  <2> QED
    BY <1>2, <2>1, <2>2, <2>3, Zenon
<1>5. \A m \in 1 .. Len(p) + 1 : HeldAt(s, m + 1) = HeldAt(p, m) \cup {l}
  <2> TAKE m \in 1 .. Len(p) + 1
  <2>1. m + 1 \in 1 .. Len(A \o p) + 1
    BY <1>0
  <2>2. HeldAt(s, m + 1) = HeldAt(A \o p, m + 1)
    <3> DEFINE t == A \o p
    <3> HIDE DEF t, B
    <3>1. t \in Seq(Steps) /\ B \in Seq(Steps) /\ m + 1 \in 1 .. Len(t) + 1
      BY <1>0, <2>1 DEF t
    <3>2. HeldAt(t \o B, m + 1) = HeldAt(t, m + 1)
      BY <3>1, HeldConcat
    <3> QED
      BY <3>2 DEF t
  <2> QED
    BY <1>4, <2>2
<1>6. HeldAt(s, 1) = {}
  BY DEF HeldAt
<1>7. HeldAt(s, Len(s) + 1) = {}
  <2>1. HeldAt(p, Len(p) + 1) = {} /\ Len(p) + 1 \in 1 .. Len(p) + 1
    BY <1>0 DEF Orderly, Scoped
  <2>2. HeldAt(s, (Len(p) + 1) + 1) = {l}
    BY <1>5, <2>1
  <2>3. Len(p) + 2 \in DOMAIN s /\ s[Len(p) + 2].op = "unlock" /\ s[Len(p) + 2].lock = l
    BY <1>0, <1>1
  <2>4. HeldAt(s, (Len(p) + 2) + 1) = HeldAt(s, Len(p) + 2) \ {l}
    <3> HIDE DEF s
    <3> QED
      BY <1>1, <2>3, HeldUnlock
  <2>5. (Len(p) + 1) + 1 = Len(p) + 2 /\ (Len(p) + 2) + 1 = Len(s) + 1
    BY <1>0, <1>1
  <2> QED
    BY <2>2, <2>4, <2>5
<1> HIDE DEF s, A, B
<1>8. ASSUME NEW k \in DOMAIN s
      PROVE  /\ s[k].op = "unlock" => s[k].lock \in HeldAt(s, k)
             /\ s[k].op = "lock" => \A x \in HeldAt(s, k) : Rank[x] < Rank[s[k].lock]
             /\ s[k].op = "lock" => Rank[s[k].lock] > r
  <2>1. CASE k = 1
    BY <1>1, <1>6, <2>1
  <2>2. CASE k \in 2 .. Len(p) + 1
    <3> DEFINE m == k - 1
    <3>1. m \in DOMAIN p /\ m \in 1 .. Len(p) + 1 /\ k = m + 1
      BY <1>0, <1>1, <2>2
    <3>2. s[k] = p[m] /\ HeldAt(s, k) = HeldAt(p, m) \cup {l}
      BY <1>1, <1>5, <3>1
    <3>3. p[m].lock \in Locks
      BY <1>0, <3>1, StepParts
    <3>4. p[m].op = "lock" => Rank[p[m].lock] > Rank[l] /\ Rank[p[m].lock] \in Int
      BY <3>1, <3>3, LockOrderAssumption DEF Orderly
    <3>5. p[m].op = "lock" => \A x \in HeldAt(p, m) : Rank[x] < Rank[p[m].lock]
      BY <3>1 DEF Orderly, Ascending
    <3>6. p[m].op = "unlock" => p[m].lock \in HeldAt(p, m)
      BY <3>1 DEF Orderly, Scoped
    <3> HIDE DEF m
    <3> QED
      BY <1>0, <3>2, <3>4, <3>5, <3>6
  <2>3. CASE k = Len(p) + 2
    <3>1. HeldAt(s, k) = HeldAt(p, Len(p) + 1) \cup {l}
      <4>1. k = (Len(p) + 1) + 1 /\ Len(p) + 1 \in 1 .. Len(p) + 1
        BY <1>0, <2>3
      <4> QED
        BY <1>5, <4>1
    <3> QED
      BY <1>1, <2>3, <3>1
  <2> QED
    BY <1>0, <1>1, <2>1, <2>2, <2>3
<1>9. Orderly(s, r)
  BY <1>1, <1>7, <1>8 DEF Orderly, Scoped, Ascending
<1>10. While(l, p) = s
  BY <1>0 DEF While, s, A, B
<1> QED
  BY <1>9, <1>10

\* The locks of the hypervisor with these VMs.
LocksOf(vms) ==
  {CONSOLE, VIRTIO_BLK, VM_LIST, ACTIVE_VM, MEMORY_ALLOCATOR, SERIAL_DEVICE, PL011_DEVICE}
    \cup UNION {{Pl011Mmio(v), VirtioBlkMmio(v), GicDistributorMmio(v), GicRedistributorMmio(v)} :
                 v \in vms}

\* What a CPU of the hypervisor may run.
HandlersOf(vms, int_id) ==
  {main(int_id), core_main} \cup handle_input(vms)
    \cup UNION {{maintenance_interrupt_handler(v), inject_interrupt_handler(v),
                 generic_timer_interrupt_handler(v)} \cup data_abort_handler(v) : v \in vms}

\* Every CPU runs handlers of the hypervisor, for any of its VMs; the serial port
\* has an interrupt (without one, main waits for itself in
\* enable_serial_port_interrupt).
MiniVisor(vms, int_id) ==
  /\ int_id # 0
  /\ LocksOf(vms) \subseteq Locks
  /\ \A l \in LocksOf(vms) : Rank[l] = RankOf(l)
  /\ \A c \in CPUs : Paths[c] \subseteq HandlersOf(vms, int_id)

\* Every routine of LockPaths takes its locks in the order of RankOf.
LEMMA HandlersOrderly ==
  ASSUME NEW vms, NEW int_id, MiniVisor(vms, int_id), NEW p \in HandlersOf(vms, int_id)
  PROVE  Orderly(p, -1)
<1> USE DEF MiniVisor
<1>1. /\ CONSOLE \in Locks /\ Rank[CONSOLE] = 0
      /\ VIRTIO_BLK \in Locks /\ Rank[VIRTIO_BLK] = 2
      /\ VM_LIST \in Locks /\ Rank[VM_LIST] = 5
      /\ ACTIVE_VM \in Locks /\ Rank[ACTIVE_VM] = 6
      /\ MEMORY_ALLOCATOR \in Locks /\ Rank[MEMORY_ALLOCATOR] = 7
      /\ SERIAL_DEVICE \in Locks /\ Rank[SERIAL_DEVICE] = 8
      /\ PL011_DEVICE \in Locks /\ Rank[PL011_DEVICE] = 9
  <2>1. {CONSOLE, VIRTIO_BLK, VM_LIST, ACTIVE_VM, MEMORY_ALLOCATOR, SERIAL_DEVICE, PL011_DEVICE}
          \subseteq LocksOf(vms)
    BY DEF LocksOf
  <2>2. /\ RankOf(CONSOLE) = 0 /\ RankOf(VIRTIO_BLK) = 2 /\ RankOf(VM_LIST) = 5
        /\ RankOf(ACTIVE_VM) = 6 /\ RankOf(MEMORY_ALLOCATOR) = 7 /\ RankOf(SERIAL_DEVICE) = 8
        /\ RankOf(PL011_DEVICE) = 9
    BY DEF RankOf, CONSOLE, VIRTIO_BLK, VM_LIST, ACTIVE_VM, MEMORY_ALLOCATOR, SERIAL_DEVICE,
       PL011_DEVICE
  <2> QED
    BY <2>1, <2>2
<1>2. ASSUME NEW v \in vms
      PROVE  /\ Pl011Mmio(v) \in Locks /\ Rank[Pl011Mmio(v)] = 1
             /\ VirtioBlkMmio(v) \in Locks /\ Rank[VirtioBlkMmio(v)] = 1
             /\ GicDistributorMmio(v) \in Locks /\ Rank[GicDistributorMmio(v)] = 3
             /\ GicRedistributorMmio(v) \in Locks /\ Rank[GicRedistributorMmio(v)] = 4
  <2>1. {Pl011Mmio(v), VirtioBlkMmio(v), GicDistributorMmio(v), GicRedistributorMmio(v)}
          \subseteq LocksOf(vms)
    BY DEF LocksOf
  <2>2. /\ RankOf(Pl011Mmio(v)) = 1 /\ RankOf(VirtioBlkMmio(v)) = 1
        /\ RankOf(GicDistributorMmio(v)) = 3 /\ RankOf(GicRedistributorMmio(v)) = 4
    BY DEF RankOf, Pl011Mmio, VirtioBlkMmio, GicDistributorMmio, GicRedistributorMmio
  <2> QED
    BY <2>1, <2>2
<1>3. \A r \in Int : Orderly(Nothing, r)
  BY NothingOrderly
<1>4. \A r \in Int : \A a, b : Orderly(a, r) /\ Orderly(b, r) => Orderly(a \o b, r)
  BY ConcatOrderly
<1>5. \A r \in Int : \A l \in Locks : \A a :
        Rank[l] > r /\ Orderly(a, Rank[l]) => Orderly(While(l, a), r)
  BY WhileOrderly
<1>6. \A r, t \in Int : \A a : t <= r /\ Orderly(a, r) => Orderly(a, t)
  <2> SUFFICES ASSUME NEW r \in Int, NEW t \in Int, NEW a, t <= r, Orderly(a, r)
               PROVE  Orderly(a, t)
    OBVIOUS
  <2>1. ASSUME NEW k \in DOMAIN a, a[k].op = "lock" PROVE Rank[a[k].lock] > t
    <3>1. Rank[a[k].lock] > r /\ a[k].lock \in Locks
      BY <2>1, StepParts DEF Orderly
    <3> QED
      BY <3>1, LockOrderAssumption
  <2> QED
    BY <2>1 DEF Orderly
<1> HIDE DEF MiniVisor
<1>10. Orderly(print, 7)
  BY <1>1, <1>3, <1>5 DEF print
<1>11. Orderly(allocate_pages, 6) /\ Orderly(free_pages, 6)
  BY <1>1, <1>3, <1>5, <1>10 DEF allocate_pages, free_pages
<1>12. Orderly(alloc, 6) /\ Orderly(dealloc, 6) /\ Orderly(trigger_interrupt, 6)
  BY <1>1, <1>3, <1>5, <1>10 DEF alloc, dealloc, trigger_interrupt
<1>13. Orderly(get_current_vm, 4) /\ Orderly(get_active_vm, 5) /\ Orderly(switch_active_vm, 4)
  BY <1>1, <1>3, <1>5 DEF get_current_vm, get_active_vm, switch_active_vm
<1>14. Orderly(boot_vm, 6)
  BY <1>4, <1>6, <1>10, <1>11 DEF boot_vm
<1>15. Orderly(switch_vm, 4)
  BY <1>4, <1>6, <1>10, <1>13 DEF switch_vm
<1>16. Orderly(Fat32_transfer, 6)
  BY <1>4, <1>6, <1>10, <1>11 DEF Fat32_transfer
<1>17. ASSUME NEW q \in handle_input(vms) PROVE Orderly(q, -1)
  <2>1. PICK a \in {print, While(CONSOLE, print)} \cup Console_write
                     \cup {input_uart(v) : v \in vms} : q = getc(a)
    BY <1>17 DEF handle_input
  <2>2. Orderly(print, 0) /\ Orderly(print, -1) /\ Orderly(boot_vm, 0) /\ Orderly(switch_vm, 0)
    BY <1>6, <1>10, <1>14, <1>15
  <2>3. Orderly(While(CONSOLE, print), -1)
    BY <1>1, <1>5, <2>2
  <2>4. ASSUME NEW b \in Console_write PROVE Orderly(b, -1)
    <3>1. PICK command \in {boot_vm, switch_vm} : b = While(CONSOLE, print \o command)
      BY <2>4 DEF Console_write
    <3>2. Orderly(print \o command, 0)
      BY <1>4, <2>2
    <3> QED
      BY <1>1, <1>5, <3>1, <3>2
  <2>5. ASSUME NEW v \in vms PROVE Orderly(input_uart(v), -1)
    <3>1. Orderly(While(GicDistributorMmio(v), trigger_interrupt), 1)
      BY <1>2, <1>5, <1>6, <1>12
    <3>2. Orderly(While(Pl011Mmio(v), While(GicDistributorMmio(v), trigger_interrupt)), -1)
      BY <1>2, <1>5, <3>1
    <3>3. Orderly(get_active_vm, -1)
      BY <1>6, <1>13
    <3> QED
      BY <1>4, <3>2, <3>3 DEF input_uart
  <2>6. Orderly(a, -1)
    BY <2>1, <2>2, <2>3, <2>4, <2>5
  <2>7. Orderly(While(PL011_DEVICE, Nothing), -1)
    BY <1>1, <1>3, <1>5
  <2> QED
    BY <1>4, <2>1, <2>6, <2>7 DEF getc
<1>18. ASSUME NEW v \in vms PROVE Orderly(maintenance_interrupt_handler(v), -1)
  <2>1. Orderly(get_current_vm, -1)
    BY <1>6, <1>13
  <2>2. /\ Orderly(While(GicDistributorMmio(v), Nothing), -1)
        /\ Orderly(While(GicRedistributorMmio(v), Nothing), -1)
    BY <1>2, <1>3, <1>5
  <2> QED
    BY <1>4, <2>1, <2>2 DEF maintenance_interrupt_handler
<1>19. ASSUME NEW v \in vms PROVE Orderly(inject_interrupt_handler(v), -1)
  <2>1. Orderly(dealloc \o add_virtual_interrupt, 4)
    BY <1>4, <1>6, <1>10, <1>12 DEF add_virtual_interrupt
  <2>2. Orderly(While(GicRedistributorMmio(v), dealloc \o add_virtual_interrupt), 3)
    BY <1>2, <1>5, <2>1
  <2>3. Orderly(While(GicDistributorMmio(v),
                      While(GicRedistributorMmio(v), dealloc \o add_virtual_interrupt)), -1)
    BY <1>2, <1>5, <2>2
  <2>4. Orderly(get_current_vm, -1)
    BY <1>6, <1>13
  <2> QED
    BY <1>4, <2>3, <2>4 DEF inject_interrupt_handler
<1>20. ASSUME NEW v \in vms PROVE Orderly(generic_timer_interrupt_handler(v), -1)
  <2>1. Orderly(While(GicRedistributorMmio(v), trigger_interrupt), -1)
    BY <1>2, <1>5, <1>6, <1>12
  <2>2. Orderly(get_current_vm, -1)
    BY <1>6, <1>13
  <2> QED
    BY <1>4, <2>1, <2>2 DEF generic_timer_interrupt_handler
<1>21. ASSUME NEW v \in vms, NEW q \in data_abort_handler(v) PROVE Orderly(q, -1)
  <2>1. PICK a \in {While(Pl011Mmio(v), print),
                    While(GicDistributorMmio(v), trigger_interrupt),
                    While(GicRedistributorMmio(v), trigger_interrupt)}
                   \cup {While(VirtioBlkMmio(v), o) : o \in operation(v)} : q = get_current_vm \o a
    BY <1>21 DEF data_abort_handler
  <2>2. /\ Orderly(print, 1) /\ Orderly(get_current_vm, 1) /\ Orderly(get_current_vm, -1)
        /\ Orderly(trigger_interrupt, 3) /\ Orderly(trigger_interrupt, 4)
        /\ Orderly(Fat32_transfer, 2) /\ Orderly(print, 2)
    <3>1. Orderly(print, 1) /\ Orderly(print, 2)
      BY <1>6, <1>10
    <3>2. Orderly(get_current_vm, 1) /\ Orderly(get_current_vm, -1)
      BY <1>6, <1>13
    <3>3. Orderly(trigger_interrupt, 3) /\ Orderly(trigger_interrupt, 4)
      BY <1>6, <1>12
    <3>4. Orderly(Fat32_transfer, 2)
      BY <1>6, <1>16
    <3> QED
      BY <3>1, <3>2, <3>3, <3>4
  <2>3. /\ Orderly(While(Pl011Mmio(v), print), -1)
        /\ Orderly(While(GicDistributorMmio(v), trigger_interrupt), -1)
        /\ Orderly(While(GicRedistributorMmio(v), trigger_interrupt), -1)
    BY <1>2, <1>5, <2>2
  <2>4. Orderly(Buffer, 1)
    <3>1. Orderly(Fat32_transfer \o print, 2)
      BY <1>4, <2>2
    <3>2. Orderly(While(VIRTIO_BLK, Fat32_transfer \o print), 1)
      BY <1>1, <1>5, <3>1
    <3> QED
      BY <1>4, <2>2, <3>2 DEF Buffer
  <2>5. ASSUME NEW o \in operation(v) PROVE Orderly(o, 1)
    <3>1. Orderly(While(GicDistributorMmio(v), trigger_interrupt), 1)
      BY <1>2, <1>5, <2>2
    <3>2. Orderly(get_current_vm \o print, 1)
      BY <1>4, <2>2
    <3>3. Orderly(get_current_vm \o Buffer \o get_current_vm \o print \o get_current_vm
                  \o While(GicDistributorMmio(v), trigger_interrupt), 1)
      BY <1>4, <2>2, <2>4, <3>1
    <3> QED
      BY <2>5, <3>2, <3>3, Zenon DEF operation
  <2>6. ASSUME NEW o \in operation(v) PROVE Orderly(While(VirtioBlkMmio(v), o), -1)
    BY <1>2, <1>5, <2>5
  <2>7. Orderly(a, -1)
    BY <2>1, <2>3, <2>6
  <2>8. Orderly(get_current_vm \o a, -1)
    BY <1>4, <2>2, <2>7
  <2> QED
    BY <2>1, <2>8
<1>22. Orderly(create_vm, 2)
  <2>1. Orderly(While(VM_LIST, alloc), 2)
    BY <1>1, <1>5, <1>6, <1>12
  <2>2. /\ Orderly(allocate_pages, 2) /\ Orderly(Fat32_transfer, 2) /\ Orderly(print, 2)
        /\ Orderly(switch_active_vm, 2)
    BY <1>6, <1>10, <1>11, <1>13, <1>16
  <2> QED
    BY <1>4, <2>1, <2>2 DEF create_vm
<1>23. Orderly(core_main, -1)
  <2>1. Orderly(While(VIRTIO_BLK, create_vm), -1) /\ Orderly(print, -1)
    BY <1>1, <1>5, <1>6, <1>10, <1>22
  <2> QED
    BY <1>4, <2>1 DEF core_main
<1>24. Orderly(main(int_id), -1)
  <2>1. Orderly(setup_memory, -1)
    <3>1. Orderly(While(MEMORY_ALLOCATOR, print), -1) /\ Orderly(print, -1)
      BY <1>1, <1>5, <1>6, <1>10
    <3> QED
      BY <1>4, <3>1 DEF setup_memory
  <2>2. Orderly(enable_serial_port_interrupt(int_id), -1)
    BY <1>1, <1>3, <1>5 DEF enable_serial_port_interrupt, MiniVisor
  <2>3. Orderly(create_vm, -1) /\ Orderly(While(VIRTIO_BLK, Nothing), -1)
    BY <1>1, <1>3, <1>5, <1>6, <1>22
  <2> QED
    BY <1>4, <2>1, <2>2, <2>3 DEF main
<1> QED
  BY <1>17, <1>18, <1>19, <1>20, <1>21, <1>23, <1>24 DEF HandlersOf

\* The hypervisor itself: with any number of CPUs and VMs, whichever of its
\* handlers run on them, a CPU that waits for a lock holds lower ones only, and
\* no CPUs wait for each other in a circle.
THEOREM MiniVisorNeverCircular ==
  ASSUME NEW vms, NEW int_id, MiniVisor(vms, int_id)
  PROVE  Spec => [](WaitsUpward /\ NoCircularWait)
<1>1. ASSUME NEW c \in CPUs, NEW p \in Paths[c] PROVE Scoped(p) /\ Ascending(p)
  <2>1. p \in HandlersOf(vms, int_id)
    BY <1>1 DEF MiniVisor
  <2> QED
    BY <2>1, HandlersOrderly DEF Orderly
<1>2. HandlersOrdered
  BY <1>1 DEF HandlersOrdered
<1> QED
  BY <1>2, OrderedNeverCircular
=============================================================================
