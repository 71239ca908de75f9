------------------------ MODULE VirtioBlkMmioProofs -------------------------
(* The emulated block device, proved for every queue size, every width of    *)
(* the counters, both builds and every mix of requests.                      *)
EXTENDS VirtioBlkMmio, Integers, FiniteSetTheorems, WellFoundedInduction, TLAPS

\* Every non-empty set of natural numbers has a least element.
LEMMA LeastNatural ==
  ASSUME NEW T, T \subseteq Nat, T # {}
  PROVE  \E x \in T : \A y \in T : x <= y
<1> DEFINE Less == OpToRel(<, Nat)
<1>1. IsWellFoundedOn(Less, Nat)
  BY NatLessThanWellFounded, Zenon
<1>2. \A x, y \in Nat : y < x => <<y, x>> \in Less
  BY DEF OpToRel
<1> HIDE DEF Less
<1>3. PICK x \in T : \A y \in T : ~(<<y, x>> \in Less)
  BY <1>1, WFMin, Zenon
<1>4. \A y \in T : ~(y < x)
  BY <1>2, <1>3, Zenon
<1> QED
  BY <1>4

-----------------------------------------------------------------------------
(* Counters that wrap, and the slots of a ring *)

\* What a remainder is.
LEMMA ModIs ==
  ASSUME NEW n \in Nat \ {0}, NEW z \in Nat
  PROVE  z % n \in 0 .. n - 1 /\ \E d \in Int : z = n * d + (z % n)
<1>1. z % n \in 0 .. n - 1
  OBVIOUS
<1>2. z \div n \in Int
  OBVIOUS
<1>3. z = n * (z \div n) + (z % n)
  OBVIOUS
<1> QED
  BY <1>1, <1>2, <1>3, Zenon

\* Two numbers less than n apart have different remainders.
LEMMA ModDistinct ==
  ASSUME NEW n \in Nat \ {0}, NEW y \in Nat, NEW z \in Nat, y < z, z < y + n
  PROVE  y % n # z % n
<1>1. PICK d \in Int : y = n * d + (y % n)
  BY ModIs, Zenon
<1>2. PICK e \in Int : z = n * e + (z % n)
  BY ModIs, Zenon
<1>3. SUFFICES ASSUME y % n = z % n PROVE FALSE
  OBVIOUS
<1>4. y % n \in Int
  BY ModIs
<1>5. z - y = n * (e - d)
  BY <1>1, <1>2, <1>3, <1>4
<1>6. e - d <= 0 \/ e - d >= 1
  OBVIOUS
<1>7. n * (e - d) <= 0 \/ n * (e - d) >= n
  BY <1>6
<1> QED
  BY <1>5, <1>7

\* Adding a multiple of q changes no remainder by q.
LEMMA ModMod ==
  ASSUME NEW n \in Nat \ {0}, NEW q \in Nat \ {0}, n % q = 0, NEW y \in Nat
  PROVE  (y + n) % q = y % q
<1> DEFINE z == y + n
<1>0. z \in Nat /\ z = y + n
  OBVIOUS
<1> HIDE DEF z
<1>1. PICK m \in Int : n = q * m + (n % q)
  BY ModIs, Zenon
<1>2. z % q \in 0 .. q - 1 /\ y % q \in 0 .. q - 1
  BY <1>0, ModIs
<1>3. PICK d \in Int : z = q * d + (z % q)
  BY <1>0, ModIs, Zenon
<1>4. PICK e \in Int : y = q * e + (y % q)
  BY ModIs, Zenon
<1>5. q * (e + m) = q * e + q * m
  OBVIOUS
<1>6. q * (e + m) + (y % q) = q * d + (z % q)
  BY <1>0, <1>1, <1>2, <1>3, <1>4, <1>5
<1>7. e + m \in Int
  OBVIOUS
<1> DEFINE k == e + m
           r == y % q
           t == z % q
<1>8. k \in Int /\ r \in 0 .. q - 1 /\ t \in 0 .. q - 1 /\ q * k + r = q * d + t
  BY <1>2, <1>6, <1>7
<1> HIDE DEF k, r, t
<1>9. r = t
  BY <1>8
<1> QED
  BY <1>9 DEF z, r, t

\* The number of values of a counter.
Wrap == 2^IdWidth

\* A ring is smaller than the range of the counters.
LEMMA WrapIs ==
  /\ Wrap \in Nat /\ QueueSize \in Nat
  /\ 0 < QueueSize /\ QueueSize < Wrap
  /\ \A x : x \in Ids <=> x \in Nat /\ x < Wrap
  BY VirtioAssumption DEF Wrap, Ids

\* A counter advanced, by cases.
LEMMA PlusIs ==
  ASSUME NEW x \in Ids, NEW n \in Nat, n <= Wrap
  PROVE  /\ Plus(x, n) = IF x + n < Wrap THEN x + n ELSE x + n - Wrap
         /\ Plus(x, n) \in Ids
<1> DEFINE z == x + n
<1>0. x \in Nat /\ Wrap \in Nat /\ 0 < Wrap /\ x < Wrap
  BY WrapIs
<1>1. Plus(x, n) = z % Wrap /\ z \in Nat /\ z < 2 * Wrap
  BY <1>0 DEF Plus, Wrap
<1> HIDE DEF z
<1>2. CASE z < Wrap
  <2>1. z % Wrap = z
    BY <1>0, <1>1, <1>2
  <2>2. Plus(x, n) = z
    BY <1>1, <2>1
  <2> QED
    BY <1>0, <1>1, <1>2, <2>2, WrapIs DEF z
<1>3. CASE z >= Wrap
  <2>1. z % Wrap = z - Wrap
    BY <1>0, <1>1, <1>3
  <2>2. Plus(x, n) = z - Wrap
    BY <1>1, <2>1
  <2> QED
    BY <1>0, <1>1, <1>3, <2>2, WrapIs DEF z
<1> QED
  BY <1>0, <1>1, <1>2, <1>3

\* The distance of two counters, by cases.
LEMMA MinusIs ==
  ASSUME NEW x \in Ids, NEW y \in Ids
  PROVE  /\ Minus(y, x) = IF y >= x THEN y - x ELSE y + Wrap - x
         /\ Minus(y, x) \in Ids
<1> DEFINE z == y + Wrap - x
<1>1. Minus(y, x) = z % Wrap /\ z \in Nat /\ z < 2 * Wrap /\ z \in Int
  BY WrapIs DEF Minus, Wrap
<1>0. z = y + Wrap - x
  OBVIOUS
<1> HIDE DEF z
<1>2. CASE z < Wrap
  <2>1. z % Wrap = z
    BY <1>1, <1>2, WrapIs
  <2> QED
    BY <1>0, <1>1, <1>2, <2>1, WrapIs
<1>3. CASE z >= Wrap
  <2>1. z % Wrap = z - Wrap
    BY <1>1, <1>3, WrapIs
  <2> QED
    BY <1>0, <1>1, <1>3, <2>1, WrapIs
<1> QED
  BY <1>1, <1>2, <1>3, WrapIs

\* Advancing twice is advancing once by the sum.
LEMMA PlusPlus ==
  ASSUME NEW x \in Ids, NEW m \in Nat, NEW n \in Nat, m + n <= Wrap
  PROVE  Plus(Plus(x, m), n) = Plus(x, m + n)
<1> DEFINE y == Plus(x, m)
<1>1. m <= Wrap /\ n <= Wrap /\ m + n \in Nat
  BY WrapIs
<1>2. y = (IF x + m < Wrap THEN x + m ELSE x + m - Wrap) /\ y \in Ids
  BY <1>1, PlusIs
<1>3. Plus(x, m + n) = IF x + (m + n) < Wrap THEN x + (m + n) ELSE x + (m + n) - Wrap
  BY <1>1, PlusIs
<1> HIDE DEF y
<1>4. Plus(y, n) = IF y + n < Wrap THEN y + n ELSE y + n - Wrap
  BY <1>1, <1>2, PlusIs
<1>5. x \in Nat /\ x < Wrap /\ Wrap \in Nat
  BY WrapIs
<1>6. Plus(y, n) = Plus(x, m + n)
  BY <1>2, <1>3, <1>4, <1>5
<1> QED
  BY <1>6 DEF y

\* A counter is as far from where it was as it has been advanced.
LEMMA MinusPlus ==
  ASSUME NEW x \in Ids, NEW y \in Ids
  PROVE  /\ Plus(x, Minus(y, x)) = y
         /\ \A n \in Nat : n < Wrap - Minus(y, x) => Minus(Plus(y, n), x) = Minus(y, x) + n
         /\ \A n \in Nat : n <= Minus(y, x) => Minus(y, Plus(x, n)) = Minus(y, x) - n
<1> DEFINE d == Minus(y, x)
<1>1. d = (IF y >= x THEN y - x ELSE y + Wrap - x) /\ d \in Ids
  BY MinusIs
<1>2. x \in Nat /\ x < Wrap /\ y \in Nat /\ y < Wrap /\ Wrap \in Nat /\ d \in Nat /\ d < Wrap
  BY <1>1, WrapIs
<1> HIDE DEF d
<1>3. Plus(x, d) = y
  <2>1. Plus(x, d) = IF x + d < Wrap THEN x + d ELSE x + d - Wrap
    BY <1>2, PlusIs
  <2> QED
    BY <1>1, <1>2, <2>1
<1>4. ASSUME NEW n \in Nat, n < Wrap - d PROVE Minus(Plus(y, n), x) = d + n
  <2> DEFINE z == Plus(y, n)
  <2>0. n <= Wrap
    BY <1>2, <1>4
  <2>1. z = (IF y + n < Wrap THEN y + n ELSE y + n - Wrap) /\ z \in Ids
    BY <2>0, PlusIs
  <2> HIDE DEF z
  <2>2. Minus(z, x) = IF z >= x THEN z - x ELSE z + Wrap - x
    BY <2>1, MinusIs
  <2>3. Minus(z, x) = d + n
    BY <1>1, <1>2, <1>4, <2>1, <2>2
  <2> QED
    BY <2>3 DEF z
<1>5. ASSUME NEW n \in Nat, n <= d PROVE Minus(y, Plus(x, n)) = d - n
  <2> DEFINE z == Plus(x, n)
  <2>0. n <= Wrap
    BY <1>2, <1>5
  <2>1. z = (IF x + n < Wrap THEN x + n ELSE x + n - Wrap) /\ z \in Ids
    BY <2>0, PlusIs
  <2> HIDE DEF z
  <2>2. Minus(y, z) = IF y >= z THEN y - z ELSE y + Wrap - z
    BY <2>1, MinusIs
  <2>3. Minus(y, z) = d - n
    BY <1>1, <1>2, <1>5, <2>1, <2>2
  <2> QED
    BY <2>3 DEF z
<1> QED
  BY <1>3, <1>4, <1>5 DEF d

\* The slot of the element that is n places after counter x.
Slot(x, n) == Plus(x, n) % QueueSize

\* A slot depends on the sum only.
LEMMA SlotIs ==
  ASSUME NEW x \in Ids, NEW n \in Nat, n <= Wrap
  PROVE  Slot(x, n) = (x + n) % QueueSize /\ Slot(x, n) \in Heads
<1> DEFINE z == Plus(x, n)
<1>0. x \in Nat /\ Wrap \in Nat /\ QueueSize \in Nat \ {0}
  BY WrapIs
<1>1. z = (IF x + n < Wrap THEN x + n ELSE x + n - Wrap) /\ z \in Nat
  BY PlusIs, WrapIs
<1>2. Slot(x, n) = z % QueueSize
  BY DEF Slot
<1> HIDE DEF z
<1>3. Slot(x, n) \in Heads
  <2>1. z % QueueSize \in 0 .. QueueSize - 1
    BY <1>0, <1>1
  <2> QED
    BY <1>2, <2>1 DEF Heads
<1>4. CASE x + n < Wrap
  <2>1. z = x + n
    BY <1>1, <1>4
  <2> QED
    BY <1>2, <1>3, <2>1
<1>5. CASE x + n >= Wrap
  <2>1. x + n = z + Wrap
    BY <1>0, <1>1, <1>5
  <2>2. Wrap % QueueSize = 0 /\ Wrap \in Nat \ {0}
    BY VirtioAssumption, WrapIs DEF Wrap
  <2>3. (z + Wrap) % QueueSize = z % QueueSize
    BY <1>0, <1>1, <2>2, ModMod, Zenon
  <2> QED
    BY <1>2, <1>3, <2>1, <2>3
<1> QED
  BY <1>0, <1>4, <1>5

\* QueueSize slots in a row are different, also across the wrap.
LEMMA SlotsDiffer ==
  ASSUME NEW x \in Ids, NEW m \in Nat, NEW n \in Nat, m < n, n < m + QueueSize, n <= Wrap
  PROVE  Slot(x, m) # Slot(x, n)
<1>1. Slot(x, m) = (x + m) % QueueSize /\ Slot(x, n) = (x + n) % QueueSize
  BY SlotIs, WrapIs
<1> DEFINE y == x + m
           z == x + n
<1>2. y \in Nat /\ z \in Nat /\ y < z /\ z < y + QueueSize /\ QueueSize \in Nat \ {0}
  BY WrapIs
<1> HIDE DEF y, z
<1>3. y % QueueSize # z % QueueSize
  BY <1>2, ModDistinct, Zenon
<1> QED
  BY <1>1, <1>3 DEF y, z

-----------------------------------------------------------------------------
(* What a ring holds between two counters *)

\* Its length and its elements.
LEMMA BetweenIs ==
  ASSUME NEW ring, NEW from \in Ids, NEW to \in Ids
  PROVE  /\ Minus(to, from) \in Nat /\ Minus(to, from) < Wrap
         /\ DOMAIN Between(ring, from, to) = 1 .. Minus(to, from)
         /\ \A k \in 1 .. Minus(to, from) :
              Between(ring, from, to)[k] = ring[Slot(from, k - 1)] /\ Slot(from, k - 1) \in Heads
<1>1. Minus(to, from) \in Nat /\ Minus(to, from) < Wrap
  BY MinusIs, WrapIs
<1> DEFINE d == Minus(to, from)
<1>2. Between(ring, from, to) = [k \in 1 .. d |-> ring[Slot(from, k - 1)]]
  BY DEF Between, Slot
<1> HIDE DEF d
<1>3. ASSUME NEW k \in 1 .. d PROVE Slot(from, k - 1) \in Heads
  <2>1. k - 1 \in Nat /\ k - 1 <= Wrap
    BY <1>1, WrapIs DEF d
  <2> QED
    BY <2>1, SlotIs
<1>4. ASSUME NEW k \in 1 .. d PROVE Between(ring, from, to)[k] = ring[Slot(from, k - 1)]
  BY <1>2
<1>5. DOMAIN Between(ring, from, to) = 1 .. d
  BY <1>2
<1> QED
  BY <1>1, <1>3, <1>4, <1>5 DEF d

\* It is a sequence.
LEMMA BetweenSeq ==
  ASSUME NEW S, NEW ring \in [Heads -> S], NEW from \in Ids, NEW to \in Ids
  PROVE  Between(ring, from, to) \in Seq(S) /\ Len(Between(ring, from, to)) = Minus(to, from)
<1> DEFINE b == Between(ring, from, to)
           d == Minus(to, from)
<1>0. /\ d \in Nat /\ DOMAIN b = 1 .. d
      /\ \A k \in 1 .. d : b[k] = ring[Slot(from, k - 1)] /\ Slot(from, k - 1) \in Heads
  BY BetweenIs
<1>1. d \in Nat /\ DOMAIN b = 1 .. d /\ \A k \in 1 .. d : b[k] \in S
  BY <1>0, Zenon
<1>2. b = [k \in 1 .. d |-> b[k]]
  BY <1>1 DEF Between
<1> HIDE DEF b, d
<1>3. b \in Seq(S)
  BY <1>1, <1>2
<1>4. Len(b) = d
  BY <1>1, <1>3
<1> QED
  BY <1>3, <1>4 DEF b, d

\* A ring with d elements between two counters gets n new ones, those of w,
\* behind them, and nothing else of it changes.
Behind(ring, ring2, w, from, to, n, d, end) ==
  /\ from \in Ids /\ to \in Ids /\ n \in Nat /\ d \in Nat
  /\ d = Minus(to, from) /\ d + n <= QueueSize /\ end = Plus(to, n)
  /\ \A k \in 1 .. n : ring2[Slot(to, k - 1)] = w[k]
  /\ \A s \in Heads : (\A k \in 1 .. n : Slot(to, k - 1) # s) => ring2[s] = ring[s]

\* The elements between the counters are then the d old ones and those of w.
Grown(ring, ring2, w, from, to, n, d, end) ==
  /\ Minus(end, from) = d + n /\ end \in Ids
  /\ \A k \in 1 .. d : Between(ring2, from, end)[k] = Between(ring, from, to)[k]
  /\ \A k \in 1 .. n : Between(ring2, from, end)[d + k] = w[k]

\* The new elements go into free slots.
LEMMA Extended ==
  ASSUME NEW ring, NEW ring2, NEW w, NEW from, NEW to, NEW n, NEW d, NEW end,
         Behind(ring, ring2, w, from, to, n, d, end)
  PROVE  Grown(ring, ring2, w, from, to, n, d, end)
<1>0. /\ Wrap \in Nat /\ QueueSize \in Nat /\ QueueSize < Wrap /\ d + n <= QueueSize
      /\ from \in Ids /\ to \in Ids /\ n \in Nat /\ d \in Nat
  BY WrapIs DEF Behind
<1>8. d = Minus(to, from) /\ end = Plus(to, n)
  BY DEF Behind
<1>1. Minus(end, from) = d + n
  <2>1. n < Wrap - d
    BY <1>0
  <2> QED
    BY <1>0, <1>8, <2>1, MinusPlus
<1>2. end \in Ids
  BY <1>0, <1>8, PlusIs
<1>3. Plus(from, d) = to
  BY <1>0, <1>8, MinusPlus
<1>4. ASSUME NEW k \in 1 .. n PROVE Slot(from, d + k - 1) = Slot(to, k - 1)
  <2>1. k - 1 \in Nat /\ d + (k - 1) <= Wrap /\ d + (k - 1) = d + k - 1
    BY <1>0
  <2>2. Plus(Plus(from, d), k - 1) = Plus(from, d + (k - 1))
    BY <1>0, <2>1, PlusPlus
  <2> QED
    BY <1>3, <2>1, <2>2 DEF Slot
<1>5. /\ \A k \in 1 .. (d + n) : Between(ring2, from, end)[k] = ring2[Slot(from, k - 1)]
      /\ \A k \in 1 .. d : Between(ring, from, to)[k] = ring[Slot(from, k - 1)]
                          /\ Slot(from, k - 1) \in Heads
  <2>1. \A k \in 1 .. Minus(end, from) : Between(ring2, from, end)[k] = ring2[Slot(from, k - 1)]
    BY <1>0, <1>2, BetweenIs, Zenon
  <2> QED
    BY <1>0, <1>8, <1>1, <2>1, BetweenIs, ZenonT(60)
<1>6. ASSUME NEW k \in 1 .. d PROVE Between(ring2, from, end)[k] = Between(ring, from, to)[k]
  <2>1. ASSUME NEW j \in 1 .. n PROVE Slot(to, j - 1) # Slot(from, k - 1)
    <3>1. /\ k - 1 \in Nat /\ d + j - 1 \in Nat /\ k - 1 < d + j - 1
          /\ d + j - 1 < (k - 1) + QueueSize /\ d + j - 1 <= Wrap
      BY <1>0
    <3>2. Slot(from, k - 1) # Slot(from, d + j - 1)
      BY <1>0, <3>1, SlotsDiffer
    <3> QED
      BY <1>4, <3>2
  <2>2. k \in 1 .. (d + n)
    BY <1>0
  <2> QED
    BY <1>5, <2>1, <2>2 DEF Behind
<1>7. ASSUME NEW k \in 1 .. n PROVE Between(ring2, from, end)[d + k] = w[k]
  <2> DEFINE m == d + k
  <2>1. m \in 1 .. (d + n) /\ Slot(from, m - 1) = Slot(to, k - 1)
    BY <1>0, <1>4
  <2> HIDE DEF m
  <2>2. Between(ring2, from, end)[m] = ring2[Slot(to, k - 1)]
    BY <1>5, <2>1
  <2>3. Between(ring2, from, end)[m] = w[k]
    BY <2>2 DEF Behind
  <2> QED
    BY <2>3 DEF m
<1> QED
  BY <1>1, <1>2, <1>6, <1>7 DEF Grown

\* Elements are taken from the front.
LEMMA Dropped ==
  ASSUME NEW ring, NEW from \in Ids, NEW to \in Ids, NEW n \in Nat, n <= Minus(to, from)
  PROVE  /\ Minus(to, Plus(from, n)) = Minus(to, from) - n /\ Plus(from, n) \in Ids
         /\ \A k \in 1 .. (Minus(to, from) - n) :
              Between(ring, Plus(from, n), to)[k] = Between(ring, from, to)[n + k]
<1> DEFINE d == Minus(to, from)
           start == Plus(from, n)
<1>0. Wrap \in Nat /\ d \in Nat /\ d < Wrap /\ n <= d
  BY WrapIs, BetweenIs
<1>1. Minus(to, start) = d - n
  BY MinusPlus
<1>2. start \in Ids
  BY <1>0, PlusIs
<1>3. ASSUME NEW k \in 1 .. (d - n) PROVE Between(ring, start, to)[k] = Between(ring, from, to)[n + k]
  <2>1. k - 1 \in Nat /\ n + (k - 1) <= Wrap /\ n + (k - 1) = (n + k) - 1 /\ n + k \in 1 .. d
    BY <1>0
  <2>2. Plus(start, k - 1) = Plus(from, (n + k) - 1)
    BY <2>1, PlusPlus
  <2>3. Between(ring, start, to)[k] = ring[Slot(start, k - 1)]
    BY <1>1, <1>2, BetweenIs
  <2>4. Between(ring, from, to)[n + k] = ring[Slot(from, (n + k) - 1)]
    BY <2>1, BetweenIs
  <2> QED
    BY <2>2, <2>3, <2>4 DEF Slot
<1> QED
  BY <1>1, <1>2, <1>3

-----------------------------------------------------------------------------
(* The queue that the two rings make up *)

\* u of length m, then w of length n: the chains of S, each older than the next.
Queue(u, m, w, n, S, o) ==
  /\ \A k \in 1 .. m : u[k] \in S
  /\ \A k \in 1 .. n : w[k] \in S
  /\ \A h \in S : (\E k \in 1 .. m : u[k] = h) \/ (\E k \in 1 .. n : w[k] = h)
  /\ \A i, j \in 1 .. m : i < j => <<u[i], u[j]>> \in o
  /\ \A i, j \in 1 .. n : i < j => <<w[i], w[j]>> \in o
  /\ \A i \in 1 .. m : \A j \in 1 .. n : <<u[i], w[j]>> \in o

\* The same of the concatenation, as RingsAgree says it.
LEMMA QueueIs ==
  ASSUME NEW T, NEW u \in Seq(T), NEW w \in Seq(T), NEW S, NEW o
  PROVE  LET q == u \o w
         IN  Queue(u, Len(u), w, Len(w), S, o)
               <=> (Range(q) = S /\ \A i, j \in DOMAIN q : i < j => <<q[i], q[j]>> \in o)
<1> DEFINE q == u \o w
           m == Len(u)
           n == Len(w)
<1>1. /\ m \in Nat /\ n \in Nat /\ DOMAIN q = 1 .. (m + n)
      /\ \A k \in 1 .. m : q[k] = u[k]
      /\ \A k \in 1 .. (m + n) : k > m => q[k] = w[k - m]
  OBVIOUS
<1>2. Range(q) = {q[k] : k \in DOMAIN q}
  BY DEF Range
<1> HIDE DEF q, m, n
<1>3. \A k \in 1 .. n : m + k \in 1 .. (m + n) /\ q[m + k] = w[k]
  <2> TAKE k \in 1 .. n
  <2>1. m + k \in 1 .. (m + n) /\ m + k > m /\ (m + k) - m = k
    BY <1>1
  <2> QED
    BY <1>1, <2>1
<1>4. \A k \in 1 .. m : k \in 1 .. (m + n)
  BY <1>1
<1>5. \A k \in 1 .. (m + n) : k \notin 1 .. m => k - m \in 1 .. n /\ q[k] = w[k - m]
  BY <1>1
<1>6. ASSUME Queue(u, m, w, n, S, o)
      PROVE  Range(q) = S /\ \A i, j \in DOMAIN q : i < j => <<q[i], q[j]>> \in o
  <2>1. \A h \in S : h \in Range(q)
    BY <1>1, <1>2, <1>3, <1>4, <1>6, Zenon DEF Queue
  <2>2. \A k \in DOMAIN q : q[k] \in S
    BY <1>1, <1>5, <1>6, Zenon DEF Queue
  <2>3. ASSUME NEW i \in DOMAIN q, NEW j \in DOMAIN q, i < j PROVE <<q[i], q[j]>> \in o
    <3>1. CASE i \in 1 .. m /\ j \in 1 .. m
      BY <1>1, <1>6, <2>3, <3>1 DEF Queue
    <3>2. CASE i \in 1 .. m /\ j \notin 1 .. m
      BY <1>1, <1>5, <1>6, <2>3, <3>2, Zenon DEF Queue
    <3>3. CASE i \notin 1 .. m /\ j \notin 1 .. m
      <4>1. i - m \in 1 .. n /\ j - m \in 1 .. n /\ i - m < j - m
        BY <1>1, <1>5, <2>3, <3>3
      <4> QED
        BY <1>1, <1>5, <1>6, <3>3, <4>1, ZenonT(60) DEF Queue
    <3> QED
      BY <1>1, <2>3, <3>1, <3>2, <3>3
  <2> QED
    BY <1>2, <2>1, <2>2, <2>3
<1>7. ASSUME Range(q) = S, \A i, j \in DOMAIN q : i < j => <<q[i], q[j]>> \in o
      PROVE  Queue(u, m, w, n, S, o)
  <2>1. \A k \in 1 .. m : u[k] \in S
    BY <1>1, <1>2, <1>4, <1>7
  <2>2. \A k \in 1 .. n : w[k] \in S
    BY <1>1, <1>2, <1>3, <1>7
  <2>3. ASSUME NEW h \in S PROVE (\E k \in 1 .. m : u[k] = h) \/ (\E k \in 1 .. n : w[k] = h)
    <3>1. PICK k \in 1 .. (m + n) : q[k] = h
      BY <1>1, <1>2, <1>7
    <3> QED
      BY <1>1, <1>5, <3>1
  <2>4. \A i, j \in 1 .. m : i < j => <<u[i], u[j]>> \in o
    BY <1>1, <1>4, <1>7, Zenon
  <2>5. ASSUME NEW i \in 1 .. n, NEW j \in 1 .. n, i < j PROVE <<w[i], w[j]>> \in o
    <3>1. m + i < m + j
      BY <1>1, <2>5
    <3> QED
      BY <1>1, <1>3, <1>7, <3>1, ZenonT(60)
  <2>6. ASSUME NEW i \in 1 .. m, NEW j \in 1 .. n PROVE <<u[i], w[j]>> \in o
    <3>1. i < m + j
      BY <1>1
    <3> QED
      BY <1>1, <1>3, <1>4, <1>7, <3>1, Zenon
  <2> QED
    BY <2>1, <2>2, <2>3, <2>4, <2>5, <2>6 DEF Queue
<1> QED
  BY <1>6, <1>7 DEF q, m, n

\* No chain is in the queue twice, so it is no longer than there are chains.
LEMMA QueueBounded ==
  ASSUME NEW u, NEW m \in Nat, NEW w, NEW n \in Nat, NEW S, NEW o, Queue(u, m, w, n, S, o),
         IsFiniteSet(S), \A h \in S : <<h, h>> \notin o
  PROVE  m + n <= Cardinality(S)
<1> DEFINE f == [k \in 1 .. (m + n) |-> IF k <= m THEN u[k] ELSE w[k - m]]
<1>1. \A k \in 1 .. (m + n) : k \in 1 .. m \/ k - m \in 1 .. n
  OBVIOUS
<1>2. f \in [1 .. (m + n) -> S]
  BY <1>1 DEF Queue
<1>3. ASSUME NEW i \in 1 .. (m + n), NEW j \in 1 .. (m + n), i < j PROVE f[i] # f[j]
  <2>1. <<f[i], f[j]>> \in o
    <3>1. CASE j <= m
      BY <1>3, <3>1 DEF Queue
    <3>2. CASE i <= m /\ j > m
      BY <1>1, <1>3, <3>2 DEF Queue
    <3>3. CASE i > m
      <4>1. i - m \in 1 .. n /\ j - m \in 1 .. n /\ i - m < j - m
        BY <1>3, <3>3
      <4>2. f[i] = w[i - m] /\ f[j] = w[j - m]
        BY <1>3, <3>3
      <4> QED
        BY <4>1, <4>2 DEF Queue
    <3> QED
      BY <1>3, <3>1, <3>2, <3>3
  <2>2. f[i] \in S
    BY <1>2
  <2> QED
    BY <2>1, <2>2
<1> HIDE DEF f
<1>4. \A i, j \in 1 .. (m + n) : i # j => f[i] # f[j]
  BY <1>3
<1>5. IsFiniteSet(1 .. (m + n)) /\ Cardinality(1 .. (m + n)) = m + n
  <2>1. m + n \in Int /\ 1 \in Int /\ m + n \in Nat
    OBVIOUS
  <2>2. Cardinality(1 .. (m + n)) = IF 1 > m + n THEN 0 ELSE (m + n) - 1 + 1
    BY <2>1, FS_Interval
  <2>3. IsFiniteSet(1 .. (m + n))
    BY <2>1, FS_Interval
  <2> QED
    BY <2>1, <2>2, <2>3
<1>6. Cardinality(S) \in Nat
  BY FS_CardinalityType
<1>7. ~(Cardinality(S) < Cardinality(1 .. (m + n)))
  BY <1>2, <1>4, <1>5, FS_PigeonHole
<1> QED
  BY <1>5, <1>6, <1>7

\* Chain h is appended to w, and is younger than the chains of B.
Joins(w, n, S, o, h, B, w2, n2, S2, o2) ==
  /\ n \in Nat /\ n2 = n + 1
  /\ \A k \in 1 .. n : w2[k] = w[k]
  /\ w2[n + 1] = h
  /\ S \subseteq B /\ S2 = S \cup {h} /\ o2 = o \cup (B \X {h})

\* A chain is submitted: it joins the end of the queue.
LEMMA QueueSubmits ==
  ASSUME NEW u, NEW m, NEW w, NEW n, NEW S, NEW o, Queue(u, m, w, n, S, o),
         NEW h, NEW B, NEW w2, NEW n2, NEW S2, NEW o2, Joins(w, n, S, o, h, B, w2, n2, S2, o2)
  PROVE  Queue(u, m, w2, n2, S2, o2)
<1> USE DEF Joins
<1>0. \A k \in 1 .. (n + 1) : k \in 1 .. n \/ k = n + 1
  OBVIOUS
<1>1. \A k \in 1 .. n : k \in 1 .. (n + 1)
  OBVIOUS
<1>2. n + 1 \in 1 .. (n + 1)
  OBVIOUS
<1>3. \A k \in 1 .. m : u[k] \in S \cup {h}
  BY DEF Queue
<1>4. \A k \in 1 .. (n + 1) : w2[k] \in S \cup {h}
  BY <1>0 DEF Queue
<1>5. ASSUME NEW g \in S \cup {h}
      PROVE  (\E k \in 1 .. m : u[k] = g) \/ (\E k \in 1 .. (n + 1) : w2[k] = g)
  <2>1. CASE g \in S
    BY <1>1, <2>1 DEF Queue
  <2>2. CASE g = h
    BY <1>2, <2>2
  <2> QED
    BY <1>5, <2>1, <2>2
<1>6. ASSUME NEW i \in 1 .. (n + 1), NEW j \in 1 .. (n + 1), i < j
      PROVE  <<w2[i], w2[j]>> \in o \cup (B \X {h})
  <2>1. i \in 1 .. n
    BY <1>6
  <2>2. CASE j \in 1 .. n
    BY <1>6, <2>1, <2>2 DEF Queue
  <2>3. CASE j = n + 1
    BY <2>1, <2>3 DEF Queue
  <2> QED
    BY <1>0, <2>2, <2>3
<1>7. ASSUME NEW i \in 1 .. m, NEW j \in 1 .. (n + 1)
      PROVE  <<u[i], w2[j]>> \in o \cup (B \X {h})
  <2>1. CASE j \in 1 .. n
    BY <2>1 DEF Queue
  <2>2. CASE j = n + 1
    BY <2>2 DEF Queue
  <2> QED
    BY <1>0, <2>1, <2>2
<1> QED
  BY <1>3, <1>4, <1>5, <1>6, <1>7 DEF Queue

\* The first a elements of w go to the end of u, and the next t (none or one) go.
Moves(u, m, w, n, S, a, t, u2, m2, w2, n2, S2) ==
  /\ m \in Nat /\ n \in Nat /\ a \in Nat /\ t \in {0, 1} /\ a + t <= n
  /\ m2 = m + a /\ n2 = n - (a + t)
  /\ \A k \in 1 .. m : u2[k] = u[k]
  /\ \A k \in 1 .. a : u2[m + k] = w[k]
  /\ \A k \in 1 .. (n - (a + t)) : w2[k] = w[a + t + k]
  /\ S2 = S \ {w[k] : k \in (a + 1) .. (a + t)}

\* The first a chains that wait are answered, and the next t are taken and stuck.
LEMMA QueueAnswers ==
  ASSUME NEW u, NEW m, NEW w, NEW n, NEW S, NEW o, Queue(u, m, w, n, S, o),
         \A h \in S : <<h, h>> \notin o, NEW a, NEW t, NEW u2, NEW m2, NEW w2, NEW n2, NEW S2,
         Moves(u, m, w, n, S, a, t, u2, m2, w2, n2, S2)
  PROVE  Queue(u2, m2, w2, n2, S2, o)
<1> USE DEF Moves
<1> DEFINE gone == {w[k] : k \in (a + 1) .. (a + t)}
           rest == n - (a + t)
<1>0. rest \in Nat /\ rest = n - (a + t)
  OBVIOUS
<1>1. \A k \in 1 .. (m + a) : k \in 1 .. m \/ (k - m \in 1 .. a /\ k - m \in 1 .. n /\ u2[k] = w[k - m])
  <2> TAKE k \in 1 .. (m + a)
  <2>1. CASE k <= m
    BY <2>1
  <2>2. CASE k > m
    <3>1. k - m \in 1 .. a /\ k - m \in 1 .. n /\ m + (k - m) = k
      BY <2>2
    <3> QED
      BY <3>1
  <2> QED
    BY <2>1, <2>2
<1>2. \A k \in 1 .. rest : a + t + k \in 1 .. n /\ a + t + k > a + t /\ w2[k] = w[a + t + k]
  OBVIOUS
<1>3. \A i, j \in 1 .. n : i # j => w[i] # w[j]
  <2>1. \A i, j \in 1 .. n : i < j => w[i] # w[j]
    BY Zenon DEF Queue
  <2> QED
    BY <2>1
<1>4. \A i \in 1 .. m : \A j \in 1 .. n : u[i] # w[j]
  BY Zenon DEF Queue
<1>5. \A k \in (a + 1) .. (a + t) : k \in 1 .. n
  OBVIOUS
<1>6. /\ \A i \in 1 .. m : u[i] \notin gone
      /\ \A i \in 1 .. n : i <= a \/ i > a + t => w[i] \notin gone
  BY <1>3, <1>4, <1>5
<1> HIDE DEF gone, rest
<1>7. ASSUME NEW k \in 1 .. (m + a) PROVE u2[k] \in S \ gone
  <2>1. CASE k \in 1 .. m
    BY <1>6, <2>1 DEF Queue
  <2>2. CASE k - m \in 1 .. a /\ k - m \in 1 .. n /\ u2[k] = w[k - m]
    BY <1>6, <2>2 DEF Queue
  <2> QED
    BY <1>1, <2>1, <2>2
<1>8. ASSUME NEW k \in 1 .. rest PROVE w2[k] \in S \ gone
  BY <1>2, <1>6 DEF Queue
<1>9. ASSUME NEW h \in S \ gone
      PROVE  (\E k \in 1 .. (m + a) : u2[k] = h) \/ (\E k \in 1 .. rest : w2[k] = h)
  <2>1. CASE \E k \in 1 .. m : u[k] = h
    BY <2>1
  <2>2. ASSUME NEW k \in 1 .. n, w[k] = h
        PROVE  (\E i \in 1 .. (m + a) : u2[i] = h) \/ (\E i \in 1 .. rest : w2[i] = h)
    <3>1. k \notin (a + 1) .. (a + t)
      BY <1>9, <2>2 DEF gone
    <3>2. CASE k <= a
      <4>1. k \in 1 .. a /\ m + k \in 1 .. (m + a)
        BY <3>2
      <4> QED
        BY <2>2, <4>1
    <3>3. CASE k > a + t
      <4> DEFINE i == k - (a + t)
      <4>1. i \in 1 .. rest /\ a + t + i = k
        BY <1>0, <3>3
      <4> QED
        BY <1>2, <2>2, <4>1
    <3> QED
      BY <3>1, <3>2, <3>3
  <2> QED
    BY <1>9, <2>1, <2>2 DEF Queue
<1>10. ASSUME NEW i \in 1 .. (m + a), NEW j \in 1 .. (m + a), i < j PROVE <<u2[i], u2[j]>> \in o
  <2>1. CASE j \in 1 .. m
    <3>1. i \in 1 .. m
      BY <1>10, <2>1
    <3> QED
      BY <1>10, <2>1, <3>1 DEF Queue
  <2>2. CASE i \in 1 .. m /\ j \notin 1 .. m
    BY <1>1, <2>2 DEF Queue
  <2>3. CASE i \notin 1 .. m
    <3>1. j \notin 1 .. m /\ i - m < j - m
      BY <1>10, <2>3
    <3>2. i - m \in 1 .. n /\ j - m \in 1 .. n /\ u2[i] = w[i - m] /\ u2[j] = w[j - m]
      BY <1>1, <2>3, <3>1
    <3> QED
      BY <3>1, <3>2 DEF Queue
  <2> QED
    BY <2>1, <2>2, <2>3
<1>11. ASSUME NEW i \in 1 .. rest, NEW j \in 1 .. rest, i < j PROVE <<w2[i], w2[j]>> \in o
  <2>1. a + t + i < a + t + j
    BY <1>11
  <2> QED
    BY <1>2, <2>1 DEF Queue
<1>12. ASSUME NEW i \in 1 .. (m + a), NEW j \in 1 .. rest PROVE <<u2[i], w2[j]>> \in o
  <2>1. CASE i \in 1 .. m
    BY <1>2, <2>1 DEF Queue
  <2>2. CASE i - m \in 1 .. a /\ i - m \in 1 .. n /\ u2[i] = w[i - m]
    <3>1. i - m < a + t + j
      BY <2>2
    <3> QED
      BY <1>2, <2>2, <3>1 DEF Queue
  <2> QED
    BY <1>1, <2>1, <2>2
<1>13. Queue(u2, m + a, w2, rest, S \ gone, o)
  BY <1>7, <1>8, <1>9, <1>10, <1>11, <1>12 DEF Queue
<1> QED
  BY <1>13 DEF rest, gone

\* The chains of u leave, and B is what remains in use.
Leaves(u, m, S, o, B, S2, o2) ==
  /\ m \in Nat /\ S2 = S \ {u[k] : k \in 1 .. m}
  /\ S2 \subseteq B /\ o2 = o \cap (B \X B)

\* The guest has seen the answers: their chains leave the front.
LEMMA QueueSeen ==
  ASSUME NEW u, NEW m, NEW w, NEW n, NEW S, NEW o, Queue(u, m, w, n, S, o),
         \A h \in S : <<h, h>> \notin o, NEW B, NEW S2, NEW o2, Leaves(u, m, S, o, B, S2, o2), NEW u2
  PROVE  Queue(u2, 0, w, n, S2, o2)
<1> USE DEF Leaves
<1>1. \A i \in 1 .. m : \A j \in 1 .. n : u[i] # w[j]
  BY Zenon DEF Queue
<1>2. \A k \in 1 .. n : w[k] \in S2
  BY <1>1 DEF Queue
<1>3. 1 .. 0 = {}
  OBVIOUS
<1>4. \A h \in S2 : \E k \in 1 .. n : w[k] = h
  BY DEF Queue
<1>5. \A i, j \in 1 .. n : i < j => <<w[i], w[j]>> \in o2
  BY <1>2 DEF Queue
<1> QED
  BY <1>2, <1>3, <1>4, <1>5 DEF Queue

-----------------------------------------------------------------------------
(* The inductive invariant *)

\* What the guest has written of the registers, and where the device therefore
\* looks for the rings.
SetUp ==
  /\ written # {} \/ page = NoQueue.page_size => queue.page_size = page
  /\ "num" \in written => queue.queue_size = QueueSize
  /\ "pfn" \in written => queue.descriptor = "frame"
  /\ {"num", "pfn"} \subseteq written =>
       /\ queue.avail_ring = AvailAt("frame", QueueSize)
       /\ queue.used_ring = UsedAt("frame", QueueSize, page)
  /\ mode # "reset" => {"num", "pfn"} \subseteq written

\* The rings hold the chains in use, oldest first, whatever the mode.
Queued ==
  /\ used_idx = used_id
  /\ \A h \in Heads : <<h, h>> \notin older
  /\ Queue(Unseen, Minus(used_idx, last_used), Waiting, Minus(avail_idx, last_avail_id),
           busy \ stuck, older)

\* The interrupt, whatever the mode.
Announced == Minus(used_idx, last_used) # 0 => quiet \/ (irq /\ interrupt_status)

\* The status bytes, whatever the mode.
Fresh ==
  /\ \A h \in busy : kind[h] \in Kinds
  /\ \A k \in 1 .. Minus(used_idx, last_used) :
       status[Unseen[k]] = "unset" => kind[Unseen[k]] = "badstatus"

IInv == TypeOK /\ SetUp /\ Queued /\ Announced /\ Fresh

\* The types of the rings and the counters.
Rings ==
  /\ last_avail_id \in Ids /\ used_id \in Ids /\ avail_idx \in Ids /\ used_idx \in Ids
  /\ last_used \in Ids
  /\ avail_ring \in [Heads -> Heads \cup {None}] /\ used_ring \in [Heads -> Heads \cup {None}]
  /\ kind \in [Heads -> Kinds \cup {None}]
  /\ status \in [Heads -> {"unset", "S_OK", "S_IOERR"}]
  /\ busy \subseteq Heads /\ older \subseteq busy \X busy /\ stuck \subseteq busy

\* Only this part of the type invariant concerns the queue.
LEMMA TypeRings == TypeOK => Rings
  BY DEF TypeOK, Rings

\* Lengths and elements of the two parts of the queue.
LEMMA RingsAre ==
  ASSUME Rings
  PROVE  /\ Unseen \in Seq(Heads \cup {None}) /\ Len(Unseen) = Minus(used_idx, last_used)
         /\ Waiting \in Seq(Heads \cup {None}) /\ Len(Waiting) = Minus(avail_idx, last_avail_id)
         /\ Minus(used_idx, last_used) \in Nat /\ Minus(avail_idx, last_avail_id) \in Nat
<1>1. Unseen \in Seq(Heads \cup {None}) /\ Len(Unseen) = Minus(used_idx, last_used)
  BY BetweenSeq, ZenonT(60) DEF Rings, Unseen
<1>2. Waiting \in Seq(Heads \cup {None}) /\ Len(Waiting) = Minus(avail_idx, last_avail_id)
  BY BetweenSeq, ZenonT(60) DEF Rings, Waiting
<1>3. Minus(used_idx, last_used) \in Nat /\ Minus(avail_idx, last_avail_id) \in Nat
  BY BetweenIs DEF Rings
<1> QED
  BY <1>1, <1>2, <1>3

\* There is room in the rings for what is in them, and for one more while a chain
\* is free.
LEMMA Room ==
  ASSUME Rings, Queued
  PROVE  /\ Minus(used_idx, last_used) + Minus(avail_idx, last_avail_id) <= QueueSize
         /\ \A h \in Heads \ busy :
              Minus(used_idx, last_used) + Minus(avail_idx, last_avail_id) < QueueSize
<1> DEFINE m == Minus(used_idx, last_used)
           n == Minus(avail_idx, last_avail_id)
           S == busy \ stuck
<1>1. IsFiniteSet(Heads) /\ Cardinality(Heads) = QueueSize
  <2>1. QueueSize \in Nat /\ 0 < QueueSize /\ QueueSize - 1 \in Int /\ 0 \in Int
    BY WrapIs
  <2>2. IsFiniteSet(0 .. QueueSize - 1)
    BY <2>1, FS_Interval
  <2>3. Cardinality(0 .. QueueSize - 1) = IF 0 > QueueSize - 1 THEN 0 ELSE (QueueSize - 1) - 0 + 1
    BY <2>1, FS_Interval
  <2> QED
    BY <2>1, <2>2, <2>3 DEF Heads
<1>2. S \in SUBSET Heads
  BY DEF Rings
<1>3. IsFiniteSet(S) /\ Cardinality(S) <= Cardinality(Heads)
  BY <1>1, <1>2, FS_Subset
<1>4. m \in Nat /\ n \in Nat
  BY RingsAre
<1>5. Queue(Unseen, m, Waiting, n, S, older) /\ \A h \in S : <<h, h>> \notin older
  BY <1>2 DEF Queued
<1> HIDE DEF m, n, S
<1>6. m + n <= Cardinality(S)
  BY <1>3, <1>4, <1>5, QueueBounded
<1>7. Cardinality(S) \in Nat /\ QueueSize \in Nat
  BY <1>3, FS_CardinalityType, WrapIs
<1>8. ASSUME NEW h \in Heads \ busy PROVE m + n < QueueSize
  <2>1. IsFiniteSet(Heads \ {h}) /\ Cardinality(Heads \ {h}) = QueueSize - 1
    BY <1>1, FS_RemoveElement
  <2>2. S \in SUBSET (Heads \ {h})
    BY <1>2 DEF S
  <2>3. Cardinality(S) <= Cardinality(Heads \ {h})
    BY <2>1, <2>2, FS_Subset
  <2> QED
    BY <1>4, <1>6, <1>7, <2>1, <2>3
<1>9. m + n <= QueueSize
  BY <1>1, <1>3, <1>4, <1>6, <1>7
<1> QED
  BY <1>8, <1>9 DEF m, n

\* The invariant is what the three properties say.
LEMMA IInvImplies ==
  ASSUME IInv
  PROVE  RingsAgree /\ CompletionAnnounced /\ StatusFresh
<1>1. Rings
  BY TypeRings DEF IInv
<1> DEFINE m == Minus(used_idx, last_used)
           n == Minus(avail_idx, last_avail_id)
<1>2. /\ Unseen \in Seq(Heads \cup {None}) /\ Len(Unseen) = m /\ m \in Nat
      /\ Waiting \in Seq(Heads \cup {None}) /\ Len(Waiting) = n
  BY <1>1, RingsAre
<1>3. LET q == Unseen \o Waiting
      IN  /\ Range(q) = busy \ stuck
          /\ \A i, j \in DOMAIN q : i < j => <<q[i], q[j]>> \in older
  <2>1. Queue(Unseen, Len(Unseen), Waiting, Len(Waiting), busy \ stuck, older)
    BY <1>2 DEF IInv, Queued
  <2> QED
    BY <1>2, <2>1, QueueIs
<1>4. RingsAgree
  <2>1. mode = "live" => /\ queue.avail_ring = AvailAt("frame", QueueSize)
                         /\ queue.used_ring = UsedAt("frame", QueueSize, page)
    BY DEF IInv, SetUp
  <2> QED
    BY <1>3, <2>1 DEF IInv, RingsAgree
<1>5. CompletionAnnounced
  <2>1. Unseen # <<>> => m # 0
    BY <1>2
  <2> QED
    BY <2>1 DEF IInv, Announced, CompletionAnnounced
<1>6. StatusFresh
  <2>1. DOMAIN Unseen = 1 .. m
    BY <1>2
  <2> QED
    BY <2>1 DEF IInv, Fresh, StatusFresh
<1> QED
  BY <1>4, <1>5, <1>6

-----------------------------------------------------------------------------
(* The steps *)

\* Two equal counters are at distance zero, and the empty queue is a queue.
LEMMA Empty ==
  /\ 0 \in Ids /\ Minus(0, 0) = 0
  /\ \A u, w, o : Queue(u, 0, w, 0, {}, o)
<1>1. 0 \in Ids
  BY WrapIs
<1>2. Minus(0, 0) = IF 0 >= 0 THEN 0 - 0 ELSE 0 + Wrap - 0
  BY <1>1, MinusIs
<1>3. 1 .. 0 = {}
  OBVIOUS
<1> QED
  BY <1>1, <1>2, <1>3 DEF Queue

\* VirtioBlkMmio::new.
LEMMA InitIInv == Init => IInv
<1> SUFFICES ASSUME Init PROVE IInv
  OBVIOUS
<1>1. TypeOK
  <2>1. queue \in [queue_size : {0, QueueSize}, page_size : Pages, descriptor : {"frame", None},
                avail_ring : {None} \cup ({"frame", None} \X {0, QueueSize}),
                used_ring : {None} \cup ({"frame", None} \X {0, QueueSize} \X Pages)]
    BY VirtioAssumption DEF Init, NoQueue
  <2>2. {last_avail_id, used_id, avail_idx, used_idx, last_used} \subseteq Ids
    BY Empty DEF Init
  <2>3. {interrupt_status, irq, quiet} \subseteq BOOLEAN
    BY Zenon DEF Init
  <2> QED
    BY <2>1, <2>2, <2>3 DEF Init, TypeOK
<1>2. SetUp
  BY DEF Init, SetUp, NoQueue
<1>3. Queued
  BY Empty DEF Init, Queued
<1>4. Announced
  BY Empty DEF Init, Announced
<1>5. Fresh
  <2>1. 1 .. 0 = {}
    OBVIOUS
  <2> QED
    BY <2>1, Empty DEF Init, Fresh
<1> QED
  BY <1>1, <1>2, <1>3, <1>4, <1>5 DEF IInv

\* A step that changes neither the rings nor the interrupt.
LEMMA QuietStep ==
  ASSUME Queued, Announced, Fresh,
         UNCHANGED <<interrupt_status, counters, guestRings, deviceRings, irq, busy, older,
                     stuck, quiet>>
  PROVE  Queued' /\ Announced' /\ Fresh'
<1>1. UNCHANGED <<interrupt_status, last_avail_id, used_id, avail_idx, avail_ring, kind, last_used,
                  used_idx, used_ring, status, irq, busy, older, stuck, quiet>>
  BY DEF counters, guestRings, deviceRings
<1>2. Unseen' = Unseen /\ Waiting' = Waiting
  BY <1>1 DEF Unseen, Waiting
<1>3. Queued'
  BY <1>1, <1>2 DEF Queued
<1>4. Announced'
  BY <1>1 DEF Announced
<1>5. Fresh'
  BY <1>1, <1>2 DEF Fresh
<1> QED
  BY <1>3, <1>4, <1>5

\* The registers are written.
LEMMA SetupIInv ==
  ASSUME IInv, Setup
  PROVE  IInv'
<1>1. Queued' /\ Announced' /\ Fresh'
  BY QuietStep DEF IInv, Setup
<1> DEFINE Q == [queue_size : {0, QueueSize}, page_size : Pages, descriptor : {"frame", None},
                avail_ring : {None} \cup ({"frame", None} \X {0, QueueSize}),
                used_ring : {None} \cup ({"frame", None} \X {0, QueueSize} \X Pages)]
<1>2. queue \in Q /\ page \in Pages /\ page' = page /\ mode' = mode /\ mode = "reset"
      /\ written \subseteq {"page", "num", "pfn"}
  BY DEF IInv, TypeOK, Setup
<1>3. queue' \in Q /\ written' \subseteq {"page", "num", "pfn"} /\ SetUp'
  <2>1. CASE written = {} /\ WriteGuestPageSize(page) /\ written' = {"page"}
    BY <1>2, <2>1 DEF WriteGuestPageSize, SetUp, NoQueue
  <2>2. CASE /\ "page" \in written \/ page = NoQueue.page_size
             /\ WriteQueueNum(QueueSize) /\ written' = written \cup {"num"}
    <3>1. queue' = [queue EXCEPT !.queue_size = QueueSize,
                                 !.avail_ring = <<queue.descriptor, QueueSize>>,
                                 !.used_ring = <<queue.descriptor, QueueSize, queue.page_size>>]
      BY <1>2, <2>2 DEF WriteQueueNum, Placed, AvailAt, UsedAt
    <3>2. queue.page_size = page
      BY <2>2 DEF IInv, SetUp
    <3> QED
      BY <1>2, <2>2, <3>1, <3>2, Zenon DEF IInv, SetUp, AvailAt, UsedAt
  <2>3. ASSUME NEW frame \in {"frame", None},
               "page" \in written \/ page = NoQueue.page_size, WriteQueuePfn(frame),
               written' = IF frame = None THEN written ELSE written \cup {"pfn"}
        PROVE  queue' \in Q /\ written' \subseteq {"page", "num", "pfn"} /\ SetUp'
    <3>1. queue.page_size = page
      BY <2>3 DEF IInv, SetUp
    <3>2. CASE frame = None
      BY <1>2, <2>3, <3>2 DEF WriteQueuePfn, IInv, SetUp, AvailAt, UsedAt
    <3>3. CASE frame # None
      <4>1. frame = "frame"
        BY <3>3
      <4>2. queue' = [queue EXCEPT !.descriptor = "frame",
                                   !.avail_ring = <<"frame", queue.queue_size>>,
                                   !.used_ring = <<"frame", queue.queue_size, queue.page_size>>]
        BY <1>2, <2>3, <3>3, <4>1 DEF WriteQueuePfn, Placed, AvailAt, UsedAt
      <4> QED
        BY <1>2, <2>3, <3>1, <3>3, <4>2, Zenon DEF IInv, SetUp, AvailAt, UsedAt
    <3> QED
      BY <3>2, <3>3
  <2> QED
    BY <2>1, <2>2, <2>3 DEF Setup
<1>4. TypeOK'
  BY <1>2, <1>3 DEF IInv, TypeOK, Setup, counters, guestRings, deviceRings
<1> QED
  BY <1>1, <1>3, <1>4 DEF IInv

\* The driver is ready.
LEMMA StartIInv ==
  ASSUME IInv, Start
  PROVE  IInv'
<1>1. Queued' /\ Announced' /\ Fresh'
  BY QuietStep DEF IInv, Start
<1>2. UNCHANGED <<build, queue, page, written>> /\ mode' = "live" /\ {"num", "pfn"} \subseteq written
  BY DEF Start, setup
<1>3. TypeOK'
  BY <1>2 DEF IInv, TypeOK, Start, counters, guestRings, deviceRings
<1>4. SetUp'
  BY <1>2 DEF IInv, SetUp
<1> QED
  BY <1>1, <1>3, <1>4 DEF IInv

\* The device is reset and the rings are cleared.
LEMMA ReprobeIInv ==
  ASSUME IInv, Reprobe
  PROVE  IInv'
<1>1. TypeOK'
  <2>1. (queue \in [queue_size : {0, QueueSize}, page_size : Pages, descriptor : {"frame", None},
                avail_ring : {None} \cup ({"frame", None} \X {0, QueueSize}),
                used_ring : {None} \cup ({"frame", None} \X {0, QueueSize} \X Pages)])'
    BY VirtioAssumption DEF Reprobe, Reset, NoQueue
  <2>2. ({last_avail_id, used_id, avail_idx, used_idx, last_used} \subseteq Ids)'
    BY Empty DEF Reprobe, Reset
  <2>3. ({interrupt_status, irq, quiet} \subseteq BOOLEAN)'
    BY Zenon DEF Reprobe, Reset, IInv, TypeOK
  <2>4. ({avail_ring, used_ring} \subseteq [Heads -> Heads \cup {None}])'
    BY DEF Reprobe
  <2> QED
    BY <2>1, <2>2, <2>3, <2>4 DEF Reprobe, Reset, IInv, TypeOK
<1>2. SetUp'
  BY DEF Reprobe, Reset, SetUp, NoQueue
<1>3. Queued'
  BY Empty DEF Reprobe, Reset, Queued
<1>4. Announced'
  BY Empty DEF Reprobe, Reset, Announced
<1>5. Fresh'
  <2>1. 1 .. 0 = {}
    OBVIOUS
  <2> QED
    BY <2>1, Empty DEF Reprobe, Reset, Fresh
<1> QED
  BY <1>1, <1>2, <1>3, <1>4, <1>5, SMTT(30) DEF IInv

\* A request is submitted.  Its chain is free, so there is a slot for it, and no
\* chain that is in the rings is touched.
LEMMA SubmitIInv ==
  ASSUME IInv, NEW h \in Heads, NEW c \in Kinds, Submit(h, c)
  PROVE  IInv'
<1> DEFINE m == Minus(used_idx, last_used)
           n == Minus(avail_idx, last_avail_id)
           S == busy \ stuck
<1>0. Rings /\ Queued /\ Announced /\ Fresh
  BY TypeRings DEF IInv
<1>1. /\ h \notin busy
      /\ kind' = [kind EXCEPT ![h] = c] /\ status' = [status EXCEPT ![h] = "unset"]
      /\ avail_ring' = [avail_ring EXCEPT ![avail_idx % QueueSize] = h]
      /\ avail_idx' = Plus(avail_idx, 1)
      /\ busy' = busy \cup {h} /\ older' = older \cup (busy \X {h})
      /\ UNCHANGED <<build, queue, page, written, mode, interrupt_status, last_avail_id, used_id,
                     last_used, used_idx, used_ring, irq, stuck, quiet>>
  BY DEF Submit, setup, counters
<1>2. m \in Nat /\ n \in Nat /\ m + n < QueueSize /\ n + 1 <= QueueSize /\ QueueSize \in Nat
  <2>1. m \in Nat /\ n \in Nat
    BY <1>0, RingsAre
  <2>2. m + n < QueueSize
    BY <1>0, <1>1, Room
  <2> QED
    BY <2>1, <2>2, WrapIs
<1>3. Plus(avail_idx, 0) = avail_idx /\ Slot(avail_idx, 0) = avail_idx % QueueSize
      /\ avail_idx % QueueSize \in Heads
  <2>1. avail_idx \in Ids /\ avail_idx \in Nat /\ avail_idx < Wrap /\ 0 <= Wrap /\ 0 \in Nat
        /\ Wrap \in Nat
    BY <1>0, WrapIs DEF Rings
  <2>2. Plus(avail_idx, 0) = avail_idx
    <3>1. Plus(avail_idx, 0) = IF avail_idx + 0 < Wrap THEN avail_idx + 0 ELSE avail_idx + 0 - Wrap
      BY <2>1, PlusIs
    <3> QED
      BY <2>1, <3>1
  <2>3. Slot(avail_idx, 0) \in Heads
    BY <2>1, SlotIs
  <2> QED
    BY <2>2, <2>3 DEF Slot
<1>4. /\ Minus(avail_idx', last_avail_id) = n + 1 /\ avail_idx' \in Ids
      /\ \A k \in 1 .. n : Waiting'[k] = Waiting[k]
      /\ Waiting'[n + 1] = h
  <2> DEFINE ring == avail_ring
             ring2 == avail_ring'
             from == last_avail_id
             to == avail_idx
             w == <<h>>
  <2>1. \A k \in 1 .. 1 : ring2[Slot(to, k - 1)] = w[k]
    BY <1>0, <1>1, <1>3 DEF Rings
  <2>2. \A s \in Heads : (\A k \in 1 .. 1 : Slot(to, k - 1) # s) => ring2[s] = ring[s]
    BY <1>0, <1>1, <1>3 DEF Rings
  <2>3. from \in Ids /\ to \in Ids /\ Minus(to, from) + 1 <= QueueSize /\ 1 \in Nat
    BY <1>0, <1>2 DEF Rings
  <2>4. w[1] = h /\ 1 \in 1 .. 1
    OBVIOUS
  <2>5. Waiting' = Between(ring2, from, Plus(to, 1)) /\ Waiting = Between(ring, from, to)
    BY <1>1 DEF Waiting
  <2>6. n = Minus(to, from) /\ avail_idx' = Plus(to, 1) /\ n + 1 <= QueueSize /\ n \in Nat
    BY <1>1, <1>2, SMTT(30)
  <2> DEFINE end == avail_idx'
  <2> HIDE DEF ring, ring2, from, to, w, n, end
  <2>7. /\ Minus(end, from) = n + 1 /\ end \in Ids
        /\ \A k \in 1 .. n : Between(ring2, from, end)[k] = Between(ring, from, to)[k]
        /\ \A k \in 1 .. 1 : Between(ring2, from, end)[n + k] = w[k]
    <3>1. end = Plus(to, 1)
      BY <2>6 DEF end
    <3>2. Behind(ring, ring2, w, from, to, 1, n, end)
      BY <2>1, <2>2, <2>3, <2>6, <3>1, SMTT(30) DEF Behind
    <3>3. Grown(ring, ring2, w, from, to, 1, n, end)
      BY <3>2, Extended, Zenon
    <3> QED
      BY <3>3 DEF Grown
  <2>8. Minus(end, from) = n + 1 /\ end \in Ids
        /\ (\A k \in 1 .. n : Waiting'[k] = Waiting[k]) /\ Waiting'[n + 1] = h
    BY <2>4, <2>5, <2>6, <2>7 DEF end
  <2> QED
    BY <2>8 DEF from, end
<1>5. Unseen' = Unseen
  BY <1>1 DEF Unseen
<1>6. Queue(Unseen, m, Waiting, n, S, older)
  BY <1>0 DEF Queued
<1>7. Queued'
  <2>1. S \subseteq busy /\ (busy' \ stuck') = S \cup {h}
    BY <1>0, <1>1, SMTT(30) DEF Rings
  <2>2. Minus(used_idx', last_used') = m /\ Minus(avail_idx', last_avail_id') = n + 1
    BY <1>1, <1>4, Zenon
  <2> HIDE DEF m, n, S
  <2>3. Queue(Unseen, m, Waiting', n + 1, busy' \ stuck', older')
    <3> DEFINE w == Waiting
               w2 == Waiting'
               S2 == busy' \ stuck'
               n2 == n + 1
    <3>1. /\ m \in Nat /\ n \in Nat /\ \A k \in 1 .. n : w2[k] = w[k]
          /\ w2[n + 1] = h /\ n2 = n + 1 /\ S2 = S \cup {h} /\ older' = older \cup (busy \X {h})
      BY <1>1, <1>2, <1>4, <2>1
    <3>2. Queue(Unseen, m, w, n, S, older) /\ S \subseteq busy
      BY <1>6, <2>1, SMTT(30)
    <3> HIDE DEF w, w2, S2, n2
    <3>3. Joins(w, n, S, older, h, busy, w2, n2, S2, older')
      BY <3>1, <3>2 DEF Joins
    <3>4. Queue(Unseen, m, w2, n2, S2, older')
      BY <3>2, <3>3, QueueSubmits
    <3> QED
      BY <3>4 DEF w2, S2, n2
  <2>4. \A g \in Heads : <<g, g>> \notin older'
    BY <1>0, <1>1, Zenon DEF Queued
  <2> QED
    BY <1>0, <1>1, <1>5, <2>2, <2>3, <2>4 DEF Queued
<1>8. Announced'
  BY <1>0, <1>1 DEF Announced
<1>9. Fresh'
  <2>1. \A g \in busy' : kind'[g] \in Kinds
    BY <1>0, <1>1, SMTT(30) DEF Fresh, Rings
  <2>2. ASSUME NEW k \in 1 .. m, status'[Unseen[k]] = "unset" PROVE kind'[Unseen[k]] = "badstatus"
    <3>1. Unseen[k] \in busy
      BY <1>6 DEF Queue
    <3>2. Unseen[k] # h /\ Unseen[k] \in Heads
      BY <1>0, <1>1, <3>1 DEF Rings
    <3>3. status'[Unseen[k]] = status[Unseen[k]] /\ kind'[Unseen[k]] = kind[Unseen[k]]
      BY <1>0, <1>1, <3>2, SMTT(30) DEF Rings
    <3> QED
      BY <1>0, <2>2, <3>3, ZenonT(60) DEF Fresh
  <2> QED
    BY <1>1, <1>5, <2>1, <2>2, SMTT(30) DEF Fresh
<1>10. TypeOK'
  <2>1. /\ avail_ring' \in [Heads -> Heads \cup {None}] /\ kind' \in [Heads -> Kinds \cup {None}]
        /\ status' \in [Heads -> {"unset", "S_OK", "S_IOERR"}]
    BY <1>0, <1>1, Zenon DEF Rings
  <2>2. busy' \subseteq Heads /\ older' \subseteq busy' \X busy' /\ stuck' \subseteq busy'
    BY <1>0, <1>1, SMTT(30) DEF Rings
  <2> QED
    BY <1>1, <1>4, <2>1, <2>2 DEF IInv, TypeOK
<1>11. SetUp'
  BY <1>1, Zenon DEF IInv, SetUp
<1> QED
  BY <1>7, <1>8, <1>9, <1>10, <1>11 DEF IInv

\* The guest takes the interrupt: if INTERRUPT_STATUS says so, it has seen every
\* answer.
LEMMA HandleInterruptIInv ==
  ASSUME IInv, HandleInterrupt
  PROVE  IInv'
<1> DEFINE m == Minus(used_idx, last_used)
           n == Minus(avail_idx, last_avail_id)
           S == busy \ stuck
<1>0. Rings /\ Queued /\ Announced /\ Fresh
  BY TypeRings DEF IInv
<1>1. /\ irq /\ irq' = FALSE /\ interrupt_status' = FALSE
      /\ UNCHANGED <<build, queue, page, written, mode, last_avail_id, used_id, avail_idx, avail_ring,
                     kind, used_idx, used_ring, status, stuck, quiet>>
      /\ last_used' = IF interrupt_status THEN used_idx ELSE last_used
      /\ busy' = IF interrupt_status THEN busy \ Range(Unseen) ELSE busy
      /\ older' = older \cap (busy' \X busy')
  BY DEF HandleInterrupt, setup, counters, deviceRings
<1>2. Waiting' = Waiting /\ m \in Nat /\ n \in Nat
  BY <1>0, <1>1, RingsAre DEF Waiting
<1>3. Queue(Unseen, m, Waiting, n, S, older) /\ \A h \in S : <<h, h>> \notin older
  BY <1>0 DEF Queued, Rings
<1>4. last_used' \in Ids
  BY <1>0, <1>1 DEF Rings
<1>5. ({interrupt_status, irq, quiet} \subseteq BOOLEAN)'
  BY <1>1, Zenon DEF IInv, TypeOK
<1>6. SetUp'
  BY <1>1 DEF IInv, SetUp
<1>7. CASE interrupt_status
  <2> DEFINE gone == {Unseen[k] : k \in 1 .. m}
  <2>1. Range(Unseen) = gone
    <3>1. DOMAIN Unseen = 1 .. m
      <4>1. Unseen \in Seq(Heads \cup {None}) /\ Len(Unseen) = m
        BY <1>0, RingsAre
      <4> QED
        BY <4>1
    <3> QED
      BY <3>1 DEF Range
  <2>2. Minus(used_idx, used_idx) = 0
    <3>1. used_idx \in Ids /\ used_idx \in Nat
      BY <1>0, WrapIs DEF Rings
    <3>2. Minus(used_idx, used_idx) = IF used_idx >= used_idx THEN used_idx - used_idx
                                      ELSE used_idx + Wrap - used_idx
      BY <3>1, MinusIs, SMTT(30)
    <3> QED
      BY <3>1, <3>2
  <2>3. stuck \cap gone = {}
    BY <1>3 DEF Queue
  <2> HIDE DEF gone
  <2>4. busy' = busy \ gone /\ last_used' = used_idx
    BY <1>1, <1>7, <2>1
  <2>5. busy' \ stuck' = S \ gone
    BY <1>1, <2>4
  <2>6. TypeOK'
    <3>1. busy' \subseteq Heads /\ older' \subseteq busy' \X busy' /\ stuck' \subseteq busy'
      BY <1>0, <1>1, <2>3, <2>4, SMTT(30) DEF Rings
    <3> QED
      BY <1>1, <1>4, <1>5, <3>1, SMTT(30) DEF IInv, TypeOK
  <2>7. Queued'
    <3> HIDE DEF m, n, S
    <3>1. Queue(Unseen', 0, Waiting, n, busy' \ stuck', older')
      <4> DEFINE S2 == busy' \ stuck'
      <4>1. S2 = S \ {Unseen[k] : k \in 1 .. m} /\ S2 \subseteq busy'
        BY <2>5 DEF gone
      <4> HIDE DEF S2
      <4>2. Leaves(Unseen, m, S, older, busy', S2, older')
        BY <1>1, <1>2, <4>1 DEF Leaves
      <4>3. Queue(Unseen', 0, Waiting, n, S2, older')
        BY <1>3, <4>2, QueueSeen
      <4> QED
        BY <4>3 DEF S2
    <3>2. Minus(used_idx', last_used') = 0 /\ Minus(avail_idx', last_avail_id') = n
      BY <1>1, <2>2, <2>4 DEF n
    <3> QED
      BY <1>0, <1>1, <1>2, <3>1, <3>2 DEF Queued
  <2>8. Announced'
    BY <1>1, <2>2, <2>4 DEF Announced
  <2>9. Fresh'
    <3>1. 1 .. 0 = {}
      OBVIOUS
    <3>2. \A h \in busy' : kind'[h] \in Kinds
      BY <1>0, <1>1, <2>4 DEF Fresh
    <3> QED
      BY <1>1, <2>2, <2>4, <3>1, <3>2, SMTT(30) DEF Fresh
  <2> QED
    BY <1>6, <2>6, <2>7, <2>8, <2>9 DEF IInv
<1>8. CASE ~interrupt_status
  <2>1. last_used' = last_used /\ busy' = busy /\ older' = older /\ Unseen' = Unseen
    BY <1>0, <1>1, <1>8 DEF Rings, Unseen
  <2>2. TypeOK'
    BY <1>1, <1>5, <2>1, SMTT(30) DEF IInv, TypeOK
  <2>3. Queued'
    BY <1>0, <1>1, <1>2, <2>1, ZenonT(60) DEF Queued
  <2>4. Announced'
    BY <1>0, <1>1, <1>8, <2>1, SMTT(30) DEF Announced
  <2>5. Fresh'
    BY <1>0, <1>1, <2>1 DEF Fresh
  <2> QED
    BY <1>6, <2>2, <2>3, <2>4, <2>5 DEF IInv
<1> QED
  BY <1>7, <1>8

\* The loop of operation answers the first a chains that wait, none of them
\* malformed, and takes t more, none or the malformed one that ends it.
Loop(a, t) ==
  /\ a \in Nat /\ t \in {0, 1} /\ a + t <= Minus(avail_idx, last_avail_id)
  /\ Taken = a + t /\ Answered = 1 .. a /\ Cardinality(Answered) = a
  /\ \A k \in 1 .. a : kind[Waiting[k]] # "malformed"
  /\ (1 .. Taken) \ Answered = (a + 1) .. (a + t)

\* In every state the loop ends in one of these ways.
LEMMA TakenIs ==
  ASSUME Rings
  PROVE  \E a, t : Loop(a, t)
<1> DEFINE n == Minus(avail_idx, last_avail_id)
           bad == {k \in DOMAIN Waiting : kind[Waiting[k]] = "malformed"}
<1>1. n \in Nat /\ DOMAIN Waiting = 1 .. n /\ Len(Waiting) = n
  <2>1. Waiting \in Seq(Heads \cup {None}) /\ Len(Waiting) = n
    BY RingsAre
  <2>2. n \in Nat
    BY RingsAre
  <2> QED
    BY <2>1, <2>2
<1>2. Taken = IF bad = {} THEN Len(Waiting) ELSE CHOOSE k \in bad : \A j \in bad : k <= j
  BY DEF Taken
<1>3. \A a \in Nat : Cardinality(1 .. a) = a
  <2> TAKE a \in Nat
  <2>1. 1 \in Int /\ a \in Int
    OBVIOUS
  <2>2. Cardinality(1 .. a) = IF 1 > a THEN 0 ELSE a - 1 + 1
    BY <2>1, FS_Interval
  <2> QED
    BY <2>2
<1>4. bad \subseteq 1 .. n /\ \A k \in 1 .. n : k \notin bad => kind[Waiting[k]] # "malformed"
  BY <1>1
<1>5. \A k \in bad : kind[Waiting[k]] = "malformed"
  OBVIOUS
<1> HIDE DEF bad, n
<1>6. CASE bad = {}
  <2>1. Taken = n
    BY <1>1, <1>2, <1>6
  <2>2. Answered = 1 .. n
    BY <1>4, <1>6, <2>1 DEF Answered
  <2>3. Loop(n, 0)
    <3>1. Cardinality(Answered) = n
      BY <1>1, <1>3, <2>2
    <3>2. \A k \in 1 .. n : kind[Waiting[k]] # "malformed"
      BY <1>4, <1>6
    <3>3. (1 .. Taken) \ Answered = (n + 1) .. (n + 0) /\ n = n + 0
      BY <1>1, <2>1, <2>2
    <3> QED
      BY <1>1, <2>1, <2>2, <3>1, <3>2, <3>3 DEF Loop, n
  <2> QED
    BY <2>3
<1>7. CASE bad # {}
  <2>1. \E k \in bad : \A j \in bad : k <= j
    <3>1. bad \subseteq Nat
      BY <1>1, <1>4
    <3> QED
      BY <1>7, <3>1, LeastNatural, ZenonT(60)
  <2>2. Taken = CHOOSE k \in bad : \A j \in bad : k <= j
    BY <1>2, <1>7
  <2>3. Taken \in bad /\ \A j \in bad : Taken <= j
    BY <2>1, <2>2, Zenon
  <2> DEFINE b == Taken
             a == b - 1
  <2>4. b \in 1 .. n /\ a \in Nat /\ b = a + 1 /\ a + 1 <= n
    BY <1>1, <1>4, <2>3
  <2>5. Answered = {k \in 1 .. b : kind[Waiting[k]] # "malformed"}
    BY DEF Answered
  <2>6. \A j \in bad : b <= j
    BY <2>3
  <2>7. kind[Waiting[b]] = "malformed"
    BY <1>5, <2>3
  <2> HIDE DEF a, b
  <2>8. \A k \in 1 .. a : kind[Waiting[k]] # "malformed"
    <3> TAKE k \in 1 .. a
    <3>1. k \in 1 .. n /\ ~(b <= k)
      BY <1>1, <2>4
    <3> QED
      BY <1>4, <2>6, <3>1
  <2>9. Answered = 1 .. a
    <3>1. \A k \in 1 .. b : k \in 1 .. a \/ k = b
      BY <2>4
    <3>2. \A k \in 1 .. a : k \in 1 .. b
      BY <2>4
    <3> QED
      BY <2>5, <2>7, <2>8, <3>1, <3>2
  <2>10. Loop(a, 1)
    <3>1. Cardinality(Answered) = a
      BY <1>3, <2>4, <2>9
    <3>2. (1 .. b) \ Answered = (a + 1) .. (a + 1)
      BY <2>4, <2>9
    <3> QED
      BY <2>4, <2>8, <2>9, <3>1, <3>2 DEF Loop, n, b
  <2> QED
    BY <2>10
<1> QED
  BY <1>6, <1>7

\* write_used puts the first a chains that wait into the a slots that follow.
LEMMA write_usedIs ==
  ASSUME Rings, Queued, NEW a \in Nat, a <= Minus(avail_idx, last_avail_id), write_used(a)
  PROVE  /\ Behind(used_ring, used_ring', Waiting, last_used, used_idx, a,
                  Minus(used_idx, last_used), used_idx')
         /\ used_ring' \in [Heads -> Heads \cup {None}]
<1> DEFINE m == Minus(used_idx, last_used)
           n == Minus(avail_idx, last_avail_id)
           K(s) == {j \in 1 .. a : Slot(used_idx, j - 1) = s}
<1>1. /\ m \in Nat /\ n \in Nat /\ m + n <= QueueSize /\ QueueSize \in Nat /\ QueueSize < Wrap
      /\ Wrap \in Nat
  BY RingsAre, Room, WrapIs, SMTT(30)
<1>2. used_idx = used_id /\ used_idx' = Plus(used_idx, a)
  BY DEF Queued, write_used
<1>3. used_ring' = [s \in Heads |-> IF K(s) = {} THEN used_ring[s] ELSE Waiting[CHOOSE j \in K(s) : TRUE]]
  BY <1>2 DEF write_used, Slot
<1>4. a <= n /\ m + a <= QueueSize
  BY <1>1
<1>5. last_used \in Ids /\ used_idx \in Ids
  BY DEF Rings
<1>6. \A j \in 1 .. a : Waiting[j] \in Heads \cup {None}
  <2>1. Waiting \in Seq(Heads \cup {None}) /\ Len(Waiting) = n
    BY RingsAre
  <2> HIDE DEF n
  <2> QED
    BY <1>1, <1>4, <2>1
<1>7. \A s \in Heads : K(s) # {} => (CHOOSE j \in K(s) : TRUE) \in K(s)
  OBVIOUS
<1>8. \A s : K(s) \subseteq 1 .. a
  OBVIOUS
<1>9. ASSUME NEW k \in 1 .. a PROVE Slot(used_idx, k - 1) \in Heads /\ K(Slot(used_idx, k - 1)) = {k}
  <2>1. ASSUME NEW i \in 1 .. a, NEW j \in 1 .. a, i < j
        PROVE  Slot(used_idx, i - 1) # Slot(used_idx, j - 1)
    <3>1. /\ i - 1 \in Nat /\ j - 1 \in Nat /\ i - 1 < j - 1 /\ j - 1 < (i - 1) + QueueSize
          /\ j - 1 <= Wrap
      BY <1>1, <1>4, <2>1
    <3> QED
      BY <1>5, <3>1, SlotsDiffer
  <2>2. \A j \in 1 .. a : Slot(used_idx, j - 1) = Slot(used_idx, k - 1) => j = k
    BY <2>1
  <2>3. k - 1 \in Nat /\ k - 1 <= Wrap
    BY <1>1, <1>4
  <2>4. Slot(used_idx, k - 1) \in Heads
    BY <1>5, <2>3, SlotIs
  <2> QED
    BY <2>2, <2>4
<1>10. \A s \in Heads : (\A k \in 1 .. a : Slot(used_idx, k - 1) # s) => K(s) = {}
  OBVIOUS
<1> HIDE DEF m, n, K
<1>11. \A k \in 1 .. a : used_ring'[Slot(used_idx, k - 1)] = Waiting[k]
  <2> TAKE k \in 1 .. a
  <2> DEFINE s == Slot(used_idx, k - 1)
  <2>1. s \in Heads /\ K(s) = {k}
    BY <1>9
  <2> HIDE DEF s
  <2>2. (CHOOSE j \in K(s) : TRUE) = k /\ K(s) # {}
    BY <2>1
  <2>3. used_ring'[s] = Waiting[k]
    BY <1>3, <2>1, <2>2
  <2> QED
    BY <2>3 DEF s
<1>12. \A s \in Heads : (\A k \in 1 .. a : Slot(used_idx, k - 1) # s) => used_ring'[s] = used_ring[s]
  BY <1>3, <1>10
<1>13. Behind(used_ring, used_ring', Waiting, last_used, used_idx, a, m, used_idx')
  BY <1>1, <1>2, <1>4, <1>5, <1>11, <1>12 DEF Behind, m
<1>14. used_ring' \in [Heads -> Heads \cup {None}]
  <2>1. \A s \in Heads : K(s) # {} => Waiting[CHOOSE j \in K(s) : TRUE] \in Heads \cup {None}
    BY <1>6, <1>7, <1>8
  <2>2. \A s \in Heads : used_ring[s] \in Heads \cup {None}
    BY DEF Rings
  <2> QED
    BY <1>3, <2>1, <2>2
<1> QED
  BY <1>13, <1>14 DEF m

\* A write of QUEUE_NOTIFY.
LEMMA operationIInv ==
  ASSUME IInv, operation, UNCHANGED <<setup, guestRings, busy, older>>
  PROVE  IInv'
<1> DEFINE m == Minus(used_idx, last_used)
           n == Minus(avail_idx, last_avail_id)
           S == busy \ stuck
<1>0. Rings /\ Queued /\ Fresh
  BY TypeRings DEF IInv
<1>1. PICK a, t : Loop(a, t)
  BY <1>0, TakenIs
<1>2. /\ a \in Nat /\ t \in {0, 1} /\ a + t <= n /\ a <= n /\ a + t \in Nat
      /\ m \in Nat /\ n \in Nat
  <2>1. m \in Nat /\ n \in Nat /\ a \in Nat /\ t \in {0, 1} /\ a + t <= n
    BY <1>0, <1>1, RingsAre, SMTT(30) DEF Loop
  <2> QED
    BY <2>1
<1>3. /\ UNCHANGED <<build, queue, page, written, avail_idx, avail_ring, kind, last_used, busy, older,
                     mode>>
      /\ last_avail_id' = Plus(last_avail_id, a + t) /\ write_used(a)
      /\ stuck' = stuck \cup {Waiting[k] : k \in (a + 1) .. (a + t)}
      /\ used_idx' = used_id' /\ status' \in [Heads -> {"unset", "S_OK", "S_IOERR"}]
      /\ \A h \in Heads : status'[h] \in
           IF h \in {Waiting[k] : k \in 1 .. a} THEN Answers(h) ELSE {status[h]}
      /\ quiet' \in BOOLEAN
      /\ IF quiet' THEN UNCHANGED <<interrupt_status, irq>> ELSE Announce
  <2>1. Taken = a + t /\ Answered = 1 .. a /\ Cardinality(Answered) = a
        /\ (1 .. Taken) \ Answered = (a + 1) .. (a + t)
    BY <1>1, SMTT(30) DEF Loop
  <2>2. UNCHANGED <<build, queue, page, written, avail_idx, avail_ring, kind, last_used, busy, older,
                    mode>>
    BY ZenonT(60) DEF operation, setup, guestRings
  <2>3. last_avail_id' = Plus(last_avail_id, a + t) /\ write_used(a)
    BY <2>1 DEF operation
  <2>4. stuck' = stuck \cup {Waiting[k] : k \in (a + 1) .. (a + t)}
    BY <2>1 DEF operation
  <2>5. \A h \in Heads : status'[h] \in
           IF h \in {Waiting[k] : k \in 1 .. a} THEN Answers(h) ELSE {status[h]}
    BY <2>1, SMTT(30) DEF operation
  <2> QED
    BY <2>2, <2>3, <2>4, <2>5, ZenonT(60) DEF operation, write_used
<1>4. /\ Behind(used_ring, used_ring', Waiting, last_used, used_idx, a, m, used_idx')
      /\ used_ring' \in [Heads -> Heads \cup {None}]
  BY <1>0, <1>2, <1>3, write_usedIs, ZenonT(60)
<1>5. /\ Minus(used_idx', last_used) = m + a /\ used_idx' \in Ids
      /\ \A k \in 1 .. m : Unseen'[k] = Unseen[k]
      /\ \A k \in 1 .. a : Unseen'[m + k] = Waiting[k]
  <2>1. Unseen' = Between(used_ring', last_used, used_idx')
    BY <1>3 DEF Unseen
  <2>2. Unseen = Between(used_ring, last_used, used_idx)
    BY DEF Unseen
  <2> HIDE DEF m
  <2>3. Behind(used_ring, used_ring', Waiting, last_used, used_idx, a, m, used_idx')
    BY <1>4, SMTT(30)
  <2>4. Grown(used_ring, used_ring', Waiting, last_used, used_idx, a, m, used_idx')
    BY <2>3, Extended, Zenon
  <2> QED
    BY <2>1, <2>2, <2>4, Zenon DEF Grown
<1>6. /\ Minus(avail_idx, last_avail_id') = n - (a + t) /\ last_avail_id' \in Ids
      /\ \A k \in 1 .. (n - (a + t)) : Waiting'[k] = Waiting[a + t + k]
  <2> DEFINE from == last_avail_id
             c == a + t
  <2>1. Waiting' = Between(avail_ring, Plus(from, c), avail_idx) /\ last_avail_id' = Plus(from, c)
    BY <1>3 DEF Waiting
  <2>2. Waiting = Between(avail_ring, from, avail_idx) /\ n = Minus(avail_idx, from)
    BY DEF Waiting
  <2>3. from \in Ids /\ avail_idx \in Ids /\ c \in Nat /\ c <= Minus(avail_idx, from)
    BY <1>0, <1>2 DEF Rings
  <2> HIDE DEF from, c, n
  <2>4. /\ Minus(avail_idx, Plus(from, c)) = Minus(avail_idx, from) - c /\ Plus(from, c) \in Ids
        /\ \A k \in 1 .. (Minus(avail_idx, from) - c) :
              Between(avail_ring, Plus(from, c), avail_idx)[k] = Between(avail_ring, from, avail_idx)[c + k]
    BY <2>3, Dropped
  <2>5. /\ Minus(avail_idx, last_avail_id') = n - c /\ last_avail_id' \in Ids
        /\ \A k \in 1 .. (n - c) : Waiting'[k] = Waiting[c + k]
    BY <2>1, <2>2, <2>4
  <2> QED
    BY <2>5 DEF c
<1>7. Queue(Unseen, m, Waiting, n, S, older) /\ \A h \in S : <<h, h>> \notin older
  BY <1>0, SMTT(30) DEF Queued, Rings
<1>8. \A k \in 1 .. n : Waiting[k] \in S
  BY <1>7, SMTT(30) DEF Queue
<1>9. Queued'
  <2> DEFINE m2 == m + a
             n2 == n - (a + t)
             S2 == busy' \ stuck'
  <2>1. S2 = S \ {Waiting[k] : k \in (a + 1) .. (a + t)}
    BY <1>3, SMTT(30)
  <2>2. Minus(used_idx', last_used') = m2 /\ Minus(avail_idx', last_avail_id') = n2
    BY <1>3, <1>5, <1>6, SMTT(30)
  <2>3. used_idx' = used_id' /\ \A h \in Heads : <<h, h>> \notin older'
    BY <1>0, <1>3, ZenonT(60) DEF Queued
  <2>4. m2 = m + a /\ n2 = n - (a + t)
    BY SMTT(30)
  <2> HIDE DEF m, n, S, m2, n2, S2
  <2>5. Moves(Unseen, m, Waiting, n, S, a, t, Unseen', m2, Waiting', n2, S2)
    BY <1>2, <1>5, <1>6, <2>1, <2>4, ZenonT(60) DEF Moves
  <2>6. Queue(Unseen', m2, Waiting', n2, S2, older)
    BY <1>7, <2>5, QueueAnswers, SMTT(30)
  <2> QED
    BY <1>3, <2>2, <2>3, <2>6, ZenonT(60) DEF Queued, S2
<1>10. TypeOK'
  <2>1. stuck' \subseteq busy'
    <3>1. \A k \in (a + 1) .. (a + t) : k \in 1 .. n
      BY <1>2
    <3>2. \A k \in (a + 1) .. (a + t) : Waiting[k] \in busy
      BY <1>8, <3>1, SMTT(30)
    <3> QED
      BY <1>0, <1>3, <3>2, ZenonT(60) DEF Rings
  <2>2. ({interrupt_status, irq, quiet} \subseteq BOOLEAN)'
    BY <1>3, ZenonT(60) DEF IInv, TypeOK, Announce
  <2>3. ({last_avail_id, used_id, avail_idx, used_idx, last_used} \subseteq Ids)'
    BY <1>0, <1>3, <1>5, <1>6, Zenon DEF Rings
  <2>4. ({avail_ring, used_ring} \subseteq [Heads -> Heads \cup {None}])'
    BY <1>0, <1>3, <1>4, ZenonT(60) DEF Rings
  <2> QED
    BY <1>3, <2>1, <2>2, <2>3, <2>4 DEF IInv, TypeOK
<1>11. SetUp'
  <2>1. UNCHANGED <<queue, page, written, mode>>
    BY <1>3, Zenon
  <2> QED
    BY <2>1, Zenon DEF IInv, SetUp
<1>12. Announced'
  BY <1>3, ZenonT(60) DEF Announced, Announce
<1>13. Fresh'
  <2>1. \A h \in busy' : kind'[h] \in Kinds
    BY <1>0, <1>3 DEF Fresh
  <2>2. ASSUME NEW k \in 1 .. (m + a), status'[Unseen'[k]] = "unset"
        PROVE  kind[Unseen'[k]] = "badstatus"
    <3>1. CASE k \in 1 .. m
      <4>1. Unseen'[k] = Unseen[k] /\ Unseen[k] \in Heads
        <5>1. Unseen[k] \in S
          BY <1>7, <3>1, ZenonT(60) DEF Queue
        <5>2. S \subseteq Heads
          BY <1>0, ZenonT(60) DEF Rings
        <5> QED
          BY <1>5, <3>1, <5>1, <5>2, ZenonT(60)
      <4>2. \A j \in 1 .. a : Unseen[k] # Waiting[j]
        <5>1. \A j \in 1 .. a : j \in 1 .. n
          BY <1>2
        <5>2. \A j \in 1 .. n : <<Unseen[k], Waiting[j]>> \in older /\ Unseen[k] \in S
          BY <1>7, <3>1 DEF Queue
        <5> QED
          BY <1>7, <5>1, <5>2, ZenonT(60)
      <4>3. status'[Unseen[k]] = status[Unseen[k]]
        BY <1>3, <4>1, <4>2
      <4> QED
        BY <1>0, <2>2, <3>1, <4>1, <4>3 DEF Fresh
    <3>2. CASE k \notin 1 .. m
      <4> DEFINE j == k - m
                 h == Waiting[j]
      <4>1. j \in 1 .. a /\ j \in 1 .. n /\ k = m + j
        BY <1>2, <3>2, SMTT(30)
      <4>2. Unseen'[k] = h
        BY <1>5, <4>1
      <4>3. h \in busy /\ h \in Heads /\ kind[h] # "malformed"
        BY <1>0, <1>1, <1>8, <4>1, SMTT(30) DEF Loop, Rings
      <4>4. kind[h] \in AllKinds
        BY <1>0, <4>3, VirtioAssumption DEF Fresh
      <4>5. h \in {Waiting[i] : i \in 1 .. a}
        BY <4>1
      <4> HIDE DEF h, j
      <4>6. status'[h] \in Answers(h)
        BY <1>3, <4>3, <4>5, SMTT(30)
      <4> QED
        BY <2>2, <4>2, <4>3, <4>4, <4>6, SMTT(30) DEF Answers, AllKinds
    <3> QED
      BY <3>1, <3>2
  <2>3. Minus(used_idx', last_used') = m + a /\ kind' = kind
    BY <1>3, <1>5
  <2> HIDE DEF m
  <2> QED
    BY <2>1, <2>2, <2>3, SMTT(30) DEF Fresh
<1> QED
  BY <1>9, <1>10, <1>11, <1>12, <1>13 DEF IInv

\* The dev build panics when a counter would overflow; nothing else changes.
LEMMA operation_panicsIInv ==
  ASSUME IInv, mode = "live", operation_panics, UNCHANGED <<setup, guestRings, busy, older>>
  PROVE  IInv'
<1>1. Queued' /\ Announced' /\ Fresh'
  BY QuietStep DEF IInv, operation_panics
<1>2. UNCHANGED <<build, queue, page, written>> /\ mode' = "panic"
  BY SMTT(30) DEF operation_panics, setup
<1>3. TypeOK'
  <2>1. /\ interrupt_status' = interrupt_status /\ irq' = irq /\ quiet' = quiet /\ stuck' = stuck
        /\ busy' = busy /\ older' = older /\ kind' = kind /\ status' = status
        /\ avail_ring' = avail_ring /\ used_ring' = used_ring
        /\ last_avail_id' = last_avail_id /\ used_id' = used_id
        /\ avail_idx' = avail_idx /\ used_idx' = used_idx /\ last_used' = last_used
    BY SMTT(30) DEF operation_panics, counters, guestRings, deviceRings
  <2>2. TypeOK /\ mode' \in {"reset", "live", "panic"}
    BY <1>2 DEF IInv
  <2> QED
    BY <1>2, <2>1, <2>2, Zenon DEF TypeOK
<1>4. SetUp'
  BY <1>2 DEF IInv, SetUp
<1> QED
  BY <1>1, <1>3, <1>4 DEF IInv

\* Every step keeps the invariant.
LEMMA NextIInv ==
  ASSUME IInv, [Next]_vars
  PROVE  IInv'
<1>1. CASE Notify
  BY <1>1, operationIInv, operation_panicsIInv DEF Notify
<1>2. CASE UNCHANGED vars
  <2>1. Queued' /\ Announced' /\ Fresh'
    BY <1>2, QuietStep, SMTT(30) DEF IInv, vars
  <2>2. TypeOK' /\ SetUp'
    BY <1>2 DEF IInv, TypeOK, SetUp, vars, setup, counters, guestRings, deviceRings
  <2> QED
    BY <2>1, <2>2 DEF IInv
<1> QED
  BY <1>1, <1>2, SetupIInv, StartIInv, SubmitIInv, HandleInterruptIInv, ReprobeIInv DEF Next

\* The device and the driver of the guest keep the invariant.
LEMMA VirtioInvariant == Spec => []IInv
  BY InitIInv, NextIInv, PTL DEF Spec

-----------------------------------------------------------------------------
(* What it comes to *)

\* The device answers every request of the guest at most once and in order, for
\* every queue size that divides the range of the counters, across their wrap,
\* after malformed requests and after resets.
THEOREM RequestsInOrder == Spec => []RingsAgree
<1>1. IInv => RingsAgree
  BY IInvImplies
<1> QED
  BY <1>1, VirtioInvariant, PTL

\* An answer that the guest has not seen is announced, unless operation()
\* returned early.
THEOREM AnswersAnnounced == Spec => []CompletionAnnounced
<1>1. IInv => CompletionAnnounced
  BY IInvImplies
<1> QED
  BY <1>1, VirtioInvariant, PTL

\* The guest never reads a status byte that the device has not written.
THEOREM NoStaleStatus == Spec => []StatusFresh
<1>1. IInv => StatusFresh
  BY IInvImplies
<1> QED
  BY <1>1, VirtioInvariant, PTL
=============================================================================
