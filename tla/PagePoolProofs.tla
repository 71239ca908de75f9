--------------------------- MODULE PagePoolProofs ---------------------------
(* The ownership of memory in PagePool, for any memory and any requests.    *)
EXTENDS PagePool, TLAPS

\* Blocks are not empty: two of them with the same start would overlap.
IInv ==
  /\ \A b \in blocks : b[2] \in Nat \ {0} /\ b[1] \in Nat
  /\ avail \cup gone \subseteq Nat
  /\ NoDoubleOwner

\* A fresh allocator owns nothing.
LEMMA InitIInv == Init => IInv
  BY DEF Init, IInv, NoDoubleOwner

\* Handing the RAM over and every later call keep the invariant.
LEMMA NextIInv == Sized /\ IInv /\ [Next]_vars => IInv'
<1> SUFFICES ASSUME Sized, IInv, [Next]_vars PROVE IInv'
  OBVIOUS
<1>1. CASE Populate
  BY <1>1 DEF Sized, Populate, IInv, NoDoubleOwner
<1>2. ASSUME NEW start \in avail, NEW end \in avail, Reserve(start, end) PROVE IInv'
  BY <1>2 DEF Reserve, IInv, NoDoubleOwner
<1>3. ASSUME NEW r \in Requests, NEW start \in avail, Allocate(start, r[1], r[2])
      PROVE  IInv'
  <2>1. r[1] \in Nat \ {0} /\ start \in Nat
    BY DEF Sized, IInv
  <2> DEFINE new == <<start, r[1]>>
  <2>2. new \in blocks' /\ new[1] = start /\ new[2] = r[1]
    BY <1>3 DEF Allocate
  <2>3. \A b \in blocks' : b = new \/ b \in blocks
    BY <1>3 DEF Allocate
  <2>4. \A b \in blocks : Block(b[1], b[2]) \cap Block(start, r[1]) = {}
    BY <1>3 DEF Allocate, IInv, NoDoubleOwner
  <2>5. Block(start, r[1]) \cap (avail' \cup gone') = {}
    BY <1>3 DEF Allocate, IInv, NoDoubleOwner
  <2>6. avail' \subseteq avail /\ gone' = gone
    BY <1>3 DEF Allocate
  <2> HIDE DEF new
  <2>7. NoDoubleOwner'
    BY <2>2, <2>3, <2>4, <2>5, <2>6 DEF IInv, NoDoubleOwner
  <2> QED
    BY <2>1, <2>2, <2>3, <2>6, <2>7, Zenon DEF IInv
<1>4. ASSUME NEW b \in blocks, Release(b[1], b[2]) PROVE IInv'
  <2>1. PICK c \in blocks : c = <<b[1], b[2]>> /\ blocks' = blocks \ {c}
    BY <1>4 DEF Release
  <2>2. c[1] = b[1] /\ c[2] = b[2]
    BY <2>1
  <2>3. \/ avail' = avail \cup Block(c[1], c[2]) /\ UNCHANGED gone
        \/ gone' = gone \cup Block(c[1], c[2]) /\ UNCHANGED avail
    BY <1>4, <2>2 DEF Release
  <2>4. Block(c[1], c[2]) \subseteq Nat
    BY DEF Block, IInv
  <2>5. NoDoubleOwner'
    BY <2>1, <2>3 DEF IInv, NoDoubleOwner
  <2> QED
    BY <2>1, <2>3, <2>4, <2>5 DEF IInv
<1>5. CASE UNCHANGED vars
  BY <1>5 DEF vars, IInv, NoDoubleOwner
<1> QED
  BY <1>1, <1>2, <1>3, <1>4, <1>5 DEF Next

\* Whatever is allocated and freed in whatever order, no two clients of the
\* allocator ever own the same memory, and none owns memory that is free.
THEOREM PoolNoDoubleOwner == Sized => (Spec => []NoDoubleOwner)
<1> SUFFICES ASSUME Sized PROVE Spec => []NoDoubleOwner
  OBVIOUS
<1>1. Init => IInv
  BY InitIInv
<1>2. IInv /\ [Next]_vars => IInv'
  BY NextIInv
<1>3. IInv => NoDoubleOwner
  BY DEF IInv
<1> QED
  BY <1>1, <1>2, <1>3, PTL DEF Spec
=============================================================================
