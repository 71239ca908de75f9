-------------------------- MODULE Pl011MmioProofs ---------------------------
(* What the emulated UART promises, for every buffer length, every set of    *)
(* bytes and every bound on the input.                                       *)
EXTENDS Pl011Mmio, TLAPS

\* The inductive invariant: read_buffer is the window of the input that follows
\* what was read, and the last slot fills what is left of the buffer - with Nul
\* until the buffer was full, with the last byte stored ever after.
Window ==
  /\ Len(accepted) <= MaxInput /\ Len(accepted) <= Len(delivered) + BufferLen
  /\ \A i \in Slots : read_buffer[i] = IF Len(delivered) + i <= Len(accepted)
                                       THEN accepted[Len(delivered) + i] ELSE read_buffer[BufferLen]
  /\ \A k \in 1 .. Len(delivered) : delivered[k] = IF k <= Len(accepted) THEN accepted[k]
                                                   ELSE read_buffer[BufferLen]

\* While the buffer was never full nothing is read twice, and RXFE is right.
NeverAhead ==
  ~EverFull => /\ Len(delivered) <= Len(accepted)
               /\ accepted # <<>> => (rxfe <=> Len(delivered) = Len(accepted))

IInv == TypeOK /\ Window /\ NeverAhead

\* Pl011Mmio::new leaves an empty window.
LEMMA InitIInv == Init => IInv
<1> SUFFICES ASSUME Init PROVE IInv
  OBVIOUS
<1>1. BufferLen \in Slots /\ Len(accepted) = 0 /\ Len(delivered) = 0
  BY Pl011Assumption DEF Init, Slots
<1>2. TypeOK
  <2>1. {rxfe, rxim, rxris, irq} \subseteq BOOLEAN
    BY Zenon DEF Init
  <2> QED
    BY <2>1 DEF Init, TypeOK
<1>3. Window
  <2>1. \A i \in Slots : read_buffer[i] = Nul /\ ~(0 + i <= 0)
    BY DEF Init, Slots
  <2> QED
    BY <1>1, <2>1, Pl011Assumption DEF Window
<1>4. NeverAhead
  BY <1>1 DEF Init, NeverAhead
<1> QED
  BY <1>2, <1>3, <1>4 DEF IInv

\* push stores a byte behind the window, or drops it when the buffer is full.
LEMMA PushIInv ==
  ASSUME IInv, NEW b \in Bytes, Push(b)
  PROVE  IInv'
<1> DEFINE d == Len(delivered)
           a == Len(accepted)
           last == read_buffer[BufferLen]
<1>0. /\ d \in Nat /\ a \in Nat /\ BufferLen \in Nat \ {0} /\ BufferLen \in Slots /\ 1 \in Slots
      /\ MaxInput \in Nat /\ Nul \notin Bytes /\ accepted \in Seq(Bytes) /\ delivered \in Seq(Bytes)
      /\ read_buffer \in [Slots -> Bytes \cup {Nul}] /\ d' = d
      /\ delivered' = delivered
  BY Pl011Assumption DEF IInv, TypeOK, Slots, Push
<1>1. \A i \in Slots : read_buffer[i] = IF d + i <= a THEN accepted[d + i] ELSE last
  BY DEF IInv, Window
<1>2. \A i \in Slots : d + i <= a => accepted[d + i] \in Bytes
  BY <1>0 DEF Slots
<1>3. CASE EverFull
  <2>1. \A k \in Slots : read_buffer[k] # Nul
    BY <1>0, <1>1, <1>2, <1>3 DEF EverFull
  <2>2. read_buffer' = read_buffer /\ accepted' = accepted
    BY <1>0, <2>1, Zenon DEF Push, FirstFree
  <2> QED
    BY <1>3, <2>2, Zenon DEF IInv, TypeOK, Window, NeverAhead, EverFull, Push
<1>4. CASE ~EverFull
  <2>1. last = Nul /\ d <= a /\ a < d + BufferLen
    BY <1>0, <1>1, <1>2, <1>4 DEF EverFull, IInv, NeverAhead
  <2>2. FirstFree = {a - d + 1} /\ a - d + 1 \in Slots
    <3>1. a - d + 1 \in Slots
      BY <1>0, <2>1 DEF Slots
    <3>2. \A i \in Slots : read_buffer[i] = Nul <=> i >= a - d + 1
      BY <1>0, <1>1, <1>2, <2>1, SMTT(30) DEF Slots
    <3>3. a - d + 1 \in FirstFree
      BY <1>0, <2>1, <3>1, <3>2 DEF FirstFree, Slots
    <3>4. ASSUME NEW k \in FirstFree PROVE k = a - d + 1
      <4>1. k \in Slots /\ k >= a - d + 1 /\ \A j \in 1 .. k - 1 : read_buffer[j] # Nul
        BY <3>2, <3>4 DEF FirstFree
      <4>2. ~(a - d + 1 \in 1 .. k - 1)
        BY <3>1, <3>2, <4>1
      <4> QED
        BY <1>0, <2>1, <4>1, <4>2 DEF Slots
    <3> QED
      BY <3>1, <3>3, <3>4
  <2>3. accepted' = Append(accepted, b) /\ a' = a + 1
    BY <1>0, <2>2 DEF Push
  <2>4. read_buffer' = [k \in Slots |-> IF k = a - d + 1 THEN b ELSE read_buffer[k]]
    BY <2>2 DEF Push
  <2>5. \A k \in 1 .. a : accepted'[k] = accepted[k]
    BY <1>0, <2>3
  <2>6. accepted'[a + 1] = b
    BY <1>0, <2>3
  <2>7. read_buffer'[BufferLen] = IF BufferLen = a - d + 1 THEN b ELSE Nul
    BY <1>0, <2>1, <2>4
  <2>8. ASSUME NEW i \in Slots
        PROVE  read_buffer'[i] = IF d + i <= a + 1 THEN accepted'[d + i] ELSE read_buffer'[BufferLen]
    <3>1. CASE i = a - d + 1
      <4>1. d + i = a + 1 /\ read_buffer'[i] = b
        BY <1>0, <2>1, <2>4, <3>1
      <4> QED
        BY <1>0, <2>6, <4>1
    <3>2. CASE i < a - d + 1
      <4>1. d + i <= a /\ d + i <= a + 1 /\ d + i \in 1 .. a /\ i # a - d + 1
        BY <1>0, <2>1, <3>2 DEF Slots
      <4>2. read_buffer'[i] = accepted[d + i]
        BY <1>1, <2>4, <4>1
      <4> QED
        BY <2>5, <4>1, <4>2
    <3>3. CASE i > a - d + 1
      <4>1. ~(d + i <= a + 1) /\ i # a - d + 1 /\ BufferLen # a - d + 1 /\ ~(d + i <= a)
        BY <1>0, <2>1, <3>3 DEF Slots
      <4>2. read_buffer'[i] = read_buffer[i] /\ read_buffer[i] = Nul
        BY <1>1, <2>1, <2>4, <4>1
      <4> QED
        BY <2>7, <4>1, <4>2
    <3> QED
      BY <1>0, <2>1, <3>1, <3>2, <3>3 DEF Slots
  <2>9. \A k \in 1 .. d : delivered[k] = accepted[k]
    BY <1>0, <2>1 DEF IInv, Window
  <2>10. Window'
    <3>1. a + 1 <= MaxInput /\ a + 1 <= d + BufferLen
      BY <1>0, <2>1 DEF Push
    <3>2. \A k \in 1 .. d : k <= a + 1 /\ delivered[k] = accepted'[k]
      BY <1>0, <2>1, <2>5, <2>9
    <3>3. Len(accepted') = a + 1 /\ Len(delivered') = d /\ delivered' = delivered
      BY <1>0, <2>3
    <3> HIDE DEF d, a
    <3> QED
      BY <2>8, <3>1, <3>2, <3>3 DEF Window
  <2>11. NeverAhead'
    BY <1>0, <2>1, <2>3 DEF NeverAhead, Push
  <2>12. TypeOK'
    <3>1. read_buffer' \in [Slots -> Bytes \cup {Nul}]
      BY <1>0, <2>4
    <3>2. accepted' \in Seq(Bytes)
      BY <1>0, <2>3
    <3>3. {rxfe, rxim, rxris, irq}' \subseteq BOOLEAN
      BY Zenon DEF IInv, TypeOK, Push
    <3> QED
      BY <3>1, <3>2, <3>3 DEF IInv, TypeOK, Push
  <2> QED
    BY <2>10, <2>11, <2>12 DEF IInv
<1> QED
  BY <1>3, <1>4

\* A read of UART_DR moves the window by one, if there is anything to read.
LEMMA ReadIInv ==
  ASSUME IInv, ReadDr, UNCHANGED <<accepted, irq>>,
         guest' \in {"off", "starting", "unmasking", "idle", "draining"}
  PROVE  IInv'
<1> DEFINE d == Len(delivered)
           a == Len(accepted)
           last == read_buffer[BufferLen]
<1>0. /\ d \in Nat /\ a \in Nat /\ BufferLen \in Nat \ {0} /\ BufferLen \in Slots /\ 1 \in Slots
      /\ MaxInput \in Nat /\ MaxRead \in Nat /\ MaxRead > MaxInput /\ Nul \notin Bytes
      /\ accepted \in Seq(Bytes) /\ delivered \in Seq(Bytes)
      /\ read_buffer \in [Slots -> Bytes \cup {Nul}]
      /\ a <= MaxInput /\ a <= d + BufferLen
  BY Pl011Assumption DEF IInv, TypeOK, Slots, Window
<1>1. \A i \in Slots : read_buffer[i] = IF d + i <= a THEN accepted[d + i] ELSE last
  BY DEF IInv, Window
<1>2. \A i \in Slots : d + i <= a => accepted[d + i] \in Bytes
  BY <1>0 DEF Slots
<1>3. /\ read_buffer' \in [Slots -> Bytes \cup {Nul}]
      /\ \A i \in Slots : read_buffer'[i] = IF i < BufferLen THEN read_buffer[i + 1] ELSE last
      /\ read_buffer'[BufferLen] = last
  BY <1>0 DEF ReadDr, Slots
<1>4. {rxfe, rxim, rxris, irq}' \subseteq BOOLEAN
  BY DEF IInv, TypeOK, ReadDr
<1>5. CASE read_buffer[1] = Nul \/ d >= MaxRead
  <2>1. delivered' = delivered
    BY <1>5 DEF ReadDr, Recorded
  <2>2. d >= a /\ \A i \in Slots : read_buffer[i] = last
    <3>1. CASE read_buffer[1] = Nul
      <4>1. ~(d + 1 <= a)
        BY <1>0, <1>1, <1>2, <3>1
      <4> QED
        BY <1>0, <1>1, <4>1 DEF Slots
    <3>2. CASE d >= MaxRead
      BY <1>0, <1>1, <3>2 DEF Slots
    <3> QED
      BY <1>5, <3>1, <3>2
  <2>3. \A i \in Slots : read_buffer'[i] = last
    BY <1>0, <1>3, <2>2 DEF Slots
  <2>4. Window'
    BY <1>0, <1>3, <2>1, <2>2, <2>3 DEF IInv, Window, Slots
  <2>5. NeverAhead'
    <3> SUFFICES ASSUME last = Nul PROVE d <= a /\ (accepted # <<>> => (rxfe' <=> d = a))
      BY <1>3, <2>1 DEF NeverAhead, EverFull
    <3>1. d = a
      BY <1>0, <2>2 DEF IInv, NeverAhead, EverFull
    <3>2. rxfe' = TRUE
      BY <1>0, <2>3, Zenon DEF ReadDr
    <3> QED
      BY <1>0, <3>1, <3>2
  <2> QED
    BY <1>3, <1>4, <2>1, <2>4, <2>5 DEF IInv, TypeOK
<1>6. CASE ~(read_buffer[1] = Nul \/ d >= MaxRead)
  <2>1. delivered' = Append(delivered, read_buffer[1]) /\ read_buffer[1] \in Bytes
    BY <1>0, <1>6 DEF ReadDr, Recorded
  <2>2. d' = d + 1 /\ delivered' \in Seq(Bytes)
    BY <1>0, <2>1
  <2>3. /\ \A k \in 1 .. d : delivered'[k] = delivered[k]
        /\ delivered'[d + 1] = read_buffer[1]
    BY <1>0, <2>1
  <2>4. ASSUME NEW i \in Slots
        PROVE  read_buffer'[i] = IF d + 1 + i <= a THEN accepted[d + 1 + i] ELSE last
    <3>1. CASE i < BufferLen
      <4>1. i + 1 \in Slots /\ d + (i + 1) = d + 1 + i /\ read_buffer'[i] = read_buffer[i + 1]
        BY <1>0, <1>3, <3>1 DEF Slots
      <4> QED
        BY <1>1, <4>1
    <3>2. CASE i = BufferLen
      BY <1>0, <1>3, <3>2
    <3> QED
      BY <1>0, <3>1, <3>2 DEF Slots
  <2>5. ASSUME NEW k \in 1 .. d + 1
        PROVE  delivered'[k] = IF k <= a THEN accepted[k] ELSE last
    <3>1. CASE k = d + 1
      BY <1>0, <1>1, <2>3, <3>1
    <3>2. CASE k \in 1 .. d
      BY <2>3, <3>2 DEF IInv, Window
    <3> QED
      BY <1>0, <3>1, <3>2
  <2>6. Window'
    BY <1>0, <1>3, <2>2, <2>4, <2>5 DEF Window
  <2>7. NeverAhead'
    <3> SUFFICES ASSUME last = Nul
                 PROVE  /\ d + 1 <= a
                        /\ accepted # <<>> => (rxfe' <=> d + 1 = a)
      BY <1>3, <2>2 DEF NeverAhead, EverFull
    <3>1. d + 1 <= a
      BY <1>0, <1>1, <1>6
    <3>2. rxfe = FALSE
      BY <1>0, <3>1 DEF IInv, NeverAhead, EverFull, TypeOK
    <3>3. read_buffer'[1] = Nul <=> d + 1 = a
      BY <1>0, <2>4, <3>1
    <3> QED
      BY <3>1, <3>2, <3>3, Zenon DEF ReadDr
  <2> QED
    BY <1>3, <1>4, <2>2, <2>6, <2>7 DEF IInv, TypeOK
<1> QED
  BY <1>5, <1>6

\* No access of the guest's driver and no push breaks the window.
LEMMA Pl011Invariant == Spec => []IInv
<1>1. IInv /\ [Next]_vars => IInv'
  <2> SUFFICES ASSUME IInv, [Next]_vars PROVE IInv'
    OBVIOUS
  <2>1. ASSUME UNCHANGED <<rxfe, read_buffer, accepted, delivered>>, TypeOK' PROVE IInv'
    BY <2>1 DEF IInv, Window, NeverAhead, EverFull
  <2>2. ASSUME NEW b \in Bytes, Push(b) PROVE IInv'
    BY <2>2, PushIInv
  <2>3. CASE Open
    BY <2>1, <2>3, Zenon DEF Open, WriteIcr, IInv, TypeOK
  <2>4. CASE Discard
    <3>1. CASE rxfe
      BY <2>1, <2>4, <3>1 DEF Discard, ReadDr, IInv, TypeOK, device
    <3>2. CASE ~rxfe
      BY <2>4, <3>2, ReadIInv DEF Discard
    <3> QED
      BY <3>1, <3>2
  <2>5. CASE Unmask
    BY <2>1, <2>5 DEF Unmask, WriteImsc, IInv, TypeOK
  <2>6. CASE TakeInterrupt
    BY <2>1, <2>6, Zenon DEF TakeInterrupt, IInv, TypeOK, device
  <2>7. CASE Drain
    <3>1. CASE rxfe
      BY <2>1, <2>7, <3>1 DEF Drain, ReadDr, IInv, TypeOK, device
    <3>2. CASE ~rxfe
      BY <2>7, <3>2, ReadIInv DEF Drain
    <3> QED
      BY <3>1, <3>2
  <2>8. CASE Close
    BY <2>1, <2>8, Zenon DEF Close, WriteImsc, IInv, TypeOK
  <2>9. CASE UNCHANGED vars
    BY <2>1, <2>9 DEF vars, device, IInv, TypeOK
  <2> QED
    BY <2>2, <2>3, <2>4, <2>5, <2>6, <2>7, <2>8, <2>9 DEF Next, Driver
<1> QED
  BY <1>1, InitIInv, PTL DEF Spec

\* What the guest reads is what was typed, in order, each byte once, until the
\* buffer was full; from then on the byte of the last slot follows.
THEOREM InputInOrder == Spec => []DeliveredInOrder
<1>1. IInv => DeliveredInOrder
  <2> SUFFICES ASSUME IInv PROVE DeliveredInOrder
    OBVIOUS
  <2>1. /\ Len(accepted) \in Nat /\ DOMAIN accepted = 1 .. Len(accepted)
        /\ Len(delivered) \in Nat /\ DOMAIN delivered = 1 .. Len(delivered)
    BY DEF IInv, TypeOK
  <2>2. ASSUME NEW k \in DOMAIN delivered, k \notin DOMAIN accepted PROVE EverFull
    <3>1. ~EverFull => Len(delivered) <= Len(accepted)
      BY DEF IInv, NeverAhead
    <3> QED
      BY <2>1, <2>2, <3>1
  <2> QED
    BY <2>1, <2>2 DEF IInv, DeliveredInOrder, Window
<1> QED
  BY <1>1, Pl011Invariant, PTL

\* RXFE ends the guest's loop exactly when everything typed was read, as long as
\* the buffer was never full.
THEOREM RxfeIsRight == Spec => []RxfeTellsEmpty
<1>1. IInv => RxfeTellsEmpty
  BY DEF IInv, TypeOK, NeverAhead, RxfeTellsEmpty
<1> QED
  BY <1>1, Pl011Invariant, PTL
=============================================================================
