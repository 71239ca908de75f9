----------------------------- MODULE Pl011Mmio ------------------------------
(***************************************************************************)
(* The emulated UART of src/mmio/pl011.rs: console input pushed by the CPU *)
(* that owns the host's UART, read by the guest of another CPU through     *)
(* trapped register accesses.  The Mutex around the device makes every     *)
(* push and every access one step.  The guest is a driver that discards    *)
(* what is buffered when it starts, enables the receive interrupt, and on  *)
(* each interrupt reads UART_DR until UART_FR says that the FIFO is empty. *)
(***************************************************************************)
EXTENDS Naturals, Sequences, SequencesExt

CONSTANTS
  Bytes,        \* the bytes that are typed; handle_input drops NUL
  Nul,          \* 0, which marks a free slot of read_buffer
  BufferLen,    \* the length of read_buffer
  MaxRead,      \* bound on the bytes read that delivered records
  MaxInput      \* bound on the number of bytes typed

ASSUME Pl011Assumption ==
  /\ Nul \notin Bytes
  /\ BufferLen \in Nat \ {0}
  /\ MaxInput \in Nat /\ MaxRead \in Nat /\ MaxRead > MaxInput

VARIABLES
  rxfe,         \* UART_FR_RXFE in flag
  rxim,         \* UART_IMSC_RXIM in interrupt_mask
  rxris,        \* UART_RIS_RXRIS in raw_interrupt_status
  read_buffer,  \* as the code has it, Nul in the slots it calls free
  irq,          \* the interrupt is pending in the guest's GIC
  guest,        \* what the driver does
  accepted,     \* the bytes push has stored (ghost)
  delivered     \* the bytes read from UART_DR (ghost)

device == <<rxfe, rxim, rxris, read_buffer>>
vars == <<device, irq, guest, accepted, delivered>>

Slots == 1 .. BufferLen

TypeOK ==
  /\ {rxfe, rxim, rxris, irq} \subseteq BOOLEAN
  /\ read_buffer \in [Slots -> Bytes \cup {Nul}]
  /\ guest \in {"off", "starting", "unmasking", "idle", "draining"}
  /\ accepted \in Seq(Bytes)
  /\ delivered \in Seq(Bytes)

\* Pl011Mmio::new: RXFE is clear although the buffer is empty.
Init ==
  /\ rxfe = FALSE /\ rxim = FALSE /\ rxris = FALSE
  /\ read_buffer = [k \in Slots |-> Nul]
  /\ irq = FALSE
  /\ guest = "off"
  /\ accepted = <<>> /\ delivered = <<>>

\* The slot that push fills; none when the buffer is full.
FirstFree == {k \in Slots : read_buffer[k] = Nul /\ \A j \in 1 .. k - 1 : read_buffer[j] # Nul}

Push_keepsRxfe(b) ==
  /\ Len(accepted) < MaxInput
  /\ read_buffer' = [k \in Slots |-> IF k \in FirstFree THEN b ELSE read_buffer[k]]
  /\ accepted' = IF FirstFree = {} THEN accepted ELSE Append(accepted, b)
  /\ rxris' = (rxris \/ rxim)
  /\ irq' = (irq \/ rxim)
  /\ UNCHANGED <<rxfe, rxim, guest, delivered>>

\* push: the first free slot takes the byte, if there is one; RXFE is cleared,
\* and the interrupt raised unless it is masked.
Push(b) ==
  /\ Len(accepted) < MaxInput
  /\ read_buffer' = [k \in Slots |-> IF k \in FirstFree THEN b ELSE read_buffer[k]]
  /\ accepted' = IF FirstFree = {} THEN accepted ELSE Append(accepted, b)
  /\ rxfe' = FALSE
  /\ rxris' = (rxris \/ rxim)
  /\ irq' = (irq \/ rxim)
  /\ UNCHANGED <<rxim, guest, delivered>>

Recorded ==
  IF read_buffer[1] = Nul \/ Len(delivered) >= MaxRead THEN delivered
  ELSE Append(delivered, read_buffer[1])

ReadDr_noShift ==
  /\ delivered' = Recorded
  /\ read_buffer' = [read_buffer EXCEPT ![1] = read_buffer[2], ![2] = Nul]
  /\ rxfe' = (rxfe \/ read_buffer'[1] = Nul)
  /\ rxris' = (rxris /\ read_buffer'[1] # Nul)
  /\ UNCHANGED rxim

\* A read of UART_DR: the slots move up by one, the last keeps its value; when
\* the first is free RXFE is set and the interrupt status cleared.
ReadDr ==
  /\ delivered' = Recorded
  /\ read_buffer' = [k \in Slots |-> IF k < BufferLen THEN read_buffer[k + 1] ELSE read_buffer[k]]
  /\ rxfe' = (rxfe \/ read_buffer'[1] = Nul)
  /\ rxris' = (rxris /\ read_buffer'[1] # Nul)
  /\ UNCHANGED rxim

\* A write of UART_IMSC.
WriteImsc(on) ==
  /\ rxim' = on
  /\ UNCHANGED <<rxfe, rxris, read_buffer>>

\* A write of UART_ICR.
WriteIcr ==
  /\ rxris' = FALSE
  /\ UNCHANGED <<rxfe, rxim, read_buffer>>

-----------------------------------------------------------------------------
(* The guest's driver *)

\* It clears old interrupts.
Open ==
  /\ guest = "off"
  /\ WriteIcr
  /\ guest' = "starting"
  /\ UNCHANGED <<irq, accepted, delivered>>

\* It discards what is buffered, one access at a time.
Discard ==
  /\ guest = "starting"
  /\ \/ rxfe /\ guest' = "unmasking" /\ UNCHANGED <<device, delivered>>
     \/ ~rxfe /\ ReadDr /\ UNCHANGED guest
  /\ UNCHANGED <<irq, accepted>>

Unmask ==
  /\ guest = "unmasking"
  /\ WriteImsc(TRUE)
  /\ guest' = "idle"
  /\ UNCHANGED <<irq, accepted, delivered>>

TakeInterrupt ==
  /\ guest = "idle" /\ irq
  /\ irq' = FALSE
  /\ guest' = "draining"
  /\ UNCHANGED <<device, accepted, delivered>>

Drain ==
  /\ guest = "draining"
  /\ \/ rxfe /\ guest' = "idle" /\ UNCHANGED <<device, delivered>>
     \/ ~rxfe /\ ReadDr /\ UNCHANGED guest
  /\ UNCHANGED <<irq, accepted>>

\* It closes the port when it is idle.
Close ==
  /\ guest = "idle" /\ ~irq
  /\ WriteImsc(FALSE)
  /\ guest' = "off"
  /\ UNCHANGED <<irq, accepted, delivered>>

Driver == Open \/ Discard \/ Unmask \/ TakeInterrupt \/ Drain

Next ==
  \/ \E b \in Bytes : Push(b)
  \/ Driver
  \/ Close

\* The guest runs: a driver that has started goes on.  Nobody has to type, and
\* the port need not be closed.
Spec == Init /\ [][Next]_vars /\ WF_vars(Driver)

-----------------------------------------------------------------------------
\* The last slot is never emptied: it tells whether the buffer was ever full.
EverFull == read_buffer[BufferLen] # Nul

\* What the guest reads is what was typed, in order, each byte once, although
\* CPU 0 pushes between its reads; once the buffer was full the guest gets the
\* byte of the last slot again and again.
DeliveredInOrder ==
  /\ TypeOK
  /\ \A k \in DOMAIN delivered :
       \/ k \in DOMAIN accepted /\ delivered[k] = accepted[k]
       \/ EverFull /\ delivered[k] = read_buffer[BufferLen]

\* UART_FR_RXFE is "the bit that shows whether the RX FIFO is empty": once
\* something was typed, and while the buffer was never full, it is set exactly
\* when every byte has been read.  (The guest's loop ends on this bit.)
RxfeTellsEmpty ==
  accepted # <<>> /\ ~EverFull => (rxfe <=> Len(delivered) >= Len(accepted))

\* A byte that raised the interrupt is read: the driver empties the buffer, and
\* its loop ends, unless the buffer was full.
InputDelivered == rxris ~> delivered = accepted \/ EverFull
=============================================================================
