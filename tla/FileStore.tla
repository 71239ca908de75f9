----------------------------- MODULE FileStore ------------------------------
(***************************************************************************)
(* What src/fat32.rs promises to the code that loads kernels and serves    *)
(* the disks of the VMs: a call reads or writes a range of one file.  A    *)
(* call that succeeds has moved the whole range; one that fails may have   *)
(* moved part of it.  Nothing else on the disk changes.                    *)
(***************************************************************************)
EXTENDS Naturals

CONSTANTS
  Calls,     \* the calls: [write, file, offset, length]
  Size,      \* Size[f]: the blocks of file f
  Sector,    \* blocks of a sector: a read may fill the buffer up to a whole one
  None

VARIABLES
  contents,  \* contents[f][k]: block k of file f
  rest,      \* the blocks of the disk that belong to no file
  buffer,    \* the buffer of the caller
  call,      \* the call that runs, or None
  answer     \* what the last call returned

vars == <<contents, rest, buffer, call, answer>>

\* The blocks of file f a call is about: a range that starts inside the file is
\* cut at its end.
Moved(c) ==
  IF c.offset >= Size[c.file] THEN 0
  ELSE IF c.offset + c.length > Size[c.file] THEN Size[c.file] - c.offset ELSE c.length

RoundUp(n) == ((n + Sector - 1) \div Sector) * Sector

Init == call = None

Call(c) == call = None /\ call' = c /\ UNCHANGED <<contents, rest, buffer, answer>>

\* A write puts blocks of the buffer into their places in the file, a read
\* changes the buffer only.
Progress ==
  /\ UNCHANGED rest
  /\ \A f \in DOMAIN contents : \A k \in DOMAIN contents[f] :
       \/ contents'[f][k] = contents[f][k]
       \/ /\ call.write /\ f = call.file
          /\ k \in call.offset .. call.offset + Moved(call) - 1
          /\ contents'[f][k] = buffer[k - call.offset]
  /\ \A k \in DOMAIN buffer :
       \/ buffer'[k] = buffer[k]
       \/ ~call.write /\ k < RoundUp(Moved(call))

\* A call that succeeds says how much it moved, and the buffer and that range of
\* the file agree.
Return ==
  /\ Progress
  /\ call' = None
  /\ \/ answer' = <<"Err", 0>>
     \/ /\ answer' = <<"Ok", Moved(call)>>
        /\ \A k \in 0 .. Moved(call) - 1 :
             contents'[call.file][call.offset + k] = buffer'[k]

Next ==
  \/ \E c \in Calls : Call(c)
  \/ call # None /\ (Return \/ (Progress /\ UNCHANGED <<call, answer>>))

Spec == Init /\ [][Next]_vars
=============================================================================
