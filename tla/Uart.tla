-------------------------------- MODULE Uart --------------------------------
(***************************************************************************)
(* The simulator's UART, through which the guest reads the standard input  *)
(* of the process.  A guest has two interfaces to it: the 8250's registers,*)
(* of which it polls the line status and then loads the data, and CSR      *)
(* 0x140, which gives a byte or -1.  Both ask the host first whether a     *)
(* byte waits, and take no input at all to be the end of the input where   *)
(* a write of no bytes to standard input fails.                            *)
(*                                                                         *)
(* Words are read as signed.  Output is not modelled: it is a printf.      *)
(***************************************************************************)
EXTENDS Integers, Sequences

CONSTANTS
  Bytes,      \* bytes that are typed or piped in
  Sources,    \* what standard input can be: see Kinds
  MaxTyped    \* BOUND: number of bytes

\* A terminal is open for reading and writing, a pipe or a file for reading, and
\* so is a device without input that does not count what waits (/dev/null).
Kinds == {"terminal", "pipe", "null"}

ASSUME UartAssumption ==
  /\ Bytes \subseteq 0 .. 255
  /\ Sources \subseteq Kinds
  /\ MaxTyped \in Nat

VARIABLES
  source,      \* what standard input is
  waiting,     \* the bytes that wait in it
  closed,      \* no more will come
  is_eofd,
  interface,   \* which of the two the guest uses
  status,      \* the line status register as the guest's driver last loaded it
  typed,       \* history: all bytes that came in
  taken        \* the bytes the guest took for input

vars == <<source, waiting, closed, is_eofd, interface, status, typed, taken>>

\* The constructor of uart, without its write to register a1 (uart.h:30), which
\* is LoaderInit's.
Init ==
  /\ source \in Sources
  /\ waiting = <<>> /\ typed = <<>> /\ taken = <<>>
  /\ closed = FALSE
  /\ is_eofd = FALSE
  /\ interface \in {"8250", "csr"}
  /\ status = 96

-----------------------------------------------------------------------------
(* Mutated forms, for the runs that show the properties can be violated.   *)

EndsWheneverEmpty(byteswaiting) == IF byteswaiting = 0 THEN -1 ELSE 1

HitCountsBytes(byteswaiting) ==
  IF byteswaiting = 0 /\ source # "terminal" THEN -1 ELSE byteswaiting

ReadLeavesByte(hit) == UNCHANGED waiting

-----------------------------------------------------------------------------
(* uart::IsKBHit and uart::ReadKBByte.                                     *)

\* write(fileno(stdin), 0, 0) fails.
WriteFails == source # "terminal"

Hit(byteswaiting) ==
  IF byteswaiting = 0 /\ WriteFails THEN -1 ELSE IF byteswaiting = 0 THEN 0 ELSE 1

\* What IsKBHit can return.  Where ioctl fails, which is not looked at,
\* byteswaiting is uninitialised.
Hits ==
  IF is_eofd THEN {-1}
  ELSE IF source = "null" THEN {Hit(0), Hit(1)} ELSE {Hit(Len(waiting))}

\* What IsKBHit does: it is the first thing both interfaces do.
ProbeEnd(hit) == is_eofd' = (is_eofd \/ hit = -1)

\* What ReadKBByte returns when a byte waits: a char, which is signed.
Extended(b) == IF b < 128 THEN b ELSE b - 256

\* What ReadKBByte returns after IsKBHit has returned something but 0.
ReadKBByte(hit) == IF hit = -1 \/ waiting = <<>> THEN -1 ELSE Extended(Head(waiting))

\* What is left after that: read() takes one byte, if ReadKBByte comes to it.
ConsumeByte(hit) ==
  waiting' = IF hit = 1 /\ waiting # <<>> THEN Tail(waiting) ELSE waiting

-----------------------------------------------------------------------------
(* The host.                                                               *)

Type(b) ==
  /\ source # "null"
  /\ ~closed /\ Len(typed) < MaxTyped
  /\ waiting' = Append(waiting, b)
  /\ typed' = Append(typed, b)
  /\ UNCHANGED <<source, closed, is_eofd, interface, status, taken>>

\* The other end of a pipe closes it.  (A terminal that goes away ends the
\* simulator by a signal.)
Close ==
  /\ source = "pipe" /\ ~closed
  /\ closed' = TRUE
  /\ UNCHANGED <<source, waiting, is_eofd, interface, status, typed, taken>>

-----------------------------------------------------------------------------
(* The guest's drivers.                                                    *)

\* Bit 0 of the line status: data ready.
DataReady == status % 2 = 1

\* HandleControlLoad(0x10000005): 0x60 | IsKBHit().
LoadStatus(hit) ==
  /\ interface = "8250" /\ ~DataReady
  /\ status' = IF hit = -1 THEN -1 ELSE 96 + hit
  /\ ProbeEnd(hit)
  /\ UNCHANGED <<source, waiting, closed, interface, typed, taken>>

\* BOUND: bytes the guest remembers.
Take(b) == taken' = IF Len(taken) <= MaxTyped THEN Append(taken, b) ELSE taken

\* HandleControlLoad(0x10000000), of which the driver takes the low 8 bits;
\* then it polls again.  At the end of the input the word is -1.
LoadData(hit) ==
  /\ interface = "8250" /\ DataReady
  /\ Take((IF hit = 0 THEN 0 ELSE ReadKBByte(hit)) % 256)
  /\ ConsumeByte(hit)
  /\ ProbeEnd(hit)
  /\ status' = 96
  /\ UNCHANGED <<source, closed, interface, typed>>

CsrWord(hit) == IF hit = 0 THEN -1 ELSE ReadKBByte(hit)

\* HandleOtherCSRRead(0x140): -1, or a byte.
ReadCsr(hit) ==
  /\ interface = "csr"
  /\ IF CsrWord(hit) = -1 THEN UNCHANGED taken ELSE Take(CsrWord(hit) % 256)
  /\ ConsumeByte(hit)
  /\ ProbeEnd(hit)
  /\ UNCHANGED <<source, closed, interface, status, typed>>

Host == (\E b \in Bytes : Type(b)) \/ Close

Guest == \E hit \in Hits : LoadStatus(hit) \/ LoadData(hit) \/ ReadCsr(hit)

Next == Host \/ Guest

Spec == Init /\ [][Next]_vars

\* A guest that goes on polling.
FairSpec == Spec /\ WF_vars(Guest)

-----------------------------------------------------------------------------
(* Properties *)

TypeOK ==
  /\ source \in Kinds
  /\ waiting \in Seq(Bytes) /\ typed \in Seq(Bytes)
  /\ closed \in BOOLEAN /\ is_eofd \in BOOLEAN
  /\ interface \in {"8250", "csr"}
  /\ status \in {-1, 96, 97}
  /\ taken \in Seq(0 .. 255)

\* How many bytes were read.
BytesRead == Len(typed) - Len(waiting)

\* s is what is left of t without the elements at positions not in P: the
\* positions its elements come from ascend and are all of P.
IsSelection(s, t, P) ==
  \E from \in [DOMAIN s -> P] :
    /\ \A i \in DOMAIN s : s[i] = t[from[i]]
    /\ \A i, j \in DOMAIN s : i < j => from[i] < from[j]
    /\ \A p \in P : \E i \in DOMAIN s : from[i] = p

\* The 8250 passes on all bytes read.  After them come words that are no byte,
\* all 255: once an end is declared, as the line status is then -1 (uart.cpp:11),
\* or where the host does not count the bytes.
LinePassed ==
  /\ BytesRead <= Len(taken)
  /\ \A i \in 1 .. BytesRead : taken[i] = typed[i]
  /\ \A i \in BytesRead + 1 .. Len(taken) : taken[i] = 255 /\ (is_eofd \/ source = "null")

\* The CSR passes on those that are not 255, which is the same word as "no
\* byte" (uart.cpp:37-44 and 51).
CsrPassed == IsSelection(taken, typed, {j \in 1 .. BytesRead : typed[j] # 255})

\* The guest gets the bytes that came in, in their order, none twice, and those
\* it has not got still wait: the test and the read of uart.cpp:10-13 and 49-53
\* agree, though each asks the host anew.
InputExact ==
  /\ BytesRead >= 0 /\ waiting = SubSeq(typed, BytesRead + 1, Len(typed))
  /\ interface = "8250" => LinePassed
  /\ interface = "csr" => CsrPassed

\* On a terminal the end of the input is never declared, however long nothing
\* is typed (the write of uart.cpp:31 keeps the two apart).
TerminalNeverEnds == source = "terminal" => ~is_eofd

\* While a byte waits, no poll is in vain: the line status turns to ready, or the
\* byte is read, however many bytes wait behind it (uart.cpp:32: the
\* count is made 0 or 1 before it is combined with 0x60 at uart.cpp:11).
EveryPollCounts ==
  [][Guest /\ waiting # <<>> /\ ~is_eofd => (~DataReady /\ DataReady') \/ waiting' = Tail(waiting)]_vars

\* A guest that goes on polling receives what is typed: no byte waits for ever
\* unless an end has been declared.
InputReceived == []<>(waiting = <<>> \/ is_eofd)

\* "Is end-of-file" (uart.cpp:31): the flag stands for the end of the input, so
\* that nothing more comes once it is set.
EofIsEndOfInput == is_eofd => closed
=============================================================================
