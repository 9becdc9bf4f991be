----------------------------- MODULE UartProofs -----------------------------
(***************************************************************************)
(* Proofs about Uart, for any bytes and any number of them.                *)
(***************************************************************************)
EXTENDS Uart, SequenceTheorems, TLAPS

\* What IsKBHit returns, and what a load or a CSR read makes of it.
LEMMA HitType == Hits \subseteq {-1, 0, 1}
  BY DEF Hits, Hit

LEMMA WordType ==
  ASSUME TypeOK, NEW hit \in Hits
  PROVE  /\ ReadKBByte(hit) \in Int /\ CsrWord(hit) \in Int
         /\ (IF hit = 0 THEN 0 ELSE ReadKBByte(hit)) \in Int
<1>1. CASE hit = -1 \/ waiting = <<>>
  BY <1>1 DEF ReadKBByte, CsrWord
<1>2. CASE ~(hit = -1 \/ waiting = <<>>)
  <2>1. Head(waiting) \in Bytes
    BY <1>2 DEF TypeOK
  <2>2. Extended(Head(waiting)) \in Int
    <3> DEFINE b == Head(waiting)
    <3>1. b \in 0 .. 255
      BY <2>1, UartAssumption
    <3> HIDE DEF b
    <3>2. Extended(b) \in Int
      BY <3>1 DEF Extended
    <3> QED
      BY <3>2 DEF b
  <2> QED
    BY <1>2, <2>2 DEF ReadKBByte, CsrWord
<1> QED
  BY <1>1, <1>2

LEMMA LowByte == ASSUME NEW w \in Int PROVE w % 256 \in 0 .. 255
  BY Z3

LEMMA TakeType ==
  ASSUME TypeOK, NEW w \in Int, Take(w % 256)
  PROVE  taken' \in Seq(0 .. 255)
<1> DEFINE b == w % 256
<1>1. b \in 0 .. 255
  BY LowByte
<1>2. taken' \in {Append(taken, b), taken}
  BY DEF Take
<1> HIDE DEF b
<1>3. taken \in Seq(0 .. 255)
  BY DEF TypeOK
<1>4. Append(taken, b) \in Seq(0 .. 255)
  BY <1>1, <1>3
<1> QED
  BY <1>2, <1>3, <1>4, Zenon

LEMMA ConsumeType ==
  ASSUME TypeOK, NEW hit \in Hits, ConsumeByte(hit)
  PROVE  waiting' \in Seq(Bytes)
<1>1. CASE waiting = <<>>
  BY <1>1 DEF ConsumeByte, TypeOK
<1>2. CASE waiting # <<>>
  <2>1. Tail(waiting) \in Seq(Bytes)
    BY <1>2 DEF TypeOK
  <2> QED
    BY <2>1 DEF ConsumeByte, TypeOK
<1> QED
  BY <1>1, <1>2

-----------------------------------------------------------------------------
(* The invariant.  The end of the input is declared only where the write   *)
(* to standard input fails, and that a terminal never does.                *)

UartInv == TypeOK /\ TerminalNeverEnds

LEMMA UartInit == Init => UartInv
<1> SUFFICES ASSUME Init PROVE UartInv
  OBVIOUS
<1>1. <<>> \in Seq(Bytes) /\ <<>> \in Seq(0 .. 255)
  OBVIOUS
<1>2. source \in Kinds
  BY UartAssumption DEF Init
<1> QED
  BY <1>1, <1>2 DEF Init, UartInv, TypeOK, TerminalNeverEnds

LEMMA ProbeNext ==
  ASSUME UartInv, NEW hit \in Hits, ProbeEnd(hit), source' = source
  PROVE  is_eofd' \in BOOLEAN /\ TerminalNeverEnds'
<1>1. source = "terminal" => hit # -1
  BY DEF UartInv, TypeOK, TerminalNeverEnds, Hits, Hit, WriteFails
<1> QED
  BY <1>1 DEF UartInv, TypeOK, TerminalNeverEnds, ProbeEnd

LEMMA UartNext == UartInv /\ [Next]_vars => UartInv'
<1> SUFFICES ASSUME UartInv, [Next]_vars PROVE UartInv'
  OBVIOUS
<1>0. TypeOK /\ TerminalNeverEnds
  BY DEF UartInv
<1>1. ASSUME NEW b \in Bytes, Type(b) PROVE UartInv'
  BY <1>0, <1>1 DEF Type, UartInv, TypeOK, TerminalNeverEnds
<1>2. CASE Close
  BY <1>0, <1>2 DEF Close, UartInv, TypeOK, TerminalNeverEnds
<1>3. ASSUME NEW hit \in Hits, LoadStatus(hit) PROVE UartInv'
  <2>1. status' \in {-1, 96, 97}
    BY <1>3, HitType DEF LoadStatus
  <2> QED
    BY <1>0, <1>3, <2>1, ProbeNext DEF LoadStatus, UartInv, TypeOK
<1>4. ASSUME NEW hit \in Hits, LoadData(hit) PROVE UartInv'
  <2>1. taken' \in Seq(0 .. 255) /\ waiting' \in Seq(Bytes)
    BY <1>0, <1>4, WordType, TakeType, ConsumeType DEF LoadData
  <2> QED
    BY <1>0, <1>4, <2>1, ProbeNext DEF LoadData, UartInv, TypeOK
<1>5. ASSUME NEW hit \in Hits, ReadCsr(hit) PROVE UartInv'
  <2>1. taken' \in Seq(0 .. 255)
    BY <1>0, <1>5, WordType, TakeType DEF ReadCsr, TypeOK
  <2>2. waiting' \in Seq(Bytes)
    BY <1>0, <1>5, ConsumeType DEF ReadCsr
  <2> QED
    BY <1>0, <1>5, <2>1, <2>2, ProbeNext DEF ReadCsr, UartInv, TypeOK
<1>6. CASE UNCHANGED vars
  BY <1>0, <1>6 DEF vars, UartInv, TypeOK, TerminalNeverEnds
<1> QED
  BY <1>1, <1>2, <1>3, <1>4, <1>5, <1>6 DEF Next, Host, Guest

LEMMA UartAlways == Spec => []UartInv
  BY UartInit, UartNext, PTL DEF Spec

-----------------------------------------------------------------------------

\* The status register, the flag and the bytes keep their types: no load gives
\* the guest's driver anything but a byte, sign extension and all.
THEOREM UartTypeCorrect == Spec => []TypeOK
<1>1. UartInv => TypeOK
  BY DEF UartInv
<1> QED
  BY <1>1, UartAlways, PTL

\* However long nothing is typed on a terminal, its end is not declared.
THEOREM TerminalNeverEndsHolds == Spec => []TerminalNeverEnds
<1>1. UartInv => TerminalNeverEnds
  BY DEF UartInv
<1> QED
  BY <1>1, UartAlways, PTL

-----------------------------------------------------------------------------
(* The input is exact.                                                     *)

\* The positions of the bytes among the first n of t that the CSR passes on.
Passed(t, n) == {j \in 1 .. n : t[j] # 255}

\* A selection does not change when the sequence it is taken from grows.
LEMMA SelectionStays ==
  ASSUME NEW S, NEW T, NEW s \in Seq(S), NEW t \in Seq(T), NEW b \in T,
         NEW n \in 0 .. Len(t), IsSelection(s, t, Passed(t, n))
  PROVE  IsSelection(s, Append(t, b), Passed(Append(t, b), n))
<1>1. \A j \in 1 .. n : Append(t, b)[j] = t[j]
  OBVIOUS
<1>2. Passed(Append(t, b), n) = Passed(t, n)
  BY <1>1 DEF Passed
<1>3. PICK from \in [DOMAIN s -> Passed(t, n)] :
        /\ \A i \in DOMAIN s : s[i] = t[from[i]]
        /\ \A i, j \in DOMAIN s : i < j => from[i] < from[j]
        /\ \A p \in Passed(t, n) : \E i \in DOMAIN s : from[i] = p
  BY DEF IsSelection
<1>4. \A i \in DOMAIN s : s[i] = Append(t, b)[from[i]]
  BY <1>1, <1>3 DEF Passed
<1>5. /\ from \in [DOMAIN s -> Passed(Append(t, b), n)]
      /\ \A p \in Passed(Append(t, b), n) : \E i \in DOMAIN s : from[i] = p
  BY <1>2, <1>3
<1> QED
  BY <1>3, <1>4, <1>5, Zenon DEF IsSelection

\* It grows by the next element, if that is not left out.
LEMMA SelectionSkips ==
  ASSUME NEW s, NEW t, NEW n \in Nat, t[n + 1] = 255
  PROVE  Passed(t, n + 1) = Passed(t, n)
  BY DEF Passed

LEMMA SelectionGrows ==
  ASSUME NEW S, NEW s \in Seq(S), NEW t, NEW n \in Nat, t[n + 1] # 255, t[n + 1] \in S,
         IsSelection(s, t, Passed(t, n))
  PROVE  IsSelection(Append(s, t[n + 1]), t, Passed(t, n + 1))
<1> DEFINE u == Append(s, t[n + 1])
           P == Passed(t, n)
           Q == Passed(t, n + 1)
<1>1. Q = P \cup {n + 1}
  BY DEF Passed
<1>2. DOMAIN s = 1 .. Len(s) /\ DOMAIN u = 1 .. Len(s) + 1 /\ Len(s) \in Nat
  OBVIOUS
<1>3. PICK from \in [DOMAIN s -> P] :
        /\ \A i \in DOMAIN s : s[i] = t[from[i]]
        /\ \A i, j \in DOMAIN s : i < j => from[i] < from[j]
        /\ \A p \in P : \E i \in DOMAIN s : from[i] = p
  BY DEF IsSelection
<1> DEFINE g == [i \in DOMAIN u |-> IF i \in DOMAIN s THEN from[i] ELSE n + 1]
<1>4. g \in [DOMAIN u -> Q]
  BY <1>1, <1>2, <1>3
<1>5. \A i \in DOMAIN s : u[i] = s[i] /\ g[i] = from[i] /\ from[i] \in 1 .. n
  BY <1>2, <1>3 DEF Passed
<1>6. u[Len(s) + 1] = t[n + 1] /\ g[Len(s) + 1] = n + 1
  BY <1>2
<1>7. \A i \in DOMAIN u : i \in DOMAIN s \/ i = Len(s) + 1
  BY <1>2
<1> HIDE DEF g, u, P, Q
<1>8. \A i \in DOMAIN u : u[i] = t[g[i]]
  <2> SUFFICES ASSUME NEW i \in DOMAIN u PROVE u[i] = t[g[i]]
    OBVIOUS
  <2>1. CASE i \in DOMAIN s
    <3>1. u[i] = s[i] /\ g[i] = from[i]
      BY <1>5, <2>1
    <3>2. s[i] = t[from[i]]
      BY <1>3, <2>1
    <3> QED
      BY <3>1, <3>2
  <2>2. CASE i = Len(s) + 1
    BY <1>6, <2>2
  <2> QED
    BY <1>7, <2>1, <2>2
<1>9. \A i, j \in DOMAIN u : i < j => g[i] < g[j]
  <2> SUFFICES ASSUME NEW i \in DOMAIN u, NEW j \in DOMAIN u, i < j PROVE g[i] < g[j]
    OBVIOUS
  <2>1. i \in DOMAIN s
    BY <1>2
  <2>2. CASE j \in DOMAIN s
    <3>1. from[i] < from[j]
      BY <1>3, <2>1, <2>2
    <3>2. g[i] = from[i] /\ g[j] = from[j]
      BY <1>5, <2>1, <2>2
    <3> QED
      BY <3>1, <3>2
  <2>3. CASE j = Len(s) + 1
    BY <1>5, <1>6, <2>1, <2>3
  <2> QED
    BY <1>7, <2>2, <2>3
<1>10. \A p \in Q : \E i \in DOMAIN u : g[i] = p
  <2> SUFFICES ASSUME NEW p \in Q PROVE \E i \in DOMAIN u : g[i] = p
    OBVIOUS
  <2>1. CASE p \in P
    <3>1. PICK i \in DOMAIN s : from[i] = p
      BY <1>3, <2>1
    <3> QED
      BY <1>2, <1>5, <3>1
  <2>2. CASE p = n + 1
    BY <1>2, <1>6, <2>2
  <2> QED
    BY <1>1, <2>1, <2>2
<1>11. IsSelection(u, t, Q)
  BY <1>4, <1>8, <1>9, <1>10, ZenonT(30) DEF IsSelection
<1> QED
  BY <1>11 DEF u, Q

\* What else holds: a device without input gives none, the line status tells of
\* a byte only while one waits, and -1 only once an end has been declared, and
\* the CSR gives no more than was read, so that the guest remembers all of it.
InputInv ==
  /\ UartInv /\ InputExact
  /\ source = "null" => typed = <<>>
  /\ Len(typed) <= MaxTyped
  /\ status = 97 /\ source # "null" => waiting # <<>> \/ is_eofd
  /\ status = -1 => is_eofd
  /\ interface = "csr" => status = 96 /\ Len(taken) <= BytesRead

\* Where the bytes that wait are in what came in.
LEMMA WaitingAt ==
  ASSUME InputInv
  PROVE  /\ BytesRead \in 0 .. Len(typed) /\ Len(typed) \in Nat
         /\ Len(waiting) = Len(typed) - BytesRead
         /\ waiting = <<>> <=> BytesRead = Len(typed)
         /\ \A i \in 1 .. Len(typed) : typed[i] \in Bytes /\ typed[i] \in 0 .. 255
<1>1. waiting \in Seq(Bytes) /\ typed \in Seq(Bytes) /\ BytesRead >= 0
  BY DEF InputInv, UartInv, TypeOK, InputExact
<1>2. Len(waiting) \in Nat /\ Len(typed) \in Nat /\ (waiting = <<>> <=> Len(waiting) = 0)
  BY <1>1
<1>3. \A i \in 1 .. Len(typed) : typed[i] \in Bytes
  BY <1>1
<1>4. \A i \in 1 .. Len(typed) : typed[i] \in 0 .. 255
  BY <1>3, UartAssumption
<1>5. BytesRead \in 0 .. Len(typed) /\ Len(waiting) = Len(typed) - BytesRead
  BY <1>1, <1>2 DEF BytesRead
<1>6. waiting = <<>> <=> BytesRead = Len(typed)
  BY <1>2, <1>5
<1> QED
  BY <1>2, <1>3, <1>4, <1>5, <1>6

\* Reading one of them.
LEMMA ReadOne ==
  ASSUME InputInv, waiting # <<>>, waiting' = Tail(waiting), typed' = typed
  PROVE  /\ BytesRead' = BytesRead + 1 /\ BytesRead + 1 \in 1 .. Len(typed)
         /\ Head(waiting) = typed[BytesRead + 1]
         /\ waiting' = SubSeq(typed', BytesRead' + 1, Len(typed'))
<1> DEFINE n == BytesRead
<1>1. n \in 0 .. Len(typed) - 1 /\ waiting = SubSeq(typed, n + 1, Len(typed)) /\ typed \in Seq(Bytes)
  BY WaitingAt DEF InputInv, UartInv, TypeOK, InputExact
<1>2. Len(waiting) = Len(typed) - n
  BY WaitingAt
<1> HIDE DEF n
<1>3. Head(waiting) = typed[n + 1] /\ Tail(waiting) = SubSeq(typed, n + 2, Len(typed))
  BY <1>1
<1>4. Len(Tail(waiting)) = Len(typed) - (n + 1)
  BY <1>1, <1>3
<1>5. BytesRead' = n + 1
  BY <1>1, <1>4 DEF BytesRead
<1> QED
  BY <1>1, <1>3, <1>5 DEF n

LEMMA ReadNone ==
  ASSUME InputInv, UNCHANGED <<waiting, typed>>
  PROVE  BytesRead' = BytesRead
  BY DEF BytesRead

\* A byte is read back as itself.
LEMMA ExtendedByte ==
  ASSUME NEW b \in 0 .. 255
  PROVE  Extended(b) % 256 = b /\ (Extended(b) = -1 <=> b = 255)
  BY Z3 DEF Extended

\* What is left of the invariant when no byte is read and the guest takes none.
LEMMA InputStays ==
  ASSUME InputInv, UNCHANGED <<source, waiting, interface, typed, taken>>, is_eofd => is_eofd'
  PROVE  InputExact'
<1>1. BytesRead' = BytesRead
  BY ReadNone
<1>2. LinePassed => LinePassed'
  BY <1>1 DEF LinePassed
<1>3. CsrPassed => CsrPassed'
  BY <1>1 DEF CsrPassed
<1> QED
  BY <1>1, <1>2, <1>3 DEF InputInv, InputExact

LEMMA SubSeqAppend ==
  ASSUME NEW S, NEW s \in Seq(S), NEW b \in S, NEW n \in 0 .. Len(s)
  PROVE  SubSeq(Append(s, b), n + 1, Len(s) + 1) = Append(SubSeq(s, n + 1, Len(s)), b)
<1> DEFINE u == SubSeq(Append(s, b), n + 1, Len(s) + 1)
           v == Append(SubSeq(s, n + 1, Len(s)), b)
<1>1. u \in Seq(S) /\ Len(u) = Len(s) + 1 - n
  OBVIOUS
<1>2. v \in Seq(S) /\ Len(v) = Len(s) + 1 - n
  OBVIOUS
<1>3. \A i \in 1 .. Len(s) + 1 - n : u[i] = Append(s, b)[i + n]
  OBVIOUS
<1>4. \A i \in 1 .. Len(s) + 1 - n : v[i] = Append(s, b)[i + n]
  OBVIOUS
<1> HIDE DEF u, v
<1>5. \A i \in 1 .. Len(u) : u[i] = v[i]
  BY <1>1, <1>3, <1>4
<1>6. u = v
  BY <1>1, <1>2, <1>5, SeqEqual
<1> QED
  BY <1>6 DEF u, v

LEMMA InputType ==
  ASSUME InputInv, NEW b \in Bytes, Type(b), UartInv'
  PROVE  InputInv'
<1>1. /\ waiting \in Seq(Bytes) /\ typed \in Seq(Bytes) /\ taken \in Seq(0 .. 255)
      /\ waiting' = Append(waiting, b) /\ typed' = Append(typed, b)
      /\ UNCHANGED <<source, is_eofd, interface, status, taken>> /\ source # "null"
      /\ Len(typed) < MaxTyped
  BY DEF InputInv, UartInv, TypeOK, Type
<1>2. Len(typed') = Len(typed) + 1 /\ Len(waiting') = Len(waiting) + 1 /\ waiting' # <<>>
      /\ Len(waiting) \in Nat /\ Len(typed) \in Nat
  BY <1>1
<1>3. BytesRead' = BytesRead
  BY <1>2 DEF BytesRead
<1>4. waiting' = SubSeq(typed', BytesRead' + 1, Len(typed'))
  <2>1. waiting = SubSeq(typed, BytesRead + 1, Len(typed)) /\ BytesRead \in 0 .. Len(typed)
    BY WaitingAt DEF InputInv, InputExact
  <2>2. SubSeq(Append(typed, b), BytesRead + 1, Len(typed) + 1)
          = Append(SubSeq(typed, BytesRead + 1, Len(typed)), b)
    BY <1>1, <2>1, SubSeqAppend
  <2> QED
    BY <1>1, <1>2, <1>3, <2>1, <2>2
<1>5. BytesRead \in 0 .. Len(typed)
  BY WaitingAt
<1>6. \A i \in 1 .. BytesRead : typed'[i] = typed[i]
  BY <1>1, <1>5
<1>7. LinePassed => LinePassed'
  <2> SUFFICES ASSUME LinePassed PROVE LinePassed'
    OBVIOUS
  <2>1. taken' = taken /\ source' = source /\ is_eofd' = is_eofd
    BY <1>1
  <2>2. BytesRead <= Len(taken) /\ \A i \in 1 .. BytesRead : taken[i] = typed'[i]
    BY <1>6 DEF LinePassed
  <2>3. \A i \in BytesRead + 1 .. Len(taken) : taken[i] = 255 /\ (is_eofd \/ source = "null")
    BY DEF LinePassed
  <2> QED
    BY <1>3, <2>1, <2>2, <2>3, Zenon DEF LinePassed
<1>8. CsrPassed => CsrPassed'
  <2> SUFFICES ASSUME CsrPassed PROVE CsrPassed'
    OBVIOUS
  <2>1. IsSelection(taken, typed, Passed(typed, BytesRead))
    BY DEF CsrPassed, Passed
  <2>2. IsSelection(taken, typed', Passed(typed', BytesRead))
    BY <1>1, <1>5, <2>1, SelectionStays
  <2>3. taken' = taken
    BY <1>1
  <2> QED
    BY <1>3, <2>2, <2>3 DEF CsrPassed, Passed
<1>9. BytesRead' >= 0
  BY <1>3, <1>5
<1>10. InputExact'
  BY <1>1, <1>4, <1>7, <1>8, <1>9 DEF InputInv, InputExact
<1>11. Len(typed') <= MaxTyped
  BY <1>1, <1>2, UartAssumption
<1> QED
  BY <1>1, <1>2, <1>3, <1>10, <1>11 DEF InputInv

LEMMA InputClose ==
  ASSUME InputInv, Close, UartInv'
  PROVE  InputInv'
<1>1. UNCHANGED <<source, waiting, is_eofd, interface, status, typed, taken>>
  BY DEF Close
<1>2. InputExact' /\ BytesRead' = BytesRead
  BY <1>1, InputStays, ReadNone
<1> QED
  BY <1>1, <1>2 DEF InputInv

LEMMA InputStatus ==
  ASSUME InputInv, NEW hit \in Hits, LoadStatus(hit), UartInv'
  PROVE  InputInv'
<1>1. UNCHANGED <<source, waiting, interface, typed, taken>> /\ (is_eofd => is_eofd')
      /\ interface # "csr"
  BY DEF LoadStatus, ProbeEnd
<1>2. InputExact' /\ BytesRead' = BytesRead
  BY <1>1, InputStays, ReadNone
<1>3. status' = -1 => is_eofd'
  <2>1. status' = -1 => hit = -1
    BY HitType DEF LoadStatus
  <2> QED
    BY <2>1, Zenon DEF LoadStatus, ProbeEnd
<1>4. status' = 97 => source = "null" \/ waiting # <<>>
  <2> SUFFICES ASSUME status' = 97, source # "null" PROVE waiting # <<>>
    OBVIOUS
  <2>1. hit = 1
    BY HitType DEF LoadStatus
  <2>2. hit = Hit(Len(waiting))
    BY <2>1 DEF Hits
  <2> QED
    BY <2>1, <2>2 DEF Hit
<1> QED
  BY <1>1, <1>2, <1>3, <1>4 DEF InputInv

\* The driver loads the data: the byte that waits, or 255 at the end.
LEMMA InputData ==
  ASSUME InputInv, NEW hit \in Hits, LoadData(hit), UartInv'
  PROVE  InputInv'
<1>1. /\ interface = "8250" /\ interface' = "8250" /\ source' = source /\ typed' = typed
      /\ status' = 96 /\ typed \in Seq(Bytes) /\ taken \in Seq(0 .. 255) /\ LinePassed
  BY DEF InputInv, UartInv, TypeOK, InputExact, LoadData
<1>2. (is_eofd => is_eofd') /\ (hit = -1 => is_eofd')
  BY Zenon DEF LoadData, ProbeEnd
<1>3. status \in {-1, 97}
  BY DEF InputInv, UartInv, TypeOK, LoadData, DataReady
<1> SUFFICES InputExact'
  <2>1. ~(status' = 97) /\ ~(status' = -1) /\ ~(interface' = "csr")
    BY <1>1
  <2> QED
    BY <1>1, <2>1 DEF InputInv
<1>4. CASE hit = 1 /\ waiting # <<>>
  <2>1. ~is_eofd /\ source # "null"
    <3>1. is_eofd => hit = -1
      BY DEF Hits
    <3>2. source = "null" => waiting = <<>>
      BY WaitingAt DEF InputInv
    <3> QED
      BY <1>4, <3>1, <3>2
  <2>2. waiting' = Tail(waiting)
    BY <1>4 DEF LoadData, ConsumeByte
  <2>3. /\ BytesRead' = BytesRead + 1 /\ BytesRead + 1 \in 1 .. Len(typed)
        /\ Head(waiting) = typed[BytesRead + 1]
        /\ waiting' = SubSeq(typed', BytesRead' + 1, Len(typed'))
    BY <1>1, <1>4, <2>2, ReadOne
  <2> DEFINE b == typed[BytesRead + 1]
  <2>4. b \in 0 .. 255 /\ BytesRead \in Nat /\ Len(typed) \in Nat
    <3>1. BytesRead \in 0 .. Len(typed) /\ Len(typed) \in Nat
      BY WaitingAt
    <3>2. b \in 0 .. 255
      BY <2>3, WaitingAt
    <3> QED
      BY <3>1, <3>2
  <2>5. Take(b)
    <3>1. (IF hit = 0 THEN 0 ELSE ReadKBByte(hit)) = Extended(b)
      BY <1>4, <2>3 DEF ReadKBByte
    <3> HIDE DEF b
    <3>2. Extended(b) % 256 = b
      BY <2>4, ExtendedByte
    <3> QED
      BY <3>1, <3>2 DEF LoadData
  <2>6. Len(taken) = BytesRead
    <3>1. BytesRead <= Len(taken) /\ Len(taken) \in Nat
      BY <1>1 DEF LinePassed
    <3>2. ~(\E i \in BytesRead + 1 .. Len(taken) : TRUE)
      BY <1>1, <2>1, Zenon DEF LinePassed
    <3>3. Len(taken) \in BytesRead + 1 .. Len(taken) \/ Len(taken) = BytesRead
      BY <2>4, <3>1
    <3> QED
      BY <3>2, <3>3
  <2>7. Len(taken) <= MaxTyped
    BY <2>3, <2>4, <2>6, UartAssumption DEF InputInv
  <2> HIDE DEF b
  <2>8. taken' = Append(taken, b)
    BY <2>5, <2>7 DEF Take
  <2>9. Len(taken') = BytesRead + 1 /\ taken'[BytesRead + 1] = b
        /\ \A i \in 1 .. BytesRead : taken'[i] = taken[i]
    BY <1>1, <2>4, <2>6, <2>8
  <2>10. LinePassed'
    <3>1. BytesRead' = Len(taken') /\ Len(taken') \in Nat
      BY <2>3, <2>4, <2>9
    <3>2. \A i \in 1 .. BytesRead : taken[i] = typed[i]
      BY <1>1 DEF LinePassed
    <3>3. \A i \in 1 .. BytesRead + 1 : taken'[i] = typed[i]
      BY <2>4, <2>9, <3>2 DEF b
    <3>4. \A i \in Len(taken') + 1 .. Len(taken') : FALSE
      BY <3>1
    <3>5. BytesRead' <= Len(taken')
      BY <3>1
    <3> QED
      BY <1>1, <2>3, <3>1, <3>3, <3>4, <3>5, Zenon DEF LinePassed
  <2> QED
    BY <1>1, <2>3, <2>4, <2>10 DEF InputExact
<1>5. CASE ~(hit = 1 /\ waiting # <<>>)
  <2>1. waiting' = waiting
    BY <1>5, Zenon DEF LoadData, ConsumeByte
  <2>2. BytesRead' = BytesRead
    BY <1>1, <2>1, ReadNone
  <2>3. hit # 0 /\ (is_eofd' \/ source = "null")
    <3>1. CASE source = "null"
      BY <3>1 DEF Hits, Hit, WriteFails
    <3>2. CASE is_eofd
      BY <1>2, <3>2 DEF Hits
    <3>3. CASE source # "null" /\ ~is_eofd
      <4>1. waiting # <<>>
        BY <1>3, <3>3 DEF InputInv
      <4>2. hit = 1
        BY <3>3, <4>1, WaitingAt DEF Hits, Hit
      <4> QED
        BY <1>5, <4>1, <4>2
    <3> QED
      BY <3>1, <3>2, <3>3
  <2>4. Take(255)
    <3>1. ReadKBByte(hit) = -1
      BY <1>5, <2>3, HitType DEF ReadKBByte
    <3>2. (-1) % 256 = 255
      <4>1. Extended(255) = -1 /\ Extended(255) % 256 = 255
        BY ExtendedByte
      <4> QED
        BY <4>1
    <3> QED
      BY <2>3, <3>1, <3>2 DEF LoadData
  <2>5. taken' = taken \/ taken' = Append(taken, 255)
    BY <2>4 DEF Take
  <2>6. BytesRead \in Nat /\ Len(taken) \in Nat /\ BytesRead <= Len(taken)
    BY <1>1, WaitingAt DEF LinePassed
  <2>7. /\ Len(taken') \in Nat /\ Len(taken') >= Len(taken)
        /\ \A i \in 1 .. Len(taken) : taken'[i] = taken[i]
        /\ \A i \in Len(taken) + 1 .. Len(taken') : taken'[i] = 255
    <3>1. CASE taken' = taken
      BY <2>6, <3>1
    <3>2. CASE taken' = Append(taken, 255)
      BY <1>1, <2>6, <3>2
    <3> QED
      BY <2>5, <3>1, <3>2
  <2>8. LinePassed'
    <3>1. \A i \in 1 .. BytesRead : taken'[i] = typed[i]
      BY <1>1, <2>6, <2>7 DEF LinePassed
    <3>2. \A i \in BytesRead + 1 .. Len(taken) : taken[i] = 255
      BY <1>1 DEF LinePassed
    <3>3. \A i \in BytesRead + 1 .. Len(taken') : taken'[i] = 255
      BY <2>6, <2>7, <3>2
    <3>4. BytesRead <= Len(taken')
      BY <2>6, <2>7
    <3> QED
      BY <1>1, <2>2, <2>3, <3>1, <3>3, <3>4, Zenon DEF LinePassed
  <2> QED
    BY <1>1, <2>1, <2>2, <2>8 DEF InputInv, InputExact
<1> QED
  BY <1>4, <1>5

\* A read of the CSR: the byte that waits, unless it is read as none.
LEMMA InputCsr ==
  ASSUME InputInv, NEW hit \in Hits, ReadCsr(hit), UartInv'
  PROVE  InputInv'
<1>1. /\ interface = "csr" /\ interface' = "csr" /\ source' = source /\ typed' = typed
      /\ status' = status /\ typed \in Seq(Bytes) /\ taken \in Seq(0 .. 255)
      /\ CsrPassed /\ Len(taken) <= BytesRead /\ status = 96
  BY DEF InputInv, UartInv, TypeOK, InputExact, ReadCsr
<1>2. is_eofd => is_eofd'
  BY Zenon DEF ReadCsr, ProbeEnd
<1>3. CASE hit = 1 /\ waiting # <<>>
  <2>1. waiting' = Tail(waiting)
    BY <1>3 DEF ReadCsr, ConsumeByte
  <2>2. /\ BytesRead' = BytesRead + 1 /\ BytesRead + 1 \in 1 .. Len(typed)
        /\ Head(waiting) = typed[BytesRead + 1]
        /\ waiting' = SubSeq(typed', BytesRead' + 1, Len(typed'))
    BY <1>1, <1>3, <2>1, ReadOne
  <2> DEFINE b == typed[BytesRead + 1]
  <2>3. b \in 0 .. 255 /\ BytesRead \in Nat /\ Len(typed) \in Nat /\ Len(taken) \in Nat
    <3>1. Len(taken) \in Nat
      BY <1>1
    <3>2. BytesRead \in Nat /\ Len(typed) \in Nat
      BY WaitingAt
    <3>3. \A i \in 1 .. Len(typed) : typed[i] \in 0 .. 255
      BY WaitingAt
    <3> QED
      BY <2>2, <3>1, <3>2, <3>3
  <2>4. IF b = 255 THEN taken' = taken ELSE taken' = Append(taken, b)
    <3>1. CsrWord(hit) = Extended(b)
      BY <1>3, <2>2 DEF CsrWord, ReadKBByte
    <3> HIDE DEF b
    <3>2. Extended(b) % 256 = b /\ (Extended(b) = -1 <=> b = 255)
      BY <2>3, ExtendedByte
    <3>3. Len(taken) <= MaxTyped
      BY <1>1, <2>2, <2>3, UartAssumption DEF InputInv
    <3> QED
      BY <3>1, <3>2, <3>3 DEF ReadCsr, Take
  <2>5. Len(taken') <= BytesRead'
    <3> HIDE DEF b
    <3>1. Len(taken') \in {Len(taken), Len(taken) + 1}
      BY <1>1, <2>3, <2>4
    <3> QED
      BY <1>1, <2>2, <2>3, <3>1
  <2>6. IsSelection(taken, typed, Passed(typed, BytesRead))
    BY <1>1 DEF CsrPassed, Passed
  <2>7. IsSelection(taken', typed, Passed(typed, BytesRead + 1))
    <3>1. CASE b = 255
      <4>1. Passed(typed, BytesRead + 1) = Passed(typed, BytesRead)
        BY <2>3, <3>1, SelectionSkips
      <4>2. taken' = taken
        BY <2>4, <3>1
      <4> QED
        BY <2>6, <4>1, <4>2
    <3>2. CASE b # 255
      <4>1. IsSelection(Append(taken, b), typed, Passed(typed, BytesRead + 1))
        BY <1>1, <2>3, <2>6, <3>2, SelectionGrows
      <4>2. taken' = Append(taken, b)
        BY <2>4, <3>2
      <4> QED
        BY <4>1, <4>2
    <3> QED
      BY <3>1, <3>2
  <2>8. CsrPassed'
    BY <1>1, <2>2, <2>7 DEF CsrPassed, Passed
  <2>9. InputExact'
    BY <1>1, <2>2, <2>3, <2>8 DEF InputExact
  <2> QED
    BY <1>1, <1>2, <2>5, <2>9 DEF InputInv
<1>4. CASE ~(hit = 1 /\ waiting # <<>>)
  <2>1. waiting' = waiting
    BY <1>4, Zenon DEF ReadCsr, ConsumeByte
  <2>2. CsrWord(hit) = -1
    BY <1>4, HitType DEF CsrWord, ReadKBByte
  <2>3. taken' = taken
    BY <2>2 DEF ReadCsr
  <2>4. InputExact' /\ BytesRead' = BytesRead
    BY <1>1, <1>2, <2>1, <2>3, InputStays, ReadNone
  <2> QED
    BY <1>1, <1>2, <2>1, <2>3, <2>4 DEF InputInv
<1> QED
  BY <1>3, <1>4

LEMMA InputNext == InputInv /\ [Next]_vars => InputInv'
<1> SUFFICES ASSUME InputInv, [Next]_vars PROVE InputInv'
  OBVIOUS
<1>1. UartInv'
  BY UartNext DEF InputInv
<1>2. CASE UNCHANGED vars
  <2>1. InputExact' /\ BytesRead' = BytesRead
    BY <1>2, InputStays, ReadNone DEF vars
  <2> QED
    BY <1>1, <1>2, <2>1 DEF vars, InputInv
<1> QED
  BY <1>1, <1>2, InputType, InputClose, InputStatus, InputData, InputCsr DEF Next, Host, Guest

LEMMA InputInit == Init => InputInv
<1> SUFFICES ASSUME Init PROVE InputInv
  OBVIOUS
<1>1. UartInv
  BY UartInit
<1>2. Len(typed) = 0 /\ Len(taken) = 0 /\ BytesRead = 0
  BY DEF Init, BytesRead
<1>3. waiting = SubSeq(typed, BytesRead + 1, Len(typed))
  BY <1>2 DEF Init
<1>4. LinePassed
  BY <1>2 DEF LinePassed
<1>5. CsrPassed
  <2> DEFINE P == {j \in 1 .. BytesRead : typed[j] # 255}
             from == [i \in DOMAIN taken |-> 0]
  <2>1. P = {} /\ DOMAIN taken = {}
    BY <1>2 DEF Init
  <2>2. from \in [DOMAIN taken -> P]
    BY <2>1
  <2> QED
    BY <2>1, <2>2 DEF CsrPassed, IsSelection
<1> QED
  BY <1>1, <1>2, <1>3, <1>4, <1>5, UartAssumption DEF Init, InputInv, InputExact

\* Through either interface the guest gets exactly what was typed, in order,
\* whenever it polls and whatever the host's end of input is taken to be.
THEOREM InputExactHolds == Spec => []InputExact
<1>1. InputInv => InputExact
  BY DEF InputInv
<1> QED
  BY <1>1, InputInit, InputNext, PTL DEF Spec

-----------------------------------------------------------------------------
(* While a byte waits and no end is declared, the host says that it does.  *)

LEMMA WaitingHits ==
  ASSUME InputInv, waiting # <<>>, ~is_eofd
  PROVE  Hits = {1}
<1>1. waiting \in Seq(Bytes) /\ source # "null"
  <2>1. BytesRead \in 0 .. Len(typed) /\ Len(waiting) = Len(typed) - BytesRead /\ waiting \in Seq(Bytes)
    BY WaitingAt DEF InputInv, UartInv, TypeOK
  <2>2. ASSUME source = "null" PROVE FALSE
    <3>1. Len(typed) = 0
      BY <2>2 DEF InputInv
    <3>2. Len(waiting) = 0
      BY <2>1, <3>1
    <3> QED
      BY <2>1, <3>2
  <2> QED
    BY <2>1, <2>2
<1>2. Len(waiting) # 0
  BY <1>1
<1> QED
  BY <1>1, <1>2 DEF Hits, Hit

\* No poll is in vain while a byte waits: the safety that InputReceived rests on.
THEOREM EveryPollAlwaysCounts == Spec => EveryPollCounts
<1>1. ASSUME InputInv, Guest, waiting # <<>>, ~is_eofd
      PROVE  (~DataReady /\ DataReady') \/ waiting' = Tail(waiting)
  <2>1. LoadStatus(1) \/ LoadData(1) \/ ReadCsr(1)
    BY <1>1, WaitingHits DEF Guest
  <2>2. CASE LoadStatus(1)
    BY <2>2 DEF LoadStatus, DataReady
  <2>3. CASE LoadData(1) \/ ReadCsr(1)
    BY <1>1, <2>3 DEF LoadData, ReadCsr, ConsumeByte
  <2> QED
    BY <2>1, <2>2, <2>3
<1>2. InputInv /\ [Next]_vars =>
        [Guest /\ waiting # <<>> /\ ~is_eofd => (~DataReady /\ DataReady') \/ waiting' = Tail(waiting)]_vars
  BY <1>1
<1> QED
  BY <1>2, InputInit, InputNext, PTL DEF Spec, EveryPollCounts
=============================================================================
