--------------------------- MODULE SessionProofs ---------------------------
(***************************************************************************)
(* Proofs about Session: for every command line, every file it can name    *)
(* and every width of the loop's counters.                                 *)
(***************************************************************************)
EXTENDS Session, TLAPS

\* Quotient and remainder, and what is left of a sum with a multiple.
LEMMA Remainder ==
  ASSUME NEW c \in Nat \ {0}, NEW a \in Int
  PROVE  /\ a % c \in 0 .. c - 1
         /\ a \div c \in Int
         /\ a = c * (a \div c) + (a % c)
  BY Z3

LEMMA MultipleDropped ==
  ASSUME NEW c \in Nat \ {0}, NEW q \in Int, NEW r \in 0 .. c - 1
  PROVE  (c * q + r) % c = r
  BY Z3

\* The difference of the clock and the 32 bits kept of an earlier reading is,
\* in 32 bits, the time between them, if that is less than the width.
LEMMA ShortGap ==
  ASSUME NEW c \in Nat \ {0}, NEW a \in Nat, NEW n \in Nat, n >= a, n - a < c
  PROVE  (n - (a % c)) % c = n - a
  BY Z3

\* Whatever the gap, it differs from that time by a multiple of the width.
LEMMA GapOff ==
  ASSUME NEW c \in Nat \ {0}, NEW a \in Nat, NEW n \in Nat
  PROVE  \E k \in Int : (n - (a % c)) % c = (n - a) + c * k
<1> DEFINE ra == a % c
           qa == a \div c
           d  == n - ra
           rd == d % c
           qd == d \div c
<1>0. a \in Int /\ n \in Int
  OBVIOUS
<1>1. ra \in Int /\ qa \in Int /\ a = c * qa + ra
  <2>1. ra \in 0 .. c - 1 /\ qa \in Int /\ a = c * qa + ra
    BY <1>0, Remainder, Zenon
  <2>2. ra \in Int
    <3> HIDE DEF ra, qa
    <3> QED
      BY <2>1
  <2> QED
    BY <2>1, <2>2, Zenon
<1>2. d \in Int
  <2> HIDE DEF ra, qa
  <2> QED
    BY <1>0, <1>1 DEF d
<1>3. rd \in 0 .. c - 1 /\ qd \in Int /\ d = c * qd + rd
  <2> HIDE DEF d
  <2> QED
    BY <1>2, Remainder, Zenon DEF rd, qd
<1>4. d = (n - a) + c * qa
  <2> HIDE DEF ra, qa
  <2> QED
    BY <1>0, <1>1 DEF d
<1>5. rd = (n - a) + c * (qa - qd)
  <2> HIDE DEF ra, qa, d, rd, qd
  <2>1. c * (qa - qd) = c * qa - c * qd
    BY <1>1, <1>3, Z3
  <2> QED
    BY <1>0, <1>1, <1>3, <1>4, <2>1, Z3
<1>6. qa - qd \in Int
  <2> HIDE DEF ra, qa, d, rd, qd
  <2> QED
    BY <1>1, <1>3
<1> QED
  <2> HIDE DEF qa, qd
  <2>1. (n - (a % c)) % c = (n - a) + c * (qa - qd)
    BY <1>5 DEF rd, d, ra
  <2> QED
    BY <1>6, <2>1

\* Adding the difference to the 32 bits kept gives those of the new reading.
LEMMA ReadingKept ==
  ASSUME NEW c \in Nat \ {0}, NEW l \in 0 .. c - 1, NEW n \in Nat
  PROVE  (l + ((n - l) % c)) % c = n % c
<1> DEFINE d  == n - l
           rd == d % c
           qd == d \div c
           rn == n % c
           qn == n \div c
<1>1. d \in Int
  OBVIOUS
<1>2. rd \in 0 .. c - 1 /\ qd \in Int /\ d = c * qd + rd
  <2> HIDE DEF d
  <2> QED
    BY <1>1, Remainder, Zenon DEF rd, qd
<1>3. rn \in 0 .. c - 1 /\ qn \in Int /\ n = c * qn + rn
  <2>1. n \in Int
    OBVIOUS
  <2> QED
    BY <2>1, Remainder, Zenon
<1>4. l + rd = c * (qn - qd) + rn
  <2>1. d = n - l
    OBVIOUS
  <2> HIDE DEF d, rd, qd, rn, qn
  <2>2. c * (qn - qd) = c * qn - c * qd
    BY <1>2, <1>3, Z3
  <2> QED
    BY <1>2, <1>3, <2>1, <2>2, Z3
<1>5. (c * (qn - qd) + rn) % c = rn
  <2> HIDE DEF d, rd, qd, rn, qn
  <2>1. qn - qd \in Int
    BY <1>2, <1>3
  <2> QED
    BY <1>3, <2>1, MultipleDropped
<1>6. (l + rd) % c = rn
  <2> HIDE DEF d, rd, qd, rn, qn
  <2> QED
    BY <1>4, <1>5
<1> QED
  BY <1>6

-----------------------------------------------------------------------------
(* The command line and the loader.  The invariant says of each part of    *)
(* the program what it has done so far: the parser has passed options      *)
(* only, and has taken the one name after -i, or none; memory holds the    *)
(* segments before seg, the last written of those that overlap.            *)

ProgramHeaders == [p_type : Nat, p_paddr : Nat, p_filesz : Nat, p_memsz : Nat]

\* No "-i" yet, or the last element passed was one and a name follows it.
Parsed ==
  /\ at - 1 <= Len(line)
  /\ \A k \in 1 .. at - 1 : line[k] \in Dashed
  /\ \/ Misread
     \/ file = "absent" /\ \A k \in 1 .. at - 1 : line[k] \notin {"-i", "--img"}
     \/ /\ at \in 2 .. Len(line) /\ line[at - 1] = "-i" /\ line[at] \notin Dashed
        /\ file = line[at]
        /\ \A k \in 1 .. at - 2 : line[k] \notin {"-i", "--img"}

\* Memory after the first n - 1 headers.
Holds(n) ==
  \A c \in Ram : ~(IsKernel /\ InTree(c)) =>
    \/ /\ \A i \in 1 .. n - 1 : ~Gives(i, c)
       /\ mem[c] = Junk
    \/ \E i \in 1 .. n - 1 :
         /\ Gives(i, c) /\ \A j \in 1 .. n - 1 : j > i => ~Gives(j, c)
         /\ mem[c] = <<"segment", i, c - segs[i].p_paddr>>

LoaderInv ==
  /\ LoaderTypeOK /\ segs \in Seq(ProgramHeaders)
  /\ where = "options" => Parsed
  /\ where \in {"options", "load"} => mem = [c \in Ram |-> Junk] /\ segs = <<>>
  /\ where = "tree" => IsKernel
  /\ where \in {"tree", "ready"} => Holds(Len(segs) + 1)
  /\ where = "segments" => Holds(seg) /\ ~IsPayload /\ seg <= Len(segs) + 1
  /\ KernelHasTree

\* What the parser gives an option is a name or an option.
LEMMA OptargType ==
  ASSUME LoaderTypeOK, NEW k \in DOMAIN line
  PROVE  Optarg(k) \subseteq Names \cup Dashed
  BY DEF LoaderTypeOK, Optarg, Environment, Names, Rest

\* Only "-i", the name with three characters more, and the long options that
\* are not "help" reach main's second option.
LEMMA ImageOptions ==
  ASSUME NEW o \in Dashed, IsImage(o)
  PROVE  o \in {"-i", "-iImage", "--help"}
  BY DEF Dashed, IsImage, IsHelp, ChrMatch, StrMatch, Letter, LongName

LEMMA ImageOption == IsImage("-i")
  BY DEF IsImage, IsHelp, ChrMatch, StrMatch, Letter, LongName

LEMMA LoaderInitially == LoaderInit => LoaderInv
<1> SUFFICES ASSUME LoaderInit PROVE LoaderInv
  OBVIOUS
<1>1. LoaderTypeOK /\ segs \in Seq(ProgramHeaders)
  BY OptionsAssumption, LoaderAssumption DEF LoaderInit, OptionsInit, LoaderTypeOK
<1>2. Parsed
  BY <1>1 DEF LoaderInit, OptionsInit, LoaderTypeOK, Parsed
<1> QED
  BY <1>1, <1>2 DEF LoaderInit, OptionsInit, LoaderInv, KernelHasTree

LEMMA ParseNext ==
  ASSUME LoaderInv, ParseOption, UNCHANGED memVars
  PROVE  LoaderInv'
<1>1. /\ where = "options" /\ where' = "options" /\ line' = line /\ at' = at + 1
      /\ at \in Nat \ {0} /\ line \in Seq(Names \cup Dashed)
      /\ at <= Len(line) /\ line[at] \in Dashed /\ Parsed
  BY DEF ParseOption, AtOption, LoaderInv, LoaderTypeOK
<1>2. at \in 1 .. Len(line) /\ DOMAIN line = 1 .. Len(line)
  BY <1>1
<1>3. file' \in Names \cup Dashed \cup {"absent"}
  BY <1>2, OptargType DEF ParseOption, LoaderInv, LoaderTypeOK
<1>4. Misread' = Misread
  BY <1>1 DEF Misread, Leading
<1>5. \A k \in 1 .. at' - 1 : line'[k] \in Dashed
  BY <1>1 DEF Parsed
<1>6. at \in Leading
  BY <1>1, <1>2 DEF Leading, Parsed
<1>7. Parsed'
  <2>1. CASE line[at] = "-i"
    <3>1. CASE Misread
      BY <1>1, <1>4, <1>5, <3>1 DEF Parsed
    <3>2. CASE ~Misread
      <4>1. at < Len(line) /\ at + 1 \notin Leading
        <5>1. at # Len(line) /\ at + 1 \notin Leading
          BY <1>6, <2>1, <3>2, Zenon DEF Misread
        <5>2. at < Len(line)
          <6>1. Len(line) \in Nat /\ at \in Nat /\ at <= Len(line) /\ at # Len(line)
            BY <1>1, <5>1
          <6> QED
            BY <6>1
        <5> QED
          BY <5>1, <5>2, Zenon
      <4>2. line[at + 1] \notin Dashed
        BY <1>2, <1>5, <1>1, <4>1 DEF Leading
      <4>3. file' = line[at + 1]
        BY <2>1, <4>1, ImageOption DEF ParseOption, Optarg, Rest
      <4>4. \A k \in 1 .. at - 1 : line[k] \notin {"-i", "--img"}
        BY <1>1, <3>2 DEF Parsed
      <4> QED
        BY <1>1, <1>2, <1>5, <2>1, <4>1, <4>2, <4>3, <4>4 DEF Parsed
    <3> QED
      BY <3>1, <3>2
  <2>2. CASE line[at] # "-i"
    <3>1. CASE Misread
      BY <1>1, <1>4, <1>5, <3>1 DEF Parsed
    <3>2. CASE ~Misread
      <4>1. line[at] \notin DOMAIN LongName \cup DOMAIN Rest
        BY <1>6, <3>2 DEF Misread
      <4>2. ~IsImage(line[at]) /\ line[at] # "--img"
        BY <1>1, <2>2, <4>1, ImageOptions DEF LongName, Rest
      <4>3. file = "absent" /\ \A k \in 1 .. at - 1 : line[k] \notin {"-i", "--img"}
        BY <1>1, <3>2 DEF Parsed
      <4> QED
        BY <1>1, <1>2, <1>5, <2>2, <4>2, <4>3 DEF Parsed, ParseOption
    <3> QED
      BY <3>1, <3>2
  <2> QED
    BY <2>1, <2>2
<1>8. KernelHasTree'
  BY <1>1 DEF KernelHasTree
<1> QED
  BY <1>1, <1>3, <1>7, <1>8 DEF memVars, LoaderInv, LoaderTypeOK

\* At the end of the options the name taken is the one that was meant.
LEMMA EndMeant ==
  ASSUME LoaderInv, EndOptions
  PROVE  file = Meant \/ Misread
<1> SUFFICES ASSUME ~Misread PROVE file = Meant
  OBVIOUS
<1>1. /\ Parsed /\ ~AtOption /\ at \in Nat \ {0}
      /\ line \in Seq(Names \cup Dashed) /\ DOMAIN line = 1 .. Len(line)
  BY DEF EndOptions, LoaderInv, LoaderTypeOK
<1>2. Leading = 1 .. at - 1
  BY <1>1 DEF Leading, Parsed, AtOption
<1> DEFINE named == {k \in Leading : line[k] \in {"-i", "--img"} /\ k < Len(line)}
<1>3. CASE file = "absent" /\ \A k \in 1 .. at - 1 : line[k] \notin {"-i", "--img"}
  BY <1>2, <1>3 DEF Meant
<1>4. CASE /\ at \in 2 .. Len(line) /\ line[at - 1] = "-i"
           /\ file = line[at]
           /\ \A k \in 1 .. at - 2 : line[k] \notin {"-i", "--img"}
  <2>1. named = {at - 1}
    BY <1>1, <1>2, <1>4
  <2>2. (at - 1) + 1 = at /\ at \notin Leading
    BY <1>1, <1>2
  <2>3. (CHOOSE k \in named : k + 1 \notin Leading) = at - 1
    BY <2>1, <2>2
  <2> QED
    BY <1>4, <2>1, <2>2, <2>3 DEF Meant
<1> QED
  BY <1>1, <1>3, <1>4 DEF Parsed

LEMMA EndOptionsNext ==
  ASSUME LoaderInv, EndOptions, UNCHANGED memVars
  PROVE  LoaderInv'
  BY DEF EndOptions, optionVars, memVars, LoaderInv, LoaderTypeOK, KernelHasTree

LEMMA PayloadNext ==
  ASSUME LoaderInv, NEW size \in Sizes, LoadPayload(size)
  PROVE  LoaderInv'
<1>1. /\ size \in Nat /\ VaddrBase \in Nat
  BY LoaderAssumption
<1>2. /\ segs' = <<Payload(size)>> /\ Payload(size) \in ProgramHeaders
      /\ Len(segs') = 1 /\ segs'[1] = Payload(size)
  BY <1>1 DEF LoadPayload, Payload, Header, ProgramHeaders
<1>3. mem = [c \in Ram |-> Junk] /\ mem' = Copied(VaddrBase, size, "segment", 1)
  BY DEF LoadPayload, LoaderInv
<1>4. \A c \in Ram : Gives(1, c)' <=> c \in VaddrBase .. VaddrBase + size - 1
  BY <1>1, <1>2, LoaderAssumption DEF Gives, Payload, Header, Ram, MemRange
<1>5. Holds(2)'
  <2> SUFFICES ASSUME NEW c \in Ram
               PROVE  \/ ~Gives(1, c)' /\ mem'[c] = Junk
                      \/ Gives(1, c)' /\ mem'[c] = <<"segment", 1, c - segs'[1].p_paddr>>
    BY <1>2 DEF Holds, Ram, MemRange
  <2>1. segs'[1].p_paddr = VaddrBase
    BY <1>2 DEF Payload, Header
  <2> QED
    BY <1>3, <1>4, <2>1 DEF Copied
<1>6. KernelHasTree'
  BY DEF LoadPayload, AfterPayload, KernelHasTree, IsKernel, HasDot, optionVars
<1>7. /\ where' \in {"tree", "ready", "dead"} /\ UNCHANGED <<optionVars, a1, seg>>
      /\ where' = "tree" => IsKernel'
  BY DEF LoadPayload, AfterPayload, IsKernel, HasDot, optionVars
<1>8. LoaderTypeOK' /\ segs' \in Seq(ProgramHeaders)
  BY <1>2, <1>3, <1>7 DEF LoaderInv, LoaderTypeOK, Copied, Ram, MemRange, optionVars
<1> QED
  BY <1>2, <1>5, <1>6, <1>7, <1>8 DEF LoaderInv

LEMMA UnreadableNext ==
  ASSUME LoaderInv, LoadPayloadUnreadable
  PROVE  LoaderInv'
<1>1. /\ where' \in {"tree", "ready", "dead"} /\ UNCHANGED loadVars
      /\ mem = [c \in Ram |-> Junk] /\ segs = <<>>
      /\ where' = "tree" => IsKernel'
  BY DEF LoadPayloadUnreadable, AfterPayload, LoaderInv, IsKernel, HasDot, loadVars, optionVars
<1>2. Holds(Len(segs) + 1)'
  BY <1>1 DEF loadVars, memVars, Holds, Ram, MemRange
<1>3. KernelHasTree'
  BY DEF LoadPayloadUnreadable, AfterPayload, KernelHasTree, IsKernel, HasDot, loadVars, optionVars
<1> QED
  BY <1>1, <1>2, <1>3 DEF LoaderInv, LoaderTypeOK, loadVars, optionVars, memVars, Ram, MemRange

LEMMA TreeNext ==
  ASSUME LoaderInv, UpdateDtb
  PROVE  LoaderInv'
<1>1. /\ where = "tree" /\ where' = "ready" /\ a1' = DtbAt
      /\ file' = file /\ line' = line /\ at' = at /\ segs' = segs /\ seg' = seg
      /\ mem' = [Copied(DtbAt, DtbSize, "tree", 0)
                   EXCEPT ![DtbAt + SizeCell] = <<"size", 0, DtbAt - VaddrBase>>]
  BY DEF UpdateDtb, optionVars
<1>2. /\ DtbAt \in Nat /\ DtbSize \in Nat /\ SizeCell \in 0 .. DtbSize - 1
  BY LoaderAssumption DEF Ram, MemRange
<1>3. \A c \in Ram : c \in Int
  BY DEF Ram
<1>4. \A c \in Ram :
        mem'[c] = IF c = DtbAt + SizeCell THEN <<"size", 0, DtbAt - VaddrBase>>
                  ELSE IF c \in DtbAt .. DtbAt + DtbSize - 1 THEN <<"tree", 0, c - DtbAt>>
                  ELSE mem[c]
  BY <1>1 DEF Copied
<1>5. \A c \in Ram : InTree(c) <=> c \in DtbAt .. DtbAt + DtbSize - 1
  BY <1>2, <1>3 DEF InTree
<1>6. \A c \in Ram : c = DtbAt + SizeCell => InTree(c)
  BY <1>2 DEF InTree
<1>7. KernelHasTree'
  BY <1>1, <1>4, <1>5 DEF KernelHasTree, InTree, Ram, MemRange
<1>8. Holds(Len(segs) + 1)'
  <2>1. IsKernel
    BY <1>1 DEF LoaderInv
  <2>2. Holds(Len(segs) + 1)
    BY <1>1 DEF LoaderInv
  <2>3. \A i, c : Gives(i, c)' <=> Gives(i, c)
    BY <1>1 DEF Gives
  <2>4. \A c \in Ram : ~InTree(c) => mem'[c] = mem[c]
    BY <1>4, <1>5, <1>6
  <2>5. IsKernel' /\ Ram' = Ram /\ \A c : InTree(c)' <=> InTree(c)
    BY <1>1, <2>1 DEF IsKernel, HasDot, Ram, MemRange, InTree
  <2> QED
    BY <1>1, <2>1, <2>2, <2>3, <2>4, <2>5 DEF Holds
<1>9. LoaderTypeOK' /\ segs' \in Seq(ProgramHeaders)
  BY <1>1 DEF LoaderInv, LoaderTypeOK, Copied, Ram, MemRange
<1> QED
  BY <1>1, <1>7, <1>8, <1>9 DEF LoaderInv

LEMMA OpenElfNext ==
  ASSUME LoaderInv, OpenElf
  PROVE  LoaderInv'
<1>1. /\ where' = "segments" /\ ~IsPayload /\ seg' = 1 /\ segs' \in Programs
      /\ a1' = DtbAt /\ file' = file /\ line' = line /\ at' = at /\ mem' = mem
      /\ mem = [c \in Ram |-> Junk]
  BY DEF OpenElf, optionVars, LoaderInv
<1>2. segs' \in Seq(ProgramHeaders)
  BY <1>1, LoaderAssumption DEF ProgramHeaders
<1>3. ~IsPayload' /\ (seg <= Len(segs) + 1)'
  BY <1>1, <1>2 DEF IsPayload, IsKernel, HasDot
<1>4. Holds(seg)'
  BY <1>1 DEF Holds, Ram, MemRange
<1>5. LoaderTypeOK'
  BY <1>1 DEF LoaderInv, LoaderTypeOK, Ram, MemRange
<1> QED
  BY <1>1, <1>2, <1>3, <1>4, <1>5 DEF LoaderInv, KernelHasTree

\* A header's bytes are exactly those that are copied for it.
LEMMA GivesCopied ==
  ASSUME LoaderInv, NEW i \in DOMAIN segs, NEW c \in Ram
  PROVE  Gives(i, c) <=> /\ Loadable(segs[i])
                         /\ c \in segs[i].p_paddr .. segs[i].p_paddr + segs[i].p_filesz - 1
<1>1. /\ segs[i].p_paddr \in Nat /\ segs[i].p_filesz \in Nat /\ c \in Int
  <2>1. segs[i] \in ProgramHeaders
    BY DEF LoaderInv
  <2> QED
    BY <2>1 DEF ProgramHeaders, Ram
<1> QED
  BY <1>1 DEF Gives, Loadable

LEMMA SegmentNext ==
  ASSUME LoaderInv, LoadSegment
  PROVE  LoaderInv'
<1> DEFINE h == segs[seg]
<1>1. /\ where = "segments" /\ where' \in {"segments", "dead"} /\ seg' = seg + 1
      /\ a1' = a1 /\ file' = file /\ line' = line /\ at' = at /\ segs' = segs
      /\ seg \in 1 .. Len(segs) /\ segs \in Seq(ProgramHeaders) /\ ~IsPayload
      /\ Holds(seg)
  BY DEF LoadSegment, optionVars, LoaderInv, LoaderTypeOK
<1>2. /\ Loadable(h) => mem' = Copied(h.p_paddr, h.p_filesz, "segment", seg)
      /\ ~Loadable(h) => mem' = mem
  BY DEF LoadSegment
<1>3. ~IsKernel /\ ~IsPayload' /\ ~IsKernel'
  BY <1>1 DEF IsPayload, IsKernel, HasDot
<1>4. \A i, c : Gives(i, c)' <=> Gives(i, c)
  BY <1>1 DEF Gives
<1>5. Holds(seg)'
  <2> SUFFICES
        ASSUME NEW c \in Ram
        PROVE  \/ /\ \A i \in 1 .. seg : ~Gives(i, c)
                  /\ mem'[c] = Junk
               \/ \E i \in 1 .. seg :
                    /\ Gives(i, c) /\ \A j \in 1 .. seg : j > i => ~Gives(j, c)
                    /\ mem'[c] = <<"segment", i, c - segs[i].p_paddr>>
    <3>1. seg' - 1 = seg
      BY <1>1
    <3> QED
      BY <1>1, <1>4, <3>1 DEF Holds, Ram, MemRange
  <2>1. seg \in DOMAIN segs
    BY <1>1
  <2>2. \/ /\ \A i \in 1 .. seg - 1 : ~Gives(i, c)
           /\ mem[c] = Junk
        \/ \E i \in 1 .. seg - 1 :
             /\ Gives(i, c) /\ \A j \in 1 .. seg - 1 : j > i => ~Gives(j, c)
             /\ mem[c] = <<"segment", i, c - segs[i].p_paddr>>
    BY <1>1, <1>3 DEF Holds
  <2>3. CASE Gives(seg, c)
    <3>1. mem'[c] = <<"segment", seg, c - h.p_paddr>>
      BY <1>2, <2>1, <2>3, GivesCopied DEF Copied
    <3>2. \A j \in 1 .. seg : ~(j > seg)
      BY <1>1
    <3> QED
      BY <1>1, <2>3, <3>1, <3>2
  <2>4. CASE ~Gives(seg, c)
    <3>1. mem'[c] = mem[c]
      BY <1>2, <2>1, <2>4, GivesCopied DEF Copied
    <3>2. \A i \in 1 .. seg : i \in 1 .. seg - 1 \/ i = seg
      BY <1>1
    <3>3. \A i \in 1 .. seg - 1 : i \in 1 .. seg
      BY <1>1
    <3> QED
      BY <2>2, <2>4, <3>1, <3>2, <3>3
  <2> QED
    BY <2>3, <2>4
<1>6. LoaderTypeOK'
  BY <1>1, <1>2 DEF LoaderInv, LoaderTypeOK, Copied, Ram, MemRange
<1>7. (seg <= Len(segs) + 1)'
  BY <1>1
<1> QED
  BY <1>1, <1>3, <1>5, <1>6, <1>7 DEF LoaderInv, KernelHasTree

LEMMA EndSegmentsNext ==
  ASSUME LoaderInv, EndSegments
  PROVE  LoaderInv'
<1>1. /\ where' = "ready" /\ seg = Len(segs) + 1 /\ Holds(seg) /\ ~IsKernel
      /\ segs \in Seq(ProgramHeaders)
      /\ file' = file /\ line' = line /\ at' = at /\ mem' = mem /\ a1' = a1
      /\ segs' = segs /\ seg' = seg
  BY DEF EndSegments, loadVars, optionVars, memVars, LoaderInv, LoaderTypeOK, IsPayload
<1>2. ~IsKernel' /\ Holds(Len(segs) + 1)'
  BY <1>1 DEF IsKernel, HasDot, Holds, Gives, InTree, Ram, MemRange
<1> QED
  BY <1>1, <1>2 DEF LoaderInv, LoaderTypeOK, KernelHasTree, Ram, MemRange

\* A step after which the process has ended, or the loop is entered, run or left.
LEMMA LoadedNext ==
  ASSUME LoaderInv, UNCHANGED loadVars, where' \in {"prompt", "loop", "exited", "dead"}
  PROVE  LoaderInv'
  BY DEF LoaderInv, LoaderTypeOK, KernelHasTree, loadVars, optionVars, memVars, Ram, MemRange

LEMMA LoadNext ==
  ASSUME LoaderInv, Load
  PROVE  LoaderInv'
<1>1. CASE ParseOption /\ UNCHANGED memVars
  BY <1>1, ParseNext
<1>2. CASE EndOptions /\ UNCHANGED memVars
  BY <1>2, EndOptionsNext
<1>3. ASSUME NEW size \in Sizes, LoadPayload(size) PROVE LoaderInv'
  BY <1>3, PayloadNext
<1>4. CASE LoadPayloadUnreadable
  BY <1>4, UnreadableNext
<1>5. CASE UpdateDtb
  BY <1>5, TreeNext
<1>6. CASE OpenElf
  BY <1>6, OpenElfNext
<1>7. CASE LoadSegment
  BY <1>7, SegmentNext
<1>8. CASE EndSegments
  BY <1>8, EndSegmentsNext
<1>9. CASE LoadDefault \/ LoadElfFails
  BY <1>9, LoadedNext DEF LoadDefault, LoadElfFails
<1> QED
  BY <1>1, <1>2, <1>3, <1>4, <1>5, <1>6, <1>7, <1>8, <1>9 DEF Load

-----------------------------------------------------------------------------
(* The loop.  While it runs, last_time holds 32 bits of the clock's last   *)
(* reading, and max_inst says whether the last call stopped the program.   *)
(* The guest's time is off by a multiple of the clock's span, and by       *)
(* nothing while the clock was steady.                                     *)

LoopTypeOK ==
  /\ max_inst \in 0 .. CycleSpan - 1 /\ cycle \in 0 .. CycleSpan - 1
  /\ ret \in Returns
  /\ last_time \in 0 .. ClockSpan - 1
  /\ guest \in Nat /\ now \in Nat /\ read_at \in Nat /\ counted \in Int
  /\ settings \in 0 .. MaxSettings /\ steady \in BOOLEAN

LoopInv ==
  where = "loop" =>
    /\ last_time = read_at % ClockSpan
    /\ max_inst = IF ret \in {2, 3} THEN 0 ELSE CycleSpan - 1

TimeInv ==
  /\ steady => guest = counted
  /\ \E k \in Int : guest = counted + ClockSpan * k

SessionInv == LoaderInv /\ where \in Where /\ LoopTypeOK /\ LoopInv /\ TimeInv

LEMMA SessionInit == Init => SessionInv
<1> SUFFICES ASSUME Init PROVE SessionInv
  OBVIOUS
<1>1. /\ 0 \in 0 .. CycleSpan - 1 /\ 0 \in 0 .. ClockSpan - 1 /\ 0 \in Returns
      /\ 0 \in 0 .. MaxSettings /\ now \in Nat
  BY SessionAssumption DEF Init
<1>2. LoopTypeOK
  BY <1>1 DEF Init, LoopTypeOK
<1>3. TimeInv
  <2>1. ClockSpan * 0 = 0 /\ 0 \in Int
    BY SessionAssumption
  <2>2. guest = counted + ClockSpan * 0
    BY <2>1 DEF Init
  <2> QED
    BY <2>1, <2>2 DEF Init, TimeInv
<1>4. where = "options"
  BY DEF Init, LoaderInit, OptionsInit
<1> QED
  BY <1>2, <1>3, <1>4, LoaderInitially DEF Init, SessionInv, LoopInv, Where

\* Nothing but where and the loader's part changes.
LEMMA LoopUntouched ==
  ASSUME LoopTypeOK, LoopInv, TimeInv, UNCHANGED <<loopVars, readVars, hostVars>>,
         where' # "loop" \/ where' = where
  PROVE  (LoopTypeOK /\ LoopInv /\ TimeInv)'
  BY DEF loopVars, readVars, hostVars, LoopTypeOK, LoopInv, TimeInv

\* What an iteration adds to the guest's time.
LEMMA IterationTime ==
  ASSUME SessionInv, where = "loop"
  PROVE  /\ TimeSed \in Nat
         /\ \E k \in Int : TimeSed = (now - read_at) + ClockSpan * k
         /\ now - read_at \in 0 .. ClockSpan - 1 => TimeSed = now - read_at
         /\ (last_time + TimeSed) % ClockSpan = now % ClockSpan
<1>1. /\ ClockSpan \in Nat \ {0} /\ read_at \in Nat /\ now \in Nat
      /\ last_time \in 0 .. ClockSpan - 1
      /\ last_time = read_at % ClockSpan
  BY SessionAssumption DEF SessionInv, LoopTypeOK, LoopInv
<1>2. TimeSed = (now - (read_at % ClockSpan)) % ClockSpan
  BY <1>1 DEF TimeSed
<1>3. \E k \in Int : TimeSed = (now - read_at) + ClockSpan * k
  BY <1>1, <1>2, GapOff
<1>4. ASSUME now - read_at \in 0 .. ClockSpan - 1 PROVE TimeSed = now - read_at
  <2>1. now >= read_at /\ now - read_at < ClockSpan
    BY <1>1, <1>4
  <2> QED
    BY <1>1, <1>2, <2>1, ShortGap
<1>5. (last_time + TimeSed) % ClockSpan = now % ClockSpan
  BY <1>1, ReadingKept DEF TimeSed
<1>6. TimeSed \in Nat
  <2>1. TimeSed \in 0 .. ClockSpan - 1
    <3>1. now - last_time \in Int
      BY <1>1
    <3> QED
      BY <1>1, <3>1, Remainder DEF TimeSed
  <2> QED
    BY <2>1
<1> QED
  BY <1>3, <1>4, <1>5, <1>6

LEMMA RunNext == ASSUME SessionInv, Run PROVE SessionInv'
<1>1. /\ now \in Nat /\ ClockSpan \in Nat \ {0}
      /\ CycleSpan - 1 \in 0 .. CycleSpan - 1 /\ 0 \in 0 .. CycleSpan - 1 /\ 0 \in Returns
  BY SessionAssumption DEF SessionInv, LoopTypeOK
<1>2. now % ClockSpan \in 0 .. ClockSpan - 1
  <2>1. now \in Int
    BY <1>1
  <2> QED
    BY <1>1, <2>1, Remainder
<1>3. /\ where' = "loop" /\ UNCHANGED loadVars /\ UNCHANGED <<guest, counted, steady>>
      /\ UNCHANGED hostVars
      /\ max_inst' = CycleSpan - 1 /\ cycle' = 0 /\ ret' = 0
      /\ last_time' = now % ClockSpan /\ read_at' = now
  BY DEF Run
<1>4. LoopTypeOK' /\ LoopInv' /\ TimeInv'
  BY <1>1, <1>2, <1>3 DEF hostVars, SessionInv, LoopTypeOK, LoopInv, TimeInv
<1> QED
  BY <1>3, <1>4, LoadedNext DEF SessionInv, Where

LEMMA IterateNext == ASSUME SessionInv, NEW r \in Returns, Iterate(r) PROVE SessionInv'
<1>1. /\ where = "loop" /\ where' = "loop" /\ cycle < max_inst
      /\ last_time' = (last_time + TimeSed) % ClockSpan
      /\ guest' = guest + TimeSed /\ read_at' = now
      /\ counted' = counted + (now - read_at)
      /\ steady' = (steady /\ now - read_at \in 0 .. ClockSpan - 1)
      /\ ret' = r /\ max_inst' = MaxInstAfter(r) /\ cycle' = (cycle + 1) % CycleSpan
      /\ now' = now /\ settings' = settings
  BY DEF Iterate, Looping, hostVars
<1>2. /\ ClockSpan \in Nat \ {0} /\ CycleSpan \in Nat \ {0}
      /\ max_inst \in 0 .. CycleSpan - 1 /\ cycle \in 0 .. CycleSpan - 1
      /\ guest \in Nat /\ now \in Nat /\ read_at \in Nat /\ counted \in Int
      /\ steady \in BOOLEAN
  BY SessionAssumption DEF SessionInv, LoopTypeOK
<1>3. LoaderInv' /\ where' \in Where
  BY <1>1, LoadedNext DEF Iterate, SessionInv, Where
<1>4. last_time' = now % ClockSpan /\ last_time' \in 0 .. ClockSpan - 1
  <2>1. now \in Int
    BY <1>2
  <2>2. now % ClockSpan \in 0 .. ClockSpan - 1
    BY <1>2, <2>1, Remainder
  <2> QED
    BY <1>1, <2>2, IterationTime
<1>5. cycle' \in 0 .. CycleSpan - 1
  <2>1. cycle + 1 \in Int
    BY <1>2
  <2> QED
    BY <1>1, <1>2, <2>1, Remainder
<1>6. max_inst = CycleSpan - 1 /\ 0 \in 0 .. CycleSpan - 1
  <2>1. max_inst = IF ret \in {2, 3} THEN 0 ELSE CycleSpan - 1
    BY <1>1 DEF SessionInv, LoopInv
  <2> QED
    BY <1>1, <1>2, <2>1
<1>7. max_inst' \in 0 .. CycleSpan - 1 /\ max_inst' = IF ret' \in {2, 3} THEN 0 ELSE CycleSpan - 1
  BY <1>1, <1>2, <1>6 DEF MaxInstAfter
<1>8. LoopTypeOK'
  <2>1. guest' \in Nat /\ counted' \in Int /\ steady' \in BOOLEAN
    BY <1>1, <1>2, IterationTime
  <2> QED
    BY <1>1, <1>2, <1>4, <1>5, <1>7, <2>1 DEF SessionInv, LoopTypeOK
<1>9. LoopInv'
  BY <1>1, <1>4, <1>7 DEF LoopInv
<1>10. TimeInv'
  <2>1. ASSUME steady' PROVE guest' = counted'
    BY <1>1, <1>2, <2>1, IterationTime DEF SessionInv, TimeInv
  <2>2. PICK k \in Int : guest = counted + ClockSpan * k
    BY DEF SessionInv, TimeInv
  <2>3. PICK m \in Int : TimeSed = (now - read_at) + ClockSpan * m
    BY <1>1, IterationTime
  <2>4. k + m \in Int /\ ClockSpan * (k + m) = ClockSpan * k + ClockSpan * m
    BY <1>2
  <2>5. guest' = counted' + ClockSpan * (k + m)
    <3> DEFINE x == ClockSpan * k
               y == ClockSpan * m
               z == ClockSpan * (k + m)
               t == TimeSed
    <3>1. /\ x \in Int /\ y \in Int /\ z = x + y /\ guest = counted + x
          /\ t = (now - read_at) + y /\ guest' = guest + t
      BY <1>1, <1>2, <2>2, <2>3, <2>4
    <3> HIDE DEF x, y, z, t
    <3>2. guest' = counted' + z
      BY <1>1, <1>2, <3>1
    <3> QED
      BY <3>2 DEF z
  <2> QED
    BY <2>1, <2>4, <2>5 DEF TimeInv
<1> QED
  BY <1>3, <1>8, <1>9, <1>10 DEF SessionInv

LEMMA InitCpuNext == ASSUME SessionInv, InitCpu PROVE SessionInv'
<1>1. LoaderInv' /\ where' = "prompt"
  <2>1. <<>> \in Seq(ProgramHeaders) /\ <<>> \in Seq(Names \cup Dashed)
    OBVIOUS
  <2> QED
    BY <2>1 DEF InitCpu, SessionInv, LoaderInv, LoaderTypeOK, KernelHasTree, Ram, MemRange
<1> QED
  BY <1>1, LoopUntouched DEF InitCpu, SessionInv, Where

LEMMA ClockNext ==
  ASSUME SessionInv, HostTime \/ \E t \in 0 .. MaxNow : SetClock(t)
  PROVE  SessionInv'
<1>1. /\ where' = where /\ where \in {"prompt", "loop"} /\ UNCHANGED loadVars
      /\ UNCHANGED loopVars /\ UNCHANGED readVars
  BY DEF HostTime, SetClock, Clocked
<1>2. now' \in Nat /\ settings' \in 0 .. MaxSettings
  BY SessionAssumption DEF HostTime, SetClock, SessionInv, LoopTypeOK
<1>3. LoopTypeOK' /\ LoopInv' /\ TimeInv'
  BY <1>1, <1>2 DEF SessionInv, LoopTypeOK, LoopInv, TimeInv, loopVars, readVars
<1> QED
  BY <1>1, <1>3, LoadedNext DEF SessionInv

LEMMA SessionNext == SessionInv /\ [Next]_vars => SessionInv'
<1> SUFFICES ASSUME SessionInv, [Next]_vars PROVE SessionInv'
  OBVIOUS
<1>1. CASE Load /\ UNCHANGED <<loopVars, readVars, hostVars>>
  <2>1. where' \in Where \ {"loop"}
    BY <1>1 DEF Load, ParseOption, EndOptions, LoadDefault, LoadPayload, AfterPayload,
                LoadPayloadUnreadable, UpdateDtb, OpenElf, LoadElfFails, LoadSegment,
                EndSegments, Where
  <2> QED
    BY <1>1, <2>1, LoadNext, LoopUntouched DEF SessionInv
<1>2. CASE InitCpu
  BY <1>2, InitCpuNext
<1>3. CASE Run
  BY <1>3, RunNext
<1>4. ASSUME NEW r \in Returns, Iterate(r) PROVE SessionInv'
  BY <1>4, IterateNext
<1>5. CASE Quit \/ Crash \/ LeaveLoop
  BY <1>5, LoopUntouched, LoadedNext DEF Quit, Crash, LeaveLoop, SessionInv, Where
<1>6. CASE HostTime \/ \E t \in 0 .. MaxNow : SetClock(t)
  BY <1>6, ClockNext
<1>7. CASE UNCHANGED vars
  <2>1. /\ where' = where /\ file' = file /\ line' = line /\ at' = at
        /\ mem' = mem /\ a1' = a1 /\ segs' = segs /\ seg' = seg
    BY <1>7 DEF vars, loadVars, optionVars, memVars
  <2>2. /\ Parsed' <=> Parsed
        /\ Holds(seg)' <=> Holds(seg)
        /\ Holds(Len(segs) + 1)' <=> Holds(Len(segs) + 1)
    <3>1. \A i, c : Gives(i, c)' <=> Gives(i, c)
      BY <2>1 DEF Gives
    <3>2. (IsKernel' <=> IsKernel) /\ (Misread' <=> Misread)
      BY <2>1 DEF IsKernel, HasDot, Misread, Leading
    <3> QED
      BY <2>1, <3>1, <3>2 DEF Parsed, Holds, InTree, Ram, MemRange
  <2>3. LoaderInv'
    BY <2>1, <2>2 DEF SessionInv, LoaderInv, LoaderTypeOK, KernelHasTree, IsPayload,
                      IsKernel, HasDot, Ram, MemRange
  <2> QED
    BY <1>7, <2>1, <2>3, LoopUntouched DEF vars, SessionInv
<1> QED
  BY <1>1, <1>2, <1>3, <1>4, <1>5, <1>6, <1>7 DEF Next

LEMMA SessionAlways == Spec => []SessionInv
  BY SessionInit, SessionNext, PTL DEF Spec

-----------------------------------------------------------------------------

\* Of every command line that is not misread, the parser takes the name the
\* user gave.
THEOREM FileAlwaysMeant == Spec => FileIsMeant
<1>1. SessionInv /\ [Next]_vars =>
        [where = "options" /\ where' = "load" => file = Meant \/ Misread]_where
  <2> SUFFICES ASSUME SessionInv, Next, where = "options", where' = "load"
               PROVE  file = Meant \/ Misread
    BY DEF vars
  <2>1. EndOptions
    BY DEF Next, Load, ParseOption, LoadDefault, LoadPayload, AfterPayload,
           LoadPayloadUnreadable, UpdateDtb, OpenElf, LoadElfFails, LoadSegment,
           EndSegments, InitCpu, Run, Quit, Iterate, Crash, LeaveLoop, HostTime, SetClock
  <2> QED
    BY <2>1, EndMeant DEF SessionInv
<1> QED
  BY <1>1, SessionAlways, PTL DEF Spec, FileIsMeant

\* A kernel always starts with its device tree in place.
THEOREM KernelAlwaysHasTree == Spec => []KernelHasTree
<1>1. SessionInv => KernelHasTree
  BY DEF SessionInv, LoaderInv
<1> QED
  BY <1>1, SessionAlways, PTL

\* Whatever the headers of the file, memory holds what it gives when the hart
\* starts, and nothing else of it.
THEOREM ProgramAlwaysInMemory == Spec => []ProgramInMemory
<1>1. SessionInv => ProgramInMemory
  <2> SUFFICES ASSUME SessionInv, where = "ready" PROVE ProgramInMemory
    BY DEF ProgramInMemory
  <2>1. Holds(Len(segs) + 1) /\ segs \in Seq(ProgramHeaders)
    BY DEF SessionInv, LoaderInv
  <2>2. (Len(segs) + 1) - 1 = Len(segs) /\ DOMAIN segs = 1 .. Len(segs)
    BY <2>1
  <2> QED
    BY <2>1, <2>2 DEF Holds, ProgramInMemory
<1> QED
  BY <1>1, SessionAlways, PTL

\* The guest's time is the host's time while the loop ran, through every wrap
\* of the 32 bits kept of the clock; a clock that is set, or not read in time,
\* puts it off by a multiple of the span and by nothing else.
THEOREM GuestTimeAlwaysExact == Spec => []GuestTimeExact
<1>1. SessionInv => GuestTimeExact
  <2> SUFFICES ASSUME SessionInv PROVE GuestTimeExact
    OBVIOUS
  <2>1. PICK k \in Int : guest = counted + ClockSpan * k
    BY DEF SessionInv, TimeInv
  <2>2. ClockSpan \in Nat \ {0} /\ 0 \in 0 .. ClockSpan - 1 /\ counted \in Int
    BY SessionAssumption DEF SessionInv, LoopTypeOK
  <2>3. guest - counted = ClockSpan * k + 0
    <3> DEFINE x == ClockSpan * k
    <3>1. x \in Int /\ guest = counted + x
      BY <2>1, <2>2
    <3> HIDE DEF x
    <3>2. guest - counted = x + 0
      BY <2>2, <3>1
    <3> QED
      BY <3>2 DEF x
  <2>4. (ClockSpan * k + 0) % ClockSpan = 0
    BY <2>2, MultipleDropped
  <2> QED
    BY <2>3, <2>4 DEF SessionInv, TimeInv, GuestTimeExact
<1> QED
  BY <1>1, SessionAlways, PTL

\* The parts of the program, the loop's counters and the kept part of the clock
\* keep their types and their width.
THEOREM SessionTypeCorrect == Spec => []TypeOK
<1>1. SessionInv => TypeOK
  BY DEF SessionInv, LoaderInv, LoopTypeOK, TypeOK
<1> QED
  BY <1>1, SessionAlways, PTL

\* The loop ends only because the program stopped or faulted, or because
\* cycle cannot count further.
THEOREM LoopAlwaysEndsForAReason == Spec => LoopEndsForAReason
<1>1. SessionInv /\ [Next]_vars =>
        [where = "loop" /\ where' = "prompt" => ret \in {2, 3} \/ cycle = CycleSpan - 1]_vars
  <2> SUFFICES ASSUME SessionInv, Next, where = "loop", where' = "prompt"
               PROVE  ret \in {2, 3} \/ cycle = CycleSpan - 1
    OBVIOUS
  <2>1. LeaveLoop
    BY DEF Next, Load, ParseOption, EndOptions, LoadDefault, LoadPayload, AfterPayload,
           LoadPayloadUnreadable, UpdateDtb, OpenElf, LoadElfFails, LoadSegment,
           EndSegments, InitCpu, Run, Quit, Iterate, Crash, HostTime, SetClock
  <2>2. cycle >= max_inst /\ cycle \in 0 .. CycleSpan - 1
    BY <2>1, SessionAssumption DEF LeaveLoop, Looping, SessionInv, LoopTypeOK
  <2>3. max_inst = IF ret \in {2, 3} THEN 0 ELSE CycleSpan - 1
    BY DEF SessionInv, LoopInv
  <2> QED
    BY <2>2, <2>3, SessionAssumption
<1> QED
  BY <1>1, SessionAlways, PTL DEF Spec, LoopEndsForAReason

\* No iteration after a stop, and cycle never wraps: the variant of the loop.
THEOREM LoopAlwaysProgresses == Spec => LoopProgresses
<1>1. ASSUME SessionInv, NEW r \in Returns, Iterate(r)
      PROVE  ret \notin {2, 3} /\ cycle' = cycle + 1
  <2>1. cycle < max_inst /\ cycle \in 0 .. CycleSpan - 1 /\ CycleSpan \in Nat
    BY <1>1, SessionAssumption DEF Iterate, Looping, SessionInv, LoopTypeOK
  <2>2. max_inst = IF ret \in {2, 3} THEN 0 ELSE CycleSpan - 1
    BY <1>1 DEF Iterate, Looping, SessionInv, LoopInv
  <2>3. ret \notin {2, 3} /\ cycle + 1 \in 0 .. CycleSpan - 1
    BY <2>1, <2>2
  <2>4. (CycleSpan * 0 + (cycle + 1)) % CycleSpan = cycle + 1
    BY <2>1, <2>3, SessionAssumption, MultipleDropped
  <2> QED
    BY <1>1, <2>1, <2>3, <2>4 DEF Iterate
<1>2. SessionInv /\ [Next]_vars =>
        [\A r \in Returns : Iterate(r) => ret \notin {2, 3} /\ cycle' = cycle + 1]_vars
  BY <1>1
<1> QED
  BY <1>2, SessionAlways, PTL DEF Spec, LoopProgresses
=============================================================================
