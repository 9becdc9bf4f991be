------------------------------- MODULE MCExec -------------------------------
(* TLC's values for Exec: bytes of two bits, so that a word has eight, 16    *)
(* bytes of RAM at 128, and devices at 16..31.  The registers start with     *)
(* values around the ends of the signed and of the unsigned numbers and with *)
(* addresses around the ends of RAM.                                         *)
EXTENDS Exec

MCRam == 128 .. 143
MCIo == 16 .. 31
MCWords == 0 .. 255
MCValues == {0, 127, 128, 139, 255}
MCDeviceWords == {0, 200}
MCIrqWords == {{}}
MCImage == [a \in 128 .. 146 |-> (a * a + a \div 3) % 4]

Encode(op, f3, f7, rd, imm, csr) ==
  [op : {op}, rd : rd, f3 : {f3}, rs1 : {1}, rs2 : {2}, f7 : {f7}, imm : imm, csr : {csr}]

Registers == UNION {Encode(RType[n][1], RType[n][2], RType[n][3], {1}, {3}, 0) : n \in DOMAIN RType}
Multiplies == UNION {Encode(MType[n][1], MType[n][2], MType[n][3], {1}, {0}, 0) : n \in DOMAIN MType}
Immediates == UNION {Encode(IType[n][1], IType[n][2], 0, {1}, {2, 255}, \h340) : n \in DOMAIN IType}
Uppers == UNION {Encode(UType[n], 0, 0, {1}, {12, 240}, 0) : n \in DOMAIN UType}
Atomics == UNION {Encode(\h2F, 2, 4 * AType[n], {1}, {0}, 0) : n \in DOMAIN AType}
Systems == UNION {Encode(\h73, 0, 0, {1}, {0}, PType[n]) : n \in DOMAIN PType}
CsrForms == UNION {Encode(\h73, f3, 0, {2}, {0}, CsrNo[c]) : f3 \in {2, 7}, c \in DOMAIN CsrNo}

\* Loads and stores at a device's address, in the last bytes of RAM, and behind it.
Accesses ==
  UNION {Encode(\h03, f3, 0, {1}, {24, 25, 16, 3, 4}, 0) : f3 \in {1, 2, 4}}
    \cup UNION {Encode(\h23, f3, 0, {1}, {20, 21, 22, 16, 3, 4}, 0) : f3 \in {0, 1}}

\* To x0, and encodings that are no instruction.
ToZero ==
  UNION {Encode(\h13, 0, 0, {0}, {2}, 0), Encode(\h03, 0, 0, {0}, {0}, 0), Encode(\h6F, 0, 0, {0}, {8}, 0),
         Encode(\h2F, 2, 0, {0}, {0}, 0), Encode(\h73, 1, 0, {0}, {0}, \h305)}
Odd ==
  UNION {Encode(0, 0, 0, {1}, {0}, 0), Encode(\h63, 2, 0, {1}, {8}, 0), Encode(\h03, 3, 0, {1}, {0}, 0),
         Encode(\h23, 5, 0, {1}, {0}, 0), Encode(\h73, 4, 0, {1}, {0}, 0), Encode(\h73, 0, 0, {1}, {0}, \h123),
         Encode(\h73, 0, 0, {1}, {0}, 3), Encode(\h2F, 2, 20, {1}, {0}, 0), Encode(\h67, 1, 0, {1}, {8}, 0),
         Encode(\h33, 0, 2, {1}, {0}, 0), Encode(\h73, 0, 0, {1}, {0}, \h102)}

MCInstrs ==
  UNION {Registers, Multiplies, Immediates, Uppers, Atomics, Systems, CsrForms, Accesses, ToZero, Odd}
=============================================================================
