------------------------------- MODULE Loader -------------------------------
(***************************************************************************)
(* What sim_t::load_elf puts into memory: the payload of a kernel or a     *)
(* .bin file, the device tree of a kernel, or the segments of an ELF file. *)
(* It goes by the file's name.  A byte of memory holds <<what, n, k>>, the *)
(* k-th byte of the n-th segment or of the device tree, or what was there. *)
(***************************************************************************)
EXTENDS Options, Integers

CONSTANTS
  VaddrBase, MemSize,     \* VADDR_BASE and MEM_SIZE
  DtbSize,                \* size of the device tree
  DtbAt,                  \* where it goes: MEM_RANGE - DtbSize - 192
  UartA1,                 \* what the constructor of uart writes to a1: 0x83fff940
  SizeCell,               \* offset, in the tree, of the size of memory
  Sizes,                  \* sizes a payload file can have
  Programs                \* the program headers of well-formed ELF files

MemRange == VaddrBase + MemSize
Ram == VaddrBase .. MemRange - 1

\* Program headers, of which a payload is a single one.
Header(type, paddr, filesz, memsz) ==
  [p_type |-> type, p_paddr |-> paddr, p_filesz |-> filesz, p_memsz |-> memsz]
Payload(size) == Header(1, VaddrBase, size, size)

\* The number in uart.h:30 is DtbAt for the size, 1536, of the tree in the source.
ASSUME LoaderAssumption ==
  /\ VaddrBase \in Nat \ {0} /\ MemSize \in Nat /\ DtbSize \in Nat
  /\ DtbAt \in Ram /\ DtbAt + DtbSize < MemRange
  /\ UartA1 = DtbAt
  /\ SizeCell \in 0 .. DtbSize - 1
  /\ Sizes \subseteq Nat
  /\ Programs \subseteq Seq([p_type : Nat, p_paddr : Nat, p_filesz : Nat, p_memsz : Nat])

VARIABLES
  mem,    \* the bytes of RAM
  a1,     \* register a1, by which a kernel finds the device tree
  segs,   \* the headers of the file being loaded
  seg     \* the next of them

memVars == <<mem, a1, segs, seg>>
loadVars == <<optionVars, memVars>>

Junk == <<"junk", 0, 0>>

\* main has constructed the uart, whose constructor writes a1.
LoaderInit ==
  /\ OptionsInit
  /\ mem = [c \in Ram |-> Junk]
  /\ a1 = UartA1
  /\ segs = <<>> /\ seg = 1

-----------------------------------------------------------------------------
(* Mutated forms, for the runs that show the properties can be violated.   *)

AfterPayloadNoTree == "ready"

LoadableOfAnyType(h) == h.p_memsz # 0 /\ h.p_filesz # 0

-----------------------------------------------------------------------------

HasDot == file \in {"./Image", "a.bin", "a.elf", "E.NV"}

\* A name without a dot anywhere, the path included, is a kernel's.
IsKernel  == ~HasDot
IsPayload == file = "a.bin" \/ IsKernel

\* memcpy of n bytes of what to address at, as far as it is RAM.
Copied(at_, n, what, i) ==
  [c \in Ram |-> IF c \in at_ .. at_ + n - 1 THEN <<what, i, c - at_>> ELSE mem[c]]

\* No "-i": strlen of a null pointer comes before the test for one.
LoadDefault ==
  /\ where = "load" /\ file = "absent"
  /\ where' = "dead"
  /\ UNCHANGED loadVars

AfterPayload == IF IsKernel THEN "tree" ELSE "ready"

\* memcpy of the payload to RESET_VECTOR.  Its size is not compared with that
\* of memory: a larger one is written past its end, which ends the process or
\* goes on.
LoadPayload(size) ==
  /\ where = "load" /\ file # "absent" /\ IsPayload
  /\ \/ where' = AfterPayload
     \/ size > MemSize /\ where' = "dead"
  /\ mem' = Copied(VaddrBase, size, "segment", 1)
  /\ segs' = <<Payload(size)>>
  /\ UNCHANGED <<optionVars, a1, seg>>

\* It cannot be opened or read: a message, and the session goes on.  Where it
\* opens and has no size (a directory), no vector can be that long.
LoadPayloadUnreadable ==
  /\ where = "load" /\ file # "absent" /\ IsPayload
  /\ where' \in {AfterPayload, "dead"}
  /\ UNCHANGED loadVars

\* update_dtb: the tree, with the size of memory in it set to what lies below
\* the tree.  The word that is replaced is always the one it looks for.
UpdateDtb ==
  /\ where = "tree"
  /\ mem' = [Copied(DtbAt, DtbSize, "tree", 0)
               EXCEPT ![DtbAt + SizeCell] = <<"size", 0, DtbAt - VaddrBase>>]
  /\ a1' = DtbAt
  /\ where' = "ready"
  /\ UNCHANGED <<optionVars, segs, seg>>

\* Every other name is an ELF file's.  a1 is set, and no tree is copied to
\* where it points.
OpenElf ==
  /\ where = "load" /\ file # "absent" /\ ~IsPayload
  /\ a1' = DtbAt
  /\ segs' \in Programs /\ seg' = 1
  /\ where' = "segments"
  /\ UNCHANGED <<optionVars, mem>>

\* An assertion fails: no such file, or not a 32-bit ELF file.  Or what the
\* headers say lies beyond the end of the file.
LoadElfFails ==
  /\ where = "load" /\ file # "absent" /\ ~IsPayload
  /\ where' = "dead"
  /\ UNCHANGED loadVars

Loadable(h) == h.p_type = 1 /\ h.p_memsz # 0 /\ h.p_filesz # 0

\* One turn of the loop over the headers.  Only the bytes of the file are
\* copied: what p_memsz adds to them is not cleared.  Nothing checks that the
\* address is in memory.
LoadSegment ==
  /\ where = "segments" /\ seg <= Len(segs)
  /\ LET h == segs[seg] IN
       IF Loadable(h)
       THEN /\ mem' = Copied(h.p_paddr, h.p_filesz, "segment", seg)
            /\ \/ UNCHANGED where
               \/ ~(h.p_paddr .. h.p_paddr + h.p_filesz - 1 \subseteq Ram) /\ where' = "dead"
       ELSE UNCHANGED <<mem, where>>
  /\ seg' = seg + 1
  /\ UNCHANGED <<optionVars, a1, segs>>

EndSegments ==
  /\ where = "segments" /\ seg > Len(segs)
  /\ where' = "ready"
  /\ UNCHANGED loadVars

Load ==
  \/ (ParseOption \/ EndOptions) /\ UNCHANGED memVars
  \/ LoadDefault
  \/ \E size \in Sizes : LoadPayload(size)
  \/ LoadPayloadUnreadable \/ UpdateDtb
  \/ OpenElf \/ LoadElfFails \/ LoadSegment \/ EndSegments

-----------------------------------------------------------------------------
(* Properties *)

LoaderTypeOK ==
  /\ file \in Names \cup Dashed \cup {"absent"}
  /\ at \in Nat \ {0} /\ line \in Seq(Names \cup Dashed)
  /\ DOMAIN mem = Ram
  /\ a1 = DtbAt
  /\ seg \in Nat \ {0}

InTree(c) == DtbAt <= c /\ c < DtbAt + DtbSize

\* A kernel starts with its device tree, whole, at DtbAt (where a1 points, by
\* LoaderTypeOK), and the size of memory in it ends below it, whatever the size
\* of the image was (sim.cpp:104-111: the tree is written last).
KernelHasTree ==
  where = "ready" /\ file # "absent" /\ IsKernel =>
    \A c \in Ram : InTree(c) =>
      mem[c] = IF c = DtbAt + SizeCell THEN <<"size", 0, DtbAt - VaddrBase>>
                                       ELSE <<"tree", 0, c - DtbAt>>

\* The byte the file gives for address c: that of the last PT_LOAD header
\* that has it.
Gives(i, c) ==
  /\ segs[i].p_type = 1 /\ segs[i].p_memsz # 0
  /\ segs[i].p_paddr <= c /\ c < segs[i].p_paddr + segs[i].p_filesz

\* Before the first instruction memory holds every byte the file gives that no
\* later header and no device tree is written over, and no other byte of it.
ProgramInMemory ==
  where = "ready" =>
    \A c \in Ram : ~(IsKernel /\ InTree(c)) =>
      \/ /\ \A i \in DOMAIN segs : ~Gives(i, c)
         /\ mem[c] = Junk
      \/ \E i \in DOMAIN segs :
           /\ Gives(i, c) /\ \A j \in DOMAIN segs : j > i => ~Gives(j, c)
           /\ mem[c] = <<"segment", i, c - segs[i].p_paddr>>
=============================================================================
