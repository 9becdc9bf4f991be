# tiny-rv32sim in TLA+

A TLA+ model of the RV32IMA simulator in this repository, checked with TLC and,
for its main results, proved with TLAPS. Paths below are relative to the
repository's root (`src/core/cpu.cpp`); `PROJECT.json` writes them with one more
`src/` in front.

## 1. The system

One process, one thread. `main` builds the parts and calls `sim_t::run`, which
loads a program into guest memory and reads commands from the user; the command
`r` enters an interpreter loop that fetches, decodes and executes until the guest
stops. Everything that is concurrent comes from outside this thread: the host's
clock, the bytes that arrive on standard input, and, inside the guest, the tasks
that the guest's kernel switches between.

| component | code | state it keeps | operations | talks to |
|---|---|---|---|---|
| option parser | `common/option_parser.cpp` | `sim_t::file` | `-h`, `-i` | sim |
| loader | `sim/sim.cpp`, and a1 in `uart`'s constructor | guest memory, a0, a1 | `load_elf`, `load_payload`, `update_dtb`, `load_img` | memory |
| prompt | `sim/sim.cpp` `win_run` | - | `r d h q` | loop |
| loop | `core/cpu.cpp` `fetch_decode_exec` | `max_inst`, `cycle`, `last_time` | one iteration; stop on what `decode_run` returns | clock, hart |
| timer | `core/cpu.cpp` 13-23, `decoder.cpp` 63-66, 102-107 | `timerh:timerl`, `timermatchh:timermatchl`, MTIP of `mip` | poll, store of a half, `csrw mip` | hart |
| hart control | `core/cpu.cpp` 25-78, `decoder.cpp` 188-299 | `pc mtvec mie mepc mstatus extraflags` | interrupt, exception, MRET, WFI, CSR writes, SYSCON, stop | timer, loop |
| atomics | `decoder.cpp` 301-346 | the reservation in `extraflags`, memory | LR.W, SC.W, AMOs | memory |
| data path | `decoder.cpp` 7-180, `cpu.cpp` 72-76 | `gpr`, `mscratch mcause mtval` | arithmetic, branches, loads, stores | memory |
| memory | `memory/mem.cpp` | `phymem` | fetch, load, store by width and sign | - |
| UART | `device/uart.cpp` | `is_eofd` | status, data, CSR 0x136-0x140 | standard input and output |
| formats and encodings | `core/decoder.h` `union instr`, `core/encoding.h` (generated) | - | - | - |
| instruction table | `core/inst.cpp`, `instruction_list.h` | compiled out by `#if 0` | - | - |
| device tree | `core/dtb.h` | - | - | - |

What is hard about it, and what each component must get right:

* **Timer.** Guest time is two 32-bit words with a hand-made carry, compared in two
  parts with a register that the guest writes one half at a time. It must behave
  as one 64-bit timer.
* **Hart control.** Three unrelated fields are packed in `extraflags` and three in
  `mstatus`, and each operation rewrites part of them with masks of its own. There
  is one level of trap state, so whether a handler can return depends on
  everything that runs before its MRET. An interrupt must not come where it is
  disabled, and must come, eventually, where it is enabled.
* **Atomics.** SC.W must fail if another task has touched the word since LR.W. The
  hart never clears its reservation; whether that is enough depends on the guest's
  kernel.
* **Data path and memory.** Close to seventy instructions decoded by nested switches that
  share cases, with the immediates and the bounds of RAM put together by hand.
  Each must have its effect and no other, a trap none but the trap, and x0 must
  stay 0 though each case has to remember that itself.
* **Loop and prompt.** Time is a difference of 32-bit readings of a 64-bit clock.
  The loop must end when the guest stops, and not otherwise.
* **Options and loader.** The name the user gave must be the file that is loaded;
  its spelling alone decides what is done with it. Memory must then hold the
  program, and a kernel needs its device tree where a1 says.
* **UART.** It asks the host whether a byte waits, again for every access, and must
  neither lose nor invent input, nor take a pause for its end.

## 2. The modules

```
Words ── ExtraFlags ─┐
                     ├─ Hart ─┬─ TrapFrames       Options ── Loader ── Session
Clint ─┬─────────────┘  │     │
       └─ TimerGuest    │     └─ Exec ── Arith, Encoding     LrSc    Uart
  │                     │         │
  ⊑ Timer64             ⊑ Priv    ⊑ Isa      (abstract specifications)

Proofs:  ClintProofs ── HartProofs ─┬─ GuestProofs  (TimerGuest, TrapFrames)
                       ArithProofs ─┴─ ExecProofs
         LrScProofs  SessionProofs  UartProofs
TLC:     MCClint  MCTrapFrames  MCHartPriv  MCHartLive  MCHartWfi
         MCExec  MCLrSc  MCSession  MCUart
```

**Words** reads a 32-bit register as the set of the positions of its ones, so that
`&`, `|`, `& ~` and the shifts of the C++ are set operators. No width is
abstracted: the flags are checked and proved for all 32 bits.

**ExtraFlags** has one operator for each masked update of `extraflags` and
`mstatus`, named for what it is for (`EnterMachine` is `extraflags |= 3`).

**Clint** is the timer block at the head of `cpu_t::decode_run` with the stores to
the compare register. `TSpan` is the number of values of a half, 2^32 in the build.
Every action is one call of `decode_run`: the poll first, then what the
instruction writes. **Timer64** is what it promises: one counter, one compare
register, a line that is up exactly while the counter has passed a compare
register that is in use.

**TimerGuest** is a guest of that timer. A 32-bit guest reaches a 64-bit register
only by halves, and there are two procedures for it that software uses: reading the
time as high, low, high until the two highs agree, and setting the compare
register as low = all ones, high, low. Each load and store is one instruction, with
any time and any number of other instructions between them. What the guest gets
from them is a property of the simulator's poll and compare.

**Hart** is one iteration of the loop: poll the timer; take the interrupt if it is
pending and enabled; otherwise execute one instruction. The guest is arbitrary, so
the instruction and its operands are chosen freely at each step. That is why the
general registers, memory and the CSRs that only the guest reads (`mscratch`,
`mcause`, `mtval`) are not state here: what they hold decides which instruction
comes, and all of them may. `Trap`, `Mret`, `Wfi`, `LoadReserved`, `Write...`,
`Syscon`, `Halt`, `WildAccess` and `Plain` are the cases of
`decode_run_without_trap`; `FetchOutside`, `CutOff` and `Resume` are the loop's and
the user's. `loop` is `running`, `stopped` (the prompt) or `dead` (the process has
accessed memory it does not have). **Priv** is what traps promise, with a
variable for each packed field.

**TrapFrames** adds to Hart a history variable, `frame`: what the trap being
handled interrupted, and whether its saved copy is still untouched. Nothing of it
is in the code.

**Exec** is the data path. It extends Hart and settles Hart's free choices: `Fetch`
takes an instruction of an arbitrary program, `DecodeRun` does what the switch does
with it, as one of Hart's actions with the target, address or value that the
registers give, together with the registers, memory, `mscratch`, `mcause` and
`mtval`. One operator per opcode (`Lui` ... `Atomic`), each with the
order of checks the code has: the address before the width for loads, and the
`pre_rd` of a trap thrown away. `host` is the array `phymem` and the three bytes
behind it that an access at the edge can reach. **Arith** has the C++ expressions
as functions of numbers, at a word of four bytes of `ByteBits` bits each, 8 in the
build; LR.W's slot is `SlotOf`, the address without its three highest bits as in the 29 bits
of `extraflags >> 3`; **Encoding** has the `MATCH_`, `MASK_`, `CAUSE_` and `CSR_` numbers of `encoding.h`,
which the decoder itself does not use. **Isa** is the abstract specification: what
each mnemonic promises, found through Encoding and said by what is true of the result
(a quotient by quotient * divisor + rest, a shift bit by bit), so that it shares no
expression with Exec. Where the decoder departs from it, an operator of Exec says exactly
how (section 3). A fetch outside RAM only prints a message, so `Fetch` takes an arbitrary
instruction at any pc, and `LoseFetch` is the host's other choice.

**BitFields** is about the expressions of masks and shifts that Exec takes as
done: the five immediates, against the layouts of `union instr` in `decoder.h`, and the
byte swap of `update_dtb`. The two sides are compared in theorems over all 32-bit words,
which are in ArithProofs.

**LrSc** sets LR.W, SC.W and AMOADD.W among guest tasks that are preempted between
any two instructions. `SwitchCode` is what the guest's kernel does to the
reservation on a context switch. The kernel is outside this repository.

**Options** is `option_parser_t::parse`, one step per turn of its loop over `argv`.
The argument of an option is what lies three characters after its start; `Optarg`
says what that is: the rest of a longer option, the next element, or behind the last
one the environment. **Loader** is `load_elf`: the choice by the file's name, the
payload, the device tree, the loop over program headers. A byte of memory is
tagged with the segment and offset it came from. Register a1 holds the tree's address
before any of that: `uart`'s constructor writes it (`uart.h:30`), a constant that
is right for the tree in the source (`UartA1 = DtbAt`), and `update_dtb` writes the
same again. So a1 says nothing about whether the tree was loaded, and the property is
about the tree. **Session** puts the two before
the prompt, and adds the loop around `decode_run` with the host's clock, which its
user can set. `decode_run` returns any of its values here; Hart says what it does.
At `InitCpu` the model forgets the command line and what was loaded: the guest's
memory is the guest's from there on, and nothing looks at either again.

**Uart** is the input side of the UART: `IsKBHit` and `ReadKBByte` under both of
the guest's interfaces, with bytes coming in at any time. The drivers and what
standard input is are outside this repository and modelled from how the code
uses them. On an input that has no FIONREAD `byteswaiting` is uninitialised, and
`IsKBHit` returns anything that the build can.

The modules meet in these places: Hart EXTENDS Clint and ExtraFlags, and Exec EXTENDS
Hart; LrSc uses the slot that Hart shows to be changed by LR.W alone
(the last conjunct of `OperationsImplementPriv`); Session's `Iterate` is Hart's step with `AfterReturn` as
`MaxInstAfter`, its `Crash` is `FetchOutside` and `WildAccess`, and its counter is Hart's
`CutOff`; a device load in Exec takes any word that Uart can give.

Definitions under "Mutated forms" are the bugs each property was tried against:
TLC must find the property violated with such a definition in place of the
original. They take no part in the model.

## 3. What TLC checks

| run | question | bounds |
|---|---|---|
| `clint` | Do two halves with a carry and a two-part compare make one timer, also for a guest that reads and sets it half by half? | halves of 2 bits, steps of 0, 1 and 3: both halves wrap |
| `datapath` | Has every instruction the effect the instruction set gives it, or exactly that of a listed divergence? Is x0 0? Do stores stay in RAM? | words of 4 bytes of 2 bits, 16 bytes of RAM, two instructions, operands at the edges (below) |
| `trap_frames` | Does a handler that leaves its saved state alone return to what it interrupted? Is the timer polled in every iteration, and its interrupt neither late nor early? | code at two addresses, halves of 1 bit, operands that set and clear each status field |
| `hart_priv` | Do the packed flags act as separate fields, is each step the operation it should be, and does LR.W alone change the reservation? | all of `extraflags` and `mstatus` at full width; three modes, first and last bit of the slot |
| `hart_live` | Does an armed and enabled timer always interrupt? | as above, no jumps |
| `wfi_runs_on` | Does a sleeping hart stay asleep, as the comment says? *violated* | smallest that has a WFI and an instruction after it |
| `lrsc` | Is no update lost under preemption, if a switch moves the reservation? | 3 tasks, 2 words, 2 updates of each |
| `lrsc_dummy_sc` | Is none lost if the switch uses SC.W to drop it? *violated* | the same |
| `session` | Is the file the one the user meant, and in memory? Has a kernel its tree? Is guest time exact? Do runs end when they should, and is no iteration made after a stop? | 11 command lines, 5 ELF files, payloads that fit, that reach the tree and that exceed memory; clock wraps twice in `last_time` and is set once; 3 iterations |
| `session_poweroff` | Does SYSCON's power off stop the loop? *violated* | the same |
| `uart` | Does the guest get exactly the input, and is no poll in vain while a byte waits? | 3 bytes of three kinds (plain, sign-extended, 0xff), terminal, pipe and a device without FIONREAD, both interfaces |
| `uart_eof` | Is the end of input the end of input? *violated* | the same |

Why the bounds are enough. The comparisons in Clint look at order and equality of
halves and at whether an addition wrapped; two bits have every combination. The
flags are not bounded. Addresses matter only through equality with `mepc`,
`mtvec` and the wrap of pc, so three code addresses, one outside RAM, suffice. A
reservation goes wrong with two tasks and one word; the third task and the second
word show that no more is hidden behind them. Two wraps of the clock's low part
show one that falls between readings and one that does not. `GuestTimeExact` keeps
the 64-bit time as one number; that timerh:timerl are that number is Clint's result.

In `datapath` a word of eight bits keeps everything the instructions tell apart:
four bytes to store and join, a sign bit, a wrap, the overflow of a division, a
product of twice the width. x1 and x2 start with each pair of 0, 127, 128, 139
and 255: the ends of the signed and of the unsigned numbers, the first address of RAM
(128) and one that is not aligned, from which offsets reach its last bytes and what is
behind them.
`MCInstrs` has every mnemonic of Encoding at least once, every CSR the decoder names,
every device register, each instruction class with rd = x0, and encodings that are no
instruction. A second instruction works on what the first one left (`MaxSteps`). The
properties are about one instruction, so that a third adds no kind of state. CSRs
are read through eight bits as well: the mode bits of `mstatus` and the bits of `mip`
above them are cut off there, and are `hart_priv`'s.

Named bounds in the modules: `TimeLeft` and `InRange` (2^64 microseconds do not
pass, at all or during a procedure), `MaxUpdates`, `MaxNow`, `MaxSettings`, `MaxSteps`,
`MaxTyped`, and the bytes a guest remembers in `Take`.

`CHECK_DEADLOCK FALSE` stands where the system can stop: in the Hart runs
(`dead`, or 2^64 microseconds gone), in `datapath` (the instructions are used up) and in
`session` (the process has ended).

### Where the decoder departs from the instruction set

`ExecutesIsa` says of every instruction that it does what Isa says, or else exactly what
one of nine operators says. `Divergence` is their disjunction; none of them is a way out for
a step that does something else, and the run reaches each.

* `Lenient`: an encoding that is no instruction is executed as a similar one, because the
  decoder does not look at all bits (funct3 of JALR, FENCE and atomics, funct7 of OP,
  bits 31..28 of MRET), or looks at the address first.
* `Unprivileged`: in user mode, machine CSRs and MRET do what they do in machine mode.
  Isa makes them illegal there (`Allowed`); nothing in the code checks it.
* `BehindRam`: a load or store of 2 or 4 bytes that begins in the last bytes of RAM
  is not refused and goes on in the bytes behind it (`decoder.cpp:61`, `99`).
* `Misaligned`: LR.W and the AMOs take any address.
* `StaleReservation`: Isa lets every SC.W, held or not, give up the reservation; here
  it stays (`decoder.cpp:328-330`). This is the finding of `lrsc_dummy_sc` (section 4).
* `AtomicFault`: above RAM, LR.W and unknown atomics fault with the number of a store.
* `Skips`: a store of 0xffffffff to SYSCON skips the next instruction.
* `StopsHere`: the stop instruction ends the loop and leaves pc on itself. (That a store of 2
  or 3 to SYSCON stops the loop is nothing Isa speaks of.)
* `Dies`: an atomic below RAM, and the CSR that prints a string, reach memory of the host;
  the model ends the process.

Except for the reservation, no doc or comment of the repository promises otherwise, so
these are not findings. Isa does not claim the traps of misaligned jumps, loads and stores:
the first the simulator does not have, the other two an implementation may do without.

`FileIsMeant` leaves out the lines of `Misread`, which are taken for something else:
a long option (the test of its name is inverted), `-iImage` without a space, and
`-i` as the last word or before another option.

`NoSpuriousTimer` leaves out compare values of 0: the comparison takes 0 for "not in
use", so the procedure does not protect a guest that sets the register from or to it.

### Fairness

* `Hart!FairSpec`: while the loop runs, iterations come, and iterations in which
  the clock has moved. The first is the `for` statement of `fetch_decode_exec`,
  which no instruction can hold up; the second says that the host's clock does
  not stand still. No fairness is assumed of the guest or the user.
* `Session!FairSpec`: the loop takes its next step, `Iterate` or `LeaveLoop`; the
  same `for` statement. None for the user or the clock.
* `Uart!FairSpec`: the guest goes on polling. This is an assumption on the guest,
  not on the simulator, and `InputReceived` says what the simulator owes such
  a guest.

## 4. What the violated runs show

1. `cpu.cpp:25` tests `extraflags & 4 == 1`, which is `extraflags & 0`. A hart
   in WFI executes on, against the comment at `cpu.cpp:28`. (A guest that puts WFI in
   a loop only wastes time.)
2. SYSCON "(reboot, poweroff, etc.)" (`decoder.cpp:109`): the value 0x5555 that the
   device tree declares for a power off reaches the loop's `default:`, which
   prints "unknown fault!" and continues.
3. SC.W's "(Make sure we have a slot, and, it's valid)" (`decoder.cpp:328`): the slot
   is never cleared. A kernel that drops reservations with a dummy SC.W, as Linux
   does, does not drop this one; the update of another task is lost. With a dummy
   LR.W none is, which is proved.
4. "Is end-of-file for" (`uart.cpp:31`): a pipe that is open but empty for a moment is
   declared ended, and nothing later in it is read.

Other divergences that are seen in the source and in the model's actions, without
a run of their own: the built-in image can never be loaded (`strlen` of a null
pointer comes before the null test, `sim.cpp:94`: `LoadDefault`); a store of
0xffffffff to SYSCON skips an instruction (`decoder.cpp:111`: `Syscon`); `assert(1)` at
`mem.cpp:12` never fires (`FetchOutside`); an ELF file's entry point is ignored
(`sim.cpp:130`: Session starts where `cpu_t::init` says); MRET puts the current mode,
not 0, in MPP, against the comment at `decoder.cpp:269` (`ReturnStatus`).

## 5. What is proved

All for every value of the constants, from the assumptions named beside the
constants (`ClintAssumption`, `TimerGuestAssumption`, `HartAssumption`,
`ArithAssumption`, `ExecAssumption`, `LrScAssumption`, `RamFitsSlot`,
`OptionsAssumption`, `LoaderAssumption`, `SessionAssumption`, `UartAssumption`),
which TLC evaluates in the runs.

* **ClintProofs.** `ClintTypeCorrect` and `Timer64Implemented`. The refinement maps the
  halves to `timerh * TSpan + timerl`; the argument is that `new_timer < timerl` exactly
  when the addition wrapped, and that lexicographic comparison of the halves is
  comparison of the joined numbers. The type invariant is inductive and enough. The
  lemmas on a poll, a store and a forced line are stated for any step, so that HartProofs
  uses them for the hart's.
* **HartProofs.** First, lemmas on each operator of ExtraFlags: what it does to the mode,
  the sleep flag, the slot, MIE, MPIE and MPP, and what it leaves. Then `TypeCorrect`;
  `PrivImplemented` and `OperationsAlwaysImplementPriv`, through one lemma per kind of step
  (`SlotStep` among them: a step that is no LR.W leaves the slot);
  and three on the timer in the hart. `TimerAlwaysPolled`: every iteration, be
  it an interrupt, a WFI or the last one, is a `Poll` or a `PollAndWrite` of Timer64, or a
  `csrw mip`. `HartKeepsTimer64` is the refinement; it says less of a step, because
  Timer64 lets any step that does not poll force the line. `InterruptAlwaysOnTime`: where
  the timer is enabled, the iteration whose poll finds the 64-bit compare value
  passed is the interrupt, and no other iteration is. It needs that what `csrw mip` left is
  overwritten by the poll before it is tested.
* **GuestProofs.** The two guests. `AlwaysReadsOneTime` and `NeverSpuriousTimer`, with
  `GuestInv`: after the first load the high half is at most what the register holds, and a
  time taken while it still holds that is right; while the compare register is on its way
  its value is at least the old one, then at least the new one. `FrameAlwaysKept`, with the
  inductive invariant `TypeOK /\ FrameKept`: FrameKept had to say more than that mepc and
  MPP are intact, namely that the handler is in machine mode with MIE off, because only
  that keeps the timer from trapping into it, and no instruction but those in
  `ChangeContext` can set MIE. `MretAlwaysRestores` and `NeverNestedInterrupt` follow.
* **ArithProofs.** Each immediate is the field of the layout, sign-extended, for all
  2^32 words, one theorem per format; operand numbers and shift amounts taken from
  the extended immediate are unharmed by the extension; branch and jump offsets are
  even; `update_dtb`'s expression reverses the four bytes. Then the lemmas ExecProofs rests
  on: the numbers below 2^XLEN and the sets of bits are in bijection; bytes split from a
  word join to it again; sign extension, wrapped sums, products of twice the width,
  quotients and shifts have the values that Isa describes. That
  two numbers with the same bits are equal is an induction over the width; the library's
  theorems for it take an operator, which the provers cannot instantiate, so that a lemma
  `Induct` says it of sets of numbers (a set that has 0 and successors has no least
  number missing). That every set of bits is a number's then follows by counting.
* **ExecProofs.** For every program, and for bytes of 2 to 8 bits (8 in the build):
  `ZeroRegisterHolds` and `StoresInRamHolds`, where each opcode is reduced to one of two facts
  (`DataStep`): it writes at most one register, which is not x0, and it writes bytes only
  from an address that was checked. `ExecTypeCorrect`, one lemma per opcode: no result,
  loaded byte or CSR leaves the width of its variable. `ExecutesIsaHolds`, from the
  inductive invariant `ExecTypeOK /\ ShapeInv`: each step does what the instruction set says of
  the fetched instruction, or takes the interrupt, or does exactly what one of the
  divergences of section 3 says. There is one lemma per opcode, and under it one step per mnemonic; atomics
  also need that two words of RAM have different slots (`RamFitsSlot`).
  Last, the composition with Hart: `DataPathIsHart` says that every step of the data path is
  one of Hart's, so that `DataPathKeepsFields`, `DataPathPolls` and `DataPathOnTime` hold of
  real instructions and not only of Hart's free choices. They assume `ArbitraryGuest`: Hart's
  sets of targets, operands and values are not cut down to a few, as the runs do. That
  is the case of the program itself, where any register may hold anything.
* **LrScProofs.** `LrScTypeCorrect`, and `NoUpdateEverLost`, assuming
  `SwitchCode = "dummy_lr"`, with the invariant `NoLostUpdate /\ ReservationFresh`: when
  the running task's SC.W would hold, what it loaded is still current. A switch keeps
  it because the slot then belongs to no shared word, which needs RAM to be smaller
  than the 2^29 slot values (`RamFitsSlot`; RAM is 2^26).
* **SessionProofs.** All of Session's safety properties, with the invariant
  `SessionInv`. Its parts: `Parsed`, that the parser has passed options only, and no
  `-i` yet or one just now (which gives `FileAlwaysMeant`); `Holds(n)`, that memory is
  what the first n - 1 headers make of it, the last one that has a byte winning
  (`ProgramAlwaysInMemory`, for any headers, overlapping ones and ones outside memory
  included, and `KernelAlwaysHasTree`); `LoopInv`, that last_time is the last
  reading modulo 2^32 and max_inst says whether the last call stopped the program
  (`LoopAlwaysEndsForAReason`, and `LoopAlwaysProgresses`: no iteration follows a stop, and
  cycle is never at its last value when it is incremented); `TimeInv`, that guest time and
  clock time differ by a multiple of 2^32, which is 0 while the clock was steady
  (`GuestTimeAlwaysExact`). The arithmetic is in four lemmas on remainders, since the prover
  does not take `%` by a constant symbol apart.
* **UartProofs.** `UartTypeCorrect`, which includes that the status register is never
  anything but 0x60, 0x61 or -1, and `TerminalNeverEndsHolds`. `InputExactHolds`, for any
  number of bytes, with `InputInv`, which adds to the property when the line status may tell
  of a byte or of an end, and that the CSR gives no more than was read. What the CSR leaves
  out is said by the positions that remain (`IsSelection`), which extends by one byte
  without induction. `EveryPollAlwaysCounts`.

Only model-checked: the four liveness properties (`TimerInterruptDelivered`,
`StopReachesPrompt`, `EveryRunEnds`, `InputReceived`), which need reasoning about ENABLED
that the prover does not have. What each rests on is proved: `InterruptAlwaysOnTime`, that a
poll which comes late enough interrupts; `LoopAlwaysProgresses`, the variant of the loop;
`EveryPollAlwaysCounts`, that two polls are enough for a byte. Left to TLC is that the polls and
iterations come, which is the fairness.

## 6. What is not modelled

* Output: `printf`, the print CSRs and `dump_state` change no state. The CSR that
  takes a guest address for a host pointer (0x138) is `WildAccess`.
* The contents of the device tree, apart from its place and its memory size.
* The header of an ELF file, apart from the outcomes of its checks.
* Corruption of the host's memory after an access outside the guest's, beyond the three
  bytes behind RAM: the model ends the process or goes on with an arbitrary instruction.
* `mmu_t::store` returns no value though it is declared to. Nothing uses the value, and
  the Makefile builds without optimisation, where the function returns normally.
* `core/inst.cpp`, `instruction_list.h` and `cpu_t::register_func`: compiled out or unused.
* Most of `core/encoding.h`. It is generated for all extensions and is three quarters of
  the repository's lines; its numbers for RV32IMA, Zicsr and machine mode are in
  Encoding, scattered over the file in pairs of lines, of which the table of the
  mapped lines shows one per mask. The rest names instructions and CSRs the
  simulator does not have, so there is no behaviour to model. Without that file the
  mapped share of the code is most of `cpu.cpp`, `decoder.cpp`, `mem.cpp`, `uart.cpp`,
  `sim.cpp` and `option_parser.cpp`.
* Guest programs under `tests/`, and the bytes of `core/dtb.h`.

## 7. Plan

Built so far, in this order: Clint and Timer64; Hart, Priv and TrapFrames with
their proofs; LrSc; Session; Uart; Exec with Isa, BitFields and its proofs;
TimerGuest; Options and Loader under Session; the proofs of `ExecTypeOK`, `ExecutesIsa` and
`InputExact`; the timer in the hart (`AlwaysPolled`, `InterruptOnTime`), and the theorems that
carry Hart's results over to Exec.

What is left, in order of importance:

1. An abstract session (prompt, run, end) that Session implements, and Hart's loop
   states as its refinement.
2. TrapFrames' history variable beside Exec, so that `FrameKept` is a theorem of real
   instructions as well.
3. LrSc's slot rule from Exec's `Atomic`, as a lemma both modules cite.
