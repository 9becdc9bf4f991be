------------------------------ MODULE Session ------------------------------
(***************************************************************************)
(* One run of the simulator as its user sees it.  main parses the command  *)
(* line and sim_t::run loads a program (modules Options and Loader);       *)
(* sim_t::win_run starts the hart and reads commands, and "r" enters the   *)
(* loop of cpu_t::fetch_decode_exec, which reads the host's clock before   *)
(* each call of decode_run and looks at what the call returned.  What      *)
(* decode_run does to the hart is in modules Hart and Exec; here it        *)
(* returns any of Returns, and adds its argument to the guest's time.      *)
(*                                                                         *)
(* The host's clock is a 64-bit count of microseconds that its user can    *)
(* set, and the loop keeps its last reading in 32 bits.                    *)
(***************************************************************************)
EXTENDS Loader

CONSTANTS
  Returns,     \* what decode_run returns: 0, 1, 2, 3 and SYSCON's values
  PowerOff,    \* SYSCON's value for a power off, 0x5555
  ClockSpan,   \* number of values of last_time: 2^32 in the build
  CycleSpan,   \* number of values of cycle: 2^32 in the build
  MaxNow,      \* BOUND: the host's clock
  MaxSettings  \* BOUND: how often it is set

ASSUME SessionAssumption ==
  /\ Returns \subseteq Int /\ 0 \in Returns
  /\ ClockSpan \in Nat \ {0}
  /\ CycleSpan \in Nat \ {0}
  /\ MaxNow \in Nat /\ MaxSettings \in Nat

VARIABLES
  max_inst, cycle, ret,   \* of the loop; the last two of its last iteration
  last_time,  \* 32 bits of the last reading of the clock
  guest,      \* timerh:timerl, the guest's time
  now,        \* the host's clock
  settings,   \* how often it was set
  read_at,    \* history: the clock at its last reading
  counted,    \* history: clock time between the readings of one loop
  steady      \* history: it was never negative, nor as much as ClockSpan

loopVars  == <<max_inst, cycle, ret>>
readVars  == <<last_time, guest, read_at, counted, steady>>
hostVars  == <<now, settings>>
vars == <<where, loadVars, loopVars, readVars, hostVars>>

Where == {"options", "load", "tree", "segments", "ready", "prompt", "loop", "exited", "dead"}

Init ==
  /\ LoaderInit
  /\ max_inst = 0 /\ cycle = 0 /\ ret = 0
  /\ last_time = 0 /\ guest = 0
  /\ now \in 0 .. ClockSpan - 1 /\ settings = 0
  /\ read_at = now /\ counted = 0 /\ steady = TRUE

-----------------------------------------------------------------------------
(* Mutated forms, for the runs that show the properties can be violated.   *)

EnterLoop ==
  /\ where = "prompt"
  /\ where' = "loop"
  /\ max_inst' = CycleSpan - 1 /\ cycle' = 0 /\ ret' = 0
  /\ read_at' = now
  /\ UNCHANGED <<loadVars, guest, hostVars, counted, steady>>

RunKeepsLastTime == EnterLoop /\ UNCHANGED last_time

RunKeepsWideTime == EnterLoop /\ last_time' = now

SleepEndsLoop(r) == IF r # 0 THEN 0 ELSE max_inst

LoopsForEver == where = "loop"

LoopsUnlessStopped == where = "loop" /\ max_inst # 0

-----------------------------------------------------------------------------
(* sim_t::win_run and cpu_t::fetch_decode_exec.                            *)

\* cpu_t::init, which leaves a1 as it is.  From here on memory is the guest's,
\* and nothing looks at the command line again: what was loaded is forgotten.
InitCpu ==
  /\ where = "ready"
  /\ where' = "prompt"
  /\ line' = <<>> /\ at' = 1 /\ file' = "absent"
  /\ mem' = [c \in Ram |-> Junk] /\ segs' = <<>> /\ seg' = 1
  /\ UNCHANGED <<a1, loopVars, readVars, hostVars>>

\* "r": max_inst is -1 and the clock is read.
Run ==
  /\ where = "prompt"
  /\ where' = "loop"
  /\ max_inst' = CycleSpan - 1 /\ cycle' = 0 /\ ret' = 0
  /\ last_time' = now % ClockSpan /\ read_at' = now
  /\ UNCHANGED <<loadVars, guest, hostVars, counted, steady>>

\* "q", or the end of the input.
Quit ==
  /\ where = "prompt"
  /\ where' = "exited"
  /\ UNCHANGED <<loadVars, loopVars, readVars, hostVars>>

\* uint32_t time_sed = GetTimeMicroseconds() - last_time
TimeSed == (now - last_time) % ClockSpan

\* The switch on ret.
MaxInstAfter(r) == IF r \in {2, 3} THEN 0 ELSE max_inst

\* max_inst is unsigned, so that the second half of the loop's condition,
\* max_inst < 0, is never true.
Looping == where = "loop" /\ cycle < max_inst

Iterate(r) ==
  /\ Looping
  /\ last_time' = (last_time + TimeSed) % ClockSpan
  /\ guest' = guest + TimeSed
  /\ read_at' = now /\ counted' = counted + (now - read_at)
  /\ steady' = (steady /\ now - read_at \in 0 .. ClockSpan - 1)
  /\ ret' = r
  /\ max_inst' = MaxInstAfter(r)
  /\ cycle' = (cycle + 1) % CycleSpan
  /\ UNCHANGED <<where, loadVars, hostVars>>

\* The fetch, or what the instruction accesses, is outside the host's memory:
\* see FetchOutside and WildAccess of module Hart.
Crash ==
  /\ Looping
  /\ where' = "dead"
  /\ UNCHANGED <<loadVars, loopVars, readVars, hostVars>>

\* The loop's condition fails.
LeaveLoop ==
  /\ where = "loop" /\ ~Looping
  /\ where' = "prompt"
  /\ UNCHANGED <<loadVars, loopVars, readVars, hostVars>>

\* The host's clock moves on, or is set.  Nothing reads it before the prompt.
Clocked == where \in {"prompt", "loop"}

HostTime ==
  /\ Clocked /\ now < MaxNow
  /\ now' = now + 1
  /\ UNCHANGED <<where, loadVars, loopVars, readVars, settings>>

SetClock(t) ==
  /\ Clocked /\ settings < MaxSettings
  /\ now' = t /\ settings' = settings + 1
  /\ UNCHANGED <<where, loadVars, loopVars, readVars>>

Next ==
  \/ Load /\ UNCHANGED <<loopVars, readVars, hostVars>>
  \/ InitCpu
  \/ Run \/ Quit
  \/ \E r \in Returns : Iterate(r)
  \/ Crash \/ LeaveLoop
  \/ HostTime
  \/ \E t \in 0 .. MaxNow : SetClock(t)

Spec == Init /\ [][Next]_vars

\* The loop is a loop: it takes its next step unless the process ends.
FairSpec == Spec /\ WF_vars(LeaveLoop) /\ WF_vars(\E r \in Returns : Iterate(r))

-----------------------------------------------------------------------------
(* Properties *)

TypeOK ==
  /\ where \in Where /\ LoaderTypeOK
  /\ max_inst \in 0 .. CycleSpan - 1 /\ cycle \in 0 .. CycleSpan - 1
  /\ ret \in Returns
  /\ last_time \in 0 .. ClockSpan - 1
  /\ guest \in Nat /\ now \in Nat /\ read_at \in Nat /\ counted \in Int
  /\ settings \in 0 .. MaxSettings /\ steady \in BOOLEAN

\* The guest's time is the host's time between the readings of the clock while
\* the loop ran, the time at the prompt not counted: the subtraction and the
\* addition in 32 bits of cpu.cpp:137-142 lose nothing of the 64-bit clock when
\* it wraps their width.  Where the clock is set while the loop runs, or no
\* reading comes for 71 minutes, the guest's time is off by multiples of 2^32
\* and by nothing else: set back by a second, it is 2^32 - 10^6 ahead.
GuestTimeExact ==
  /\ steady => guest = counted
  /\ (guest - counted) % ClockSpan = 0

\* Every run ends when the program stops or faults, or after the number of
\* iterations that cycle can count; a value of SYSCON does not end it.
LoopEndsForAReason ==
  [][where = "loop" /\ where' = "prompt" => ret \in {2, 3} \/ cycle = CycleSpan - 1]_vars

\* No iteration follows one whose instruction stopped the program, and each
\* brings cycle one closer to its end without wrapping past it (cpu.cpp:139: the
\* comparison comes before the increment, and max_inst is the largest value).
\* With this the loop ends as soon as it is scheduled often enough.
LoopProgresses ==
  [][\A r \in Returns : Iterate(r) => ret \notin {2, 3} /\ cycle' = cycle + 1]_vars

\* A program that stopped, or faulted, gives the user the prompt back.
StopReachesPrompt == (where = "loop" /\ ret \in {2, 3}) ~> where = "prompt"

\* Every run ends, that of a program that never stops too: cycle counts up to
\* max_inst, 2^32 - 1 (cpu.cpp:135-139), and no message says that it did.
EveryRunEnds == where = "loop" ~> where # "loop"

\* "SYSCON (reboot, poweroff, etc.)" (decoder.cpp:109): once the guest has asked
\* for a power off, the loop takes no further iteration.
PowerOffEndsLoop == ret = PowerOff => ~Looping
=============================================================================
