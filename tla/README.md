# A formal model of Oberon RTK

TLA+ specifications, TLC model checks and TLAPS proofs for Oberon RTK: the core of the library
v3.2 (`lib/v3.2`: the two kernels, their synchronisation and output modules, dynamic memory, SPI
transfers), and the host tools (`tools`: ELF files and debug data, listings with absolute addresses,
the two test engines, code generators). Library paths below are relative to `lib/v3.2/mcu/rpi`,
which holds the modules for the RP2040 and the RP2350; `any/` is shared by both. Line numbers are
listed definition by definition in `PROJECT.json`, under `map`.

1. Inventory of the system
2. Modules, and how they correspond to the code
3. Checks: runs, bounds, fairness
4. Findings
5. Proofs
6. Not modelled
7. Plan

## 1. Inventory

### The library

Oberon RTK is a library for single programs on bare metal. A program picks one of two kernels.
*kernel-v1* is a cooperative scheduler of threads (coroutines with a stack each). *kernel-v4* has
actors without stacks, which run to completion in interrupt handlers and pre-empt each other by
interrupt priority. Everything is in one address space; modules interact by procedure calls,
procedure variables (run procedures, handlers) and shared records. On two cores, each core has its
own kernel context, heap and stacks.

| Component | State | Operations | What is hard | What makes it correct |
|---|---|---|---|---|
| kernel-v4 queues and messages (`rp2350/kernel-v4/Kernel.mod`) | ready queues with a software interrupt each; event queues = message queue + actor queue; message pools; `act.msg`, `act.next`, `act.run` | `RunAct`, `PutMsg`, `PutMsgAwaited`, `GetMsg`, `RunQueue`; the `PutTo…`/`GetFrom…` primitives with BASEPRI raised | handlers pre-empt each other between any two primitives; a message is recycled after each run; one link field for several queues | messages and actors are conserved; no lost wake-up; a ready actor is served; messages reach actors in order |
| kernel-v4 ticks and loop (same file, `SysTick.mod`) | tick queue, loop queue with tail pointer, loop ready queue, `act.ticker`, SysTick count flag | `GetTick`, `Submit`, `tickHandler`, `loop`, `Run` | the loop walks a queue to which handlers add; the handler drains a queue to which those it wakes return; WFI | each tick serves each waiter once; waiters run again |
| kernel-v4 Semaphores | one event queue with one message | `Claim`, `Release` | pre-emption between the halves of either; release without claim | one owner; first come first served |
| kernel-v4 alarms (`KernelAlarms.mod`, `rp2350/Alarms.mod`) | alarm and time registers, alarm time, event queue, message | `Arm`, `Rearm`, handler | an alarm fires between `Arm` and `GetMsg`; 32-bit wrap-around; alarm times already past | armed alarms fire, near their time; the actor runs once for each |
| UART output (`UARTstrKint.mod`, `UARTstrKbw.mod`) | print queue, device queue, message pool, state of the driver actor, message and index of the handler | `PutString`, driver states, device handler | pool empty; recycling against the interrupt that still sends; late and early interrupts | strings go out whole and in order; the driver never gets stuck |
| kernel-v1 scheduler (`any/kernel-v1/Kernel.mod`) | thread slots; state, priority, period, ticker, delay, device wait and trigger of each thread; ready queue, bit set `queued` | `Allocate`, `Reallocate`, `Enable`, `Next`, `SuspendMe`, `DelayMe`, `StartTimeout`, `AwaitDeviceFlags`, `SetPrio`, `SetPeriod`, scheduler `loopc` | several triggers at once; sorted insertion while priorities change; the link field shared with signals | a thread runs for a reason; none is forgotten; queues stay intact |
| Signals, Semaphores (`any/kernel-v1`) | queue of threads; claimed flag | `Await`, `Send`; `Claim`, `Release` | hand-over to a thread that runs later | one owner, first come first served, everyone gets it |
| Coroutines, UARTkstr (`any/kernel-v1`) | stack frames; receive buffer of a waiting thread | `Transfer`; `PutString`, `GetString`, receive handler | receive interrupts split a line | a line is complete |
| Memory (`any/Memory.mod`) | heap top and limit, bottom of the stacks, stack check flag | `Allocate` (NEW), `Deallocate` (DISPOSE), `LockHeaps`, stack allocation, `SetMainStackSize`, `EnableStackCheck` | heap and stacks grow towards each other; DISPOSE by address comparison | areas never overlap; seals stay |
| SPI transfers (`any/SPIdata.mod`) | bytes to write and to read, FIFOs | `PutBytes`, `GetBytes`, `PutGetBytes` | driver delayed while the controller goes on | receive FIFO never overruns; bytes correspond; calls return |
| Cores, MemoryExt, ProgData, BinRes (`any/`) | inter-core FIFO; tables behind the program | start of core 1; copying code to RAM; finding resources | echo protocol that starts over | core 1 starts with the right vectors |
| Exceptions, run-time errors, watchdog, device drivers, startup, security, texts | registers | configuration | none that outlives a call | — |

### The host tools

Python programs that run one after the other on files. Compiler and linker, which are not part of this
repository, leave listings, a map file and a binary; `gen-rdb` makes listings with absolute
addresses of them; `make-elf` makes the ELF file for GDB, for which `elfdata` reads those listings
and makes the debug data; the test engines drive GDB with that file. `gen-asm` and `sec-epilogue`
work before all this, on the source text, and `gen-secure` between the two programs of a device
with TrustZone. Only the test engines meet something concurrent: the target, and the timer that
interrupts it. The others are hard in a different way: each reconstructs, from text or code made
by another program, what that program meant, for every program anyone may write.

| Component | State | Operations | What is hard | What makes it correct |
|---|---|---|---|---|
| `make-elf.py` | header tables, string tables, symbols, output position | sections, segments, symbols, writing, correction of offsets | options that combine; indices and offsets fixed before other parts are known | a reader of the file finds what was put in |
| `pylib/elfdata.py` | constants and types of all modules, shared and changed in place; keys of type entries; line and frame tables | `extract`, `generate_dwarf` | forward references, imports, anonymous and nested types; storage recomputed; numbers of variable length | the debugger sees each variable, type, procedure, line and frame as the compiler placed it |
| `gen-rdb.py` | procedure database, code of the binary | `make_alst`, names of calls, start-up listing | the listing does not name the callee in other modules; nested procedures; far calls | each call is named for where it goes |
| `pylib/gdbtestengine.py` | specification, breakpoints, window, hit counts, timers | parser, formatter, constants, evaluation, the run | a timer's interrupt arrives after the stop it was for; GDB prints the same value in several ways | a verdict depends on the value alone; all checks are recorded; the run ends |
| `pylib/elftestengine.py` | tested, active, candidates, passes | breakpoints, passes, report | fewer breakpoints than procedures; the program counter cannot be read | no procedure is forgotten; the run ends; the report lists each one |
| `gen-asm.py`, `sec-epilogue.py` | the source file itself | translation, removal of earlier code, epilogues | run again and again between edits and compilations, with errors in between | the programmer's lines stay; code is what the blocks say, and current |
| `gen-secure.py` | modules by class, dependencies, gateways | closure, stubs | cyclic references; procedures recognised in listings | a stub reaches its own procedure, and what sections refer to is not missing |
| `check-elf.py`, `make-uf2.py`, `gen-lib.py`, others | none | one file in, one file out | — | — |

`PROJECT.json` lists every component with its sources and its status, and under `hazards` what can
go wrong in this code and would hardly be met by a test, with the property that stands against it.

## 2. Modules

| Module | Models | Uses |
|---|---|---|
| `KernelV4` | messages and queues of kernel-v4 | `Mailboxes` (refinement) |
| `Mailboxes` | what event queues promise: atomic put and get, FIFO | |
| `ListsV4` | linked lists of kernel-v4: queues and message pools | |
| `TicksV4` | ticks and loop of kernel-v4 | |
| `AlarmsV4` | alarms of kernel-v4, with the timer | |
| `SemaphoresV4` | semaphores of kernel-v4 | `FifoLock` (refinement) |
| `UARTstrK` | both UART output drivers on kernel-v4 | |
| `KernelV1` | scheduler and signals of kernel-v1 | |
| `SemaphoresV1` | semaphores of kernel-v1, extends `KernelV1` | `FifoLock` (refinement) |
| `FifoLock` | a lock with first-come first-served waiters | |
| `UARTkstr` | input of lines for threads of kernel-v1 | |
| `Memory` | heap and stacks of a core | |
| `SPIdata` | SPI transfer loop and controller | |
| `ElfSource` | parser of `elfdata`: from text to declarations | |
| `ElfTypes` | types and constants across modules, as objects changed in place | `ElfSource` |
| `ElfEntries` | storage, and type entries under their keys | `ElfTypes` |
| `ElfData` | `extract` and `generate_dwarf` for a program, against its declarations | `ElfEntries` |
| `ElfListing` | procedures, frames and lines of a listing; line program; numbers in DWARF | |
| `ElfFile` | `make-elf` | |
| `RdbCalls` | `gen-rdb` | |
| `GdbSpec` | test specifications: tokens, parser, formatter | |
| `GdbResolve` | constants, locations, resolved specification | `GdbSpec` |
| `GdbEval` | checks and traces against what GDB prints | `GdbResolve` |
| `GdbTest` | the run of the gdb test engine | `GdbEval` |
| `ElfTest` | the elf test engine | |
| `InlineAsm` | the assembler of `gen-asm` | |
| `GeneratedCode` | `gen-asm` and `sec-epilogue` on one source file, with the programmer | `InlineAsm` |
| `SecureGates` | `gen-secure` | |
| `MC_…` | instances for TLC | |
| `QueueLemmas` | lemmas about queues without duplicates, and about numbers | |
| `KernelV4_proofs` | types, wake-ups, ready queues, conservation of messages and actors of `KernelV4`, and that it implements `Mailboxes` | `KernelV4`, `QueueLemmas` |
| `TicksV4_proofs` | ticks and loop | `TicksV4`, `QueueLemmas` |
| `SemaphoresV1_proofs` | scheduler, signals and semaphores of kernel-v1 | `SemaphoresV1`, `QueueLemmas` |
| `Devices_proofs` | memory, SPI transfers, linked lists, alarms, semaphores of kernel-v4 | `Memory`, `SPIdata`, `ListsV4`, `AlarmsV4`, `SemaphoresV4` |
| `Text_proofs` | input of lines, output of strings, and both composed with the rest | `MC_Devices` |
| `Tools_proofs` | runs of the two test engines, and the ELF file | `GdbTest`, `ElfTest`, `ElfFile`, `QueueLemmas` |
| `Generators_proofs` | what `gen-secure` and `gen-rdb` write | `SecureGates`, `RdbCalls` |

Mutant definitions (`Name_Something`, each before the definition it varies) are plausible bugs. No
specification uses them; they show which property notices which bug.

### KernelV4

A *context* is a ready queue's interrupt handler, a device handler, or the main program. `pc[c]` is
where it is; `At(c, l)` is true if it is there *and* no more urgent context is active: this is
the pre-emption rule of the NVIC. Which one of several pending interrupts of any priority is
entered first is left open, which allows more behaviours than the hardware has.

The primitives `PutToRdyQ`, `GetFromActQ`, `PutToMsgPool` and so on run with BASEPRI at
`ExcPrioHigh` and are one step each. `PutMsg` is two steps, `TakeWaiting` (`GetFromActQ`) and
`FinishPut` (hand the message to the actor found, `HandOver`, or `Deposit` it; `Drop` it for
`PutMsgAwaited`). `GetMsg` is `TakeMsg` and `FinishGet`. `RunQueue` is `TakeInterrupt`,
`FetchActor`, the run procedure (`BeginForward`, at most once for each event queue it forwards to,
then `GetMsg`), `Recycle`, `LeaveHandler`. Local variables of calls in progress are the functions
`cur`, `held`, `evq`, `arg`, `got`. `BeginProduce` and `BeginForward` stand for application code: it
takes a message from the pool and puts it. Queues are sequences; `Conserved` says that nothing is
ever in two of them, which is what the single link field needs. Every message is of a pool: those
without one, which are not recycled, are left out (the messages of semaphores and alarms are in
`SemaphoresV4` and `AlarmsV4`). `LeaveHandler` is the last look at the ready queue and the return from
the handler in one step: what is queued in between sets the interrupt pending, which is then
taken as it would be after the return.

Two rules of use are in the model: contexts have priorities that BASEPRI masks (a handler at
`ExcPrioTop` must not call the kernel), and an actor ends its run with exactly one `GetMsg` (or, in
`TicksV4`, one `GetTick` or `Submit`).

### ListsV4

What `KernelV4` has as sequences, as the code has it: `head`, `tail`, and one `link` for each item.
Ready queues, actor queues and message queues are one program text on three types of records, so
`PutToQ` and `GetFromQ` stand for three procedures each; `PutToPool` and `GetFromPool` are those of
message pools. `loose` is what callers have got, and only that is put, which `Conserved` of `KernelV4`
guarantees. `contents` is a history variable: what has been put and not taken. The queue's interrupt,
which `PutToRdyQ` sets pending, is in `KernelV4`.

### TicksV4

The same rules of pre-emption for the tick handler, ready queue handlers and the thread-mode loop.
`TickGet`/`TickPut` are the two primitives in the loop of `tickHandler`; `WFI`, `TestTick`,
`TakeFirst`, `ReadTail`, `CountDown`, `TakeNext`, `Fetch`, `RunActor`, `StartOver` are the loop of
`loop`. `loopTail` is a variable of its own because `GetFromActQ` leaves `tail` as it is when the
queue gets empty, and `GetTailFromActQ` then returns a stale pointer. `SysTickZero` sets the count
flag and makes the exception pending, at any time. `served`, `due` and `counted` are history
variables for the properties.

### AlarmsV4

Words have `AlarmBits` bits, and the timer runs all the time. The alarm fires when the timer has
its value, then and only then, as the hardware does: an alarm set to a time just gone by would fire
a whole turn later. `BeginArm` is `Alarms.Arm` up to reading the timer, with interrupts off,
`SetAlarm` its last write; in between the timer may go on by `Inside`, which has to be less than
`Margin`. `GetAlarmMsg` and `AwaitAlarm` are the two halves of `GetMsg`, `FindWaitingActor` and
`PutAlarmMsg` those of `PutMsg` in the handler; `alarmPrio` is the priority of the handler relative
to that of the actor's ready queue. `due` is a history variable: how far off the time is that the
actor asked for, in whole numbers rather than words.

### SemaphoresV4

A claim is `BeginClaim` and `EndClaim`, the two halves of `GetMsg`; a release is `BeginRelease` and
`EndRelease`, those of `PutMsg`. `SemMay` is the pre-emption: an actor runs unless one as urgent or
more urgent is in the middle of a call. `holder` has the one message of the semaphore.

### UARTstrK

The kernel operations of `KernelV4` specialised to one driver actor: `where` is where the actor is.
`drv` selects the driver. The ready queue and the UART interrupt have one priority
(`Install`), so an actor run and a device handler are one step each. `PutString` is `Call`, then for
each chunk `TakeMsg`, `FillMsg`, `FindActor`, `HandMsg` (the last two are the halves of `PutMsg`).
`below` says whether the caller's priority is below that of the driver (`CallersBelow`), so that the driver may
run between these steps. `OnePrio` leaves out the interrupt driver with such a caller: a wake-up or the
order of chunks may be lost there (the premise of `NoLostWakeup`, too). A message's text is the
number of the chunk it holds, a character is a chunk and an index. The transmit interrupt comes
some time after characters have been written (`RaiseTxInt`); more characters may or may not
deassert it.

### KernelV1, SemaphoresV1

Nothing in kernel-v1 is touched by interrupts, so steps are from call to call. `run` is `ctx.Ct`.
Calls that transfer back to the scheduler set `run` to `NIL`. The scheduler is `Tick`, `ScanThread`
for each slot (`NoTriggers`, `CheckTriggers`, `SlotIn`), `EndScan`, `Dispatch` and `EndDrain`.
A scan starts at any time after the last drain, so a tick that was missed because threads ran too
long is covered; device flags are read as set or not set at every scan. `Calls` says which
procedures a thread uses. `MayManage` is a rule of use that the code does not enforce: `Enable` and
`Reallocate` are for threads that do not wait for a signal.

`SemaphoresV1` adds `claimed` and the position of each thread, and runs the scheduler beside it:
a thread that waits in `Claim` is a thread suspended in `Await`.

### UARTkstr

The receive handler is `EnterRxHandler`, `ReadFifo` once for each character and `LeaveRxHandler`;
characters arrive (`TypeChar`) between any two of these steps. A printable character is its number
in the line, so that what is in the buffer tells which characters have arrived. The receive timeout comes
when the line has been sent and the FIFO holds fewer characters than raise the other interrupt: a
terminal is taken to send a line without pauses. A character that finds the FIFO full is lost (`lost`):
nobody reads the FIFO while the thread has not asked for a line, or the handler is held up. If that was the
end of the line, `GetString` waits on for the next one. The scheduler's part in `GetString`,
`AwaitDeviceFlags`, is in `KernelV1`; here it is the guard of `EndGetString`.

### Memory

Addresses count words. Each step is a procedure; a failed allocation changes nothing and is no
step. `recs` and `stacks` are the areas handed out, `sealed` the words holding the seal.
`SetMainStackSize` has the guard that its comment states: no stack has been allocated yet.

### SPIdata

Each polling test and the access after it is one step; the controller, a PL022, moves bytes between
its FIFOs at its own speed. A byte is known by its index.

### ElfSource, ElfTypes, ElfEntries, ElfData

A program is a library and a program that uses it, in both orders of their files (`Programs`), chosen
declaration by declaration (`Declare`, from `Menu`) and word by word for the bodies (`Write`); that is its
meaning. What the tool sees are the tokens made of it. `Parse`,
`ResolveDimensions`, `ResolveOne` and `EnterOne` are the passes of the tool over the modules in the
order of files; `world` is the heap of `TypeRef` objects, since a pass changes objects that other
modules share. The properties compare the entries, followed as a debugger follows them, with the
declarations; they do not mention the passes. `RefRound` is one round over pointers and arrays, in which
each one sees the entries made before it in the same round. `TypeKey` is the name under which an entry is found
again, from which most of the hard cases come. The parsers are recursive operators, as the code is
recursive descent.

### ElfListing, ElfFile

`ElfListing` grows a listing procedure by procedure (`CompileProcedure`, `CompileBody`) or a line
table row by row (`AddRow`); operators translate what there is, and the properties decode it again,
as the DWARF line machine and a debugger with frame entries do. `ElfFile` goes through `main` and
`Elf.make`: `Main`, `NameSections`, `AddSections`, `AddSymbols`, `WriteFile`, `FixUp`, with a command
line chosen at the beginning among all combinations of options. Pieces of the file have sizes, and
strings the number of their characters; addresses, indices and offsets are numbers as in the code.

### RdbCalls, SecureGates

The steps are the passes of the two tools. In `RdbCalls` a program grows (`AddModule`,
`AddProcedure`), with the BL instructions a linker leaves, at distances up to the reach of a call;
then come `MakeAlst`, `PatchBlCalls`, `GenerateStartup`. In `SecureGates` dependencies are walked
module by module (`NextModule`) before gateways (`CollectGateways`) and stubs (`GenerateModule`).
A section, and the signature of a procedure, is known by the modules it names; a listing is a sequence of
headings, ENDs and instructions. `PushBelow` is the search of the tool; `Entry` and `Pushed`, what the
compiler means, are made from ENDs and do not use it. The search finds the entry of a *plain* procedure
(`IsPlain`): not a leaf, none declared inside, and its push within `ScanLines` of the heading (30 in
the code). Of others see section 4.

What the tools may rely on is named. `IsProgram`: the modules to expose are there with a listing, or
`gen-secure` ends with an error; two exported procedures of a module have different names; each of
them has an END and instructions of its own (`OwnCode`, which leaves out those of procedures declared
inside), the first of which is a push unless it is a leaf; and the module given as "CONST
leaf" imports none of the others, which is what makes it a leaf. `RdbAssumption`: modules, and the
procedures of one, have different names; code begins at even addresses, ends within reach of a call
(2^24 bytes) and lies below the data.

### GdbSpec, GdbResolve, GdbEval, GdbTest

A line of a specification is its indentation and tokens. The parser has one operator per phrase,
with `Then` for the early returns. What GDB prints is hexadecimal, decimal, a pointer, an address with the
symbol it belongs to, a structure or an error, and `NumberIn` takes the number out. Of an address with
a symbol `int` cannot make a number (`Unparsable`): the exception that it raises in a check (`RaisesAt`)
or in the condition of a sentinel (`ConditionRaises`, `LeaveHere`) ends the run, and that check has no outcome. `GdbTest` runs a resolved specification:
`Continue` starts a timer, `Break` and `Lost` are the target, `Timer` posts the interrupt of the
continue whose timer runs, `Interrupt` delivers it, and `StopHere` and `EvaluateHere` are the
engine. `Break` may come before an interrupt that has been posted: in which order GDB takes the two is left
open. The late interrupt of a continue that has already stopped is thus a behaviour of the model.
Words have `WordBits` bits.

### ElfTest

`StartJLink` sets all breakpoints; with OpenOCD `StartPass` chooses which procedures get the few of
the hardware. In both, the next stop may be at a breakpoint, elsewhere, never come, or come with a
program counter that cannot be read (`PcLost`). `LastPass`, `PassEnds` and `SkipRest` end the test.

### InlineAsm, GeneratedCode

`InlineAsm` has every instruction `gen-asm` accepts with its encoding, and `Decode`, written from the
encodings of the architecture. `GeneratedCode` is the source file between `RunGenAsm`,
`RunSecEpilogue`, `Compile` and the programmer's edits, in any order; an edit may change, add or drop
(`DropOperation`) an instruction, so that a block gets empty. A listing has the code of the procedures
declared inside, which the compiler puts first, and the procedure's own. `Decode` shares with the assembler
the tables that number registers and fields, but not the layout of the words. Text on the line of
a marker counts as a line of the block, and a block on one line is not told from one on several.

## 3. Checks

| Run | Instance | Shows |
|---|---|---|
| `kernelv4_mixed` | 2 ready queues, device handler, main program, all of different priorities; 2 event queues, 2 actors, 3 messages, 3 activations of each producer (490,000 states) | `TypeOK`, `Conserved`, `ReadyIsServed` hold whatever the priorities |
| `kernelv4_layered` | 3 actors, 3 event queues in two layers of one priority each, a producer with `PutMsgAwaited` (100,000) | `NoLostWakeup`, `MsgReturns`, `ImplementsMailboxes` |
| `ticksv4_below` | actors in two handlers below the tick, one in the loop, all free to choose `GetTick` or `Submit` (344,000) | `NextTick`, `LoopSound` (nobody in two queues, each tick counts a submitted actor once), `WaitersRun` |
| `ticksv4_above` | one ready queue above the tick | `NextTick` fails, see 4 |
| `kernelv1` | three programs: 2 threads with periods, delays that are no multiple of the tick, timeouts and device waits; 3 threads with 2 signals, 3 priorities, suspending, enabling, reallocating; 3 threads that compete for a semaphore (131,000) | `QueuesSound` (types, nobody in two queues, waiters suspended, ready queue sorted), `ReadyForReason`, `EnabledRuns`; `OneOwner`, `ImplementsFifoLock`, `ClaimSucceeds` |
| `devices` | memory: 14 words, records of 1 and 2, stacks of 2 and 3 words, with and without heap limit; SPI: FIFOs of 3, calls of 0, 1, 3 and 8 bytes; UART output: both drivers, callers at their priority, and below that of the busy-waiting one, 2 messages, 3 strings of up to 3 chunks; UART input: buffers of 1, 3 and 5, lines of 0 to 8, a FIFO of 5; alarms: 4 bits, delays from -1 to 7, the handler below, at and above the actor; semaphores: 3 actors of one priority or three; lists: 4 items, 2 queues, a pool of 2 (90,000) | `ListsSound`; `Disjoint`, `SealsIntact`; `NoOverrun`, `BytesMatch`; `TextKept`; `AlarmsSound`; `OneHolder`, `ActsAsLock`; `CallsReturn`, `WaitersServed` |
| `uartstrk_overwrite` | interrupt driver, caller below it | `StringIntact` fails, see 4 |
| `memory_checked` | memory with the stack check | `SealsIntact` fails, see 4 |
| `elf` | programs of a library and a module that imports it, in both orders of files, of up to 8 of 16 declarations; listings of up to 3 procedures and a body, in 3 shapes; line tables of up to 3 rows; combinations of all options of `make-elf` (560,000) | `ModulesDescribed`, `StorageApart`, `ListingKept`, `FileSound` |
| `elf_documented` | one whole program | `TypesDescribed` fails in three ways, see 4 |
| `tools` | one part per tool or question, see below (118,000) | `SourceKept`, `CodeMeantIt`; `GatesSound`; `ListingsTrue`; `FormatKeeps`, `ConstTrue`, `SameVerdict`, `RunSound`, `Terminated`; `PassesSound` |
| `build_documented` | one source and its listing, through `gen-asm`, an edit, `gen-asm`, `sec-epilogue`, `gen-secure` | `BuiltAsDocumented` fails in five ways, see 4 |

`MC_Devices`, `MC_Elf` and `MC_Tools` put components that do not interact side by side in one
instance: a variable `part` chooses in the initial state which of them a behaviour is about, and
the others stay as they begin. So each component is checked as if alone. `MC_Build` lets the
three tools of a Secure build work one after the other. In `MC_Devices`, three
properties are conjunctions over such components: `TextKept` is `BwStringIntact` and, given `OnePrio`,
`ChunksInOrder` of `UARTstrK`, and `LineReceived` of `UARTkstr`; `CallsReturn` is `Returns` of `SPIdata` and
`GetStringReturns` of `UARTkstr`; `WaitersServed` is `QueueEmpties` of `UARTstrK` and `AlarmRuns` of
`AlarmsV4`.

**What some properties of the library say.**

* `Conserved`: each message and each actor of kernel-v4 is in exactly one place, a queue, a pool, an
  actor or a call in progress.
* `ListsSound`: from the head of a list, by `next`, one gets to what has been put and not taken, in
  order, and no further, although taking leaves `tail` and `next` stale (`ListsAreQueues`); no item is
  in two lists (`ItemsApart`); pools count their own messages (`PoolsCount`).
* `AlarmsSound`: an armed alarm is ahead of the timer, and by no more than the time asked for or the
  margin (`FiresInTime`); nobody is woken early, and a chain of `Rearm` does not drift
  (`NeverEarly`); the one message of an alarm is free when the handler puts it (`OneAtATime`); an
  actor never waits beside its message, provided that the handler is not more urgent
  (`NotStranded`).
* `OneHolder` holds whatever the priorities; `ActsAsLock`, that a kernel-v4 semaphore is a first-come
  first-served lock, holds if all its actors have one.
* `LineReceived`: if no character was lost, a line that leaves room for 0X arrives whole, with 0X
  behind it in the buffer and no error, at whatever character the interrupts come. Of a longer line the first
  characters arrive, as many as the buffer has. That is the bound of what is claimed: where 0X
  then goes, and whether the overflow is reported, is in section 4.

**What the properties of the tools say.**

* `ModulesDescribed`: each variable, parameter, local, record and field is found in the debug data,
  with the type it was declared with, followed through pointers, arrays and extensions to a depth of
  two; each procedure is found. For types that is so in programs without arrays of arrays, in which no two
  modules declare types of one name (`NamesApart`) and no record extends one that names types and is in a
  later file (`BasesResolved`); see section 4. `StorageApart`: no two globals of a module share a byte, nor do two
  variables of a frame.
* `ListingKept`: the line program, when run, gives back the rows of the table; numbers decode to
  themselves; each instruction belongs to the procedure that holds it; with the frame entries a
  debugger finds the caller's frame everywhere in a body.
* `FileSound`: each offset and link in the file leads to the piece it was meant for; each symbol has
  its name, section and address.
* `SourceKept`: the programmer's lines are all there, once, in order, after any tools, edits and
  errors (`HandKept`); a second run changes nothing (`Settled`); after `gen-asm` blocks have current code, in
  a file with some block that says anything (`AsmCurrent`); SYSTEM is imported once, unless the programmer
  imports it on a later line of the list (`ImportedOnce`). `CodeMeantIt`: what the assembler accepts decodes to the
  instruction written; the epilogue releases exactly the frame, however large, unless a procedure declared
  inside pushes anything. What these premises leave out is in section 4.
* `GatesSound`: the gateway of a stub is the one made for its procedure, the call of a plain procedure
  arrives at its first instruction with the stack as it was (`StubsArrive`), and what constants and types
  of generated modules refer to is imported and generated (`SectionsClosed`). For procedures that are not
  plain, and for signatures, that is not so: section 4.
* `ListingsTrue`: each call is named for the procedure whose code it reaches; each global for the
  module that owns it; the start-up listing is that of the module bodies.
* `FormatKeeps`: a specification without addresses (`Symbolic`), printed and parsed again, is the same; of
  addresses see section 4. `ConstTrue`: constants have
  the values of their declarations, whatever the order of declarations and modules. `SameVerdict`:
  the same words in the target give the same verdict of a check, however GDB prints them as numbers; the
  conditions of sentinels compare what is printed (`gdbtestengine.py:1699`) and are not in it. `RunSound`: all
  checks of a place are recorded, a halt is the last stop, nothing is recorded outside the window, and no
  timer of an earlier continue is running. `Terminated`: the run ends.
* `PassesSound`: never more breakpoints than comparators; each procedure is tested, has a breakpoint
  or waits for one; the numbers of the report add up; passes without success are limited.

**Bounds.** `MaxLoad` (kernel-v4) and `MaxCalls`, `MaxParts` (UART) limit how often producers are
activated; without them the number of behaviours is still finite, but too large. With three
messages and three activations per producer the pool runs empty, both queues of an event queue get
used and drained, and every context is pre-empted by every more urgent one in every step; two
messages and nine chunks do the same for `PutString`, which reuses each message several times.
Lost wake-ups need one message and one actor, swapped messages need two. Two threads suffice for
each combination of triggers, as a scan treats threads one by one; three are needed for the order
in queues. In `Memory`, 14 words leave room for about five areas, enough for a record below, between
and above freed ones and for two stacks to meet the heap. `SPIdata` has calls below, at and beyond
the depth of the FIFO. `AlarmsV4` has 16 times, `Late` and `Behind` of 1 and a margin of 2: the timer
turns round within a chain of alarms, and delays reach from before the present to the end of
the signed range; `AlarmAssumption` says how far that may go. Delays on both sides of the margin are
among them. Lines and buffers in `UARTkstr` are shorter than, as long as and longer than each other,
the level of the FIFO (3) and its depth (5). Three actors at a semaphore give two waiters, whose
order can differ. Two queues and a pool with four items, two of which belong to the pool, let queues
get empty and fill again over a stale `tail`, with items that have been in other lists. Where a
proof exists, the bounds do not matter.

*Tools.* `MaxDecls` is 8, of a menu of 16 with extension, an anonymous record, a pointer to a record
declared after it, open arrays, imported types and dimensions from imported constants; what
interacts is met together (`E` extends `U`, `F` extends `E`, `p` takes `F`; `G` extends `W`, which names the
array `A`, and `M` may declare an `A` of its own). The menu has no arrays of arrays, which are in
`elf_documented`. Steps of addresses and lines lie on both sides of the limits of
special opcodes and of one-byte numbers. `gen-asm` is checked for every instruction with registers
and immediates at the ends of their fields, `AddSp` for all frames up to 1280 bytes and some up to
65532. There are four source files, one of which has SYSTEM on a second line, five listings, two with code of a
procedure declared inside, and one edit or compilation (`MaxEdits`)
between any runs of the tools. `ScanLines` is 5 instead of 30, with plain procedures, a leaf, one with
another inside and one whose push is further down. `Gaps` are none, just below the reach of the lower field of BL, and almost 16 MB. Numbers in
checks have 4 bits. A specification has up to 4 lines out of 17, which have every phrase among them.
Constants are up to three declarations over three modules, in two orders of files. With five
procedures, two comparators and five passes, procedures wait, and passes run out.

`CHECK_DEADLOCK FALSE` is set where a model may stop for good reason: when the bounded load of
`KernelV4` and `UARTstrK` is used up, when `Memory` is full, when a call of `SPIdata` has returned, and
when a program or file of `elf`, or the build of `build_documented`, is complete. In `devices` these are
parts, and a reader who need not call `GetString` again is another. The others are checked for deadlock.

**Fairness.** *KernelV4, UARTstrK:* the processor makes the next step of the most urgent context,
pending interrupts are taken, the UART sends what it has got (`WF` for each handler and call).
Producers and callers have none: nobody has to put a message. *TicksV4:* SysTick goes on counting
(`WF`), handlers go on (`WF`), and the system is not overloaded: again and again no handler is
active or pending, and the loop gets a share of these times (`SpareTime`, `SF` of the loop). Without
it an interrupt load of 100 % starves the loop, as it would on the hardware. *KernelV1:* ticks come,
the scheduler goes on, and every thread transfers back some time, which is the contract of
cooperative scheduling; device flags may never be set. *SemaphoresV1:* moreover, a thread that owns
the semaphore and runs again and again releases it (`SF`), as programs must. *SPIdata:* driver and
controller go on. *UARTkstr:* a line that has been begun is sent, the handler goes on, and a thread
whose flags are set runs again; nobody has to type another. *AlarmsV4:* time passes, the handler and
the actor go on. *GdbTest:* the engine goes on, a running timer posts its interrupt, and GDB
delivers a posted interrupt (`WF` each); in which order it takes a breakpoint and an interrupt is open. The target has none: it may run forever and reach no
breakpoint, and the run ends all the same.

## 4. Findings

* **Characters overwritten in `UARTstrKint`** (`uartstrk_overwrite`). `writeUART` sends the first
  character of a message and leaves the others to `handleDev`, which reads them from `ux.msg`. But
  `RunQueue` puts the message back into the pool as soon as `writeUART` returns. The next chunk of
  `PutString`, or the next string, takes that very message (the pool is a stack) and overwrites it:
  the rest of the first chunk is lost, that of the second appears early.
* **Stack check removes the seals** (`memory_checked`). With `EnableStackCheck(TRUE)`, the fill
  pattern goes over the whole stack, and over the seal that `allocStack` has just written into its
  top word; `Coroutines.Allocate` skips that word as the seal.
* **A tick without end** (`ticksv4_above`). `tickHandler` empties the tick queue with a loop. An
  actor whose ready queue is more urgent than SysTick runs within that loop, calls `GetTick` again
  and is made ready again by the same tick, forever; `GetTick` is to "get next tick from kernel
  ticker". Nothing demands the other order of priorities. In the examples no actor that calls `GetTick`
  has a ready queue more urgent than the tick (`K4perf0` and `K4print` have such queues, for actors that
  wait for events and alarms); then `NextTick` holds (`ticksv4_below`).
* **Types that are not what the compiler sees** (`elf_documented`). The header of `elfdata.py` (lines 11-12)
  says "Supports all Oberon types: scalars, arrays, records, pointers, procedure types, and cross-module
  type resolution." In the last state of the run, of one program:
  * `z`, an array of arrays, has lost a dimension. Array types are entered in the order in which they are met. If
    the outer one comes first, there is no entry for its element type yet, and the name of the element is
    looked up instead (line 1812), which is that of the innermost type.
  * the record `G`, which extends one of the library, whose file comes later, has lost the inherited member `t`:
    `_resolve_record_base` copied it before its type was resolved, in a module where the name of that type means
    nothing, and `_emittable` leaves it out without a word. `tools/changes/make-elf.md` (line 10) says that "exported type
    declarations get complete type DIEs".
  * `x: l.U` and `y: U`, records of two modules with one name, are described by one entry, since `typeref_key` has no
    module in it; and its members have no type, as the second lookup of `l.U` finds the `U` of the program.
* **What a build leaves in the files** (`build_documented`). Also in one last state:
  * the ASM block has been emptied, and its generated code is still there: `gen-asm.py` sets `modified` only for a
    block that translates to something (lines 773-784), and writes no file without it. "The ASM block is the source of
    truth" (line 8). It does so only if no block of the file says anything.
  * SYSTEM is imported twice: `sec-epilogue.py` looks for it on the line of IMPORT only (lines 416-418), where `gen-asm`
    looks at the whole list.
  * the epilogue of `P` releases the frame of the procedure declared inside it, whose push `parse_listing_proc` meets first:
    "push instruction (first one is the prologue)" (line 279).
  * the stub of `P` enters the procedure inside `P`, for the same reason (`gen-secure.py:344`), and drops what
    that one pushes. In the instance of `tools`, `EachStubArrives` also shows a leaf, whose stub gets the push of
    a later procedure, and one whose push is too far down, whose gateway leads to the begin of the module.
  * the signature of the stub names a module that the generated module does not import: `collect_ns_imports`
    (line 568) looks at constants and types only.

More of the kind, which the properties of the passing runs leave out by their premises. Each is a
definition in the module named; put as an INVARIANT into the configuration named, in place of those there, it
is violated.

* `ZeroInBuffer` (`UARTkstr`, `Devices.cfg`): a line of as many characters as the buffer of `GetString` has fills
  it, and `rxHandler` writes 0X behind it (`UARTkstr.mod:87`). `Texts.mod:244` says "The string is truncated to the buffer length,
  terminated by 0X.", and `UARTstr.mod:57` keeps "space for 0X".
* `OverflowReported` (`UARTkstr`, `Devices.cfg`): `overflow` is reset with each call of the handler (line 58) and looked
  at when the line ends, so that an overflow seen in an earlier interrupt is not reported, which `Texts.mod:33`
  has `BufferOverflow` for.
* `RoundTrip` (`MC_Tools`, `Tools.cfg`): "Round-trip output" (`gdbtestengine.py:2012`) of a specification with addresses. A
  location is printed "at address …" (lines 695-696), which the parser does not take; for one given as a plain number
  `_format_address` raises an IndexError (line 748); and a target that is an address in brackets is printed "[None]" (line 771).
* `TimeoutIsOwn` (`GdbTest`, `Tools.cfg`): `timer.cancel` (line 1797) does not take back an interrupt posted already. If GDB stops at a
  breakpoint first, the interrupt ends the next continue, at no breakpoint, and the run is reported as "timeout"
  before its time is out (line 1806).
* `EachReported` (`ElfTest`, `Tools.cfg`): `format_report` lists as skipped the procedures that are not in `proc_results`, but
  `skip_proc` has put them there, so that the section "SKIPPED (… procedures never called)" (`elftestengine.py:398`) is
  empty after a run.

Limits that the models make visible and that no document contradicts: event queues used from
contexts of different priorities can lose wake-ups (the premise `OnePriority` of `NoLostWakeup`);
for the same reason an actor can wait forever for an alarm whose handler is more urgent than its
ready queue and fires in the middle of `GetMsg` (the premise of `NotStranded` and `AlarmRuns`); a
second `Release` of a kernel-v4 semaphore puts its one message into the queue twice, so only the
owner may release; a timeout started before `Signals.Await` never fires; `Enable` of a thread that
waits for a signal corrupts queues.

## 5. Proofs

Each theorem is for arbitrary values of the constants, under the `ASSUME` of the module it is about,
which TLC evaluates in the runs. These say that configuration tables are well-typed, that `NIL` is none
of the objects, that the message pool has no message twice (`PoolAssumption`), that memory maps are
ordered, how deep FIFOs are, that a test plan is made of lists with addresses a target can have
(`GdbTestAssumption`), what GDB may print for a word (`FramesAssumption`) and what a target may be
(`TargetsAssumption`), that a program has finitely many procedures (`ElfTestAssumption`), what the two
generators may rely on (`GatesAssumption`, `RdbAssumption`: section 2), what fits together in the
files of a command line (`CommandsAssumption`: see `FileIsSound`), and how
long the delays of alarms may be relative to the turn of the timer (`AlarmAssumption`). Some theorems
have a hypothesis of their own besides, a rule of use of the library, named below; in each case a run or a
paragraph of section 4 shows what happens without it.

Each proof has the same shape: an inductive invariant, a lemma for each action or group of actions that
says the action keeps it, and a last step in temporal logic.

**kernel-v4**

* **`TypeCorrect`** `Spec => []TypeOK` (KernelV4). `TypeOK` is not inductive alone: a run procedure
  forwards only to event queues of its own actor, and a call in progress knows its arguments. The
  invariant `Typed` adds `ActorsAtHome` and `CallsAreUsers`.
* **`MessagesAndActorsConserved`** `Spec => []Conserved`. The invariant makes places explicit:
  `ActorsLocated` and `MsgsLocated` say that a function exists which gives each actor, and each
  message, its one spot, such that each queue holds exactly those at its spot, without duplicates,
  and each local variable likewise. Each action moves at most one actor and at most one message, and
  there is one lemma for each such move (`RunActMoves`, `ArgToQueue`, …). Two more parts are needed:
  `Locals` (a call that is over has left nothing in its locals, so that nothing gets overwritten)
  and `Fresh` (an actor never run has no message). `QueueLemmas` has what queue operations do to
  sequences without duplicates.
* **`NoWakeupIsLost`** `Spec => []NoLostWakeup`. The inductive invariant is `WakeupInv`, whose
  essential part is `StillEmpty`: in the middle of `PutMsg`, having found no actor, the actor queue
  is still empty, and in the middle of `GetMsg` the message queue is. Lemma `Alone` is the reason:
  of contexts with equal priority, only one can be at a step, and it is in the only call in progress on that
  event queue. Here the premise `OnePriority` is used.
* **`ReadyActorsAreServed`** `Spec => []ReadyIsServed`: `PutToRdyQ` sets the interrupt pending,
  and a handler leaves only with its queue empty, in the same step.
* **`MailboxesImplemented`** (KernelV4_proofs) `Spec => ImplementsMailboxes`, given
  `OnePriorities`: all users of an event queue have one priority. The calls of `Mailboxes` take
  effect where the code takes the second of its two critical sections, so a message that has left
  its queue for a call in progress still counts as the front of its box (`BoxOf`), and an actor as
  the front of those waiting (`WaitOf`); lemma `OnlyCaller` says that there is at most one such
  call. The invariant `MailInv` joins the types, locals and places of actors from above with
  `StillEmpty`, and `GetsOwn`: an actor gets messages from the queue it serves. Without equal
  priorities the theorem is false, as `NoLostWakeup` is.
* **`LoopIsSound`** (TicksV4_proofs) `Spec => []LoopSound`, whatever the priorities. Places of
  actors are explicit again (`ActorsLocated`). `Counting` is the heart: while the loop walks
  its queue, there is a position `k` such that the tail it has read is at `k`, nobody up to `k` has been
  counted yet, and all that are due and not counted are up to `k` (`DueUpTo`); handlers add behind
  `k` only. `TailIsLast` says when `loopTail` may be trusted: while the queue is not empty. In
  the step that reads it with an empty queue, the stale pointer is that of the actor in hand.
* **`TicksAreApart`** `Spec => []NextTick`, given `RdyQsBelowTick`: no ready queue is as urgent as
  the tick or more (in the examples, none whose actors call `GetTick`). `ServedOnce`: an actor made ready by this run of the
  handler is not back in the tick queue, as its ready queue cannot run before the handler is done.
  Without the premise `NextTick` fails (`ticksv4_above`).
* **`ListsAreSound`** `ListsSpec => []ListsSound` (ListsV4). The invariant `ListsInv` adds `Unshared`: no
  item is in two lists, or twice in one, or in one and loose. So the two items whose links a call
  writes, the last one of a queue and the one put, are in no other list, and the other lists stay
  linked; and the last item, whose link gets overwritten, is not met before the end of its own list.
* **`SemaphoreHasOneHolder`**, **`SemaphoreIsFifoLock`** (SemaphoresV4) `SemV4Spec => []OneHolder`
  and `SemV4Spec => ActsAsLock`. The invariant `SemInv`: who is on the way through the semaphore has
  its message (`Holding`), who waits is in the queue, once, or has just been taken from it
  (`Queueing`), and with one priority nothing changes between the halves of a call (`Undisturbed`).
  The refinement follows step by step from it.
* **`AlarmsAreSound`** `AlarmSpec => []AlarmsSound` (AlarmsV4), for every width of the words. What is on
  its way from `Arm` to the run of the actor is in one place: the alarm, the interrupt, the handler or
  the message (`Stages`). `OnTime` ties the word `alarmTime` to the distance in whole numbers, `due`,
  modulo the turn of the timer. `StillAhead` covers the gap between reading the timer and
  writing the register: the time about to be written is still ahead, as interrupts are off and the gap is
  less than the margin. `Over` says that the time has come when the alarm has gone off.
  The powers of two in the model are those of `Integers`, whose definition the provers cannot
  unfold; lemma `TwoToThe` derives what is needed from the number of subsets of a finite set.

**kernel-v1**

* **`QueuesAreSound`**, **`ThreadsRunForReason`** (SemaphoresV1_proofs) `Spec => []QueuesSound` and
  `Spec => []ReadyForReason`. One invariant, `Sound`, proves both, as neither is inductive without
  the other: threads slot in and leave by their state. Besides them it has `Apart` (one link field:
  in one queue, or running), `Scheduled` (threads run in the drain phase only, and a scan has put
  only lower numbers into the ready queue, so none twice) and `Allocated` (only threads with a
  coroutine are queued). `ReadySorted` is kept by insertion (`SlotInKeeps`), and by
  `SetPrio` and `Reallocate` since the thread that gets another priority runs or is suspended, and
  is then not in the queue.
* **`SemaphoresKeepQueues`**, **`SemaphoreHasOneOwner`**, **`SemaphoreV1IsFifoLock`** for
  `SemSpec`, in which threads use a semaphore too. The invariant `SemInv` is `Sound` with: who
  waits for the semaphore's signal is in `Claim`. The lock's queue is that of the signal, its owner
  the one thread in `Owners`, which includes the one that has been handed the semaphore and has not run.

**Devices**

* **`AreasAreDisjoint`**, **`MemoryTypes`** (Memory). Invariant `MemoryInv`: `Gap` orders heap top,
  heap limit, bottom of stacks and main stack, also after `LockHeaps`; `Sides` puts each area on its
  side. `DISPOSE` needs that the record ending at the heap top is the topmost.
* **`SealsStay`** `TRUE \notin Checks => (MemorySpec => []SealsIntact)`: what NEW writes ends below all
  stacks, and a new stack writes only its own seal. The premise, that nobody enables the stack
  check, is needed (`memory_checked`).
* **`ReceiveFifoNeverOverruns`**, **`BytesAreMatched`** (SPIdata). Invariant `SPIInv`: the bytes
  on their way (`InFlight`) are exactly those written and not read, in order, and never more than
  the FIFO holds (`Credit`).
* **`LineIsReceived`** (UARTkstr) `LineSpec => []LineReceived`. `FifoInOrder`: the FIFO has the rest
  of what has arrived of the line, in order. `Filled`: what has been taken is in the buffer, as
  far as there is room. `HandlerKnows`: with the FIFO empty, `ch` is the last character
  that has arrived, of this line and no earlier one, on which the handler decides whether the line has ended.
  All this is given that no character was lost, and says of a line that fills the buffer only what is in
  the buffer.
* **`StringsAreSent`** (UARTstrK) `Spec => [](BwStringIntact /\ (OnePrio => ChunksInOrder))`, and
  **`TextIsKept`** `DevicesSpec => []TextKept` for the composition that the run checks. `OnePrio`: the driver
  waits for the UART, or `PutString` is called at its priority. `Numbered` says that the chunks
  on their way (with the driver, in the print queue, in the hands of `PutString`) have the
  numbers that follow those begun; `FreeInPool` that none of them is in the pool; `AtChunkEnd` that
  the busy-waiting driver stops at the end of a chunk. `BwStringIntact` says nothing about the
  interrupt driver, for which it fails (`uartstrk_overwrite`).

**Test engines**

* **`PassesAreSound`** (ElfTest) `ElfSpec => []PassesSound`. In a pass, the procedures not yet tested are
  those with a breakpoint and those waiting for one (`Loops`). `Paid` bounds the passes: each run of
  empty passes is shorter than `EmptyLimit`, and one ends only when a new procedure is reached.
* **`RunIsSound`** (GdbTest) `Spec => []RunSound`. `TimersInTime`: while the engine
  handles a stop or is about to continue no timer runs, otherwise only that of this continue; of interrupts posted it
  says nothing (`TimeoutIsOwn`, section 4). `Going` has the limit of hits,
  `Window` that outcomes are recorded only after a start directive was met, `Outcomes` that one
  which halts is the last. What the engine does at a stop is two nested loops, which the model
  has as recursive functions (`OutcomesOf`, `Evaluate`): that the functions have values at all, and what holds
  of them after each round, is shown by a least counterexample (`LeastNumber`).
* **`VerdictsAreSame`** (GdbTest) `Spec => []SameVerdict`, from the same invariant: each outcome is that
  of its action in its frame (`Entry`), so two of them differ only if evaluation tells their frames apart.
  It does not: what is read of two frames with the same words is `Alike` (`AlikeRead`), which is to say
  equal or two prints of one word, and those have the same value signed, unsigned (`DividedBy`) and in
  each range of bits (`BitsOfSigned`). The theorem has two limits, in the assumptions: a range
  lies within the word (with bits above it, a negative number would show its sign there, and the word
  zeros), and a variable that serves as an address prints as an address in both frames (a negative
  decimal would be read as a negative address). The code checks neither.

**Generators**

Both tools make lists out of lists, which the models do with `FlattenSeq`. Its recursion runs over the
numbers of the parts, so that what it makes of one part more (`FlattenStep`, `FlattenAppend`) and where
each element comes from (`Placed`, `PlaceOfEach`) can be proved once, by a least counterexample.

* **`GatesAreSound`** (SecureGates) `GatesSpec => []GatesSound`, for whatever order the dependencies
  come in. `Closing` is the invariant of the walk: each dependency of a module met so far is settled
  (it has a class, and one with types if its types are needed), or is still to be looked at, or the
  module is still in `work`. At the end nothing is left, so what is referred to is generated
  (`SectionsClosed`); the leaf, whose dependencies are never walked, has none that matter. For
  `StubsArrive`: `OrderIs` says that the exposed modules come last, in the order of the command line,
  so that the second numbering of the gateways is the first one (`GatewaysCounted`); and `PushIsOwn`
  that the push found below the heading of a plain procedure is its first instruction, which `EntryIs` places
  between heading and END: nothing but text comes before it, as no other procedure is declared inside. For
  leaves, procedures with others inside, and signatures the theorem says nothing, and the statement fails
  (`build_documented`).
* **`ListingsAreTrue`** (RdbCalls) `RdbSpec => []ListingsTrue`. The invariant `RdbInv` says how the
  program is laid out (`Built`) and what each line of the listings says after each pass. That a
  listing is true rests on four facts: `CallReaches`, decoding a call gives its target for every
  distance within reach, with the sign folded into two bits and out again; `PlacesApart`, no two
  procedures share an address, so that the binary is read at the right call (`CallAtIs`) and a
  target finds the procedure itself (`ProcDbIs`: those found are those with a name right above their
  code, which is not so for one that holds another one); `OwnerIs`, the lowest word of the data of a
  module belongs to that module and to no other one; and `CodeFits`, all code is within reach of a call,
  and so is the start-up code behind it. Lemma `Powers` has the powers of two from `TwoToThe`.

**The ELF file**

* **`FileIsSound`** (ElfFile) `FileSpec => []FileSound`, for binary files, listings, debug data and
  options of any number and kind. The invariant `FileInv` says what each table is at each step, as a
  function of the command line (`MadeSections`, `MadeSegments`, `MadePieces`, `MadeSymbols`), so that
  the rest is about the finished file. Three facts carry it. `TableOk`: in a table of strings each one
  begins where those before it end, so that reading at the offset of a string finds that one and no
  other (`StringFound`); adding a string keeps it (`StringAdded`), as strings count at least the NUL at
  their end. `PiecesApart` and `PieceFound`: the pieces of the file lie end to end, two that are
  not empty never at one offset, and each section is corrected to the offset and size of its
  piece (`SectionsDone`). And the section that a symbol gives by number is the one of the code, or of
  the data in memory, and the local symbols are those before the number in the header
  (`CodeSection`, `VarSection`, `EachEntry`). `CommandsAssumption` is what a command line must give, and the code does not check: no two
  sections have one name, and `.bss` is that of the data in memory (the code looks sections up
  by name); entries of listings lie in the first binary file, or in the data in memory; strings have
  lengths. The run evaluates it on all of its command lines.

**Only model-checked.** All liveness properties, as the provers know neither fairness nor `ENABLED`:
`MsgReturns`, `WaitersRun`, `EnabledRuns`, `ClaimSucceeds`, `CallsReturn`, `WaitersServed`,
`Terminated`. Of the host tools, everything but the six properties above: `ModulesDescribed`,
`StorageApart`, `ListingKept`, `SourceKept`, `CodeMeantIt`, `FormatKeeps`, `ConstTrue`. Most of them
say what an algorithm makes of every input, which takes induction over the input. The general induction rules take a predicate as a parameter,
which the provers cannot instantiate; a least counterexample does instead, for recursive functions over
numbers. It reaches `FlattenSeq`, but not the other folds and `SelectSeq` of the libraries, which
the provers do not unfold, nor the RECURSIVE operators of `ElfSource`, `ElfTypes`, `ElfEntries`, `ElfData`,
`ElfListing` and `GeneratedCode`, which they do not know at all.

## 6. Not modelled

* Register access and configuration (device drivers, clocks, resets, startup, security): no
  behaviour beyond the values written.
* Run-time error handling and stack traces: the program has stopped being correct by then.
* Formatting and parsing (`Texts`), examples, earlier versions of the library.
* Of the host tools: `check-elf` (compares the output of readelf with listings: a test of `make-elf`,
  whose questions are the properties of `ElfFile` and `ElfData`), `make-uf2`, `gen-bin-res`,
  `gen-pio-oberon` and `merge-defs` (one file in, one out), `gen-lib` and `build-clean` (copying and
  deleting files), `makesec0` (superseded by `gen-secure`), the loader, the terminal, the clock
  calculator, and the parsing of options and settings. In the tools that are modelled: bytes that
  carry no decision, texts of messages and reports, the reading of map and configuration files, and
  the rewriting of aliases in `gen-secure` (sections and signatures are known by the modules they name).
* The start of core 1, and code in RAM and resources: not modelled yet, see 7.
* Of modelled components: `Alarms.Disarm` (called by no module) and the choice among timers and alarms;
  `UARTkstr.PutString` (a loop on the flags of the transmit FIFO), and lines typed with pauses, which
  the receive timeout cuts; the diagnostics of pools and heaps; `LockHeaps` called by one
  core while the other allocates.
* Machine code: stack frames in `Coroutines`, EMITted instructions; modelled by their effect.
* The STM32 kernels under `mcu/stm/any` are twins of the two kernels, with other registers, and are
  described by the same modules; the RP2040 has kernel-v1 only.
* `NewMsgPool` links its first message to `mp.head` without setting it before; whether NEW clears
  records is not to be seen from this repository. `ListsV4` takes it that it does.

## 7. Plan

Done, in this order: kernel-v4 messages and their refinement and proofs; kernel-v1 scheduler and
signals; semaphores; UART drivers; memory with proofs; ticks and loop; SPI with proofs; the host tools;
alarms, semaphores with proofs and input of lines; conservation of messages and actors proved;
linked lists with proofs; proofs about kernel-v1, ticks and loop, alarms, text, the refinement of
`Mailboxes`, the test engines, the two generators, and the ELF file.

Next modules:

1. `NewMsgPool` on memory not cleared, and `KernelV4` on the lists of `ListsV4`, with its sequences as
   the abstract specification.
2. `Cores`: start of core 1 over the FIFOs, with an arbitrary start value of the FIFOs.
3. `Memory` for two cores with `LockHeaps`.
4. `MemoryExt`, `ProgData`, `BinRes`: table lookups as pure operators against reference definitions.

Next theorems, by importance: `SourceKept` and `CodeMeantIt`, after the recursion of `GeneratedCode`
has been written as functions.
