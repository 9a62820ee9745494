# Verification of the Betriebssysteme kernel

The repository is a small preemptive kernel for the Raspberry Pi 2 (one ARM
core): threads with a round-robin scheduler, six system calls, a UART driver
with interrupt-driven input, a system tick, and exception handlers that end a
faulting thread. This directory holds TLA+ models of it, the TLC runs that check
them on small instances, and TLAPS proofs for all instances.

## 1. Inventory

| component | state | operations | correct when |
|---|---|---|---|
| scheduler (`kernel/threading/scheduler.c`) | `scheduler_threads[]`, `running_thread`, `exception_frame`, `run_queue`, `sleep_queue`, `is_running` | create, terminate, sleep, wait, notify, tick, start | every live thread is in exactly one place; round robin; nobody starves; sleeps last as long as asked |
| threads, context switch (`thread.c`, `trampolines.S`, `registers.c`) | saved context, stack, banked registers | init, run, save, replace | a thread continues with its own registers |
| system calls (`kernel/syscalls.c`) | none of its own | exit, create_thread, getc, putc, sleep, kernel_exit, unknown | each call does its work for the caller and no other thread |
| exception handlers (`handlers.c`, `ivt.S`, `interrupts.c`) | the frame on the exception stack | IRQ, FIQ, SVC, undefined, two aborts | scheduler called only between scheduler functions; handlers return |
| UART driver (`arch/bsp/uart.c`) | `uart_ringbuffer`, `uart_wait_queue`, device registers | init, receive interrupt, getc, putc | no character duplicated, reordered or stranded; no lost wakeup |
| ring buffer (`lib/ringbuffer.h`) | `head`, `tail`, `buffer` | putc, getc, two peeks | bounded FIFO, across counter overflow |
| linked list (`lib/list.h`) | `next`, `prev` | add, remove, get at both ends, remove a given node | a queue in both directions |
| system tick (`kernel/systick.c`, `arch/bsp/system_timer.c`) | compare register, match bit | init, interrupt | the next match lies ahead; no drift |
| interrupt controller (`arch/bsp/interrupt_controller.c`) | enable and pending registers | enable, check_pending | each interrupt finds its cause; no device starves another |
| kernel start (`start.c`, `entry.S`, `stack.c`) | mode, stack pointers and interrupt mask of each core | boot on all cores | one core gets the stacks; no interrupt before it can be handled |
| user program (`user/main.c`, `trampolines.S`), stubs (`user/syscalls.c`) | `fn`, argument on the stack, `c`, `i` | main, worker_thread | a worker per character, which prints it as often as it should and ends |
| kprintf (`lib/kprintf.c`) | the position in the format, a buffer of 16 | two passes over the format, conversions | buffer never overrun; passes agree; numbers right |
| memory functions (`lib/mem.c`) | memory | memcmp, memcpy, memmove, memset | what the C standard says, overlap included |
| exception report (`exception_print.c`) | fault status and address registers | report, decoding of the status | the report is about this fault and this thread |
| ubsan, LED, self-tests | – | messages, LED, tests | – |

**How they interact.** The CPU enters the kernel through `ivt.S`, which pushes
r0-r12 and pc and passes the frame to a handler of `handlers.c`;
`scheduler_begin_exception` remembers the frame. A context switch copies the
frame into the thread structure and overwrites the frame with the next thread's
context; the return of the exception then continues another thread. The IRQ
handler first serves the UART (`uart_handle_irq`, which may make waiting threads
READY), then the timer (`systick_handle_irq`, which may switch). System calls
come from user mode. All kernel code runs with interrupts masked, so the
concurrency is between user threads (interleaved by the tick), and between the
kernel and its two devices, which go on at every moment.

**What is hard.** Orders of tick, sleep, wait, notify and termination over one
list node per thread; unlinking from a list while walking it; a character
arriving between any two register accesses of the receive handler; two paths for
a character (direct grant or ring buffer) whose value sits in a saved context or
in the live frame over several switches; counters that wrap; a tick that is
served late. `PROJECT.json` lists these hazards at their lines together with the
properties that would catch each of them.

## 2. Modules

| module | models | kind |
|---|---|---|
| `Scheduler` | `scheduler.c`, with what it uses of `thread.c` and `list.h` | component |
| `RoundRobin` | what the scheduler promises | abstract specification |
| `SleepClock` | `Scheduler` with the length of sleeps recorded | component + history |
| `MCScheduler` | the refinement mapping of `SleepClock` to `RoundRobin` | mapping, model-checking |
| `Kernel` | `start.c`, `handlers.c`, `syscalls.c`, `uart.c`, `systick.c` around `Scheduler` (EXTENDS it), with UART, timer and arbitrary user threads | composition |
| `MCKernel` | liveness of `Kernel` | model-checking |
| `UserProgram` | `user/main.c`, `_thread_entry` and the stubs on `Kernel` (EXTENDS it) | composition |
| `ContextSwitch`, `MCContextSwitch` | `ivt.S`, `trampolines.S`, `registers.c`, the register copies of `scheduler.c` and `thread.c`, the registers of the exception report | component |
| `InterruptController` | `interrupt_controller.c` with `uart_init`, `systick_init` and the tests of `handle_irq` | component |
| `Systick` | `systick.c`, `system_timer.c` and the timer | component |
| `Boot` | `entry.S` on all cores and the order of `start_kernel` | component |
| `RingBuffer` / `BoundedFifo` | `ringbuffer.h` / what it promises | component / abstract |
| `LinkedList` / `Queues` | `list.h` and the scan loop, with pointers / what they promise | component / abstract |
| `MCContainers` | `RingBuffer` and `LinkedList` side by side | model-checking |
| `FaultStatus` | `get_fsr_description` and its callers | component |
| `Memory` | `mem.c`, and its use in `thread_init` | component |
| `Kprintf` | `kprintf.c` | component |
| `MCFunctions` | `FaultStatus`, `Memory` and `Kprintf` side by side | model-checking |
| `DataLemmas` | queues, remainders, induction: the lemmas about data that the proofs share | proofs |
| `SchedulerProofs`, `SleepClockProofs` | theorems about `Scheduler`, the length of sleeps and round robin | proofs |
| `KernelProofs`, `UserProgramProofs` | theorems about `Kernel` and the program on it | proofs |
| `ContextSwitchProofs`, `ContainerProofs` | theorems about `ContextSwitch`; about `RingBuffer` and `LinkedList` | proofs |
| `MachineProofs` | theorems about `Systick`, `Boot`, `InterruptController`, `FaultStatus`, `Memory` and `Kprintf` | proofs |

`MachineProofs` extends six components at once, so each of them names its
specification by a letter of its own (`TSpec`, `BSpec`, `CSpec`, `FSpec`, `MSpec`,
`PSpec`); `ContainerProofs` extends two, hence `LSpec` of `LinkedList`.

### Scheduler

Each variable has the name of the C object it stands for. The lists are
sequences of threads (`LinkedList` justifies that); `wait_queue` is the one wait
queue of the system, `uart_wait_queue`. `context` and `exception_frame` keep only
r0, the register the kernel itself writes (notification and return values); the
other registers are copied alike. Every function is one step, except the tick,
which is the step `scheduler_tick_from_irq`, one step `scheduler_update_sleepers`
per round of the loop, and `scheduler_switch_from_tick`. `cur` is the position of
the loop: when the thread at `cur` is unlinked its successor moves to `cur`, which
is what `cur = cur->next` before the unlinking achieves. `Next` says who may call
what: traps come from user threads only (the idle thread executes `wfi`),
interrupts come in any thread but never inside the tick.

### Kernel

`kpc` says where the CPU is; the IRQ handler is cut at each access to a device
register (`uart_handle_irq`, `uart_clear_irq`, each round of `receive_loop`,
`systick_handle_irq`) since a character or a match may come in between. With
`lcrh.fen = 0` the UART holds one received character (`rx`); one that arrives
while it is full is lost in hardware. Reading the data register clears the
interrupt. Printing is the entry of `uart_putc` with what follows it in `after`:
one wait for the transmitter stands for the whole message. The message at boot is
left out (the transmitter is empty then). `sys_kernel_exit` executes a nested
`svc`, which `handle_svc` answers by printing and stopping: `stopped` is the
`while (1)` after it, so that the model has no deadlock of its own.
Characters are numbered in the order of arrival; `granted`, `read` and `lost`
record where each went and influence nothing. A thread that has called getc first
looks at r0 (`getc_returns`); between the return of the call and this look it can
be interrupted and switched arbitrarily often, and it can fault.

The bounded queue that `RingBuffer` implements stands for the ring buffer. The
pending bit of the interrupt controller is the device's own bit.

### ContextSwitch

The register file: one register `r` for r0 to r12 (pushed, copied and popped
alike), `pc`, the psr, and sp, lr and spsr per bank. The processor's exception
entry, with its link-register offsets, and user code are the environment; the
trampoline, the handlers and the return are steps of their own. Which thread is
next is left open (any that does not wait), as module `Scheduler` decides it.
`own` records what each thread left in its registers, plus the results the kernel
owes it (the value of getc). The mode's lr after a return, and the popped frame,
are dead and not kept. `print_exception_infos` is what the report of a fault
shows of the registers, read through `read_lr_mode` and its siblings from the
mode that handles the fault. Handlers for FIQ are left out: nothing in the repository
enables a FIQ source, and FIQ banks r8 to r12 too.

### RingBuffer, LinkedList, Systick

`RingBuffer` keeps the never-reduced counters modulo `Wrap` (2^32 in the code).
`LinkedList` keeps `next` and `prev` of heads and nodes, and unlinked nodes keep
their stale pointers. It adds only nodes that are in no list: that is the queue
discipline proved of `Scheduler`. What a list holds is read off by following
`next` from its head (`Walk`); `prev` is followed by the operations at the end, and
that both show the same list is what the refinement has to establish. `Systick` keeps the counter and the compare
register modulo `Wrap`; time passes between any two steps; the handler is at most
`MaxLatency` late. Only timer channel 1 is used by the code.

### UserProgram

`Kernel` lets user threads do any system call at any time; `UserProgram` replaces
that by the program in the repository, on the same kernel. A thread's code is cut
at its system calls and at its reads of what others write: `get_current_thread_fn`
runs in user mode with interrupts on, loads `running_thread`, and only then, maybe
after a switch, reads `fn` from that slot; the argument lies on the thread's own
stack, a copy of main's `c`. When the slots are used up `create_thread` fails
without a result and main goes on; the history `dropped` records the character.
One key stands for all that `worker_thread` treats alike.

### InterruptController

Registers are sets of bits. `interrupt_controller_check_pending` reads
`irq_pending_1` for numbers of 32 and more as well, as in the code. The only number
it is called with is the timer's, below 32, and the UART is asked itself, so nothing
depends on it. All five lines of `enum irq_id` may be raised at any time; the GPU clears
the match bits of its channels.

### Boot

Every core starts at `_start` in hypervisor or supervisor mode, with interrupts
masked or not (the firmware decides that). The comment in `entry.S` at the way out
of hypervisor mode names `_bsprak` as the target, the code goes to `_checkCores`;
the model follows the code, and the comment's version is the mutant that gives
several cores the same stacks. Changing the mode by `cps` does not work in
hypervisor mode, so a core that stays there never gets a stack.

### FaultStatus

The registers of data and prefetch aborts keep their values until the next abort
of the same kind. Texts are represented by their place in the table. The code
takes bit 9 for bit 4 of the status, where the architecture has bit 10; bit 9 is
always 0. The test of the table's bound lets 31, one past the end, through. The
two errors cancel out: a status above 15 is never seen, so 31 is never used
(`StatusNamed`; the mutant that reads bit 10 and keeps the test breaks it).

### Memory, Kprintf

`Memory` executes one round of a loop per step on a memory of bytes. A behaviour
is one call with arguments that the C standard gives a meaning. `thread_init` is
one of the calls: the copy of the argument to the top of the stack, with the stack
pointer lowered and rounded as in the code, for arguments of any size. Neither
`sys_create_thread` nor `scheduler_thread_create` nor `thread_init` compares the size
with `THREAD_STACK_SIZE`; a larger argument is copied to below the stack, where the
thread's list node is. `ArgumentOnOwnStack` says so: nothing above the stack is
written in any case, nothing below it if the argument is no larger than the stack,
and then only is the stack pointer in the stack. That callers keep this limit is
therefore a condition on them. The callers in the repository do: `main.c` passes one byte,
`start.c` none. For the stack pointer below the stack, where C no longer defines the
subtraction, the model has the address that the processor computes. Left out, as for
`memcpy` itself, are blocks outside memory (an argument so large that the stack pointer
would fall below address 0) and a source that overlaps the copy.

`Kprintf` goes through a format twice as the code does: `check_for_unknown_format`
accepts any number of digits in a width, `parse_width` takes two at most. `Formats`
are those with widths of at most two digits (after a zero flag) and 16: with three
digits the passes disagree and the message about an unknown conversion comes in
the middle of the text, with 17 the buffer is too small. Both bounds are tight;
the repository uses `%08x` and `%10s`. The words have 30 bits instead of 32 for
TLC's sake; the least int is among the arguments.

## 3. Runs

| run | module / cfg | bounds | checks |
|---|---|---|---|
| scheduler_safety | MCScheduler | 3 slots, sleeps 0..2, 2 words | `TypeOK`, `QueueDiscipline`, `NotifiedNotRunning`, `NeverOverslept`, `NeverWokenEarly`, `ImplementsRoundRobin` |
| kernel_safety | MCKernel | 3 slots, 3 characters, buffer of 2 | `KTypeOK`, `NoLostWakeup`, `RxNotStranded`, `GrantReachesThread`, `CharsConserved`, `NoOvertaking`, `ImplementsScheduler` |
| kernel_liveness | MCKernel / MCKernelLive | 3 slots, 2 characters, buffer of 1, sleeps of 1 | `KernelReturns`, `RxServed`, `KReadyRuns`, `SleeperWakes` |
| context_switch | MCContextSwitch | idle and 2 slots, 2 register files that differ everywhere | `ResumesExactly`, `BackInUserMode`, `ReportsFaultingThread` |
| user_program | UserProgram | 3 slots, 3 characters of 4 keys, buffer of 2, 2 prints | `OneWorkerPerChar`, `PrintsExactly` |
| user_program_liveness | UserProgram / UserProgramLive | 2 slots, 3 characters of 2 keys, 1 print | `InputIsRead`, `WorkersFinish` |
| interrupt_controller | InterruptController | the 4 match bits, 3 UART interrupts: complete | `EveryInterruptHasACause`, `TickServed` |
| systick | Systick | interval 5, counter mod 32, latency 5 | `NextMatchAhead`, `NoDrift` |
| boot | Boot | 4 cores: complete | `NoSharedStack`, `NoInterruptTooEarly`, `CoresSettle` |
| containers | MCContainers | ring buffer of 4 with counters mod 16; 2 lists, 3 nodes | `ImplementsFifo`, `ImplementsQueues` |
| functions | MCFunctions | status bits 0-3 and 10; 10 bytes, a stack of 4 from the third on, arguments of up to 5; formats of up to 5 characters | `ReportsThisFault`, `StatusNamed`, `MemFunctionsCorrect`, `ArgumentOnOwnStack`, `BufferHolds`, `AllOrNothing`, `NumbersReadBack` |
| fault_status_high | FaultStatus / FaultStatusHigh | status bits 0-3 and 10 | `HighStatusNamed`: **violated**, see Findings |

`MCContainers` and `MCFunctions` put components without common state side by side:
in a behaviour only one of them moves, so their state spaces add up and are not
multiplied.

**What they show.** `QueueDiscipline`: a thread's status tells exactly which list
holds it, once. `ImplementsRoundRobin`: the loop over the sleep queue, which
changes the list it walks, has the effect of ageing all sleepers at once, and
threads get the CPU in the order in which they became ready. `NeverWokenEarly`
and `NeverOverslept`: `sleep(n)` returns in the scan of tick n+1, that is after n
whole tick periods and the rest of the current one. `NoLostWakeup`: no thread
waits next to a stored character. `RxNotStranded`: acknowledging before draining
leaves no character without a pending interrupt. `GrantReachesThread`:
the value of getc arrives. `CharsConserved` and `NoOvertaking`:
each character is in one place, and goes out in the order of arrival although
there are two paths. `ImplementsScheduler`: the kernel uses the scheduler only as
`Scheduler` says. `ResumesExactly`: the pc adjustments of five exceptions, save
and replace cancel out in every combination, and no register of one thread shows
up in another. `BackInUserMode`: threads run unprivileged with interrupts enabled
and every handler leaves its stack as it found it. `ReportsFaultingThread`: the
report shows the faulting instruction, although the offsets differ by exception
and a wrong one would have no other effect, since the thread is ended.
`OneWorkerPerChar`: the argument is the character main had read, however late the
worker starts, and no slot's function or argument is taken for another's although
`get_current_thread_fn` is interruptible: its read goes to the slot of the thread
that executes it, which is not reused while it runs. `PrintsExactly`,
`InputIsRead`, `WorkersFinish`: workers print and end as they should, main reads
on. `EveryInterruptHasACause`: an interrupt that the controller passes on is always
one that the handlers find. `ImplementsQueues` and `ImplementsFifo`: lists and ring
buffer are the queues that `Scheduler` and `Kernel` use. `NextMatchAhead` depends on the assumption `MaxLatency <=
Interval`: with a handler later than that, `c1 += interval` leaves the compare
register behind the counter and ticks stop until the counter wraps (about 71
minutes). The bound is tight: with `MaxLatency = Interval + 1` and the assumption
lifted, TLC finds the violation.

**Why the bounds are enough.** Three threads give a running thread, one before
and one behind it on a queue, hence removal at the front, the middle and the end
of the sleep queue; also no thread (idle) and no free slot. Sleeps 0, 1, 2 give
sleepers that leave in the same scan, in successive scans, and stay. Three
characters with a buffer of two give a direct grant, a stored one, a full buffer,
and a character that the UART or the full buffer loses. The ring buffer's counters
wrap after four fillings, at every fill level. For the user program three slots
are main and two workers at different places of their code; a third character
finds no slot, or one that has been used before. Its liveness run has one worker
slot, in which each character's worker follows another's. Ten bytes hold blocks of
length 0 to 5 that are apart and all overlaps of longer ones, and leave two bytes
below and four above the stack of four, so that an argument of five, larger than the
stack, has its source and its copy in memory. A format of five characters is the shortest with
flag, two-digit width and conversion (`%016i`), and has room for two conversions
one after the other. The theorems below remove the
bounds for the safety properties they cover.

**Fairness.** Kernel code is straight-line and runs with interrupts masked, so its
steps are weakly fair (`start_kernel`, `IrqHandler`, `uart_putc`, `TickWork`). The
timer keeps matching (`TimerMatch`) and the transmitter sends what it holds (`Transmitted`). `handle_irq` is strongly fair:
a thread that makes system call after system call leaves user mode each time, but
the processor takes a pending interrupt when an exception returns to user mode
with the I bit clear. Nothing is assumed of user threads or of arriving
characters in `Kernel`. `UserProgram` assumes besides that each thread that is on
the CPU again and again executes its code (`SF` of `ThreadCode` per thread): ticks
come once per second, and the kernel returns to the thread it interrupted or
scheduled. `Boot` assumes that each core executes its instructions (`WF` per core),
`InterruptController` that the one CPU does (`WF` of `ArmCode`), with nothing
assumed of the devices. `kernel_exit` stops the system for good: the liveness properties of
`Kernel` say "or stopped". In its runs only `MaxChars` characters arrive: a line that
brought characters faster than `uart_handle_irq` takes them would keep the receive loop
from ending, so `KernelReturns` holds for input that pauses now and then.

Deadlock is checked in every run.

## 4. Proofs

All proofs are for every value of the constants that satisfies the named
assumptions of the modules: at least one slot, the idle thread is no slot, sleep
arguments are naturals, 0 and the characters are words; a ring buffer whose size
divides the range of its counters; a timer handler at most one interval late and a
counter longer than two intervals; cores 0 to 3; for `Kprintf` a word of at most 32
bits and the formats described above, of any length (widths of at most 16, in at most
two digits after a zero flag); for `Memory` blocks that lie in memory and, for `memcpy`,
do not overlap, with arguments of `thread_init` of any such size; for `LinkedList` finitely many
nodes, different from the heads and from the null pointer. Nothing else is bounded.

**Lemmas about data** (`DataLemmas`). Enqueuing, dequeuing and unlinking on a queue
without duplicates add or remove just that element; positions and ascending
order after each; remainders. For what a recursive function computes the proofs
use an induction whose predicate is a set: `SetInduction` says that a set of naturals
that contains 0 and with each number the next contains all, `LeastNat` that one
that is not empty has a least element, `HistoryExists` that for a step function there
is a function of the values after 0, 1, ... n steps. From the last follows that a
function defined by recursion satisfies its defining equation, which the provers do
not know.

**Scheduler** (`SchedulerProofs`: `TypeCorrect`, `QueuesCorrect`,
`NotifyNeverHangs`). The inductive invariant `IInv` is `Placed` (each thread's
status and place agree, no queue holds it twice, with the thread on the CPU as a
parameter), `Data` (types), `Started` (before the start there is no running
thread and nobody sleeps or waits) and the range of `cur`. `Placed` takes the
CPU's owner as an argument so that it can be applied *inside* a function: each
operation first puts the running thread away (`SleepLemma`, `WaitLemma`,
`EndLemma`, `RequeueLemma`, leaving the CPU to nobody) and then dispatches
(`DispatchLemma`), which is how the code is structured. `QueueDiscipline` alone
is not inductive: nothing in it ties the running thread to `is_running` or keeps
the scan in range.

**Sleeps** (`SleepClockProofs`: `NobodyOversleeps`, `NobodyWokenEarly`). The
invariant `SInv` adds a `Ledger`: for the sleeper at position j, elapsed ticks plus
`sleep_counter` are the ticks asked for, plus one while a tick is under way whose
scan has not reached j. The two properties only speak of sleepers at rest; the
ledger has to hold at every position in the middle of a scan, after an unlinking
too, which moves all later sleepers one position forward together with `cur`.

**Round robin** (`SleepClockProofs`: `SchedulerIsRoundRobin`). The abstract scheduler
ages all sleepers and wakes the due ones in one step; the code does so node by node
over a list that it unlinks from. The mapping counts the scan as done once it
begins: threads that the rest of the scan will wake (`StillWoken`, computed from
the end of the queue, since the scan leaves the end as it is) already are ready, and
the counters of those it has yet to age already are lower. The start of the scan then
is the abstract step and each round stutters. That a round stutters needs `IInv`: the
thread unlinked is the first of `StillWoken`, is in no other queue, and those behind it
keep their distance from the end, whatever position they move to. Outside a tick the
mapping is the identity on the queues.

**Kernel** (`KernelProofs`). `Mode` relates `kpc` to the scheduler (a scan is in
progress just while `kpc = "tick"`, the scheduler runs from "user" on).
`StepIsSchedulerStep` shows that every kernel step is a scheduler step or leaves
it alone, hence `KernelImplementsScheduler`, and `KernelQueuesCorrect` follows.
`KInv` adds types, `NoLostWakeup` and `RxNotStranded` (`KernelTypeCorrect`,
`NoWakeupIsLost`, `NoCharIsStranded`). For the value of getc the invariant
`GrantInv` says of each thread in getc that it either waits without a character
or is runnable with the character in r0, wherever r0 is at the moment
(`GetcDelivers`). `InputInv` accounts for every character that has arrived: it is
in the receive register, the ring buffer, a thread, read or lost, in exactly one of
them, and what is further along arrived earlier (`NoCharIsDuplicated`,
`NoCharOvertakes`). It needs `GrantInv`, or a thread that looks at r0 could find
something else than what it was granted, and `NoLostWakeup`, or a character could
overtake a stored one on the direct way.

**User program** (`UserProgramProofs`: `ProgramUsesKernel`, `EachCharOneWorker`,
`EachPrintCounts`). `ProgramUsesKernel` proves `USpec => KSpec`, so the theorems
about the kernel hold of the program in the repository. `UInv` says where each live
thread is in its code and how often it has printed by then (`Code`), that there is
one main (`OneMain`), that no two workers share a character (`OneEach`), that what
was read is with main, with a worker, done or dropped (`Served`), and that no
thread has run while `start_kernel` does (`Booting`). It rests on the kernel at
three points: `InputInv` for "main gets no character twice", `GrantInv` for "a
thread that looks at r0 finds a character there, and a free slot's last thread is
in no getc", and `IInv` for "the slot that `get_current_thread_fn` reads is that of
the thread that executes it". A step of one thread leaves the others where they
are (`OthersKeep`), because counts are per character and characters are not shared.

**Context switch** (`ContextSwitchProofs`: `ThreadsResumeExactly`,
`AlwaysBackInUserMode`, `FaultsReported`). `CInv` gives for each of the five places
of the CPU what the registers, the banked stack pointers and the frame hold, as a
function of what the running thread left behind (`own`), and `Suspended` what the
thread structure of every other live thread holds. The link register's offset
per exception cancels against the subtraction in `ivt.S` modulo the address range.

**Ring buffer** (`ContainerProofs`: `RingBufferIsFifo`). A refinement: every step
of `RingBuffer` is one of `BoundedFifo` under the mapping that reads `buffer` from
`tail` to `head`. `RInv` is needed because only remainders are compared: the
counters are never further apart than the size, so a full buffer is not taken for
one that has overtaken itself, also when the counters have wrapped.

**Linked list** (`ContainerProofs`: `ListsKeepTheirForm`, `ListsImplementQueues`). A
refinement to `Queues` under the mapping that walks along `next`. `Forms` relates the
pointers to a sequence per head: `next` leads from each cell to the one at the next
position, `prev` from each to the one before, positions 0 and Len + 1 being the head;
no node occurs twice. `WalkIs` shows that a walk over such pointers returns the
sequence (the positions at which it agrees are all, by `SetInduction`, and it is back
at the head for the first time at Len + 1; that it has enough steps for that is
`ListFits`: there are at most as many positions as nodes). `AddForms` and
`RemoveForms` show what the assignments of `list_add_` and `list_remove_` do to the
form at an arbitrary position, the empty list and the ends included, where several of
the cells they write to are the same head; each function is then one of these at a
particular position. The invariant `LInv` adds that `cur` is on a cell of the list the
loop walks. In a round that moves a node (`MoveStep`), the cell `cur` was advanced to
before the unlinking is at the position of the unlinked node afterwards, which is why
the loop neither misses a node nor visits one twice.

**Machine** (`MachineProofs`).
* `NextMatchIsAhead`, `TicksDoNotDrift`: `TickInv` fixes the distance of the compare
  register by the phase, separately for a match that is served, pending or late.
  The proof showed that the former assumption on the counter's range was stronger
  than needed and that the distance is at most two intervals, not less.
* `StacksOfOneCore`, `InterruptsWait`: `BootInv` says that cores other than 0 stay in
  the parking loop or before it, and which mode, mask, vector table and stacks core
  0 has at each place. The test of `entry.S` looks at two bits of the core number,
  so it parks every core but 0 only where there are no more than four.
* `InterruptsAreServed`: `IrqInv` ties the enable registers to the progress of the
  initialisation, and the cause of an interrupt to the handler's position.
* `FaultsNotMixedUp`, `StatusesNamed`: `FaultInv`; the registers of the abort being
  handled are those the processor has just written.
* `MemFunctionsAreCorrect`, `ArgumentsOnOwnStacks`: `MemInv` is the loop invariant, the
  bytes already written (from below or above, as the direction of `memmove` decides)
  and the untouched rest, from which overlapping moves read the old contents. That an
  argument stays on its stack exactly up to the stack's size, in spite of the rounding,
  is `RoundDown`: the base of the stack is itself a multiple of the alignment.

* `KprintfPrintsAllOrNothing`: the two passes parse conversions differently, so
  `KprintfInv` carries over from the check to the printing a set of positions: those
  the check has stood at, closed under its way of going on and without an unknown
  conversion (`Visited`). The printing pass stays in that set, because the widths of
  the supported formats (two digits, or three after a zero flag) end where
  `parse_width` stops.
* `KprintfKeepsToItsBuffer`: a width is at most 16, by what the format may spell, and
  a number has at most as many digits as its base needs for 32 bits; sign and
  padding go into the same 16 bytes.
* `KprintfNumbersReadBack`: what the loop of divisions leaves in the buffer, from the
  last digit to the first, read from the front as a numeral is the number it has
  been given, also for the least int, whose magnitude is no int.

TLC also finds `SInv`, `KInv`, `GrantInv`, `InputInv`, `PInv`, `CInv` and `RInv`
invariant on the bounds of the runs (with the proof module in place of the run's
module).

**Only model-checked.** The liveness properties: `KernelReturns`, `RxServed`,
`KReadyRuns`, `SleeperWakes`, `InputIsRead`, `WorkersFinish`, `TickServed` and
`CoresSettle`. Fairness and `ENABLED` are out of the prover's reach. Every safety
property and every refinement that a run checks is also proved. Proofs about two
components that a run puts side by side (`MCContainers`, `MCFunctions`) are about
each of them by itself.

## 5. Findings

* `exception_print.c:142` (run fault_status_high). `get_fsr_description` computes
  bit 4 of the fault status from `1 << (fsr_status_4_index - 1)`, bit 9, although
  the constant says 10 and the table has entries from `[0b10000]` on. With bit 10
  set the report names an entry of the lower half: status `0b10110`, an external
  abort, is reported as an access flag fault. `StatusNamed` shows that statuses
  below 16 are reported correctly and that others at least get a text. Reading bit 10 without correcting the test
  `fsr_status > table size` in line 145 would make index 31, behind the table,
  reachable.

## 6. Mutants

Each property has a mutated form of one modelled function under which its run
fails (definitions marked "Mutant" in the modules, listed in `PROJECT.json`): for
example the idle thread queued like any other, the loop that advances after
unlinking, the acknowledgement after the drain, the counter test without
wrap-around, the compare register set from the current time, a worker that is
given a pointer to main's variable, a second core that takes the path to the
stacks, `memmove` in one direction only.

## 7. Not modelled

* `lib/ubsan.c`: called only by instrumentation the compiler inserts in sanitizer
  builds; each function prints one message and halts.
* LED and GPIO (register writes nothing depends on; `gpio.c` is empty) and the
  self-tests under `tests/`.
* The contents of stacks beyond a thread's argument, and the compiler's register
  assignment in the system call stubs.
* FIQ in `ContextSwitch` (no source is ever enabled; `Kernel` and `FaultStatus`
  have its handler).
* Layout and wording of the exception report.
* The report of every interrupt in `handle_irq`, under `irq_debug`, which is false and
  never assigned.
* Formats of `kprintf` with widths above 16 or of three digits: see above. No call in
  the repository has one.
* Interleavings inside a system call that touches no device. `sys_getc` is one step: the
  processor masks interrupts when it takes an exception and the handlers do not unmask
  them, so nothing comes between the test of the ring buffer and the wait.
* Functions that nothing calls: `interrupt_controller_disable_irq`, `uart_getc`,
  `uart_disable_irq`, `systick_postpone`, `system_timer_get_counter`.

## 8. State of the work

All components that carry state are modelled, with the functions they use, and so is
the user program on the kernel. Every safety property of the runs is a theorem. What
would come next:

1. Liveness, when the proof system handles fairness; until then the bounds of the
   liveness runs are what is known.
2. `Scheduler` on lists of pointers: `ListsImplementQueues` and `QueuesCorrect` show
   separately that the lists are queues and that the scheduler only adds nodes that
   are in no list; a composition would make one theorem of the two.
3. FIQ in `ContextSwitch`, as soon as the code enables a source of it.
