--------------------------- MODULE ContextSwitch ---------------------------
(***************************************************************************)
(* The registers across exceptions and context switches: ivt.S,            *)
(* trampolines.S, arch/cpu/registers.c and what scheduler.c and thread.c   *)
(* do with them.                                                           *)
(*                                                                         *)
(* Which thread is next is the business of module Scheduler: here any      *)
(* thread that does not wait may be next, a sleeping one at any time.      *)
(* r0 to r12 are pushed, copied and popped alike, so one register r stands *)
(* for them.  sp and lr are banked per mode, spsr exists per exception     *)
(* mode.  Addresses are numbers modulo Word.                               *)
(*                                                                         *)
(* `own' records what each thread left in its registers, with the results  *)
(* the kernel owes it.  It influences nothing.                             *)
(***************************************************************************)
EXTENDS Naturals

CONSTANTS
    UserThreads,      \* slots
    idle_thread,
    thread_entry,     \* address of _thread_entry
    StackTop(_),      \* end of a thread's stack, 8-aligned
    ArgSizes,         \* sizes of the argument of a new thread
    Results,          \* what getc returns
    UserRegs,         \* what user code leaves in its registers; in sp, how
                      \* far it has pushed on its stack
    KernelValue,      \* what kernel code leaves in r and lr
    KernelTop,        \* end of the stack of every exception mode
    Word              \* 2 to the width of a register

Threads == UserThreads \cup {idle_thread}

Plus(x, n) == (x + n) % Word

Minus(x, n) == (x + Word - n) % Word

ASSUME AddressAssumption ==
    /\ idle_thread \notin UserThreads
    /\ Word \in Nat \ {0}
    /\ Results \cup {thread_entry, KernelValue, KernelTop} \subseteq 0 .. Word - 1
    /\ UserRegs \subseteq [r : 0 .. Word - 1, pc : 0 .. Word - 1,
                          lr : 0 .. Word - 1, sp : 0 .. Word - 1, flags : {0, 1}]
    /\ ArgSizes \subseteq 0 .. Word - 1
    /\ \A t \in Threads : StackTop(t) \in 0 .. Word - 1 /\ StackTop(t) % 8 = 0

VARIABLES
    r, pc, cpsr,        \* of the CPU
    sp, lr, spsr,       \* banked
    exception_frame,    \* what the trampoline has pushed: r and pc
    context,            \* of each thread
    running_thread,
    live, waiting,      \* sets of threads
    trap,               \* the exception being handled
    kpc,                \* "boot", "user", "entry", "handler", "return"
    own

cpu == <<r, pc, cpsr, sp, lr, spsr>>
sched == <<running_thread, live, waiting>>
vars == <<cpu, exception_frame, context, sched, trap, kpc, own>>

ExceptionModes == {"SVC", "IRQ", "ABT", "UND"}

Kinds == {"svc", "irq", "undef", "prefetch_abort", "data_abort"}

mode_of(kind) == CASE kind = "svc" -> "SVC"
                   [] kind = "irq" -> "IRQ"
                   [] kind = "undef" -> "UND"
                   [] OTHER -> "ABT"

(***************************************************************************)
(* A psr: the mode, the interrupt mask, and the condition flags as one     *)
(* value.                                                                  *)
(***************************************************************************)
Psr(mode, i, flags) == [mode |-> mode, i |-> i, flags |-> flags]

UserPsr(flags) == Psr("USR", FALSE, flags)

-----------------------------------------------------------------------------
(***************************************************************************)
(* registers.c.  An access to a register of the current bank is an         *)
(* ordinary one, any other goes to the named bank.                         *)
(***************************************************************************)
bank(mode) == IF mode = "SYS" THEN "USR" ELSE mode

share_register_bank(mode1, mode2) ==
    mode1 = mode2 \/ (mode1 \in {"USR", "SYS"} /\ mode2 \in {"USR", "SYS"})

accessed(mode) ==
    IF share_register_bank(cpsr.mode, mode) THEN bank(cpsr.mode) ELSE bank(mode)

read_lr_mode(mode) == lr[accessed(mode)]

read_sp_mode(mode) == sp[accessed(mode)]

write_lr_mode(mode, x) == lr' = [lr EXCEPT ![accessed(mode)] = x]

write_sp_mode(mode, x) == sp' = [sp EXCEPT ![accessed(mode)] = x]

read_spsr == spsr[cpsr.mode]

read_spsr_mode(mode) == IF cpsr.mode = mode THEN read_spsr ELSE spsr[mode]

write_spsr(psr) == spsr' = [spsr EXCEPT ![cpsr.mode] = psr]

-----------------------------------------------------------------------------
(* Mutant: a new thread keeps the interrupts masked. *)
init_masked(t, arg_size) ==
    [r |-> 0, pc |-> thread_entry, lr |-> 0,
     sp |-> LET x == Minus(StackTop(t), arg_size) IN x - (x % 8),
     cpsr |-> Psr("USR", TRUE, 0)]

(***************************************************************************)
(* thread_init on a zeroed context: an 8-aligned stack pointer below the   *)
(* argument, user mode with interrupts enabled, and the entry point.       *)
(***************************************************************************)
thread_init(t, arg_size) ==
    [r |-> 0, pc |-> thread_entry, lr |-> 0,
     sp |-> LET x == Minus(StackTop(t), arg_size) IN x - (x % 8),
     cpsr |-> UserPsr(0)]

(* The registers a thread sees. *)
View(x) == [r |-> x.r, pc |-> x.pc, lr |-> x.lr, sp |-> x.sp,
            flags |-> x.cpsr.flags]

NoFrame == [r |-> 0, pc |-> 0]

(***************************************************************************)
(* In supervisor mode, before the first thread.  The contexts of slots     *)
(* that are not live and running_thread are not used before they are set.  *)
(***************************************************************************)
Init ==
    /\ r = KernelValue /\ pc = KernelValue
    /\ cpsr = Psr("SVC", TRUE, 0)
    /\ sp = [m \in ExceptionModes \cup {"USR"} |-> KernelTop]
    /\ lr = [m \in ExceptionModes \cup {"USR"} |-> KernelValue]
    /\ spsr = [m \in ExceptionModes |-> Psr("SVC", TRUE, 0)]
    /\ exception_frame = NoFrame
    /\ context = [t \in Threads |-> thread_init(t, 0)]
    /\ running_thread = idle_thread
    /\ live = {idle_thread} /\ waiting = {}
    /\ trap = "none" /\ kpc = "boot"
    /\ own = [t \in Threads |-> View(thread_init(t, 0))]

scheduler_thread_create ==
    /\ \/ \E t \in UserThreads \ live, arg_size \in ArgSizes :
            /\ live' = live \cup {t}
            /\ context' = [context EXCEPT ![t] = thread_init(t, arg_size)]
            /\ own' = [own EXCEPT ![t] = View(thread_init(t, arg_size))]
       \/ UserThreads \subseteq live /\ UNCHANGED <<live, context, own>>
    /\ UNCHANGED <<cpu, exception_frame, running_thread, waiting, trap>>

(***************************************************************************)
(* scheduler_start and thread_run, in supervisor mode: the first thread is *)
(* entered without a frame.  Then _thread_run_trampoline.                  *)
(***************************************************************************)
thread_run(t) ==
    /\ write_sp_mode(context[t].cpsr.mode, context[t].sp)
    /\ write_lr_mode(context[t].cpsr.mode, context[t].lr)
    /\ write_spsr(context[t].cpsr)
    /\ r' = context[t].r
    /\ pc' = context[t].pc
    /\ cpsr' = context[t].cpsr

start_kernel ==
    /\ kpc = "boot"
    /\ \/ live = {idle_thread} /\ scheduler_thread_create /\ UNCHANGED kpc
       \/ \E t \in live \ {idle_thread} :
            /\ thread_run(t)
            /\ running_thread' = t
            /\ kpc' = "user"
            /\ UNCHANGED <<exception_frame, context, live, waiting, trap, own>>

-----------------------------------------------------------------------------
(***************************************************************************)
(* User code changes its registers as it likes and pushes on its own       *)
(* stack.  The idle thread only waits for interrupts.                      *)
(***************************************************************************)
UserCode ==
    /\ kpc = "user"
    /\ running_thread # idle_thread
    /\ \E x \in UserRegs :
         LET regs == [x EXCEPT !.sp = Minus(StackTop(running_thread), x.sp)] IN
         /\ r' = regs.r
         /\ pc' = regs.pc
         /\ cpsr' = [cpsr EXCEPT !.flags = regs.flags]
         /\ lr' = [lr EXCEPT !["USR"] = regs.lr]
         /\ sp' = [sp EXCEPT !["USR"] = regs.sp]
         /\ own' = [own EXCEPT ![running_thread] = regs]
    /\ UNCHANGED <<spsr, exception_frame, context, sched, trap, kpc>>

(***************************************************************************)
(* The processor takes an exception.  The link register is the address of  *)
(* the instruction plus 4, plus 8 for a data abort; for an interrupt the   *)
(* instruction is the next one, which has not been executed.  Code is      *)
(* where user programs may have a system call.                             *)
(***************************************************************************)
Code == {x.pc : x \in UserRegs}

link(kind) == IF kind = "data_abort" THEN 8 ELSE 4

TakeException(kind) ==
    /\ kpc = "user"
    /\ kind = "irq" => ~cpsr.i
    /\ kind # "irq" => running_thread # idle_thread
    /\ kind = "svc" => pc \in Code
    /\ spsr' = [spsr EXCEPT ![mode_of(kind)] = cpsr]
    /\ lr' = [lr EXCEPT ![mode_of(kind)] = Plus(pc, link(kind))]
    /\ cpsr' = Psr(mode_of(kind), TRUE, cpsr.flags)
    /\ trap' = kind
    /\ kpc' = "entry"
    /\ own' = IF kind = "svc"
              THEN [own EXCEPT ![running_thread].pc = Plus(@, 4)] ELSE own
    /\ UNCHANGED <<r, pc, sp, exception_frame, context, sched>>

(* Mutant: the interrupt handler's offset is that of the other exceptions. *)
offset_always_4(kind) == IF kind = "data_abort" THEN 8 ELSE 4

(* Mutant: all faults have the same offset. *)
offset_of_faults_4(kind) == IF kind = "irq" THEN 8 ELSE 4

(***************************************************************************)
(* exception_trampoline: the frame is pushed, with the address of the last *)
(* executed instruction, and the handler called, whose code then uses r    *)
(* and lr for itself.                                                      *)
(***************************************************************************)
offset(kind) == IF kind \in {"irq", "data_abort"} THEN 8 ELSE 4

frame_size == 56

exception_trampoline ==
    /\ kpc = "entry"
    /\ exception_frame' = [r |-> r, pc |-> Minus(lr[cpsr.mode], offset(trap))]
    /\ sp' = [sp EXCEPT ![cpsr.mode] = Minus(@, frame_size)]
    /\ lr' = [lr EXCEPT ![cpsr.mode] = KernelValue]
    /\ r' = KernelValue
    /\ kpc' = "handler"
    /\ UNCHANGED <<pc, cpsr, spsr, context, sched, trap, own>>

(***************************************************************************)
(* Its second half: the frame is popped and movs restores the psr.  What   *)
(* stays in the mode's lr and on its stack is overwritten before any use.  *)
(***************************************************************************)
exception_return ==
    /\ kpc = "return"
    /\ r' = exception_frame.r
    /\ pc' = Plus(exception_frame.pc, 4)
    /\ sp' = [sp EXCEPT ![cpsr.mode] = Plus(@, frame_size)]
    /\ cpsr' = spsr[cpsr.mode]
    /\ exception_frame' = NoFrame
    /\ trap' = "none"
    /\ kpc' = "user"
    /\ UNCHANGED <<lr, spsr, context, sched, own>>

-----------------------------------------------------------------------------
scheduler_save_thread_context ==
    LET mode == read_spsr.mode IN
    [context EXCEPT ![running_thread] =
        [r |-> exception_frame.r, pc |-> Plus(exception_frame.pc, 4),
         lr |-> read_lr_mode(mode), sp |-> read_sp_mode(mode),
         cpsr |-> read_spsr]]

(* scheduler_run_next, with the contexts ctx its caller has left *)
scheduler_replace_irq_context(ctx) ==
    /\ exception_frame' = [r |-> ctx.r, pc |-> Minus(ctx.pc, 4)]
    /\ write_lr_mode(ctx.cpsr.mode, ctx.lr)
    /\ write_sp_mode(ctx.cpsr.mode, ctx.sp)
    /\ write_spsr(ctx.cpsr)

scheduler_run_next(next, ctx) ==
    /\ context' = ctx
    /\ running_thread' = next
    /\ scheduler_replace_irq_context(ctx[next])
    /\ kpc' = "return"
    /\ UNCHANGED <<r, pc, cpsr, trap>>

Switches == \E next \in live \ (waiting \cup {running_thread}) :
                scheduler_run_next(next, scheduler_save_thread_context)

Stays == kpc' = "return" /\ UNCHANGED <<cpu, exception_frame, context, sched, trap>>

(***************************************************************************)
(* What print_exception_infos shows, before a handler of a fault           *)
(* terminates the thread.  It changes nothing.                             *)
(***************************************************************************)
print_exception_infos ==
    [address |-> exception_frame.pc,
     r |-> exception_frame.r,
     lr |-> [m \in ExceptionModes \cup {"USR"} |-> read_lr_mode(m)],
     sp |-> [m \in ExceptionModes \cup {"USR"} |-> read_sp_mode(m)],
     spsr |-> [m \in ExceptionModes |-> read_spsr_mode(m)]]

(* The receive loop notifies a waiting thread, the tick switches or not. *)
scheduler_notify_one_from_irq ==
    /\ kpc = "handler" /\ trap = "irq"
    /\ \E t \in waiting, value \in Results :
         /\ waiting' = waiting \ {t}
         /\ context' = [context EXCEPT ![t].r = value]
         /\ own' = [own EXCEPT ![t].r = value]
    /\ UNCHANGED <<cpu, exception_frame, running_thread, live, trap, kpc>>

scheduler_tick_from_irq ==
    /\ kpc = "handler" /\ trap = "irq"
    /\ (Switches /\ UNCHANGED <<live, waiting>>) \/ Stays
    /\ UNCHANGED own

scheduler_thread_terminate_running_from_irq ==
    /\ kpc = "handler" /\ trap # "irq"
    /\ \E next \in live \ (waiting \cup {running_thread}) :
            scheduler_run_next(next, context)
    /\ live' = live \ {running_thread}
    /\ UNCHANGED <<waiting, own>>

InSvc == kpc = "handler" /\ trap = "svc"

sys_create_thread == InSvc /\ scheduler_thread_create /\ kpc' = "return"

sys_sleep == InSvc /\ Switches /\ UNCHANGED <<live, waiting, own>>

sys_putc == InSvc /\ Stays /\ UNCHANGED own

(* getc waits, or returns a stored character in r0. *)
uart_user_getc ==
    /\ InSvc
    /\ \/ /\ Switches
          /\ waiting' = waiting \cup {running_thread}
          /\ UNCHANGED <<live, own>>
       \/ \E value \in Results :
            /\ exception_frame' = [exception_frame EXCEPT !.r = value]
            /\ own' = [own EXCEPT ![running_thread].r = value]
            /\ kpc' = "return"
            /\ UNCHANGED <<cpu, context, sched, trap>>

Handler ==
    \/ scheduler_notify_one_from_irq
    \/ scheduler_tick_from_irq
    \/ scheduler_thread_terminate_running_from_irq
    \/ sys_create_thread \/ sys_sleep \/ sys_putc \/ uart_user_getc

Next ==
    \/ start_kernel
    \/ UserCode
    \/ \E kind \in Kinds : TakeException(kind)
    \/ exception_trampoline
    \/ Handler
    \/ exception_return

Spec == Init /\ [][Next]_vars

-----------------------------------------------------------------------------
(***************************************************************************)
(* A thread continues exactly where it was, with the registers it had and  *)
(* the results the kernel owes it: interrupts, calls, faults of others and *)
(* switches through any of the exception modes, whose offsets differ, lose *)
(* or mix up nothing.  This is what tests/regcheck.c samples.              *)
(***************************************************************************)
ResumesExactly ==
    kpc = "user" =>
        [r |-> r, pc |-> pc, lr |-> lr["USR"], sp |-> sp["USR"],
         flags |-> cpsr.flags] = own[running_thread]

(***************************************************************************)
(* Threads always run in user mode with interrupts enabled, and the stacks *)
(* of the exception modes are empty then: a switch inside a handler leaves *)
(* through the frame the handler was entered with.                         *)
(***************************************************************************)
BackInUserMode ==
    kpc = "user" =>
        /\ cpsr.mode = "USR" /\ ~cpsr.i
        /\ \A m \in ExceptionModes : sp[m] = KernelTop

(***************************************************************************)
(* The report of a fault shows the thread as it was: the address of the    *)
(* instruction that faulted, from which the processor's link register and  *)
(* the trampoline's offset differ by kind, its registers, and its psr in   *)
(* the row of the mode that handles the fault.                             *)
(***************************************************************************)
ReportsFaultingThread ==
    kpc = "handler" /\ trap \in {"undef", "prefetch_abort", "data_abort"} =>
        LET shown == print_exception_infos
            thread == own[running_thread] IN
        /\ shown.address = thread.pc
        /\ shown.r = thread.r
        /\ shown.lr["USR"] = thread.lr /\ shown.sp["USR"] = thread.sp
        /\ shown.spsr[mode_of(trap)] = UserPsr(thread.flags)
=============================================================================
