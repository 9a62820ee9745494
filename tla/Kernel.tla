------------------------------- MODULE Kernel -------------------------------
(***************************************************************************)
(* The kernel around the scheduler: start_kernel, the exception handlers   *)
(* of handlers.c, the system calls of syscalls.c, the UART driver and the  *)
(* timer interrupt, with the UART, the timer and the user threads as their *)
(* environment.                                                            *)
(*                                                                         *)
(* `kpc' tells where the CPU is.  Exceptions are taken in "user" only: the *)
(* kernel runs with interrupts masked, but the devices go on between any   *)
(* two of its steps, which is why the interrupt handler is split at each   *)
(* access to a device register.                                            *)
(*                                                                         *)
(* Characters are numbered in the order in which they arrive; 0 is "no     *)
(* character".  `granted', `read' and `lost' are history variables: what   *)
(* getc has handed to a thread that has not looked at it yet, what threads *)
(* have looked at, and what no thread will see.                            *)
(***************************************************************************)
EXTENDS Scheduler

CONSTANTS
    MaxChars,   \* bound on the characters that arrive
    BufSize     \* UART_INPUT_BUFFER_SIZE

Chars == 1 .. MaxChars

ASSUME KernelAssumption ==
    MaxChars \in Nat /\ BufSize \in Nat \ {0} /\ Chars \subseteq Words

VARIABLES
    kpc,              \* where the CPU is
    after,            \* what follows the message uart_putc is printing
    imsc,             \* UART: receive interrupt enabled
    ris,              \* UART: receive interrupt raised
    rx,               \* UART: receive register, 0 when fr.rxfe is set
    txff,             \* UART: transmit register full
    m1,               \* timer: match bit of the systick channel
    uart_ringbuffer,
    in_getc,          \* threads that have called getc and not looked at r0
    arrived,          \* number of characters that have arrived
    granted,
    read,
    lost

cpu == <<kpc, after>>
uart == <<imsc, ris, rx, txff>>
history == <<arrived, granted, read, lost>>

kvars == <<vars, cpu, uart, m1, uart_ringbuffer, in_getc, history>>

KInit ==
    /\ Init
    /\ kpc = "init" /\ after = "return"
    /\ imsc = FALSE /\ ris = FALSE /\ rx = 0 /\ txff = FALSE /\ m1 = FALSE
    /\ uart_ringbuffer = <<>>
    /\ in_getc = {}
    /\ arrived = 0
    /\ granted = [t \in Threads |-> 0]
    /\ read = {}
    /\ lost = {}

-----------------------------------------------------------------------------
(***************************************************************************)
(* The devices.  With lcrh.fen = 0 the UART holds one received character;  *)
(* one that arrives while it is full is lost.                              *)
(***************************************************************************)
Receive ==
    /\ arrived < MaxChars
    /\ arrived' = arrived + 1
    /\ \/ rx = 0 /\ rx' = arrived + 1 /\ ris' = TRUE /\ UNCHANGED lost
       \/ rx # 0 /\ lost' = lost \cup {arrived + 1} /\ UNCHANGED <<rx, ris>>
    /\ UNCHANGED <<vars, cpu, imsc, txff, m1, uart_ringbuffer, in_getc,
                   granted, read>>

Transmitted ==
    /\ txff
    /\ txff' = FALSE
    /\ UNCHANGED <<vars, cpu, imsc, ris, rx, m1, uart_ringbuffer, in_getc,
                   history>>

TimerMatch ==
    /\ ~m1
    /\ m1' = TRUE
    /\ UNCHANGED <<vars, cpu, uart, uart_ringbuffer, in_getc, history>>

-----------------------------------------------------------------------------
(***************************************************************************)
(* start_kernel: uart_init and systick_init, the thread of main, and       *)
(* scheduler_start, which enters user mode and so unmasks interrupts.      *)
(***************************************************************************)
uart_init == kpc = "init" /\ imsc' = TRUE

start_kernel ==
    /\ \/ uart_init /\ kpc' = "boot" /\ UNCHANGED vars
       \/ kpc = "boot" /\ BootCreate /\ UNCHANGED <<kpc, imsc>>
       \/ kpc = "boot" /\ BootStart /\ kpc' = "user" /\ UNCHANGED imsc
    /\ UNCHANGED <<after, ris, rx, txff, m1, uart_ringbuffer, in_getc, history>>

(* Mutant: the tick runs with interrupts enabled. *)
handle_irq_nested ==
    /\ kpc \in {"user", "tick"}
    /\ ris \/ m1
    /\ kpc' = "uart"
    /\ UNCHANGED <<vars, after, uart, m1, uart_ringbuffer, in_getc, history>>

(***************************************************************************)
(* A pending interrupt is taken in user mode, whatever thread runs.        *)
(***************************************************************************)
uart_check_irq == ris /\ imsc

handle_irq ==
    /\ kpc = "user"
    /\ uart_check_irq \/ m1
    /\ kpc' = "uart"
    /\ UNCHANGED <<vars, after, uart, m1, uart_ringbuffer, in_getc, history>>

uart_handle_irq ==
    /\ kpc = "uart"
    /\ kpc' = IF uart_check_irq THEN "clear" ELSE "systick"
    /\ UNCHANGED <<vars, after, uart, m1, uart_ringbuffer, in_getc, history>>

uart_clear_irq ==
    /\ kpc = "clear"
    /\ ris' = FALSE
    /\ kpc' = "drain"
    /\ UNCHANGED <<vars, after, imsc, rx, txff, m1, uart_ringbuffer, in_getc,
                   history>>

(***************************************************************************)
(* What the receive loop does with c: a waiting thread gets it, else the   *)
(* ring buffer, which refuses it when it is full.                          *)
(***************************************************************************)
grant_to_waiter(c) ==
    /\ scheduler_notify_one_from_irq(c)
    /\ granted' = [granted EXCEPT ![Head(wait_queue)] = c]
    /\ UNCHANGED <<uart_ringbuffer, lost>>

(* Mutants: the buffer is never full; it takes what a waiter should get. *)
buff_putc_unbounded(c) ==
    /\ wait_queue = <<>>
    /\ uart_ringbuffer' = Append(uart_ringbuffer, c)
    /\ UNCHANGED <<vars, granted, lost>>

buff_putc_first(c) ==
    /\ Len(uart_ringbuffer) < BufSize
    /\ uart_ringbuffer' = Append(uart_ringbuffer, c)
    /\ UNCHANGED <<vars, granted, lost>>

buff_putc(c) ==
    /\ wait_queue = <<>>
    /\ \/ /\ Len(uart_ringbuffer) < BufSize
          /\ uart_ringbuffer' = Append(uart_ringbuffer, c)
          /\ UNCHANGED lost
       \/ /\ Len(uart_ringbuffer) = BufSize
          /\ lost' = lost \cup {c}
          /\ UNCHANGED uart_ringbuffer
    /\ UNCHANGED <<vars, granted>>

(***************************************************************************)
(* Mutants: the interrupt is acknowledged after the loop, by when another  *)
(* character may be there; the loop waits for room in the buffer; the loop *)
(* ends when the buffer is full.                                           *)
(***************************************************************************)
take_char ==
    /\ rx # 0
    /\ rx' = 0
    /\ ris' = FALSE
    /\ grant_to_waiter(rx) \/ buff_putc(rx)
    /\ UNCHANGED kpc

leave_loop(ack) ==
    /\ kpc' = "systick"
    /\ ris' = ack
    /\ UNCHANGED <<vars, rx, uart_ringbuffer, granted, lost>>

full == wait_queue = <<>> /\ Len(uart_ringbuffer) = BufSize

acknowledge_after_drain ==
    /\ kpc = "drain"
    /\ take_char \/ leave_loop(FALSE)
    /\ UNCHANGED <<after, imsc, txff, m1, in_getc, arrived, read>>

drain_waits_for_room ==
    /\ kpc = "drain"
    /\ \/ ~full /\ take_char
       \/ rx # 0 /\ full
          /\ UNCHANGED <<vars, kpc, ris, rx, uart_ringbuffer, granted, lost>>
       \/ rx = 0 /\ leave_loop(ris)
    /\ UNCHANGED <<after, imsc, txff, m1, in_getc, arrived, read>>

drain_until_full ==
    /\ kpc = "drain"
    /\ (~full /\ take_char) \/ ((rx = 0 \/ full) /\ leave_loop(ris))
    /\ UNCHANGED <<after, imsc, txff, m1, in_getc, arrived, read>>

receive_loop ==
    /\ kpc = "drain"
    /\ \/ /\ rx # 0
          /\ rx' = 0
          /\ ris' = FALSE
          /\ grant_to_waiter(rx) \/ buff_putc(rx)
          /\ UNCHANGED kpc
       \/ /\ rx = 0
          /\ kpc' = "systick"
          /\ UNCHANGED <<vars, ris, rx, uart_ringbuffer, granted, lost>>
    /\ UNCHANGED <<after, imsc, txff, m1, in_getc, arrived, read>>

(* Mutant: no tick while the idle thread runs. *)
systick_not_in_idle ==
    /\ kpc = "systick"
    /\ \/ m1 /\ m1' = FALSE /\ running_thread # idle_thread
          /\ scheduler_tick_from_irq /\ kpc' = "tick"
       \/ m1 /\ m1' = FALSE /\ running_thread = idle_thread
          /\ kpc' = "user" /\ UNCHANGED vars
       \/ ~m1 /\ kpc' = "user" /\ UNCHANGED <<vars, m1>>
    /\ UNCHANGED <<after, uart, uart_ringbuffer, in_getc, history>>

systick_handle_irq ==
    /\ kpc = "systick"
    /\ \/ m1 /\ m1' = FALSE /\ scheduler_tick_from_irq /\ kpc' = "tick"
       \/ ~m1 /\ kpc' = "user" /\ UNCHANGED <<vars, m1>>
    /\ UNCHANGED <<after, uart, uart_ringbuffer, in_getc, history>>

rest_of_tick ==
    /\ kpc = "tick"
    /\ \/ scheduler_update_sleepers /\ UNCHANGED kpc
       \/ scheduler_switch_from_tick /\ kpc' = "user"
    /\ UNCHANGED <<after, uart, m1, uart_ringbuffer, in_getc, history>>

-----------------------------------------------------------------------------
(***************************************************************************)
(* System calls and faults of the running thread.  The idle thread makes   *)
(* none.  A thread that is back from getc first looks at r0.               *)
(***************************************************************************)
InThread == kpc = "user" /\ running_thread \in Threads

Calls == InThread /\ running_thread \notin in_getc

terminate ==
    /\ scheduler_thread_terminate_running_from_irq
    /\ in_getc' = in_getc \ {running_thread}
    /\ granted' = [granted EXCEPT ![running_thread] = 0]
    /\ lost' = lost \cup ({granted[running_thread]} \ {0})

sys_exit ==
    /\ Calls
    /\ terminate
    /\ UNCHANGED <<cpu, uart, m1, uart_ringbuffer, arrived, read>>

(* uart_putc is entered with a message to print before `then' happens. *)
prints(then) == kpc' = "putc" /\ after' = then

sys_create_thread ==
    /\ Calls
    /\ scheduler_thread_create
    /\ IF \A t \in Threads : status[t] # "TERMINATED"
       THEN prints("return") ELSE UNCHANGED cpu
    /\ UNCHANGED <<uart, m1, uart_ringbuffer, in_getc, history>>

sys_sleep ==
    /\ Calls
    /\ \E cycles \in SleepArgs : SleepCall(cycles)
    /\ UNCHANGED <<cpu, uart, m1, uart_ringbuffer, in_getc, history>>

(***************************************************************************)
(* Mutants: getc of a stored character c that leaves rest in the buffer.   *)
(***************************************************************************)
getc_gets(c, rest) ==
    /\ Calls
    /\ in_getc' = in_getc \cup {running_thread}
    /\ \/ /\ uart_ringbuffer = <<>>
          /\ scheduler_wait_running_from_irq
          /\ UNCHANGED <<uart_ringbuffer, granted>>
       \/ /\ uart_ringbuffer # <<>>
          /\ scheduler_prepare_svc_return(c)
          /\ uart_ringbuffer' = rest
          /\ granted' = [granted EXCEPT ![running_thread] = c]
    /\ UNCHANGED <<cpu, uart, m1, arrived, read, lost>>

getc_peeks == getc_gets(Head(uart_ringbuffer), uart_ringbuffer)

getc_gets_last == getc_gets(Last(uart_ringbuffer), Front(uart_ringbuffer))

(* uart_user_getc *)
sys_getc ==
    /\ Calls
    /\ in_getc' = in_getc \cup {running_thread}
    /\ \/ /\ uart_ringbuffer = <<>>
          /\ scheduler_wait_running_from_irq
          /\ UNCHANGED <<uart_ringbuffer, granted>>
       \/ /\ uart_ringbuffer # <<>>
          /\ scheduler_prepare_svc_return(Head(uart_ringbuffer))
          /\ uart_ringbuffer' = Tail(uart_ringbuffer)
          /\ granted' = [granted EXCEPT ![running_thread] = Head(uart_ringbuffer)]
    /\ UNCHANGED <<cpu, uart, m1, arrived, read, lost>>

(* The thread looks at r0 and puts something else there. *)
getc_returns ==
    /\ InThread
    /\ running_thread \in in_getc
    /\ in_getc' = in_getc \ {running_thread}
    /\ read' = read \cup {exception_frame}
    /\ granted' = [granted EXCEPT ![running_thread] = 0]
    /\ scheduler_prepare_svc_return(0)
    /\ UNCHANGED <<cpu, uart, m1, uart_ringbuffer, arrived, lost>>

(***************************************************************************)
(* Calls and faults that print: putc itself, an unknown call and the four  *)
(* fault handlers, which then terminate the thread, and kernel_exit, whose *)
(* nested svc makes handle_svc print and stop.                             *)
(***************************************************************************)
sys_putc == Calls /\ prints("return")

unknown_svc == Calls /\ prints("terminate")

sys_kernel_exit == Calls /\ prints("stop")

handle_fault == InThread /\ prints("terminate")

PrintingTrap ==
    /\ sys_putc \/ unknown_svc \/ sys_kernel_exit \/ handle_fault
    /\ UNCHANGED <<vars, uart, m1, uart_ringbuffer, in_getc, history>>

(***************************************************************************)
(* uart_putc spins while the transmit register is full.  The character it  *)
(* writes fills the register or goes straight out.                         *)
(***************************************************************************)
uart_putc ==
    /\ kpc = "putc"
    /\ ~txff
    /\ txff' \in BOOLEAN
    /\ kpc' = IF after = "stop" THEN "stop" ELSE "user"
    /\ \/ after = "terminate" /\ terminate
       \/ after # "terminate" /\ UNCHANGED <<vars, in_getc, granted, lost>>
    /\ UNCHANGED <<after, imsc, ris, rx, m1, uart_ringbuffer, arrived, read>>

(* while (1) with interrupts masked *)
stopped == kpc = "stop" /\ UNCHANGED kvars

-----------------------------------------------------------------------------
IrqHandler ==
    uart_handle_irq \/ uart_clear_irq \/ receive_loop \/ systick_handle_irq
        \/ rest_of_tick

UserStep ==
    sys_exit \/ sys_create_thread \/ sys_sleep \/ sys_getc \/ getc_returns
        \/ PrintingTrap

Devices == Receive \/ Transmitted \/ TimerMatch

KNext ==
    \/ Devices
    \/ start_kernel
    \/ handle_irq
    \/ IrqHandler
    \/ UserStep
    \/ uart_putc
    \/ stopped

KSpec == KInit /\ [][KNext]_kvars

(***************************************************************************)
(* Kernel code is straight-line and runs masked.  A thread that traps      *)
(* again and again leaves user mode each time, but the CPU takes a pending *)
(* interrupt on one of its returns: strong fairness.  The timer keeps      *)
(* matching and the transmitter sends what it holds.  Nothing is assumed   *)
(* of user threads or of the arrival of characters.                        *)
(***************************************************************************)
KFairSpec ==
    /\ KSpec
    /\ WF_kvars(start_kernel)
    /\ WF_kvars(IrqHandler)
    /\ WF_kvars(uart_putc)
    /\ SF_kvars(handle_irq)
    /\ WF_kvars(TimerMatch)
    /\ WF_kvars(Transmitted)

-----------------------------------------------------------------------------
(* What the new variables may hold. *)
KTypeOK ==
    /\ kpc \in {"init", "boot", "user", "uart", "clear", "drain", "systick",
                "tick", "putc", "stop"}
    /\ after \in {"return", "terminate", "stop"}
    /\ imsc \in BOOLEAN /\ ris \in BOOLEAN /\ txff \in BOOLEAN /\ m1 \in BOOLEAN
    /\ rx \in Words
    /\ uart_ringbuffer \in Seq(Chars) /\ Len(uart_ringbuffer) <= BufSize
    /\ in_getc \subseteq Threads
    /\ arrived \in 0 .. MaxChars
    /\ granted \in [Threads -> Words]
    /\ read \subseteq Words
    /\ lost \subseteq Words

(***************************************************************************)
(* No lost wakeup in uart.c: uart_user_getc tests the ring buffer and      *)
(* waits, uart_handle_irq tests the wait queue and stores.  Never does a   *)
(* thread wait while a character is stored.                                *)
(***************************************************************************)
NoLostWakeup == wait_queue # <<>> => uart_ringbuffer = <<>>

(***************************************************************************)
(* uart_handle_irq acknowledges before it drains: a character in the       *)
(* receive register is announced by an interrupt still pending, or the     *)
(* receive loop is about to look.  A character that arrives at the wrong   *)
(* moment is not stranded until the next one.                              *)
(***************************************************************************)
RxNotStranded == rx # 0 => ris \/ kpc = "drain"

r0(t) == IF t = running_thread THEN exception_frame ELSE context[t]

(***************************************************************************)
(* The value of getc survives every context switch between the moment the  *)
(* kernel hands it out, into the saved context or the exception frame, and *)
(* the moment the thread looks at r0; and a thread that looks at r0 after  *)
(* getc always finds a character there.                                    *)
(***************************************************************************)
GrantReachesThread ==
    /\ \A t \in Threads : granted[t] # 0 => t \in in_getc /\ r0(t) = granted[t]
    /\ InThread /\ running_thread \in in_getc => granted[running_thread] # 0

Held == {granted[t] : t \in Threads} \ {0}

(***************************************************************************)
(* Every character that has arrived is in exactly one place.  Threads that *)
(* race for input never both get it and the kernel never duplicates it.    *)
(***************************************************************************)
CharsConserved ==
    /\ 1 .. arrived = ({rx} \ {0}) \cup Range(uart_ringbuffer) \cup Held
                        \cup read \cup lost
    /\ rx \notin Range(uart_ringbuffer) \cup Held \cup read \cup lost
    /\ Range(uart_ringbuffer) \cap (Held \cup read \cup lost) = {}
    /\ Held \cap (read \cup lost) = {}
    /\ read \cap lost = {}
    /\ \A t, u \in Threads : granted[t] # 0 /\ granted[t] = granted[u] => t = u

(***************************************************************************)
(* Input is first come, first served across the two paths of uart.c, the   *)
(* direct grant and the ring buffer: what has been handed out arrived      *)
(* before all that is stored, and that before what the UART holds.         *)
(***************************************************************************)
NoOvertaking ==
    /\ \A c \in Held \cup read, d \in Range(uart_ringbuffer) : c < d
    /\ rx # 0 => \A c \in Held \cup read \cup Range(uart_ringbuffer) : c < rx
    /\ \A i, j \in DOMAIN uart_ringbuffer :
            i < j => uart_ringbuffer[i] < uart_ringbuffer[j]

(***************************************************************************)
(* handlers.c calls the scheduler the way it expects: the kernel           *)
(* implements Scheduler's Spec.  In particular no scheduler function runs  *)
(* inside the sleeper scan, or for the idle thread, or before the start.   *)
(***************************************************************************)
ImplementsScheduler == Spec

=============================================================================
