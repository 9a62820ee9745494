---------------------------- MODULE KernelProofs ----------------------------
(***************************************************************************)
(* Proofs about the kernel, for any number of threads, any size of the     *)
(* ring buffer and any number of characters.  The kernel implements the    *)
(* scheduler's specification, so that what SchedulerProofs shows of the    *)
(* scheduler holds of the kernel, and its input path neither strands a     *)
(* character nor sleeps on one.                                            *)
(***************************************************************************)
EXTENDS Kernel, SchedulerProofs

(***************************************************************************)
(* Where the CPU is, in terms of the scheduler's variables: interrupts and *)
(* traps are taken only between scheduler functions, after the start, and  *)
(* messages are printed for user threads only.                             *)
(***************************************************************************)
Mode ==
    /\ kpc \in {"init", "boot"} <=> ~is_running
    /\ kpc = "tick" <=> cur # 0
    /\ kpc = "putc" => running_thread \in Threads

(* start_kernel begins with the scheduler not running. *)
LEMMA InitMode == KInit => Mode /\ KTypeOK
<1> SUFFICES ASSUME KInit PROVE Mode /\ KTypeOK
  OBVIOUS
<1>1. Mode
  BY DEF KInit, Init, Mode
<1>2. /\ kpc \in {"init", "boot", "user", "uart", "clear", "drain", "systick",
                  "tick", "putc", "stop"}
      /\ after \in {"return", "terminate", "stop"}
      /\ uart_ringbuffer \in Seq(Chars) /\ Len(uart_ringbuffer) <= BufSize
      /\ in_getc \subseteq Threads
      /\ arrived \in 0 .. MaxChars
      /\ granted \in [Threads -> Words]
      /\ rx \in Words /\ read \subseteq Words /\ lost \subseteq Words
  BY KernelAssumption, InputAssumption DEF KInit
<1>3. imsc \in BOOLEAN /\ ris \in BOOLEAN /\ txff \in BOOLEAN /\ m1 \in BOOLEAN
  BY Zenon DEF KInit
<1> QED  BY <1>1, <1>2, <1>3, Zenon DEF KTypeOK

(***************************************************************************)
(* Each kind of kernel step is a scheduler step or leaves the scheduler    *)
(* alone.                                                                  *)
(***************************************************************************)
LEMMA StepIsSchedulerStep ==
    IInv /\ Mode /\ KTypeOK /\ [KNext]_kvars => [Next]_vars
<1> SUFFICES ASSUME IInv, Mode, KTypeOK, [KNext]_kvars PROVE [Next]_vars
  OBVIOUS
<1>1. ASSUME UNCHANGED vars PROVE [Next]_vars
  BY <1>1
<1>2. CASE Devices
  BY <1>1, <1>2 DEF Devices, Receive, Transmitted, TimerMatch
<1>3. CASE start_kernel
  BY <1>1, <1>3 DEF start_kernel, Next
<1>4. CASE handle_irq
  BY <1>1, <1>4 DEF handle_irq
<1>5. CASE IrqHandler
  <2>1. CASE uart_handle_irq \/ uart_clear_irq
    BY <1>1, <2>1 DEF uart_handle_irq, uart_clear_irq
  <2>2. CASE receive_loop
    <3>1. kpc = "drain" /\ is_running /\ cur = 0 /\ rx \in Words
      BY <2>2 DEF receive_loop, Mode, KTypeOK
    <3>2. scheduler_notify_one_from_irq(rx) \/ UNCHANGED vars
      BY <2>2 DEF receive_loop, grant_to_waiter, buff_putc
    <3> QED  BY <1>1, <3>1, <3>2 DEF Notify, Next
  <2>3. CASE systick_handle_irq
    BY <1>1, <2>3 DEF systick_handle_irq, Next
  <2>4. CASE rest_of_tick
    BY <2>4 DEF rest_of_tick, TickWork, Next
  <2> QED  BY <1>5, <2>1, <2>2, <2>3, <2>4 DEF IrqHandler
<1>6. ASSUME kpc \in {"user", "putc"}, running_thread \in Threads
      PROVE  InUserThread
  BY <1>6, IdleAssumption DEF Mode, InUserThread
<1>7. CASE UserStep
  <2>1. CASE sys_exit
    BY <1>6, <2>1 DEF sys_exit, Calls, InThread, terminate, SvcOrFault, Next
  <2>2. CASE sys_create_thread
    BY <1>6, <2>2 DEF sys_create_thread, Calls, InThread, SvcOrFault, Next
  <2>3. CASE sys_sleep
    BY <2>3 DEF sys_sleep, Next
  <2>4. CASE sys_getc
    <3>1. InUserThread
      BY <1>6, <2>4 DEF sys_getc, Calls, InThread
    <3>2. ASSUME uart_ringbuffer # <<>> PROVE Head(uart_ringbuffer) \in Words
      BY <3>2, KernelAssumption, HeadTailProperties DEF KTypeOK
    <3>3. \/ scheduler_wait_running_from_irq
          \/ /\ uart_ringbuffer # <<>>
             /\ scheduler_prepare_svc_return(Head(uart_ringbuffer))
      BY <2>4 DEF sys_getc
    <3> QED  BY <3>1, <3>2, <3>3 DEF SvcOrFault, Next
  <2>5. CASE getc_returns
    <3>1. InUserThread
      BY <1>6, <2>5 DEF getc_returns, InThread
    <3>2. \E value \in Words : scheduler_prepare_svc_return(value)
      BY <2>5, InputAssumption DEF getc_returns
    <3> QED  BY <3>1, <3>2 DEF SvcOrFault, Next
  <2>6. CASE PrintingTrap
    BY <1>1, <2>6 DEF PrintingTrap
  <2> QED  BY <1>7, <2>1, <2>2, <2>3, <2>4, <2>5, <2>6 DEF UserStep
<1>8. CASE uart_putc
  <2>1. InUserThread
    BY <1>6, <1>8 DEF uart_putc, Mode
  <2> QED  BY <1>1, <1>8, <2>1 DEF uart_putc, terminate, SvcOrFault, Next
<1>9. CASE stopped \/ UNCHANGED kvars
  BY <1>1, <1>9 DEF stopped, kvars
<1> QED  BY <1>2, <1>3, <1>4, <1>5, <1>7, <1>8, <1>9 DEF KNext

-----------------------------------------------------------------------------
(***************************************************************************)
(* What scheduler functions leave alone.                                   *)
(***************************************************************************)
LEMMA SvcFrame ==
    ASSUME \/ scheduler_thread_create
           \/ scheduler_thread_terminate_running_from_irq
           \/ \E cycles \in SleepArgs : SleepCall(cycles)
           \/ scheduler_wait_running_from_irq
           \/ \E value : scheduler_prepare_svc_return(value)
           \/ \E value : scheduler_notify_one_from_irq(value)
    PROVE  is_running' = is_running /\ cur' = cur
BY DEF scheduler_thread_create, scheduler_thread_terminate_running_from_irq,
       SleepCall, scheduler_sleep_running_from_irq,
       scheduler_wait_running_from_irq, scheduler_prepare_svc_return,
       scheduler_notify_one_from_irq

(***************************************************************************)
(* Each handler leaves `kpc' in agreement with the scheduler: in the       *)
(* kernel proper a scan runs just while kpc is "tick".                     *)
(***************************************************************************)
LEMMA NextMode == IInv /\ Mode /\ [KNext]_kvars => Mode'
<1> SUFFICES ASSUME IInv, Mode, [KNext]_kvars PROVE Mode'
  OBVIOUS
<1>1. ASSUME UNCHANGED vars,
             kpc' \in {"init", "boot"} <=> kpc \in {"init", "boot"},
             kpc' = "tick" <=> kpc = "tick",
             kpc' = "putc" => running_thread \in Threads
      PROVE  Mode'
  BY <1>1 DEF Mode, vars
<1>2. CASE Devices
  BY <1>1, <1>2 DEF Devices, Receive, Transmitted, TimerMatch, cpu, Mode
<1>3. CASE start_kernel
  <2>1. CASE kpc = "init" /\ kpc' = "boot" /\ UNCHANGED vars
    BY <1>1, <2>1
  <2>2. CASE kpc = "boot" /\ BootCreate /\ UNCHANGED kpc
    BY <2>2 DEF BootCreate, scheduler_thread_create, Mode
  <2>3. CASE kpc = "boot" /\ BootStart /\ kpc' = "user"
    BY <2>3 DEF BootStart, scheduler_start, Mode
  <2> QED  BY <1>3, <2>1, <2>2, <2>3 DEF start_kernel, uart_init
<1>4. CASE handle_irq
  BY <1>1, <1>4 DEF handle_irq
<1>5. CASE uart_handle_irq
  BY <1>1, <1>5 DEF uart_handle_irq
<1>6. CASE uart_clear_irq
  BY <1>1, <1>6 DEF uart_clear_irq
<1>7. CASE receive_loop
  <2>1. CASE UNCHANGED vars
    BY <1>1, <1>7, <2>1 DEF receive_loop
  <2>2. CASE scheduler_notify_one_from_irq(rx)
    BY <1>7, <2>2, SvcFrame DEF receive_loop, Mode
  <2> QED  BY <1>7, <2>1, <2>2 DEF receive_loop, grant_to_waiter, buff_putc
<1>8. CASE systick_handle_irq
  <2>1. CASE kpc' = "user" /\ UNCHANGED vars
    BY <1>1, <1>8, <2>1 DEF systick_handle_irq
  <2>2. CASE kpc' = "tick" /\ scheduler_tick_from_irq
    BY <2>2 DEF scheduler_tick_from_irq, Mode
  <2> QED  BY <1>8, <2>1, <2>2 DEF systick_handle_irq
<1>9. CASE rest_of_tick
  <2>1. CASE scheduler_update_sleepers /\ UNCHANGED kpc
    <3>1. cur' # 0
      BY <2>1, LenProperties DEF scheduler_update_sleepers, IInv, Placed
    <3> QED  BY <1>9, <2>1, <3>1
             DEF rest_of_tick, scheduler_update_sleepers, Mode
  <2>2. CASE scheduler_switch_from_tick /\ kpc' = "user"
    BY <1>9, <2>2 DEF rest_of_tick, scheduler_switch_from_tick, Mode
  <2> QED  BY <1>9, <2>1, <2>2 DEF rest_of_tick
<1>10. ASSUME kpc = "user", kpc' \in {"user", "putc"},
              is_running' = is_running, cur' = cur,
              kpc' = "putc" => running_thread' \in Threads
       PROVE  Mode'
  BY <1>10 DEF Mode
<1>11. CASE sys_exit
  BY <1>10, <1>11, SvcFrame DEF sys_exit, Calls, InThread, terminate, cpu
<1>12. CASE sys_create_thread
  <2>1. running_thread' = running_thread
    BY <1>12 DEF sys_create_thread, scheduler_thread_create
  <2> QED  BY <1>10, <1>12, <2>1, SvcFrame
           DEF sys_create_thread, Calls, InThread, prints, cpu
<1>13. CASE sys_sleep
  BY <1>10, <1>13, SvcFrame DEF sys_sleep, Calls, InThread, cpu
<1>14. CASE sys_getc
  BY <1>10, <1>14, SvcFrame DEF sys_getc, Calls, InThread, cpu
<1>15. CASE getc_returns
  BY <1>10, <1>15, SvcFrame DEF getc_returns, InThread, cpu
<1>16. CASE PrintingTrap
  BY <1>10, <1>16
  DEF PrintingTrap, sys_putc, unknown_svc, sys_kernel_exit, handle_fault,
      Calls, InThread, prints, vars
<1>17. CASE uart_putc
  <2>1. is_running' = is_running /\ cur' = cur
    BY <1>17, SvcFrame DEF uart_putc, terminate, vars
  <2> QED  BY <1>17, <2>1 DEF uart_putc, Mode
<1>18. CASE stopped \/ UNCHANGED kvars
  BY <1>1, <1>18 DEF stopped, kvars, cpu, Mode
<1> QED  BY <1>2, <1>3, <1>4, <1>5, <1>6, <1>7, <1>8, <1>9, <1>11, <1>12, <1>13,
            <1>14, <1>15, <1>16, <1>17, <1>18 DEF KNext, IrqHandler, UserStep

-----------------------------------------------------------------------------
(***************************************************************************)
(* The types, in two parts: Booleans and the rest.                         *)
(***************************************************************************)
Flags == imsc \in BOOLEAN /\ ris \in BOOLEAN /\ txff \in BOOLEAN /\ m1 \in BOOLEAN

(* The flags of the devices stay Boolean. *)
LEMMA NextFlags == KTypeOK /\ [KNext]_kvars => Flags'
<1> SUFFICES ASSUME Flags, [KNext]_kvars PROVE Flags'
  BY Zenon DEF KTypeOK, Flags
<1>1. CASE Devices
  BY <1>1, Zenon DEF Devices, Receive, Transmitted, TimerMatch, uart, Flags
<1>2. CASE start_kernel
  BY <1>2, Zenon DEF start_kernel, uart_init, Flags
<1>3. CASE handle_irq
  BY <1>3, Zenon DEF handle_irq, uart, Flags
<1>4. CASE IrqHandler
  BY <1>4, Zenon
  DEF IrqHandler, uart_handle_irq, uart_clear_irq, receive_loop,
      systick_handle_irq, rest_of_tick, uart, Flags
<1>5. CASE UserStep
  BY <1>5, Zenon
  DEF UserStep, sys_exit, sys_create_thread, sys_sleep, sys_getc, getc_returns,
      PrintingTrap, uart, Flags
<1>6. CASE uart_putc
  BY <1>6, Zenon DEF uart_putc, Flags
<1>7. CASE stopped \/ UNCHANGED kvars
  BY <1>7, Zenon DEF stopped, kvars, uart, Flags
<1> QED  BY <1>1, <1>2, <1>3, <1>4, <1>5, <1>6, <1>7, Zenon DEF KNext

Places ==
    /\ kpc \in {"init", "boot", "user", "uart", "clear", "drain", "systick",
                "tick", "putc", "stop"}
    /\ after \in {"return", "terminate", "stop"}
    /\ rx \in Words /\ (rx # 0 => rx \in Chars)
    /\ uart_ringbuffer \in Seq(Chars) /\ Len(uart_ringbuffer) <= BufSize
    /\ in_getc \subseteq Threads
    /\ arrived \in 0 .. MaxChars
    /\ granted \in [Threads -> Words]
    /\ read \subseteq Words
    /\ lost \subseteq Words

(* Ending a thread that holds a character moves it to `lost'. *)
LEMMA TerminatePlaces ==
    ASSUME Places, running_thread \in Threads, terminate
    PROVE  /\ in_getc' \subseteq Threads
           /\ granted' \in [Threads -> Words]
           /\ lost' \subseteq Words
BY InputAssumption DEF Places, terminate

(* Characters stay characters wherever uart.c and syscalls.c put them. *)
LEMMA NextPlaces == IInv /\ Mode /\ Places /\ [KNext]_kvars => Places'
<1> SUFFICES ASSUME IInv, Mode, Places, [KNext]_kvars PROVE Places'
  OBVIOUS
<1> USE KernelAssumption, InputAssumption
<1>1. CASE Devices
  <2>1. CASE Receive
    <3>1. arrived + 1 \in Chars /\ arrived + 1 \in 0 .. MaxChars
      BY <2>1 DEF Receive, Places, Chars
    <3> QED  BY <2>1, <3>1 DEF Receive, Places, cpu
  <2>2. CASE Transmitted
    BY <2>2 DEF Transmitted, Places, cpu, history
  <2>3. CASE TimerMatch
    BY <2>3 DEF TimerMatch, Places, cpu, uart, history
  <2> QED  BY <1>1, <2>1, <2>2, <2>3 DEF Devices
<1>2. CASE start_kernel
  BY <1>2 DEF start_kernel, Places, history
<1>3. CASE handle_irq
  BY <1>3 DEF handle_irq, Places, uart, history
<1>4. CASE uart_handle_irq
  BY <1>4 DEF uart_handle_irq, Places, uart, history
<1>5. CASE uart_clear_irq
  BY <1>5 DEF uart_clear_irq, Places, history
<1>6. CASE receive_loop
  <2>1. CASE grant_to_waiter(rx) /\ rx' = 0 /\ UNCHANGED kpc
    BY <1>6, <2>1 DEF receive_loop, grant_to_waiter, Places
  <2>2. CASE buff_putc(rx) /\ rx # 0 /\ rx' = 0 /\ UNCHANGED kpc
    <3>1. CASE Len(uart_ringbuffer) < BufSize
      <4>1. /\ uart_ringbuffer' \in Seq(Chars)
            /\ Len(uart_ringbuffer') = Len(uart_ringbuffer) + 1
        BY <2>2, <3>1, AppendProperties DEF buff_putc, Places
      <4> QED  BY <1>6, <2>2, <3>1, <4>1, LenProperties
               DEF receive_loop, buff_putc, Places
    <3>2. CASE UNCHANGED uart_ringbuffer /\ lost' = lost \cup {rx}
      BY <1>6, <2>2, <3>2 DEF receive_loop, buff_putc, Places
    <3> QED  BY <2>2, <3>1, <3>2 DEF buff_putc
  <2>3. CASE rx = 0 /\ kpc' = "systick"
             /\ UNCHANGED <<vars, ris, rx, uart_ringbuffer, granted, lost>>
    BY <1>6, <2>3 DEF receive_loop, Places
  <2> QED  BY <1>6, <2>1, <2>2, <2>3 DEF receive_loop
<1>7. CASE systick_handle_irq
  BY <1>7 DEF systick_handle_irq, Places, uart, history
<1>8. CASE rest_of_tick
  BY <1>8 DEF rest_of_tick, Places, uart, history
<1>9. CASE sys_exit
  BY <1>9, TerminatePlaces DEF sys_exit, Calls, InThread, Places, cpu, uart
<1>10. CASE sys_create_thread
  BY <1>10 DEF sys_create_thread, prints, Places, cpu, uart, history
<1>11. CASE sys_sleep
  BY <1>11 DEF sys_sleep, Places, cpu, uart, history
<1>12. CASE sys_getc
  <2>1. running_thread \in Threads
    BY <1>12 DEF sys_getc, Calls, InThread
  <2>2. CASE uart_ringbuffer = <<>>
    BY <1>12, <2>1, <2>2 DEF sys_getc, Places, cpu, uart
  <2>3. CASE uart_ringbuffer # <<>>
    <3>1. /\ Head(uart_ringbuffer) \in Chars
          /\ Tail(uart_ringbuffer) \in Seq(Chars)
          /\ Len(Tail(uart_ringbuffer)) = Len(uart_ringbuffer) - 1
      BY <2>3, HeadTailProperties DEF Places
    <3>2. /\ uart_ringbuffer' \in Seq(Chars) /\ Len(uart_ringbuffer') <= BufSize
          /\ granted' \in [Threads -> Words] /\ in_getc' \subseteq Threads
      <4>1. Len(Tail(uart_ringbuffer)) <= BufSize
        BY <3>1, LenProperties DEF Places
      <4> QED  BY <1>12, <2>1, <2>3, <3>1, <4>1 DEF sys_getc, Places
    <3> QED  BY <1>12, <2>1, <2>3, <3>2 DEF sys_getc, Places, cpu, uart
  <2> QED  BY <2>2, <2>3
<1>13. CASE getc_returns
  BY <1>13 DEF getc_returns, Places, cpu, uart, IInv, Data
<1>14. CASE PrintingTrap
  BY <1>14
  DEF PrintingTrap, sys_putc, unknown_svc, sys_kernel_exit, handle_fault,
      prints, Places, uart, history
<1>15. CASE uart_putc
  <2>1. running_thread \in Threads
    BY <1>15 DEF uart_putc, Mode
  <2> QED  BY <1>15, <2>1, TerminatePlaces DEF uart_putc, Places
<1>16. CASE stopped \/ UNCHANGED kvars
  BY <1>16 DEF stopped, kvars, Places, cpu, uart, history
<1> QED  BY <1>1, <1>2, <1>3, <1>4, <1>5, <1>6, <1>7, <1>8, <1>9, <1>10, <1>11,
            <1>12, <1>13, <1>14, <1>15, <1>16 DEF KNext, IrqHandler, UserStep

-----------------------------------------------------------------------------
(***************************************************************************)
(* The two hand-shakes of uart.c.                                          *)
(***************************************************************************)

(* Only getc on an empty ring buffer makes the wait queue grow. *)
LEMMA WaitQueueFrame ==
    ASSUME \/ scheduler_thread_create
           \/ scheduler_thread_terminate_running_from_irq
           \/ \E cycles \in SleepArgs : SleepCall(cycles)
           \/ \E value : scheduler_prepare_svc_return(value)
           \/ scheduler_tick_from_irq
           \/ scheduler_update_sleepers
           \/ scheduler_switch_from_tick
           \/ scheduler_start
           \/ UNCHANGED vars
    PROVE  wait_queue' = wait_queue
BY DEF scheduler_thread_create, scheduler_thread_terminate_running_from_irq,
       SleepCall, scheduler_sleep_running_from_irq,
       scheduler_prepare_svc_return, scheduler_tick_from_irq,
       scheduler_update_sleepers, scheduler_switch_from_tick, scheduler_start, vars

(***************************************************************************)
(* uart_user_getc waits only on an empty ring buffer, and the receive loop *)
(* stores only when nobody waits.                                          *)
(***************************************************************************)
LEMMA NextNoLostWakeup == NoLostWakeup /\ [KNext]_kvars => NoLostWakeup'
<1> SUFFICES ASSUME NoLostWakeup, [KNext]_kvars PROVE NoLostWakeup'
  OBVIOUS
<1>0. ASSUME wait_queue' = wait_queue, UNCHANGED uart_ringbuffer
      PROVE  NoLostWakeup'
  BY <1>0 DEF NoLostWakeup
<1>1. CASE Devices
  BY <1>0, <1>1, WaitQueueFrame DEF Devices, Receive, Transmitted, TimerMatch
<1>2. CASE start_kernel
  BY <1>0, <1>2, WaitQueueFrame DEF start_kernel, BootCreate, BootStart
<1>3. CASE handle_irq \/ uart_handle_irq \/ uart_clear_irq
  BY <1>0, <1>3, WaitQueueFrame DEF handle_irq, uart_handle_irq, uart_clear_irq
<1>4. CASE receive_loop
  <2>1. CASE grant_to_waiter(rx)
    BY <2>1 DEF grant_to_waiter, scheduler_notify_one_from_irq, NoLostWakeup
  <2>2. CASE buff_putc(rx)
    BY <2>2, WaitQueueFrame DEF buff_putc, NoLostWakeup
  <2>3. CASE UNCHANGED <<vars, ris, rx, uart_ringbuffer, granted, lost>>
    BY <1>0, <2>3, WaitQueueFrame
  <2> QED  BY <1>4, <2>1, <2>2, <2>3 DEF receive_loop
<1>5. CASE systick_handle_irq \/ rest_of_tick
  BY <1>0, <1>5, WaitQueueFrame DEF systick_handle_irq, rest_of_tick
<1>6. CASE sys_exit \/ sys_create_thread \/ sys_sleep
  BY <1>0, <1>6, WaitQueueFrame
  DEF sys_exit, terminate, sys_create_thread, sys_sleep
<1>7. CASE sys_getc
  <2>1. CASE uart_ringbuffer = <<>>
    BY <1>7, <2>1 DEF sys_getc, NoLostWakeup
  <2>2. CASE uart_ringbuffer # <<>>
    <3>1. wait_queue' = wait_queue
      BY <1>7, <2>2, WaitQueueFrame DEF sys_getc
    <3> QED  BY <2>2, <3>1 DEF NoLostWakeup
  <2> QED  BY <2>1, <2>2
<1>8. CASE getc_returns \/ PrintingTrap
  BY <1>0, <1>8, WaitQueueFrame DEF getc_returns, PrintingTrap
<1>9. CASE uart_putc
  BY <1>0, <1>9, WaitQueueFrame DEF uart_putc, terminate
<1>10. CASE stopped \/ UNCHANGED kvars
  BY <1>0, <1>10, WaitQueueFrame DEF stopped, kvars
<1> QED  BY <1>1, <1>2, <1>3, <1>4, <1>5, <1>6, <1>7, <1>8, <1>9, <1>10
         DEF KNext, IrqHandler, UserStep

(***************************************************************************)
(* A character that arrives raises the interrupt, and the loop ends on an  *)
(* empty receive register only.                                            *)
(***************************************************************************)
LEMMA NextRxNotStranded == RxNotStranded /\ [KNext]_kvars => RxNotStranded'
<1> SUFFICES ASSUME RxNotStranded, [KNext]_kvars PROVE RxNotStranded'
  OBVIOUS
<1>0. ASSUME UNCHANGED <<ris, rx>>, kpc # "drain" \/ UNCHANGED kpc
      PROVE  RxNotStranded'
  BY <1>0, Zenon DEF RxNotStranded
<1>1. CASE Receive
  <2>1. CASE ris' = TRUE
    BY <2>1 DEF RxNotStranded
  <2>2. CASE UNCHANGED <<rx, ris>>
    BY <1>0, <1>1, <2>2 DEF Receive, cpu
  <2> QED  BY <1>1, <2>1, <2>2 DEF Receive
<1>2. CASE Transmitted \/ TimerMatch
  BY <1>0, <1>2, Zenon DEF Transmitted, TimerMatch, cpu, uart
<1>3. CASE start_kernel
  BY <1>0, <1>3 DEF start_kernel, uart_init
<1>4. CASE handle_irq \/ uart_handle_irq
  BY <1>0, <1>4 DEF handle_irq, uart_handle_irq, uart
<1>5. CASE uart_clear_irq
  BY <1>5 DEF uart_clear_irq, RxNotStranded
<1>6. CASE receive_loop
  BY <1>6 DEF receive_loop, RxNotStranded
<1>7. CASE systick_handle_irq \/ rest_of_tick
  BY <1>0, <1>7 DEF systick_handle_irq, rest_of_tick, uart
<1>8. CASE UserStep
  BY <1>0, <1>8
  DEF UserStep, sys_exit, sys_create_thread, sys_sleep, sys_getc, getc_returns,
      PrintingTrap, sys_putc, unknown_svc, sys_kernel_exit, handle_fault, Calls,
      InThread, uart
<1>9. CASE uart_putc
  BY <1>0, <1>9 DEF uart_putc
<1>10. CASE stopped \/ UNCHANGED kvars
  BY <1>0, <1>10 DEF stopped, kvars, cpu, uart
<1> QED  BY <1>1, <1>2, <1>3, <1>4, <1>5, <1>6, <1>7, <1>8, <1>9, <1>10
         DEF KNext, IrqHandler, Devices

-----------------------------------------------------------------------------
KInv == IInv /\ Mode /\ KTypeOK /\ Places /\ NoLostWakeup /\ RxNotStranded

(* The invariant of the kernel holds at power-up. *)
LEMMA InitKInv == KInit => KInv
<1> SUFFICES ASSUME KInit PROVE KInv
  OBVIOUS
<1>1. IInv /\ Mode /\ KTypeOK
  BY InitIInv, InitMode DEF KInit
<1>2. NoLostWakeup /\ RxNotStranded
  BY DEF KInit, Init, NoLostWakeup, RxNotStranded
<1>3. Places
  BY <1>1 DEF KInit, KTypeOK, Places
<1> QED  BY <1>1, <1>2, <1>3 DEF KInv

(* Every step of handlers, calls and devices preserves it. *)
LEMMA NextKInv == KInv /\ [KNext]_kvars => KInv'
<1> SUFFICES ASSUME KInv, [KNext]_kvars PROVE KInv'
  OBVIOUS
<1>1. IInv'
  BY StepIsSchedulerStep, NextPreserves DEF KInv
<1>2. Mode'
  BY NextMode DEF KInv
<1>3. Places'
  BY NextPlaces DEF KInv
<1>4. Flags'
  BY NextFlags DEF KInv
<1>5. KTypeOK'
  BY <1>3, <1>4, Zenon DEF KTypeOK, Places, Flags
<1>6. NoLostWakeup' /\ RxNotStranded'
  BY NextNoLostWakeup, NextRxNotStranded DEF KInv
<1> QED  BY <1>1, <1>2, <1>3, <1>5, <1>6 DEF KInv

(* The invariant of handlers.c, syscalls.c and uart.c holds in every state. *)
THEOREM KInvHolds == KSpec => []KInv
BY InitKInv, NextKInv, PTL DEF KSpec

(***************************************************************************)
(* The kernel implements the scheduler's specification: handlers.c,        *)
(* syscalls.c, uart.c and systick.c call scheduler functions only in the   *)
(* states they are written for.                                            *)
(***************************************************************************)
THEOREM KernelImplementsScheduler == KSpec => ImplementsScheduler
<1>1. KInit => Init
  BY DEF KInit
<1>2. KInv /\ [KNext]_kvars => [Next]_vars
  BY StepIsSchedulerStep DEF KInv
<1> QED  BY <1>1, <1>2, KInvHolds, PTL DEF KSpec, Spec, ImplementsScheduler

(* So every kernel state keeps the queue discipline. *)
THEOREM KernelQueuesCorrect == KSpec => []QueueDiscipline
BY KernelImplementsScheduler, QueuesCorrect, PTL DEF ImplementsScheduler

(* The variables the kernel adds keep their types; no index or counter     *)
(* leaves its range and the ring buffer holds at most BufSize characters.  *)
THEOREM KernelTypeCorrect == KSpec => []KTypeOK
BY KInvHolds, PTL DEF KInv

(* No thread waits for input that has already been stored. *)
THEOREM NoWakeupIsLost == KSpec => []NoLostWakeup
BY KInvHolds, PTL DEF KInv

(* No character is left in the UART without an interrupt to announce it. *)
THEOREM NoCharIsStranded == KSpec => []RxNotStranded
BY KInvHolds, PTL DEF KInv

-----------------------------------------------------------------------------
(***************************************************************************)
(* The value of getc.  The inductive form says of every thread t in getc   *)
(* which of two states it is in: waiting without a character, or runnable  *)
(* with the character in its r0, wherever that is kept at the moment.      *)
(***************************************************************************)
GrantOf(t) ==
    /\ status[t] = "WAITING" \/ granted[t] # 0 => t \in in_getc
    /\ t \in in_getc =>
            \/ granted[t] = 0 /\ status[t] = "WAITING"
            \/ /\ granted[t] # 0 /\ r0(t) = granted[t]
               /\ status[t] \in {"READY", "RUNNING"}

GrantInv == \A t \in Threads : GrantOf(t)

(* Two ways in which a step respects it: t is not concerned, or not in getc. *)
Same(t) ==
    /\ t \in in_getc' <=> t \in in_getc
    /\ granted'[t] = granted[t]
    /\ r0(t)' = r0(t)
    /\ \/ status'[t] = status[t]
       \/ status[t] \in {"READY", "RUNNING"} /\ status'[t] \in {"READY", "RUNNING"}

NotInGetc(t) == t \notin in_getc' /\ granted'[t] = 0 /\ status'[t] # "WAITING"

(***************************************************************************)
(* A thread whose part in getc, status and r0 are unchanged keeps its part *)
(* of the invariant, as does one that is not in getc.                      *)
(***************************************************************************)
LEMMA GrantStep ==
    ASSUME NEW t \in Threads, GrantOf(t), Same(t) \/ NotInGetc(t)
    PROVE  GrantOf(t)'
<1>1. CASE Same(t)
  BY <1>1 DEF GrantOf, Same
<1>2. CASE NotInGetc(t)
  BY <1>2 DEF GrantOf, NotInGetc
<1> QED  BY <1>1, <1>2

(***************************************************************************)
(* A step that changes neither the scheduler nor a grant preserves the     *)
(* invariant.                                                              *)
(***************************************************************************)
LEMMA NothingHappens ==
    ASSUME UNCHANGED <<status, context, exception_frame, running_thread>>,
           UNCHANGED <<in_getc, granted>>, NEW t \in Threads
    PROVE  Same(t)
BY DEF Same, r0

(* What scheduler_run_next does to a thread's status and r0. *)
LEMMA RunNextEffect ==
    ASSUME NEW st, NEW ctx \in [AllThreads -> Words], NEW rq, NEW sq, NEW wq,
           Placed(st, rq, sq, wq, NULL),
           scheduler_run_next(scheduler_get_next_thread(rq), st, ctx),
           NEW t \in Threads
    PROVE  /\ status'[t] = st[t] \/ (st[t] = "READY" /\ status'[t] = "RUNNING")
           /\ r0(t)' = ctx[t]
<1> DEFINE next == scheduler_get_next_thread(rq)
<1>1. next = idle_thread \/ (next \in Threads /\ st[next] = "READY")
  <2>1. CASE rq = <<>>
    BY <2>1 DEF scheduler_get_next_thread
  <2>2. CASE rq # <<>>
    <3>1. Head(rq) \in Threads /\ Head(rq) \in Range(rq)
      BY <2>2, DequeueLemma DEF Placed
    <3>2. st[Head(rq)] = "READY"
      BY <3>1 DEF Placed
    <3> QED  BY <2>2, <3>1, <3>2 DEF scheduler_get_next_thread
  <2> QED  BY <2>1, <2>2
<1>2. st \in [AllThreads -> thread_status] /\ t \in AllThreads
  BY DEF Placed, AllThreads
<1>3. /\ status' = [st EXCEPT ![next] = "RUNNING"]
      /\ running_thread' = next
      /\ context' = ctx
      /\ exception_frame' = ctx[next]
  BY DEF scheduler_run_next,
         scheduler_replace_irq_context
<1> HIDE DEF next
<1>4. r0(t)' = ctx[t]
  BY <1>3 DEF r0
<1>5. status'[t] = IF t = next THEN "RUNNING" ELSE st[t]
  BY <1>2, <1>3
<1>6. t = next => st[t] = "READY"
  BY <1>1, IdleAssumption
<1> QED  BY <1>4, <1>5, <1>6

(***************************************************************************)
(* scheduler_thread_terminate_running_from_irq takes the grant of the      *)
(* thread that ends and touches no other.                                  *)
(***************************************************************************)
LEMMA TerminateGrant ==
    ASSUME IInv, Places, GrantInv, InUserThread, terminate, NEW t \in Threads
    PROVE  GrantOf(t)'
<1>1. running_thread \in Threads
  BY UserThreadIsThread
<1>2. Placed(saved_status("TERMINATED"), run_queue, sleep_queue, wait_queue, NULL)
  BY <1>1, EndLemma DEF IInv, saved_status
<1>3. context \in [AllThreads -> Words] /\ status \in [AllThreads -> thread_status]
  BY DEF IInv, Data, Placed
<1>4. scheduler_run_next(scheduler_get_next_thread(run_queue),
                         saved_status("TERMINATED"), context)
  BY DEF terminate, scheduler_thread_terminate_running_from_irq
<1>5. /\ \/ status'[t] = saved_status("TERMINATED")[t]
         \/ /\ saved_status("TERMINATED")[t] = "READY"
            /\ status'[t] = "RUNNING"
      /\ r0(t)' = context[t]
  BY <1>2, <1>3, <1>4, RunNextEffect
<1>6. saved_status("TERMINATED")[t] =
            IF t = running_thread THEN "TERMINATED" ELSE status[t]
  BY <1>3 DEF saved_status, AllThreads
<1>7. CASE t = running_thread
  BY <1>5, <1>6, <1>7, GrantStep DEF terminate, NotInGetc, GrantInv, Places
<1>8. CASE t # running_thread
  <2>1. granted'[t] = granted[t]
    BY <1>8 DEF terminate, Places
  <2> QED  BY <1>5, <1>6, <1>8, <2>1, GrantStep DEF terminate, Same, GrantInv, r0
<1> QED  BY <1>7, <1>8

(* Going to sleep or to wait, the thread's r0 is saved and comes back. *)
LEMMA SavedR0 ==
    ASSUME IInv, NEW t \in Threads
    PROVE  saved_context[t] = r0(t)
BY DEF IInv, Data, saved_context, r0, AllThreads

(* scheduler_sleep_running_from_irq, called outside getc, disturbs no grant. *)
LEMMA SleepGrant ==
    ASSUME IInv, Places, GrantInv, NEW cycles \in SleepArgs, SleepCall(cycles),
           running_thread \notin in_getc, UNCHANGED <<in_getc, granted>>,
           NEW t \in Threads
    PROVE  GrantOf(t)'
<1>1. running_thread \in Threads
  BY UserThreadIsThread DEF SleepCall
<1>2. Placed(saved_status("SLEEPING"), run_queue,
             Append(sleep_queue, running_thread), wait_queue, NULL)
  BY <1>1, SleepLemma DEF IInv, saved_status
<1>3. status \in [AllThreads -> thread_status]
  BY DEF IInv, Placed
<1>4. scheduler_run_next(scheduler_get_next_thread(run_queue),
                         saved_status("SLEEPING"), saved_context)
  BY DEF SleepCall, scheduler_sleep_running_from_irq
<1>5. /\ \/ status'[t] = saved_status("SLEEPING")[t]
         \/ saved_status("SLEEPING")[t] = "READY" /\ status'[t] = "RUNNING"
      /\ r0(t)' = r0(t)
  BY <1>2, <1>4, RunNextEffect, SavedContextType, SavedR0
<1>6. saved_status("SLEEPING")[t] =
            IF t = running_thread THEN "SLEEPING" ELSE status[t]
  BY <1>3 DEF saved_status, AllThreads
<1>7. CASE t = running_thread
  BY <1>5, <1>6, <1>7, GrantStep DEF NotInGetc, GrantInv, GrantOf
<1>8. CASE t # running_thread
  BY <1>5, <1>6, <1>8, GrantStep DEF Same, GrantInv
<1> QED  BY <1>7, <1>8

(***************************************************************************)
(* scheduler_wait_running_from_irq puts the caller of getc in WAITING      *)
(* without a grant.                                                        *)
(***************************************************************************)
LEMMA WaitGrant ==
    ASSUME IInv, Places, GrantInv, InUserThread, scheduler_wait_running_from_irq,
           running_thread \notin in_getc, UNCHANGED granted,
           in_getc' = in_getc \cup {running_thread}, NEW t \in Threads
    PROVE  GrantOf(t)'
<1>1. running_thread \in Threads
  BY UserThreadIsThread
<1>2. Placed(saved_status("WAITING"), run_queue, sleep_queue,
             Append(wait_queue, running_thread), NULL)
  BY <1>1, WaitLemma DEF IInv, saved_status
<1>3. status \in [AllThreads -> thread_status]
  BY DEF IInv, Placed
<1>4. scheduler_run_next(scheduler_get_next_thread(run_queue),
                         saved_status("WAITING"), saved_context)
  BY DEF scheduler_wait_running_from_irq
<1>5. /\ \/ status'[t] = saved_status("WAITING")[t]
         \/ saved_status("WAITING")[t] = "READY" /\ status'[t] = "RUNNING"
      /\ r0(t)' = r0(t)
  BY <1>2, <1>4, RunNextEffect, SavedContextType, SavedR0
<1>6. saved_status("WAITING")[t] =
            IF t = running_thread THEN "WAITING" ELSE status[t]
  BY <1>3 DEF saved_status, AllThreads
<1>7. CASE t = running_thread
  <2>1. granted'[t] = 0
    BY <1>7 DEF GrantInv, GrantOf
  <2>2. status'[t] = "WAITING"
    BY <1>5, <1>6, <1>7
  <2> QED  BY <1>7, <2>1, <2>2 DEF GrantOf
<1>8. CASE t # running_thread
  BY <1>5, <1>6, <1>8, GrantStep DEF Same, GrantInv
<1> QED  BY <1>7, <1>8

(***************************************************************************)
(* The switch of a tick saves the r0 of one thread and restores that of    *)
(* the other.                                                              *)
(***************************************************************************)
LEMMA SwitchGrant ==
    ASSUME IInv, GrantInv, scheduler_switch_from_tick,
           UNCHANGED <<in_getc, granted>>, NEW t \in Threads
    PROVE  GrantOf(t)'
<1>0. running_thread \in AllThreads /\ status \in [AllThreads -> thread_status]
  BY LenProperties DEF IInv, Placed, Started, scheduler_switch_from_tick
<1>1. CASE UNCHANGED <<status, context, exception_frame, running_thread>>
  BY <1>1, NothingHappens, GrantStep DEF GrantInv
<1>2. CASE scheduler_run_next(scheduler_get_next_thread(requeued),
                              saved_status("READY"), saved_context)
  <2>1. Placed(saved_status("READY"), requeued, sleep_queue, wait_queue, NULL)
    <3>1. CASE running_thread = idle_thread
      BY <3>1, IdleLemma DEF IInv, saved_status, requeued
    <3>2. CASE running_thread # idle_thread
      <4>1. running_thread \in Threads
        BY <1>0, <3>2 DEF AllThreads
      <4> QED  BY <3>2, <4>1, RequeueLemma DEF IInv, saved_status, requeued
    <3> QED  BY <3>1, <3>2
  <2>2. /\ \/ status'[t] = saved_status("READY")[t]
           \/ saved_status("READY")[t] = "READY" /\ status'[t] = "RUNNING"
        /\ r0(t)' = r0(t)
    BY <1>2, <2>1, RunNextEffect, SavedContextType, SavedR0
  <2>3. saved_status("READY")[t] = IF t = running_thread THEN "READY" ELSE status[t]
    BY <1>0 DEF saved_status, AllThreads
  <2>4. t = running_thread => status[t] = "RUNNING"
    BY <1>0 DEF IInv, Placed
  <2> QED  BY <2>2, <2>3, <2>4, GrantStep DEF Same, GrantInv
<1> QED  BY <1>1, <1>2 DEF scheduler_switch_from_tick

(* A new thread is not in getc: its slot was free. *)
LEMMA CreateGrant ==
    ASSUME IInv, GrantInv, scheduler_thread_create,
           UNCHANGED <<in_getc, granted>>, NEW t \in Threads
    PROVE  GrantOf(t)'
<1>0. /\ status \in [AllThreads -> thread_status]
      /\ context \in [AllThreads -> Words]
      /\ t \in AllThreads
  BY DEF IInv, Placed, Data, AllThreads
<1>1. CASE UNCHANGED <<context, status, run_queue>>
  BY <1>1, NothingHappens, GrantStep DEF GrantInv, scheduler_thread_create
<1>2. ASSUME NEW id \in Threads, find_free_thread_id(id),
             context' = [context EXCEPT ![id] = 0],
             status' = [status EXCEPT ![id] = "READY"]
      PROVE  GrantOf(t)'
  <2>1. CASE t = id
    <3>1. status[t] = "TERMINATED" /\ status'[t] = "READY"
      BY <1>0, <1>2, <2>1 DEF find_free_thread_id
    <3>2. t \notin in_getc /\ granted[t] = 0
      BY <3>1 DEF GrantInv, GrantOf
    <3> QED  BY <3>1, <3>2, GrantStep DEF NotInGetc, GrantInv
  <2>2. CASE t # id
    <3>1. status'[t] = status[t] /\ context'[t] = context[t]
      BY <1>0, <1>2, <2>2
    <3>2. UNCHANGED <<exception_frame, running_thread>>
      BY DEF scheduler_thread_create
    <3> QED  BY <3>1, <3>2, GrantStep DEF Same, GrantInv, r0
  <2> QED  BY <2>1, <2>2
<1> QED  BY <1>1, <1>2 DEF scheduler_thread_create, thread_init

(* The notified thread was waiting and finds c in its saved r0. *)
LEMMA NotifyGrant ==
    ASSUME IInv, Places, GrantInv, NEW c \in Words, c # 0, grant_to_waiter(c),
           UNCHANGED in_getc, NEW t \in Threads
    PROVE  GrantOf(t)'
<1> DEFINE h == Head(wait_queue)
<1>0. /\ status \in [AllThreads -> thread_status]
      /\ context \in [AllThreads -> Words]
      /\ granted \in [Threads -> Words]
      /\ t \in AllThreads
  BY DEF IInv, Placed, Data, AllThreads, Places
<1>1. h \in Threads /\ status[h] = "WAITING"
  BY NotifyLemma DEF IInv, grant_to_waiter, scheduler_notify_one_from_irq
<1>2. /\ context' = [context EXCEPT ![h] = c]
      /\ status' = [status EXCEPT ![h] = "READY"]
      /\ granted' = [granted EXCEPT ![h] = c]
      /\ UNCHANGED <<exception_frame, running_thread>>
  BY DEF grant_to_waiter, scheduler_notify_one_from_irq
<1>3. h # running_thread
  BY <1>0, <1>1 DEF IInv, Placed, AllThreads
<1> HIDE DEF h
<1>4. CASE t = h
  <2>1. status'[t] = "READY" /\ granted'[t] = c /\ context'[t] = c
    BY <1>0, <1>2, <1>4
  <2>2. r0(t)' = c
    BY <1>2, <1>3, <1>4, <2>1 DEF r0
  <2>3. t \in in_getc
    BY <1>1, <1>4 DEF GrantInv, GrantOf
  <2> QED  BY <2>1, <2>2, <2>3 DEF GrantOf
<1>5. CASE t # h
  <2>1. status'[t] = status[t] /\ granted'[t] = granted[t] /\ context'[t] = context[t]
    BY <1>0, <1>2, <1>5
  <2> QED  BY <1>2, <2>1, GrantStep DEF Same, GrantInv, r0
<1> QED  BY <1>4, <1>5

(* A sleeper is not in getc, so waking it concerns no grant. *)
LEMMA ScanGrant ==
    ASSUME IInv, GrantInv, scheduler_update_sleepers,
           UNCHANGED <<in_getc, granted>>, NEW t \in Threads
    PROVE  GrantOf(t)'
<1> DEFINE thread == sleep_queue[cur]
<1>0. /\ status \in [AllThreads -> thread_status] /\ t \in AllThreads
      /\ UNCHANGED <<context, exception_frame, running_thread>>
  BY DEF IInv, Placed, AllThreads, scheduler_update_sleepers
<1>1. status' = status \/ status' = [status EXCEPT ![thread] = "READY"]
  BY DEF scheduler_update_sleepers
<1>2. status[thread] = "SLEEPING"
  <2>1. Placed(status, run_queue, sleep_queue, wait_queue, running_thread)
    BY DEF IInv
  <2>2. thread = sleep_queue[cur] /\ cur \in 1 .. Len(sleep_queue)
    BY DEF scheduler_update_sleepers
  <2> HIDE DEF thread
  <2>3. thread \in Threads /\ thread \in Range(sleep_queue)
    BY <2>1, <2>2, UnlinkLemma DEF Placed
  <2> QED  BY <2>1, <2>3 DEF Placed
<1> HIDE DEF thread
<1>3. CASE status'[t] = status[t]
  BY <1>0, <1>3, GrantStep DEF Same, GrantInv, r0
<1>4. CASE status'[t] # status[t]
  <2>1. t = thread /\ status'[t] = "READY"
    BY <1>0, <1>1, <1>4
  <2>2. t \notin in_getc /\ granted[t] = 0
    BY <1>2, <2>1 DEF GrantInv, GrantOf
  <2> QED  BY <2>1, <2>2, GrantStep DEF NotInGetc, GrantInv
<1> QED  BY <1>3, <1>4

(* Every step preserves the invariant about the values of getc. *)
LEMMA NextGrantInv == KInv /\ GrantInv /\ [KNext]_kvars => GrantInv'
<1> SUFFICES ASSUME KInv, GrantInv, [KNext]_kvars, NEW t \in Threads
             PROVE  GrantOf(t)'
  BY DEF GrantInv
<1> USE DEF KInv
<1>0. ASSUME UNCHANGED <<status, context, exception_frame, running_thread>>,
             UNCHANGED <<in_getc, granted>>
      PROVE  GrantOf(t)'
  BY <1>0, NothingHappens, GrantStep DEF GrantInv
<1>1. CASE Devices
  BY <1>0, <1>1 DEF Devices, Receive, Transmitted, TimerMatch, vars, history
<1>2. CASE start_kernel
  <2>1. UNCHANGED <<in_getc, granted>>
    BY <1>2 DEF start_kernel, history
  <2>2. CASE UNCHANGED vars
    BY <1>0, <2>1, <2>2 DEF vars
  <2>3. CASE BootCreate
    BY <2>1, <2>3, CreateGrant DEF BootCreate
  <2>4. CASE BootStart
    <3>1. Placed([status EXCEPT ![idle_thread] = "READY"], run_queue, sleep_queue,
                 wait_queue, NULL)
      BY <2>4, IdleLemma DEF IInv, Started, BootStart
    <3>2. scheduler_run_next(scheduler_get_next_thread(run_queue),
                             [status EXCEPT ![idle_thread] = "READY"], context)
      BY <2>4 DEF BootStart, scheduler_start, thread_run,
         thread_init, scheduler_run_next,
         scheduler_replace_irq_context
    <3>3. /\ \/ status'[t] = [status EXCEPT ![idle_thread] = "READY"][t]
             \/ /\ [status EXCEPT ![idle_thread] = "READY"][t] = "READY"
                /\ status'[t] = "RUNNING"
          /\ r0(t)' = context[t]
      BY <3>1, <3>2, RunNextEffect DEF IInv, Data
    <3>4. [status EXCEPT ![idle_thread] = "READY"][t] = status[t]
      BY IdleAssumption DEF IInv, Placed, AllThreads
    <3>5. r0(t) = context[t]
      BY <2>4, IdleAssumption DEF r0, IInv, Started, BootStart, AllThreads
    <3> QED  BY <2>1, <3>3, <3>4, <3>5, GrantStep DEF Same, GrantInv
  <2> QED  BY <1>2, <2>2, <2>3, <2>4 DEF start_kernel
<1>3. CASE handle_irq \/ uart_handle_irq \/ uart_clear_irq
  BY <1>0, <1>3 DEF handle_irq, uart_handle_irq, uart_clear_irq, vars, history
<1>4. CASE receive_loop
  <2>1. CASE rx # 0 /\ grant_to_waiter(rx)
    BY <1>4, <2>1, NotifyGrant DEF receive_loop, Places
  <2>2. CASE UNCHANGED <<vars, granted>>
    BY <1>0, <1>4, <2>2 DEF receive_loop, vars
  <2> QED  BY <1>4, <2>1, <2>2 DEF receive_loop, buff_putc
<1>5. CASE systick_handle_irq
  BY <1>0, <1>5
  DEF systick_handle_irq, scheduler_tick_from_irq, vars, history
<1>6. CASE rest_of_tick
  BY <1>6, ScanGrant, SwitchGrant DEF rest_of_tick, history
<1>7. CASE sys_exit
  <2>1. InUserThread
    BY <1>7, IdleAssumption DEF sys_exit, Calls, InThread, Mode, InUserThread
  <2> QED  BY <1>7, <2>1, TerminateGrant DEF sys_exit
<1>8. CASE sys_create_thread
  BY <1>8, CreateGrant DEF sys_create_thread, history
<1>9. CASE sys_sleep
  BY <1>9, SleepGrant DEF sys_sleep, Calls, history
<1>10. CASE sys_getc
  <2>0. InUserThread /\ running_thread \in Threads /\ running_thread \notin in_getc
    BY <1>10, IdleAssumption DEF sys_getc, Calls, InThread, Mode, InUserThread
  <2>1. CASE uart_ringbuffer = <<>>
    BY <1>10, <2>0, <2>1, WaitGrant DEF sys_getc
  <2>2. CASE uart_ringbuffer # <<>>
    <3> DEFINE c == Head(uart_ringbuffer)
    <3>1. c \in Chars
      BY <2>2, HeadTailProperties DEF Places
    <3>2. c # 0
      BY <3>1 DEF Chars
    <3>3. /\ granted' = [granted EXCEPT ![running_thread] = c]
          /\ exception_frame' = c
          /\ UNCHANGED <<status, context, running_thread>>
          /\ in_getc' = in_getc \cup {running_thread}
      BY <1>10, <2>2 DEF sys_getc, scheduler_prepare_svc_return
    <3> HIDE DEF c
    <3>4. CASE t = running_thread
      <4>1. granted'[t] = c /\ r0(t)' = c /\ t \in in_getc'
        BY <3>3, <3>4 DEF Places, r0
      <4>2. status'[t] = "RUNNING"
        BY <2>0, <3>3, <3>4 DEF IInv, Placed, AllThreads
      <4> QED  BY <3>2, <4>1, <4>2 DEF GrantOf
    <3>5. CASE t # running_thread
      <4>1. granted'[t] = granted[t]
        BY <3>3, <3>5 DEF Places
      <4> QED  BY <3>3, <3>5, <4>1, GrantStep DEF Same, GrantInv, r0
    <3> QED  BY <3>4, <3>5
  <2> QED  BY <2>1, <2>2
<1>11. CASE getc_returns
  <2>1. /\ granted' = [granted EXCEPT ![running_thread] = 0]
        /\ UNCHANGED <<status, context, running_thread>>
        /\ in_getc' = in_getc \ {running_thread}
        /\ running_thread \in Threads
    BY <1>11 DEF getc_returns, scheduler_prepare_svc_return, InThread
  <2>2. CASE t = running_thread
    <3>1. status[t] = "RUNNING"
      BY <2>2 DEF IInv, Placed, AllThreads
    <3>2. granted'[t] = 0
      BY <2>1, <2>2 DEF Places
    <3> QED  BY <2>1, <2>2, <3>1, <3>2, GrantStep DEF NotInGetc, GrantInv
  <2>3. CASE t # running_thread
    <3>1. granted'[t] = granted[t]
      BY <2>1, <2>3 DEF Places
    <3> QED  BY <2>1, <2>3, <3>1, GrantStep DEF Same, GrantInv, r0
  <2> QED  BY <2>2, <2>3
<1>12. CASE PrintingTrap
  BY <1>0, <1>12 DEF PrintingTrap, vars, history
<1>13. CASE uart_putc
  <2>1. InUserThread
    BY <1>13, IdleAssumption DEF uart_putc, Mode, InUserThread
  <2> QED  BY <1>0, <1>13, <2>1, TerminateGrant DEF uart_putc, vars
<1>14. CASE stopped \/ UNCHANGED kvars
  BY <1>0, <1>14 DEF stopped, kvars, vars, history
<1> QED  BY <1>1, <1>2, <1>3, <1>4, <1>5, <1>6, <1>7, <1>8, <1>9, <1>10, <1>11,
            <1>12, <1>13, <1>14 DEF KNext, IrqHandler, UserStep

(* At power-up nobody is in getc. *)
LEMMA InitGrantInv == KInit => GrantInv
BY DEF KInit, Init, GrantInv, GrantOf, AllThreads

(***************************************************************************)
(* In every state the threads inside getc wait or hold their character in  *)
(* r0, be it saved by scheduler_save_thread_context or on the CPU.         *)
(***************************************************************************)
THEOREM GrantInvHolds == KSpec => []GrantInv
BY InitGrantInv, NextGrantInv, KInvHolds, PTL DEF KSpec

(***************************************************************************)
(* The character getc hands to a thread reaches it unharmed, however often *)
(* the thread is switched out in between, and a thread back from getc      *)
(* always has one.                                                         *)
(***************************************************************************)
THEOREM GetcDelivers == KSpec => []GrantReachesThread
<1>1. GrantInv => \A t \in Threads :
                    granted[t] # 0 => t \in in_getc /\ r0(t) = granted[t]
  BY DEF GrantInv, GrantOf
<1>2. KInv /\ GrantInv /\ InThread /\ running_thread \in in_getc
        => granted[running_thread] # 0
  <2> SUFFICES ASSUME KInv, GrantInv, InThread, running_thread \in in_getc
               PROVE  granted[running_thread] # 0
    OBVIOUS
  <2>1. running_thread \in Threads /\ status[running_thread] = "RUNNING"
    BY DEF InThread, KInv, IInv, Placed, AllThreads
  <2> QED  BY <2>1 DEF GrantInv, GrantOf
<1>3. KInv /\ GrantInv => GrantReachesThread
  BY <1>1, <1>2 DEF GrantReachesThread
<1> QED  BY <1>3, KInvHolds, GrantInvHolds, PTL

-----------------------------------------------------------------------------
(***************************************************************************)
(* The way of the characters.  Accounted states where they are, of         *)
(* explicit sets, in the order of their way through uart.c: n have         *)
(* arrived, r is in the receive register, B is stored, H handed out and    *)
(* not looked at, R read and L lost.  It needs the order of arrival: that  *)
(* is what tells that the head of the ring buffer is not in its tail.      *)
(***************************************************************************)
Accounted(n, r, B, H, R, L) ==
    /\ n \in Nat
    /\ 1 .. n = ({r} \ {0}) \cup B \cup H \cup R \cup L
    /\ r \notin B \cup H \cup R \cup L
    /\ B \cap (H \cup R \cup L) = {}
    /\ H \cap (R \cup L) = {}
    /\ R \cap L = {}
    /\ \A c \in H \cup R, d \in B : c < d
    /\ r # 0 => \A c \in H \cup R \cup B : c < r

(* A character that arrives is later than all others. *)
LEMMA ArriveLemma ==
    ASSUME NEW n, NEW B, NEW H, NEW R, NEW L, Accounted(n, 0, B, H, R, L)
    PROVE  Accounted(n + 1, n + 1, B, H, R, L)
<1>1. n \in Nat /\ 1 .. n = B \cup H \cup R \cup L
  BY DEF Accounted
<1>2. 1 .. n + 1 = 1 .. n \cup {n + 1}
  BY <1>1
<1>3. \A c \in B \cup H \cup R \cup L : c < n + 1 /\ c # n + 1
  BY <1>1
<1> QED  BY <1>1, <1>2, <1>3 DEF Accounted

(* One that finds the receive register full is lost. *)
LEMMA OverrunLemma ==
    ASSUME NEW n, NEW r, NEW B, NEW H, NEW R, NEW L, Accounted(n, r, B, H, R, L),
           r # 0
    PROVE  Accounted(n + 1, r, B, H, R, L \cup {n + 1})
<1>1. n \in Nat /\ 1 .. n = {r} \cup B \cup H \cup R \cup L
  BY DEF Accounted
<1>2. 1 .. n + 1 = 1 .. n \cup {n + 1}
  BY <1>1
<1>3. \A c \in {r} \cup B \cup H \cup R \cup L : c # n + 1
  BY <1>1
<1> QED  BY <1>1, <1>2, <1>3 DEF Accounted

(***************************************************************************)
(* The receive loop empties the register: into the hands of a thread when  *)
(* nothing is stored, else behind what is stored, or nowhere.              *)
(***************************************************************************)
LEMMA DrainLemma ==
    ASSUME NEW n, NEW r, NEW B, NEW H, NEW R, NEW L, Accounted(n, r, B, H, R, L),
           r # 0
    PROVE  /\ B = {} => Accounted(n, 0, B, H \cup {r}, R, L)
           /\ Accounted(n, 0, B \cup {r}, H, R, L)
           /\ Accounted(n, 0, B, H, R, L \cup {r})
<1>1. n \in Nat /\ 1 .. n = {r} \cup B \cup H \cup R \cup L
  BY DEF Accounted
<1>2. 0 \notin 1 .. n
  BY <1>1
<1> QED  BY <1>1, <1>2 DEF Accounted

(* getc takes the earliest of the stored characters. *)
LEMMA FetchLemma ==
    ASSUME NEW n, NEW r, NEW B, NEW H, NEW R, NEW L, Accounted(n, r, B, H, R, L),
           NEW c \in B, \A d \in B \ {c} : c < d
    PROVE  Accounted(n, r, B \ {c}, H \cup {c}, R, L)
BY DEF Accounted

(* A thread looks at its character or ends without having done so. *)
LEMMA ConsumeLemma ==
    ASSUME NEW n, NEW r, NEW B, NEW H, NEW R, NEW L, Accounted(n, r, B, H, R, L),
           NEW c \in H
    PROVE  /\ Accounted(n, r, B, H \ {c}, R \cup {c}, L)
           /\ Accounted(n, r, B, H \ {c}, R, L \cup {c})
BY DEF Accounted

(***************************************************************************)
(* The characters threads hold, g[t] being that of t: no two hold the same *)
(* one.                                                                    *)
(***************************************************************************)
HeldIn(g) == {g[t] : t \in Threads} \ {0}

Distinct(g) == \A t, u \in Threads : g[t] # 0 /\ g[t] = g[u] => t = u

(* A thread without a character is given a new one. *)
LEMMA GiveLemma ==
    ASSUME NEW g \in [Threads -> Words], Distinct(g), NEW t \in Threads, g[t] = 0,
           NEW c, c # 0, c \notin HeldIn(g)
    PROVE  /\ HeldIn([g EXCEPT ![t] = c]) = HeldIn(g) \cup {c}
           /\ Distinct([g EXCEPT ![t] = c])
<1> DEFINE h == [g EXCEPT ![t] = c]
<1>1. h[t] = c /\ \A u \in Threads \ {t} : h[u] = g[u]
  OBVIOUS
<1>2. \A u \in Threads : g[u] # c
  BY DEF HeldIn
<1> HIDE DEF h
<1>3. HeldIn(h) = HeldIn(g) \cup {c}
  <2>1. ASSUME NEW x \in HeldIn(h) PROVE x \in HeldIn(g) \cup {c}
    BY <1>1 DEF HeldIn
  <2>2. ASSUME NEW x \in HeldIn(g) PROVE x \in HeldIn(h)
    <3>1. PICK u \in Threads : x = g[u] /\ x # 0
      BY DEF HeldIn
    <3> QED  BY <1>1, <3>1 DEF HeldIn
  <2>3. c \in HeldIn(h)
    BY <1>1 DEF HeldIn
  <2> QED  BY <2>1, <2>2, <2>3
<1>4. Distinct(h)
  BY <1>1, <1>2 DEF Distinct
<1> QED  BY <1>3, <1>4 DEF h

(* A thread gives up its character. *)
LEMMA TakeLemma ==
    ASSUME NEW g \in [Threads -> Words], Distinct(g), NEW t \in Threads
    PROVE  /\ HeldIn([g EXCEPT ![t] = 0]) = HeldIn(g) \ {g[t]}
           /\ Distinct([g EXCEPT ![t] = 0])
           /\ g[t] # 0 => g[t] \in HeldIn(g)
<1> DEFINE h == [g EXCEPT ![t] = 0]
<1>1. h[t] = 0 /\ \A u \in Threads \ {t} : h[u] = g[u]
  OBVIOUS
<1> HIDE DEF h
<1>2. HeldIn(h) = HeldIn(g) \ {g[t]}
  <2>1. ASSUME NEW x \in HeldIn(h) PROVE x \in HeldIn(g) /\ x # g[t]
    <3>1. PICK u \in Threads : x = h[u] /\ x # 0
      BY DEF HeldIn
    <3>2. u # t
      BY <1>1, <3>1
    <3> QED  BY <1>1, <3>1, <3>2 DEF HeldIn, Distinct
  <2>2. ASSUME NEW x \in HeldIn(g), x # g[t] PROVE x \in HeldIn(h)
    <3>1. PICK u \in Threads : x = g[u] /\ x # 0
      BY DEF HeldIn
    <3> QED  BY <1>1, <2>2, <3>1 DEF HeldIn
  <2> QED  BY <2>1, <2>2
<1>3. Distinct(h)
  BY <1>1 DEF Distinct
<1>4. g[t] # 0 => g[t] \in HeldIn(g)
  BY DEF HeldIn
<1> QED  BY <1>2, <1>3, <1>4 DEF h

(***************************************************************************)
(* The ring buffer in the order of arrival: what is appended is later than *)
(* all before it, and the head is earlier than the rest.                   *)
(***************************************************************************)
Ascending(q) == \A i, j \in DOMAIN q : i < j => q[i] < q[j]

(* Appending a later character keeps the order. *)
LEMMA StoreOrder ==
    ASSUME NEW q \in Seq(Chars), Ascending(q), NEW c \in Chars,
           \A d \in Range(q) : d < c
    PROVE  /\ Ascending(Append(q, c))
           /\ Range(Append(q, c)) = Range(q) \cup {c}
<1> DEFINE a == Append(q, c)
<1>1. /\ Len(a) = Len(q) + 1
      /\ \A i \in 1 .. Len(q) : a[i] = q[i]
      /\ a[Len(q) + 1] = c
      /\ a \in Seq(Chars)
  BY AppendProperties
<1>2. DOMAIN a = 1 .. Len(q) + 1 /\ DOMAIN q = 1 .. Len(q) /\ Len(q) \in Nat
  BY <1>1, LenProperties
<1>3. Range(a) = Range(q) \cup {c}
  BY EnqueueLemma
<1> HIDE DEF a
<1>4. ASSUME NEW i \in DOMAIN a, NEW j \in DOMAIN a, i < j PROVE a[i] < a[j]
  <2>1. i \in 1 .. Len(q) /\ a[i] = q[i] /\ q[i] \in Range(q)
    BY <1>1, <1>2, <1>4 DEF Range
  <2>2. CASE j = Len(q) + 1
    BY <1>1, <2>1, <2>2
  <2>3. CASE j # Len(q) + 1
    BY <1>1, <1>2, <1>4, <2>1, <2>3 DEF Ascending
  <2> QED  BY <2>2, <2>3
<1> QED  BY <1>3, <1>4 DEF Ascending, a

(* An ascending buffer holds no character twice and its head is the least. *)
LEMMA FetchOrder ==
    ASSUME NEW q \in Seq(Chars), Ascending(q), q # <<>>
    PROVE  /\ Ascending(Tail(q))
           /\ Head(q) \in Range(q)
           /\ Range(Tail(q)) = Range(q) \ {Head(q)}
           /\ \A d \in Range(q) \ {Head(q)} : Head(q) < d
<1>1. /\ Tail(q) \in Seq(Chars) /\ Len(Tail(q)) = Len(q) - 1
      /\ \A i \in 1 .. Len(Tail(q)) : Tail(q)[i] = q[i + 1]
      /\ DOMAIN q = 1 .. Len(q) /\ Len(q) \in Nat \ {0}
  BY HeadTailProperties, LenProperties, EmptySeq
<1>2. DOMAIN Tail(q) = 1 .. Len(q) - 1
  BY <1>1, LenProperties
<1>3. \A i \in DOMAIN q : q[i] \in Nat
  <2>1. \A i \in DOMAIN q : q[i] \in Chars
    BY <1>1, ElementOfSeq
  <2> QED  BY <2>1, KernelAssumption DEF Chars
<1>4. IsInjective(q)
  <2> SUFFICES ASSUME NEW i \in DOMAIN q, NEW j \in DOMAIN q, q[i] = q[j]
               PROVE  i = j
    BY DEF IsInjective
  <2> QED  BY <1>1, <1>3 DEF Ascending
<1>5. Head(q) = q[1]
  OBVIOUS
<1>6. \A d \in Range(q) \ {Head(q)} : Head(q) < d
  <2> SUFFICES ASSUME NEW i \in DOMAIN q, q[i] # Head(q) PROVE Head(q) < q[i]
    BY DEF Range
  <2>1. 1 \in DOMAIN q /\ 1 < i
    BY <1>1, <1>5
  <2> QED  BY <1>5, <2>1 DEF Ascending
<1>7. Ascending(Tail(q))
  <2> SUFFICES ASSUME NEW i \in 1 .. Len(q) - 1, NEW j \in 1 .. Len(q) - 1, i < j
               PROVE  Tail(q)[i] < Tail(q)[j]
    BY <1>2 DEF Ascending
  <2>1. i + 1 \in DOMAIN q /\ j + 1 \in DOMAIN q /\ i + 1 < j + 1
    BY <1>1
  <2> QED  BY <1>1, <2>1 DEF Ascending
<1> QED  BY <1>4, <1>6, <1>7, DequeueLemma

(***************************************************************************)
(* The inductive invariant of the input path.                              *)
(***************************************************************************)
InputInv ==
    /\ Accounted(arrived, rx, Range(uart_ringbuffer), Held, read, lost)
    /\ Distinct(granted)
    /\ Ascending(uart_ringbuffer)

(* It is what the runs check of the characters. *)
LEMMA InputInvImplies == InputInv => CharsConserved /\ NoOvertaking
<1> SUFFICES ASSUME InputInv PROVE CharsConserved /\ NoOvertaking
  OBVIOUS
<1>1. CharsConserved
  BY DEF InputInv, Accounted, Distinct, CharsConserved
<1>2. NoOvertaking
  BY DEF InputInv, Accounted, Ascending, NoOvertaking
<1> QED  BY <1>1, <1>2

(* Steps of the scheduler, the timer and the transmitter touch no character. *)
LEMMA InputFrame ==
    ASSUME InputInv,
           UNCHANGED <<arrived, rx, uart_ringbuffer, granted, read, lost>>
    PROVE  InputInv'
BY DEF InputInv, Held

(***************************************************************************)
(* The receive loop of uart_handle_irq.  The thread it notifies waits and  *)
(* so holds no character; that it waits means that none is stored.         *)
(***************************************************************************)
LEMMA DrainKeepsInput ==
    ASSUME KInv, GrantInv, InputInv, receive_loop
    PROVE  InputInv'
<1> DEFINE B == Range(uart_ringbuffer)
<1>0. /\ Accounted(arrived, rx, B, HeldIn(granted), read, lost)
      /\ Distinct(granted) /\ Ascending(uart_ringbuffer)
      /\ granted \in [Threads -> Words] /\ uart_ringbuffer \in Seq(Chars)
      /\ rx # 0 => rx \in Chars
      /\ UNCHANGED <<arrived, read>>
  BY DEF InputInv, Held, HeldIn, KInv, Places, receive_loop
<1>1. CASE rx # 0 /\ rx' = 0 /\ grant_to_waiter(rx)
  <2> DEFINE h == Head(wait_queue)
  <2>1. /\ wait_queue # <<>> /\ granted' = [granted EXCEPT ![h] = rx]
        /\ UNCHANGED <<uart_ringbuffer, lost>>
    BY <1>1 DEF grant_to_waiter, scheduler_notify_one_from_irq
  <2>2. h \in Threads /\ status[h] = "WAITING"
    BY <2>1, NotifyLemma DEF KInv, IInv
  <2>3. granted[h] = 0
    BY <2>2 DEF GrantInv, GrantOf
  <2>4. uart_ringbuffer = <<>> /\ B = {}
    BY <2>1 DEF KInv, NoLostWakeup, Range
  <2>5. rx \notin HeldIn(granted)
    BY <1>0 DEF Accounted
  <2> HIDE DEF h
  <2>6. HeldIn(granted') = HeldIn(granted) \cup {rx} /\ Distinct(granted')
    BY <1>0, <1>1, <2>1, <2>2, <2>3, <2>5, GiveLemma
  <2>7. Accounted(arrived, 0, B, HeldIn(granted) \cup {rx}, read, lost)
    BY <1>0, <1>1, <2>4, DrainLemma
  <2> QED  BY <1>0, <1>1, <2>1, <2>6, <2>7 DEF InputInv, Held, HeldIn, Distinct
<1>2. CASE rx # 0 /\ rx' = 0 /\ buff_putc(rx)
  <2>1. Held' = HeldIn(granted) /\ Distinct(granted)'
    BY <1>0, <1>2 DEF buff_putc, Held, HeldIn
  <2>2. CASE uart_ringbuffer' = Append(uart_ringbuffer, rx) /\ UNCHANGED lost
    <3>1. \A d \in B : d < rx
      BY <1>0, <1>2 DEF Accounted
    <3>2. Ascending(uart_ringbuffer') /\ Range(uart_ringbuffer') = B \cup {rx}
      BY <1>0, <1>2, <2>2, <3>1, StoreOrder
    <3>3. Accounted(arrived, 0, B \cup {rx}, HeldIn(granted), read, lost)
      BY <1>0, <1>2, DrainLemma
    <3> QED  BY <1>0, <1>2, <2>1, <2>2, <3>2, <3>3 DEF InputInv
  <2>3. CASE lost' = lost \cup {rx} /\ UNCHANGED uart_ringbuffer
    <3>1. Accounted(arrived, 0, B, HeldIn(granted), read, lost \cup {rx})
      BY <1>0, <1>2, DrainLemma
    <3> QED  BY <1>0, <1>2, <2>1, <2>3, <3>1 DEF InputInv
  <2> QED  BY <1>2, <2>2, <2>3 DEF buff_putc
<1>3. CASE UNCHANGED <<vars, ris, rx, uart_ringbuffer, granted, lost>>
  BY <1>0, <1>3, InputFrame
<1> QED  BY <1>1, <1>2, <1>3 DEF receive_loop

(* uart_user_getc hands the head of the ring buffer to a thread without one. *)
LEMMA GetcKeepsInput ==
    ASSUME KInv, GrantInv, InputInv, sys_getc
    PROVE  InputInv'
<1> DEFINE B == Range(uart_ringbuffer)
           c == Head(uart_ringbuffer)
<1>0. /\ Accounted(arrived, rx, B, HeldIn(granted), read, lost)
      /\ Distinct(granted) /\ Ascending(uart_ringbuffer)
      /\ granted \in [Threads -> Words] /\ uart_ringbuffer \in Seq(Chars)
      /\ UNCHANGED <<arrived, rx, read, lost>>
  BY DEF InputInv, Held, HeldIn, KInv, Places, sys_getc, uart
<1>1. CASE uart_ringbuffer = <<>>
  BY <1>0, <1>1, InputFrame DEF sys_getc
<1>2. CASE uart_ringbuffer # <<>>
  <2>1. /\ granted' = [granted EXCEPT ![running_thread] = c]
        /\ uart_ringbuffer' = Tail(uart_ringbuffer)
        /\ running_thread \in Threads /\ running_thread \notin in_getc
    BY <1>2 DEF sys_getc, Calls, InThread
  <2>2. granted[running_thread] = 0
    BY <2>1 DEF GrantInv, GrantOf
  <2>3. /\ Ascending(uart_ringbuffer') /\ Range(uart_ringbuffer') = B \ {c}
        /\ c \in B /\ \A d \in B \ {c} : c < d
    BY <1>0, <1>2, <2>1, FetchOrder
  <2>4. c # 0 /\ c \notin HeldIn(granted)
    <3>1. c \in Chars
      BY <1>0, <1>2, HeadTailProperties
    <3> QED  BY <1>0, <2>3, <3>1 DEF Accounted, Chars
  <2> HIDE DEF c, B
  <2>5. HeldIn(granted') = HeldIn(granted) \cup {c} /\ Distinct(granted')
    BY <1>0, <2>1, <2>2, <2>4, GiveLemma
  <2>6. Accounted(arrived, rx, B \ {c}, HeldIn(granted) \cup {c}, read, lost)
    BY <1>0, <2>3, FetchLemma
  <2>7. Held' = HeldIn(granted')
    BY DEF Held, HeldIn
  <2> QED  BY <1>0, <2>3, <2>5, <2>6, <2>7 DEF InputInv
<1> QED  BY <1>1, <1>2

(* What the thread finds in r0 is the character it was given. *)
LEMMA ReturnKeepsInput ==
    ASSUME KInv, GrantInv, InputInv, getc_returns
    PROVE  InputInv'
<1> DEFINE c == granted[running_thread]
<1>1. /\ running_thread \in Threads
      /\ granted' = [granted EXCEPT ![running_thread] = 0]
      /\ read' = read \cup {exception_frame}
      /\ UNCHANGED <<arrived, rx, uart_ringbuffer, lost>>
  BY DEF getc_returns, InThread, uart
<1>2. status[running_thread] = "RUNNING" /\ running_thread \in in_getc
  BY <1>1 DEF KInv, IInv, Placed, AllThreads, getc_returns
<1>3. c # 0 /\ exception_frame = c
  BY <1>1, <1>2 DEF GrantInv, GrantOf, r0
<1>4. /\ Accounted(arrived, rx, Range(uart_ringbuffer), HeldIn(granted), read, lost)
      /\ Distinct(granted) /\ Ascending(uart_ringbuffer)
      /\ granted \in [Threads -> Words]
  BY DEF InputInv, Held, HeldIn, KInv, Places
<1>5. /\ HeldIn(granted') = HeldIn(granted) \ {c}
      /\ Distinct(granted') /\ c \in HeldIn(granted)
  BY <1>1, <1>3, <1>4, TakeLemma
<1> HIDE DEF c
<1>6. Accounted(arrived, rx, Range(uart_ringbuffer), HeldIn(granted) \ {c},
                read \cup {c}, lost)
  BY <1>4, <1>5, ConsumeLemma
<1>7. Held' = HeldIn(granted')
  BY DEF Held, HeldIn
<1> QED  BY <1>1, <1>3, <1>4, <1>5, <1>6, <1>7 DEF InputInv

(* A thread that ends with a character unread takes it along. *)
LEMMA TerminateKeepsInput ==
    ASSUME KInv, InputInv, terminate, running_thread \in Threads,
           UNCHANGED <<arrived, rx, uart_ringbuffer, read>>
    PROVE  InputInv'
<1> DEFINE c == granted[running_thread]
<1>1. /\ granted' = [granted EXCEPT ![running_thread] = 0]
      /\ lost' = lost \cup ({c} \ {0})
  BY DEF terminate
<1>2. /\ Accounted(arrived, rx, Range(uart_ringbuffer), HeldIn(granted), read, lost)
      /\ Distinct(granted) /\ Ascending(uart_ringbuffer)
      /\ granted \in [Threads -> Words]
  BY DEF InputInv, Held, HeldIn, KInv, Places
<1>3. /\ HeldIn(granted') = HeldIn(granted) \ {c}
      /\ Distinct(granted') /\ (c # 0 => c \in HeldIn(granted))
  BY <1>1, <1>2, TakeLemma
<1>4. Held' = HeldIn(granted')
  BY DEF Held, HeldIn
<1> HIDE DEF c
<1>5. CASE c = 0
  <2>1. HeldIn(granted') = HeldIn(granted) /\ lost' = lost
    BY <1>1, <1>3, <1>5 DEF HeldIn
  <2> QED  BY <1>2, <1>3, <1>4, <2>1 DEF InputInv
<1>6. CASE c # 0
  <2>1. Accounted(arrived, rx, Range(uart_ringbuffer), HeldIn(granted) \ {c},
                  read, lost \cup {c})
    BY <1>2, <1>3, <1>6, ConsumeLemma
  <2>2. lost' = lost \cup {c}
    BY <1>1, <1>6
  <2> QED  BY <1>2, <1>3, <1>4, <2>1, <2>2 DEF InputInv
<1> QED  BY <1>5, <1>6

(* Every step moves a character from one place to the next or none at all. *)
LEMMA NextInputInv == KInv /\ GrantInv /\ InputInv /\ [KNext]_kvars => InputInv'
<1> SUFFICES ASSUME KInv, GrantInv, InputInv, [KNext]_kvars PROVE InputInv'
  OBVIOUS
<1>1. CASE Receive
  <2>1. Accounted(arrived, rx, Range(uart_ringbuffer), Held, read, lost)
    BY DEF InputInv
  <2>2. UNCHANGED <<uart_ringbuffer, granted, read>> /\ arrived' = arrived + 1
    BY <1>1 DEF Receive
  <2>3. Held' = Held /\ Distinct(granted)' /\ Ascending(uart_ringbuffer)'
    BY <2>2 DEF Held, InputInv
  <2>4. CASE rx = 0 /\ rx' = arrived + 1 /\ UNCHANGED lost
    BY <2>1, <2>2, <2>3, <2>4, ArriveLemma DEF InputInv
  <2>5. CASE rx # 0 /\ lost' = lost \cup {arrived + 1} /\ UNCHANGED rx
    BY <2>1, <2>2, <2>3, <2>5, OverrunLemma DEF InputInv
  <2> QED  BY <1>1, <2>4, <2>5 DEF Receive
<1>2. CASE Transmitted \/ TimerMatch
  BY <1>2, InputFrame DEF Transmitted, TimerMatch, uart, history
<1>3. CASE start_kernel
  BY <1>3, InputFrame DEF start_kernel, history
<1>4. CASE handle_irq \/ uart_handle_irq \/ uart_clear_irq
  BY <1>4, InputFrame
  DEF handle_irq, uart_handle_irq, uart_clear_irq, uart, history
<1>5. CASE receive_loop
  BY <1>5, DrainKeepsInput
<1>6. CASE systick_handle_irq \/ rest_of_tick
  BY <1>6, InputFrame DEF systick_handle_irq, rest_of_tick, uart, history
<1>7. CASE sys_exit
  BY <1>7, TerminateKeepsInput DEF sys_exit, Calls, InThread, uart
<1>8. CASE sys_create_thread \/ sys_sleep \/ PrintingTrap
  BY <1>8, InputFrame
  DEF sys_create_thread, sys_sleep, PrintingTrap, uart, history
<1>9. CASE sys_getc
  BY <1>9, GetcKeepsInput
<1>10. CASE getc_returns
  BY <1>10, ReturnKeepsInput
<1>11. CASE uart_putc
  <2>1. running_thread \in Threads
    BY <1>11 DEF uart_putc, KInv, Mode
  <2> QED  BY <1>11, <2>1, TerminateKeepsInput, InputFrame DEF uart_putc
<1>12. CASE stopped \/ UNCHANGED kvars
  BY <1>12, InputFrame DEF stopped, kvars, uart, history
<1> QED  BY <1>1, <1>2, <1>3, <1>4, <1>5, <1>6, <1>7, <1>8, <1>9, <1>10, <1>11,
            <1>12 DEF KNext, Devices, IrqHandler, UserStep

(* At power-up no character has arrived. *)
LEMMA InitInputInv == KInit => InputInv
<1> SUFFICES ASSUME KInit PROVE InputInv
  OBVIOUS
<1>1. /\ arrived = 0 /\ rx = 0 /\ uart_ringbuffer = <<>> /\ read = {} /\ lost = {}
      /\ \A t \in Threads : granted[t] = 0
  BY DEF KInit
<1>2. Range(uart_ringbuffer) = {} /\ Held = {}
  BY <1>1 DEF Range, Held
<1>3. Distinct(granted) /\ Ascending(uart_ringbuffer)
  BY <1>1 DEF Distinct, Ascending
<1> QED  BY <1>1, <1>2, <1>3 DEF InputInv, Accounted

(* The whereabouts and the order of all characters, in every state. *)
THEOREM InputInvHolds == KSpec => []InputInv
BY InitInputInv, NextInputInv, GrantInvHolds, KInvHolds, PTL DEF KSpec

(***************************************************************************)
(* Between the receive register, the ring buffer, the threads and those    *)
(* that read or lost them no character is ever duplicated or forgotten,    *)
(* for any number of threads racing for input.                             *)
(***************************************************************************)
THEOREM NoCharIsDuplicated == KSpec => []CharsConserved
BY InputInvHolds, InputInvImplies, PTL

(***************************************************************************)
(* Characters are handed out in the order of arrival, whichever of the two *)
(* ways through uart.c each of them takes.                                 *)
(***************************************************************************)
THEOREM NoCharOvertakes == KSpec => []NoOvertaking
BY InputInvHolds, InputInvImplies, PTL

=============================================================================
