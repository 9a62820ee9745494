------------------------ MODULE InterruptController ------------------------
(***************************************************************************)
(* From a device's interrupt line to the code that serves it:              *)
(* arch/bsp/interrupt_controller.c with uart_init, systick_init and the    *)
(* two tests of handle_irq, for the five lines of enum irq_id.             *)
(*                                                                         *)
(* A register is the set of its bits that are 1, so 1 << n is {n}.  The    *)
(* controller has two words for 64 lines.  Writing ones to an enable       *)
(* register sets, writing ones to cs or icr clears, zeros have no effect.  *)
(* A pending register shows the enabled lines that are raised.  The GPU    *)
(* uses the timer channels C0 and C2 for itself; C3 is not used at all.    *)
(***************************************************************************)
EXTENDS Naturals

VARIABLES
    enable_irqs,    \* enable_irqs_1 and enable_irqs_2
    cs,             \* system timer: match bits
    imsc, ris,      \* UART: unmasked and raised interrupts
    cpc,            \* where the CPU is
    caused          \* whether this handle_irq has found something to do

cvars == <<enable_irqs, cs, imsc, ris, cpc, caused>>

timer_channel == 0 .. 3

UART_IRQ == 57

SYSTICK_TIMER_CHANNEL == 1

SYSTICK_TIMER_IRQ_ID == 1

UART_RX == 4

uart_irq_bits == {UART_RX, 6, 10}   \* received, receive timeout, overrun

GpuChannels == {0, 2}

CInit ==
    /\ enable_irqs = <<{}, {}>>
    /\ cs \in SUBSET timer_channel
    /\ imsc = {}
    /\ ris \in SUBSET uart_irq_bits
    /\ cpc = "enable_uart"
    /\ caused = FALSE

(* The lines of the devices. *)
Lines == cs \cup (IF ris \cap imsc # {} THEN {UART_IRQ} ELSE {})

irq_pending(n) == {b \in enable_irqs[n] : b + 32 * (n - 1) \in Lines}

CpuInterrupt == \E n \in {1, 2} : irq_pending(n) # {}

-----------------------------------------------------------------------------
interrupt_controller_enable_irq(irq) ==
    IF irq <= 31
    THEN enable_irqs' = [enable_irqs EXCEPT ![1] = @ \cup {irq}]
    ELSE enable_irqs' = [enable_irqs EXCEPT ![2] = @ \cup {irq - 32}]

(* Both branches of the code read irq_pending_1. *)
interrupt_controller_check_pending(irq) ==
    IF irq <= 31 THEN irq \in irq_pending(1) ELSE irq - 32 \in irq_pending(1)

(* Mutant: all interrupts of the UART are unmasked. *)
unmask_all(irq) == imsc' = uart_irq_bits

uart_enable_irq(irq) == imsc' = imsc \cup {irq}

uart_check_irq(irq) == irq \in ris \cap imsc

uart_clear_irq(irq) == ris' = ris \ {irq}

system_timer_check_compare(channel) == channel \in cs

system_timer_clear_interrupt(channel) == cs' = cs \ {channel}

-----------------------------------------------------------------------------
(* uart_init and systick_init; interrupts are masked until the first thread. *)
uart_init ==
    \/ /\ cpc = "enable_uart"
       /\ interrupt_controller_enable_irq(UART_IRQ)
       /\ cpc' = "unmask_uart"
       /\ UNCHANGED <<cs, imsc, ris, caused>>
    \/ /\ cpc = "unmask_uart"
       /\ uart_enable_irq(UART_RX)
       /\ cpc' = "enable_timer"
       /\ UNCHANGED <<enable_irqs, cs, ris, caused>>

systick_init ==
    /\ cpc = "enable_timer"
    /\ interrupt_controller_enable_irq(SYSTICK_TIMER_IRQ_ID)
    /\ cpc' = "user"
    /\ UNCHANGED <<cs, imsc, ris, caused>>

handle_irq ==
    /\ cpc = "user"
    /\ CpuInterrupt
    /\ cpc' = "uart"
    /\ caused' = FALSE
    /\ UNCHANGED <<enable_irqs, cs, imsc, ris>>

(* The receive loop that follows is in module Kernel. *)
uart_handle_irq ==
    /\ cpc = "uart"
    /\ cpc' = "systick"
    /\ \/ uart_check_irq(UART_RX) /\ uart_clear_irq(UART_RX) /\ caused' = TRUE
       \/ ~uart_check_irq(UART_RX) /\ UNCHANGED <<ris, caused>>
    /\ UNCHANGED <<enable_irqs, cs, imsc>>

(* Mutant: one cause per interrupt, the timer only if it was not the UART. *)
systick_unless_uart ==
    /\ cpc = "systick"
    /\ cpc' = "return"
    /\ \/ ~caused /\ cs' = cs \ {SYSTICK_TIMER_CHANNEL} /\ caused' = TRUE
       \/ caused /\ UNCHANGED <<cs, caused>>
    /\ UNCHANGED <<enable_irqs, imsc, ris>>

systick_handle_irq ==
    /\ cpc = "systick"
    /\ cpc' = "return"
    /\ \/ /\ interrupt_controller_check_pending(SYSTICK_TIMER_IRQ_ID)
          /\ system_timer_check_compare(SYSTICK_TIMER_CHANNEL)
          /\ system_timer_clear_interrupt(SYSTICK_TIMER_CHANNEL)
          /\ caused' = TRUE
       \/ /\ \/ ~interrupt_controller_check_pending(SYSTICK_TIMER_IRQ_ID)
             \/ ~system_timer_check_compare(SYSTICK_TIMER_CHANNEL)
          /\ UNCHANGED <<cs, caused>>
    /\ UNCHANGED <<enable_irqs, imsc, ris>>

irq_returns == cpc = "return" /\ cpc' = "user"
                   /\ UNCHANGED <<enable_irqs, cs, imsc, ris, caused>>

ArmCode ==
    uart_init \/ systick_init \/ handle_irq \/ uart_handle_irq
        \/ systick_handle_irq \/ irq_returns

(* Devices raise lines at any time; the GPU answers its own channels. *)
DeviceEvent ==
    \/ /\ \E ch \in timer_channel \ cs : cs' = cs \cup {ch}
       /\ UNCHANGED ris
    \/ /\ \E b \in uart_irq_bits \ ris : ris' = ris \cup {b}
       /\ UNCHANGED cs

GpuServes == (\E ch \in GpuChannels \cap cs : cs' = cs \ {ch}) /\ UNCHANGED ris

Environment ==
    (DeviceEvent \/ GpuServes) /\ UNCHANGED <<enable_irqs, imsc, cpc, caused>>

CNext == ArmCode \/ Environment

CSpec == CInit /\ [][CNext]_cvars

CFairSpec == CSpec /\ WF_cvars(ArmCode)

-----------------------------------------------------------------------------
(***************************************************************************)
(* handle_irq does not test which line interrupted: it asks the UART and   *)
(* the timer.  It never returns without having served one of them, else    *)
(* the line would stay raised and the CPU would take interrupts for ever.  *)
(***************************************************************************)
EveryInterruptHasACause == cpc = "return" => caused

(***************************************************************************)
(* A match of the systick's channel is served, also while the UART         *)
(* interrupts all the time.                                                *)
(***************************************************************************)
TickServed == SYSTICK_TIMER_CHANNEL \in cs ~> SYSTICK_TIMER_CHANNEL \notin cs
=============================================================================
