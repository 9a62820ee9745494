------------------------------- MODULE Boot -------------------------------
(***************************************************************************)
(* From reset to the first thread: arch/cpu/entry.S, executed by all four  *)
(* cores at once, and start_kernel.                                        *)
(*                                                                         *)
(* A core may start in hypervisor or in supervisor mode, with interrupts   *)
(* masked or not.  sp is banked: a core has one per mode.  All cores       *)
(* execute the same code, which names the same stacks.  Changing the mode  *)
(* with cps has no defined effect in hypervisor mode: a core that tries    *)
(* does not get on.                                                        *)
(***************************************************************************)
EXTENDS Naturals, FiniteSets, SequencesExt

CONSTANT Cores      \* their ids, 0 .. 3

ASSUME CoresAssumption == 0 \in Cores /\ Cores \subseteq 0 .. 3

(* The order in which the stack pointers are set *)
StackModes == <<"FIQ", "IRQ", "ABT", "UND", "SYS", "SVC">>

VARIABLES
    bpc,        \* label of each core
    mode,       \* its mode
    masked,     \* whether its interrupts are masked
    sp,         \* which stack each of its banked stack pointers points to
    irqs,       \* devices whose interrupts are enabled
    vbar        \* whether the exception vectors are in place (core 0)

bvars == <<bpc, mode, masked, sp, irqs, vbar>>

BInit ==
    /\ bpc = [k \in Cores |-> "_start"]
    /\ mode \in [Cores -> {"HYP", "SVC"}]
    /\ masked \in [Cores -> BOOLEAN]
    /\ sp = [k \in Cores |-> [m \in Range(StackModes) |-> "none"]]
    /\ irqs = {} /\ vbar = FALSE

Goto(k, label) == bpc' = [bpc EXCEPT ![k] = label]

-----------------------------------------------------------------------------
_start(k) ==
    /\ bpc[k] = "_start"
    /\ Goto(k, IF mode[k] = "HYP" THEN "_exitHyper" ELSE "_checkCores")
    /\ UNCHANGED <<mode, masked, sp, irqs, vbar>>

(* Mutant: eret to the label that the comment names. *)
exit_to_bsprak(k) ==
    /\ bpc[k] = "_exitHyper"
    /\ Goto(k, "_bsprak")
    /\ mode' = [mode EXCEPT ![k] = "SVC"]
    /\ UNCHANGED <<masked, sp, irqs, vbar>>

(* Mutant: the mode bits in the psr are kept as well. *)
exit_keeps_mode(k) ==
    /\ bpc[k] = "_exitHyper"
    /\ Goto(k, "_checkCores")
    /\ UNCHANGED <<mode, masked, sp, irqs, vbar>>

(* The psr is kept but for its mode, and eret goes to _checkCores. *)
_exitHyper(k) ==
    /\ bpc[k] = "_exitHyper"
    /\ Goto(k, "_checkCores")
    /\ mode' = [mode EXCEPT ![k] = "SVC"]
    /\ UNCHANGED <<masked, sp, irqs, vbar>>

(* On core 0 alignment checks are switched on before _bsprak. *)
_checkCores(k) ==
    /\ bpc[k] = "_checkCores"
    /\ Goto(k, IF k % 4 = 0 THEN "_bsprak" ELSE "_parkCore")
    /\ UNCHANGED <<mode, masked, sp, irqs, vbar>>

_parkCore(k) ==
    /\ bpc[k] = "_parkCore"
    /\ masked' = [masked EXCEPT ![k] = TRUE]
    /\ Goto(k, "end")
    /\ UNCHANGED <<mode, sp, irqs, vbar>>

(* wfi in an endless loop *)
end(k) == bpc[k] = "end" /\ UNCHANGED bvars

(* Mutant: interrupts stay as the firmware has left them. *)
bsprak_unmasked(k) ==
    /\ bpc[k] = "_bsprak"
    /\ Goto(k, "stacks")
    /\ UNCHANGED <<mode, masked, sp, irqs, vbar>>

_bsprak(k) ==
    /\ bpc[k] = "_bsprak"
    /\ masked' = [masked EXCEPT ![k] = TRUE]
    /\ Goto(k, "stacks")
    /\ UNCHANGED <<mode, sp, irqs, vbar>>

(* The j-th pair of cps and ldr sp follows the one before. *)
at_stack(k, j) ==
    /\ bpc[k] = "stacks"
    /\ mode[k] = IF j = 1 THEN "SVC" ELSE StackModes[j - 1]
    /\ Goto(k, IF j = Len(StackModes) THEN "uart_init" ELSE "stacks")
    /\ mode' = [mode EXCEPT ![k] = StackModes[j]]
    /\ UNCHANGED <<masked, irqs, vbar>>

setup_stacks(k) ==
    \E j \in DOMAIN StackModes :
        at_stack(k, j) /\ sp' = [sp EXCEPT ![k][StackModes[j]] = StackModes[j]]

-----------------------------------------------------------------------------
(* start_kernel *)
enables(k, from, device, to) ==
    /\ bpc[k] = from
    /\ irqs' = irqs \cup {device}
    /\ Goto(k, to)
    /\ UNCHANGED <<mode, masked, sp, vbar>>

call_uart_init(k) == enables(k, "uart_init", "uart", "systick_init")

call_systick_init(k) == enables(k, "systick_init", "timer", "setup_interrupts")

setup_interrupts(k) ==
    /\ bpc[k] = "setup_interrupts"
    /\ vbar' = TRUE
    /\ Goto(k, "scheduler_start")
    /\ UNCHANGED <<mode, masked, sp, irqs>>

(* thread_run: the first thread is entered with interrupts unmasked. *)
scheduler_start(k) ==
    /\ bpc[k] = "scheduler_start"
    /\ mode' = [mode EXCEPT ![k] = "USR"]
    /\ masked' = [masked EXCEPT ![k] = FALSE]
    /\ Goto(k, "thread")
    /\ UNCHANGED <<sp, irqs, vbar>>

(* From here on module Kernel describes what happens. *)
thread(k) == bpc[k] = "thread" /\ UNCHANGED bvars

Core(k) ==
    \/ _start(k) \/ _exitHyper(k) \/ _checkCores(k) \/ _parkCore(k) \/ end(k)
    \/ _bsprak(k) \/ setup_stacks(k)
    \/ call_uart_init(k) \/ call_systick_init(k) \/ setup_interrupts(k)
    \/ scheduler_start(k) \/ thread(k)

BNext == \E k \in Cores : Core(k)

BSpec == BInit /\ [][BNext]_bvars

(* Every core executes its instructions, at a speed of its own. *)
BFairSpec == BSpec /\ \A k \in Cores : WF_bvars(Core(k))

-----------------------------------------------------------------------------
HasStack(k) == \E m \in Range(StackModes) : sp[k][m] # "none"

(***************************************************************************)
(* There is one set of stacks and the kernel has no locks: whichever mode  *)
(* the cores start in and however they are interleaved, no two of them     *)
(* ever get hold of a stack.                                               *)
(***************************************************************************)
NoSharedStack ==
    \A k1, k2 \in Cores : HasStack(k1) /\ HasStack(k2) => k1 = k2

(***************************************************************************)
(* uart_init and systick_init enable interrupts before setup_interrupts    *)
(* sets the vectors.  Core 0, to which the controller sends them, never    *)
(* can take one before the vectors and the stacks of all modes are in      *)
(* place, each written in its own mode.                                    *)
(***************************************************************************)
NoInterruptTooEarly ==
    irqs # {} /\ ~masked[0] => vbar /\ \A m \in Range(StackModes) : sp[0][m] = m

(***************************************************************************)
(* Core 0 reaches the first thread and the others end up parked for good,  *)
(* with interrupts masked.                                                 *)
(***************************************************************************)
CoresSettle ==
    <>[](/\ bpc[0] = "thread"
         /\ \A k \in Cores \ {0} : bpc[k] = "end" /\ masked[k])
=============================================================================
