------------------------------ MODULE MCKernel ------------------------------
(***************************************************************************)
(* The kernel on a small instance, and its liveness.                       *)
(***************************************************************************)
EXTENDS Kernel

Stopped == kpc = "stop"

(* Every exception handler returns to user mode, or stops for good. *)
KernelReturns == kpc # "user" ~> kpc = "user" \/ Stopped

(***************************************************************************)
(* A received character does not stay in the UART: whatever the threads    *)
(* do, the handler comes and takes it.                                     *)
(***************************************************************************)
RxServed == rx # 0 ~> rx = 0 \/ Stopped

(***************************************************************************)
(* Round robin starves nobody: a READY thread gets the CPU even if all     *)
(* other threads compute, print, read, sleep and fault as they like,       *)
(* unless the system is stopped.                                           *)
(***************************************************************************)
KReadyRuns ==
    \A t \in Threads :
        status[t] = "READY" ~> running_thread = t \/ Stopped

(***************************************************************************)
(* A thread that sleeps is made READY by some tick, also when all others   *)
(* sleep or wait for input and the idle thread runs.                       *)
(***************************************************************************)
SleeperWakes ==
    \A t \in Threads :
        status[t] = "SLEEPING" ~> status[t] = "READY" \/ Stopped
=============================================================================
