---------------------------- MODULE FaultStatus ----------------------------
(***************************************************************************)
(* What the report of an exception says about its cause: the handlers of   *)
(* handlers.c with the part of print_exception_infos that depends on the   *)
(* kind, and get_fsr_description.                                          *)
(*                                                                         *)
(* A register is the set of its bits that are 1.  The processor writes the *)
(* status and the address of an abort into the registers of its kind and   *)
(* leaves those of the other kind as they are.  FsrBits are the bits it    *)
(* may set with short descriptors (the MMU is never set up): bits 3 to 0   *)
(* and bit 10 are the status, bit 9 is always 0.                           *)
(***************************************************************************)
EXTENDS Naturals

CONSTANTS
    FsrBits,
    Addresses

ASSUME FsrAssumption == FsrBits \subseteq (0 .. 31) \ {9}

VARIABLES
    dfsr, dfar,     \* data abort: status and address
    ifsr, ifar,     \* prefetch abort
    fpc,            \* "running", "report", "decide" or "stop"
    kind, user,     \* the exception and whether it came from user mode
    cause,          \* status and address the processor has written for it
    report          \* what has been printed about the cause

status == <<dfsr, dfar, ifsr, ifar>>
fvars == <<status, fpc, kind, user, cause, report>>

NoCause == [fsr |-> {}, far |-> 0]

NoReport == [fsr |-> {}, far |-> 0, text |-> 0]

FInit ==
    /\ dfsr = {} /\ dfar = 0
    /\ ifsr = {} /\ ifar = 0
    /\ fpc = "running"
    /\ kind = "none" /\ user = TRUE
    /\ cause = NoCause /\ report = NoReport

-----------------------------------------------------------------------------
(***************************************************************************)
(* get_fsr_description.  fsr_sources are the places with a text in the     *)
(* table of 31; a text is represented by its place.  Bit 9 is taken for    *)
(* bit 4 of the status.  A status of 31 would pass the test of the bound   *)
(* and read what lies behind the table, Outside.                           *)
(***************************************************************************)
fsr_sources == (0 .. 9) \cup (11 .. 16) \cup {20, 22} \cup (24 .. 26) \cup {28, 30}

TableSize == 31

Invalid == 100     \* "Invalid fault status register value"
NULL == 101
Outside == 102     \* what lies behind the table

(* The bit b of a register as a bit of value w of the status *)
Bit(fsr, b, w) == IF b \in fsr THEN w ELSE 0

Low(fsr) == Bit(fsr, 0, 1) + Bit(fsr, 1, 2) + Bit(fsr, 2, 4)

(* Mutant: the mask is 0b111. *)
three_bits(fsr) == Low(fsr) + Bit(fsr, 9, 16)

(* Mutant: bit 4 is taken from bit 10, and the test stays as it is. *)
bit_ten(fsr) == Low(fsr) + Bit(fsr, 3, 8) + Bit(fsr, 10, 16)

fsr_status(fsr) == Low(fsr) + Bit(fsr, 3, 8) + Bit(fsr, 9, 16)

Entry(n) ==
    IF n \in fsr_sources THEN n ELSE IF n < TableSize THEN NULL ELSE Outside

get_fsr_description(fsr) ==
    IF fsr_status(fsr) > TableSize \/ Entry(fsr_status(fsr)) = NULL THEN Invalid
    ELSE Entry(fsr_status(fsr))

-----------------------------------------------------------------------------
(***************************************************************************)
(* The processor takes an exception, of user code or of the kernel.  The   *)
(* system calls of threads, which print nothing, are left out.             *)
(***************************************************************************)
TakeException ==
    /\ fpc = "running"
    /\ user' \in BOOLEAN
    /\ \/ \E fsr \in SUBSET FsrBits, far \in Addresses :
            /\ cause' = [fsr |-> fsr, far |-> far]
            /\ \/ /\ kind' = "data_abort"
                  /\ dfsr' = fsr /\ dfar' = far
                  /\ UNCHANGED <<ifsr, ifar>>
               \/ /\ kind' = "prefetch_abort"
                  /\ ifsr' = fsr /\ ifar' = far
                  /\ UNCHANGED <<dfsr, dfar>>
       \/ /\ kind' \in {"undef", "fiq", "svc"}
          /\ kind' = "svc" => ~user'
          /\ cause' = NoCause
          /\ UNCHANGED status
    /\ fpc' = "report"
    /\ report' = NoReport

(* Mutant: the handler of prefetch aborts is a copy of the other. *)
same_flags(k) == [data |-> k \in {"data_abort", "prefetch_abort"},
                  prefetch |-> FALSE]

(* What the handlers pass as is_data_abort and is_prefetch_abort *)
flags(k) == [data |-> k = "data_abort", prefetch |-> k = "prefetch_abort"]

print_exception_infos ==
    /\ fpc = "report"
    /\ report' =
         CASE flags(kind).data ->
                [fsr |-> dfsr, far |-> dfar, text |-> get_fsr_description(dfsr)]
           [] flags(kind).prefetch ->
                [fsr |-> ifsr, far |-> ifar, text |-> get_fsr_description(ifsr)]
           [] OTHER -> NoReport
    /\ fpc' = "decide"
    /\ UNCHANGED <<status, kind, user, cause>>

(* The thread is terminated, or the kernel stops. *)
terminate_or_stop ==
    /\ fpc = "decide"
    /\ fpc' = IF user THEN "running" ELSE "stop"
    /\ UNCHANGED <<status, kind, user, cause, report>>

stopped == fpc = "stop" /\ UNCHANGED fvars

FNext == TakeException \/ print_exception_infos \/ terminate_or_stop \/ stopped

FSpec == FInit /\ [][FNext]_fvars

-----------------------------------------------------------------------------
Reported == fpc = "decide" /\ kind \in {"data_abort", "prefetch_abort"}

(* The status of the architecture, and the text the table has for it *)
Status(fsr) == Low(fsr) + Bit(fsr, 3, 8) + Bit(fsr, 10, 16)

Text(n) == IF n \in fsr_sources THEN n ELSE Invalid

(***************************************************************************)
(* The report shows the registers of the abort that has just happened and  *)
(* not what an earlier abort of the other kind has left.                   *)
(***************************************************************************)
ReportsThisFault ==
    Reported => report.fsr = cause.fsr /\ report.far = cause.far

(***************************************************************************)
(* A status below 16, which all synchronous faults of a system without     *)
(* parity or TLB conflict errors have, is described by its own entry, and  *)
(* one that is a gap of the table as invalid.  Whatever the processor      *)
(* writes, also a status of 16 and more, the description is a text: the    *)
(* index is neither a gap, with its null pointer, nor behind the table,    *)
(* though the test of the bound would let 31 pass.                         *)
(***************************************************************************)
StatusNamed ==
    Reported =>
        /\ report.text \in fsr_sources \cup {Invalid}
        /\ 10 \notin cause.fsr => report.text = Text(Status(cause.fsr))

(***************************************************************************)
(* The second half of the table, from [0b10000], and the constant          *)
(* fsr_status_4_index = 10 say that status bit 4, bit 10 of the register,  *)
(* chooses between 16 more descriptions.  The code reads bit 9.            *)
(***************************************************************************)
HighStatusNamed ==
    Reported /\ 10 \in cause.fsr => report.text = Text(Status(cause.fsr))
=============================================================================
