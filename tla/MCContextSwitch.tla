--------------------------- MODULE MCContextSwitch ---------------------------
(***************************************************************************)
(* Register contents for a small instance: two slots, thread stacks 64     *)
(* bytes apart, user code that differs in every register, and code at      *)
(* address 0, where pc - 4 wraps around.                                   *)
(***************************************************************************)
EXTENDS ContextSwitch

MCStackTop(t) == 64 * (t + 1)

MCUserRegs == {[r |-> 1, pc |-> 0, lr |-> 5, sp |-> 24, flags |-> 1],
               [r |-> 2, pc |-> 16, lr |-> 6, sp |-> 0, flags |-> 0]}
=============================================================================
