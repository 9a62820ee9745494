----------------------------- MODULE RoundRobin -----------------------------
(***************************************************************************)
(* What the scheduler promises, without lists, statuses or a scan: one     *)
(* thread has the CPU, the ready ones take turns in the order in which     *)
(* they became ready, the blocked ones are woken in the order in which     *)
(* they blocked, and a tick makes every sleeper one tick older at once.    *)
(* Sleepers due on the same tick may become ready in any order.            *)
(***************************************************************************)
EXTENDS Naturals, SequencesExt

CONSTANTS Threads, Idle, Nobody, SleepArgs

VARIABLES
    current,   \* the thread on the CPU, Nobody before the start
    ready,     \* threads waiting for the CPU, in order
    blocked,   \* threads waiting for an event, in order
    asleep,    \* ticks each sleeping thread still lets pass
    aged       \* inside a tick: the sleepers have aged, the CPU not switched

vars == <<current, ready, blocked, asleep, aged>>

Live == Range(ready) \cup Range(blocked) \cup DOMAIN asleep
            \cup ({current} \ {Idle, Nobody})

Init ==
    /\ current = Nobody
    /\ ready = <<>>
    /\ blocked = <<>>
    /\ asleep = <<>>
    /\ aged = FALSE

(* The head of q gets the CPU, or the idle thread when q is empty. *)
Dispatch(q) ==
    IF q = <<>> THEN current' = Idle /\ ready' = q
                ELSE current' = Head(q) /\ ready' = Tail(q)

Start ==
    /\ current = Nobody
    /\ Dispatch(ready)
    /\ UNCHANGED <<blocked, asleep, aged>>

Spawn(t) ==
    /\ ~aged
    /\ t \notin Live
    /\ ready' = Append(ready, t)
    /\ UNCHANGED <<current, blocked, asleep, aged>>

OnCpu == ~aged /\ current \in Threads

Exit ==
    /\ OnCpu
    /\ Dispatch(ready)
    /\ UNCHANGED <<blocked, asleep, aged>>

Sleep(n) ==
    /\ OnCpu
    /\ asleep' = [t \in DOMAIN asleep \cup {current} |->
                    IF t = current THEN n ELSE asleep[t]]
    /\ Dispatch(ready)
    /\ UNCHANGED <<blocked, aged>>

Block ==
    /\ OnCpu
    /\ blocked' = Append(blocked, current)
    /\ Dispatch(ready)
    /\ UNCHANGED <<asleep, aged>>

Wake ==
    /\ ~aged
    /\ blocked # <<>>
    /\ ready' = Append(ready, Head(blocked))
    /\ blocked' = Tail(blocked)
    /\ UNCHANGED <<current, asleep, aged>>

Due == {t \in DOMAIN asleep : asleep[t] = 0}

Age ==
    /\ ~aged
    /\ current # Nobody
    /\ \E woken \in SetToSeqs(Due) : ready' = ready \o woken
    /\ asleep' = [t \in DOMAIN asleep \ Due |-> asleep[t] - 1]
    /\ aged' = TRUE
    /\ UNCHANGED <<current, blocked>>

Rotate ==
    /\ aged
    /\ Dispatch(IF current = Idle THEN ready ELSE Append(ready, current))
    /\ aged' = FALSE
    /\ UNCHANGED <<blocked, asleep>>

Next ==
    \/ Start
    \/ \E t \in Threads : Spawn(t)
    \/ Exit
    \/ \E n \in SleepArgs : Sleep(n)
    \/ Block
    \/ Wake
    \/ Age
    \/ Rotate

Spec == Init /\ [][Next]_vars
=============================================================================
