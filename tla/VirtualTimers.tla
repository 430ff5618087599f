---------------------------- MODULE VirtualTimers ----------------------------
(***************************************************************************)
(* What the virtualised RTC promises: each terminal has a timer of its     *)
(* own.  A reader asks for a number of interrupts and returns when exactly *)
(* so many have come, or later, whatever the other terminals do.           *)
(***************************************************************************)
EXTENDS Integers

CONSTANTS
    Terminals,  \* the terminals
    Periods     \* the numbers of interrupts that are asked for

VARIABLES
    waiting,    \* the terminals whose program waits
    left        \* per terminal, the interrupts that it still waits for

vars == <<waiting, left>>

Init ==
    /\ waiting = {}
    /\ left = [t \in Terminals |-> 0]

Begin(t) ==
    /\ t \notin waiting
    /\ waiting' = waiting \cup {t}
    /\ \E p \in Periods : left' = [left EXCEPT ![t] = p]

Interrupt ==
    /\ left' = [t \in Terminals |-> IF left[t] > 0 THEN left[t] - 1 ELSE 0]
    /\ UNCHANGED waiting

Return(t) ==
    /\ t \in waiting
    /\ left[t] = 0
    /\ waiting' = waiting \ {t}
    /\ UNCHANGED left

Next == Interrupt \/ \E t \in Terminals : Begin(t) \/ Return(t)

Spec == Init /\ [][Next]_vars

=============================================================================
