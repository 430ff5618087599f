--------------------------- MODULE ProcessForest ---------------------------
(***************************************************************************)
(* What execute, halt and the scheduler promise together, without saying   *)
(* how: every terminal has a stack of processes with its own base shell at *)
(* the bottom.  A launch puts one free process on top of the stack of the  *)
(* terminal whose turn it is, an exit takes the top off, the base shell    *)
(* never goes away, and the terminals take turns.                          *)
(***************************************************************************)
EXTENDS Integers

CONSTANTS
    MaxTerminals,   \* positive
    MaxProcesses    \* more than MaxTerminals

Term    == 0..(MaxTerminals - 1)
Pid     == 0..(MaxProcesses - 1)
UserPid == MaxTerminals..(MaxProcesses - 1)
NoPid   == -1
Free    == -2

VARIABLES
    running,    \* the terminal whose turn it is; -1 at first
    top,        \* per terminal, the process on top of its stack
    parent      \* per pid, the process below it, NoPid at the bottom, or Free

vars == <<running, top, parent>>

Init ==
    /\ running = -1
    /\ top = [t \in Term |-> NoPid]
    /\ parent = [p \in Pid |-> Free]

Following == (running + 1) % MaxTerminals

\* The next terminal takes its turn.
Turn ==
    /\ top[Following] # NoPid
    /\ running' = Following
    /\ UNCHANGED <<top, parent>>

\* On its first turn a terminal starts its base shell.
Boot ==
    /\ top[Following] = NoPid
    /\ running' = Following
    /\ top' = [top EXCEPT ![Following] = Following]
    /\ parent' = [parent EXCEPT ![Following] = NoPid]

Launch(p) ==
    /\ running \in Term
    /\ parent[p] = Free
    /\ top' = [top EXCEPT ![running] = p]
    /\ parent' = [parent EXCEPT ![p] = top[running]]
    /\ UNCHANGED running

Exit ==
    /\ running \in Term
    /\ top[running] \in UserPid
    /\ top' = [top EXCEPT ![running] = parent[top[running]]]
    /\ parent' = [parent EXCEPT ![top[running]] = Free]
    /\ UNCHANGED running

Next == Turn \/ Boot \/ Exit \/ \E p \in UserPid : Launch(p)

Spec == Init /\ [][Next]_vars

\* The turns never stop.
FairSpec == Spec /\ WF_vars(Turn \/ Boot)
=============================================================================
