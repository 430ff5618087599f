---------------------------- MODULE ProcessesInv ----------------------------
(***************************************************************************)
(* The inductive invariants behind the properties of Processes: what the   *)
(* state looks like at every interruptible point of execute and halt.      *)
(* ProcessesProofs proves them; TLC evaluates them on MCProcesses.         *)
(***************************************************************************)
EXTENDS Processes

-----------------------------------------------------------------------------
(* However operations overlap. *)

\* The type invariant with what it takes to be inductive: the pids that the
\* next steps index the tables with are pids, and currpid leaves its range only
\* in a crash.
TypeInv ==
    /\ TypeOK
    /\ \A t \in Term :
         /\ pc[t] \in {"take", "assign"} => slot[t] \in UserPid
         /\ pc[t] = "failed" => restarting[t] # NoPid
         /\ pc[t] \notin {"off", "wild"} => cur_PCB[t] # NoPid
    /\ currpid = MaxProcesses => terminalrun # -1 /\ pc[terminalrun] = "wild"

\* A pid without a parent is a base shell's, or was never loaded: nothing
\* refers to it.
ParentInv ==
    /\ \A p \in BasePid : parent_id[p] = NoPid
    /\ \A p \in UserPid : parent_id[p] = NoPid =>
         /\ ~active[p]
         /\ \A t \in Term : cur_PCB[t] # p
         /\ \A q \in Pid : parent_id[q] # p

-----------------------------------------------------------------------------
(* When operations do not overlap. *)

Disciplined == Overlap = {} /\ MaxSwitches = 0

\* One thread at a time is inside execute or halt, and then all have booted.
OneInKernel ==
    \A t \in Term : pc[t] \notin {"off", "user"} =>
      /\ pc[t] \notin {"wild", "failed", "fault"}
      /\ \A u \in Term \ {t} : pc[u] = "user"

\* Terminals boot in order, and until they have, currpid counts them.
BootOrder ==
    /\ \A t \in Term : pc[t] = "off" <=> cur_PCB[t] = NoPid
    /\ \A t \in Term : pc[t] = "off" =>
         /\ currpid = terminalrun /\ ~baseShellFlag
         /\ terminalrun < t
         /\ \A u \in Term : u > terminalrun => pc[u] = "off"

\* A thread on its way through execute_on_term has the globals to itself.
LaunchState(t) ==
    /\ pc[t] \in {"exec", "arg", "pid", "flag"} => currpid = MaxTerminals
    /\ pc[t] \in {"exec", "arg"} => currTerminal = t
    /\ pc[t] \in LaunchPC \ {"exec", "arg"} => term[t] = t
    /\ pc[t] \in {"scan", "take", "assign"} => restarting[t] = NoPid
    /\ pc[t] \in {"else", "base"} => restarting[t] # NoPid
    /\ pc[t] \in {"take", "assign"} => slot[t] \in UserPid
    /\ pc[t] = "take" => ~processesid[slot[t]]
    /\ pc[t] \in {"clear", "load"} /\ restarting[t] = NoPid =>
         slot[t] \in UserPid /\ currpid = slot[t]
    /\ pc[t] \in {"clear", "load"} /\ restarting[t] # NoPid => currpid = t
    /\ pc[t] = "load" => ~baseShellFlag
    /\ restarting[t] # NoPid =>
         /\ restarting[t] = t /\ cur_PCB[t] = t
         /\ pc[t] \in {"exec", "arg", "pid", "flag", "else", "base", "clear", "load"}
         /\ pc[t] # "load" => baseShellFlag

FlagOwned == baseShellFlag => \E t \in Term : restarting[t] # NoPid

\* Slots, with the pids on the way to a PCB not yet alive.
SlotInv ==
    /\ SlotsExact
    /\ \A t \in Term : \A p \in UserPid : Allocating(t, p) => ~active[p]

\* Every live program hangs below a live process of its terminal, by a frame on
\* that process's stack; no two hang below the same one; the process a terminal
\* runs has none below it.
Tree ==
    /\ \A t \in Term : cur_PCB[t] # NoPid =>
         /\ active[cur_PCB[t]] /\ termid[cur_PCB[t]] = t
         /\ active[t] /\ termid[t] = t
    /\ \A t \in Term : cur_PCB[t] = NoPid => ~active[t]
    /\ \A p \in BasePid : parent_id[p] = NoPid
    /\ \A p \in UserPid : active[p] =>
         /\ parent_id[p] \in Pid /\ active[parent_id[p]]
         /\ termid[parent_id[p]] = termid[p]
         /\ saved_esp[p] = parent_id[p]
         /\ \A t \in Term : cur_PCB[t] # parent_id[p]
         /\ \A q \in UserPid : active[q] /\ q # p => parent_id[q] # parent_id[p]

\* Where each thread's kernel frames are.
Stacks ==
    \A t \in Term :
      /\ pc[t] \in LaunchPC \cup {"return"} => kstack[t] = cur_PCB[t]
      /\ pc[t] = "user" =>
           kstack[t] = IF t = terminalrun THEN NoPid ELSE cur_PCB[t]
      /\ pc[t] = "haltret" =>
           /\ kstack[t] \in UserPid /\ ~active[kstack[t]]
           /\ args_esp[t] = cur_PCB[t]

SerialInv ==
    /\ OneInKernel
    /\ BootOrder
    /\ \A t \in Term : LaunchState(t)
    /\ FlagOwned
    /\ SlotInv
    /\ Tree
    /\ RunningIsMapped
    /\ Stacks
    /\ switches = 0

\* Among live processes some one has no child, so none is its own ancestor; and
\* each that is not the process a terminal runs has a child.
NoCycle ==
    \A S \in SUBSET {p \in Pid : active[p]} :
      S # {} => \E p \in S : \A q \in S : parent_id[q] # p

NoneLost ==
    \A p \in Pid : active[p] =>
      \/ \E t \in Term : cur_PCB[t] = p
      \/ \E q \in UserPid : active[q] /\ parent_id[q] = p

ChainInv == NoCycle /\ NoneLost

=============================================================================
