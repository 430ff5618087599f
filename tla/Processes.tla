----------------------------- MODULE Processes -----------------------------
(***************************************************************************)
(* Processes and their scheduling: the execute and halt system calls       *)
(* (syscall.c), the round-robin scheduler that the PIT interrupt calls     *)
(* (scheduler.c), and the part of terminal_switch (terminal.c) they see.   *)
(*                                                                         *)
(* There is one thread of control per terminal.  The thread of terminal t  *)
(* is a chain of processes (a base shell, the program it launched, and so  *)
(* on) of which only the last one, cur_PCB[t], executes.  The CPU runs the *)
(* thread of `terminalrun' until the next PIT interrupt.                   *)
(*                                                                         *)
(* Interrupts are enabled while a system call runs (vector 0x80 is a trap  *)
(* gate), so execute is one action per access to a variable that another   *)
(* thread or a handler uses; what the code does between cli and            *)
(* sti/iret/ret, and what an interrupt handler does, is one action.        *)
(*                                                                         *)
(* A definition whose name begins with Bug is the definition that follows  *)
(* it with a plausible mistake in it.  Nothing uses these; put in the      *)
(* place of the right ones, they show which mistakes a property rules out. *)
(***************************************************************************)
EXTENDS Integers, FiniteSets

CONSTANTS
    MaxTerminals,   \* MAX_TERMINALS: the terminals, and the pids kept for base shells
    MaxProcesses,   \* MAX_NUM_PROCESSES: the pids
    Statuses,       \* the values programs pass to halt
    Overlap,        \* the operations among Operations that happen whenever the
                    \* hardware lets them; the others happen only while every
                    \* thread is in user mode, as if under a lock, which the
                    \* kernel does not have
    MaxSwitches     \* bound: the number of Alt-Fn that arrive while some thread
                    \* is not in user mode

Operations == {"launch", "exit"}

ASSUME ProcessesAssumption ==
    /\ MaxTerminals \in Nat \ {0}
    /\ MaxProcesses \in Nat
    /\ MaxTerminals < MaxProcesses
    /\ Statuses \subseteq 0..255
    /\ 15 \in Statuses              \* any program may raise an exception
    /\ Overlap \subseteq Operations
    /\ MaxSwitches \in Nat

Term     == 0..(MaxTerminals - 1)
Pid      == 0..(MaxProcesses - 1)
BasePid  == Term                    \* the base shell of terminal t has pid t
UserPid  == MaxTerminals..(MaxProcesses - 1)
NoPid    == -1      \* a NULL cur_PCB, the parent_id of a base shell, the
                    \* frame below the user frames, the boot stack
ExceptionStatus == 15               \* HALT_CODE
ExceptionCalled == 256              \* EXCEPTION_CALLED

VARIABLES
    terminalrun,    \* the terminal whose thread has the CPU; -1 before the first tick
    currTerminal,   \* the visible terminal
    currpid,        \* the global through which execute passes the new pid
    baseShellFlag,  \* the global by which halt asks execute for a base shell
    processesid,    \* the pid slots in use
    cur_PCB,        \* per terminal, the process it runs
    parent_id,      \* per pid, four fields of its PCB
    termid,
    saved_esp,      \* (the kernel stack execute was called on)
    active,
    mapped,         \* the frame page_directory[32] maps at 128 MB, by pid
    tss_esp0,       \* the kernel stack the next entry from user mode takes, by pid
    pc,             \* per thread, where it is
    kstack,         \* per thread, the kernel stack its frames are on; NoPid
                    \* when it runs in user mode
    term,           \* per thread, execute_on_term's parameter
    slot,           \* per thread, find_available_pid's i, then rval_pid
    restarting,     \* per thread, the base shell whose halt called execute
    status,         \* per thread, halt's parameter
    retval,         \* per thread, halt's status_ret_val
    args_esp,       \* per thread, halt's local of that name
    switches        \* counts against MaxSwitches

globals == <<terminalrun, currTerminal, currpid, baseShellFlag, processesid>>
pcbs    == <<cur_PCB, parent_id, termid, saved_esp, active>>
machine == <<mapped, tss_esp0>>
locals  == <<pc, kstack, term, slot, restarting, status, retval, args_esp>>
vars    == <<globals, pcbs, machine, locals, switches>>

LaunchPC == {"exec", "arg", "pid", "flag", "else", "base", "scan", "take",
             "assign", "clear", "load"}
PC == LaunchPC \cup {"off", "user", "haltret", "return", "failed", "fault",
                     "wild"}

(***************************************************************************)
(* terminal_init, and the zeroed or never-read rest of the state.          *)
(***************************************************************************)
Init ==
    /\ terminalrun = -1
    /\ currTerminal = 0
    /\ currpid = -1
    /\ baseShellFlag = FALSE
    /\ processesid = [p \in Pid |-> p \in BasePid]
    /\ cur_PCB = [t \in Term |-> NoPid]
    /\ parent_id = [p \in Pid |-> NoPid]
    /\ termid = [p \in Pid |-> 0]
    /\ saved_esp = [p \in Pid |-> NoPid]
    /\ active = [p \in Pid |-> FALSE]
    /\ mapped = NoPid
    /\ tss_esp0 = NoPid
    /\ pc = [t \in Term |-> "off"]
    /\ kstack = [t \in Term |-> NoPid]
    /\ term = [t \in Term |-> 0]
    /\ slot = [t \in Term |-> MaxTerminals]
    /\ restarting = [t \in Term |-> NoPid]
    /\ status = [t \in Term |-> 0]
    /\ retval = [t \in Term |-> 0]
    /\ args_esp = [t \in Term |-> NoPid]
    /\ switches = 0

-----------------------------------------------------------------------------
(* The CPU. *)

BugNextTerminal(t) == (t + 2) % MaxTerminals
NextTerminal(t) == (t + 1) % MaxTerminals

\* Thread t has the CPU, and has not crashed the kernel with interrupts off.
Running(t) == terminalrun = t /\ pc[t] # "wild"

\* The discipline, left to the user, for the operations not in Overlap.
AllInUserMode == \A u \in Term : pc[u] = "user"
MayEnter(op) == op \in Overlap \/ AllInUserMode

\* The scheduler's next_pcb, whose page and kernel stack it loads.
BugContextOf(newterm) == cur_PCB[(newterm + MaxTerminals - 1) % MaxTerminals]
ContextOf(newterm) == cur_PCB[newterm]

\* currpid++ for the shell the scheduler starts.
BugBootPid == currpid
BootPid == currpid + 1

\* The stack the scheduler finds itself on when it interrupts thread t: an
\* interrupt from user mode moves to the TSS stack first.
BugInterrupted(t) == kstack[t]
Interrupted(t) == IF pc[t] = "user" THEN tss_esp0 ELSE kstack[t]

\* savedt_esp of the terminal that loses the CPU.
SaveContext ==
    IF terminalrun = -1 THEN kstack
    ELSE [kstack EXCEPT ![terminalrun] = Interrupted(terminalrun)]

Interruptible == terminalrun # -1 => Running(terminalrun)

(***************************************************************************)
(* scheduler(), when the next terminal has a process: its page and kernel  *)
(* stack are loaded and its saved context resumed.  A terminal that was    *)
(* given a process before its turn came has no context to resume.          *)
(***************************************************************************)
ContextSwitch ==
    LET newterm == NextTerminal(terminalrun)
        next    == ContextOf(newterm)
    IN  /\ Interruptible
        /\ cur_PCB[newterm] # NoPid
        /\ terminalrun' = newterm
        /\ kstack' = [SaveContext EXCEPT ![newterm] =
                        IF pc[newterm] = "user" THEN NoPid ELSE @]
        /\ mapped' = next
        /\ tss_esp0' = next
        /\ pc' = [pc EXCEPT ![newterm] = IF @ = "off" THEN "wild" ELSE @]
        /\ UNCHANGED <<currTerminal, currpid, baseShellFlag, processesid, pcbs,
                       term, slot, restarting, status, retval, args_esp,
                       switches>>

(***************************************************************************)
(* scheduler(), when the next terminal has no process yet: currpid++ and   *)
(* execute_on_term("shell", currpid), from inside the interrupt.  The      *)
(* shell lands in the terminal currpid names; if that is not the terminal  *)
(* whose turn it is, the kernel has lost track and is not followed on.     *)
(***************************************************************************)
BootShell ==
    LET newterm == NextTerminal(terminalrun)
    IN  /\ Interruptible
        /\ cur_PCB[newterm] = NoPid
        /\ terminalrun' = newterm
        /\ currpid' = BootPid
        /\ \/ /\ currpid' = newterm
              /\ baseShellFlag' = FALSE
              /\ cur_PCB' = [cur_PCB EXCEPT ![newterm] = newterm]
              /\ parent_id' = [parent_id EXCEPT ![newterm] = NoPid]
              /\ termid' = [termid EXCEPT ![newterm] = newterm]
              /\ saved_esp' = [saved_esp EXCEPT ![newterm] =
                                 IF terminalrun = -1 THEN NoPid
                                 ELSE Interrupted(terminalrun)]
              /\ active' = [active EXCEPT ![newterm] = TRUE]
              /\ mapped' = newterm
              /\ tss_esp0' = newterm
              /\ pc' = [pc EXCEPT ![newterm] = "user"]
              /\ kstack' = [SaveContext EXCEPT ![newterm] = NoPid]
           \/ /\ currpid' # newterm
              /\ pc' = [pc EXCEPT ![newterm] = "wild"]
              /\ UNCHANGED <<baseShellFlag, pcbs, machine, kstack>>
        /\ UNCHANGED <<currTerminal, processesid, term, slot, restarting,
                       status, retval, args_esp, switches>>

Tick == ContextSwitch \/ BootShell

-----------------------------------------------------------------------------
(* execute *)

Goto(t, l) == pc' = [pc EXCEPT ![t] = l]

LeaveKernel(t) ==
    /\ Goto(t, "user")
    /\ kstack' = [kstack EXCEPT ![t] = NoPid]

\* The locals of execute_on_term and find_available_pid are gone.
DropLocals(t) ==
    /\ term' = [term EXCEPT ![t] = 0]
    /\ slot' = [slot EXCEPT ![t] = MaxTerminals]

\* A program calls execute: the call enters on the TSS stack.
ExecEnter(t) ==
    /\ Running(t) /\ pc[t] = "user"
    /\ MayEnter("launch")
    /\ "launch" \in Overlap \/ currTerminal = t
    /\ currpid' = MaxTerminals
    /\ kstack' = [kstack EXCEPT ![t] = tss_esp0]
    /\ Goto(t, "exec")
    /\ UNCHANGED <<terminalrun, currTerminal, baseShellFlag, processesid, pcbs,
                   machine, term, slot, restarting, status, retval, args_esp,
                   switches>>

\* while(1) if(currTerminal == terminalrun): a thread spins until it is visible.
BugExecGate(t) ==
    /\ Running(t) /\ pc[t] = "exec"
    /\ currTerminal = 0
    /\ Goto(t, "arg")
    /\ UNCHANGED <<globals, pcbs, machine, kstack, term, slot, restarting,
                   status, retval, args_esp, switches>>

ExecGate(t) ==
    /\ Running(t) /\ pc[t] = "exec"
    /\ currTerminal = terminalrun
    /\ Goto(t, "arg")
    /\ UNCHANGED <<globals, pcbs, machine, kstack, term, slot, restarting,
                   status, retval, args_esp, switches>>

\* currTerminal is read a second time for the argument; the file is found.
ExecFound(t) ==
    /\ Running(t) /\ pc[t] = "arg"
    /\ term' = [term EXCEPT ![t] = currTerminal]
    /\ Goto(t, "pid")
    /\ UNCHANGED <<globals, pcbs, machine, kstack, slot, restarting, status,
                   retval, args_esp, switches>>

\* The command names no file, or one that is not executable: -1 to the caller.
\* (halt passes "shell", which is there.)
ExecNotFound(t) ==
    /\ Running(t) /\ pc[t] = "arg"
    /\ restarting[t] = NoPid
    /\ LeaveKernel(t)
    /\ UNCHANGED <<globals, pcbs, machine, term, slot, restarting, status,
                   retval, args_esp, switches>>

\* if ((currpid >= 3)
ExecCheckPid(t) ==
    /\ Running(t) /\ pc[t] = "pid"
    /\ Goto(t, IF currpid >= MaxTerminals THEN "flag" ELSE "else")
    /\ UNCHANGED <<globals, pcbs, machine, kstack, term, slot, restarting,
                   status, retval, args_esp, switches>>

\*                    &&(!baseShellFlag))
BugExecCheckFlag(t) ==
    /\ Running(t) /\ pc[t] = "flag"
    /\ Goto(t, "scan")
    /\ slot' = [slot EXCEPT ![t] = MaxTerminals]
    /\ UNCHANGED <<globals, pcbs, machine, kstack, term, restarting, status,
                   retval, args_esp, switches>>

ExecCheckFlag(t) ==
    /\ Running(t) /\ pc[t] = "flag"
    /\ Goto(t, IF baseShellFlag THEN "else" ELSE "scan")
    /\ slot' = [slot EXCEPT ![t] = MaxTerminals]
    /\ UNCHANGED <<globals, pcbs, machine, kstack, term, restarting, status,
                   retval, args_esp, switches>>

\* else if(baseShellFlag)
ExecElse(t) ==
    /\ Running(t) /\ pc[t] = "else"
    /\ Goto(t, IF baseShellFlag THEN "base" ELSE "clear")
    /\ UNCHANGED <<globals, pcbs, machine, kstack, term, slot, restarting,
                   status, retval, args_esp, switches>>

\* currpid = term
ExecBase(t) ==
    /\ Running(t) /\ pc[t] = "base"
    /\ currpid' = term[t]
    /\ Goto(t, "clear")
    /\ UNCHANGED <<terminalrun, currTerminal, baseShellFlag, processesid, pcbs,
                   machine, kstack, term, slot, restarting, status, retval,
                   args_esp, switches>>

\* find_available_pid reads one slot.
ScanSlot(t) ==
    /\ Running(t) /\ pc[t] = "scan"
    /\ slot[t] \in Pid
    /\ IF processesid[slot[t]]
         THEN slot' = [slot EXCEPT ![t] = @ + 1] /\ pc' = pc
         ELSE slot' = slot /\ Goto(t, "take")
    /\ UNCHANGED <<globals, pcbs, machine, kstack, term, restarting, status,
                   retval, args_esp, switches>>

\* processesid[i] = 1
BugTakeSlot(t) ==
    /\ Running(t) /\ pc[t] = "take"
    /\ Goto(t, "assign")
    /\ UNCHANGED <<globals, pcbs, machine, kstack, term, slot, restarting,
                   status, retval, args_esp, switches>>

TakeSlot(t) ==
    /\ Running(t) /\ pc[t] = "take"
    /\ processesid' = [processesid EXCEPT ![slot[t]] = TRUE]
    /\ Goto(t, "assign")
    /\ UNCHANGED <<terminalrun, currTerminal, currpid, baseShellFlag, pcbs,
                   machine, kstack, term, slot, restarting, status, retval,
                   args_esp, switches>>

\* No slot: "Too many processes called", 0 to the program, or back into halt.
NoSlot(t) ==
    /\ Running(t) /\ pc[t] = "scan"
    /\ slot[t] \notin Pid
    /\ IF restarting[t] = NoPid THEN LeaveKernel(t)
       ELSE Goto(t, "failed") /\ UNCHANGED kstack
    /\ DropLocals(t)
    /\ UNCHANGED <<globals, pcbs, machine, restarting, status, retval,
                   args_esp, switches>>

\* currpid = rval_pid
AssignPid(t) ==
    /\ Running(t) /\ pc[t] = "assign"
    /\ currpid' = slot[t]
    /\ Goto(t, "clear")
    /\ UNCHANGED <<terminalrun, currTerminal, baseShellFlag, processesid, pcbs,
                   machine, kstack, term, slot, restarting, status, retval,
                   args_esp, switches>>

\* baseShellFlag = 0
ClearFlag(t) ==
    /\ Running(t) /\ pc[t] = "clear"
    /\ baseShellFlag' = FALSE
    /\ Goto(t, "load")
    /\ UNCHANGED <<terminalrun, currTerminal, currpid, processesid, pcbs,
                   machine, kstack, term, slot, restarting, status, retval,
                   args_esp, switches>>

\* currpcb->parent_id: -1 for the pids of base shells, else the process the
\* terminal was running.
BugParentOf(t, p) == cur_PCB[term[t]]
BugParentIsShell(t, p) == IF p \in BasePid THEN NoPid ELSE term[t]
ParentOf(t, p) == IF p \in BasePid THEN NoPid ELSE cur_PCB[term[t]]

\* save_esp: the stack execute_on_term runs on.
BugCallerStack(t) == currpid
CallerStack(t) == kstack[t]

(***************************************************************************)
(* From cli to iret: map the frame of currpid, copy the program there,     *)
(* fill the PCB, and enter user mode on the new process.  A negative       *)
(* currpid puts the PCB at 8 MB, and a parent read through a NULL cur_PCB  *)
(* is at address 0: neither page is present, and the kernel faults here.   *)
(***************************************************************************)
LoadFaults(t) ==
    \/ currpid \notin Pid
    \/ currpid \notin BasePid /\ cur_PCB[term[t]] = NoPid

Load(t) ==
    /\ Running(t) /\ pc[t] = "load"
    /\ ~LoadFaults(t)
    /\ LET p == currpid
       IN  /\ mapped' = p
           /\ tss_esp0' = p
           /\ cur_PCB' = [cur_PCB EXCEPT ![term[t]] = p]
           /\ parent_id' = [parent_id EXCEPT ![p] = ParentOf(t, p)]
           /\ termid' = [termid EXCEPT ![p] = term[t]]
           /\ saved_esp' = [saved_esp EXCEPT ![p] = CallerStack(t)]
           /\ active' = [active EXCEPT ![p] = TRUE]
    /\ LeaveKernel(t)
    /\ restarting' = [restarting EXCEPT ![t] = NoPid]
    /\ DropLocals(t)
    /\ UNCHANGED <<globals, status, retval, args_esp, switches>>

LoadFault(t) ==
    /\ Running(t) /\ pc[t] = "load"
    /\ LoadFaults(t)
    /\ Goto(t, "wild")
    /\ UNCHANGED <<globals, pcbs, machine, kstack, term, slot, restarting,
                   status, retval, args_esp, switches>>

-----------------------------------------------------------------------------
(* halt *)

\* status_ret_val
BugStatusRetVal(s) == s
StatusRetVal(s) == IF s = ExceptionStatus THEN ExceptionCalled ELSE 0

\* halt's currpcb.
BugExiting(t) == currpid
Exiting(t) == cur_PCB[t]

\* halt is called by a program, or by the exception handler for a fault of
\* a program or of the kernel.
EnterHalt(t, s) ==
    /\ Running(t)
    /\ \/ pc[t] = "user" /\ MayEnter("exit")
       \/ pc[t] = "fault" /\ s = ExceptionStatus

(***************************************************************************)
(* halt(s) by a program whose parent is another program, from cli to sti:  *)
(* its pid is free again while the thread is still on its kernel stack.    *)
(***************************************************************************)
Halt(t, s) ==
    LET p      == Exiting(t)
        parent == parent_id[p]
    IN  /\ EnterHalt(t, s)
        /\ parent # NoPid
        /\ active' = [active EXCEPT ![p] = FALSE, ![parent] = TRUE]
        /\ processesid' = [processesid EXCEPT ![p] = FALSE]
        /\ currpid' = parent
        /\ mapped' = parent
        /\ tss_esp0' = parent
        /\ cur_PCB' = [cur_PCB EXCEPT ![t] = parent]
        /\ args_esp' = [args_esp EXCEPT ![t] = saved_esp[p]]
        /\ kstack' = [kstack EXCEPT ![t] = Interrupted(t)]
        /\ status' = [status EXCEPT ![t] = s]
        /\ retval' = [retval EXCEPT ![t] = StatusRetVal(s)]
        /\ restarting' = [restarting EXCEPT ![t] = NoPid]
        /\ Goto(t, "haltret")
        /\ UNCHANGED <<terminalrun, currTerminal, baseShellFlag, parent_id,
                       termid, saved_esp, term, slot, switches>>

\* esp = saved_esp; leave; ret: back in the execute that launched the program.
HaltReturn(t) ==
    /\ Running(t) /\ pc[t] = "haltret"
    /\ kstack' = [kstack EXCEPT ![t] = args_esp[t]]
    /\ args_esp' = [args_esp EXCEPT ![t] = NoPid]
    /\ Goto(t, "return")
    /\ UNCHANGED <<globals, pcbs, machine, term, slot, restarting, status,
                   retval, switches>>

\* execute returns to the program that called it.
ExecReturn(t) ==
    /\ Running(t) /\ pc[t] = "return"
    /\ LeaveKernel(t)
    /\ status' = [status EXCEPT ![t] = 0]
    /\ retval' = [retval EXCEPT ![t] = 0]
    /\ UNCHANGED <<globals, pcbs, machine, term, slot, restarting, args_esp,
                   switches>>

\* halt of a base shell: baseShellFlag = 1; execute("shell"), still inside halt.
BaseExit(t, s) ==
    /\ EnterHalt(t, s)
    /\ "exit" \in Overlap \/ currTerminal = t \/ pc[t] = "fault"
    /\ parent_id[Exiting(t)] = NoPid
    /\ kstack' = [kstack EXCEPT ![t] = Interrupted(t)]
    /\ baseShellFlag' = TRUE
    /\ currpid' = MaxTerminals
    /\ restarting' = [restarting EXCEPT ![t] = Exiting(t)]
    /\ Goto(t, "exec")
    /\ UNCHANGED <<terminalrun, currTerminal, processesid, pcbs, machine, term,
                   slot, status, retval, args_esp, switches>>

(***************************************************************************)
(* execute came back into halt: halt goes on with parent_id -1, gives up   *)
(* the base shell's slot, maps the frame below the user frames, and writes *)
(* to the PCB of pid -1, which is not mapped: a page fault, and so another *)
(* halt.  One step, because nothing but the crash follows.                 *)
(***************************************************************************)
RestartFailed(t) ==
    /\ Running(t) /\ pc[t] = "failed"
    /\ active' = [active EXCEPT ![restarting[t]] = FALSE]
    /\ processesid' = [processesid EXCEPT ![restarting[t]] = FALSE]
    /\ currpid' = NoPid
    /\ mapped' = NoPid
    /\ Goto(t, "fault")
    /\ UNCHANGED <<terminalrun, currTerminal, baseShellFlag, cur_PCB,
                   parent_id, termid, saved_esp, tss_esp0, kstack, term, slot,
                   restarting, status, retval, args_esp, switches>>

-----------------------------------------------------------------------------
(* terminal_switch from the keyboard handler: Alt-F1..F3. *)
SwitchTerminal(n) ==
    /\ Interruptible
    /\ n # currTerminal
    /\ currTerminal' = n
    /\ \/ AllInUserMode /\ UNCHANGED switches
       \/ ~AllInUserMode /\ switches < MaxSwitches /\ switches' = switches + 1
    /\ UNCHANGED <<terminalrun, currpid, baseShellFlag, processesid, pcbs,
                   machine, locals>>

\* The steps a thread takes by itself once it is inside the kernel.
KernelStep(t) ==
    \/ ExecGate(t) \/ ExecFound(t) \/ ExecNotFound(t)
    \/ ExecCheckPid(t) \/ ExecCheckFlag(t) \/ ExecElse(t) \/ ExecBase(t)
    \/ ScanSlot(t) \/ TakeSlot(t) \/ NoSlot(t) \/ AssignPid(t)
    \/ ClearFlag(t) \/ Load(t) \/ LoadFault(t)
    \/ HaltReturn(t) \/ ExecReturn(t) \/ RestartFailed(t)
    \/ /\ pc[t] = "fault"
       /\ Halt(t, ExceptionStatus) \/ BaseExit(t, ExceptionStatus)

\* The steps a program chooses to take.
UserStep(t) ==
    \/ ExecEnter(t)
    \/ \E s \in Statuses : pc[t] = "user" /\ (Halt(t, s) \/ BaseExit(t, s))

Next ==
    \/ Tick
    \/ \E t \in Term : KernelStep(t) \/ UserStep(t)
    \/ \E n \in Term : SwitchTerminal(n)

Spec == Init /\ [][Next]_vars

(***************************************************************************)
(* The PIT keeps ticking, and a time slice is long enough for a thread in  *)
(* the kernel to take a step in one of its turns.  Programs and the user   *)
(* owe nothing.                                                            *)
(***************************************************************************)
FairSpec ==
    /\ Spec
    /\ WF_vars(Tick)
    /\ \A t \in Term : SF_vars(KernelStep(t))

-----------------------------------------------------------------------------
(* What must hold whatever programs and the user do. *)

StackPtr == Pid \cup {NoPid}

\* Every variable has its type; pids in PCBs are pids, and so on.
TypeOK ==
    /\ terminalrun \in Term \cup {-1}
    /\ currTerminal \in Term
    /\ currpid \in -1..MaxProcesses
    /\ baseShellFlag \in BOOLEAN
    /\ processesid \in [Pid -> BOOLEAN]
    /\ cur_PCB \in [Term -> Pid \cup {NoPid}]
    /\ parent_id \in [Pid -> Pid \cup {NoPid}]
    /\ termid \in [Pid -> Term]
    /\ saved_esp \in [Pid -> StackPtr]
    /\ active \in [Pid -> BOOLEAN]
    /\ mapped \in Pid \cup {NoPid}
    /\ tss_esp0 \in StackPtr
    /\ pc \in [Term -> PC]
    /\ kstack \in [Term -> StackPtr]
    /\ term \in [Term -> Term]
    /\ slot \in [Term -> MaxTerminals..MaxProcesses]
    /\ restarting \in [Term -> Pid \cup {NoPid}]
    /\ status \in [Term -> 0..255]
    /\ retval \in [Term -> {0, ExceptionCalled}]
    /\ args_esp \in [Term -> StackPtr]
    /\ switches \in 0..MaxSwitches

\* halt tells a base shell, which it restarts, from a program, which it
\* unwinds, by parent_id (syscall.c:379): however launches and exits overlap, a
\* live process has no parent exactly when its pid is one of the base shells'.
BaseHasNoParent ==
    \A p \in Pid : active[p] => (parent_id[p] = NoPid <=> p \in BasePid)

-----------------------------------------------------------------------------
(* What must hold when launches, exits and Alt-Fn do not overlap. *)

Booted(t) == cur_PCB[t] # NoPid

\* The processes from cur_PCB[t] down to the base shell, by parent_id.
Up(t) ==
    LET up[n \in 0..MaxProcesses] ==
          IF n = 0 THEN cur_PCB[t]
          ELSE LET p == up[n - 1] IN IF p = NoPid THEN NoPid ELSE parent_id[p]
    IN  up

Chain(t) == {Up(t)[n] : n \in 0..MaxProcesses} \ {NoPid}

\* Unwinding a terminal by halt meets every live process of that terminal and
\* no other, and ends in the terminal's own base shell: none is leaked, shared
\* by two terminals, its own ancestor, or on top of a dead one.
ProcessChains ==
    \A t \in Term :
      LET chain == Chain(t)
      IN  /\ chain = {p \in Pid : active[p] /\ termid[p] = t}
          /\ Booted(t) => t \in chain

\* A slot is taken exactly while its process lives or a thread is on the way
\* from find_available_pid to the PCB: no slot leaks, none is free under a
\* live process.
Allocating(t, p) ==
    pc[t] \in {"assign", "clear", "load"} /\ restarting[t] = NoPid /\ slot[t] = p
SlotsExact ==
    \A p \in UserPid :
      processesid[p] <=> active[p] \/ \E t \in Term : Allocating(t, p)

\* The code that runs is that of the process the kernel believes to run: the
\* page at 128 MB and the TSS stack are those of cur_PCB of the terminal with
\* the CPU, also in the middle of a launch or an exit ("Switch execution to
\* current terminal's user program", scheduler.c:89).
RunningIsMapped ==
    terminalrun # -1 /\ pc[terminalrun] # "wild" =>
      mapped = cur_PCB[terminalrun] /\ tss_esp0 = cur_PCB[terminalrun]

\* The kernel stack that thread t's frames are on, or will be.
StackOf(t) == IF terminalrun = t THEN Interrupted(t) ELSE kstack[t]

\* "ESP EBP of the previously running terminal is saved so it can be returned
\* to" (scheduler.c:74): no two threads have frames on one kernel stack, and
\* none is on the stack of a process of another terminal.
StacksApart ==
    \A t \in Term : Booted(t) =>
      /\ \A u \in Term \ {t} : Booted(u) => StackOf(t) # StackOf(u)
      /\ \A p \in Pid : active[p] /\ p = StackOf(t) => termid[p] = t

\* A program that halts resumes its parent's execute: the frame it jumps to is
\* on the stack of the process that is current again, and so it is for every
\* process still to be unwound.
HaltReturnsToParent ==
    /\ \A t \in Term : pc[t] = "haltret" => args_esp[t] = cur_PCB[t]
    /\ \A t \in Term : pc[t] = "return" => kstack[t] = cur_PCB[t]
    /\ \A p \in UserPid : active[p] => saved_esp[p] = parent_id[p]

\* "Switch execution to current terminal's user program" (scheduler.c:89): a
\* program the scheduler resumes in user mode is the one whose page it maps; its
\* saved frame is on the kernel stack of cur_PCB.
ResumesOwnProgram ==
    [][terminalrun' # terminalrun /\ cur_PCB[terminalrun'] # NoPid
         /\ pc[terminalrun'] = "user" =>
           kstack[terminalrun'] = mapped']_vars

\* "after init 0->2 always pid 3 for max processes check" (syscall.c:43): once
\* every terminal has its shell, the check of currpid in execute_on_term sees
\* the value that execute wrote.
CheckSeesPid3 ==
    \A t \in Term :
      Running(t) /\ pc[t] = "pid" /\ (\A u \in Term : pc[u] # "off") =>
        currpid = MaxTerminals

\* The thread that leaves a freed kernel stack is alone on it: its pid has not
\* been given to another program while halt is between sti and ret.
NoStackReuse ==
    \A t \in Term : pc[t] = "haltret" =>
      \A p \in Pid : p = kstack[t] => ~active[p]

\* A launch loads a program over no live process, except the base shell that
\* halt is restarting (syscall.c:23-32, 167-202).
LaunchTakesFreePid ==
    [][\A t \in Term : pc[t] = "load" /\ pc'[t] = "user" =>
         ~active[mapped'] \/ mapped' = restarting[t]]_vars

\* Pids 0 to 2 are for base shells (syscall.c:216): the shell that halt starts
\* again in the place of a base shell is a base shell again.
RestartKeepsBasePid ==
    [][\A t \in Term :
         pc[t] = "load" /\ pc'[t] = "user" /\ restarting[t] # NoPid =>
           cur_PCB'[t] = restarting[t]]_vars

\* A step takes down at most the process on top of the terminal that has the
\* CPU, and leaves the other terminals' processes alone.
ExitTakesOnlyTop ==
    [][/\ \A p \in Pid : active[p] /\ ~active'[p] =>
            p = cur_PCB[terminalrun] /\ p \in UserPid
       /\ \A t \in Term : t # terminalrun' => cur_PCB'[t] = cur_PCB[t]]_vars

\* "init the 3 terminals" (scheduler.c:84): the base shell that the scheduler
\* starts is the one of the terminal whose first turn it is.
BootInOrder ==
    [][pc'[terminalrun'] = "wild" => terminalrun' = terminalrun]_vars

\* "terminates a process, returning the specified value to its parent process"
\* (syscall.c:338).
HaltDeliversStatus ==
    \A t \in Term :
      pc[t] = "return" /\ status[t] # ExceptionStatus => retval[t] = status[t]

\* Every launch ends, in the new program or back in the caller.
LaunchCompletes == \A t \in Term : pc[t] \in LaunchPC ~> pc[t] = "user"

\* Every terminal gets its base shell.
BootCompletes == <>(\A t \in Term : Booted(t))

\* The processes are the forest that ProcessForest describes.
LiveParent == [p \in Pid |-> IF active[p] THEN parent_id[p] ELSE -2]

Forest == INSTANCE ProcessForest WITH
    running <- terminalrun,
    top     <- cur_PCB,
    parent  <- LiveParent

ForestSpec == Forest!Spec
ForestFairSpec == Forest!FairSpec

=============================================================================
