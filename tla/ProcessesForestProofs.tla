----------------------- MODULE ProcessesForestProofs -------------------------
(***************************************************************************)
(* Proofs about Processes when launches, exits and Alt-Fn do not overlap:  *)
(* what a step does to the processes (action properties), and that the     *)
(* processes are the forest of ProcessForest.                              *)
(***************************************************************************)
EXTENDS ProcessesSerialProofs, FiniteSetTheorems, WellFoundedInduction

\* What a step of the forest is, in the variables of Processes.
TurnTaken ==
    /\ cur_PCB[NextTerminal(terminalrun)] # NoPid
    /\ terminalrun' = NextTerminal(terminalrun)
    /\ UNCHANGED <<cur_PCB, parent_id, active>>

ShellBooted ==
    /\ terminalrun' = NextTerminal(terminalrun)
    /\ terminalrun' \in Term /\ cur_PCB[terminalrun'] = NoPid
    /\ cur_PCB' = [cur_PCB EXCEPT ![terminalrun'] = terminalrun']
    /\ parent_id' = [parent_id EXCEPT ![terminalrun'] = NoPid]
    /\ active' = [active EXCEPT ![terminalrun'] = TRUE]

Launched(p) ==
    /\ terminalrun \in Term /\ UNCHANGED terminalrun
    /\ ~active[p]
    /\ cur_PCB' = [cur_PCB EXCEPT ![terminalrun] = p]
    /\ parent_id' = [parent_id EXCEPT ![p] = cur_PCB[terminalrun]]
    /\ active' = [active EXCEPT ![p] = TRUE]

Exited ==
    /\ terminalrun \in Term /\ UNCHANGED <<terminalrun, parent_id>>
    /\ cur_PCB[terminalrun] \in UserPid
    /\ active[cur_PCB[terminalrun]]
    /\ cur_PCB' = [cur_PCB EXCEPT ![terminalrun] = parent_id[cur_PCB[terminalrun]]]
    /\ active' = [active EXCEPT ![cur_PCB[terminalrun]] = FALSE]

Unseen == UNCHANGED <<terminalrun, cur_PCB, parent_id, active>>

-----------------------------------------------------------------------------

\* The steps between the entry into execute and the PCB, and those that leave
\* execute without a new process, write no PCB and put nothing in user mode.
LEMMA QuietSteps ==
    ASSUME TypeInv, NEW t \in Term,
           \/ Proceeds(t)
           \/ ComesBack(t)
           \/ HaltReturn(t)
           \/ ExecEnter(t)
           \/ \E s \in 0..255 : pc[t] = "user" /\ BaseExit(t, s)
    PROVE  /\ UNCHANGED <<terminalrun, pcbs>>
           /\ Running(t)
           /\ \A u \in Term : pc[u] = "load" => pc'[u] # "user"
  <1>1. UNCHANGED <<terminalrun, pcbs>> /\ Running(t) /\ pc[t] # "load"
    BY DEF Proceeds, ComesBack, ExecGate, ExecFound, ExecCheckPid,
           ExecCheckFlag, ExecElse, ExecBase, ScanSlot, TakeSlot, AssignPid, ClearFlag,
           ExecNotFound, ExecReturn, NoSlot, HaltReturn, ExecEnter, BaseExit,
           EnterHalt, globals
  <1>2. \A u \in Term \ {t} : pc'[u] = pc[u]
    <2>1. CASE Proceeds(t)
      BY <2>1
      DEF Proceeds, ComesBack, ExecGate, ExecFound, ExecCheckPid,
          ExecCheckFlag, ExecElse, ExecBase, ScanSlot, TakeSlot, AssignPid, ClearFlag,
          Goto, TypeInv, TypeOK
    <2>2. CASE \/ ComesBack(t)
               \/ HaltReturn(t) \/ ExecEnter(t)
               \/ \E s \in 0..255 : pc[t] = "user" /\ BaseExit(t, s)
      BY <2>2
      DEF ComesBack, ExecNotFound, ExecReturn, NoSlot, HaltReturn, ExecEnter,
          BaseExit, Goto, LeaveKernel, TypeInv, TypeOK
    <2> QED
      BY <2>1, <2>2
  <1>3. \A u \in Term : pc[u] = "load" => pc'[u] = "load"
    BY <1>1, <1>2
  <1> QED
    BY <1>1, <1>3

\* What Load does to the processes.
LEMMA LoadEffect ==
    ASSUME TypeInv, SerialInv, NEW t \in Term, Load(t)
    PROVE  /\ terminalrun = t /\ terminalrun' = t
           /\ currpid \in Pid /\ mapped' = currpid /\ pc[t] = "load"
           /\ \A u \in Term \ {t} : pc[u] = "user"
           /\ cur_PCB[t] \in Pid
           /\ cur_PCB' = [cur_PCB EXCEPT ![t] = currpid]
           /\ parent_id' = [parent_id EXCEPT ![currpid] =
                              IF currpid \in BasePid THEN NoPid ELSE cur_PCB[t]]
           /\ active' = [active EXCEPT ![currpid] = TRUE]
           /\ restarting[t] = NoPid => currpid \in UserPid /\ ~active[currpid]
           /\ restarting[t] # NoPid =>
                /\ currpid = t /\ restarting[t] = t /\ cur_PCB[t] = t
                /\ active[t] /\ parent_id[t] = NoPid
  <1>1. Running(t) /\ pc[t] = "load"
    BY DEF Load
  <1>2. term[t] = t
    BY <1>1 DEF SerialInv, LaunchState, LaunchPC
  <1>3. cur_PCB[t] \in Pid /\ \A u \in Term \ {t} : pc[u] = "user"
    BY <1>1, Inside
  <1>4. restarting[t] = NoPid => currpid \in UserPid /\ ~active[currpid]
    <2>1. restarting[t] = NoPid => slot[t] \in UserPid /\ currpid = slot[t]
      BY <1>1 DEF SerialInv, LaunchState
    <2>2. \A p \in UserPid : Allocating(t, p) => ~active[p]
      BY DEF SerialInv, SlotInv
    <2> QED
      BY <1>1, <2>1, <2>2 DEF Allocating
  <1>5. restarting[t] # NoPid => currpid = t /\ restarting[t] = t /\ cur_PCB[t] = t
    BY <1>1 DEF SerialInv, LaunchState
  <1>6. active[t] /\ parent_id[t] = NoPid
    BY <1>3, PidFacts DEF SerialInv, Tree
  <1> QED
    BY <1>1, <1>2, <1>3, <1>4, <1>5, <1>6
    DEF Load, LoadFaults, ParentOf, Running, globals

\* What halt does to the processes.
LEMMA HaltEffect ==
    ASSUME Disciplined, TypeInv, SerialInv, NEW t \in Term, NEW s \in 0..255,
           Halt(t, s)
    PROVE  /\ terminalrun = t /\ terminalrun' = t
           /\ \A u \in Term : pc[u] = "user"
           /\ cur_PCB[t] \in UserPid /\ active[cur_PCB[t]]
           /\ parent_id[cur_PCB[t]] \in Pid
           /\ parent_id[cur_PCB[t]] # cur_PCB[t]
           /\ cur_PCB' = [cur_PCB EXCEPT ![t] = parent_id[cur_PCB[t]]]
           /\ parent_id' = parent_id
           /\ active' = [active EXCEPT ![cur_PCB[t]] = FALSE]
  <1>1. Running(t)
    BY DEF Halt, EnterHalt
  <1>2. \A u \in Term : pc[u] = "user" /\ cur_PCB[u] \in Pid
    BY <1>1, Entering
  <1>3. /\ parent_id[cur_PCB[t]] # NoPid
        /\ cur_PCB' = [cur_PCB EXCEPT ![t] = parent_id[cur_PCB[t]]]
        /\ active' = [active EXCEPT ![cur_PCB[t]] = FALSE,
                                    ![parent_id[cur_PCB[t]]] = TRUE]
        /\ UNCHANGED <<terminalrun, parent_id>>
    BY DEF Halt, Exiting
  <1>4. active[cur_PCB[t]]
    BY <1>2, PidFacts DEF SerialInv, Tree
  <1>5. cur_PCB[t] \in UserPid
    BY <1>2, <1>3, PidFacts DEF SerialInv, Tree
  <1>6. /\ parent_id[cur_PCB[t]] \in Pid /\ active[parent_id[cur_PCB[t]]]
        /\ parent_id[cur_PCB[t]] # cur_PCB[t]
    BY <1>4, <1>5 DEF SerialInv, Tree
  <1>7. active' = [active EXCEPT ![cur_PCB[t]] = FALSE]
    BY <1>2, <1>3, <1>6 DEF TypeInv, TypeOK
  <1> QED
    BY <1>1, <1>2, <1>3, <1>4, <1>5, <1>6, <1>7 DEF Running

LEMMA UntouchedVars ==
    ASSUME TypeInv, UNCHANGED vars
    PROVE  /\ UNCHANGED <<terminalrun, pcbs>>
           /\ \A t \in Term : ~(pc[t] = "load" /\ pc'[t] = "user")
  BY DEF vars, globals, locals

LEMMA TickLoads ==
    ASSUME TypeInv, SerialInv, ContextSwitch \/ BootShell, NEW t \in Term
    PROVE  pc[t] = "load" => pc'[t] # "user"
  <1>1. CASE ContextSwitch
    BY <1>1, NextTerminalType DEF ContextSwitch, TypeInv, TypeOK
  <1>2. CASE BootShell
    <2>1. pc[terminalrun'] = "off" /\ pc' = [pc EXCEPT ![terminalrun'] = "user"]
      BY <1>2, BootShellStep
    <2> QED
      BY <2>1 DEF TypeInv, TypeOK
  <1> QED
    BY <1>1, <1>2

\* The one step that puts a process in user mode.
LEMMA OnlyLoadLoads ==
    ASSUME Disciplined, TypeInv, SerialInv, [Next]_vars, NEW t \in Term,
           pc[t] = "load", pc'[t] = "user"
    PROVE  Load(t)
  <1>1. Next
    BY UntouchedVars
  <1>2. \E u \in Term : Load(u)
    <2>1. ~ContextSwitch /\ ~BootShell
      BY TickLoads
    <2>2. \A n \in Term : ~SwitchTerminal(n)
      BY DEF SwitchTerminal, locals
    <2>3. \A u \in Term : \A s \in 0..255 : ~(pc[u] = "user" /\ Halt(u, s))
      BY HaltEffect
    <2> QED
      BY <1>1, <2>1, <2>2, <2>3, SerialSteps, QuietSteps, ZenonT(40)
  <1>3. PICK u \in Term : Load(u)
    BY <1>2
  <1> QED
    BY <1>3, LoadEffect

\* A launch loads its program over no live process, except the base shell that
\* halt restarts (find_available_pid and execute_on_term, syscall.c:23-32, 167-202).
THEOREM LaunchTakesFreePidCorrect ==
    ASSUME Disciplined
    PROVE  Spec => LaunchTakesFreePid
  <1>1. ASSUME TypeInv, SerialInv, [Next]_vars, NEW t \in Term,
               pc[t] = "load" /\ pc'[t] = "user"
        PROVE  ~active[mapped'] \/ mapped' = restarting[t]
    BY <1>1, OnlyLoadLoads, LoadEffect
  <1>2. TypeInv /\ SerialInv /\ [Next]_vars =>
          [\A t \in Term : pc[t] = "load" /\ pc'[t] = "user" =>
             ~active[mapped'] \/ mapped' = restarting[t]]_vars
    BY <1>1
  <1> QED
    BY <1>2, SerialInvCorrect, PTL DEF Spec, LaunchTakesFreePid

\* The shell that halt starts in the place of a base shell is loaded into that
\* base shell's pid (syscall.c:167-181, 216, 379-382).
THEOREM RestartKeepsBasePidCorrect ==
    ASSUME Disciplined
    PROVE  Spec => RestartKeepsBasePid
  <1>1. ASSUME TypeInv, SerialInv, [Next]_vars, NEW t \in Term,
               pc[t] = "load" /\ pc'[t] = "user" /\ restarting[t] # NoPid
        PROVE  cur_PCB'[t] = restarting[t]
    BY <1>1, OnlyLoadLoads, LoadEffect DEF TypeInv, TypeOK
  <1>2. TypeInv /\ SerialInv /\ [Next]_vars =>
          [\A t \in Term :
             pc[t] = "load" /\ pc'[t] = "user" /\ restarting[t] # NoPid =>
               cur_PCB'[t] = restarting[t]]_vars
    BY <1>1
  <1> QED
    BY <1>2, SerialInvCorrect, PTL DEF Spec, RestartKeepsBasePid


\* A program the scheduler resumes in user mode has its saved frame on the kernel
\* stack of the process whose page is mapped (scheduler.c:89-110).
THEOREM ResumesOwnProgramCorrect ==
    ASSUME Disciplined
    PROVE  Spec => ResumesOwnProgram
  <1>1. ASSUME TypeInv, SerialInv, [Next]_vars, terminalrun' # terminalrun,
               cur_PCB[terminalrun'] # NoPid, pc[terminalrun'] = "user"
        PROVE  kstack[terminalrun'] = mapped'
    <2>1. Next
      BY <1>1, UntouchedVars
    <2>2. Tick
      BY <1>1, <2>1, OnlyTickSwitches
    <2>3. ContextSwitch
      BY <1>1, <2>2, BootShellStep DEF Tick
    <2>4. terminalrun' \in Term /\ mapped' = cur_PCB[terminalrun']
      BY <1>1, <2>3, NextTerminalType
      DEF ContextSwitch, ContextOf, TypeInv, TypeOK
    <2> QED
      <3>1. pc[terminalrun'] = "user" => kstack[terminalrun'] = cur_PCB[terminalrun']
        BY <1>1, <2>4 DEF SerialInv, Stacks
      <3> QED
        BY <1>1, <2>4, <3>1
  <1>2. TypeInv /\ SerialInv /\ [Next]_vars =>
          [terminalrun' # terminalrun /\ cur_PCB[terminalrun'] # NoPid
             /\ pc[terminalrun'] = "user" =>
               kstack[terminalrun'] = mapped']_vars
    BY <1>1
  <1> QED
    BY <1>2, SerialInvCorrect, PTL DEF Spec, ResumesOwnProgram

\* Every step is a step of the forest, or changes nothing the forest shows.
LEMMA ForestStep ==
    ASSUME Disciplined, TypeInv, SerialInv, [Next]_vars
    PROVE  \/ TurnTaken \/ ShellBooted
           \/ \E p \in UserPid : Launched(p)
           \/ Exited \/ Unseen
  <1>1. CASE UNCHANGED vars
    BY <1>1, UntouchedVars DEF pcbs, Unseen
  <1>2. CASE ContextSwitch
    BY <1>2 DEF ContextSwitch, ContextOf, TurnTaken, pcbs
  <1>3. CASE BootShell
    BY <1>3, BootShellStep DEF BootShell, ShellBooted
  <1>4. ASSUME NEW t \in Term,
               \/ Proceeds(t)
               \/ ComesBack(t)
               \/ HaltReturn(t)
               \/ ExecEnter(t)
               \/ \E s \in 0..255 : pc[t] = "user" /\ BaseExit(t, s)
        PROVE  Unseen
    BY <1>4, QuietSteps DEF pcbs, Unseen
  <1>5. ASSUME NEW t \in Term, Load(t), restarting[t] = NoPid
        PROVE  \E p \in UserPid : Launched(p)
    <2>1. /\ terminalrun = t /\ terminalrun' = t
          /\ currpid \in UserPid /\ ~active[currpid] /\ currpid \notin BasePid
          /\ cur_PCB' = [cur_PCB EXCEPT ![t] = currpid]
          /\ parent_id' = [parent_id EXCEPT ![currpid] =
                             IF currpid \in BasePid THEN NoPid ELSE cur_PCB[t]]
          /\ active' = [active EXCEPT ![currpid] = TRUE]
      BY <1>5, LoadEffect, PidFacts
    <2> QED
      BY <2>1 DEF Launched
  <1>6. ASSUME NEW t \in Term, Load(t), restarting[t] # NoPid
        PROVE  Unseen
    <2>1. /\ terminalrun = t /\ terminalrun' = t /\ t \in BasePid
          /\ cur_PCB[t] = t /\ active[t] /\ parent_id[t] = NoPid
          /\ cur_PCB' = [cur_PCB EXCEPT ![t] = t]
          /\ parent_id' = [parent_id EXCEPT ![t] =
                             IF t \in BasePid THEN NoPid ELSE cur_PCB[t]]
          /\ active' = [active EXCEPT ![t] = TRUE]
      BY <1>6, LoadEffect, PidFacts
    <2> QED
      BY <2>1, PidFacts DEF TypeInv, TypeOK, Unseen
  <1>7. ASSUME NEW t \in Term, NEW s \in 0..255, Halt(t, s)
        PROVE  Exited
    BY <1>7, HaltEffect, ZenonT(40) DEF Exited
  <1>8. ASSUME NEW n \in Term, SwitchTerminal(n)
        PROVE  Unseen
    BY <1>8 DEF SwitchTerminal, pcbs, Unseen
  <1>9. CASE \E t \in Term : Load(t)
    <2>1. PICK t \in Term : Load(t)
      BY <1>9
    <2>2. CASE restarting[t] = NoPid
      BY <2>1, <2>2, <1>5, Zenon
    <2>3. CASE restarting[t] # NoPid
      BY <2>1, <2>3, <1>6, Zenon
    <2> QED
      BY <2>2, <2>3
  <1>10. CASE \E t \in Term : \E s \in 0..255 : pc[t] = "user" /\ Halt(t, s)
    <2>1. PICK t \in Term, s \in 0..255 : Halt(t, s)
      BY <1>10
    <2> QED
      BY <2>1, <1>7, Zenon
  <1>11. CASE \E n \in Term : SwitchTerminal(n)
    BY <1>8, <1>11, Zenon
  <1>12. CASE Next
    BY <1>2, <1>3, <1>4, <1>9, <1>10, <1>11, <1>12, SerialSteps,
       ZenonT(40)
  <1> QED
    BY <1>1, <1>12

\* A step ends at most the process on top of the terminal that has the CPU, never a
\* base shell, and changes no other terminal's process (halt, syscall.c:388-438).
THEOREM ExitTakesOnlyTopCorrect ==
    ASSUME Disciplined
    PROVE  Spec => ExitTakesOnlyTop
  <1>1. ASSUME TypeInv, SerialInv, [Next]_vars
        PROVE  /\ \A p \in Pid : active[p] /\ ~active'[p] =>
                    p = cur_PCB[terminalrun] /\ p \in UserPid
               /\ \A t \in Term : t # terminalrun' => cur_PCB'[t] = cur_PCB[t]
    BY <1>1, ForestStep
    DEF TypeInv, TypeOK, TurnTaken, ShellBooted, Launched, Exited, Unseen
  <1>2. TypeInv /\ SerialInv /\ [Next]_vars =>
          [/\ \A p \in Pid : active[p] /\ ~active'[p] =>
                p = cur_PCB[terminalrun] /\ p \in UserPid
           /\ \A t \in Term : t # terminalrun' => cur_PCB'[t] = cur_PCB[t]]_vars
    BY <1>1
  <1> QED
    BY <1>2, SerialInvCorrect, PTL DEF Spec, ExitTakesOnlyTop

\* execute, halt and the scheduler implement the forest of processes of
\* ProcessForest: every step is a turn, a boot, a launch, an exit, or none of them.
THEOREM ForestRefined ==
    ASSUME Disciplined
    PROVE  Spec => ForestSpec
  <1>1. Init => Forest!Init
    BY DEF Init, Forest!Init, LiveParent, Forest!Term, Forest!Pid,
           Forest!NoPid, Forest!Free, Term, Pid, NoPid
  <1>2. ASSUME TypeInv, SerialInv, [Next]_vars
        PROVE  [Forest!Next]_(Forest!vars)
    <2>0. /\ NextTerminal(terminalrun) = Forest!Following
          /\ UserPid = Forest!UserPid /\ NoPid = Forest!NoPid /\ Term = Forest!Term
          /\ Pid = Forest!Pid /\ Forest!Free = -2
      BY DEF NextTerminal, Forest!Following, UserPid, Forest!UserPid, NoPid,
         Forest!NoPid, Term, Forest!Term, Forest!Free, Pid, Forest!Pid
    <2>1. CASE TurnTaken
      <3>1. LiveParent' = LiveParent
        BY <2>1 DEF LiveParent, TurnTaken
      <3>2. Forest!Turn
        BY <2>0, <2>1, <3>1 DEF Forest!Turn, TurnTaken
      <3> QED
        BY <3>2 DEF Forest!Next
    <2>2. CASE ShellBooted
      <3>1. LiveParent' = [LiveParent EXCEPT ![terminalrun'] = NoPid]
        BY <1>2, <2>2, PidFacts DEF LiveParent, TypeInv, TypeOK, ShellBooted
      <3>2. Forest!Boot
        BY <2>0, <2>2, <3>1 DEF Forest!Boot, ShellBooted
      <3> QED
        BY <3>2 DEF Forest!Next
    <2>3. CASE \E p \in UserPid : Launched(p)
      <3>1. PICK p \in UserPid : Launched(p)
        BY <2>3
      <3>2. p \in Pid
        BY PidFacts
      <3>3. /\ LiveParent[p] = -2
            /\ LiveParent' = [LiveParent EXCEPT ![p] = cur_PCB[terminalrun]]
        BY <1>2, <3>1, <3>2 DEF LiveParent, TypeInv, TypeOK, Launched
      <3>4. Forest!Launch(p)
        BY <2>0, <2>3, <3>1, <3>3 DEF Forest!Launch, Launched
      <3> QED
        BY <2>0, <3>4 DEF Forest!Next
    <2>4. CASE Exited
      <3>1. cur_PCB[terminalrun] \in Pid
        BY <2>4, PidFacts DEF Exited
      <3>2. /\ LiveParent[cur_PCB[terminalrun]] = parent_id[cur_PCB[terminalrun]]
            /\ LiveParent' = [LiveParent EXCEPT ![cur_PCB[terminalrun]] = -2]
        BY <1>2, <2>4, <3>1 DEF LiveParent, TypeInv, TypeOK, Exited
      <3>3. Forest!Exit
        BY <2>0, <2>4, <3>2 DEF Forest!Exit, Exited
      <3> QED
        BY <3>3 DEF Forest!Next
    <2>5. CASE Unseen
      <3>1. LiveParent' = LiveParent
        BY <2>5 DEF LiveParent, Unseen
      <3> QED
        BY <2>5, <3>1 DEF Forest!vars, Unseen
    <2> QED
      BY <1>2, <2>1, <2>2, <2>3, <2>4, <2>5, ForestStep
  <1> QED
    BY <1>1, <1>2, SerialInvCorrect, PTL DEF Spec, ForestSpec, Forest!Spec

-----------------------------------------------------------------------------
(* The chains of processes.                                                *)

\* The steps of the forest keep ChainInv: only the top of a terminal gets a child,
\* a new process, and only a process without children goes.
LEMMA ChainInvStep ==
    ASSUME Disciplined, TypeInv, SerialInv, ChainInv, [Next]_vars
    PROVE  ChainInv'
  <1> DEFINE Alive == {p \in Pid : active[p]}
  <1>1. /\ active \in [Pid -> BOOLEAN] /\ parent_id \in [Pid -> Pid \cup {NoPid}]
        /\ cur_PCB \in [Term -> Pid \cup {NoPid}]
    BY DEF TypeInv, TypeOK
  <1>2. /\ \A t \in Term : cur_PCB[t] # NoPid => active[cur_PCB[t]] /\ termid[cur_PCB[t]] = t
        /\ \A t \in Term : cur_PCB[t] = NoPid => ~active[t]
        /\ \A p \in BasePid : parent_id[p] = NoPid
    BY DEF SerialInv, Tree
  <1>3. \A p \in UserPid : active[p] =>
          /\ parent_id[p] \in Pid /\ active[parent_id[p]]
          /\ \A q \in UserPid : active[q] /\ q # p => parent_id[q] # parent_id[p]
    BY DEF SerialInv, Tree
  <1>4. /\ \A S \in SUBSET Alive : S # {} => \E p \in S : \A q \in S : parent_id[q] # p
        /\ \A p \in Pid : active[p] =>
             \/ \E t \in Term : cur_PCB[t] = p
             \/ \E q \in UserPid : active[q] /\ parent_id[q] = p
    BY DEF ChainInv, NoCycle, NoneLost
  <1>5. \A q \in Pid : active[q] /\ parent_id[q] # NoPid =>
          q \in UserPid /\ active[parent_id[q]]
    BY <1>2, <1>3, PidFacts
  <1>6. CASE TurnTaken \/ Unseen
    <2>1. UNCHANGED <<cur_PCB, parent_id, active>>
      BY <1>6 DEF TurnTaken, Unseen
    <2>2. QED
      BY <2>1 DEF ChainInv, NoCycle, NoneLost
  <1>7. CASE ShellBooted
    <2> DEFINE b == terminalrun'
    <2>1. /\ b \in Term /\ b \in Pid /\ b \in BasePid
          /\ cur_PCB[b] = NoPid /\ ~active[b]
          /\ cur_PCB' = [cur_PCB EXCEPT ![b] = b]
          /\ parent_id' = [parent_id EXCEPT ![b] = NoPid]
          /\ active' = [active EXCEPT ![b] = TRUE]
      BY <1>2, <1>7, PidFacts DEF ShellBooted
    <2> HIDE DEF b
    <2>2. parent_id' = parent_id
      BY <1>1, <1>2, <2>1
    <2>3. ASSUME NEW S \in SUBSET {p \in Pid : active'[p]}, S # {}
          PROVE  \E p \in S : \A q \in S : parent_id'[q] # p
      <3>1. CASE b \in S
        <4>1. ASSUME NEW q \in S PROVE parent_id[q] # b
          <5>1. CASE q = b
            BY <1>2, <2>1, <5>1, PidFacts
          <5>2. CASE q # b
            <6>1. q \in Pid /\ active[q]
              BY <1>1, <2>1, <2>3, <5>2
            <6>2. b # NoPid
              BY <2>1, PidFacts
            <6>3. QED
              BY <1>5, <2>1, <6>1, <6>2
          <5>3. QED
            BY <5>1, <5>2
        <4>2. QED
          BY <2>2, <3>1, <4>1
      <3>2. CASE b \notin S
        <4>1. S \subseteq Alive
          BY <1>1, <2>1, <2>3, <3>2
        <4>2. QED
          BY <1>4, <2>2, <2>3, <4>1
      <3>3. QED
        BY <3>1, <3>2
    <2>4. ASSUME NEW p \in Pid, active'[p]
          PROVE  \/ \E t \in Term : cur_PCB'[t] = p
                 \/ \E q \in UserPid : active'[q] /\ parent_id'[q] = p
      <3>1. CASE p = b
        BY <1>1, <2>1, <3>1
      <3>2. CASE p # b
        <4>1. active[p]
          BY <1>1, <2>1, <2>4, <3>2
        <4>2. CASE \E t \in Term : cur_PCB[t] = p
          <5>1. PICK t \in Term : cur_PCB[t] = p
            BY <4>2
          <5>2. t # b
            BY <2>1, <5>1, PidFacts
          <5>3. QED
            BY <1>1, <2>1, <5>1, <5>2
        <4>3. CASE \E q \in UserPid : active[q] /\ parent_id[q] = p
          BY <1>1, <2>1, <2>2, <4>3, PidFacts
        <4>4. QED
          BY <1>4, <4>1, <4>2, <4>3
      <3>3. QED
        BY <3>1, <3>2
    <2>5. QED
      BY <2>3, <2>4 DEF ChainInv, NoCycle, NoneLost
  <1>8. ASSUME NEW x \in UserPid, Launched(x)
        PROVE  ChainInv'
    <2> DEFINE r == terminalrun
               c == cur_PCB[r]
    <2>1. /\ r \in Term /\ x \in Pid /\ ~active[x]
          /\ cur_PCB' = [cur_PCB EXCEPT ![r] = x]
          /\ parent_id' = [parent_id EXCEPT ![x] = c]
          /\ active' = [active EXCEPT ![x] = TRUE]
      BY <1>8, PidFacts DEF Launched
    <2>2. c # x
      BY <1>2, <2>1, PidFacts
    <2> HIDE DEF r, c
    <2>3. \A q \in Pid : active[q] => q # x /\ parent_id'[q] = parent_id[q] /\ active'[q]
      BY <1>1, <2>1
    <2>4. ASSUME NEW S \in SUBSET {p \in Pid : active'[p]}, S # {}
          PROVE  \E p \in S : \A q \in S : parent_id'[q] # p
      <3>1. CASE x \in S
        <4>1. ASSUME NEW q \in S PROVE parent_id'[q] # x
          <5>1. CASE q = x
            BY <1>1, <2>1, <2>2, <5>1
          <5>2. CASE q # x
            <6>1. q \in Pid /\ active[q]
              BY <1>1, <2>1, <2>4, <5>2
            <6>2. x # NoPid
              BY <2>1, PidFacts
            <6>3. QED
              BY <1>5, <2>1, <2>3, <6>1, <6>2
          <5>3. QED
            BY <5>1, <5>2
        <4>2. QED
          BY <3>1, <4>1
      <3>2. CASE x \notin S
        <4>1. S \subseteq Alive
          BY <1>1, <2>1, <2>4, <3>2
        <4>2. QED
          BY <1>4, <2>3, <2>4, <4>1
      <3>3. QED
        BY <3>1, <3>2
    <2>5. ASSUME NEW p \in Pid, active'[p]
          PROVE  \/ \E t \in Term : cur_PCB'[t] = p
                 \/ \E q \in UserPid : active'[q] /\ parent_id'[q] = p
      <3>1. CASE p = x
        BY <1>1, <2>1, <3>1
      <3>2. CASE p # x
        <4>1. active[p]
          BY <1>1, <2>1, <2>5, <3>2
        <4>2. CASE p = c
          <5>1. parent_id'[x] = p /\ active'[x]
            BY <1>1, <2>1, <4>2
          <5>2. QED
            BY <1>8, <5>1
        <4>3. CASE p # c /\ \E t \in Term : cur_PCB[t] = p
          <5>1. PICK t \in Term : cur_PCB[t] = p
            BY <4>3
          <5>2. t # r
            BY <4>3, <5>1 DEF c
          <5>3. QED
            BY <1>1, <2>1, <5>1, <5>2
        <4>4. CASE \E q \in UserPid : active[q] /\ parent_id[q] = p
          BY <2>3, <4>4, PidFacts
        <4>5. QED
          BY <1>4, <4>1, <4>2, <4>3, <4>4
      <3>3. QED
        BY <3>1, <3>2
    <2>6. QED
      BY <2>4, <2>5 DEF ChainInv, NoCycle, NoneLost
  <1>9. CASE Exited
    <2> DEFINE r == terminalrun
               x == cur_PCB[r]
    <2>1. /\ r \in Term /\ x \in UserPid /\ x \in Pid /\ active[x] /\ parent_id' = parent_id
          /\ cur_PCB' = [cur_PCB EXCEPT ![r] = parent_id[x]]
          /\ active' = [active EXCEPT ![x] = FALSE]
      BY <1>9, PidFacts DEF Exited
    <2>2. \A q \in Pid : active'[q] => active[q]
      BY <1>1, <2>1
    <2>3. NoCycle'
      <3>1. {p \in Pid : active'[p]} \subseteq Alive
        BY <2>2
      <3>2. QED
        BY <1>4, <2>1, <3>1 DEF NoCycle
    <2>4. ASSUME NEW p \in Pid, active'[p]
          PROVE  \/ \E t \in Term : cur_PCB'[t] = p
                 \/ \E q \in UserPid : active'[q] /\ parent_id'[q] = p
      <3>1. active[p] /\ p # x
        BY <1>1, <2>1, <2>2, <2>4
      <3>2. CASE p = parent_id[x]
        BY <1>1, <2>1, <3>2
      <3>3. CASE \E t \in Term : cur_PCB[t] = p
        <4>1. PICK t \in Term : cur_PCB[t] = p
          BY <3>3
        <4>2. t # r
          BY <3>1, <4>1
        <4>3. QED
          BY <1>1, <2>1, <4>1, <4>2
      <3>4. CASE p # parent_id[x] /\ \E q \in UserPid : active[q] /\ parent_id[q] = p
        <4>1. PICK q \in UserPid : active[q] /\ parent_id[q] = p
          BY <3>4
        <4>2. q # x /\ q \in Pid
          BY <3>4, <4>1, PidFacts
        <4>3. active'[q]
          BY <1>1, <2>1, <4>1, <4>2
        <4>4. QED
          BY <2>1, <4>1, <4>3
      <3>5. QED
        BY <1>4, <3>1, <3>2, <3>3, <3>4
    <2>5. QED
      BY <2>3, <2>4 DEF ChainInv, NoneLost
  <1>10. QED
    BY <1>6, <1>7, <1>8, <1>9, ForestStep

LEMMA ChainInvCorrect ==
    ASSUME Disciplined
    PROVE  Spec => []ChainInv
  <1>1. Init => ChainInv
    BY DEF Init, ChainInv, NoCycle, NoneLost
  <1>2. TypeInv /\ SerialInv /\ ChainInv /\ [Next]_vars => ChainInv'
    BY ChainInvStep
  <1>3. QED
    BY <1>1, <1>2, SerialInvCorrect, PTL DEF Spec

\* Induction over the naturals, as a fact about sets.
LEMMA SetInduction ==
    ASSUME NEW T, 0 \in T, \A n \in Nat : n \in T => n + 1 \in T
    PROVE  \A n \in Nat : n \in T
  <1> DEFINE U == Nat \ T
  <1> SUFFICES ASSUME U # {} PROVE FALSE
    OBVIOUS
  <1>1. U \subseteq Nat
    OBVIOUS
  <1>2. PICK m \in U : \A k \in U : ~(<<k, m>> \in OpToRel(<, Nat))
    BY <1>1, WFMin, NatLessThanWellFounded, Zenon
  <1>3. \A k \in U : ~(k < m)
    BY <1>1, <1>2, Zenon DEF OpToRel
  <1>4. m \in Nat /\ m # 0 /\ m \notin T
    OBVIOUS
  <1>5. m - 1 \in Nat /\ m - 1 < m /\ (m - 1) + 1 = m
    BY <1>4
  <1>6. m - 1 \in T
    BY <1>3, <1>5
  <1> QED
    BY <1>4, <1>5, <1>6

\* Up(t) is what its recursion says.
LEMMA UpIs ==
    ASSUME NEW t
    PROVE  /\ Up(t)[0] = cur_PCB[t]
           /\ \A n \in 1..MaxProcesses :
                Up(t)[n] = IF Up(t)[n - 1] = NoPid THEN NoPid ELSE parent_id[Up(t)[n - 1]]
  <1> DEFINE Below(p) == IF p = NoPid THEN NoPid ELSE parent_id[p]
             Fits(f, k) == f = [n \in 0..k |-> IF n = 0 THEN cur_PCB[t] ELSE Below(f[n - 1])]
             Defined == {k \in Nat : \E f : Fits(f, k)}
  <1>1. MaxProcesses \in Nat
    BY ProcessesAssumption
  <1>2. 0 \in Defined
    <2>1. Fits([n \in 0..0 |-> cur_PCB[t]], 0)
      OBVIOUS
    <2>2. QED
      BY <2>1
  <1>3. ASSUME NEW k \in Nat, k \in Defined PROVE k + 1 \in Defined
    <2>1. PICK f : Fits(f, k)
      BY <1>3
    <2> HIDE DEF Below
    <2> DEFINE g == [n \in 0..(k + 1) |-> IF n <= k THEN f[n] ELSE Below(f[k])]
    <2>2. ASSUME NEW n \in 0..(k + 1)
          PROVE  g[n] = IF n = 0 THEN cur_PCB[t] ELSE Below(g[n - 1])
      <3>1. CASE n = 0
        BY <2>1, <3>1
      <3>2. CASE n \in 1..k
        <4>1. f[n] = Below(f[n - 1])
          BY <2>1, <3>2
        <4>2. g[n] = f[n] /\ g[n - 1] = f[n - 1]
          BY <3>2
        <4>3. QED
          BY <4>1, <4>2, <3>2
      <3>3. CASE n = k + 1
        <4>1. g[n] = Below(f[k]) /\ g[n - 1] = f[k]
          BY <3>3
        <4>2. QED
          BY <4>1, <3>3
      <3>4. QED
        BY <3>1, <3>2, <3>3
    <2>3. g = [n \in 0..(k + 1) |-> g[n]]
      OBVIOUS
    <2>4. Fits(g, k + 1)
      <3> HIDE DEF g
      <3>1. QED
        BY <2>2, <2>3
    <2>5. \E e : Fits(e, k + 1)
      <3> HIDE DEF g, Fits
      <3>1. QED
        BY <2>4
    <2>6. QED
      BY <2>5
  <1>4. MaxProcesses \in Defined
    <2> HIDE DEF Defined
    <2>1. QED
      BY <1>1, <1>2, <1>3, SetInduction
  <1> DEFINE h == Up(t)
  <1>5. h = CHOOSE f : Fits(f, MaxProcesses)
    BY DEF Up
  <1>6. Fits(h, MaxProcesses)
    <2>1. \E f : Fits(f, MaxProcesses)
      BY <1>4
    <2> HIDE DEF h, Fits
    <2>2. QED
      BY <1>5, <2>1, Zenon
  <1> HIDE DEF h, Below
  <1>7. h[0] = cur_PCB[t] /\ \A n \in 1..MaxProcesses : h[n] = Below(h[n - 1])
    BY <1>1, <1>6
  <1>8. QED
    BY <1>7 DEF h, Below

\* The way down from the process that a terminal runs: live processes of the
\* terminal, and no process twice, until it ends.
LEMMA UpFacts ==
    ASSUME TypeInv, SerialInv, ChainInv, NEW t \in Term
    PROVE  /\ \A n \in 0..MaxProcesses :
                Up(t)[n] # NoPid =>
                  Up(t)[n] \in Pid /\ active[Up(t)[n]] /\ termid[Up(t)[n]] = t
           /\ Up(t)[MaxProcesses] = NoPid
  <1> DEFINE h == Up(t)
             Mine(p) == p = NoPid \/ (p \in Pid /\ active[p] /\ termid[p] = t)
             Good == {n \in Nat : n <= MaxProcesses => Mine(h[n])}
  <1>1. MaxProcesses \in Nat
    BY ProcessesAssumption
  <1>2. /\ h[0] = cur_PCB[t]
        /\ \A n \in 1..MaxProcesses :
             h[n] = IF h[n - 1] = NoPid THEN NoPid ELSE parent_id[h[n - 1]]
    BY UpIs
  <1> HIDE DEF h
  <1>3. /\ cur_PCB[t] \in Pid \cup {NoPid} /\ NoPid \notin Pid
        /\ cur_PCB[t] # NoPid => active[cur_PCB[t]] /\ termid[cur_PCB[t]] = t
    BY PidFacts DEF TypeInv, TypeOK, SerialInv, Tree
  <1>4. ASSUME NEW p \in Pid, active[p], termid[p] = t
        PROVE  Mine(parent_id[p])
    <2>1. CASE p \in BasePid
      BY <2>1 DEF SerialInv, Tree
    <2>2. CASE p \notin BasePid
      <3>1. p \in UserPid
        BY <2>2, PidFacts
      <3>2. QED
        BY <1>4, <3>1 DEF SerialInv, Tree
    <2>3. QED
      BY <2>1, <2>2
  <1>5. \A n \in Nat : n \in Good
    <2>1. 0 \in Good
      BY <1>2, <1>3
    <2>2. ASSUME NEW n \in Nat, n \in Good PROVE n + 1 \in Good
      <3> SUFFICES ASSUME n + 1 <= MaxProcesses PROVE Mine(h[n + 1])
        OBVIOUS
      <3>1. Mine(h[n])
        BY <1>1, <2>2
      <3>2. n + 1 \in 1..MaxProcesses /\ (n + 1) - 1 = n
        BY <1>1
      <3>3. h[n + 1] = IF h[n] = NoPid THEN NoPid ELSE parent_id[h[n]]
        BY <1>2, <3>2
      <3>4. QED
        BY <1>4, <3>1, <3>3
    <2> HIDE DEF Good
    <2>3. QED
      BY <2>1, <2>2, SetInduction
  <1>6. ASSUME NEW n \in 0..MaxProcesses PROVE Mine(h[n])
    BY <1>1, <1>5
  \* Once it has ended it stays so.
  <1>7. ASSUME h[MaxProcesses] # NoPid
        PROVE  \A n \in 0..MaxProcesses : h[n] \in Pid
    <2> DEFINE Left == {k \in Nat : k <= MaxProcesses => h[MaxProcesses - k] # NoPid}
    <2>1. 0 \in Left
      BY <1>1, <1>7
    <2>2. ASSUME NEW k \in Nat, k \in Left PROVE k + 1 \in Left
      <3> SUFFICES ASSUME k + 1 <= MaxProcesses PROVE h[MaxProcesses - (k + 1)] # NoPid
        OBVIOUS
      <3>1. MaxProcesses - k \in 1..MaxProcesses
            /\ (MaxProcesses - k) - 1 = MaxProcesses - (k + 1)
        BY <1>1
      <3>2. h[MaxProcesses - k] # NoPid
        BY <1>1, <2>2
      <3>3. QED
        BY <1>2, <3>1, <3>2
    <2>3. \A k \in Nat : k \in Left
      <3> HIDE DEF Left
      <3>1. QED
        BY <2>1, <2>2, SetInduction
    <2>4. ASSUME NEW n \in 0..MaxProcesses PROVE h[n] \in Pid
      <3>1. MaxProcesses - n \in Nat /\ MaxProcesses - n <= MaxProcesses
            /\ MaxProcesses - (MaxProcesses - n) = n
        BY <1>1
      <3>2. h[n] # NoPid
        BY <2>3, <3>1
      <3>3. QED
        BY <1>6, <3>2
    <2>5. QED
      BY <2>4
  <1>8. h[MaxProcesses] = NoPid
    <2> SUFFICES ASSUME h[MaxProcesses] # NoPid PROVE FALSE
      OBVIOUS
    <2> DEFINE f == [n \in 0..MaxProcesses |-> h[n]]
    <2>1. f \in [0..MaxProcesses -> Pid]
      BY <1>7
    <2>2. /\ IsFiniteSet(0..MaxProcesses) /\ Cardinality(0..MaxProcesses) = MaxProcesses + 1
          /\ IsFiniteSet(Pid) /\ Cardinality(Pid) = MaxProcesses
      <3>1. 0 \in Int /\ MaxProcesses \in Int /\ MaxProcesses - 1 \in Int
            /\ ~(0 > MaxProcesses) /\ ~(0 > MaxProcesses - 1)
        BY <1>1, ProcessesAssumption
      <3>2. IsFiniteSet(0..MaxProcesses) /\ Cardinality(0..MaxProcesses) = MaxProcesses - 0 + 1
        BY <3>1, FS_Interval
      <3>3. IsFiniteSet(Pid) /\ Cardinality(Pid) = MaxProcesses - 1 - 0 + 1
        BY <3>1, FS_Interval DEF Pid
      <3>4. QED
        BY <1>1, <3>2, <3>3
    <2>3. Cardinality(Pid) < Cardinality(0..MaxProcesses)
      BY <1>1, <2>2
    <2>4. PICK x, y \in 0..MaxProcesses : x # y /\ f[x] = f[y]
      <3> DEFINE D == 0..MaxProcesses
      <3>1. f \in [D -> Pid] /\ IsFiniteSet(D) /\ IsFiniteSet(Pid)
            /\ Cardinality(Pid) < Cardinality(D)
        BY <2>1, <2>2, <2>3
      <3> HIDE DEF f, D
      <3>2. \E x, y \in D : x # y /\ f[x] = f[y]
        BY <3>1, FS_PigeonHole
      <3>3. QED
        BY <3>2 DEF D
    <2>5. PICK i, j \in 0..MaxProcesses : i < j /\ h[i] = h[j]
      <3>1. x < y \/ y < x
        BY <2>4
      <3>2. h[x] = h[y]
        BY <2>4
      <3>3. QED
        BY <3>1, <3>2
    \* The processes between the two meetings each have a child among them.
    <2> DEFINE S == {h[k] : k \in i..(j - 1)}
    <2>6. \A k \in i..j : k \in 0..MaxProcesses /\ h[k] \in Pid /\ active[h[k]]
      BY <1>1, <1>3, <1>6, <1>7
    <2>7. S \subseteq {p \in Pid : active[p]} /\ S # {}
      <3>1. i \in i..(j - 1) /\ i..(j - 1) \subseteq i..j
        BY <2>5
      <3>2. QED
        BY <2>6, <3>1
    <2>8. ASSUME NEW p \in S PROVE \E q \in S : parent_id[q] = p
      <3>1. PICK k \in i..(j - 1) : p = h[k]
        OBVIOUS
      <3>2. PICK m \in (i + 1)..j : p = h[m]
        <4>1. CASE k = i
          <5>1. j \in (i + 1)..j
            BY <2>5
          <5>2. QED
            BY <2>5, <3>1, <4>1, <5>1
        <4>2. CASE k # i
          <5>1. k \in (i + 1)..j
            BY <4>2
          <5>2. QED
            BY <3>1, <5>1
        <4>3. QED
          BY <4>1, <4>2
      <3>3. m \in 1..MaxProcesses /\ m - 1 \in i..(j - 1) /\ m - 1 \in i..j
        BY <1>1, <2>5
      <3>4. h[m] = parent_id[h[m - 1]]
        BY <1>2, <1>3, <2>6, <3>3
      <3>5. h[m - 1] \in S
        BY <3>3
      <3>6. QED
        BY <3>2, <3>4, <3>5
    <2> HIDE DEF S
    <2>9. QED
      BY <2>7, <2>8 DEF ChainInv, NoCycle
  <1>9. QED
    BY <1>6, <1>8 DEF h

\* However programs are launched and exit, halt unwinds every terminal through all
\* its live processes and no other, down to its own base shell (syscall.c:355-462).
THEOREM ProcessChainsCorrect ==
    ASSUME Disciplined
    PROVE  Spec => []ProcessChains
  <1>1. ASSUME TypeInv, SerialInv, ChainInv, NEW t \in Term
        PROVE  /\ Chain(t) = {p \in Pid : active[p] /\ termid[p] = t}
               /\ Booted(t) => t \in Chain(t)
    <2> DEFINE h == Up(t)
               Mine == {p \in Pid : active[p] /\ termid[p] = t}
               chain == Chain(t)
    <2>1. MaxProcesses \in Nat /\ 0 \in 0..MaxProcesses
      BY ProcessesAssumption
    <2>2. /\ \A n \in 0..MaxProcesses : h[n] # NoPid => h[n] \in Mine
          /\ h[MaxProcesses] = NoPid
      BY <1>1, UpFacts
    <2>3. /\ h[0] = cur_PCB[t]
          /\ \A n \in 1..MaxProcesses :
               h[n] = IF h[n - 1] = NoPid THEN NoPid ELSE parent_id[h[n - 1]]
      BY UpIs
    <2>4. chain = {h[n] : n \in 0..MaxProcesses} \ {NoPid}
      BY DEF Chain
    <2> HIDE DEF h, chain
    <2>5. chain \subseteq Mine
      BY <2>2, <2>4
    <2>6. Mine \subseteq chain
      <3> DEFINE S == Mine \ chain
      <3> SUFFICES ASSUME S # {} PROVE FALSE
        OBVIOUS
      <3>1. PICK p \in S : \A q \in S : parent_id[q] # p
        BY <1>1 DEF ChainInv, NoCycle
      <3>2. p \in Pid /\ active[p] /\ termid[p] = t /\ p \notin chain
        OBVIOUS
      <3>3. ASSUME NEW u \in Term, cur_PCB[u] = p PROVE FALSE
        <4>1. u = t
          BY <1>1, <3>2, <3>3, PidFacts DEF SerialInv, Tree
        <4>2. h[0] = p /\ p # NoPid
          BY <2>3, <3>2, <3>3, <4>1, PidFacts
        <4>3. QED
          BY <2>1, <2>4, <3>2, <4>2
      <3>4. PICK q \in UserPid : active[q] /\ parent_id[q] = p
        BY <1>1, <3>2, <3>3 DEF ChainInv, NoneLost
      <3>5. q \in Mine
        BY <1>1, <3>2, <3>4, PidFacts DEF SerialInv, Tree
      <3>6. q \in chain
        BY <3>1, <3>4, <3>5
      <3>7. PICK n \in 0..MaxProcesses : h[n] = q /\ q # NoPid
        BY <2>4, <3>6
      <3>8. n # MaxProcesses
        BY <2>2, <3>7
      <3>9. n + 1 \in 1..MaxProcesses /\ n + 1 \in 0..MaxProcesses /\ (n + 1) - 1 = n
        BY <2>1, <3>8
      <3>10. h[n + 1] = p
        BY <2>3, <3>4, <3>7, <3>9
      <3>11. p # NoPid
        BY <3>2, PidFacts
      <3>12. QED
        BY <2>4, <3>2, <3>9, <3>10, <3>11
    <2>7. ASSUME Booted(t) PROVE t \in chain
      <3>1. t \in Mine
        BY <1>1, <2>7, PidFacts DEF Booted, SerialInv, Tree
      <3>2. QED
        BY <2>6, <3>1
    <2>8. QED
      BY <2>5, <2>6, <2>7 DEF chain
  <1>2. TypeInv /\ SerialInv /\ ChainInv => ProcessChains
    BY <1>1 DEF ProcessChains
  <1>3. QED
    BY <1>2, SerialInvCorrect, ChainInvCorrect, PTL

=============================================================================
