-------------------------- MODULE ProcessesProofs --------------------------
(***************************************************************************)
(* Proofs about Processes for every interleaving of launches, exits and    *)
(* Alt-Fn: its types, who has a parent, and who gives the CPU away.        *)
(***************************************************************************)
EXTENDS ProcessesInv, TLAPS

LEMMA NextTerminalType ==
    ASSUME NEW t \in Term \cup {-1}
    PROVE  NextTerminal(t) \in Term
  BY ProcessesAssumption DEF NextTerminal, Term

\* All the arithmetic of pids and terminals that the type proof needs.
LEMMA PidFacts ==
    /\ Term \subseteq Int /\ Pid \subseteq Int
    /\ BasePid = Term /\ Term \subseteq Pid /\ UserPid \subseteq Pid
    /\ \A p \in Pid : p \in UserPid <=> p \notin BasePid
    /\ NoPid = -1 /\ NoPid \notin Pid
    /\ 0 \in Term
    /\ \A p \in Pid : p \in -1..MaxProcesses /\ p # MaxProcesses
                      /\ p + 1 \in -1..MaxProcesses
    /\ -1 \in -1..MaxProcesses /\ -1 # MaxProcesses
    /\ MaxTerminals \in Pid /\ MaxTerminals \in MaxTerminals..MaxProcesses
    /\ UserPid \subseteq MaxTerminals..MaxProcesses
    /\ \A i \in MaxTerminals..MaxProcesses :
         i \in Pid => i \in UserPid /\ i + 1 \in MaxTerminals..MaxProcesses
  BY ProcessesAssumption DEF Term, Pid, BasePid, UserPid, NoPid

LEMMA TypeInvInit == Init => TypeInv
  <1> SUFFICES ASSUME Init PROVE TypeInv
    OBVIOUS
  <1> USE PidFacts, ProcessesAssumption DEF Init
  <1>1. processesid \in [Pid -> BOOLEAN]
    OBVIOUS
  <1>2. /\ 0 \in 0..255 /\ switches \in 0..MaxSwitches
        /\ slot \in [Term -> MaxTerminals..MaxProcesses]
    OBVIOUS
  <1>3. TypeOK
    BY <1>1, <1>2 DEF TypeOK, StackPtr, PC
  <1> QED
    BY <1>3 DEF TypeInv

\* The stack pointers the scheduler saves.
LEMMA SaveContextType ==
    ASSUME TypeOK
    PROVE  /\ SaveContext \in [Term -> StackPtr]
           /\ terminalrun # -1 => Interrupted(terminalrun) \in StackPtr
  BY DEF TypeOK, SaveContext, Interrupted

LEMMA ContextSwitchType ==
    ASSUME TypeInv, ContextSwitch
    PROVE  TypeInv'
  <1> DEFINE n == NextTerminal(terminalrun)
  <1>1. TypeOK
    BY DEF TypeInv
  <1>2. n \in Term
    BY <1>1, NextTerminalType DEF TypeOK
  <1>3. cur_PCB[n] \in Pid
    BY <1>1, <1>2 DEF ContextSwitch, TypeOK
  <1>4. kstack' \in [Term -> StackPtr]
    BY <1>2, SaveContextType, <1>1 DEF ContextSwitch, StackPtr
  <1>5. pc' = [pc EXCEPT ![n] = IF @ = "off" THEN "wild" ELSE @]
    BY DEF ContextSwitch
  <1>6. pc' \in [Term -> PC]
    BY <1>1, <1>2, <1>5 DEF TypeOK, PC
  <1>7. terminalrun' = n /\ mapped' = cur_PCB[n] /\ tss_esp0' = cur_PCB[n]
    BY DEF ContextSwitch, ContextOf
  <1>8. TypeOK'
    BY <1>1, <1>2, <1>3, <1>4, <1>6, <1>7
    DEF ContextSwitch, TypeOK, pcbs, StackPtr
  <1>9. currpid # MaxProcesses
    BY DEF ContextSwitch, Interruptible, Running, TypeInv
  <1>10. \A t \in Term : pc'[t] = pc[t] \/ pc'[t] = "wild"
    BY <1>1, <1>2, <1>5 DEF TypeOK
  <1> QED
    BY <1>8, <1>9, <1>10 DEF ContextSwitch, TypeInv, pcbs

LEMMA BootShellType ==
    ASSUME TypeInv, BootShell
    PROVE  TypeInv'
  <1> DEFINE n == NextTerminal(terminalrun)
  <1>1. TypeOK
    BY DEF TypeInv
  <1>2. n \in Term /\ n \in Pid /\ n # NoPid /\ n # MaxProcesses
    BY <1>1, NextTerminalType, PidFacts, ZenonT(40) DEF TypeOK
  <1>3. currpid # MaxProcesses
    BY DEF BootShell, Interruptible, Running, TypeInv
  <1>4. terminalrun' = n /\ currpid' = currpid + 1
    BY DEF BootShell, BootPid
  <1>5. currpid' \in -1..MaxProcesses
    BY <1>1, <1>3, <1>4, ProcessesAssumption DEF TypeOK
  <1>6. CASE currpid' = n
    <2>1. /\ kstack' \in [Term -> StackPtr]
          /\ saved_esp' \in [Pid -> StackPtr]
      BY <1>1, <1>2, <1>6, SaveContextType, SMTT(40) DEF BootShell, TypeOK, StackPtr
    <2>2. /\ pc' = [pc EXCEPT ![n] = "user"]
          /\ cur_PCB' = [cur_PCB EXCEPT ![n] = n]
          /\ parent_id' = [parent_id EXCEPT ![n] = NoPid]
          /\ termid' = [termid EXCEPT ![n] = n]
          /\ active' = [active EXCEPT ![n] = TRUE]
          /\ mapped' = n /\ tss_esp0' = n /\ baseShellFlag' = FALSE
      BY <1>6 DEF BootShell
    <2>3. /\ pc' \in [Term -> PC]
          /\ cur_PCB' \in [Term -> Pid \cup {NoPid}]
          /\ parent_id' \in [Pid -> Pid \cup {NoPid}]
          /\ termid' \in [Pid -> Term]
          /\ active' \in [Pid -> BOOLEAN]
      BY <1>1, <1>2, <2>2 DEF TypeOK, PC
    <2>4. TypeOK'
      BY <1>1, <1>2, <1>4, <1>5, <2>1, <2>2, <2>3
      DEF BootShell, TypeOK, StackPtr
    <2>5. \A t \in Term \ {n} : pc'[t] = pc[t] /\ cur_PCB'[t] = cur_PCB[t]
      BY <1>1, <1>2, <2>2 DEF TypeOK
    <2>6. pc'[n] = "user" /\ cur_PCB'[n] = n
      BY <1>1, <1>2, <2>2 DEF TypeOK
    <2> QED
      BY <1>2, <1>6, <2>4, <2>5, <2>6 DEF BootShell, TypeInv
  <1>7. CASE currpid' # n
    <2>1. /\ pc' = [pc EXCEPT ![n] = "wild"]
          /\ UNCHANGED <<baseShellFlag, pcbs, machine, kstack>>
      BY <1>7 DEF BootShell
    <2>2. pc' \in [Term -> PC] /\ pc'[n] = "wild"
      BY <1>1, <1>2, <2>1 DEF TypeOK, PC
    <2>3. \A t \in Term \ {n} : pc'[t] = pc[t]
      BY <1>1, <1>2, <2>1 DEF TypeOK
    <2>4. TypeOK'
      BY <1>1, <1>2, <1>4, <1>5, <2>1, <2>2
      DEF BootShell, TypeOK, StackPtr, pcbs, machine
    <2>5. terminalrun' # -1
      BY <1>2, <1>4, PidFacts
    <2> QED
      BY <1>2, <1>4, <2>1, <2>2, <2>3, <2>4, <2>5
      DEF BootShell, TypeInv, pcbs, machine
  <1> QED
    BY <1>6, <1>7

LEMMA TypeInvStep == TypeInv /\ [Next]_vars => TypeInv'
  <1> SUFFICES ASSUME TypeInv, [Next]_vars PROVE TypeInv'
    OBVIOUS
  <1> USE PidFacts DEF TypeInv, TypeOK, StackPtr, PC, LaunchPC, vars, globals, pcbs, machine, locals,
         Goto, LeaveKernel, DropLocals, Running
  <1>1. CASE ContextSwitch
    BY <1>1, ContextSwitchType
  <1>2. CASE BootShell
    BY <1>2, BootShellType
  <1>3. ASSUME NEW t \in Term, ExecEnter(t) PROVE TypeInv'
    BY <1>3 DEF ExecEnter
  <1>4. ASSUME NEW t \in Term, ExecGate(t) PROVE TypeInv'
    BY <1>4 DEF ExecGate
  <1>5. ASSUME NEW t \in Term, ExecFound(t) PROVE TypeInv'
    BY <1>5 DEF ExecFound
  <1>6. ASSUME NEW t \in Term, ExecNotFound(t) PROVE TypeInv'
    BY <1>6 DEF ExecNotFound
  <1>7. ASSUME NEW t \in Term, ExecCheckPid(t) PROVE TypeInv'
    BY <1>7 DEF ExecCheckPid
  <1>8. ASSUME NEW t \in Term, ExecCheckFlag(t) PROVE TypeInv'
    BY <1>8 DEF ExecCheckFlag
  <1>9. ASSUME NEW t \in Term, ExecElse(t) PROVE TypeInv'
    BY <1>9 DEF ExecElse
  <1>base. ASSUME NEW t \in Term, ExecBase(t) PROVE TypeInv'
    BY <1>base DEF ExecBase
  <1>10. ASSUME NEW t \in Term, ScanSlot(t) PROVE TypeInv'
    <2>1. slot[t] \in UserPid
      BY <1>10 DEF ScanSlot
    <2>2. /\ slot' \in [Term -> MaxTerminals..MaxProcesses]
          /\ pc' \in [Term -> PC]
      BY <1>10, <2>1 DEF ScanSlot
    <2>3. \A u \in Term :
            \/ pc'[u] = pc[u] /\ (slot'[u] = slot[u] \/ u = t)
            \/ u = t /\ pc'[u] = "take" /\ slot'[u] = slot[u]
      BY <1>10 DEF ScanSlot
    <2>4. TypeOK'
      BY <1>10, <2>2 DEF ScanSlot
    <2> QED
      BY <1>10, <2>1, <2>3, <2>4 DEF ScanSlot
  <1>11. ASSUME NEW t \in Term, TakeSlot(t) PROVE TypeInv'
    BY <1>11 DEF TakeSlot
  <1>12. ASSUME NEW t \in Term, NoSlot(t) PROVE TypeInv'
    BY <1>12 DEF NoSlot
  <1>13. ASSUME NEW t \in Term, AssignPid(t) PROVE TypeInv'
    BY <1>13 DEF AssignPid
  <1>14. ASSUME NEW t \in Term, ClearFlag(t) PROVE TypeInv'
    BY <1>14 DEF ClearFlag
  <1>15. ASSUME NEW t \in Term, Load(t) PROVE TypeInv'
    <2>1. ~LoadFaults(t) /\ currpid \in Pid /\ term[t] \in Term
      BY <1>15 DEF Load, LoadFaults
    <2>2. ParentOf(t, currpid) \in Pid \cup {NoPid}
      BY <2>1 DEF ParentOf
    <2>3. TypeOK'
      BY <1>15, <2>1, <2>2 DEF Load, CallerStack
    <2> QED
      BY <1>15, <2>1, <2>3 DEF Load
  <1>16. ASSUME NEW t \in Term, LoadFault(t) PROVE TypeInv'
    BY <1>16 DEF LoadFault
  <1>17. ASSUME NEW t \in Term, HaltReturn(t) PROVE TypeInv'
    BY <1>17 DEF HaltReturn
  <1>18. ASSUME NEW t \in Term, ExecReturn(t) PROVE TypeInv'
    BY <1>18 DEF ExecReturn
  <1>19. ASSUME NEW t \in Term, RestartFailed(t) PROVE TypeInv'
    BY <1>19 DEF RestartFailed
  <1>20. ASSUME NEW t \in Term, NEW s \in 0..255, Halt(t, s) PROVE TypeInv'
    BY <1>20, ZenonT(60) DEF Halt, EnterHalt, Exiting, Interrupted, StatusRetVal
  <1>21. ASSUME NEW t \in Term, NEW s \in 0..255, BaseExit(t, s) PROVE TypeInv'
    BY <1>21 DEF BaseExit, EnterHalt, Exiting, Interrupted
  <1>22. ASSUME NEW n \in Term, SwitchTerminal(n) PROVE TypeInv'
    BY <1>22, ProcessesAssumption DEF SwitchTerminal, Interruptible
  <1>23. CASE UNCHANGED vars
    BY <1>23
  <1> HIDE PidFacts DEF TypeInv, TypeOK, StackPtr, PC, LaunchPC, vars, globals,
         pcbs, machine, locals, Goto, LeaveKernel, DropLocals, Running
  <1>24. CASE Tick
    BY <1>1, <1>2, <1>24 DEF Tick
  <1>25. ASSUME NEW t \in Term, KernelStep(t) PROVE TypeInv'
    <2>1. ExceptionStatus \in 0..255
      BY DEF ExceptionStatus
    <2>2. CASE pc[t] = "fault" /\ (Halt(t, ExceptionStatus)
                                    \/ BaseExit(t, ExceptionStatus))
      BY <1>20, <1>21, <2>1, <2>2
    <2> QED
      BY <1>4, <1>5, <1>6, <1>7, <1>8, <1>9, <1>10, <1>11, <1>12, <1>13,
         <1>14, <1>15, <1>16, <1>17, <1>18, <1>19, <1>25, <1>base, <2>2
      DEF KernelStep
  <1>26. ASSUME NEW t \in Term, UserStep(t) PROVE TypeInv'
    BY <1>3, <1>20, <1>21, <1>26, ProcessesAssumption DEF UserStep
  <1> QED
    BY <1>22, <1>23, <1>24, <1>25, <1>26 DEF Next

\* Every variable keeps its type, however operations overlap: in particular
\* every pid that execute, halt and the scheduler index a table with is a pid.
THEOREM TypeCorrect == Spec => []TypeInv
  BY TypeInvInit, TypeInvStep, PTL DEF Spec

-----------------------------------------------------------------------------
(* A process without a parent is a base shell. *)

LEMMA ParentInvInit == Init => ParentInv
  BY PidFacts DEF Init, ParentInv

\* The actions that write no PCB and no cur_PCB.
LEMMA PcbsUnchanged ==
    ASSUME [Next]_vars
    PROVE  \/ UNCHANGED pcbs
           \/ BootShell
           \/ \E t \in Term : Load(t) \/ RestartFailed(t)
           \/ \E t \in Term, s \in 0..255 : Halt(t, s)
  <1> USE DEF globals, pcbs, machine, locals
  <1>1. CASE Tick
    BY <1>1 DEF Tick, ContextSwitch
  <1>2. ASSUME NEW t \in Term, KernelStep(t)
        PROVE  \/ UNCHANGED pcbs \/ Load(t) \/ RestartFailed(t)
               \/ Halt(t, ExceptionStatus)
    BY <1>2
    DEF KernelStep, ExecGate, ExecFound, ExecNotFound, ExecCheckPid,
        ExecCheckFlag, ExecElse, ExecBase, ScanSlot, TakeSlot, NoSlot, AssignPid,
        ClearFlag, LoadFault, HaltReturn, ExecReturn, BaseExit
  <1>3. ASSUME NEW t \in Term, UserStep(t)
        PROVE  UNCHANGED pcbs \/ \E s \in 0..255 : Halt(t, s)
    BY <1>3, ProcessesAssumption DEF UserStep, ExecEnter, BaseExit
  <1>4. ASSUME NEW n \in Term, SwitchTerminal(n) PROVE UNCHANGED pcbs
    BY <1>4 DEF SwitchTerminal
  <1>5. CASE UNCHANGED vars
    BY <1>5 DEF vars
  <1>6. ExceptionStatus \in 0..255
    BY DEF ExceptionStatus
  <1> QED
    BY <1>1, <1>2, <1>3, <1>4, <1>5, <1>6 DEF Next, Tick, ContextSwitch

LEMMA ParentInvStep == TypeInv /\ ParentInv /\ [Next]_vars => ParentInv'
  <1> SUFFICES ASSUME TypeInv, ParentInv, [Next]_vars PROVE ParentInv'
    OBVIOUS
  <1> USE PidFacts DEF ParentInv
  <1>0. TypeOK
    BY DEF TypeInv
  <1>1. CASE UNCHANGED pcbs
    BY <1>1 DEF pcbs
  <1>2. CASE BootShell
    <2>1. CASE UNCHANGED pcbs
      BY <1>1, <2>1
    <2>2. CASE ~UNCHANGED pcbs
      <3> DEFINE n == NextTerminal(terminalrun)
      <3>1. n \in Term
        BY <1>0, NextTerminalType DEF TypeOK
      <3>2. /\ cur_PCB' = [cur_PCB EXCEPT ![n] = n]
            /\ parent_id' = [parent_id EXCEPT ![n] = NoPid]
            /\ active' = [active EXCEPT ![n] = TRUE]
        BY <1>2, <2>2 DEF BootShell
      <3> QED
        BY <1>0, <3>1, <3>2 DEF TypeOK
    <2> QED
      BY <2>1, <2>2
  <1>3. ASSUME NEW t \in Term, Load(t) PROVE ParentInv'
    <2>1. currpid \in Pid /\ term[t] \in Term
      BY <1>0, <1>3 DEF Load, LoadFaults, TypeOK
    <2>2. currpid \notin BasePid => cur_PCB[term[t]] \in Pid
      BY <1>0, <1>3, <2>1 DEF Load, LoadFaults, TypeOK
    <2>3. /\ cur_PCB' = [cur_PCB EXCEPT ![term[t]] = currpid]
          /\ parent_id' = [parent_id EXCEPT ![currpid] = ParentOf(t, currpid)]
          /\ active' = [active EXCEPT ![currpid] = TRUE]
      BY <1>3 DEF Load
    <2>4. CASE currpid \in BasePid
      <3>1. parent_id' = [parent_id EXCEPT ![currpid] = NoPid]
        BY <2>3, <2>4 DEF ParentOf
      <3>2. currpid \notin UserPid
        BY <2>1, <2>4
      <3> QED
        BY <1>0, <2>1, <2>3, <2>4, <3>1, <3>2 DEF TypeOK
    <2>5. CASE currpid \notin BasePid
      <3> DEFINE c == cur_PCB[term[t]]
      <3>1. parent_id' = [parent_id EXCEPT ![currpid] = c] /\ c # NoPid
        BY <2>2, <2>3, <2>5 DEF ParentOf
      <3>2. \A p \in BasePid : parent_id'[p] = NoPid
        BY <1>0, <2>1, <2>5, <3>1 DEF TypeOK
      <3>3. ASSUME NEW p \in UserPid, parent_id'[p] = NoPid
            PROVE  /\ p # currpid /\ p # c /\ parent_id[p] = NoPid
        BY <1>0, <2>1, <2>2, <2>5, <3>1, <3>3 DEF TypeOK
      <3> QED
        BY <1>0, <2>1, <2>2, <2>3, <3>1, <3>2, <3>3 DEF TypeOK
    <2> QED
      BY <2>4, <2>5
  <1>4. ASSUME NEW t \in Term, RestartFailed(t) PROVE ParentInv'
    <2>1. /\ restarting[t] \in Pid
          /\ active' = [active EXCEPT ![restarting[t]] = FALSE]
          /\ UNCHANGED <<cur_PCB, parent_id>>
      BY <1>0, <1>4 DEF RestartFailed, TypeInv, TypeOK
    <2> QED
      BY <1>0, <2>1 DEF TypeOK
  <1>5. ASSUME NEW t \in Term, NEW s \in 0..255, Halt(t, s) PROVE ParentInv'
    <2>1. cur_PCB[t] \in Pid
      BY <1>0, <1>5 DEF Halt, EnterHalt, TypeInv, TypeOK
    <2>2. parent_id[cur_PCB[t]] \in Pid
      BY <1>0, <1>5, <2>1, ZenonT(40) DEF Halt, Exiting, TypeOK
    <2>3. /\ cur_PCB' = [cur_PCB EXCEPT ![t] = parent_id[cur_PCB[t]]]
          /\ active' = [active EXCEPT ![cur_PCB[t]] = FALSE,
                                      ![parent_id[cur_PCB[t]]] = TRUE]
          /\ UNCHANGED parent_id
      BY <1>5 DEF Halt, Exiting
    <2> QED
      BY <1>0, <2>1, <2>2, <2>3, ZenonT(40) DEF TypeOK
  <1> QED
    BY <1>1, <1>2, <1>3, <1>4, <1>5, PcbsUnchanged

\* However launches and exits overlap, halt restarts the base shells and
\* unwinds everything else.
THEOREM BaseHasNoParentCorrect == Spec => []BaseHasNoParent
  <1>1. ParentInv => BaseHasNoParent
    BY PidFacts DEF ParentInv, BaseHasNoParent
  <1> QED
    BY <1>1, TypeInvInit, TypeInvStep, ParentInvInit, ParentInvStep, PTL
    DEF Spec

-----------------------------------------------------------------------------
(* Only the PIT interrupt gives the CPU to another terminal. *)

LEMMA OnlyTickSwitches ==
    ASSUME [Next]_vars, terminalrun' # terminalrun
    PROVE  Tick
  <1> USE DEF globals, pcbs, machine, locals
  <1>1. ASSUME NEW t \in Term, KernelStep(t) PROVE UNCHANGED terminalrun
    BY <1>1
    DEF KernelStep, ExecGate, ExecFound, ExecNotFound, ExecCheckPid,
        ExecCheckFlag, ExecElse, ExecBase, ScanSlot, TakeSlot, NoSlot, AssignPid,
        ClearFlag, Load, LoadFault, HaltReturn, ExecReturn, RestartFailed,
        Halt, BaseExit
  <1>2. ASSUME NEW t \in Term, UserStep(t) PROVE UNCHANGED terminalrun
    BY <1>2 DEF UserStep, ExecEnter, Halt, BaseExit
  <1>3. ASSUME NEW n \in Term, SwitchTerminal(n) PROVE UNCHANGED terminalrun
    BY <1>3 DEF SwitchTerminal
  <1> QED
    BY <1>1, <1>2, <1>3 DEF Next, vars

=============================================================================
