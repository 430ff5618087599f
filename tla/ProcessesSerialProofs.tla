----------------------- MODULE ProcessesSerialProofs -------------------------
(***************************************************************************)
(* Proofs about Processes when launches, exits and Alt-Fn do not overlap   *)
(* (Disciplined): SerialInv is an invariant, and with it the slots, the    *)
(* mapped page and the kernel stacks are what they must be.                *)
(***************************************************************************)
EXTENDS ProcessesProofs

\* The steps of execute_on_term from the gate to the critical section.
Proceeds(t) ==
    \/ ExecGate(t) \/ ExecFound(t) \/ ExecCheckPid(t) \/ ExecCheckFlag(t)
    \/ ExecElse(t) \/ ExecBase(t) \/ ScanSlot(t) \/ TakeSlot(t) \/ AssignPid(t)
    \/ ClearFlag(t)

\* The steps by which execute returns to its caller.
ComesBack(t) == ExecNotFound(t) \/ ExecReturn(t) \/ NoSlot(t)

-----------------------------------------------------------------------------
(* Lemmas for the steps of a thread that is inside execute or halt. *)

LEMMA NextTerminalSucc ==
    ASSUME NEW r \in Term \cup {-1}, NEW t \in Term, r < t
    PROVE  NextTerminal(r) = r + 1 /\ r + 1 \in Term
  BY ProcessesAssumption DEF NextTerminal, Term

LEMMA SerialInvInit == Init => SerialInv
  <1> SUFFICES ASSUME Init PROVE SerialInv
    OBVIOUS
  <1> USE PidFacts DEF Init
  <1>1. OneInKernel /\ FlagOwned /\ RunningIsMapped
    BY DEF OneInKernel, FlagOwned, RunningIsMapped
  <1>2. BootOrder
    BY ProcessesAssumption DEF BootOrder, Term
  <1>3. \A t \in Term : LaunchState(t)
    BY DEF LaunchState, LaunchPC
  <1>4. SlotInv
    BY DEF SlotInv, SlotsExact, Allocating
  <1>5. Tree
    BY DEF Tree
  <1>6. Stacks
    BY DEF Stacks, LaunchPC
  <1> QED
    BY <1>1, <1>2, <1>3, <1>4, <1>5, <1>6 DEF SerialInv

\* While a thread is inside execute or halt it has the kernel to itself.
LEMMA Inside ==
    ASSUME TypeInv, SerialInv, NEW t \in Term, pc[t] \notin {"off", "user"}
    PROVE  /\ pc[t] \in LaunchPC \cup {"haltret", "return"}
           /\ \A u \in Term \ {t} : pc[u] = "user" /\ restarting[u] = NoPid
           /\ \A u \in Term : cur_PCB[u] \in Pid
  <1>1. /\ pc[t] \in LaunchPC \cup {"haltret", "return"}
        /\ \A u \in Term \ {t} : pc[u] = "user"
    BY DEF SerialInv, OneInKernel, TypeInv, TypeOK, PC
  <1>2. \A u \in Term \ {t} : restarting[u] = NoPid
    BY <1>1 DEF SerialInv, LaunchState
  <1>3. \A u \in Term : pc[u] # "off"
    BY <1>1
  <1>4. \A u \in Term : cur_PCB[u] \in Pid
    BY <1>3 DEF SerialInv, BootOrder, TypeInv, TypeOK
  <1> QED
    BY <1>1, <1>2, <1>4

\* A step of such a thread that stays inside and writes no PCB keeps every
\* part of the invariant that is not about the launch itself.
LEMMA StayInside ==
    ASSUME TypeInv, SerialInv, NEW t \in Term, Running(t),
           pc[t] \notin {"off", "user"},
           NEW l \in LaunchPC \cup {"return"},
           pc' = [pc EXCEPT ![t] = l],
           kstack' = [kstack EXCEPT ![t] = cur_PCB[t]],
           UNCHANGED <<terminalrun, pcbs, machine, switches>>
    PROVE  /\ OneInKernel' /\ BootOrder' /\ Tree' /\ RunningIsMapped' /\ Stacks'
           /\ switches' = 0
           /\ pc'[t] = l /\ \A u \in Term \ {t} : pc'[u] = "user"
  <1>1. /\ pc'[t] = l /\ \A u \in Term \ {t} : pc'[u] = "user"
        /\ l \notin {"off", "user", "wild", "failed", "fault", "haltret"}
    BY Inside DEF TypeInv, TypeOK, LaunchPC
  <1>2. OneInKernel'
    BY <1>1 DEF OneInKernel
  <1>3. BootOrder'
    BY <1>1, Inside, PidFacts DEF BootOrder, pcbs
  <1>4. Tree' /\ switches' = 0
    BY DEF SerialInv, Tree, pcbs
  <1>5. RunningIsMapped'
    BY DEF SerialInv, RunningIsMapped, Running, pcbs, machine
  <1>6. /\ kstack'[t] = cur_PCB'[t]
        /\ \A u \in Term \ {t} : kstack'[u] = cur_PCB'[u]
    BY <1>1, Inside DEF SerialInv, Stacks, TypeInv, TypeOK, pcbs, Running
  <1>7. Stacks'
    BY <1>1, <1>6 DEF Stacks, LaunchPC, Running
  <1> QED
    BY <1>1, <1>2, <1>3, <1>4, <1>5, <1>7

\* The same for the step that returns to user mode.
LEMMA GoOut ==
    ASSUME TypeInv, SerialInv, NEW t \in Term, Running(t),
           pc[t] \notin {"off", "user"},
           LeaveKernel(t),
           UNCHANGED <<terminalrun, pcbs, machine, switches>>
    PROVE  /\ OneInKernel' /\ BootOrder' /\ Tree' /\ RunningIsMapped' /\ Stacks'
           /\ switches' = 0
           /\ \A u \in Term : pc'[u] = "user"
  <1>1. \A u \in Term : pc'[u] = "user"
    BY Inside DEF TypeInv, TypeOK, LeaveKernel, Goto
  <1>2. OneInKernel'
    BY <1>1 DEF OneInKernel
  <1>3. BootOrder'
    BY <1>1, Inside, PidFacts DEF BootOrder, pcbs
  <1>4. Tree' /\ switches' = 0
    BY DEF SerialInv, Tree, pcbs
  <1>5. RunningIsMapped'
    BY DEF SerialInv, RunningIsMapped, Running, pcbs, machine
  <1>6. kstack'[t] = NoPid /\ \A u \in Term \ {t} : kstack'[u] = cur_PCB'[u]
    BY Inside
    DEF SerialInv, Stacks, TypeInv, TypeOK, pcbs, Running, LeaveKernel
  <1>7. Stacks'
    BY <1>1, <1>6 DEF Stacks, LaunchPC, Running
  <1> QED
    BY <1>1, <1>2, <1>3, <1>4, <1>5, <1>7


\* The steps of execute_on_term before its critical section.
LEMMA LaunchStep ==
    ASSUME TypeInv, SerialInv, NEW t \in Term,
           Proceeds(t)
    PROVE  SerialInv'
  <1> DEFINE l == pc'[t]
  <1>0. /\ Running(t) /\ pc[t] \in LaunchPC
        /\ l \in LaunchPC /\ pc' = [pc EXCEPT ![t] = l]
        /\ UNCHANGED <<terminalrun, pcbs, machine, kstack, restarting, switches>>
    BY DEF Proceeds, ExecGate, ExecFound, ExecCheckPid, ExecCheckFlag,
           ExecElse, ExecBase, ScanSlot, TakeSlot, AssignPid, ClearFlag, Goto, LaunchPC,
           globals, TypeInv, TypeOK
  <1>1. pc[t] \notin {"off", "user"}
    BY <1>0 DEF LaunchPC
  <1>2. kstack' = [kstack EXCEPT ![t] = cur_PCB[t]]
    BY <1>0 DEF SerialInv, Stacks, TypeInv, TypeOK
  <1>3. /\ OneInKernel' /\ BootOrder' /\ Tree' /\ RunningIsMapped' /\ Stacks'
        /\ switches' = 0
        /\ \A u \in Term \ {t} : pc'[u] = "user"
    BY <1>0, <1>1, <1>2, StayInside
  <1>4. \A u \in Term \ {t} : LaunchState(u)'
    BY <1>0, <1>1, <1>3, Inside DEF LaunchState, LaunchPC
  <1>5. LaunchState(t) /\ term[t] \in Term /\ slot[t] \in MaxTerminals..MaxProcesses
    BY DEF SerialInv, TypeInv, TypeOK
  <1>6. \A u \in Term \ {t} : \A p : ~Allocating(u, p) /\ ~Allocating(u, p)'
    BY <1>0, <1>1, <1>3, Inside DEF Allocating
  <1>7. /\ \A p \in UserPid :
             processesid[p] <=> active[p] \/ Allocating(t, p)
        /\ \A p \in UserPid : Allocating(t, p) => ~active[p]
    BY <1>6 DEF SerialInv, SlotInv, SlotsExact
  <1>8. (LaunchState(t) /\ FlagOwned)'
    <2>1. CASE ExecGate(t)
      BY <2>1, <1>0, <1>5
      DEF Proceeds, ExecGate, Goto, Running, LaunchState, FlagOwned, SerialInv,
          LaunchPC, TypeInv, TypeOK, globals, pcbs
    <2>2. CASE ExecFound(t)
      BY <2>2, <1>0, <1>5 DEF ExecFound, Goto, LaunchState, FlagOwned,
         SerialInv, LaunchPC, TypeInv, TypeOK, globals, pcbs
    <2>3. CASE ExecCheckPid(t)
      BY <2>3, <1>0, <1>5, ProcessesAssumption
      DEF ExecCheckPid, Goto, LaunchState, FlagOwned, SerialInv, LaunchPC,
          TypeInv, TypeOK, globals, pcbs
    <2>4. CASE ExecCheckFlag(t)
      BY <2>4, <1>0, <1>1, <1>5, Inside
      DEF ExecCheckFlag, Goto, LaunchState, FlagOwned, SerialInv, LaunchPC,
          TypeInv, TypeOK, globals, pcbs
    <2>5. CASE ExecElse(t)
      BY <2>5, <1>0, <1>5 DEF ExecElse, Goto, LaunchState, FlagOwned,
         SerialInv, LaunchPC, TypeInv, TypeOK, globals, pcbs
    <2>base. CASE ExecBase(t)
      BY <2>base, <1>0, <1>5 DEF ExecBase, Goto, LaunchState, FlagOwned,
         SerialInv, LaunchPC, TypeInv, TypeOK, pcbs
    <2>6. CASE ScanSlot(t)
      BY <2>6, <1>0, <1>5, PidFacts DEF ScanSlot, Goto, LaunchState, FlagOwned,
         SerialInv, LaunchPC, TypeInv, TypeOK, globals, pcbs
    <2>7. CASE TakeSlot(t)
      BY <2>7, <1>0, <1>5 DEF TakeSlot, Goto, LaunchState, FlagOwned,
         SerialInv, LaunchPC, TypeInv, TypeOK, pcbs
    <2>8. CASE AssignPid(t)
      BY <2>8, <1>0, <1>5 DEF AssignPid, Goto, LaunchState, FlagOwned,
         SerialInv, LaunchPC, TypeInv, TypeOK, pcbs
    <2>9. CASE ClearFlag(t)
      BY <2>9, <1>0, <1>5 DEF ClearFlag, Goto, LaunchState, FlagOwned,
         SerialInv, LaunchPC, TypeInv, TypeOK, pcbs
    <2> QED
      BY <2>1, <2>2, <2>3, <2>4, <2>5, <2>base, <2>6, <2>7, <2>8, <2>9 DEF Proceeds
  <1>9. SlotInv'
    <2>1. SUFFICES /\ \A p \in UserPid :
                        processesid'[p] <=> active[p] \/ Allocating(t, p)'
                   /\ \A p \in UserPid : Allocating(t, p)' => ~active[p]
      BY <1>0, <1>6 DEF SlotInv, SlotsExact, pcbs
    <2>2. CASE TakeSlot(t)
      <3>1. /\ slot[t] \in UserPid /\ ~processesid[slot[t]]
            /\ restarting[t] = NoPid
            /\ processesid' = [processesid EXCEPT ![slot[t]] = TRUE]
            /\ pc[t] = "take" /\ l = "assign" /\ slot' = slot
        BY <2>2, <1>0, <1>5 DEF TakeSlot, Goto, LaunchState, TypeInv, TypeOK
      <3>2. \A p \in UserPid : ~Allocating(t, p) /\ (Allocating(t, p)' <=> p = slot[t])
        BY <1>0, <3>1 DEF Allocating
      <3> QED
        BY <1>7, <3>1, <3>2, PidFacts DEF TypeInv, TypeOK
    <2>3. CASE ExecElse(t) \/ ExecBase(t)
      BY <1>0, <1>5, <1>7, <2>3 DEF ExecElse, ExecBase, Allocating, LaunchState, globals
    <2>4. CASE ~TakeSlot(t) /\ ~ExecElse(t) /\ ~ExecBase(t)
      <3>1. UNCHANGED processesid
        BY <2>4
        DEF Proceeds, ExecGate, ExecFound, ExecCheckPid, ExecCheckFlag,
            ScanSlot, AssignPid, ClearFlag, globals
      <3>2. \A p : Allocating(t, p)' <=> Allocating(t, p)
        BY <2>4, <1>0
        DEF Proceeds, Allocating, ExecGate, ExecFound, ExecCheckPid,
            ExecCheckFlag, ScanSlot, AssignPid, ClearFlag, Goto, TypeInv,
            TypeOK
      <3> QED
        BY <1>7, <3>1, <3>2
    <2> QED
      BY <2>2, <2>3, <2>4
  <1> QED
    BY <1>3, <1>4, <1>8, <1>9 DEF SerialInv

LEMMA ReturnStep ==
    ASSUME TypeInv, SerialInv, NEW t \in Term,
           ComesBack(t)
    PROVE  SerialInv'
  <1>0. /\ Running(t) /\ pc[t] \in {"arg", "scan", "return"}
        /\ UNCHANGED <<terminalrun, pcbs, machine, processesid, baseShellFlag,
                       restarting, switches>>
    BY DEF ComesBack, ExecNotFound, ExecReturn, NoSlot, globals
  <1>1. pc[t] \notin {"off", "user"}
    BY <1>0
  <1>2. restarting[t] = NoPid
    BY <1>0
    DEF ComesBack, ExecNotFound, ExecReturn, NoSlot, SerialInv, LaunchState
  <1>3. LeaveKernel(t)
    BY <1>2 DEF ComesBack, ExecNotFound, ExecReturn, NoSlot
  <1>4. /\ OneInKernel' /\ BootOrder' /\ Tree' /\ RunningIsMapped' /\ Stacks'
        /\ switches' = 0
        /\ \A u \in Term : pc'[u] = "user"
    BY <1>0, <1>1, <1>3, GoOut
  <1>5. \A u \in Term : restarting'[u] = NoPid
    BY <1>0, <1>1, <1>2, Inside
  <1>6. (\A u \in Term : LaunchState(u))' /\ FlagOwned'
    BY <1>0, <1>2, <1>4, <1>5, Inside
    DEF LaunchState, LaunchPC, FlagOwned, SerialInv
  <1>7. \A u \in Term : \A p : ~Allocating(u, p) /\ ~Allocating(u, p)'
    BY <1>0, <1>1, <1>4, Inside DEF Allocating
  <1>8. SlotInv'
    BY <1>0, <1>7 DEF SerialInv, SlotInv, SlotsExact, pcbs
  <1> QED
    BY <1>4, <1>6, <1>8 DEF SerialInv


LEMMA HaltReturnStep ==
    ASSUME TypeInv, SerialInv, NEW t \in Term, HaltReturn(t)
    PROVE  SerialInv'
  <1>0. /\ Running(t) /\ pc[t] = "haltret"
        /\ pc' = [pc EXCEPT ![t] = "return"]
        /\ UNCHANGED <<terminalrun, pcbs, machine, processesid, baseShellFlag,
                       restarting, switches>>
    BY DEF HaltReturn, globals, Goto
  <1>1. pc[t] \notin {"off", "user"}
    BY <1>0
  <1>2. kstack' = [kstack EXCEPT ![t] = cur_PCB[t]]
    BY <1>0 DEF HaltReturn, SerialInv, Stacks
  <1>3. /\ OneInKernel' /\ BootOrder' /\ Tree' /\ RunningIsMapped' /\ Stacks'
        /\ switches' = 0
        /\ pc'[t] = "return" /\ \A u \in Term \ {t} : pc'[u] = "user"
    BY <1>0, <1>1, <1>2, StayInside
  <1>4. \A u \in Term : restarting[u] = NoPid
    BY <1>0, <1>1, Inside DEF SerialInv, LaunchState
  <1>5. (\A u \in Term : LaunchState(u))' /\ FlagOwned'
    BY <1>0, <1>3, <1>4 DEF LaunchState, LaunchPC, FlagOwned, SerialInv
  <1>6. \A u \in Term : \A p : ~Allocating(u, p) /\ ~Allocating(u, p)'
    BY <1>0, <1>1, <1>3, Inside DEF Allocating
  <1>7. SlotInv'
    BY <1>0, <1>6 DEF SerialInv, SlotInv, SlotsExact, pcbs
  <1> QED
    BY <1>3, <1>5, <1>7 DEF SerialInv

LEMMA LoadStep ==
    ASSUME TypeInv, SerialInv, NEW t \in Term, Load(t)
    PROVE  SerialInv'
  <1> DEFINE p == currpid
  <1> DEFINE c == cur_PCB[t]
  <1>0. TypeOK /\ Running(t) /\ pc[t] = "load" /\ p \in Pid
    BY DEF Load, LoadFaults, TypeInv
  <1>1. /\ \A u \in Term \ {t} : pc[u] = "user" /\ restarting[u] = NoPid
        /\ \A u \in Term : cur_PCB[u] \in Pid
    BY <1>0, Inside
  <1>2. term[t] = t /\ kstack[t] = c
    BY <1>0 DEF SerialInv, LaunchState, Stacks, LaunchPC
  <1>3. /\ restarting[t] = NoPid => p \in UserPid /\ p = slot[t]
        /\ restarting[t] # NoPid => p = t /\ c = t
    BY <1>0 DEF SerialInv, LaunchState
  <1>4. /\ cur_PCB' = [cur_PCB EXCEPT ![t] = p]
        /\ parent_id' = [parent_id EXCEPT ![p] = ParentOf(t, p)]
        /\ termid' = [termid EXCEPT ![p] = t]
        /\ saved_esp' = [saved_esp EXCEPT ![p] = c]
        /\ active' = [active EXCEPT ![p] = TRUE]
        /\ mapped' = p /\ tss_esp0' = p
        /\ UNCHANGED <<terminalrun, processesid, baseShellFlag, switches>>
        /\ restarting' = [restarting EXCEPT ![t] = NoPid]
    BY <1>2 DEF Load, CallerStack, globals
  <1>5. /\ \A u \in Term : pc'[u] = "user" /\ restarting'[u] = NoPid
        /\ kstack'[t] = NoPid
        /\ \A u \in Term \ {t} : kstack'[u] = kstack[u]
    BY <1>0, <1>1 DEF Load, LeaveKernel, Goto, TypeOK
  <1>6. /\ cur_PCB'[t] = p /\ \A u \in Term \ {t} : cur_PCB'[u] = cur_PCB[u]
        /\ termid'[p] = t /\ active'[p] /\ saved_esp'[p] = c
        /\ parent_id'[p] = ParentOf(t, p)
        /\ \A q \in Pid \ {p} :
             /\ termid'[q] = termid[q] /\ active'[q] = active[q]
             /\ saved_esp'[q] = saved_esp[q] /\ parent_id'[q] = parent_id[q]
    BY <1>0, <1>4 DEF TypeOK
  <1>7. OneInKernel' /\ BootOrder' /\ RunningIsMapped' /\ switches' = 0
    BY <1>0, <1>1, <1>4, <1>5, <1>6, PidFacts
    DEF OneInKernel, BootOrder, RunningIsMapped, Running, SerialInv
  <1>8. Stacks'
    BY <1>0, <1>1, <1>4, <1>5, <1>6 DEF Stacks, SerialInv, LaunchPC, Running
  <1>9. (\A u \in Term : LaunchState(u))'
    BY <1>5 DEF LaunchState, LaunchPC
  <1>10. FlagOwned'
    <2>1. ~baseShellFlag
      BY <1>0 DEF SerialInv, FlagOwned, LaunchState
    <2> QED
      BY <1>4, <2>1 DEF FlagOwned
  <1>11. \A u \in Term : \A q : /\ ~Allocating(u, q)'
                                /\ Allocating(u, q) => u = t
    BY <1>1, <1>5 DEF Allocating
  <1>12. restarting[t] = NoPid => ~active[p] /\ processesid[p]
    BY <1>0, <1>3 DEF SerialInv, SlotInv, SlotsExact, Allocating
  <1>13. SlotInv'
    <2>1. \A q \in UserPid : Allocating(t, q) => q = p
      BY <1>3 DEF Allocating
    <2>2. ASSUME NEW q \in UserPid PROVE processesid[q] <=> active'[q]
      <3>1. processesid[q] <=> active[q] \/ Allocating(t, q)
        BY <1>11 DEF SerialInv, SlotInv, SlotsExact
      <3>2. CASE q = p
        <4>1. restarting[t] = NoPid
          BY <1>3, <3>2, PidFacts
        <4> QED
          BY <1>6, <1>12, <3>2, <4>1
      <3>3. CASE q # p
        <4>1. active'[q] = active[q]
          BY <1>6, <3>3, PidFacts
        <4> QED
          BY <2>1, <3>1, <3>3, <4>1
      <3> QED
        BY <3>2, <3>3
    <2> QED
      BY <1>4, <1>11, <2>2 DEF SlotInv, SlotsExact
  <1>14. Tree'
    <2>1. Tree
      BY DEF SerialInv
    <2>2. CASE restarting[t] # NoPid
      <3>1. p = t /\ c = t /\ p \in BasePid /\ p \notin UserPid
        BY <1>3, <2>2, PidFacts
      <3>2. active[t] /\ termid[t] = t /\ parent_id[t] = NoPid
        BY <2>1, <3>1, <1>1, PidFacts DEF Tree
      <3>3. parent_id'[p] = NoPid
        BY <1>6, <3>1 DEF ParentOf
      <3>4. cur_PCB' = cur_PCB /\ termid' = termid /\ parent_id' = parent_id
        BY <1>0, <1>4, <3>1, <3>2 DEF TypeOK, ParentOf
      <3>5. active' = active
        BY <1>0, <1>4, <3>1, <3>2 DEF TypeOK
      <3>6. \A q \in UserPid : saved_esp'[q] = saved_esp[q]
        BY <1>6, <3>1, PidFacts
      <3> QED
        BY <2>1, <3>4, <3>5, <3>6 DEF Tree
    <2>3. CASE restarting[t] = NoPid
      <3>1. p \in UserPid /\ p \notin BasePid /\ ~active[p] /\ parent_id'[p] = c
        BY <1>2, <1>3, <1>6, <1>12, <2>3, PidFacts DEF ParentOf
      <3>2. c \in Pid /\ active[c] /\ termid[c] = t /\ c # p
        BY <1>1, <2>1, <3>1, PidFacts DEF Tree
      <3>3. \A u \in Term \ {t} :
              /\ active[cur_PCB[u]] /\ termid[cur_PCB[u]] = u
              /\ cur_PCB[u] # p /\ cur_PCB[u] # c
        BY <1>1, <2>1, <3>1, <3>2, PidFacts DEF Tree
      <3>4. ASSUME NEW u \in Term
            PROVE  /\ cur_PCB'[u] # NoPid
                   /\ active'[cur_PCB'[u]] /\ termid'[cur_PCB'[u]] = u
                   /\ active'[u] /\ termid'[u] = u
        <4>1. active[u] /\ termid[u] = u /\ u # p /\ u \in Pid
          BY <1>1, <2>1, <3>1, PidFacts DEF Tree
        <4>2. active'[u] /\ termid'[u] = u
          BY <1>6, <4>1
        <4>3. CASE u = t
          BY <1>0, <1>6, <4>2, <4>3, PidFacts
        <4>4. CASE u # t
          <5>1. cur_PCB'[u] = cur_PCB[u] /\ cur_PCB[u] \in Pid \ {p}
            BY <1>1, <1>6, <3>3, <4>4
          <5>2. active'[cur_PCB[u]] /\ termid'[cur_PCB[u]] = u
            BY <1>6, <3>3, <4>4, <5>1
          <5> QED
            BY <4>2, <5>1, <5>2, PidFacts
        <4> QED
          BY <4>3, <4>4
      <3>5. \A q \in BasePid : parent_id'[q] = NoPid
        BY <1>6, <2>1, <3>1, PidFacts DEF Tree
      <3>6. ASSUME NEW q \in UserPid, active'[q]
            PROVE  /\ parent_id'[q] \in Pid /\ active'[parent_id'[q]]
                   /\ termid'[parent_id'[q]] = termid'[q]
                   /\ saved_esp'[q] = parent_id'[q]
                   /\ \A u \in Term : cur_PCB'[u] # parent_id'[q]
                   /\ \A r \in UserPid : active'[r] /\ r # q =>
                        parent_id'[r] # parent_id'[q]
        <4>1. CASE q = p
          <5>1. /\ c \in Pid /\ parent_id'[q] = c /\ active'[c]
                /\ termid'[c] = t /\ termid'[q] = t /\ saved_esp'[q] = c
            BY <1>6, <3>1, <3>2, <4>1
          <5>2. \A u \in Term : cur_PCB'[u] # c
            BY <1>6, <3>2, <3>3
          <5>3. ASSUME NEW r \in UserPid, active'[r], r # q
                PROVE  parent_id'[r] # c
            <6>1. active[r] /\ parent_id'[r] = parent_id[r]
              BY <1>6, <4>1, <5>3, PidFacts
            <6> QED
              BY <2>1, <6>1 DEF Tree
          <5> QED
            BY <5>1, <5>2, <5>3
        <4>2. CASE q # p
          <5>1. /\ active[q] /\ parent_id'[q] = parent_id[q]
                /\ parent_id[q] \in Pid /\ active[parent_id[q]]
                /\ parent_id[q] # p /\ parent_id[q] # c
            BY <1>6, <2>1, <3>1, <3>6, <4>2, PidFacts DEF Tree
          <5>2. /\ active'[parent_id[q]]
                /\ termid'[parent_id[q]] = termid[parent_id[q]]
                /\ termid'[q] = termid[q] /\ saved_esp'[q] = saved_esp[q]
            BY <1>6, <4>2, <5>1, PidFacts
          <5>3. termid[parent_id[q]] = termid[q] /\ saved_esp[q] = parent_id[q]
            BY <2>1, <5>1 DEF Tree
          <5>4. ASSUME NEW u \in Term PROVE cur_PCB'[u] # parent_id[q]
            <6>1. cur_PCB[u] # parent_id[q]
              BY <2>1, <5>1 DEF Tree
            <6> QED
              BY <1>6, <5>1, <6>1
          <5>5. ASSUME NEW r \in UserPid, active'[r], r # q
                PROVE  parent_id'[r] # parent_id[q]
            <6>1. CASE r = p
              BY <3>1, <5>1, <6>1
            <6>2. CASE r # p
              <7>1. active[r] /\ parent_id'[r] = parent_id[r]
                BY <1>6, <5>5, <6>2, PidFacts
              <7> QED
                BY <2>1, <5>1, <5>5, <7>1 DEF Tree
            <6> QED
              BY <6>1, <6>2
          <5> QED
            BY <5>1, <5>2, <5>3, <5>4, <5>5
        <4> QED
          BY <4>1, <4>2
      <3> QED
        BY <3>4, <3>5, <3>6 DEF Tree
    <2> QED
      BY <2>2, <2>3
  <1> QED
    BY <1>7, <1>8, <1>9, <1>10, <1>13, <1>14 DEF SerialInv


\* A program enters the kernel only when all threads are in user mode.
LEMMA Entering ==
    ASSUME Disciplined, TypeInv, SerialInv, NEW t \in Term, Running(t),
           \/ ExecEnter(t)
           \/ \E s \in 0..255 : Halt(t, s) \/ BaseExit(t, s)
    PROVE  /\ \A u \in Term : pc[u] = "user" /\ restarting[u] = NoPid
           /\ \A u \in Term : cur_PCB[u] \in Pid
           /\ \A u \in Term : \A p : ~Allocating(u, p)
           /\ Interrupted(t) = cur_PCB[t] /\ tss_esp0 = cur_PCB[t]
           /\ mapped = cur_PCB[t]
  <1>1. pc[t] # "fault"
    BY DEF SerialInv, OneInKernel
  <1>2. \A u \in Term : pc[u] = "user"
    BY <1>1
    DEF ExecEnter, Halt, BaseExit, EnterHalt, MayEnter, AllInUserMode,
        Disciplined
  <1>3. \A u \in Term : restarting[u] = NoPid
    BY <1>2 DEF SerialInv, LaunchState
  <1>4. \A u \in Term : cur_PCB[u] \in Pid
    BY <1>2 DEF TypeInv, TypeOK
  <1>5. tss_esp0 = cur_PCB[t] /\ mapped = cur_PCB[t]
    BY <1>2, PidFacts DEF SerialInv, RunningIsMapped, Running
  <1> QED
    BY <1>2, <1>3, <1>4, <1>5 DEF Allocating, Interrupted

\* The parts of the invariant that entering execute does not touch.
LEMMA EnterExec ==
    ASSUME TypeInv, SerialInv, NEW t \in Term, Running(t),
           \A u \in Term : pc[u] = "user" /\ cur_PCB[u] \in Pid,
           pc' = [pc EXCEPT ![t] = "exec"],
           kstack' = [kstack EXCEPT ![t] = cur_PCB[t]],
           UNCHANGED <<terminalrun, pcbs, machine, switches>>
    PROVE  /\ OneInKernel' /\ BootOrder' /\ Tree' /\ RunningIsMapped' /\ Stacks'
           /\ switches' = 0
           /\ pc'[t] = "exec" /\ \A u \in Term \ {t} : pc'[u] = "user"
  <1>1. pc'[t] = "exec" /\ \A u \in Term \ {t} : pc'[u] = "user"
    BY DEF TypeInv, TypeOK
  <1>2. OneInKernel'
    BY <1>1 DEF OneInKernel
  <1>3. BootOrder'
    BY <1>1, PidFacts DEF BootOrder, pcbs
  <1>4. Tree' /\ switches' = 0
    BY DEF SerialInv, Tree, pcbs
  <1>5. RunningIsMapped'
    BY DEF SerialInv, RunningIsMapped, Running, pcbs, machine
  <1>6. kstack'[t] = cur_PCB'[t] /\ \A u \in Term \ {t} : kstack'[u] = cur_PCB'[u]
    BY DEF SerialInv, Stacks, TypeInv, TypeOK, pcbs, Running
  <1>7. Stacks'
    BY <1>1, <1>6 DEF Stacks, LaunchPC, Running
  <1> QED
    BY <1>1, <1>2, <1>3, <1>4, <1>5, <1>7

LEMMA ExecEnterStep ==
    ASSUME Disciplined, TypeInv, SerialInv, NEW t \in Term, ExecEnter(t)
    PROVE  SerialInv'
  <1>0. Running(t)
    BY DEF ExecEnter
  <1>1. /\ \A u \in Term : /\ pc[u] = "user" /\ restarting[u] = NoPid
                           /\ cur_PCB[u] \in Pid
        /\ \A u \in Term : \A p : ~Allocating(u, p)
        /\ tss_esp0 = cur_PCB[t]
    BY <1>0, Entering
  <1>2. /\ OneInKernel' /\ BootOrder' /\ Tree' /\ RunningIsMapped' /\ Stacks'
        /\ switches' = 0
        /\ pc'[t] = "exec" /\ \A u \in Term \ {t} : pc'[u] = "user"
    BY <1>0, <1>1, EnterExec DEF ExecEnter, Goto
  <1>3. /\ currpid' = MaxTerminals /\ currTerminal' = t
        /\ UNCHANGED <<baseShellFlag, processesid, pcbs, restarting>>
    BY DEF ExecEnter, Disciplined
  <1>4. (\A u \in Term : LaunchState(u))'
    BY <1>1, <1>2, <1>3 DEF LaunchState, LaunchPC
  <1>5. FlagOwned'
    BY <1>3 DEF SerialInv, FlagOwned
  <1>6. \A u \in Term : \A p : ~Allocating(u, p)'
    BY <1>2 DEF Allocating
  <1>7. SlotInv'
    BY <1>1, <1>3, <1>6 DEF SerialInv, SlotInv, SlotsExact, pcbs
  <1> QED
    BY <1>2, <1>4, <1>5, <1>7 DEF SerialInv

LEMMA BaseExitStep ==
    ASSUME Disciplined, TypeInv, SerialInv, NEW t \in Term, NEW s \in 0..255,
           BaseExit(t, s)
    PROVE  SerialInv'
  <1>0. Running(t)
    BY DEF BaseExit, EnterHalt
  <1>1. /\ \A u \in Term : /\ pc[u] = "user" /\ restarting[u] = NoPid
                           /\ cur_PCB[u] \in Pid
        /\ \A u \in Term : \A p : ~Allocating(u, p)
        /\ Interrupted(t) = cur_PCB[t]
    BY <1>0, Entering
  <1>2. /\ OneInKernel' /\ BootOrder' /\ Tree' /\ RunningIsMapped' /\ Stacks'
        /\ switches' = 0
        /\ pc'[t] = "exec" /\ \A u \in Term \ {t} : pc'[u] = "user"
    BY <1>0, <1>1, EnterExec DEF BaseExit, Goto
  <1>3. cur_PCB[t] = t
    <2>1. Tree
      BY DEF SerialInv
    <2>2. parent_id[cur_PCB[t]] = NoPid
      BY DEF BaseExit, Exiting
    <2>3. active[cur_PCB[t]] /\ termid[cur_PCB[t]] = t
      BY <1>1, <2>1, PidFacts DEF Tree
    <2>4. cur_PCB[t] \in Pid /\ cur_PCB[t] # NoPid /\ NoPid \notin Pid
      BY <1>1, PidFacts
    <2>5. \A p \in UserPid : active[p] => parent_id[p] \in Pid
      BY <2>1 DEF Tree
    <2>6. cur_PCB[t] \in Term
      BY <2>2, <2>3, <2>4, <2>5, PidFacts, ZenonT(40)
    <2>7. \A u \in Term : cur_PCB[u] # NoPid => termid[u] = u
      BY <2>1 DEF Tree
    <2>8. \A u \in Term : cur_PCB[u] # NoPid
      BY <1>1, <2>4
    <2>9. termid[cur_PCB[t]] = cur_PCB[t]
      BY <2>6, <2>7, <2>8
    <2> QED
      BY <2>3, <2>9
  <1>4. /\ currpid' = MaxTerminals /\ currTerminal' = t
        /\ baseShellFlag'
        /\ UNCHANGED <<processesid, pcbs>>
        /\ restarting' = [restarting EXCEPT ![t] = t]
    BY <1>1, <1>3 DEF BaseExit, Disciplined, Exiting
  <1>5. restarting'[t] = t /\ \A u \in Term \ {t} : restarting'[u] = NoPid
    BY <1>1, <1>4 DEF TypeInv, TypeOK
  <1>6. (\A u \in Term : LaunchState(u))'
    BY <1>2, <1>3, <1>4, <1>5 DEF LaunchState, LaunchPC, pcbs
  <1>7. FlagOwned'
    BY <1>5, PidFacts DEF FlagOwned
  <1>8. \A u \in Term : \A p : ~Allocating(u, p)'
    BY <1>2 DEF Allocating
  <1>9. SlotInv'
    BY <1>1, <1>4, <1>8 DEF SerialInv, SlotInv, SlotsExact, pcbs
  <1> QED
    BY <1>2, <1>6, <1>7, <1>9 DEF SerialInv

LEMMA HaltStep ==
    ASSUME Disciplined, TypeInv, SerialInv, NEW t \in Term, NEW s \in 0..255,
           Halt(t, s)
    PROVE  SerialInv'
  <1> DEFINE p == cur_PCB[t]
  <1> DEFINE c == parent_id[p]
  <1>0. TypeOK /\ Running(t)
    BY DEF Halt, EnterHalt, TypeInv
  <1>1. /\ \A u \in Term : /\ pc[u] = "user" /\ restarting[u] = NoPid
                           /\ cur_PCB[u] \in Pid
        /\ \A u \in Term : \A q : ~Allocating(u, q)
        /\ Interrupted(t) = p
    BY <1>0, Entering
  <1>2. Tree
    BY DEF SerialInv
  <1>3. /\ c # NoPid
        /\ cur_PCB' = [cur_PCB EXCEPT ![t] = c]
        /\ active' = [active EXCEPT ![p] = FALSE, ![c] = TRUE]
        /\ processesid' = [processesid EXCEPT ![p] = FALSE]
        /\ mapped' = c /\ tss_esp0' = c
        /\ args_esp' = [args_esp EXCEPT ![t] = saved_esp[p]]
        /\ kstack' = [kstack EXCEPT ![t] = p]
        /\ pc' = [pc EXCEPT ![t] = "haltret"]
        /\ restarting' = [restarting EXCEPT ![t] = NoPid]
        /\ UNCHANGED <<terminalrun, baseShellFlag, parent_id, termid, saved_esp,
                       switches>>
    BY <1>1 DEF Halt, Exiting, Goto
  <1>4. /\ p \in UserPid /\ active[p] /\ termid[p] = t
        /\ c \in Pid /\ active[c] /\ termid[c] = t /\ saved_esp[p] = c /\ c # p
    <2>1. active[p] /\ termid[p] = t
      BY <1>1, <1>2, PidFacts DEF Tree
    <2>2. p \in UserPid
      BY <1>1, <1>2, <1>3, PidFacts DEF Tree
    <2> QED
      BY <1>2, <2>1, <2>2 DEF Tree
  <1>5. \A u \in Term \ {t} :
          /\ active[cur_PCB[u]] /\ termid[cur_PCB[u]] = u
          /\ cur_PCB[u] # p /\ cur_PCB[u] # c
    BY <1>1, <1>2, <1>4, PidFacts DEF Tree
  <1>6. /\ cur_PCB'[t] = c /\ \A u \in Term \ {t} : cur_PCB'[u] = cur_PCB[u]
        /\ ~active'[p] /\ \A q \in Pid \ {p} : active'[q] = active[q]
        /\ ~processesid'[p]
        /\ \A q \in Pid \ {p} : processesid'[q] = processesid[q]
    BY <1>0, <1>1, <1>3, <1>4, ZenonT(40) DEF TypeOK
  <1>7. /\ pc'[t] = "haltret" /\ \A u \in Term \ {t} : pc'[u] = "user"
        /\ \A u \in Term : restarting'[u] = NoPid
        /\ args_esp'[t] = c /\ kstack'[t] = p
        /\ \A u \in Term \ {t} : kstack'[u] = cur_PCB'[u]
    BY <1>0, <1>1, <1>3, <1>4, <1>6
    DEF TypeOK, SerialInv, Stacks, Running
  <1>8. OneInKernel' /\ BootOrder' /\ RunningIsMapped' /\ switches' = 0
    BY <1>0, <1>1, <1>3, <1>4, <1>6, <1>7, PidFacts
    DEF OneInKernel, BootOrder, RunningIsMapped, Running, SerialInv
  <1>9. Stacks'
    BY <1>0, <1>3, <1>4, <1>6, <1>7 DEF Stacks, LaunchPC, Running
  <1>10. (\A u \in Term : LaunchState(u))'
    BY <1>7 DEF LaunchState, LaunchPC
  <1>11. FlagOwned'
    BY <1>1, <1>3 DEF SerialInv, FlagOwned
  <1>12. \A u \in Term : \A q : ~Allocating(u, q)'
    BY <1>7 DEF Allocating
  <1>13. SlotInv'
    BY <1>1, <1>6, <1>12, PidFacts DEF SerialInv, SlotInv, SlotsExact
  <1>14. Tree'
    <2>1. ASSUME NEW u \in Term
          PROVE  /\ cur_PCB'[u] # NoPid
                 /\ active'[cur_PCB'[u]] /\ termid'[cur_PCB'[u]] = u
                 /\ active'[u] /\ termid'[u] = u
      <3>1. active[u] /\ termid[u] = u /\ u \in Pid \ {p}
        BY <1>1, <1>2, <1>4, PidFacts DEF Tree
      <3>2. active'[u] /\ termid'[u] = u
        BY <1>3, <1>6, <3>1
      <3>3. CASE u = t
        <4>1. cur_PCB'[u] = c
          BY <1>6, <3>3
        <4>2. c \in Pid \ {p} /\ active[c] /\ termid[c] = t
          BY <1>4
        <4>3. active'[c]
          BY <1>6, <4>2
        <4>4. termid'[c] = t
          BY <1>3, <4>2
        <4> QED
          BY <1>3, <3>2, <3>3, <4>1, <4>3, <4>4
      <3>4. CASE u # t
        <4>1. cur_PCB'[u] = cur_PCB[u] /\ cur_PCB[u] \in Pid \ {p}
          BY <1>1, <1>5, <1>6, <3>4
        <4>2. active'[cur_PCB[u]] /\ termid'[cur_PCB[u]] = u
          BY <1>3, <1>5, <1>6, <3>4, <4>1
        <4> QED
          BY <3>2, <4>1, <4>2, PidFacts
      <3> QED
        BY <3>3, <3>4
    <2>2. \A q \in BasePid : parent_id'[q] = NoPid
      BY <1>2, <1>3 DEF Tree
    <2>3. ASSUME NEW q \in UserPid, active'[q]
          PROVE  /\ parent_id'[q] \in Pid /\ active'[parent_id'[q]]
                 /\ termid'[parent_id'[q]] = termid'[q]
                 /\ saved_esp'[q] = parent_id'[q]
                 /\ \A u \in Term : cur_PCB'[u] # parent_id'[q]
                 /\ \A r \in UserPid : active'[r] /\ r # q =>
                      parent_id'[r] # parent_id'[q]
      <3>1. active[q] /\ q # p
        BY <1>6, <2>3, PidFacts
      <3>2. /\ parent_id[q] \in Pid /\ active[parent_id[q]]
            /\ termid[parent_id[q]] = termid[q] /\ saved_esp[q] = parent_id[q]
            /\ \A u \in Term : cur_PCB[u] # parent_id[q]
            /\ \A r \in UserPid : active[r] /\ r # q =>
                 parent_id[r] # parent_id[q]
        BY <1>2, <3>1 DEF Tree
      <3>3. parent_id[q] # p /\ parent_id[q] # c
        BY <1>4, <3>1, <3>2
      <3>4. active'[parent_id[q]]
        BY <1>6, <3>2, <3>3
      <3>5. \A u \in Term : cur_PCB'[u] # parent_id[q]
        BY <1>6, <3>2, <3>3
      <3>6. \A r \in UserPid : active'[r] => active[r]
        BY <1>6, PidFacts
      <3> QED
        BY <1>3, <3>2, <3>4, <3>5, <3>6
    <2> QED
      BY <2>1, <2>2, <2>3 DEF Tree
  <1> QED
    BY <1>8, <1>9, <1>10, <1>11, <1>13, <1>14 DEF SerialInv

LEMMA SwitchTerminalStep ==
    ASSUME Disciplined, TypeInv, SerialInv, NEW n \in Term, SwitchTerminal(n)
    PROVE  SerialInv'
  <1>1. AllInUserMode /\ UNCHANGED switches
    BY DEF Disciplined, SwitchTerminal, SerialInv
  <1>2. UNCHANGED <<terminalrun, currpid, baseShellFlag, processesid, pcbs,
                    machine, locals>>
    BY DEF SwitchTerminal
  <1>3. (\A u \in Term : LaunchState(u))'
    BY <1>1, <1>2 DEF SerialInv, LaunchState, LaunchPC, AllInUserMode, locals,
       pcbs
  <1>4. OneInKernel' /\ BootOrder' /\ FlagOwned' /\ SlotInv'
    BY <1>1, <1>2 DEF SerialInv, OneInKernel, BootOrder, FlagOwned, SlotInv,
       SlotsExact, Allocating, locals, pcbs
  <1>5. Tree' /\ RunningIsMapped' /\ Stacks' /\ switches' = 0
    BY <1>1, <1>2 DEF SerialInv, Tree, RunningIsMapped, Stacks, locals, pcbs,
       machine
  <1> QED
    BY <1>3, <1>4, <1>5 DEF SerialInv


\* A turn passes to a terminal that has booted only when all have.
LEMMA ContextSwitchStep ==
    ASSUME TypeInv, SerialInv, ContextSwitch
    PROVE  SerialInv'
  <1> DEFINE n == NextTerminal(terminalrun)
  <1> DEFINE r == terminalrun
  <1>0. /\ TypeOK /\ n \in Term /\ r \in Term \cup {-1}
        /\ cur_PCB[n] # NoPid /\ (r # -1 => Running(r))
        /\ terminalrun' = n
        /\ kstack' = [SaveContext EXCEPT ![n] =
                        IF pc[n] = "user" THEN NoPid ELSE @]
        /\ mapped' = cur_PCB[n] /\ tss_esp0' = cur_PCB[n]
        /\ UNCHANGED <<currTerminal, currpid, baseShellFlag, processesid, pcbs,
                       term, slot, restarting, args_esp, switches>>
    BY NextTerminalType
    DEF ContextSwitch, TypeInv, TypeOK, Interruptible, ContextOf
  <1>1. pc' = [pc EXCEPT ![n] = IF @ = "off" THEN "wild" ELSE @]
    BY DEF ContextSwitch
  <1>2. \A u \in Term : pc[u] # "off"
    <2> SUFFICES ASSUME NEW u \in Term, pc[u] = "off" PROVE FALSE
      OBVIOUS
    <2>1. r < u /\ \A w \in Term : w > r => pc[w] = "off"
      BY DEF SerialInv, BootOrder
    <2>2. n = r + 1 /\ r + 1 \in Term /\ r + 1 > r
      BY <1>0, <2>1, NextTerminalSucc, PidFacts
    <2>3. pc[n] = "off"
      BY <2>1, <2>2
    <2> QED
      BY <1>0, <2>3 DEF SerialInv, BootOrder
  <1>3. pc' = pc
    BY <1>0, <1>1, <1>2 DEF TypeOK
  <1>4. \A u \in Term : cur_PCB[u] \in Pid
    BY <1>0, <1>2 DEF TypeOK, SerialInv, BootOrder
  <1>5. OneInKernel' /\ Tree' /\ FlagOwned' /\ switches' = 0
    BY <1>0, <1>3 DEF SerialInv, OneInKernel, Tree, FlagOwned, pcbs
  <1>6. SlotInv'
    BY <1>0, <1>3 DEF SerialInv, SlotInv, SlotsExact, Allocating, pcbs
  <1>7. BootOrder'
    BY <1>0, <1>2, <1>3 DEF SerialInv, BootOrder, pcbs
  <1>8. (\A u \in Term : LaunchState(u))'
    BY <1>0, <1>3 DEF SerialInv, LaunchState, pcbs
  <1>9. RunningIsMapped'
    BY <1>0 DEF RunningIsMapped, pcbs
  <1>10. r # -1 => Interrupted(r) = IF pc[r] = "user" THEN cur_PCB[r] ELSE kstack[r]
    BY <1>0 DEF Interrupted, SerialInv, RunningIsMapped, Running
  <1>11. Stacks'
    <2> SUFFICES ASSUME NEW u \in Term
        PROVE  /\ pc[u] \in LaunchPC \cup {"return"} => kstack'[u] = cur_PCB[u]
               /\ pc[u] = "user" =>
                    kstack'[u] = IF u = n THEN NoPid ELSE cur_PCB[u]
               /\ pc[u] = "haltret" => kstack'[u] = kstack[u]
      BY <1>0, <1>3 DEF SerialInv, Stacks, pcbs
    <2>1. SaveContext \in [Term -> StackPtr]
      BY <1>0, SaveContextType DEF TypeInv
    <2>2. kstack'[u] = IF u = n /\ pc[u] = "user" THEN NoPid ELSE SaveContext[u]
      BY <1>0, <2>1
    <2>3. SaveContext[u] = IF u = r THEN Interrupted(r) ELSE kstack[u]
      BY <1>0, PidFacts DEF SaveContext, TypeOK
    <2>4. u # r => (pc[u] = "user" => kstack[u] = cur_PCB[u])
      BY DEF SerialInv, Stacks
    <2>5. pc[u] \in LaunchPC \cup {"return"} => kstack[u] = cur_PCB[u]
      BY DEF SerialInv, Stacks
    <2>6. pc[u] \in LaunchPC \cup {"return", "haltret"} => pc[u] # "user"
      BY DEF LaunchPC
    <2> QED
      BY <1>10, <2>2, <2>3, <2>4, <2>5, <2>6, PidFacts
  <1> QED
    BY <1>5, <1>6, <1>7, <1>8, <1>9, <1>11 DEF SerialInv

\* The shell the scheduler starts is that of the terminal whose turn it is.
LEMMA BootShellStep ==
    ASSUME TypeInv, SerialInv, BootShell
    PROVE  /\ SerialInv'
           /\ terminalrun + 1 \in Term /\ terminalrun' = terminalrun + 1
           /\ cur_PCB' = [cur_PCB EXCEPT ![terminalrun'] = terminalrun']
           /\ parent_id' = [parent_id EXCEPT ![terminalrun'] = NoPid]
           /\ active' = [active EXCEPT ![terminalrun'] = TRUE]
           /\ ~active[terminalrun'] /\ cur_PCB[terminalrun'] = NoPid
           /\ pc[terminalrun'] = "off" /\ pc' = [pc EXCEPT ![terminalrun'] = "user"]
  <1> DEFINE n == NextTerminal(terminalrun)
  <1> DEFINE r == terminalrun
  <1>0. /\ TypeOK /\ n \in Term /\ r \in Term \cup {-1}
        /\ cur_PCB[n] = NoPid /\ (r # -1 => Running(r))
        /\ terminalrun' = n
        /\ UNCHANGED <<currTerminal, processesid, term, slot, restarting,
                       args_esp, switches>>
    BY NextTerminalType
    DEF BootShell, TypeInv, TypeOK, Interruptible
  <1>1. /\ pc[n] = "off" /\ currpid = r /\ r < n /\ ~baseShellFlag
        /\ \A w \in Term : w > r => pc[w] = "off"
    BY <1>0 DEF SerialInv, BootOrder
  <1>2. n = r + 1
    BY <1>0, <1>1, NextTerminalSucc
  <1>3. /\ currpid' = n /\ baseShellFlag' = FALSE
        /\ cur_PCB' = [cur_PCB EXCEPT ![n] = n]
        /\ parent_id' = [parent_id EXCEPT ![n] = NoPid]
        /\ termid' = [termid EXCEPT ![n] = n]
        /\ active' = [active EXCEPT ![n] = TRUE]
        /\ mapped' = n /\ tss_esp0' = n
        /\ pc' = [pc EXCEPT ![n] = "user"]
        /\ kstack' = [SaveContext EXCEPT ![n] = NoPid]
        /\ \E x : saved_esp' = [saved_esp EXCEPT ![n] = x]
    BY <1>1, <1>2 DEF BootShell, BootPid
  <1>4. \A u \in Term : pc[u] \in {"off", "user"}
    BY <1>0, <1>1 DEF SerialInv, OneInKernel
  <1>5. \A u \in Term : /\ u > r => pc[u] = "off"
                        /\ u <= r => pc[u] = "user"
    <2>1. \A u \in Term : pc[u] = "off" => r < u
      BY DEF SerialInv, BootOrder
    <2> QED
      BY <1>0, <1>1, <1>4, <2>1, PidFacts
  <1>6. /\ pc'[n] = "user" /\ \A u \in Term \ {n} : pc'[u] = pc[u]
        /\ cur_PCB'[n] = n /\ \A u \in Term \ {n} : cur_PCB'[u] = cur_PCB[u]
        /\ active'[n] /\ \A p \in Pid \ {n} : active'[p] = active[p]
        /\ termid'[n] = n /\ \A p \in Pid \ {n} : termid'[p] = termid[p]
        /\ parent_id'[n] = NoPid
        /\ \A p \in Pid \ {n} : parent_id'[p] = parent_id[p]
        /\ \A p \in Pid \ {n} : saved_esp'[p] = saved_esp[p]
    <2>1. n \in Pid
      BY <1>0, PidFacts
    <2>2. /\ pc'[n] = "user" /\ \A u \in Term \ {n} : pc'[u] = pc[u]
          /\ cur_PCB'[n] = n /\ \A u \in Term \ {n} : cur_PCB'[u] = cur_PCB[u]
      BY <1>0, <1>3 DEF TypeOK
    <2>3. /\ active'[n] /\ \A p \in Pid \ {n} : active'[p] = active[p]
          /\ termid'[n] = n /\ \A p \in Pid \ {n} : termid'[p] = termid[p]
      BY <1>0, <1>3, <2>1 DEF TypeOK
    <2>4. /\ parent_id'[n] = NoPid
          /\ \A p \in Pid \ {n} : parent_id'[p] = parent_id[p]
          /\ \A p \in Pid \ {n} : saved_esp'[p] = saved_esp[p]
      BY <1>0, <1>3, <2>1 DEF TypeOK
    <2> QED
      BY <2>2, <2>3, <2>4
  <1>7. OneInKernel' /\ switches' = 0 /\ RunningIsMapped' /\ FlagOwned'
    BY <1>0, <1>3, <1>4, <1>6
    DEF OneInKernel, SerialInv, RunningIsMapped, FlagOwned
  <1>8. \A u \in Term : restarting[u] = NoPid
    BY <1>4 DEF SerialInv, LaunchState
  <1>9. (\A u \in Term : LaunchState(u))'
    BY <1>0, <1>4, <1>6, <1>8 DEF LaunchState, LaunchPC
  <1>10. BootOrder'
    <2>1. \A u \in Term : pc[u] = "off" <=> cur_PCB[u] = NoPid
      BY DEF SerialInv, BootOrder
    <2>2. \A u \in Term : pc'[u] = "off" <=> cur_PCB'[u] = NoPid
      <3>1. n # NoPid
        BY <1>0, PidFacts
      <3> QED
        BY <1>6, <2>1, <3>1
    <2>3. \A u \in Term : pc'[u] = "off" <=> u > n
      <3> SUFFICES ASSUME NEW u \in Term PROVE pc'[u] = "off" <=> u > n
        OBVIOUS
      <3>1. u \in Int /\ n \in Int
        BY <1>0 DEF Term
      <3>2. r \in Int
        BY <1>0 DEF Term
      <3>3. u > r \/ u <= r
        BY <3>1, <3>2
      <3>4. pc[u] = "off" <=> u > r
        <4>1. u <= r => pc[u] # "off"
          BY <1>5
        <4>2. u > r => pc[u] = "off"
          BY <1>5
        <4> QED
          BY <3>3, <4>1, <4>2
      <3>5. u > n <=> (u > r /\ u # n)
        BY <1>2, <3>1, <3>2
      <3> QED
        BY <1>6, <3>4, <3>5
    <2> QED
      BY <1>0, <1>3, <2>2, <2>3 DEF BootOrder
  <1>11. \A p \in UserPid : p \in Pid \ {n}
    BY <1>0, PidFacts
  <1>12. \A u \in Term : \A p : ~Allocating(u, p) /\ ~Allocating(u, p)'
    BY <1>4, <1>6 DEF Allocating
  <1>13. SlotInv'
    BY <1>0, <1>6, <1>11, <1>12 DEF SerialInv, SlotInv, SlotsExact
  <1>14. ~active[n] /\ Tree
    BY <1>0 DEF SerialInv, Tree
  <1>15. \A p \in UserPid : active[p] => parent_id[p] # n
    BY <1>14 DEF Tree
  <1>16. \A u \in Term : cur_PCB[u] # NoPid => cur_PCB[u] \in Pid \ {n}
    BY <1>0, <1>14 DEF Tree, TypeOK
  <1>17. Tree'
    <2>1. ASSUME NEW u \in Term, cur_PCB'[u] # NoPid
          PROVE  /\ active'[cur_PCB'[u]] /\ termid'[cur_PCB'[u]] = u
                 /\ active'[u] /\ termid'[u] = u
      <3>1. CASE u = n
        BY <1>6, <3>1
      <3>2. CASE u # n
        <4>1. cur_PCB'[u] = cur_PCB[u] /\ cur_PCB[u] \in Pid \ {n}
              /\ u \in Pid \ {n}
          BY <1>6, <1>16, <2>1, <3>2, PidFacts
        <4>2. /\ active[cur_PCB[u]] /\ termid[cur_PCB[u]] = u
              /\ active[u] /\ termid[u] = u
          BY <1>14, <2>1, <4>1 DEF Tree
        <4> QED
          BY <1>6, <4>1, <4>2
      <3> QED
        BY <3>1, <3>2
    <2>2. ASSUME NEW u \in Term, cur_PCB'[u] = NoPid
          PROVE  ~active'[u]
      <3>1. u # n
        BY <1>0, <1>6, <2>2, PidFacts
      <3>2. cur_PCB[u] = NoPid /\ u \in Pid \ {n}
        BY <1>6, <2>2, <3>1, PidFacts
      <3> QED
        BY <1>6, <1>14, <3>2 DEF Tree
    <2>3. \A p \in BasePid : parent_id'[p] = NoPid
      BY <1>6, <1>14, PidFacts DEF Tree
    <2>4. ASSUME NEW p \in UserPid, active'[p]
          PROVE  /\ parent_id'[p] \in Pid /\ active'[parent_id'[p]]
                 /\ termid'[parent_id'[p]] = termid'[p]
                 /\ saved_esp'[p] = parent_id'[p]
                 /\ \A u \in Term : cur_PCB'[u] # parent_id'[p]
                 /\ \A q \in UserPid : active'[q] /\ q # p =>
                      parent_id'[q] # parent_id'[p]
      <3>1. active[p] /\ p \in Pid \ {n}
        BY <1>6, <1>11, <2>4
      <3>2. /\ parent_id[p] \in Pid \ {n} /\ active[parent_id[p]]
            /\ termid[parent_id[p]] = termid[p] /\ saved_esp[p] = parent_id[p]
            /\ \A u \in Term : cur_PCB[u] # parent_id[p]
            /\ \A q \in UserPid : active[q] /\ q # p =>
                 parent_id[q] # parent_id[p]
        BY <1>14, <1>15, <3>1 DEF Tree
      <3>3. \A u \in Term : cur_PCB'[u] # parent_id[p]
        BY <1>6, <3>2
      <3>4. \A q \in UserPid : active'[q] /\ q # p => parent_id'[q] # parent_id[p]
        BY <1>6, <1>11, <3>2
      <3> QED
        BY <1>6, <3>1, <3>2, <3>3, <3>4
    <2> QED
      BY <2>1, <2>2, <2>3, <2>4 DEF Tree
  <1>18. Stacks'
    <2>1. SaveContext \in [Term -> StackPtr]
      BY <1>0, SaveContextType DEF TypeInv
    <2>2. r # -1 => Interrupted(r) = cur_PCB[r]
      BY <1>0, <1>4, PidFacts
      DEF Interrupted, SerialInv, RunningIsMapped, Running, BootOrder
    <2>3. \A u \in Term : SaveContext[u] = IF u = r THEN Interrupted(r) ELSE kstack[u]
      BY <1>0, PidFacts DEF SaveContext, TypeOK
    <2>4. \A u \in Term \ {n} : kstack'[u] = SaveContext[u]
      BY <1>3, <2>1
    <2>5. kstack'[n] = NoPid
      BY <1>0, <1>3, <2>1
    <2>6. \A u \in Term \ {r} : pc[u] = "user" => kstack[u] = cur_PCB[u]
      BY DEF SerialInv, Stacks
    <2>7. \A u \in Term \ {n} : pc[u] = "user" => kstack'[u] = cur_PCB'[u]
      <3> SUFFICES ASSUME NEW u \in Term \ {n}, pc[u] = "user"
          PROVE  SaveContext[u] = cur_PCB[u]
        BY <1>6, <2>4
      <3>1. u = r => r # -1
        BY PidFacts
      <3> QED
        BY <2>2, <2>3, <2>6, <3>1
    <2> QED
      BY <1>0, <1>4, <1>6, <2>5, <2>7 DEF Stacks, LaunchPC
  <1> QED
    BY <1>0, <1>1, <1>2, <1>3, <1>7, <1>9, <1>10, <1>13, <1>14, <1>17, <1>18
    DEF SerialInv


\* The steps there are when operations do not overlap: no fault, and halt never
\* gets execute back.
LEMMA SerialSteps ==
    ASSUME Disciplined, TypeInv, SerialInv, Next
    PROVE  \/ ContextSwitch
           \/ BootShell
           \/ \E t \in Term :
                \/ Proceeds(t)
                \/ ComesBack(t)
                \/ HaltReturn(t)
                \/ Load(t)
                \/ ExecEnter(t)
                \/ \E s \in 0..255 : pc[t] = "user" /\ Halt(t, s)
                \/ \E s \in 0..255 : pc[t] = "user" /\ BaseExit(t, s)
           \/ \E n \in Term : SwitchTerminal(n)
  <1>1. \A t \in Term : pc[t] \notin {"fault", "failed"}
    BY DEF SerialInv, OneInKernel
  <1>2. \A t \in Term : ~RestartFailed(t)
    BY <1>1 DEF RestartFailed
  <1>3. ASSUME NEW t \in Term, LoadFault(t)
        PROVE  FALSE
    <2>1. pc[t] = "load" /\ LoadFaults(t)
      BY <1>3 DEF LoadFault
    <2>2. \A u \in Term : cur_PCB[u] \in Pid
      BY <2>1, Inside
    <2>3. term[t] = t /\ (currpid = t \/ currpid \in UserPid)
      BY <2>1 DEF SerialInv, LaunchState, LaunchPC
    <2> QED
      BY <2>1, <2>2, <2>3, PidFacts DEF LoadFaults
  <1>4. Statuses \subseteq 0..255
    BY ProcessesAssumption
  <1>5. ASSUME NEW t \in Term, KernelStep(t)
        PROVE  \/ Proceeds(t)
               \/ ComesBack(t)
               \/ HaltReturn(t)
               \/ Load(t)
    BY <1>1, <1>2, <1>3, <1>5, Zenon DEF KernelStep, Proceeds, ComesBack
  <1>6. ASSUME NEW t \in Term, UserStep(t)
        PROVE  \/ ExecEnter(t)
               \/ \E s \in 0..255 : pc[t] = "user" /\ Halt(t, s)
               \/ \E s \in 0..255 : pc[t] = "user" /\ BaseExit(t, s)
    <2>1. CASE ExecEnter(t)
      BY <2>1
    <2>2. CASE \E s \in Statuses : pc[t] = "user" /\ (Halt(t, s) \/ BaseExit(t, s))
      <3>1. PICK s \in 0..255 : pc[t] = "user" /\ (Halt(t, s) \/ BaseExit(t, s))
        BY <1>4, <2>2
      <3> QED
        BY <3>1, Zenon
    <2> QED
      BY <1>6, <2>1, <2>2 DEF UserStep
  <1> QED
    BY <1>5, <1>6, ZenonT(40) DEF Next, Tick

LEMMA SerialInvStep ==
    ASSUME Disciplined, TypeInv, SerialInv, [Next]_vars
    PROVE  SerialInv'
  <1>1. CASE UNCHANGED vars
    BY <1>1
    DEF vars, globals, pcbs, machine, locals, SerialInv, OneInKernel,
        BootOrder, LaunchState, FlagOwned, SlotInv, SlotsExact, Allocating,
        Tree, RunningIsMapped, Stacks
  <1>2. CASE Next
    BY <1>2, SerialSteps, ContextSwitchStep, BootShellStep, LaunchStep,
       ReturnStep, HaltReturnStep, LoadStep, ExecEnterStep, HaltStep,
       BaseExitStep, SwitchTerminalStep, Zenon
  <1> QED
    BY <1>1, <1>2

\* When operations do not overlap, SerialInv holds at every interruptible point
\* of execute and halt (syscall.c:41-330 and 355-462).
THEOREM SerialInvCorrect ==
    ASSUME Disciplined
    PROVE  Spec => [](TypeInv /\ SerialInv)
  <1>1. Init => TypeInv /\ SerialInv
    BY TypeInvInit, SerialInvInit
  <1>2. TypeInv /\ SerialInv /\ [Next]_vars => (TypeInv /\ SerialInv)'
    BY TypeInvStep, SerialInvStep
  <1> QED
    BY <1>1, <1>2, PTL DEF Spec

\* No slot leaks and none is free under a live process, at any point of execute
\* and halt (find_available_pid, syscall.c:23-32, and halt, syscall.c:391).
THEOREM SlotsExactCorrect ==
    ASSUME Disciplined
    PROVE  Spec => []SlotsExact
  <1>1. SerialInv => SlotsExact
    BY DEF SerialInv, SlotInv
  <1> QED
    BY <1>1, SerialInvCorrect, PTL

\* The page at 128 MB and the TSS stack are those of the process the kernel
\* believes to run (execute_on_term, halt and scheduler each set both).
THEOREM RunningIsMappedCorrect ==
    ASSUME Disciplined
    PROVE  Spec => []RunningIsMapped
  <1>1. SerialInv => RunningIsMapped
    BY DEF SerialInv
  <1> QED
    BY <1>1, SerialInvCorrect, PTL

\* halt resumes the execute that launched the program, on the stack of the
\* process that is current again (syscall.c:384-385, 446-459).
THEOREM HaltReturnsToParentCorrect ==
    ASSUME Disciplined
    PROVE  Spec => []HaltReturnsToParent
  <1>1. SerialInv => HaltReturnsToParent
    BY DEF SerialInv, Stacks, Tree, HaltReturnsToParent, LaunchPC
  <1> QED
    BY <1>1, SerialInvCorrect, PTL

LEMMA SerialStacksApart ==
    ASSUME TypeInv, SerialInv
    PROVE  StacksApart
  <1> SUFFICES ASSUME TypeInv, SerialInv, NEW t \in Term, Booted(t)
      PROVE  /\ \A u \in Term \ {t} : Booted(u) => StackOf(t) # StackOf(u)
             /\ \A p \in Pid : active[p] /\ p = StackOf(t) => termid[p] = t
    BY DEF StacksApart
  <1>1. ASSUME NEW u \in Term, Booted(u)
        PROVE  /\ pc[u] # "haltret" => StackOf(u) = cur_PCB[u] /\ termid[cur_PCB[u]] = u
               /\ pc[u] = "haltret" => StackOf(u) \in UserPid /\ ~active[StackOf(u)]
               /\ cur_PCB[u] \in Pid /\ active[cur_PCB[u]]
    <2>1. pc[u] # "off" /\ cur_PCB[u] \in Pid
      BY <1>1 DEF Booted, SerialInv, BootOrder, TypeInv, TypeOK
    <2>2. active[cur_PCB[u]] /\ termid[cur_PCB[u]] = u
      BY <1>1 DEF Booted, SerialInv, Tree
    <2>3. pc[u] \in LaunchPC \cup {"user", "return", "haltret"}
      BY <2>1, Inside
    <2>4. terminalrun = u /\ pc[u] # "wild" => tss_esp0 = cur_PCB[u]
      BY PidFacts DEF SerialInv, RunningIsMapped
    <2>5. CASE pc[u] = "user"
      BY <2>2, <2>1, <2>4, <2>5 DEF StackOf, Interrupted, SerialInv, Stacks
    <2>6. CASE pc[u] \in LaunchPC \cup {"return"}
      <3>1. pc[u] \notin {"user", "haltret"}
        BY <2>6 DEF LaunchPC
      <3>2. StackOf(u) = kstack[u] /\ kstack[u] = cur_PCB[u]
        BY <2>6, <3>1 DEF StackOf, Interrupted, SerialInv, Stacks
      <3> QED
        BY <2>1, <2>2, <3>1, <3>2
    <2>7. CASE pc[u] = "haltret"
      BY <2>1, <2>2, <2>7 DEF StackOf, Interrupted, SerialInv, Stacks
    <2> QED
      BY <2>3, <2>5, <2>6, <2>7
  <1>2. ASSUME NEW u \in Term \ {t}, Booted(u)
        PROVE  StackOf(t) # StackOf(u)
    <2>1. pc[t] # "haltret" \/ pc[u] # "haltret"
      BY Inside
    <2> QED
      BY <1>1, <1>2, <2>1
  <1>3. ASSUME NEW p \in Pid, active[p], p = StackOf(t)
        PROVE  termid[p] = t
    BY <1>1, <1>3
  <1> QED
    BY <1>2, <1>3

\* No two threads have frames on one kernel stack, and none has them on a stack
\* of another terminal's process (scheduler.c:74-79, 98-110).
THEOREM StacksApartCorrect ==
    ASSUME Disciplined
    PROVE  Spec => []StacksApart
  <1>1. TypeInv /\ SerialInv => StacksApart
    BY SerialStacksApart
  <1> QED
    BY <1>1, SerialInvCorrect, PTL

=============================================================================
