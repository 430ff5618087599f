-------------------------- MODULE LineInputProofs --------------------------
(***************************************************************************)
(* Proofs about LineInput, for every number of terminals and every size of *)
(* the buffer: the types and the bounds of the indices, whatever keys come *)
(* when.                                                                   *)
(***************************************************************************)
EXTENDS LineInput, TLAPS

\* All the arithmetic of sizes that the type proof needs.
LEMMA SizeFacts ==
    /\ BufferSize \in Nat /\ 0 \in 0..BufferSize /\ BufferSize \in 0..BufferSize
    /\ 0 \in Term /\ 0 \in Column
    /\ 0 \in -MaxCount..MaxCount
    /\ \A i \in 0..BufferSize : i \in Int
    /\ \A i \in 0..BufferSize : i < BufferSize => i \in Index /\ i + 1 \in 0..BufferSize
    /\ \A i \in 0..BufferSize : i # 0 => i - 1 \in Index /\ i - 1 \in 0..BufferSize
    /\ Index \subseteq 0..BufferSize
    /\ \A x \in Int : x % NumCols \in Column
  BY LineInputAssumption DEF Term, Column, Index

LEMMA EmptyType == Empty \in [Index -> Char]
  BY DEF Empty, Char

LEMMA TypeInvInit == Init => TypeInv
  <1> SUFFICES ASSUME Init PROVE TypeInv
    OBVIOUS
  <1>1. pc \in [Term -> PC] /\ \A t \in Term : pc[t] = "user" /\ idx[t] = 0
    BY DEF Init, PC
  <1>2. TypeOK
    BY <1>1, SizeFacts, EmptyType DEF Init, TypeOK
  <1> QED
    BY <1>1, <1>2 DEF TypeInv

LEMMA OutputType == ASSUME NEW k PROVE Output(k) \in Char
  BY DEF Output, Char

\* What the handler's entering and erasing do to the types.
LEMMA StoreType ==
    ASSUME TypeInv, NEW c \in Char, NEW n, NEW x \in Column,
           Length < BufferSize, Store(c, n, x), enterflag' \in BOOLEAN
    PROVE  TypeInv'
  <1>0. TypeOK
    BY DEF TypeInv
  <1>1. /\ currTerminal \in Term /\ Length \in Index
        /\ Length + 1 \in 0..BufferSize
    BY <1>0, SizeFacts DEF TypeOK, Length
  <1>2. /\ keyboardbuffer' \in [Index -> Char]
        /\ currkey' \in [Term -> 0..BufferSize]
        /\ cursor_x' \in [Term -> Column]
        /\ charcount' \in -MaxCount..MaxCount
    BY <1>0, <1>1 DEF Store, TypeOK, Count, Length
  <1>3. TypeOK'
    BY <1>0, <1>2 DEF Store, TypeOK, locals
  <1> QED
    BY <1>3 DEF Store, TypeInv, locals

LEMMA EnterType ==
    ASSUME TypeInv, NEW k, Accepts, Enter(k)
    PROVE  TypeInv'
  <1>1. Col \in Column /\ Col + 1 \in Int
    BY LineInputAssumption DEF TypeInv, TypeOK, Col, Column
  <1>2. ColumnAfter(Output(k)) \in Column
    BY <1>1, SizeFacts DEF ColumnAfter
  <1>3. enterflag' \in BOOLEAN
    BY DEF Enter
  <1> QED
    BY <1>2, <1>3, OutputType, StoreType DEF Enter, Accepts

LEMMA TabType ==
    ASSUME TypeInv, PressTab
    PROVE  TypeInv'
  <1>1. (Col + TabSize) % NumCols \in Column
    BY SizeFacts, LineInputAssumption DEF TypeInv, TypeOK, Col, Column
  <1>2. Tab \in Char /\ enterflag' \in BOOLEAN
    BY DEF TypeInv, TypeOK, PressTab, Char
  <1> QED
    BY <1>1, <1>2, StoreType DEF PressTab, Accepts

LEMMA BackspaceType ==
    ASSUME TypeInv, NEW k, PressBackspace(k)
    PROVE  TypeInv'
  <1>0. TypeOK
    BY DEF TypeInv
  <1>1. /\ currTerminal \in Term /\ Length - 1 \in Index
        /\ Length - 1 \in 0..BufferSize
    BY <1>0, SizeFacts DEF TypeOK, Length, PressBackspace, CanErase
  <1> DEFINE width == IF EndsInTab THEN TabSize ELSE 1
  <1>2. width \in Nat
    BY LineInputAssumption
  <1>3. Col - width \in Int
    BY <1>0, <1>2, LineInputAssumption DEF TypeOK, Col, Column
  <1>4. (Col - width) % NumCols \in Column
    BY <1>3, SizeFacts
  <1>5. /\ keyboardbuffer' = [keyboardbuffer EXCEPT ![Length - 1] = Output(k)]
        /\ currkey' = [currkey EXCEPT ![currTerminal] = Length - 1]
        /\ cursor_x' = [cursor_x EXCEPT ![currTerminal] = (Col - width) % NumCols]
        /\ charcount' \in -MaxCount..MaxCount
    BY DEF PressBackspace, Erase, Count, Length, Col
  <1> HIDE DEF width
  <1>6. /\ keyboardbuffer' \in [Index -> Char]
        /\ currkey' \in [Term -> 0..BufferSize]
        /\ cursor_x' \in [Term -> Column]
    BY <1>0, <1>1, <1>4, <1>5, OutputType DEF TypeOK
  <1>7. TypeOK'
    BY <1>0, <1>5, <1>6 DEF PressBackspace, TypeOK, locals
  <1> QED
    BY <1>7 DEF PressBackspace, TypeInv, locals

LEMMA PressType ==
    ASSUME TypeInv, NEW k, Press(k)
    PROVE  TypeInv'
  <1>1. CASE PressChar(k)
    BY <1>1, EnterType DEF PressChar
  <1>2. CASE BackspaceAtEdge(k)
    BY <1>2, EnterType DEF BackspaceAtEdge
  <1>3. CASE PressCtrlL
    BY <1>3, EmptyType, SizeFacts DEF PressCtrlL, TypeInv, TypeOK, locals
  <1> QED
    BY <1>1, <1>2, <1>3, TabType, BackspaceType DEF Press

LEMMA SwitchType ==
    ASSUME TypeInv, NEW n \in Term, SwitchTerminal(n)
    PROVE  TypeInv'
  BY DEF SwitchTerminal, StoredLine, TypeInv, TypeOK, screen, locals

-----------------------------------------------------------------------------
(* The steps of terminal_read and terminal_write. *)

LEMMA GotoType ==
    ASSUME TypeOK, NEW t \in Term, NEW l \in PC, Goto(t, l)
    PROVE  /\ pc' \in [Term -> PC] /\ pc'[t] = l
           /\ \A u \in Term : u # t => pc'[u] = pc[u]
  BY DEF TypeOK, Goto

\* A step of thread t that leaves i and j alone needs to look at thread t only.
LEMMA ThreadFrame ==
    ASSUME TypeInv, TypeOK', NEW t \in Term, NEW l \in PC, Goto(t, l),
           \A u \in Term : u # t => idx'[u] = idx[u] /\ nbytes'[u] = nbytes[u],
           l = "copy" => idx'[t] < nbytes'[t],
           l = "test" => idx'[t] <= nbytes'[t],
           l = "clear" => idx'[t] < BufferSize,
           l \notin {"test", "copy", "clear"} => idx'[t] = 0
    PROVE  TypeInv'
  BY GotoType DEF TypeInv

LEMMA WriteType ==
    ASSUME TypeInv, NEW t \in Term, WriteEnter(t) \/ WriteReturn(t)
    PROVE  TypeInv'
  <1>0. TypeOK
    BY DEF TypeInv
  <1>1. "write" \in PC /\ "user" \in PC
    BY DEF PC
  <1>2. CASE WriteEnter(t)
    <2>1. Goto(t, "write") /\ pc[t] = "user"
      BY <1>2 DEF WriteEnter, Goto
    <2>2. TypeOK'
      BY <1>0, <1>1, <1>2, <2>1, GotoType, SizeFacts DEF WriteEnter, TypeOK, line
    <2> QED
      BY <1>1, <1>2, <2>1, <2>2, ThreadFrame DEF WriteEnter, TypeInv
  <1>3. CASE WriteReturn(t)
    <2>1. Goto(t, "user") /\ pc[t] = "write"
      BY <1>3 DEF WriteReturn, Goto
    <2>2. cursor_x' \in [Term -> Column] /\ keyboardbuffersize' = 0
      BY <1>0, <1>3 DEF WriteReturn, TypeOK
    <2>3. TypeOK'
      BY <1>0, <1>1, <1>3, <2>1, <2>2, GotoType, SizeFacts
      DEF WriteReturn, TypeOK, line
    <2> QED
      BY <1>1, <1>3, <2>1, <2>3, ThreadFrame DEF WriteReturn, TypeInv
  <1> QED
    BY <1>2, <1>3

LEMMA ReadType ==
    ASSUME TypeInv, NEW t \in Term,
           \/ \E n \in Requests : ReadEnter(t, n)
           \/ ReadWait(t) \/ ReadFlag(t) \/ ReadTest(t) \/ ReadCopy(t)
           \/ ReadScan(t) \/ ReadClear(t) \/ ReadReset(t) \/ ReadLower(t)
           \/ ReadReturn(t)
    PROVE  TypeInv'
  <1>0. TypeOK
    BY DEF TypeInv
  <1>p. {"user", "wait", "flag", "test", "copy", "scan", "clear", "reset",
         "lower", "return", "wild"} \subseteq PC
    BY DEF PC, Copying, Clearing
  <1>1. ASSUME NEW n \in Requests, ReadEnter(t, n) PROVE TypeInv'
    <2>1. (IF n > BufferSize THEN BufferSize ELSE n) \in 0..BufferSize
      BY LineInputAssumption
    <2>2. TypeOK'
      BY <1>0, <1>p, <1>1, <2>1, GotoType DEF ReadEnter, TypeOK, line, screen
    <2> QED
      BY <1>0, <1>p, <1>1, <2>2, ThreadFrame DEF ReadEnter, TypeInv, TypeOK
  <1>2. CASE ReadWait(t)
    <2>1. TypeOK'
      BY <1>0, <1>p, <1>2, GotoType DEF ReadWait, TypeOK, line, screen
    <2> QED
      BY <1>p, <1>2, <2>1, ThreadFrame DEF ReadWait, TypeInv
  <1>3. CASE ReadFlag(t)
    <2> DEFINE l == IF enterflag THEN "test" ELSE "wait"
    <2>1. l \in PC /\ Goto(t, l) /\ (l = "test" \/ l = "wait")
      BY <1>p, <1>3 DEF ReadFlag
    <2>2. TypeOK'
      BY <1>0, <1>3, <2>1, GotoType DEF ReadFlag, TypeOK, line, screen
    <2>3. idx'[t] = 0 /\ nbytes'[t] \in 0..BufferSize
      BY <1>0, <1>3 DEF ReadFlag, TypeInv, TypeOK
    <2>4. \A u \in Term : idx'[u] = idx[u] /\ nbytes'[u] = nbytes[u]
      BY <1>3 DEF ReadFlag
    <2> HIDE DEF l
    <2> QED
      BY <2>1, <2>2, <2>3, <2>4, ThreadFrame
  <1>4. CASE ReadTest(t)
    <2>1. CASE idx[t] < nbytes[t]
      <3>1. (IF keyboardbuffer[idx[t]] = Nul /\ count[t] = BufferSize
               THEN idx[t] ELSE count[t]) \in 0..BufferSize
        BY <1>0 DEF TypeOK
      <3>2. Goto(t, "copy")
        BY <1>4, <2>1 DEF ReadTest
      <3>3. count' \in [Term -> 0..BufferSize]
        BY <1>0, <1>4, <2>1, <3>1 DEF ReadTest, TypeOK
      <3>4. TypeOK'
        BY <1>0, <1>p, <1>4, <2>1, <3>2, <3>3, GotoType
        DEF ReadTest, TypeOK, line, screen
      <3> QED
        BY <1>p, <1>4, <2>1, <3>2, <3>4, ThreadFrame DEF ReadTest
    <2>2. CASE ~(idx[t] < nbytes[t])
      <3>1. /\ Goto(t, "scan") /\ idx' = [idx EXCEPT ![t] = 0]
            /\ keyboardbuffersize' = 0 /\ UNCHANGED <<count, nbytes>>
        BY <1>4, <2>2 DEF ReadTest
      <3>2. TypeOK'
        BY <1>0, <1>p, <1>4, <3>1, GotoType, SizeFacts
        DEF ReadTest, TypeOK, line, screen
      <3> QED
        BY <1>0, <1>p, <3>1, <3>2, ThreadFrame DEF TypeOK
    <2> QED
      BY <2>1, <2>2
  <1>5. CASE ReadCopy(t)
    <2>1. idx[t] < nbytes[t] /\ idx[t] \in 0..BufferSize /\ nbytes[t] \in 0..BufferSize
      BY <1>0, <1>5 DEF ReadCopy, TypeInv, TypeOK
    <2>2. /\ idx[t] \in Index /\ idx[t] + 1 \in 0..BufferSize
          /\ idx[t] + 1 <= nbytes[t]
      BY <2>1, SizeFacts DEF Index
    <2>3. buf' = [buf EXCEPT ![t] = [@ EXCEPT ![idx[t]] = keyboardbuffer[idx[t]]]]
      BY <1>5 DEF ReadCopy
    <2>4. buf' \in [Term -> [Index -> Char]]
      BY <1>0, <2>2, <2>3 DEF TypeOK
    <2>5. idx' \in [Term -> 0..BufferSize] /\ idx'[t] = idx[t] + 1
      BY <1>0, <1>5, <2>2 DEF ReadCopy, TypeOK
    <2>6. TypeOK'
      BY <1>0, <1>p, <1>5, <2>4, <2>5, GotoType
      DEF ReadCopy, TypeOK, line, screen
    <2>7. \A u \in Term : u # t => idx'[u] = idx[u]
      BY <1>0, <1>5 DEF ReadCopy, TypeOK
    <2> QED
      BY <1>p, <1>5, <2>2, <2>5, <2>6, <2>7, ThreadFrame DEF ReadCopy
  <1>6. CASE ReadScan(t)
    <2>1. keyboardbuffersize \in Index => keyboardbuffersize + 1 \in 0..BufferSize
      BY LineInputAssumption DEF Index
    <2>2. PICK l \in {"wild", "clear", "scan"} : Goto(t, l)
      <3>1. pc' = pc => Goto(t, "scan")
        BY <1>0, <1>6 DEF ReadScan, Goto, TypeOK
      <3> QED
        BY <1>6, <3>1 DEF ReadScan
    <2>3. keyboardbuffersize' \in 0..BufferSize /\ l \in PC
      BY <1>0, <1>p, <1>6, <2>1 DEF ReadScan, TypeOK
    <2>4. TypeOK'
      BY <1>0, <1>6, <2>2, <2>3, GotoType DEF ReadScan, TypeOK, line, screen
    <2>5. idx'[t] = 0 /\ 0 < BufferSize
      BY <1>6, LineInputAssumption DEF ReadScan, TypeInv
    <2>6. \A u \in Term : idx'[u] = idx[u] /\ nbytes'[u] = nbytes[u]
      BY <1>6 DEF ReadScan
    <2> QED
      BY <2>2, <2>3, <2>4, <2>5, <2>6, ThreadFrame
  <1>7. CASE ReadClear(t)
    <2>1. idx[t] \in Index /\ Nul \in Char
      BY <1>0, <1>7, SizeFacts DEF ReadClear, TypeInv, TypeOK, Char
    <2>2. keyboardbuffer' \in [Index -> Char]
      BY <1>0, <1>7, <2>1 DEF ReadClear, TypeOK
    <2>3. CASE Cleared(t)
      <3>1. Goto(t, "reset") /\ idx' = [idx EXCEPT ![t] = 0]
        BY <1>7, <2>3 DEF ReadClear
      <3>2. idx' \in [Term -> 0..BufferSize] /\ idx'[t] = 0
        BY <1>0, <3>1, SizeFacts DEF TypeOK
      <3>3. TypeOK'
        BY <1>0, <1>p, <1>7, <2>2, <3>1, <3>2, GotoType
        DEF ReadClear, TypeOK, screen
      <3>4. \A u \in Term : u # t => idx'[u] = idx[u] /\ nbytes'[u] = nbytes[u]
        BY <1>0, <1>7, <3>1 DEF ReadClear, TypeOK
      <3> QED
        BY <1>p, <3>1, <3>2, <3>3, <3>4, ThreadFrame
    <2>4. CASE ~Cleared(t)
      <3>1. Goto(t, "clear") /\ idx' = [idx EXCEPT ![t] = idx[t] + 1]
        BY <1>7, <2>4 DEF ReadClear
      <3>2. idx[t] + 1 \in Index
        BY <2>1, <2>4, LineInputAssumption DEF Cleared, Index
      <3>3. idx' \in [Term -> 0..BufferSize] /\ idx'[t] < BufferSize
        BY <1>0, <3>1, <3>2, LineInputAssumption DEF TypeOK, Index
      <3>4. TypeOK'
        BY <1>0, <1>p, <1>7, <2>2, <3>1, <3>3, GotoType
        DEF ReadClear, TypeOK, screen
      <3>5. \A u \in Term : u # t => idx'[u] = idx[u] /\ nbytes'[u] = nbytes[u]
        BY <1>0, <1>7, <3>1 DEF ReadClear, TypeOK
      <3> QED
        BY <1>p, <3>1, <3>3, <3>4, <3>5, ThreadFrame
    <2> QED
      BY <2>3, <2>4
  <1>8. CASE ReadReset(t)
    <2>1. TypeOK'
      BY <1>0, <1>p, <1>8, GotoType, SizeFacts DEF ReadReset, TypeOK, screen
    <2> QED
      BY <1>p, <1>8, <2>1, ThreadFrame DEF ReadReset, TypeInv
  <1>9. CASE ReadLower(t)
    <2>1. TypeOK'
      BY <1>0, <1>p, <1>9, GotoType DEF ReadLower, Lowered, TypeOK, screen
    <2> QED
      BY <1>p, <1>9, <2>1, ThreadFrame DEF ReadLower, TypeInv
  <1>10. CASE ReadReturn(t)
    <2>1. TypeOK'
      BY <1>0, <1>p, <1>10, GotoType, SizeFacts, EmptyType
      DEF ReadReturn, TypeOK, line, screen
    <2> QED
      BY <1>0, <1>p, <1>10, <2>1, ThreadFrame DEF ReadReturn, TypeInv, TypeOK
  <1> QED
    BY <1>1, <1>2, <1>3, <1>4, <1>5, <1>6, <1>7, <1>8, <1>9, <1>10

LEMMA TypeInvStep == TypeInv /\ [Next]_vars => TypeInv'
  <1> SUFFICES ASSUME TypeInv, [Next]_vars PROVE TypeInv'
    OBVIOUS
  <1>1. CASE UNCHANGED vars
    BY <1>1 DEF vars, line, screen, locals, TypeInv, TypeOK
  <1> QED
    BY <1>1, PressType, SwitchType, WriteType, ReadType DEF Next, KernelStep

\* Whatever keys come when, every index into the line's buffers is one: the
\* handler's currkey and the reader's i and j stay in the buffer.
THEOREM TypeCorrect == Spec => []TypeInv
  BY TypeInvInit, TypeInvStep, PTL DEF Spec

=============================================================================
