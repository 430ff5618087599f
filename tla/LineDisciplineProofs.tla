------------------------ MODULE LineDisciplineProofs ------------------------
(***************************************************************************)
(* Proofs about LineInput for a typist who waits for a completed line to   *)
(* be read, for every number of terminals and every size of the buffer:    *)
(* LineInv is invariant, and LineInput implements LineDiscipline.          *)
(***************************************************************************)
EXTENDS LineInputInv, LineInputProofs, SequenceTheorems

\* AtRest, of a buffer b with a line of n characters that is complete iff e.
Rest(b, n, e) ==
    /\ Holds(b, n)
    /\ Ends(b, n)
    /\ e <=> n > 0 /\ b[n - 1] = Newline

LEMMA AtRestIs ==
    ASSUME NEW t
    PROVE  /\ AtRest(t) <=> Rest(Buffer(t), currkey[t], t = currTerminal /\ enterflag)
           /\ AtRest(t)' <=> Rest(Buffer(t)', currkey'[t], t = currTerminal' /\ enterflag')
  BY DEF AtRest, Rest

LEMMA RestEmpty == Rest(Empty, 0, FALSE)
  BY LineInputAssumption DEF Rest, Holds, Ends, Empty, Index, Nul, Newline

\* Entering a character behind an incomplete line.
LEMMA RestStore ==
    ASSUME NEW b \in [Index -> Char], NEW n \in Index, Rest(b, n, FALSE),
           NEW c \in Char, c # Nul
    PROVE  Rest([b EXCEPT ![n] = c], n + 1, c = Newline)
  <1> DEFINE d == [b EXCEPT ![n] = c]
  <1>1. n \in Nat /\ \A i \in Index : i \in Nat
    BY DEF Index
  <1>2. d[n] = c /\ \A i \in Index : i # n => d[i] = b[i]
    OBVIOUS
  <1>3. \A i \in Index : i < n => b[i] # Newline
    <2>1. \A i \in Index : b[i] = Newline => i = n - 1
      BY DEF Rest, Ends
    <2>2. ~(n > 0 /\ b[n - 1] = Newline)
      BY DEF Rest
    <2> QED
      BY <1>1, <2>1, <2>2
  <1>4. \A i \in Index : b[i] = Nul <=> i >= n
    BY DEF Rest, Holds
  <1>5. Nul # Newline
    BY DEF Nul, Newline
  <1> HIDE DEF d
  <1>6. Holds(d, n + 1)
    BY <1>1, <1>2, <1>4 DEF Holds
  <1>7. Ends(d, n + 1)
    BY <1>1, <1>2, <1>3, <1>4, <1>5 DEF Ends
  <1>8. n + 1 > 0 /\ n + 1 - 1 = n
    BY <1>1
  <1>9. c = Newline <=> n + 1 > 0 /\ d[n + 1 - 1] = Newline
    BY <1>2, <1>8
  <1>10. Rest(d, n + 1, c = Newline)
    BY <1>1, <1>6, <1>7, <1>8, <1>9 DEF Rest
  <1> QED
    BY <1>10 DEF d

\* Erasing the last character of an incomplete line.
LEMMA RestErase ==
    ASSUME NEW b \in [Index -> Char], NEW n \in 0..BufferSize, n # 0, Rest(b, n, FALSE)
    PROVE  Rest([b EXCEPT ![n - 1] = Nul], n - 1, FALSE)
  <1> DEFINE d == [b EXCEPT ![n - 1] = Nul]
  <1>1. /\ n \in Nat /\ n - 1 \in Index /\ n - 1 \in Nat
        /\ \A i \in Index : i \in Nat
    BY LineInputAssumption DEF Index
  <1>2. d[n - 1] = Nul /\ \A i \in Index : i # n - 1 => d[i] = b[i]
    BY <1>1
  <1>3. \A i \in Index : b[i] # Newline
    <2>1. \A i \in Index : b[i] = Newline => i = n - 1
      BY DEF Rest, Ends
    <2>2. b[n - 1] # Newline
      BY <1>1 DEF Rest
    <2> QED
      BY <2>1, <2>2
  <1>4. \A i \in Index : b[i] = Nul <=> i >= n
    BY DEF Rest, Holds
  <1>5. Nul # Newline
    BY DEF Nul, Newline
  <1> HIDE DEF d
  <1>6. Holds(d, n - 1)
    BY <1>1, <1>2, <1>4 DEF Holds
  <1>7. \A i \in Index : d[i] # Newline
    BY <1>1, <1>2, <1>3, <1>5
  <1>8. n - 1 > 0 => n - 1 - 1 \in Index
    BY <1>1, LineInputAssumption DEF Index
  <1> QED
    BY <1>6, <1>7, <1>8 DEF Rest, Ends, d

-----------------------------------------------------------------------------
(* LineInv. *)

\* What LineInv says of thread t.
ThreadInv(t) ==
    /\ pc[t] \in Copying \cup Clearing =>
         t = currTerminal /\ enterflag /\ nbytes[t] = BufferSize
    /\ pc[t] = "flag" => t = currTerminal
    /\ pc[t] \in {"wait", "flag"} => nbytes[t] = BufferSize
    /\ pc[t] \in {"user", "write", "wait", "flag"} => count[t] = BufferSize
    /\ pc[t] # "wild"
    /\ pc[t] \notin Clearing => AtRest(t)
    /\ pc[t] \in Copying => Copied(t)
    /\ pc[t] \in Clearing \cup {"return"} => Result(t)
    /\ pc[t] = "scan" => AtRest(t) /\ keyboardbuffersize < currkey[t]
    /\ pc[t] = "clear" => \A i \in Index : i < idx[t] => keyboardbuffer[i] = Nul
    /\ pc[t] \in {"reset", "lower"} => keyboardbuffer = Empty
    /\ pc[t] = "lower" => currkey[t] = 0

LEMMA LineInvIs ==
    /\ LineInv <=> \A t \in Term : ThreadInv(t)
    /\ LineInv' <=> \A t \in Term : ThreadInv(t)'
  BY Zenon DEF LineInv, ThreadInv

LEMMA LineInvInit == Init => LineInv
  <1> SUFFICES ASSUME Init, NEW t \in Term PROVE ThreadInv(t)
    BY LineInvIs
  <1>1. /\ pc[t] = "user" /\ count[t] = BufferSize /\ currkey[t] = 0
        /\ Buffer(t) = Empty /\ enterflag = FALSE
    BY DEF Init, Buffer
  <1>2. AtRest(t)
    BY <1>1, AtRestIs, RestEmpty
  <1> QED
    BY <1>1, <1>2 DEF ThreadInv, Copying, Clearing

\* The handler edits the line of the visible terminal when no line is pending.
LEMMA EditKeepsInv ==
    ASSUME TypeInv, TypeInv', LineInv, ~Pending,
           UNCHANGED <<currTerminal, terminalbuffer, locals>>,
           NEW n, currkey' = [currkey EXCEPT ![currTerminal] = n],
           Rest(keyboardbuffer', n, enterflag')
    PROVE  LineInv'
  <1> SUFFICES ASSUME NEW t \in Term PROVE ThreadInv(t)'
    BY LineInvIs
  <1>1. /\ pc[t] \notin Copying \cup Clearing /\ ThreadInv(t) /\ ~enterflag
        /\ pc' = pc /\ nbytes' = nbytes /\ idx' = idx /\ count' = count /\ buf' = buf
    BY LineInvIs DEF Pending, locals
  <1>2. /\ currTerminal \in Term /\ currkey \in [Term -> 0..BufferSize]
        /\ currTerminal' = currTerminal /\ terminalbuffer' = terminalbuffer
    BY DEF TypeInv, TypeOK
  <1>3. AtRest(t)'
    <2>1. CASE t = currTerminal
      <3>1. Buffer(t)' = keyboardbuffer' /\ currkey'[t] = n
        BY <1>2, <2>1 DEF Buffer
      <3>2. (t = currTerminal' /\ enterflag') <=> enterflag'
        BY <1>2, <2>1
      <3>3. Rest(Buffer(t)', currkey'[t], t = currTerminal' /\ enterflag')
        BY <3>1, <3>2, Zenon DEF Rest
      <3> QED
        BY <3>3, AtRestIs, Zenon
    <2>2. CASE t # currTerminal
      <3>1. Buffer(t)' = Buffer(t) /\ currkey'[t] = currkey[t]
        BY <1>2, <2>2 DEF Buffer
      <3>2. AtRest(t)
        BY <1>1, Zenon DEF ThreadInv
      <3>3. Rest(Buffer(t), currkey[t], t = currTerminal /\ enterflag)
        BY <3>2, AtRestIs, Zenon
      <3>4. Rest(Buffer(t)', currkey'[t], t = currTerminal' /\ enterflag')
        BY <1>2, <2>2, <3>1, <3>3, Zenon DEF Rest
      <3> QED
        BY <3>4, AtRestIs, Zenon
    <2> QED
      BY <2>1, <2>2
  <1>4. Result(t)' <=> Result(t)
    BY <1>1 DEF Result
  <1> QED
    BY <1>1, <1>2, <1>3, <1>4 DEF ThreadInv, Copying, Clearing

\* The disciplined typist edits only when no line is pending.
LEMMA WhenTyping ==
    ASSUME Disciplined, TypeInv, LineInv, MayType
    PROVE  /\ ~Pending
           /\ currTerminal \in Term /\ currkey \in [Term -> 0..BufferSize]
           /\ Length \in 0..BufferSize
           /\ keyboardbuffer \in [Index -> Char]
           /\ Rest(keyboardbuffer, Length, FALSE)
  <1>1. ~Pending
    BY DEF Disciplined, MayType
  <1>2. /\ currTerminal \in Term /\ currkey \in [Term -> 0..BufferSize]
        /\ Length \in 0..BufferSize /\ keyboardbuffer \in [Index -> Char]
    BY DEF TypeInv, TypeOK, Length
  <1>3. ~enterflag /\ pc[currTerminal] \notin Clearing
    BY <1>1, <1>2 DEF Pending
  <1>4. AtRest(currTerminal)
    BY <1>2, <1>3, LineInvIs DEF ThreadInv
  <1>5. Buffer(currTerminal) = keyboardbuffer
    BY DEF Buffer
  <1>6. Rest(keyboardbuffer, Length, currTerminal = currTerminal /\ enterflag)
    BY <1>4, <1>5, AtRestIs, Zenon DEF Length
  <1>7. Rest(keyboardbuffer, Length, FALSE)
    BY <1>3, <1>6, Zenon DEF Rest
  <1> QED
    BY <1>1, <1>2, <1>7

\* What the keys that enter a character enter.
LEMMA EnteredChar ==
    ASSUME NEW k \in Chars \cup {"enter"}
    PROVE  /\ Output(k) \in Char /\ Output(k) # Nul
           /\ Output(k) = Newline <=> k = "enter"
  <1>1. CASE k \in Chars
    BY <1>1, LineInputAssumption DEF Output, Char, OtherKeys
  <1>2. CASE k = "enter" /\ k \notin Chars
    BY <1>2 DEF Output, Char, Nul, Newline
  <1> QED
    BY <1>1, <1>2

LEMMA EnterKeepsInv ==
    ASSUME Disciplined, TypeInv, TypeInv', LineInv,
           NEW k \in Chars \cup {"enter"}, MayType, Enter(k)
    PROVE  LineInv'
  <1>1. Length \in Index
    BY WhenTyping, LineInputAssumption DEF Enter, HasRoom, Index
  <1>2. /\ UNCHANGED <<currTerminal, terminalbuffer, locals>>
        /\ currkey' = [currkey EXCEPT ![currTerminal] = Length + 1]
        /\ keyboardbuffer' = [keyboardbuffer EXCEPT ![Length] = Output(k)]
    BY DEF Enter, Store, Length
  <1>3. ~enterflag
    BY WhenTyping DEF Pending
  <1>4. enterflag' <=> Output(k) = Newline
    BY <1>3, EnteredChar DEF Enter
  <1>5. Rest(keyboardbuffer', Length + 1, Output(k) = Newline)
    BY <1>1, <1>2, WhenTyping, EnteredChar, RestStore
  <1>6. Rest(keyboardbuffer', Length + 1, enterflag')
    BY <1>4, <1>5, Zenon DEF Rest
  <1> QED
    BY <1>2, <1>6, WhenTyping, EditKeepsInv

LEMMA TabKeepsInv ==
    ASSUME Disciplined, TypeInv, TypeInv', LineInv, PressTab
    PROVE  LineInv'
  <1>1. Length \in Index /\ MayType
    BY WhenTyping, LineInputAssumption DEF PressTab, Accepts, Index
  <1>2. /\ UNCHANGED <<currTerminal, terminalbuffer, locals, enterflag>>
        /\ currkey' = [currkey EXCEPT ![currTerminal] = Length + 1]
        /\ keyboardbuffer' = [keyboardbuffer EXCEPT ![Length] = Tab]
    BY DEF PressTab, Store, Length
  <1>3. Tab \in Char /\ Tab # Nul /\ Tab # Newline
    BY DEF Char, Tab, Nul, Newline
  <1>4. Rest(keyboardbuffer', Length + 1, Tab = Newline)
    BY <1>1, <1>2, <1>3, WhenTyping, RestStore
  <1>5. ~enterflag'
    BY <1>1, <1>2, WhenTyping DEF Pending
  <1>6. Rest(keyboardbuffer', Length + 1, enterflag')
    BY <1>3, <1>4, <1>5, Zenon DEF Rest
  <1> QED
    BY <1>1, <1>2, <1>6, WhenTyping, EditKeepsInv

\* Backspace takes the character before the end away, and puts a '\0' there.
LEMMA EraseIs ==
    ASSUME Disciplined, TypeInv, LineInv, NEW k \in Keys, PressBackspace(k)
    PROVE  /\ MayType /\ Length # 0
           /\ UNCHANGED <<currTerminal, terminalbuffer, locals, enterflag>>
           /\ currkey' = [currkey EXCEPT ![currTerminal] = Length - 1]
           /\ keyboardbuffer' = [keyboardbuffer EXCEPT ![Length - 1] = Nul]
  <1>1. k = "backspace" /\ k \notin Chars
    BY LineInputAssumption DEF Disciplined, PressBackspace, OtherKeys
  <1>2. Output(k) = Nul
    BY <1>1 DEF Output
  <1> QED
    BY <1>2 DEF PressBackspace, Erase, CanErase, Length

LEMMA BackspaceKeepsInv ==
    ASSUME Disciplined, TypeInv, TypeInv', LineInv, NEW k \in Keys,
           PressBackspace(k)
    PROVE  LineInv'
  <1>1. Rest(keyboardbuffer', Length - 1, FALSE)
    BY EraseIs, WhenTyping, RestErase
  <1>2. ~enterflag'
    BY EraseIs, WhenTyping DEF Pending
  <1>3. Rest(keyboardbuffer', Length - 1, enterflag')
    BY <1>1, <1>2, Zenon DEF Rest
  <1> QED
    BY <1>3, EraseIs, WhenTyping, EditKeepsInv

LEMMA CtrlLKeepsInv ==
    ASSUME Disciplined, TypeInv, TypeInv', LineInv, PressCtrlL
    PROVE  LineInv'
  <1>1. ~enterflag'
    BY WhenTyping DEF PressCtrlL, Pending
  <1>2. Rest(keyboardbuffer', 0, enterflag')
    BY <1>1, RestEmpty DEF PressCtrlL, Rest
  <1> QED
    BY <1>2, WhenTyping, EditKeepsInv DEF PressCtrlL

LEMMA PressKeepsInv ==
    ASSUME Disciplined, TypeInv, TypeInv', LineInv, NEW k \in Keys, Press(k)
    PROVE  LineInv'
  <1>1. CASE PressChar(k)
    <2>1. k \in Chars \cup {"enter"} /\ MayType /\ Enter(k)
      BY <1>1 DEF PressChar, Disciplined
    <2> QED
      BY <2>1, EnterKeepsInv
  <1>2. ~BackspaceAtEdge(k)
    BY DEF BackspaceAtEdge, Disciplined
  <1> QED
    BY <1>1, <1>2, TabKeepsInv, BackspaceKeepsInv, CtrlLKeepsInv DEF Press

LEMMA SwitchKeepsInv ==
    ASSUME Disciplined, TypeInv, LineInv, NEW n \in Term, SwitchTerminal(n)
    PROVE  LineInv'
  <1> SUFFICES ASSUME NEW t \in Term PROVE ThreadInv(t)'
    BY LineInvIs
  <1>1. /\ ~Pending /\ pc[t] \notin Copying \cup Clearing \cup {"flag"}
        /\ ~enterflag /\ ~enterflag'
    BY DEF SwitchTerminal, MaySwitch, Disciplined, Pending
  <1>2. /\ ThreadInv(t)
        /\ pc' = pc /\ nbytes' = nbytes /\ count' = count /\ buf' = buf
        /\ currkey' = currkey
    BY LineInvIs DEF SwitchTerminal, locals
  <1>3. Buffer(t)' = Buffer(t)
    BY DEF Buffer, SwitchTerminal, StoredLine, TypeInv, TypeOK
  <1>4. Rest(Buffer(t), currkey[t], t = currTerminal /\ enterflag)
    BY <1>1, <1>2, AtRestIs, Zenon DEF ThreadInv
  <1>5. Rest(Buffer(t)', currkey'[t], t = currTerminal' /\ enterflag')
    BY <1>1, <1>2, <1>3, <1>4, Zenon DEF Rest
  <1>6. AtRest(t)'
    BY <1>5, AtRestIs, Zenon
  <1>7. Result(t)' <=> Result(t)
    BY <1>2 DEF Result
  <1> QED
    BY <1>1, <1>2, <1>6, <1>7 DEF ThreadInv, Copying, Clearing

-----------------------------------------------------------------------------
(* LineInv, and the steps of terminal_read and terminal_write. *)

SameLocals(u) ==
    /\ pc'[u] = pc[u] /\ nbytes'[u] = nbytes[u] /\ idx'[u] = idx[u]
    /\ count'[u] = count[u] /\ buf'[u] = buf[u]

\* AtRest survives what touches neither the line nor its flag.
LEMMA RestKept ==
    ASSUME NEW u, AtRest(u), Buffer(u)' = Buffer(u), currkey'[u] = currkey[u],
           (u = currTerminal' /\ enterflag') <=> (u = currTerminal /\ enterflag)
    PROVE  AtRest(u)'
  <1>1. Rest(Buffer(u), currkey[u], u = currTerminal /\ enterflag)
    BY AtRestIs, Zenon
  <1>2. Rest(Buffer(u)', currkey'[u], u = currTerminal' /\ enterflag')
    BY <1>1, Zenon DEF Rest
  <1> QED
    BY <1>2, AtRestIs, Zenon

\* A thread that is not reading does not notice what a reader does to the line of
\* another terminal.
LEMMA AsideKept ==
    ASSUME NEW u \in Term, ThreadInv(u), SameLocals(u),
           pc[u] \notin Copying \cup Clearing,
           currTerminal' = currTerminal,
           AtRest(u) => AtRest(u)'
    PROVE  ThreadInv(u)'
  <1>1. AtRest(u)'
    BY Zenon DEF ThreadInv
  <1>2. Result(u)' <=> Result(u)
    BY DEF Result, SameLocals
  <1> QED
    BY <1>1, <1>2 DEF ThreadInv, SameLocals, Copying, Clearing

\* Nor does any thread notice a step that leaves the lines alone.
LEMMA LinesKept ==
    ASSUME NEW u \in Term, ThreadInv(u), SameLocals(u),
           UNCHANGED <<currTerminal, line, terminalbuffer>>,
           pc[u] = "scan" => \/ keyboardbuffersize' = keyboardbuffersize
                            \/ keyboardbuffersize' < currkey[u]
    PROVE  ThreadInv(u)'
  <1>1. Buffer(u)' = Buffer(u)
    BY DEF Buffer, line
  <1>2. AtRest(u) => AtRest(u)'
    BY <1>1, RestKept DEF line
  <1>3. Result(u)' <=> Result(u)
    BY DEF Result, SameLocals
  <1>4. Copied(u)' <=> Copied(u)
    BY DEF Copied, SameLocals, line
  <1> QED
    BY <1>2, <1>3, <1>4 DEF ThreadInv, SameLocals, line

\* Only the visible terminal's thread is past the flag, and only one is.
LEMMA OneReader ==
    ASSUME TypeInv, LineInv, NEW t \in Term, pc[t] \in Copying \cup Clearing
    PROVE  /\ t = currTerminal /\ enterflag /\ nbytes[t] = BufferSize
           /\ \A u \in Term \ {t} : pc[u] \notin Copying \cup Clearing
           /\ Buffer(t) = keyboardbuffer
  BY LineInvIs DEF ThreadInv, Buffer

\* So a reader's step has to be looked at for itself only.
LEMMA ReaderFrame ==
    ASSUME TypeInv, LineInv, NEW t \in Term, pc[t] \in Copying \cup Clearing,
           UNCHANGED <<currTerminal, terminalbuffer>>,
           \A u \in Term \ {t} : SameLocals(u) /\ currkey'[u] = currkey[u],
           ThreadInv(t)'
    PROVE  LineInv'
  <1> SUFFICES ASSUME NEW u \in Term, u # t PROVE ThreadInv(u)'
    BY LineInvIs
  <1>1. u # currTerminal /\ pc[u] \notin Copying \cup Clearing /\ ThreadInv(u)
    BY OneReader, LineInvIs
  <1>2. Buffer(u)' = Buffer(u)
    BY <1>1 DEF Buffer
  <1>3. AtRest(u) => AtRest(u)'
    BY <1>1, <1>2, RestKept
  <1> QED
    BY <1>1, <1>3, AsideKept

\* And a step outside of a read leaves the lines alone.
LEMMA IdleFrame ==
    ASSUME TypeInv, LineInv, NEW t \in Term,
           UNCHANGED <<currTerminal, line, terminalbuffer>>,
           keyboardbuffersize' \in {keyboardbuffersize, 0},
           \A u \in Term \ {t} : SameLocals(u),
           ThreadInv(t)'
    PROVE  LineInv'
  <1> SUFFICES ASSUME NEW u \in Term, u # t PROVE ThreadInv(u)'
    BY LineInvIs
  <1>1. ThreadInv(u)
    BY LineInvIs
  <1>2. pc[u] = "scan" => 0 < currkey[u]
    BY <1>1 DEF ThreadInv, TypeInv, TypeOK
  <1> QED
    BY <1>1, <1>2, LinesKept

LEMMA WriteKeepsInv ==
    ASSUME TypeInv, LineInv, NEW t \in Term, WriteEnter(t) \/ WriteReturn(t)
    PROVE  LineInv'
  <1>1. /\ pc[t] \in {"user", "write"} /\ pc'[t] \in {"user", "write"}
        /\ \A u \in Term \ {t} : SameLocals(u)
        /\ count' = count
        /\ UNCHANGED <<currTerminal, line, terminalbuffer>>
        /\ keyboardbuffersize' \in {keyboardbuffersize, 0}
    BY DEF WriteEnter, WriteReturn, SameLocals, TypeInv, TypeOK
  <1>2. Buffer(t)' = Buffer(t) /\ ThreadInv(t)
    BY <1>1, LineInvIs DEF Buffer, line
  <1>3. AtRest(t) => AtRest(t)'
    BY <1>1, <1>2, RestKept DEF line
  <1>4. ThreadInv(t)'
    BY <1>1, <1>2, <1>3 DEF ThreadInv, Copying, Clearing
  <1> QED
    BY <1>1, <1>4, IdleFrame

\* Waiting and returning.
LEMMA IdleReadKeepsInv ==
    ASSUME Disciplined, TypeInv, LineInv, NEW t \in Term,
           \/ \E n \in Requests : ReadEnter(t, n)
           \/ ReadWait(t) \/ ReadFlag(t) \/ ReadReturn(t)
    PROVE  LineInv'
  <1>1. /\ \A u \in Term \ {t} : SameLocals(u)
        /\ UNCHANGED <<currTerminal, line, terminalbuffer>>
        /\ keyboardbuffersize' \in {keyboardbuffersize, 0}
    BY DEF ReadEnter, ReadWait, ReadFlag, ReadReturn, Goto, SameLocals, TypeInv, TypeOK
  <1>2. Buffer(t)' = Buffer(t) /\ ThreadInv(t)
    BY <1>1, LineInvIs DEF Buffer, line
  <1>3. AtRest(t) => AtRest(t)'
    BY <1>1, <1>2, RestKept DEF line
  <1>4. ThreadInv(t)'
    <2>1. ASSUME NEW n \in Requests, ReadEnter(t, n) PROVE ThreadInv(t)'
      <3>1. n \in Nat /\ n >= BufferSize
        BY DEF Disciplined
      <3>2. /\ pc[t] = "user" /\ pc'[t] = "wait" /\ nbytes'[t] = BufferSize
            /\ count' = count
        BY <2>1, <3>1, LineInputAssumption DEF ReadEnter, Goto, TypeInv, TypeOK
      <3> QED
        BY <1>2, <1>3, <3>2 DEF ThreadInv, Copying, Clearing
    <2>2. CASE ReadWait(t)
      <3>1. /\ pc[t] = "wait" /\ pc'[t] = "flag" /\ nbytes' = nbytes
            /\ count' = count /\ t = currTerminal'
        BY <1>1, <2>2 DEF ReadWait, ReadVisible, Goto, TypeInv, TypeOK
      <3> QED
        BY <1>2, <1>3, <3>1 DEF ThreadInv, Copying, Clearing
    <2>3. CASE ReadFlag(t)
      <3>1. /\ pc[t] = "flag" /\ nbytes' = nbytes /\ count' = count /\ idx' = idx
            /\ t = currTerminal' /\ enterflag' = enterflag
            /\ pc'[t] = (IF enterflag THEN "test" ELSE "wait")
        BY <1>1, <1>2, <2>3 DEF ReadFlag, Goto, TypeInv, TypeOK, line, ThreadInv
      <3>2. /\ idx'[t] = 0 /\ count'[t] = BufferSize
            /\ currkey'[t] \in 0..BufferSize
        BY <1>1, <1>2, <3>1 DEF TypeInv, TypeOK, line, ThreadInv
      <3>3. enterflag => Copied(t)'
        BY <3>1, <3>2, LineInputAssumption DEF Copied, Index
      <3> QED
        BY <1>2, <1>3, <3>1, <3>3 DEF ThreadInv, Copying, Clearing
    <2>4. CASE ReadReturn(t)
      <3>1. pc[t] = "return" /\ pc'[t] = "user" /\ count'[t] = BufferSize
        BY <2>4 DEF ReadReturn, Goto, TypeInv, TypeOK
      <3> QED
        BY <1>2, <1>3, <3>1 DEF ThreadInv, Copying, Clearing
    <2> QED
      BY <2>1, <2>2, <2>3, <2>4
  <1> QED
    BY <1>1, <1>4, IdleFrame

\* Looking at a character, and copying it.
LEMMA CopyKeepsInv ==
    ASSUME TypeInv, LineInv, NEW t \in Term,
           \/ ReadTest(t) /\ idx[t] < nbytes[t]
           \/ ReadCopy(t)
    PROVE  LineInv'
  <1>1. /\ pc[t] \in Copying
        /\ \A u \in Term \ {t} : SameLocals(u)
        /\ UNCHANGED <<currTerminal, line, terminalbuffer, nbytes>>
    BY DEF ReadTest, ReadCopy, Goto, SameLocals, TypeInv, TypeOK, Copying
  <1>2. /\ t = currTerminal /\ enterflag /\ nbytes[t] = BufferSize
        /\ Buffer(t) = keyboardbuffer
    BY <1>1, OneReader
  <1>3. Buffer(t)' = Buffer(t) /\ ThreadInv(t)
    BY <1>1, LineInvIs DEF Buffer, line
  <1>4. AtRest(t) /\ AtRest(t)' /\ Copied(t)
    BY <1>1, <1>3, RestKept DEF line, ThreadInv, Copying, Clearing
  <1>5. /\ currkey[t] \in 0..BufferSize /\ idx[t] \in 0..BufferSize
        /\ \A i \in Index : keyboardbuffer[i] = Nul <=> i >= currkey[t]
    BY <1>2, <1>4 DEF TypeInv, TypeOK, AtRest, Holds
  <1>6. pc'[t] \in Copying /\ Copied(t)'
    <2>1. CASE ReadTest(t) /\ idx[t] < nbytes[t]
      <3>1. /\ pc[t] = "test" /\ pc'[t] = "copy" /\ idx' = idx /\ buf' = buf
            /\ count'[t] = IF keyboardbuffer[idx[t]] = Nul /\ count[t] = BufferSize
                             THEN idx[t] ELSE count[t]
        BY <2>1 DEF ReadTest, Goto, TypeInv, TypeOK
      <3>2. idx[t] \in Index
        BY <1>2, <1>5, <2>1, SizeFacts
      <3>3. count[t] = IF idx[t] > currkey[t] THEN currkey[t] ELSE BufferSize
        BY <1>4, <1>5, <3>1, LineInputAssumption DEF Copied
      <3>4. count'[t] = IF idx[t] + 1 > currkey[t] THEN currkey[t] ELSE BufferSize
        BY <1>5, <3>1, <3>2, <3>3, LineInputAssumption DEF Index
      <3>5. \A i \in Index : i < idx'[t] => buf'[t][i] = keyboardbuffer'[i]
        BY <1>1, <1>4, <3>1 DEF Copied, line
      <3> QED
        BY <1>1, <3>1, <3>4, <3>5 DEF Copied, Copying, line
    <2>2. CASE ReadCopy(t)
      <3>1. /\ pc[t] = "copy" /\ pc'[t] = "test" /\ idx'[t] = idx[t] + 1
            /\ count' = count
            /\ buf'[t] = [buf[t] EXCEPT ![idx[t]] = keyboardbuffer[idx[t]]]
        BY <2>2 DEF ReadCopy, Goto, TypeInv, TypeOK
      <3>2. idx[t] \in Index
        BY <1>2, <1>5, <3>1, SizeFacts DEF TypeInv
      <3>3. count'[t] = IF idx'[t] + 0 > currkey'[t] THEN currkey'[t] ELSE BufferSize
        BY <1>1, <1>4, <1>5, <3>1 DEF Copied, line
      <3>4. \A i \in Index : i < idx'[t] => buf'[t][i] = keyboardbuffer'[i]
        <4>1. buf[t] \in [Index -> Char]
          BY DEF TypeInv, TypeOK
        <4>2. \A i \in Index : i < idx[t] + 1 => i = idx[t] \/ i < idx[t]
          BY <3>2 DEF Index
        <4> QED
          BY <1>1, <1>4, <3>1, <3>2, <4>1, <4>2 DEF Copied, line
      <3> QED
        BY <3>1, <3>3, <3>4 DEF Copied, Copying
    <2> QED
      BY <2>1, <2>2
  <1>7. ThreadInv(t)'
    BY <1>1, <1>2, <1>3, <1>4, <1>6 DEF ThreadInv, Copying, Clearing, line
  <1> QED
    BY <1>1, <1>7, ReaderFrame DEF line

\* After nbytes characters buf is the line, and count its length.
LEMMA WholeLine ==
    ASSUME TypeInv, LineInv, NEW t \in Term, ReadTest(t), ~(idx[t] < nbytes[t])
    PROVE  /\ pc[t] = "test" /\ t = currTerminal /\ enterflag
           /\ AtRest(t) /\ Buffer(t) = keyboardbuffer
           /\ currkey[t] \in 1..BufferSize /\ count[t] = currkey[t]
           /\ \A i \in Index : buf[t][i] = keyboardbuffer[i]
           /\ keyboardbuffer[currkey[t] - 1] = Newline
  <1>1. pc[t] = "test" /\ pc[t] \in Copying
    BY DEF ReadTest, Copying
  <1>2. /\ t = currTerminal /\ enterflag /\ nbytes[t] = BufferSize
        /\ Buffer(t) = keyboardbuffer
    BY <1>1, OneReader
  <1>3. ThreadInv(t)
    BY LineInvIs
  <1>4. AtRest(t) /\ Copied(t)
    BY <1>1, <1>3 DEF ThreadInv, Clearing
  <1>5. /\ currkey[t] \in 0..BufferSize /\ idx[t] = BufferSize /\ BufferSize \in Nat
    <2>1. currkey[t] \in 0..BufferSize /\ idx[t] \in 0..BufferSize /\ BufferSize \in Nat
      BY LineInputAssumption DEF TypeInv, TypeOK
    <2> QED
      BY <1>2, <2>1
  <1>6. \A i \in Index : i < BufferSize
    BY LineInputAssumption DEF Index
  <1>7. currkey[t] > 0 /\ keyboardbuffer[currkey[t] - 1] = Newline
    BY <1>2, <1>4 DEF AtRest
  <1>8. count[t] = IF idx[t] + 0 > currkey[t] THEN currkey[t] ELSE BufferSize
    BY <1>1, <1>4 DEF Copied
  <1>9. count[t] = currkey[t]
    BY <1>5, <1>8
  <1>10. \A i \in Index : buf[t][i] = keyboardbuffer[i]
    BY <1>4, <1>5, <1>6 DEF Copied
  <1> QED
    BY <1>1, <1>2, <1>4, <1>5, <1>7, <1>9, <1>10

LEMMA TakeKeepsInv ==
    ASSUME TypeInv, LineInv, NEW t \in Term, ReadTest(t), ~(idx[t] < nbytes[t])
    PROVE  LineInv'
  <1>1. /\ pc'[t] = "scan" /\ count' = count /\ buf' = buf /\ nbytes' = nbytes
        /\ keyboardbuffersize' = 0
        /\ \A u \in Term \ {t} : SameLocals(u)
        /\ UNCHANGED <<currTerminal, line, terminalbuffer>>
    BY DEF ReadTest, Goto, SameLocals, TypeInv, TypeOK
  <1>2. pc[t] \in Copying \cup Clearing /\ nbytes[t] = BufferSize
    BY WholeLine, OneReader DEF Copying
  <1>3. Buffer(t)' = Buffer(t)
    BY <1>1 DEF Buffer, line
  <1>4. AtRest(t)'
    BY <1>1, <1>3, WholeLine, RestKept DEF line
  <1>5. Holds(keyboardbuffer, currkey[t]) /\ Ends(keyboardbuffer, currkey[t])
    BY WholeLine DEF AtRest
  <1>6. Result(t)
    <2>1. currkey[t] - 1 \in Index
      BY WholeLine, LineInputAssumption DEF Index
    <2>2. \A i \in Index : i < currkey[t] => ~(i >= currkey[t])
      BY WholeLine DEF Index
    <2> QED
      BY <1>5, <2>1, <2>2, WholeLine DEF Result, Holds, Ends
  <1>7. Result(t)'
    BY <1>1, <1>6 DEF Result
  <1>8. ThreadInv(t)'
    BY <1>1, <1>2, <1>4, <1>7, WholeLine DEF ThreadInv, Copying, Clearing, line
  <1> QED
    BY <1>1, <1>2, <1>8, ReaderFrame DEF line

\* Clearing the line away.
LEMMA ClearKeepsInv ==
    ASSUME TypeInv, LineInv, NEW t \in Term,
           ReadScan(t) \/ ReadClear(t) \/ ReadReset(t) \/ ReadLower(t)
    PROVE  LineInv'
  <1>1. /\ pc[t] \in Clearing
        /\ \A u \in Term \ {t} : SameLocals(u)
        /\ UNCHANGED <<currTerminal, terminalbuffer, nbytes, count, buf>>
    BY DEF ReadScan, ReadClear, ReadReset, ReadLower, Goto, SameLocals, TypeInv,
       TypeOK, Clearing
  <1>2. /\ t = currTerminal /\ enterflag /\ nbytes[t] = BufferSize
        /\ Buffer(t) = keyboardbuffer /\ Buffer(t)' = keyboardbuffer'
        /\ ThreadInv(t)
    BY <1>1, OneReader, LineInvIs DEF Buffer
  <1>3. Result(t)'
    BY <1>1, <1>2 DEF ThreadInv, Result
  <1>4. \A u \in Term \ {t} : currkey'[u] = currkey[u]
    BY <1>2 DEF ReadScan, ReadClear, ReadReset, ReadLower, line, TypeInv, TypeOK
  <1>5. ThreadInv(t)'
    <2>1. CASE ReadScan(t)
      <3>1. /\ pc[t] = "scan" /\ keyboardbuffersize \in 0..BufferSize
            /\ UNCHANGED <<line, idx>> /\ idx[t] = 0
            /\ currkey[t] \in 0..BufferSize
        BY <2>1 DEF ReadScan, TypeInv, TypeOK
      <3>2. AtRest(t) /\ keyboardbuffersize < currkey[t]
        BY <1>2, <3>1 DEF ThreadInv
      <3>3. keyboardbuffersize \in Index
        BY <3>1, <3>2, LineInputAssumption DEF Index
      <3>4. AtRest(t)'
        BY <1>1, <1>2, <3>1, <3>2, RestKept DEF line
      <3>5. CASE keyboardbuffer[keyboardbuffersize] = Newline
        <4>1. pc'[t] = "clear"
          BY <2>1, <3>3, <3>5 DEF ReadScan, Goto, TypeInv, TypeOK
        <4>2. \A i \in Index : ~(i < idx'[t])
          BY <3>1 DEF Index
        <4> QED
          BY <1>1, <1>2, <1>3, <3>1, <4>1, <4>2 DEF ThreadInv, Copying, Clearing, line
      <3>6. CASE keyboardbuffer[keyboardbuffersize] # Newline
        <4>1. pc'[t] = "scan" /\ keyboardbuffersize' = keyboardbuffersize + 1
          BY <2>1, <3>1, <3>3, <3>6 DEF ReadScan
        <4>2. keyboardbuffersize # currkey[t] - 1
          BY <1>2, <3>2, <3>6 DEF AtRest
        <4>3. keyboardbuffersize' < currkey'[t]
          BY <3>1, <3>2, <4>1, <4>2 DEF line
        <4> QED
          BY <1>1, <1>2, <1>3, <3>1, <3>4, <4>1, <4>3
          DEF ThreadInv, Copying, Clearing, line
      <3> QED
        BY <3>5, <3>6
    <2>2. CASE ReadClear(t)
      <3>1. /\ pc[t] = "clear" /\ idx[t] \in Index /\ UNCHANGED enterflag
            /\ keyboardbuffer' = [keyboardbuffer EXCEPT ![idx[t]] = Nul]
            /\ keyboardbuffer \in [Index -> Char]
        BY <2>2, SizeFacts DEF ReadClear, TypeInv, TypeOK
      <3>2. \A i \in Index : i < idx[t] => keyboardbuffer[i] = Nul
        BY <1>2, <3>1 DEF ThreadInv
      <3>3. \A i \in Index : i < idx[t] + 1 => keyboardbuffer'[i] = Nul
        <4>1. \A i \in Index : i < idx[t] + 1 => i = idx[t] \/ i < idx[t]
          BY <3>1 DEF Index
        <4> QED
          BY <3>1, <3>2, <4>1
      <3>4. CASE Cleared(t)
        <4>1. pc'[t] = "reset"
          BY <2>2, <3>4 DEF ReadClear, Goto, TypeInv, TypeOK
        <4>2. \A i \in Index : i < idx[t] + 1
          BY <3>4, LineInputAssumption DEF Cleared, Index
        <4>3. keyboardbuffer' = Empty
          BY <3>1, <3>3, <4>2 DEF Empty
        <4> QED
          BY <1>1, <1>2, <1>3, <3>1, <4>1, <4>3 DEF ThreadInv, Copying, Clearing
      <3>5. CASE ~Cleared(t)
        <4>1. pc'[t] = "clear" /\ idx'[t] = idx[t] + 1
          BY <2>2, <3>5 DEF ReadClear, Goto, TypeInv, TypeOK
        <4> QED
          BY <1>1, <1>2, <1>3, <3>1, <3>3, <4>1 DEF ThreadInv, Copying, Clearing
      <3> QED
        BY <3>4, <3>5
    <2>3. CASE ReadReset(t)
      <3>1. /\ pc[t] = "reset" /\ pc'[t] = "lower" /\ currkey'[t] = 0
            /\ UNCHANGED <<keyboardbuffer, enterflag>>
        BY <1>2, <2>3 DEF ReadReset, Goto, TypeInv, TypeOK
      <3> QED
        BY <1>1, <1>2, <1>3, <3>1 DEF ThreadInv, Copying, Clearing
    <2>4. CASE ReadLower(t)
      <3>1. /\ pc[t] = "lower" /\ pc'[t] = "return" /\ enterflag' = FALSE
            /\ UNCHANGED <<keyboardbuffer, currkey>>
        BY <2>4 DEF ReadLower, Lowered, Goto, TypeInv, TypeOK
      <3>2. keyboardbuffer' = Empty /\ currkey'[t] = 0
        BY <1>2, <3>1 DEF ThreadInv
      <3>3. Rest(Buffer(t)', currkey'[t], t = currTerminal' /\ enterflag')
        BY <1>2, <3>1, <3>2, RestEmpty, Zenon DEF Rest
      <3>4. AtRest(t)'
        BY <3>3, AtRestIs, Zenon
      <3> QED
        BY <1>3, <3>1, <3>4 DEF ThreadInv, Copying, Clearing
    <2> QED
      BY <2>1, <2>2, <2>3, <2>4
  <1> QED
    BY <1>1, <1>4, <1>5, ReaderFrame

LEMMA LineInvStep ==
    ASSUME Disciplined, TypeInv, TypeInv', LineInv, [Next]_vars
    PROVE  LineInv'
  <1>1. CASE UNCHANGED vars
    <2>1. \A t \in Term : SameLocals(t)
      BY <1>1 DEF vars, locals, SameLocals
    <2> QED
      BY <1>1, <2>1, LineInvIs, LinesKept DEF vars
  <1>2. CASE \E k \in Keys : Press(k)
    BY <1>2, PressKeepsInv
  <1>3. CASE \E n \in Term : SwitchTerminal(n)
    BY <1>3, SwitchKeepsInv
  <1>4. ASSUME NEW t \in Term,
               WriteEnter(t) \/ KernelStep(t) \/ \E n \in Requests : ReadEnter(t, n)
        PROVE  LineInv'
    <2>1. CASE WriteEnter(t) \/ WriteReturn(t)
      BY <2>1, WriteKeepsInv
    <2>2. CASE \/ \E n \in Requests : ReadEnter(t, n)
               \/ ReadWait(t) \/ ReadFlag(t) \/ ReadReturn(t)
      BY <2>2, IdleReadKeepsInv
    <2>3. CASE ReadTest(t) \/ ReadCopy(t)
      BY <2>3, CopyKeepsInv, TakeKeepsInv
    <2>4. CASE ReadScan(t) \/ ReadClear(t) \/ ReadReset(t) \/ ReadLower(t)
      BY <2>4, ClearKeepsInv
    <2> QED
      BY <1>4, <2>1, <2>2, <2>3, <2>4 DEF KernelStep
  <1> QED
    BY <1>1, <1>2, <1>3, <1>4 DEF Next

\* At every step of the handler and of terminal_read the buffers and the flag
\* are what the next steps rely on (keyboard.c:310-345, terminal.c:56-81): a
\* complete line waits with its flag up, is copied whole, and leaves nothing.
THEOREM LineInvCorrect ==
    ASSUME Disciplined
    PROVE  Spec => []LineInv
  <1>1. TypeInv /\ TypeInv' /\ LineInv /\ [Next]_vars => LineInv'
    BY LineInvStep
  <1> QED
    BY <1>1, LineInvInit, TypeCorrect, PTL DEF Spec

\* What the comments promise holds for such a typist: the search for '\n' ends in
\* the buffer (terminal.c:71), what is returned ends with the Enter
\* (terminal.c:55), and no place of a line is left empty (keyboard.c:286-299).
THEOREM LineAsCommented ==
    ASSUME Disciplined
    PROVE  Spec => [](ScanFindsNewline /\ ReadEndsWithEnter /\ LineHasNoGap)
  <1>1. ASSUME TypeInv, LineInv
        PROVE  ScanFindsNewline /\ ReadEndsWithEnter /\ LineHasNoGap
    <2>1. ScanFindsNewline
      BY <1>1, LineInvIs DEF ScanFindsNewline, ThreadInv
    <2>2. ReadEndsWithEnter
      BY <1>1, LineInvIs DEF ReadEndsWithEnter, ThreadInv, Result
    <2>3. ASSUME ~Pending, NEW i \in Index, i < Length
          PROVE  keyboardbuffer[i] # Nul
      <3>1. currTerminal \in Term /\ pc[currTerminal] \notin Clearing
        BY <1>1, <2>3 DEF TypeInv, TypeOK, Pending
      <3>2. AtRest(currTerminal)
        BY <1>1, <3>1, LineInvIs DEF ThreadInv
      <3>3. \A j \in Index : keyboardbuffer[j] = Nul <=> j >= Length
        BY <3>2 DEF AtRest, Holds, Buffer, Length
      <3>4. Length \in Int /\ i \in Int
        BY <1>1, <3>1 DEF TypeInv, TypeOK, Length, Index
      <3> QED
        BY <2>3, <3>3, <3>4
    <2> QED
      BY <2>1, <2>2, <2>3 DEF LineHasNoGap
  <1> QED
    BY <1>1, TypeCorrect, LineInvCorrect, PTL

-----------------------------------------------------------------------------
(* The lines of LineDiscipline. *)

Text(b, n) == [i \in 1..n |-> b[i - 1]]

LEMMA TextIs ==
    ASSUME NEW b, NEW n \in Nat
    PROVE  /\ Len(Text(b, n)) = n
           /\ Text(b, n) = <<>> <=> n = 0
           /\ \A i \in 1..n : Text(b, n)[i] = b[i - 1]
           /\ \A S : (\A i \in 0..(n - 1) : b[i] \in S) => Text(b, n) \in Seq(S)
  <1>1. ASSUME NEW S, \A i \in 0..(n - 1) : b[i] \in S
        PROVE  Text(b, n) \in Seq(S)
    BY <1>1 DEF Text
  <1>2. Text(b, n) \in Seq({b[i] : i \in 0..(n - 1)})
    BY <1>1
  <1>3. Len(Text(b, n)) = n
    BY <1>2 DEF Text
  <1>4. Text(b, n) = <<>> <=> n = 0
    BY <1>2, <1>3
  <1> QED
    BY <1>1, <1>3, <1>4 DEF Text

LEMMA TextSame ==
    ASSUME NEW b, NEW d, NEW n \in Nat, \A i \in 0..(n - 1) : d[i] = b[i]
    PROVE  Text(d, n) = Text(b, n)
  <1>1. \A i \in 1..n : d[i - 1] = b[i - 1]
    OBVIOUS
  <1> QED
    BY <1>1 DEF Text

LEMMA TextAppend ==
    ASSUME NEW b, NEW d, NEW c, NEW n \in Nat,
           \A i \in 0..(n - 1) : d[i] = b[i],
           d[n] = c
    PROVE  Text(d, n + 1) = Append(Text(b, n), c)
  <1> DEFINE S == {d[i] : i \in 0..n}
             old == Text(b, n)
             new == Text(d, n + 1)
  <1>1. old \in Seq(S) /\ new \in Seq(S) /\ c \in S
    <2>1. \A i \in 0..(n - 1) : b[i] \in S
      OBVIOUS
    <2>2. old \in Seq(S)
      BY <2>1, TextIs
    <2>3. PICK m \in Nat : m = n + 1
      OBVIOUS
    <2>4. \A i \in 0..(m - 1) : d[i] \in S
      BY <2>3
    <2>5. Text(d, m) \in Seq(S)
      BY <2>4, TextIs
    <2>6. new \in Seq(S)
      BY <2>3, <2>5
    <2> QED
      BY <2>2, <2>6
  <1>2. /\ Len(old) = n /\ Len(new) = n + 1
        /\ \A i \in 1..n : old[i] = b[i - 1]
        /\ \A i \in 1..(n + 1) : new[i] = d[i - 1]
    BY TextIs
  <1> HIDE DEF S, old, new
  <1>3. /\ Append(old, c) \in Seq(S) /\ Len(Append(old, c)) = n + 1
        /\ \A i \in 1..n : Append(old, c)[i] = old[i]
        /\ Append(old, c)[n + 1] = c
    BY <1>1, <1>2, AppendProperties
  <1>4. \A i \in 1..(n + 1) : Append(old, c)[i] = new[i]
    <2>1. \A i \in 1..n : i - 1 \in 0..(n - 1) /\ new[i] = b[i - 1]
      BY <1>2
    <2>2. new[n + 1] = c
      BY <1>2
    <2>3. \A i \in 1..(n + 1) : i \in 1..n \/ i = n + 1
      OBVIOUS
    <2> QED
      BY <1>2, <1>3, <2>1, <2>2, <2>3
  <1>5. new = Append(old, c)
    BY <1>1, <1>2, <1>3, <1>4, SeqEqual
  <1> QED
    BY <1>5 DEF old, new

LEMMA TextErase ==
    ASSUME NEW b, NEW d, NEW n \in Nat \ {0},
           \A i \in 0..(n - 2) : d[i] = b[i]
    PROVE  Text(d, n - 1) = SubSeq(Text(b, n), 1, n - 1)
  <1> DEFINE S == {b[i] : i \in 0..(n - 1)}
             old == Text(b, n)
             new == Text(d, n - 1)
  <1>1. old \in Seq(S)
    BY TextIs
  <1>2. new \in Seq(S)
    <2>1. \A i \in 0..(n - 2) : d[i] \in S
      OBVIOUS
    <2> QED
      BY <2>1, TextIs
  <1>3. /\ Len(old) = n /\ Len(new) = n - 1
        /\ \A i \in 1..n : old[i] = b[i - 1]
        /\ \A i \in 1..(n - 1) : new[i] = d[i - 1]
    BY TextIs
  <1> HIDE DEF S, old, new
  <1>4. /\ SubSeq(old, 1, n - 1) \in Seq(S) /\ Len(SubSeq(old, 1, n - 1)) = n - 1
        /\ \A i \in 1..(n - 1) : SubSeq(old, 1, n - 1)[i] = old[i]
    BY <1>1, <1>3
  <1>5. \A i \in 1..(n - 1) : SubSeq(old, 1, n - 1)[i] = new[i]
    <2>1. \A i \in 1..(n - 1) : i - 1 \in 0..(n - 2) /\ i \in 1..n
      OBVIOUS
    <2> QED
      BY <1>3, <1>4, <2>1
  <1>6. new = SubSeq(old, 1, n - 1)
    BY <1>2, <1>3, <1>4, <1>5, SeqEqual
  <1> QED
    BY <1>6 DEF old, new

LEMMA LineOfIs ==
    ASSUME NEW t
    PROVE  /\ LineOf(t) = IF pc[t] \in Clearing THEN <<>> ELSE Text(Buffer(t), currkey[t])
           /\ LineOf(t)' = IF pc'[t] \in Clearing THEN <<>>
                           ELSE Text(Buffer(t)', currkey'[t])
           /\ TakenBy(t) = IF pc[t] \in Clearing \cup {"return"}
                             THEN Text(buf[t], count[t]) ELSE <<>>
           /\ TakenBy(t)' = IF pc'[t] \in Clearing \cup {"return"}
                             THEN Text(buf'[t], count'[t]) ELSE <<>>
  BY DEF LineOf, TakenBy, Text

Texts  == [t \in Term |-> LineOf(t)]
Takens == [t \in Term |-> TakenBy(t)]

\* While nothing is pending, the visible line is what the handler edits, and it
\* is not complete.
LEMMA TypingLine ==
    ASSUME Disciplined, TypeInv, LineInv, MayType
    PROVE  /\ Texts[currTerminal] = Text(keyboardbuffer, Length)
           /\ Len(Texts[currTerminal]) = Length
           /\ ~Lines!Complete(Texts[currTerminal])
  <1>1. /\ currTerminal \in Term /\ pc[currTerminal] \notin Clearing
        /\ Length \in Nat
    BY WhenTyping DEF Pending
  <1>2. Texts[currTerminal] = Text(keyboardbuffer, Length)
    BY <1>1, LineOfIs DEF Texts, Buffer, Length
  <1>3. Length > 0 => keyboardbuffer[Length - 1] # Newline
    BY WhenTyping DEF Rest
  <1>4. Length # 0 => /\ Length \in 1..Length
                      /\ Text(keyboardbuffer, Length)[Length] = keyboardbuffer[Length - 1]
    BY <1>1, TextIs
  <1> QED
    BY <1>1, <1>2, <1>3, <1>4, TextIs DEF Lines!Complete

\* An edit of the buffer is an edit of the visible line.
LEMMA EditMaps ==
    ASSUME Disciplined, TypeInv, LineInv, MayType,
           UNCHANGED <<currTerminal, terminalbuffer, locals>>,
           NEW n, currkey' = [currkey EXCEPT ![currTerminal] = n]
    PROVE  Lines!Edit(Text(keyboardbuffer', n))
  <1>1. /\ currTerminal \in Term /\ currkey \in [Term -> 0..BufferSize]
        /\ \A t \in Term : pc[t] \notin Clearing
        /\ pc' = pc /\ count' = count /\ buf' = buf
    BY WhenTyping DEF Pending, locals
  <1>2. Texts' = [Texts EXCEPT ![currTerminal] = Text(keyboardbuffer', n)]
    <2>1. ASSUME NEW t \in Term
          PROVE  LineOf(t)' = IF t = currTerminal THEN Text(keyboardbuffer', n) ELSE LineOf(t)
      BY <1>1, LineOfIs DEF Buffer
    <2> QED
      BY <2>1 DEF Texts
  <1>3. Takens' = Takens
    BY <1>1, LineOfIs DEF Takens
  <1> QED
    BY <1>2, <1>3, TypingLine DEF Lines!Edit, Texts, Takens

LEMMA EnterMaps ==
    ASSUME Disciplined, TypeInv, LineInv,
           NEW k \in Chars \cup {"enter"}, MayType, Enter(k)
    PROVE  Lines!Type \/ Lines!EndFullLine
  <1> DEFINE c == Output(k)
  <1>1. /\ UNCHANGED <<currTerminal, terminalbuffer, locals>>
        /\ currkey' = [currkey EXCEPT ![currTerminal] = Length + 1]
        /\ keyboardbuffer' = [keyboardbuffer EXCEPT ![Length] = c]
    BY DEF Enter, Store, Length
  <1>2. /\ Length \in Nat /\ Length \in Index /\ BufferSize \in Nat
        /\ \A i \in 0..(Length - 1) : i \in Index /\ i # Length
    BY WhenTyping, LineInputAssumption DEF Enter, HasRoom, Index
  <1>3. c \in Chars \cup {Newline} /\ (k = "enter" => c = Newline)
    <2>1. k \in Chars => c = k
      BY LineInputAssumption DEF Output, OtherKeys
    <2> QED
      BY <2>1, EnteredChar
  <1> HIDE DEF c
  <1>4. Text(keyboardbuffer', Length + 1) = Append(Text(keyboardbuffer, Length), c)
    <2>1. keyboardbuffer \in [Index -> Char]
      BY WhenTyping
    <2>2. /\ keyboardbuffer'[Length] = c
          /\ \A i \in 0..(Length - 1) : keyboardbuffer'[i] = keyboardbuffer[i]
      BY <1>1, <1>2, <2>1
    <2>3. PICK d : d = keyboardbuffer'
      OBVIOUS
    <2>4. Length \in Nat
      BY <1>2
    <2>5. Text(d, Length + 1) = Append(Text(keyboardbuffer, Length), c)
      BY <2>2, <2>3, <2>4, TextAppend
    <2> QED
      BY <2>3, <2>5
  <1>5. Lines!Edit(Append(Texts[currTerminal], c))
    BY <1>1, <1>4, TypingLine, EditMaps
  <1>6. CASE Length < BufferSize - 1
    BY <1>3, <1>5, <1>6, TypingLine DEF Lines!Type, Texts
  <1>7. CASE k = "enter" /\ Length = BufferSize - 1
    BY <1>3, <1>5, <1>7, TypingLine DEF Lines!EndFullLine, Texts
  <1> QED
    BY <1>6, <1>7 DEF Enter, HasRoom

LEMMA TabMaps ==
    ASSUME Disciplined, TypeInv, LineInv, PressTab
    PROVE  Lines!TypeTab
  <1>1. /\ UNCHANGED <<currTerminal, terminalbuffer, locals>> /\ MayType
        /\ currkey' = [currkey EXCEPT ![currTerminal] = Length + 1]
        /\ keyboardbuffer' = [keyboardbuffer EXCEPT ![Length] = Tab]
        /\ Length < BufferSize - TabSize
    BY DEF PressTab, TabFits, Store, Length
  <1>2. /\ Length \in Nat /\ Length \in Index
        /\ \A i \in 0..(Length - 1) : i \in Index /\ i # Length
    BY <1>1, WhenTyping, LineInputAssumption DEF PressTab, Accepts, Index
  <1>3. Text(keyboardbuffer', Length + 1) = Append(Text(keyboardbuffer, Length), Tab)
    <2>1. keyboardbuffer \in [Index -> Char]
      BY <1>1, WhenTyping
    <2>2. /\ keyboardbuffer'[Length] = Tab
          /\ \A i \in 0..(Length - 1) : keyboardbuffer'[i] = keyboardbuffer[i]
      BY <1>1, <1>2, <2>1
    <2> QED
      BY <1>2, <2>2, TextAppend
  <1>4. Lines!Edit(Append(Texts[currTerminal], Tab))
    BY <1>1, <1>3, TypingLine, EditMaps
  <1> QED
    BY <1>1, <1>4, TypingLine DEF Lines!TypeTab, Texts

LEMMA BackspaceMaps ==
    ASSUME Disciplined, TypeInv, LineInv, NEW k \in Keys, PressBackspace(k)
    PROVE  Lines!Erase
  <1>1. /\ Length \in Nat \ {0}
        /\ \A i \in 0..(Length - 2) : i \in Index /\ i # Length - 1
    <2>1. Length \in 0..BufferSize /\ Length # 0 /\ BufferSize \in Nat
      BY EraseIs, WhenTyping, LineInputAssumption
    <2> QED
      BY <2>1 DEF Index
  <1>2. \A i \in 0..(Length - 2) : keyboardbuffer'[i] = keyboardbuffer[i]
    BY <1>1, EraseIs, WhenTyping
  <1>3. Text(keyboardbuffer', Length - 1) = SubSeq(Text(keyboardbuffer, Length), 1, Length - 1)
    BY <1>1, <1>2, TextErase
  <1>4. Lines!Edit(SubSeq(Texts[currTerminal], 1, Length - 1))
    BY <1>3, EraseIs, TypingLine, EditMaps
  <1>5. Texts[currTerminal] # <<>>
    BY <1>1, EraseIs, TypingLine, TextIs
  <1> QED
    BY <1>4, <1>5, EraseIs, TypingLine DEF Lines!Erase, Texts

LEMMA PressMaps ==
    ASSUME Disciplined, TypeInv, LineInv, NEW k \in Keys, Press(k)
    PROVE  Lines!Next
  <1>1. CASE PressChar(k)
    <2>1. k \in Chars \cup {"enter"} /\ MayType /\ Enter(k)
      BY <1>1 DEF PressChar, Disciplined
    <2> QED
      BY <2>1, EnterMaps DEF Lines!Next
  <1>2. CASE PressCtrlL
    <2>1. Lines!Edit(Text(keyboardbuffer', 0))
      BY <1>2, EditMaps DEF PressCtrlL
    <2>2. Text(keyboardbuffer', 0) = <<>>
      BY TextIs
    <2> QED
      BY <2>1, <2>2 DEF Lines!Kill, Lines!Next
  <1>3. ~BackspaceAtEdge(k)
    BY DEF BackspaceAtEdge, Disciplined
  <1> QED
    BY <1>1, <1>2, <1>3, TabMaps, BackspaceMaps DEF Press, Lines!Next

LEMMA SwitchMaps ==
    ASSUME Disciplined, TypeInv, LineInv, NEW n \in Term, SwitchTerminal(n)
    PROVE  Lines!Next
  <1>1. MayType /\ currTerminal' \in Term /\ UNCHANGED <<pc, count, buf, currkey>>
    BY DEF SwitchTerminal, MaySwitch, MayType, Disciplined, locals
  <1>2. \A t \in Term : Buffer(t)' = Buffer(t)
    BY DEF Buffer, SwitchTerminal, StoredLine, TypeInv, TypeOK
  <1>3. Texts' = Texts /\ Takens' = Takens
    BY <1>1, <1>2, LineOfIs DEF Texts, Takens
  <1>4. Lines!Show
    BY <1>1, <1>3, TypingLine DEF Lines!Show, Texts, Takens
  <1> QED
    BY <1>4 DEF Lines!Next

Unseen == UNCHANGED <<currTerminal, Texts, Takens>>

\* Until the line is taken the thread leaves it alone.
LEMMA BeforeTake ==
    ASSUME NEW t \in Term, TypeInv,
           UNCHANGED <<currTerminal, line, terminalbuffer>>,
           \A u \in Term \ {t} : SameLocals(u),
           pc[t] \notin Clearing \cup {"return"},
           pc'[t] \notin Clearing \cup {"return"}
    PROVE  Unseen
  <1>1. \A u \in Term : Buffer(u)' = Buffer(u) /\ currkey'[u] = currkey[u]
    BY DEF Buffer, line
  <1>2. ASSUME NEW u \in Term
        PROVE  LineOf(u)' = LineOf(u) /\ TakenBy(u)' = TakenBy(u)
    BY <1>1, LineOfIs DEF SameLocals
  <1> QED
    BY <1>2 DEF Unseen, Texts, Takens

LEMMA IdleMaps ==
    ASSUME TypeInv, NEW t \in Term,
           \/ WriteEnter(t) \/ WriteReturn(t)
           \/ \E n \in Requests : ReadEnter(t, n)
           \/ ReadWait(t) \/ ReadFlag(t) \/ ReadCopy(t)
           \/ ReadTest(t) /\ idx[t] < nbytes[t]
    PROVE  Unseen
  <1>1. /\ \A u \in Term \ {t} : SameLocals(u)
        /\ UNCHANGED <<currTerminal, line, terminalbuffer>>
    BY DEF WriteEnter, WriteReturn, ReadEnter, ReadWait, ReadFlag, ReadCopy, ReadTest,
       Goto, SameLocals, TypeInv, TypeOK
  <1>2. pc[t] \in {"user", "write", "wait", "flag"} \cup Copying
    BY DEF WriteEnter, WriteReturn, ReadEnter, ReadWait, ReadFlag, ReadCopy, ReadTest,
       Copying
  <1>3. pc'[t] \in {"user", "write", "wait", "flag"} \cup Copying
    BY DEF WriteEnter, WriteReturn, ReadEnter, ReadWait, ReadFlag, ReadCopy, ReadTest,
       Copying, Goto, TypeInv, TypeOK
  <1> QED
    BY <1>1, <1>2, <1>3, BeforeTake DEF Copying, Clearing

\* The step from copying to clearing takes the line.
LEMMA TakeMaps ==
    ASSUME TypeInv, LineInv, NEW t \in Term, ReadTest(t), ~(idx[t] < nbytes[t])
    PROVE  Lines!Take
  <1>1. /\ pc[t] = "test" /\ pc'[t] = "scan" /\ count' = count /\ buf' = buf
        /\ UNCHANGED <<currTerminal, line, terminalbuffer>>
        /\ \A u \in Term \ {t} : SameLocals(u)
    BY DEF ReadTest, Goto, SameLocals, TypeInv, TypeOK
  <1>2. /\ t = currTerminal /\ Buffer(t) = keyboardbuffer
        /\ currkey[t] \in 1..BufferSize /\ count[t] = currkey[t]
        /\ \A i \in Index : buf[t][i] = keyboardbuffer[i]
        /\ keyboardbuffer[currkey[t] - 1] = Newline
    BY WholeLine
  <1>3. \A u \in Term : Buffer(u)' = Buffer(u) /\ currkey'[u] = currkey[u]
    BY <1>1 DEF Buffer, line
  <1>4. /\ LineOf(t) = Text(keyboardbuffer, currkey[t])
        /\ TakenBy(t) = <<>> /\ LineOf(t)' = <<>>
        /\ TakenBy(t)' = Text(buf[t], currkey[t])
    BY <1>1, <1>2, LineOfIs DEF Clearing
  <1>5. Text(buf[t], currkey[t]) = Text(keyboardbuffer, currkey[t])
    <2>1. \A i \in 0..(currkey[t] - 1) : buf[t][i] = keyboardbuffer[i]
      BY <1>2, LineInputAssumption DEF Index
    <2> QED
      BY <1>2, <2>1, TextSame
  <1>6. Texts' = [Texts EXCEPT ![t] = <<>>]
    <2>1. \A u \in Term : u # t => LineOf(u)' = LineOf(u)
      BY <1>1, <1>3, LineOfIs DEF SameLocals
    <2> QED
      BY <1>4, <2>1 DEF Texts
  <1>7. Takens' = [Takens EXCEPT ![t] = LineOf(t)]
    <2>1. \A u \in Term : u # t => TakenBy(u)' = TakenBy(u)
      BY <1>1, LineOfIs DEF SameLocals
    <2> QED
      BY <1>4, <1>5, <2>1 DEF Takens
  <1>8. Lines!Complete(LineOf(t))
    <2>1. currkey[t] \in Nat \ {0} /\ currkey[t] \in 1..currkey[t]
      BY <1>2
    <2>2. LineOf(t) # <<>> /\ LineOf(t)[Len(LineOf(t))] = Newline
      BY <1>2, <1>4, <2>1, TextIs
    <2> QED
      BY <2>2 DEF Lines!Complete
  <1> QED
    BY <1>1, <1>2, <1>4, <1>6, <1>7, <1>8 DEF Lines!Take, Texts, Takens

\* What a reader clears is not its line any more.
LEMMA ClearMaps ==
    ASSUME TypeInv, LineInv, NEW t \in Term,
           ReadScan(t) \/ ReadClear(t) \/ ReadReset(t) \/ ReadLower(t)
    PROVE  Unseen
  <1>1. /\ pc[t] \in Clearing
        /\ \A u \in Term \ {t} : SameLocals(u)
        /\ UNCHANGED <<currTerminal, terminalbuffer, count, buf>>
    BY DEF ReadScan, ReadClear, ReadReset, ReadLower, Goto, SameLocals, TypeInv,
       TypeOK, Clearing
  <1>2. t = currTerminal /\ ThreadInv(t)
    BY <1>1, OneReader, LineInvIs
  <1>3. \A u \in Term \ {t} : currkey'[u] = currkey[u] /\ Buffer(u)' = Buffer(u)
    BY <1>1, <1>2
    DEF ReadScan, ReadClear, ReadReset, ReadLower, line, TypeInv, TypeOK, Buffer
  <1>4. \/ pc'[t] \in Clearing
        \/ pc'[t] = "return" /\ currkey'[t] = 0
    <2>1. CASE ReadScan(t)
      <3>1. pc'[t] # "wild"
        BY <2>1, ClearKeepsInv, LineInvIs DEF ThreadInv
      <3> QED
        BY <1>1, <2>1, <3>1 DEF ReadScan, Goto, Clearing, TypeInv, TypeOK
    <2>2. CASE ReadClear(t) \/ ReadReset(t)
      BY <2>2 DEF ReadClear, ReadReset, Goto, Clearing, TypeInv, TypeOK
    <2>3. CASE ReadLower(t)
      BY <1>2, <2>3 DEF ReadLower, Goto, TypeInv, TypeOK, ThreadInv
    <2> QED
      BY <2>1, <2>2, <2>3
  <1>5. \A u \in Term \ {t} : LineOf(u)' = LineOf(u) /\ TakenBy(u)' = TakenBy(u)
    BY <1>1, <1>3, LineOfIs DEF SameLocals
  <1>6. LineOf(t)' = LineOf(t) /\ TakenBy(t)' = TakenBy(t)
    <2>1. Text(Buffer(t)', 0) = <<>>
      BY TextIs
    <2> QED
      BY <1>1, <1>4, <2>1, LineOfIs DEF Clearing
  <1> QED
    BY <1>1, <1>5, <1>6 DEF Unseen, Texts, Takens

LEMMA ReturnMaps ==
    ASSUME TypeInv, LineInv, NEW t \in Term, ReadReturn(t)
    PROVE  Lines!Return(t)
  <1>1. /\ pc[t] = "return" /\ pc'[t] = "user"
        /\ \A u \in Term \ {t} : SameLocals(u)
        /\ UNCHANGED <<currTerminal, line, terminalbuffer>>
    BY DEF ReadReturn, Goto, SameLocals, TypeInv, TypeOK
  <1>2. \A u \in Term : Buffer(u)' = Buffer(u) /\ currkey'[u] = currkey[u]
    BY <1>1 DEF Buffer, line
  <1>3. \A u \in Term : LineOf(u)' = LineOf(u)
    BY <1>1, <1>2, LineOfIs DEF SameLocals, Clearing
  <1>4. \A u \in Term \ {t} : TakenBy(u)' = TakenBy(u)
    BY <1>1, LineOfIs DEF SameLocals
  <1>5. TakenBy(t)' = <<>> /\ TakenBy(t) = Text(buf[t], count[t])
    BY <1>1, LineOfIs DEF Clearing
  <1>6. count[t] > 0 /\ count[t] \in Nat
    BY <1>1, LineInvIs DEF ThreadInv, Result, TypeInv, TypeOK
  <1>7. TakenBy(t) # <<>>
    BY <1>5, <1>6, TextIs
  <1>8. Texts' = Texts /\ Takens' = [Takens EXCEPT ![t] = <<>>] /\ Takens[t] # <<>>
    BY <1>3, <1>4, <1>5, <1>7 DEF Texts, Takens
  <1> QED
    BY <1>1, <1>8 DEF Lines!Return, Texts, Takens

\* Handler, read and switch together are a line discipline (keyboard.c:125-345,
\* terminal.c:44-81, 128-161): a terminal's line is edited, completed, taken whole
\* and returned once, whatever the other terminals do meanwhile.
THEOREM LinesRefined ==
    ASSUME Disciplined
    PROVE  Spec => LinesSpec
  <1>1. Init => Lines!Init
    <2> SUFFICES ASSUME Init PROVE Lines!Init
      OBVIOUS
    <2>1. ASSUME NEW t \in Term
          PROVE  LineOf(t) = <<>> /\ TakenBy(t) = <<>>
      <3>1. pc[t] = "user" /\ currkey[t] = 0
        BY <2>1 DEF Init
      <3>2. Text(Buffer(t), 0) = <<>>
        BY TextIs
      <3> QED
        BY <3>1, <3>2, LineOfIs DEF Clearing
    <2>2. currTerminal \in Term
      BY SizeFacts DEF Init
    <2> QED
      BY <2>1, <2>2 DEF Lines!Init
  <1>2. ASSUME TypeInv, LineInv, [Next]_vars
        PROVE  [Lines!Next]_(Lines!vars)
    <2>1. ASSUME Unseen
          PROVE  [Lines!Next]_(Lines!vars)
      BY <2>1 DEF Unseen, Texts, Takens, Lines!vars
    <2>2. CASE UNCHANGED vars
      <3>1. Unseen
        BY <2>2 DEF vars, line, locals, Unseen, Texts, Takens, LineOf, TakenBy, Buffer
      <3> QED
        BY <2>1, <3>1
    <2>3. CASE \E k \in Keys : Press(k)
      BY <1>2, <2>3, PressMaps
    <2>4. CASE \E n \in Term : SwitchTerminal(n)
      BY <1>2, <2>4, SwitchMaps
    <2>5. ASSUME NEW t \in Term,
                 WriteEnter(t) \/ KernelStep(t) \/ \E n \in Requests : ReadEnter(t, n)
          PROVE  [Lines!Next]_(Lines!vars)
      <3>1. CASE ReadReturn(t)
        BY <1>2, <3>1, ReturnMaps DEF Lines!Next
      <3>2. CASE ReadTest(t) /\ ~(idx[t] < nbytes[t])
        BY <1>2, <3>2, TakeMaps DEF Lines!Next
      <3>3. CASE ReadScan(t) \/ ReadClear(t) \/ ReadReset(t) \/ ReadLower(t)
        BY <1>2, <2>1, <3>3, ClearMaps
      <3>4. CASE \/ WriteEnter(t) \/ WriteReturn(t)
                 \/ \E n \in Requests : ReadEnter(t, n)
                 \/ ReadWait(t) \/ ReadFlag(t) \/ ReadCopy(t)
                 \/ ReadTest(t) /\ idx[t] < nbytes[t]
        BY <1>2, <2>1, <3>4, IdleMaps
      <3> QED
        BY <2>5, <3>1, <3>2, <3>3, <3>4 DEF KernelStep
    <2> QED
      BY <1>2, <2>2, <2>3, <2>4, <2>5 DEF Next
  <1> QED
    BY <1>1, <1>2, TypeCorrect, LineInvCorrect, PTL DEF Spec, LinesSpec, Lines!Spec

=============================================================================
