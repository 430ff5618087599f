----------------------------- MODULE LineInput -----------------------------
(***************************************************************************)
(* Line input: the keyboard handler (keyboard.c), which edits one line in  *)
(* the global keyboardbuffer, terminal_read (terminal.c), which waits for  *)
(* Enter and takes the line, and terminal_switch (terminal.c), which swaps *)
(* the buffers of two terminals.                                           *)
(*                                                                         *)
(* terminal_read runs with interrupts enabled: each access it makes to the *)
(* shared variables is an action, and the keyboard handler, which is one   *)
(* action, comes between any two of them; so does the thread of another    *)
(* terminal.  A thread that runs finds terminalrun to be its own terminal. *)
(* Modifier keys are left out: a key stands for what the handler sees with *)
(* the flags as they are, and is any of Keys at any time.                  *)
(***************************************************************************)
EXTENDS Integers, Sequences

CONSTANTS
    MaxTerminals,   \* MAX_TERMINALS
    BufferSize,     \* KEYBOARD_BUFFER_MAX_SIZE
    TabSize,        \* TAB_SIZE
    NumCols,        \* NUM_COLS
    EdgeMargin,     \* BACKSPACE_CHAR_BUFF2
    Chars,          \* the printing characters that are typed
    Keys,           \* the keys that are pressed
    Requests,       \* the nbytes that programs pass to read
    Habits,         \* what happens besides, among AllHabits
    MaxCount        \* bound on charcount, up and down

Nul     == "nul"        \* '\0'
Newline == "newline"    \* '\n'
Tab     == "tabchar"    \* '\t'
Blank   == "blank"      \* ' ' as Shift-Backspace enters it
Char    == Chars \cup {Nul, Newline, Tab, Blank}

OtherKeys == {"enter", "tab", "backspace", "shift_backspace", "escape",
              "ctrl_l"}

AllHabits == {"ahead",   \* types while a completed line is unread
              "switch",  \* presses Alt-Fn at such a time, or within a read
              "edge",    \* erases where the handler does not take it for erasing
              "preempt"} \* another terminal's output ends within a read's search
                         \* for the newline (a few hundred instructions)

ASSUME LineInputAssumption ==
    /\ MaxTerminals \in Nat \ {0}
    /\ BufferSize \in Nat /\ TabSize \in Nat \ {0} /\ TabSize < BufferSize
    /\ NumCols \in Nat \ {0}
    /\ EdgeMargin \in Nat
    /\ Chars \cap {Nul, Newline, Tab, Blank} = {}
    /\ Chars \cap OtherKeys = {}
    /\ Keys \subseteq Chars \cup OtherKeys
    /\ Requests \subseteq Nat
    /\ Habits \subseteq AllHabits
    /\ MaxCount \in Nat

Term   == 0..(MaxTerminals - 1)
Index  == 0..(BufferSize - 1)
Column == 0..(NumCols - 1)
Empty  == [i \in Index |-> Nul]

VARIABLES
    currTerminal,
    keyboardbuffer,     \* the line of the visible terminal
    enterflag,
    charcount,
    keyboardbuffersize,
    currkey,            \* per terminal, the length of its line
    terminalbuffer,     \* per terminal, its line when it is not visible
    cursor_x,           \* per terminal
    pc,                 \* per thread, where it is
    nbytes,             \* per thread, terminal_read's parameter
    idx,                \* per thread, its i, then its j
    count,              \* per thread, its local; BufferSize while nullflag is 0
    buf                 \* per thread, what it has copied

screen == <<charcount, cursor_x>>
line   == <<keyboardbuffer, enterflag, currkey>>
locals == <<pc, nbytes, idx, count, buf>>
vars   == <<currTerminal, line, screen, keyboardbuffersize, terminalbuffer,
            locals>>

Copying  == {"test", "copy"}
Clearing == {"scan", "clear", "reset", "lower"}
PC == {"user", "write", "wait", "flag", "return", "wild"} \cup Copying
        \cup Clearing

Init ==
    /\ currTerminal = 0
    /\ keyboardbuffer = Empty
    /\ enterflag = FALSE
    /\ charcount = 0
    /\ keyboardbuffersize = 0
    /\ currkey = [t \in Term |-> 0]
    /\ terminalbuffer = [t \in Term |-> Empty]
    /\ cursor_x = [t \in Term |-> 0]
    /\ pc = [t \in Term |-> "user"]
    /\ nbytes = [t \in Term |-> 0]
    /\ idx = [t \in Term |-> 0]
    /\ count = [t \in Term |-> BufferSize]
    /\ buf = [t \in Term |-> Empty]

-----------------------------------------------------------------------------
(* The keyboard handler, for the visible terminal. *)

Length == currkey[currTerminal]
Col    == cursor_x[currTerminal]

\* A line is complete and not yet taken, or a read is taking it.
Pending == enterflag \/ \E t \in Term : pc[t] \in Copying \cup Clearing
MayType == ~Pending \/ "ahead" \in Habits

\* The handler returns at once when the buffer is full.
Accepts == Length < BufferSize

\* The character maps, for the keys that are not Chars.
Output(k) ==
    CASE k \in Chars             -> k
      [] k = "enter"             -> Newline
      [] k = "tab"               -> Tab
      [] k = "shift_backspace"   -> Blank
      [] OTHER                   -> Nul

\* putc2Keyboard.
ColumnAfter(c) ==
    CASE c = Nul     -> Col
      [] c = Newline -> 0
      [] OTHER       -> (Col + 1) % NumCols

Count(n) ==
    /\ charcount' = charcount + n
    /\ charcount' \in -MaxCount..MaxCount

Store(c, n, column) ==
    /\ keyboardbuffer' = [keyboardbuffer EXCEPT ![Length] = c]
    /\ currkey' = [currkey EXCEPT ![currTerminal] = @ + 1]
    /\ cursor_x' = [cursor_x EXCEPT ![currTerminal] = column]
    /\ Count(n)
    /\ UNCHANGED <<currTerminal, keyboardbuffersize, terminalbuffer, locals>>

\* The last place is reserved for the newline.
HasRoom(k) ==
    \/ Length < BufferSize - 1
    \/ k = "enter" /\ Length = BufferSize - 1

\* A character goes to the end of the line.
Enter(k) ==
    /\ HasRoom(k)
    /\ Store(Output(k), 1, ColumnAfter(Output(k)))
    /\ enterflag' = (enterflag \/ k = "enter")

PressChar(k) ==
    /\ k \in Chars \cup {"enter", "escape"}
    /\ MayType /\ Accepts
    /\ Enter(k)

\* A tab takes one place, but is entered only if TabSize are left.
TabFits == Length < BufferSize - TabSize

PressTab ==
    /\ MayType /\ Accepts
    /\ TabFits
    /\ Store(Tab, TabSize, (Col + TabSize) % NumCols)
    /\ UNCHANGED enterflag

BugCanErase == TRUE
CanErase == Length # 0

\* keyboardbuffer[currkey - 1] is a tab.
EndsInTab == Length # 0 /\ keyboardbuffer[Length - 1] = Tab

\* Where Backspace erases: after a tab, away from the left edge, or at the left
\* edge when enough has been typed since the last terminal_write to have wrapped.
Erases ==
    EndsInTab \/ Col > 0 \/ charcount + EdgeMargin > NumCols - 1

\* Erasing leaves the key's own output in the buffer, behind the line.
BugErase(k) ==
    LET width == IF EndsInTab THEN TabSize ELSE 1
    IN  /\ keyboardbuffer' = keyboardbuffer
        /\ currkey' = [currkey EXCEPT ![currTerminal] = @ - 1]
        /\ cursor_x' = [cursor_x EXCEPT ![currTerminal] = (@ - width) % NumCols]
        /\ Count(-width)

Erase(k) ==
    LET width == IF EndsInTab THEN TabSize ELSE 1
    IN  /\ keyboardbuffer' = [keyboardbuffer EXCEPT ![Length - 1] = Output(k)]
        /\ currkey' = [currkey EXCEPT ![currTerminal] = @ - 1]
        /\ cursor_x' = [cursor_x EXCEPT ![currTerminal] = (@ - width) % NumCols]
        /\ Count(-width)

PressBackspace(k) ==
    /\ k \in {"backspace", "shift_backspace"}
    /\ MayType /\ Accepts
    /\ CanErase /\ Erases
    /\ Erase(k)
    /\ UNCHANGED <<currTerminal, enterflag, keyboardbuffersize, terminalbuffer,
                   locals>>

\* At the left edge the handler may take the wrapped line for an unwrapped one:
\* Backspace then falls through to where characters are entered.
BackspaceAtEdge(k) ==
    /\ k \in {"backspace", "shift_backspace"}
    /\ "edge" \in Habits
    /\ MayType /\ Accepts
    /\ CanErase /\ ~Erases
    /\ Enter(k)

PressCtrlL ==
    /\ MayType
    /\ keyboardbuffer' = Empty
    /\ currkey' = [currkey EXCEPT ![currTerminal] = 0]
    /\ cursor_x' = [cursor_x EXCEPT ![currTerminal] = 0]
    /\ UNCHANGED <<currTerminal, enterflag, charcount, keyboardbuffersize,
                   terminalbuffer, locals>>

Press(k) ==
    \/ PressChar(k) \/ PressBackspace(k) \/ BackspaceAtEdge(k)
    \/ k = "tab" /\ PressTab
    \/ k = "ctrl_l" /\ PressCtrlL

\* Alt-F1..F3: terminal_switch.
MaySwitch ==
    \/ ~Pending /\ \A t \in Term : pc[t] # "flag"
    \/ "switch" \in Habits

BugStoredLine == keyboardbuffer
StoredLine == terminalbuffer[currTerminal']

SwitchTerminal(n) ==
    /\ MaySwitch
    /\ n # currTerminal
    /\ currTerminal' = n
    /\ enterflag' = FALSE
    /\ terminalbuffer' = [terminalbuffer EXCEPT ![currTerminal] = keyboardbuffer]
    /\ keyboardbuffer' = StoredLine
    /\ UNCHANGED <<screen, keyboardbuffersize, currkey, locals>>

-----------------------------------------------------------------------------
(* terminal_write, as far as line input sees it. *)

WriteEnter(t) ==
    /\ pc[t] = "user"
    /\ charcount' = 0
    /\ pc' = [pc EXCEPT ![t] = "write"]
    /\ UNCHANGED <<currTerminal, line, cursor_x, keyboardbuffersize,
                   terminalbuffer, nbytes, idx, count, buf>>

\* The output leaves the cursor in any column.
WriteReturn(t) ==
    /\ pc[t] = "write"
    /\ "preempt" \in Habits \/ \A u \in Term : pc[u] # "scan"
    /\ \E x \in Column : cursor_x' = [cursor_x EXCEPT ![t] = x]
    /\ keyboardbuffersize' = 0
    /\ pc' = [pc EXCEPT ![t] = "user"]
    /\ UNCHANGED <<currTerminal, line, charcount, terminalbuffer, nbytes, idx,
                   count, buf>>

-----------------------------------------------------------------------------
(* terminal_read *)

Goto(t, l) == pc' = [pc EXCEPT ![t] = l]

ReadEnter(t, n) ==
    /\ pc[t] = "user"
    /\ nbytes' = [nbytes EXCEPT ![t] = IF n > BufferSize THEN BufferSize ELSE n]
    /\ Goto(t, "wait")
    /\ UNCHANGED <<currTerminal, line, screen, keyboardbuffersize,
                   terminalbuffer, idx, count, buf>>

\* while(1) if((currTerminal == terminalrun) ...
BugReadVisible(t) == TRUE
ReadVisible(t) == currTerminal = t

ReadWait(t) ==
    /\ pc[t] = "wait"
    /\ ReadVisible(t)
    /\ Goto(t, "flag")
    /\ UNCHANGED <<currTerminal, line, screen, keyboardbuffersize,
                   terminalbuffer, nbytes, idx, count, buf>>

\*                                            ... &&(enterflag))
ReadFlag(t) ==
    /\ pc[t] = "flag"
    /\ Goto(t, IF enterflag THEN "test" ELSE "wait")
    /\ UNCHANGED <<currTerminal, line, screen, keyboardbuffersize,
                   terminalbuffer, nbytes, idx, count, buf>>

\* The first '\0' decides count; after nbytes the search for '\n' begins.
ReadTest(t) ==
    /\ pc[t] = "test"
    /\ IF idx[t] < nbytes[t]
         THEN /\ count' = [count EXCEPT ![t] =
                             IF keyboardbuffer[idx[t]] = Nul /\ @ = BufferSize
                               THEN idx[t] ELSE @]
              /\ Goto(t, "copy")
              /\ UNCHANGED <<idx, keyboardbuffersize>>
         ELSE /\ idx' = [idx EXCEPT ![t] = 0]
              /\ keyboardbuffersize' = 0
              /\ Goto(t, "scan")
              /\ UNCHANGED count
    /\ UNCHANGED <<currTerminal, line, screen, terminalbuffer, nbytes, buf>>

ReadCopy(t) ==
    /\ pc[t] = "copy"
    /\ buf' = [buf EXCEPT ![t][idx[t]] = keyboardbuffer[idx[t]]]
    /\ idx' = [idx EXCEPT ![t] = @ + 1]
    /\ Goto(t, "test")
    /\ UNCHANGED <<currTerminal, line, screen, keyboardbuffersize,
                   terminalbuffer, nbytes, count>>

\* while(keyboardbuffer[keyboardbuffersize] != '\n'): past the end of the buffer
\* the kernel reads whatever is there.
ReadScan(t) ==
    /\ pc[t] = "scan"
    /\ IF keyboardbuffersize \notin Index
         THEN Goto(t, "wild") /\ UNCHANGED keyboardbuffersize
         ELSE /\ keyboardbuffersize' = keyboardbuffersize + 1
              /\ IF keyboardbuffer[keyboardbuffersize] = Newline
                   THEN Goto(t, "clear") ELSE UNCHANGED pc
    /\ UNCHANGED <<currTerminal, line, screen, terminalbuffer, nbytes, idx,
                   count, buf>>

Cleared(t) == idx[t] + 1 = BufferSize

ReadClear(t) ==
    /\ pc[t] = "clear"
    /\ keyboardbuffer' = [keyboardbuffer EXCEPT ![idx[t]] = Nul]
    /\ idx' = [idx EXCEPT ![t] = IF Cleared(t) THEN 0 ELSE @ + 1]
    /\ Goto(t, IF Cleared(t) THEN "reset" ELSE "clear")
    /\ UNCHANGED <<currTerminal, enterflag, currkey, screen, keyboardbuffersize,
                   terminalbuffer, nbytes, count, buf>>

\* The visible terminal's currkey, which need not be the reader's.
ReadReset(t) ==
    /\ pc[t] = "reset"
    /\ currkey' = [currkey EXCEPT ![currTerminal] = 0]
    /\ Goto(t, "lower")
    /\ UNCHANGED <<currTerminal, keyboardbuffer, enterflag, screen,
                   keyboardbuffersize, terminalbuffer, nbytes, idx, count, buf>>

BugLowered == enterflag
Lowered == FALSE

ReadLower(t) ==
    /\ pc[t] = "lower"
    /\ enterflag' = Lowered
    /\ Goto(t, "return")
    /\ UNCHANGED <<currTerminal, keyboardbuffer, currkey, screen,
                   keyboardbuffersize, terminalbuffer, nbytes, idx, count, buf>>

\* count bytes of buf are what the program has read; its locals are gone.
ReadReturn(t) ==
    /\ pc[t] = "return"
    /\ nbytes' = [nbytes EXCEPT ![t] = 0]
    /\ count' = [count EXCEPT ![t] = BufferSize]
    /\ buf' = [buf EXCEPT ![t] = Empty]
    /\ Goto(t, "user")
    /\ UNCHANGED <<currTerminal, line, screen, keyboardbuffersize,
                   terminalbuffer, idx>>

\* The steps a thread takes by itself once it is inside the kernel.
KernelStep(t) ==
    \/ WriteReturn(t)
    \/ ReadWait(t) \/ ReadFlag(t) \/ ReadTest(t) \/ ReadCopy(t) \/ ReadScan(t)
    \/ ReadClear(t) \/ ReadReset(t) \/ ReadLower(t) \/ ReadReturn(t)

Next ==
    \/ \E k \in Keys : Press(k)
    \/ \E n \in Term : SwitchTerminal(n)
    \/ \E t \in Term : WriteEnter(t) \/ KernelStep(t)
    \/ \E t \in Term, n \in Requests : ReadEnter(t, n)

Spec == Init /\ [][Next]_vars

(***************************************************************************)
(* Every thread gets its turns.  Neither the typist nor the programs owe   *)
(* anything.                                                               *)
(***************************************************************************)
FairSpec == Spec /\ \A t \in Term : WF_vars(KernelStep(t))

-----------------------------------------------------------------------------
(* What must hold whatever the typist and the programs do. *)

\* Every variable has its type, and no index leaves its buffer: neither the
\* handler's currkey nor terminal_read's i and j (keyboard.c:317-340,
\* terminal.c:61-75).
TypeOK ==
    /\ currTerminal \in Term
    /\ keyboardbuffer \in [Index -> Char]
    /\ enterflag \in BOOLEAN
    /\ charcount \in -MaxCount..MaxCount
    /\ keyboardbuffersize \in 0..BufferSize
    /\ currkey \in [Term -> 0..BufferSize]
    /\ terminalbuffer \in [Term -> [Index -> Char]]
    /\ cursor_x \in [Term -> Column]
    /\ pc \in [Term -> PC]
    /\ nbytes \in [Term -> 0..BufferSize]
    /\ idx \in [Term -> 0..BufferSize]
    /\ count \in [Term -> 0..BufferSize]
    /\ buf \in [Term -> [Index -> Char]]

TypeInv ==
    /\ TypeOK
    /\ \A t \in Term :
         /\ pc[t] = "copy" => idx[t] < nbytes[t]
         /\ pc[t] = "test" => idx[t] <= nbytes[t]
         /\ pc[t] = "clear" => idx[t] < BufferSize
         /\ pc[t] \notin {"test", "copy", "clear"} => idx[t] = 0

-----------------------------------------------------------------------------
(* What must hold for a typist of good habits. *)

Buffer(t) == IF t = currTerminal THEN keyboardbuffer ELSE terminalbuffer[t]

\* The search for '\n' after a read stays in the buffer (terminal.c:71).
ScanFindsNewline == \A t \in Term : pc[t] # "wild"

\* Every place of a line holds what was typed there (keyboard.c:286-299).
LineHasNoGap ==
    Pending \/ \A i \in Index : i < Length => keyboardbuffer[i] # Nul

\* "waiting for an enter key from user to return with their input"
\* (terminal.c:55): what is returned ends with the Enter.
ReadEndsWithEnter ==
    \A t \in Term : pc[t] = "return" =>
      count[t] > 0 /\ buf[t][count[t] - 1] = Newline

\* "returns int32_t = number of bytes read" (terminal.c:42)
CountIsBytesRead ==
    \A t \in Term : pc[t] = "return" => count[t] <= nbytes[t]

\* "waiting for an enter key from user to return" (terminal.c:55): when Enter has
\* been pressed for a waiting read and the user stays, or comes back, the read
\* returns.
EnterIsAnswered ==
    \A t \in Term :
      <>[](currTerminal = t) =>
        (enterflag /\ currTerminal = t /\ pc[t] = "wait" ~> pc[t] = "return")

\* The line of a terminal: what its buffer holds up to currkey, until a read has
\* copied it.
LineOf(t) ==
    IF pc[t] \in Clearing THEN <<>>
    ELSE [i \in 1..currkey[t] |-> Buffer(t)[i - 1]]

\* What a read has taken and not yet returned.
TakenBy(t) ==
    IF pc[t] \in Clearing \cup {"return"} THEN [i \in 1..count[t] |-> buf[t][i - 1]]
    ELSE <<>>

\* Handler, read and switch together are the line discipline of LineDiscipline.
Lines == INSTANCE LineDiscipline WITH
    Terminals <- Term,
    Printing  <- Chars,
    Size      <- BufferSize,
    Width     <- TabSize,
    shown     <- currTerminal,
    text      <- [t \in Term |-> LineOf(t)],
    taken     <- [t \in Term |-> TakenBy(t)]

LinesSpec == Lines!Spec
LinesFairSpec == Lines!FairSpec

=============================================================================
