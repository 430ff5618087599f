------------------------------- MODULE Screens -------------------------------
(***************************************************************************)
(* The screens of the terminals (lib.c, terminal.c, keyboard.c, paging.c): *)
(* the page of video memory that is shown, the page that keeps a terminal  *)
(* while it is not, and the page table that leads a terminal's writes to   *)
(* one or the other.  A program's putc2 runs with interrupts on: another   *)
(* terminal's program, or the keyboard handler, can run between any two of *)
(* its steps.  The keyboard handler and the handlers of exceptions run     *)
(* without interrupts, in one step.                                        *)
(*                                                                         *)
(* Attributes are left out; Blank stands for ' ' and '\0'.  A program on   *)
(* terminal t writes the character t, and keys echo it, so that characters *)
(* tell where they were meant to be; Message stands for the characters of  *)
(* what the handlers of exceptions print.                                  *)
(***************************************************************************)
EXTENDS Integers, FiniteSets

CONSTANTS
    Terminal,   \* the terminals
    First,      \* TERMINAL_1_NUM, shown after boot
    Rows,       \* NUM_ROWS
    Cols,       \* NUM_COLS
    Blank,      \* ' ' and '\0'
    Newline,    \* '\n' and '\r'
    Message,    \* a character of an exception's message
    Video,      \* the page VIDEO; the page of terminal t is named t
    MaxPuts,    \* bound on what programs do: characters written or drawn, exceptions
    MaxKeys     \* bound on the keys that change a screen

ASSUME ScreensAssumption ==
    /\ First \in Terminal
    /\ Rows \in Nat \ {0} /\ Cols \in Nat \ {0}
    /\ Video \notin Terminal /\ Blank \notin Terminal /\ Newline \notin Terminal
    /\ Message \notin Terminal /\ Newline \notin {Blank, Message}
    /\ MaxPuts \in Nat /\ MaxKeys \in Nat

Char    == Terminal \cup {Blank, Message}
Page    == Terminal \cup {Video}
Cell    == 0..(Rows * Cols - 1)     \* cell NUM_COLS * y + x
LastRow == (Rows - 1) * Cols        \* ROW24: the first cell of the bottom row
Empty   == [c \in Cell |-> Blank]

VARIABLES
    phys,           \* the physical pages
    table,          \* the page that the virtual page of a terminal is mapped to
    cursor,         \* cursor_x and cursor_y of the terminals, as a cell
    crt,            \* the cursor of the display
    currTerminal,
    screen,         \* screen_x and screen_y, as a cell
    putc,           \* per terminal, where its program is in putc2
    want,           \* history: the screen and cursor that a terminal should have
    raced,          \* history: the terminals that a key changed during a putc2
    marred,         \* history: the terminals whose text met an overlap listed below
    astray,         \* history: the last switch fell behind a putc2's test
    puts, keys      \* what MaxPuts and MaxKeys bound

vars == <<phys, table, cursor, crt, currTerminal, screen, putc, want, raced,
          marred, astray, puts, keys>>

Idle == [pc |-> "idle"]

\* What terminal t's writes and reads go to, and what it looks like when shown.
View(t) == phys[table[t]]

Init ==
    /\ phys = [p \in Page |-> Empty]
    /\ table = [t \in Terminal |-> IF t = First THEN Video ELSE t]
    /\ cursor = [t \in Terminal |-> 0]
    /\ crt = 0 /\ currTerminal = First
    /\ screen = 0
    /\ putc = [t \in Terminal |-> Idle]
    /\ want = [t \in Terminal |-> [cells |-> Empty, cursor |-> 0]]
    /\ raced = {} /\ marred = {} /\ astray = FALSE
    /\ puts = 0 /\ keys = 0

-----------------------------------------------------------------------------
(* Writing a character *)

OnLastRow(pos) == pos >= LastRow

NeedsScroll(pos, c) == IF c = Newline THEN OnLastRow(pos) ELSE pos = Rows * Cols - 1

\* A bug for the checks: the bottom row does not scroll.
BugAdvance(pos, c) == IF c = Newline THEN (pos \div Cols + 1) * Cols ELSE pos + 1

\* The cursor after the character c at pos.
Advance(pos, c) ==
    IF NeedsScroll(pos, c) THEN LastRow
    ELSE IF c = Newline THEN (pos \div Cols + 1) * Cols
    ELSE pos + 1

Written(cells, pos, c) == IF c = Newline THEN cells ELSE [cells EXCEPT ![pos] = c]

\* Every row takes what is in the row below, and the bottom row is cleared.
Scrolled(cells) ==
    [c \in Cell |-> IF c < LastRow THEN cells[c + Cols] ELSE Blank]

\* A screen after c: what putc2Keyboard does, with interrupts off.
Put(s, c) ==
    [cells  |-> IF NeedsScroll(s.cursor, c) THEN Scrolled(Written(s.cells, s.cursor, c))
                ELSE Written(s.cells, s.cursor, c),
     cursor |-> Advance(s.cursor, c)]

\* History: t should change to s.
Wants(t, s) == want' = [want EXCEPT ![t] = s]

-----------------------------------------------------------------------------
(* putc2, by the program of terminal t *)

Local(t, to) == putc' = [putc EXCEPT ![t] = to]

\* The program writes a character; putc2 reads the terminal's cursor.
PutStart(t) ==
    /\ putc[t] = Idle /\ puts < MaxPuts
    /\ \E c \in {t, Newline} :
         /\ Local(t, [pc |-> "write", c |-> c, pos |-> cursor[t]])
         /\ Wants(t, Put(want[t], c))
    /\ puts' = puts + 1
    /\ UNCHANGED <<phys, table, cursor, crt, currTerminal, screen, raced, marred, astray,
                   keys>>

\* A bug for the checks: a program writes to the page that is shown.
BugTarget(t) == Video

\* The page that a write to the virtual page of t goes to.
Target(t) == table[t]

\* The character goes to the page that the table leads to.
PutWrite(t) ==
    LET p == putc[t] IN
    /\ p.pc = "write"
    /\ phys' = [phys EXCEPT ![Target(t)] = Written(@, p.pos, p.c)]
    /\ Local(t, [pc  |-> IF NeedsScroll(p.pos, p.c) THEN "scroll" ELSE "test",
                 pos |-> Advance(p.pos, p.c)])
    /\ UNCHANGED <<table, cursor, crt, currTerminal, screen, want, raced, marred,
                   astray, puts, keys>>

\* The terminals whose scroll is between setting screen_x and screen_y and its last
\* use of them: a step that moves these mars what it scrolls.
Copying == {t \in Terminal : putc[t].pc = "copy"}

\* scroll keeps screen_x and screen_y, and puts them back at its end.
ScrollStart(t) ==
    /\ putc[t].pc = "scroll"
    /\ screen' = 0
    /\ Local(t, [pc |-> "set", i |-> 0, kept |-> screen, pos |-> putc[t].pos])
    /\ marred' = marred \cup Copying
    /\ UNCHANGED <<phys, table, cursor, crt, currTerminal, want, raced, astray, puts, keys>>

\* A step of the loop computes screen_x and screen_y from its counter...
ScrollSet(t) ==
    /\ putc[t].pc = "set"
    /\ screen' = putc[t].i
    /\ Local(t, [putc[t] EXCEPT !.pc = "copy"])
    /\ marred' = marred \cup Copying
    /\ UNCHANGED <<phys, table, cursor, crt, currTerminal, want, raced, astray, puts, keys>>

\* ... and copies the cell below, or clears a cell of the bottom row, at wherever
\* screen_x and screen_y are by then.  Behind the bottom row lies other memory.
ScrollCopy(t) ==
    LET p == putc[t]
    IN  /\ p.pc = "copy"
        /\ \E c \in Char :
             /\ p.i >= LastRow => c = Blank
             /\ p.i < LastRow /\ screen + Cols \in Cell => c = View(t)[screen + Cols]
             /\ phys' = [phys EXCEPT ![Target(t)][screen] = c]
        /\ IF p.i + 1 \in Cell
             THEN /\ Local(t, [p EXCEPT !.pc = "set", !.i = @ + 1])
                  /\ UNCHANGED <<screen, marred>>
             ELSE /\ Local(t, [pc |-> "test", pos |-> p.pos])
                  /\ screen' = p.kept
                  /\ marred' = marred \cup (Copying \ {t})
        /\ UNCHANGED <<table, cursor, crt, currTerminal, want, raced, astray, puts, keys>>

\* A bug for the checks: the display's cursor follows every program.
BugIsShown(t) == TRUE

IsShown(t) == currTerminal = t

\* if(currTerminal == terminalrun)
PutTest(t) ==
    /\ putc[t].pc = "test"
    /\ Local(t, [pc  |-> IF IsShown(t) THEN "update" ELSE "store",
                 pos |-> putc[t].pos])
    /\ UNCHANGED <<phys, table, cursor, crt, currTerminal, screen, want, raced, marred,
                   astray, puts, keys>>

\* update_cursor, its four writes to the display as one.
PutUpdate(t) ==
    /\ putc[t].pc = "update"
    /\ crt' = putc[t].pos
    /\ Local(t, [putc[t] EXCEPT !.pc = "store"])
    /\ UNCHANGED <<phys, table, cursor, currTerminal, screen, want, raced, marred,
                   astray, puts, keys>>

\* The terminal's cursor is stored, and putc2 returns.
PutStore(t) ==
    /\ putc[t].pc = "store"
    /\ cursor' = [cursor EXCEPT ![t] = putc[t].pos]
    /\ Local(t, Idle)
    /\ UNCHANGED <<phys, table, crt, currTerminal, screen, want, raced, marred,
                   astray, puts, keys>>

\* A program that called vidmap draws at any place of its terminal's page.
Draw(t) ==
    /\ putc[t] = Idle /\ puts < MaxPuts
    /\ \E pos \in Cell :
         /\ phys' = [phys EXCEPT ![table[t]][pos] = t]
         /\ Wants(t, [want[t] EXCEPT !.cells[pos] = t])
    /\ puts' = puts + 1
    /\ UNCHANGED <<table, cursor, crt, currTerminal, screen, putc, raced, marred, astray,
                   keys>>

-----------------------------------------------------------------------------
(* Exceptions *)

\* screen_x and screen_y, from pos, after putc has put k characters: the row stays.
After(pos, k) == ((pos \div Cols) * Cols) + ((pos + k) % Cols)

\* A screen after a message of n characters.
Printed(cells, n) ==
    LET covered == {After(screen, k) : k \in 0..(n - 1)}
    IN  [c \in Cell |-> IF c \in covered THEN Message ELSE cells[c]]

\* The terminals whose putc2 has yet to change their page: a message comes before
\* a part of what it writes and after another.
Changing == {t \in Terminal : putc[t].pc \in {"write", "scroll", "set", "copy"}}

\* The program of terminal t, which is not in putc2, raises an exception.  The handler
\* prints a line to the page VIDEO, whichever terminal that shows, at screen_x and
\* screen_y, wherever these are; what becomes of the program is in Processes.
Fault(t) ==
    /\ putc[t] = Idle /\ puts < MaxPuts
    /\ \E n \in 1..Cols :
         /\ phys' = [phys EXCEPT ![Video] = Printed(@, n)]
         /\ screen' = After(screen, n)
         /\ Wants(currTerminal, [want[currTerminal] EXCEPT !.cells = Printed(@, n)])
    /\ marred' = marred \cup Copying \cup (Changing \cap {currTerminal})
    /\ puts' = puts + 1
    /\ UNCHANGED <<table, cursor, crt, currTerminal, putc, raced, astray, keys>>

-----------------------------------------------------------------------------
(* The keyboard handler *)

\* A key changes the shown terminal while its program is in putc2.
Overlap(t) == IF putc[t] = Idle THEN raced ELSE raced \cup {t}

Key == keys < MaxKeys /\ keys' = keys + 1

\* What the key leaves of the shown terminal.
Shows(s) ==
    /\ phys' = [phys EXCEPT ![table[currTerminal]] = s.cells]
    /\ cursor' = [cursor EXCEPT ![currTerminal] = s.cursor]
    /\ crt' = s.cursor

Shown == [cells |-> View(currTerminal), cursor |-> cursor[currTerminal]]

\* putc2Keyboard.
Echo ==
    /\ Key
    /\ \E c \in {currTerminal, Newline} :
         /\ Shows(Put(Shown, c))
         /\ Wants(currTerminal, Put(want[currTerminal], c))
    /\ raced' = Overlap(currTerminal)
    /\ UNCHANGED <<table, currTerminal, screen, putc, marred, astray, puts>>

Erased(s) ==
    IF s.cursor = 0 THEN s
    ELSE [cells |-> [s.cells EXCEPT ![s.cursor - 1] = Blank], cursor |-> s.cursor - 1]

\* A backspace: the cursor goes back, to the row above from a row's beginning, a
\* space is echoed, and the cursor goes back again.  There is something to erase:
\* LineInput says when.
Backspace ==
    /\ Key
    /\ cursor[currTerminal] > 0
    /\ Shows(Erased(Shown))
    /\ Wants(currTerminal, Erased(want[currTerminal]))
    /\ raced' = Overlap(currTerminal)
    /\ UNCHANGED <<table, currTerminal, screen, putc, marred, astray, puts>>

\* Ctrl-L: clear writes to the page VIDEO.
Clear ==
    /\ Key
    /\ phys' = [phys EXCEPT ![Video] = Empty]
    /\ cursor' = [cursor EXCEPT ![currTerminal] = 0]
    /\ crt' = 0
    /\ Wants(currTerminal, [cells |-> Empty, cursor |-> 0])
    /\ IF putc[currTerminal] = Idle
         THEN raced' = raced \ {currTerminal} /\ marred' = marred \ {currTerminal}
         ELSE raced' = raced \cup {currTerminal} /\ UNCHANGED marred
    /\ UNCHANGED <<table, currTerminal, screen, putc, astray, puts>>

\* A bug for the checks: the page is copied before it is unmapped.
BugSwapped(new) ==
    LET kept == [phys EXCEPT ![table[currTerminal]] = phys[Video]]
    IN  [kept EXCEPT ![Video] = kept[table[new]]]

\* The pages after terminal_switch: the shown page goes to the old terminal's own,
\* which its virtual page has just been mapped to, and the new terminal's is shown.
Swapped(new) ==
    LET unmapped == [table EXCEPT ![currTerminal] = currTerminal]
        kept     == [phys EXCEPT ![unmapped[currTerminal]] = phys[Video]]
    IN  [kept EXCEPT ![Video] = kept[unmapped[new]]]

\* A bug for the checks: the old terminal stays mapped to the page that is shown.
BugMapped(new) == [table EXCEPT ![new] = Video]

\* The table after terminal_switch.
Mapped(new) == [table EXCEPT ![currTerminal] = currTerminal, ![new] = Video]

\* Alt-Fn: terminal_switch.
Switch(new) ==
    /\ Key
    /\ new # currTerminal
    /\ phys' = Swapped(new)
    /\ table' = Mapped(new)
    /\ crt' = cursor[new]
    /\ screen' = cursor[new]
    /\ currTerminal' = new
    /\ marred' = marred \cup Copying
    /\ astray' = (\E t \in Terminal : putc[t].pc \in {"update", "store"})
    /\ UNCHANGED <<cursor, putc, want, raced, puts>>

Next ==
    \/ \E t \in Terminal :
         \/ PutStart(t) \/ PutWrite(t) \/ ScrollStart(t) \/ ScrollSet(t) \/ ScrollCopy(t)
         \/ PutTest(t) \/ PutUpdate(t) \/ PutStore(t) \/ Draw(t)
         \/ Fault(t)
    \/ Echo \/ Backspace \/ Clear
    \/ \E new \in Terminal : Switch(new)

Spec == Init /\ [][Next]_vars

-----------------------------------------------------------------------------
(* Properties *)

Screen == [cells : [Cell -> Char], cursor : Cell]

Putc ==
    {Idle}
    \cup [pc : {"write"}, c : Terminal \cup {Newline}, pos : Cell]
    \cup [pc : {"scroll", "test", "update", "store"}, pos : Cell]
    \cup [pc : {"set", "copy"}, i : Cell, kept : Cell, pos : Cell]

TypeInv ==
    /\ phys \in [Page -> [Cell -> Char]]
    /\ table \in [Terminal -> Page]
    /\ cursor \in [Terminal -> Cell] /\ crt \in Cell
    /\ currTerminal \in Terminal
    /\ screen \in Cell
    /\ putc \in [Terminal -> Putc]
    /\ want \in [Terminal -> Screen]
    /\ raced \subseteq Terminal /\ marred \subseteq Terminal /\ astray \in BOOLEAN
    /\ puts \in 0..MaxPuts /\ keys \in 0..MaxKeys

\* The shown terminal's virtual page is the page that is shown, and every other
\* terminal's is its own: no two share a page (terminal.c:137-151, paging.c:101-107).
PagesApart ==
    \A t \in Terminal : table[t] = IF t = currTerminal THEN Video ELSE t

\* A terminal whose program is not in putc2 looks as if all that was written, echoed,
\* erased, cleared and drawn on it, and the messages of exceptions printed over it, had
\* come one after the other, whatever the other terminals did and however often it was
\* switched to and from: cursor and text, unless a key changed it during its putc2; its
\* text, unless moreover a switch, another scroll or an exception moved screen_x and
\* screen_y in a step of its scroll, or a message came on it in the middle of its putc2
\* (lib.c:216-231, 362-461, 468-563, 610-622).
ScreenIsText ==
    \A t \in Terminal \ raced :
      putc[t] = Idle =>
        /\ cursor[t] = want[t].cursor
        /\ t \notin marred => View(t) = want[t].cells

\* The display's cursor is the shown terminal's, when its program is not in putc2;
\* unless a key changed it during its putc2, or the last switch came between the
\* test of some putc2 and its end (lib.c:397-398, 458-459; terminal.c:154-158).
CursorIsShown ==
    ~astray /\ currTerminal \notin raced /\ putc[currTerminal] = Idle =>
      crt = cursor[currTerminal]

\* A switch changes what is shown, and what no terminal has on its screen, not even
\* one whose program is half-way through putc2 or a scroll (terminal.c:137-151).
SwitchLosesNothing ==
    [][currTerminal' # currTerminal => \A t \in Terminal : View(t)' = View(t)]_vars

=============================================================================
