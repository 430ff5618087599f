---------------------------- MODULE ScreensProofs ----------------------------
(***************************************************************************)
(* For any number of terminals and screens of any size: the types of       *)
(* Screens, that terminals never share a page, that a screen is what was   *)
(* written on it, that the display's cursor is the shown terminal's, and   *)
(* that a switch loses nothing.                                            *)
(***************************************************************************)
EXTENDS Screens, TLAPS

-----------------------------------------------------------------------------
(* Cells *)

LEMMA Times ==
    ASSUME NEW a \in Nat, NEW b \in Nat
    PROVE  a * b \in Nat /\ (a + 1) * b = a * b + b
PROOF BY SMTT(30)

LEMMA TimesLess ==
    ASSUME NEW a \in Nat, NEW b \in Nat, NEW c \in Nat, a * c < b * c
    PROVE  (a + 1) * c <= b * c
PROOF BY SMTT(30)

LEMMA DivMod ==
    ASSUME NEW k \in Nat, NEW b \in Nat, b > 0
    PROVE  k \div b \in Nat /\ (k \div b) * b <= k
PROOF BY SMTT(30)

\* The bottom row is the last Cols cells.
LEMMA Geometry ==
    /\ Cols \in Nat /\ Cols > 0
    /\ LastRow \in Nat /\ Rows * Cols = LastRow + Cols
    /\ Cell = 0..(LastRow + Cols - 1)
PROOF
  <1>1. Rows \in Nat /\ Rows > 0 /\ Cols \in Nat /\ Cols > 0
    BY ScreensAssumption
  <1>2. PICK above \in Nat : Rows = above + 1
    <2>1. Rows - 1 \in Nat /\ Rows = (Rows - 1) + 1
      BY <1>1
    <2>2. QED
      BY <2>1
  <1>3. Rows - 1 = above
    BY <1>2
  <1>4. above * Cols \in Nat /\ (above + 1) * Cols = above * Cols + Cols
    BY <1>1, <1>2, Times
  <1>5. LastRow = above * Cols
    BY <1>3 DEF LastRow
  <1>6. Rows * Cols = LastRow + Cols
    BY <1>2, <1>4, <1>5
  <1>7. QED
    BY <1>1, <1>4, <1>5, <1>6 DEF Cell

LEMMA CellsBelow ==
    /\ LastRow \in Cell /\ 0 \in Cell
    /\ \A c \in Cell : c < LastRow => c + Cols \in Cell
    /\ \A c \in Cell : c >= LastRow => c + Cols \notin Cell
PROOF BY Geometry

LEMMA AdvanceIn == ASSUME NEW pos \in Cell, NEW c PROVE Advance(pos, c) \in Cell
PROOF
  <1>1. pos \in Nat /\ pos < LastRow + Cols
    BY Geometry
  <1>2. CASE NeedsScroll(pos, c)
    BY <1>2, CellsBelow DEF Advance
  <1>3. CASE ~NeedsScroll(pos, c) /\ c = Newline
    <2>1. ~(pos >= LastRow)
      BY <1>3 DEF NeedsScroll, OnLastRow
    <2> DEFINE q == pos \div Cols
    <2>2. q \in Nat /\ q * Cols <= pos
      BY <1>1, Geometry, DivMod
    <2>3. LastRow = (Rows - 1) * Cols /\ Rows - 1 \in Nat
      BY ScreensAssumption DEF LastRow
    <2> HIDE DEF q
    <2>4. q * Cols \in Nat /\ (q + 1) * Cols \in Nat
      BY <2>2, Geometry, Times
    <2>5. q * Cols < (Rows - 1) * Cols
      BY <1>1, <2>1, <2>2, <2>3, <2>4, Geometry
    <2>6. (q + 1) * Cols <= LastRow
      BY <2>2, <2>3, <2>5, Geometry, TimesLess
    <2>7. (q + 1) * Cols \in Cell
      BY <2>4, <2>6, Geometry
    <2>8. QED
      BY <1>3, <2>7 DEF Advance, q
  <1>4. CASE ~NeedsScroll(pos, c) /\ c # Newline
    <2>1. pos # LastRow + Cols - 1
      BY <1>4, Geometry DEF NeedsScroll
    <2>2. pos + 1 \in Cell
      BY <1>1, <2>1, Geometry
    <2>3. QED
      BY <1>4, <2>2 DEF Advance
  <1>5. QED
    BY <1>2, <1>3, <1>4

-----------------------------------------------------------------------------
(* Screens *)

Cells == [Cell -> Char]

LEMMA ScrolledIn == ASSUME NEW cells \in Cells PROVE Scrolled(cells) \in Cells
PROOF BY CellsBelow DEF Cells, Scrolled, Char

LEMMA WrittenIn ==
    ASSUME NEW cells \in Cells, NEW pos \in Cell, NEW c \in Terminal \cup {Newline}
    PROVE  Written(cells, pos, c) \in Cells
PROOF BY DEF Cells, Written, Char

LEMMA PutIn ==
    ASSUME NEW s \in Screen, NEW c \in Terminal \cup {Newline}
    PROVE  Put(s, c) \in Screen
PROOF
  <1>1. s.cells \in Cells /\ s.cursor \in Cell
    BY DEF Screen, Cells
  <1>2. Written(s.cells, s.cursor, c) \in Cells
    BY <1>1, WrittenIn
  <1>3. Scrolled(Written(s.cells, s.cursor, c)) \in Cells
    BY <1>2, ScrolledIn
  <1>4. Advance(s.cursor, c) \in Cell
    BY <1>1, AdvanceIn
  <1>5. QED
    BY <1>2, <1>3, <1>4 DEF Put, Screen, Cells

LEMMA ErasedIn == ASSUME NEW s \in Screen PROVE Erased(s) \in Screen
PROOF
  <1>1. s.cells \in Cells /\ s.cursor \in Cell
    BY DEF Screen, Cells
  <1>2. CASE s.cursor = 0
    BY <1>2 DEF Erased
  <1>3. CASE s.cursor # 0
    <2>1. s.cursor - 1 \in Cell
      BY <1>1, <1>3, Geometry
    <2>2. [s.cells EXCEPT ![s.cursor - 1] = Blank] \in Cells
      BY <1>1 DEF Cells, Char
    <2>3. QED
      BY <1>3, <2>1, <2>2 DEF Erased, Screen, Cells
  <1>4. QED
    BY <1>2, <1>3

LEMMA EmptyIn == [cells |-> Empty, cursor |-> 0] \in Screen /\ Empty \in Cells
PROOF BY CellsBelow DEF Screen, Cells, Empty, Char

LEMMA AfterIn == ASSUME NEW pos \in Cell, NEW k \in Nat PROVE After(pos, k) \in Cell
PROOF
  <1> DEFINE q == pos \div Cols
  <1>1. pos \in Nat /\ pos < LastRow + Cols /\ Cols \in Nat /\ Cols > 0
    BY Geometry
  <1>2. q \in Nat /\ q * Cols <= pos
    BY <1>1, DivMod
  <1>3. (pos + k) % Cols \in 0..(Cols - 1)
    BY <1>1
  <1>4. Rows \in Nat /\ Rows * Cols = LastRow + Cols /\ LastRow \in Nat
    BY Geometry, ScreensAssumption
  <1> HIDE DEF q
  <1>5. q * Cols \in Nat /\ (q + 1) * Cols = q * Cols + Cols
    BY <1>1, <1>2, Times
  <1>6. q * Cols < Rows * Cols
    BY <1>1, <1>2, <1>4, <1>5
  <1>7. (q + 1) * Cols <= Rows * Cols
    BY <1>1, <1>2, <1>4, <1>6, TimesLess
  <1>8. q * Cols + Cols <= LastRow + Cols
    BY <1>4, <1>5, <1>7
  <1>9. After(pos, k) = q * Cols + ((pos + k) % Cols)
    BY DEF After, q
  <1>10. QED
    BY <1>1, <1>3, <1>4, <1>5, <1>8, <1>9, Geometry

LEMMA PrintedIn == ASSUME NEW cells \in Cells, NEW n PROVE Printed(cells, n) \in Cells
PROOF BY DEF Cells, Printed, Char

-----------------------------------------------------------------------------
(* The invariant *)

\* Where a program in putc2 stands: p, between the cursor that its terminal should
\* have at the end, in w, and the one that the terminal has now.
FollowsCursor(p, w, cur) ==
    /\ p.pc = "idle" => w.cursor = cur
    /\ p.pc = "write" => w.cursor = Advance(p.pos, p.c)
    /\ p.pc \notin {"idle", "write"} => w.cursor = p.pos

\* The same for its text; scr is screen_x and screen_y.
FollowsText(p, w, cells, scr) ==
    /\ p.pc = "write" => w.cells = Put([cells |-> cells, cursor |-> p.pos], p.c).cells
    /\ p.pc = "scroll" => w.cells = Scrolled(cells)
    /\ p.pc \in {"set", "copy"} =>
         \A c \in Cell : w.cells[c] = IF c < p.i THEN cells[c]
                                      ELSE IF c < LastRow THEN cells[c + Cols] ELSE Blank
    /\ p.pc = "copy" => scr = p.i
    /\ p.pc \in {"idle", "test", "update", "store"} => w.cells = cells

AllFollow ==
    \A t \in Terminal \ raced :
      /\ FollowsCursor(putc[t], want[t], cursor[t])
      /\ t \notin marred => FollowsText(putc[t], want[t], View(t), screen)

\* What is between a putc2's test and its end belongs to the shown terminal only
\* if the test said so.
CrtFollows ==
    ~astray =>
      /\ \A t \in Terminal : putc[t].pc = "update" => t = currTerminal
      /\ currTerminal \notin raced =>
           /\ putc[currTerminal].pc = "idle" => crt = cursor[currTerminal]
           /\ putc[currTerminal].pc = "store" => crt = putc[currTerminal].pos

Screens1 == TypeInv /\ PagesApart /\ AllFollow

IInv == Screens1 /\ CrtFollows

LEMMA PutcShapes ==
    ASSUME NEW p \in Putc
    PROVE  /\ p.pc \in {"idle", "write", "scroll", "set", "copy", "test", "update", "store"}
           /\ p = Idle <=> p.pc = "idle"
           /\ p.pc # "idle" => p.pos \in Cell
           /\ p.pc = "write" => p.c \in Terminal \cup {Newline}
           /\ p.pc \in {"set", "copy"} => p.i \in Cell /\ p.kept \in Cell
PROOF BY DEF Putc, Idle

LEMMA PutcMade ==
    ASSUME NEW pos \in Cell
    PROVE  /\ Idle \in Putc
           /\ \A c \in Terminal \cup {Newline} : [pc |-> "write", c |-> c, pos |-> pos] \in Putc
           /\ \A pc \in {"scroll", "test", "update", "store"} : [pc |-> pc, pos |-> pos] \in Putc
           /\ \A pc \in {"set", "copy"} : \A i, kept \in Cell :
                [pc |-> pc, i |-> i, kept |-> kept, pos |-> pos] \in Putc
PROOF BY DEF Putc, Idle

LEMMA Types ==
    ASSUME TypeInv, NEW t \in Terminal
    PROVE  /\ putc[t] \in Putc /\ want[t] \in Screen /\ cursor[t] \in Cell
           /\ table[t] \in Page /\ View(t) \in Cells
PROOF BY DEF TypeInv, View, Cells

-----------------------------------------------------------------------------
(* Steps *)

\* A step changes only what is t's.
OnlyAt(t) ==
    /\ UNCHANGED <<table, currTerminal>>
    /\ putc' = [putc EXCEPT ![t] = putc'[t]] /\ putc'[t] \in Putc
    /\ want' = [want EXCEPT ![t] = want'[t]] /\ want'[t] \in Screen
    /\ cursor' = [cursor EXCEPT ![t] = cursor'[t]] /\ cursor'[t] \in Cell
    /\ phys' = [phys EXCEPT ![table[t]] = phys'[table[t]]] /\ phys'[table[t]] \in Cells

\* A step on one terminal t: t's program, a key when t is shown, or an exception then.
\* It mars what another terminal scrolls when it moves screen_x and screen_y in a step
\* of that scroll.
LEMMA OneTerminalStep ==
    ASSUME Screens1, NEW t \in Terminal, OnlyAt(t),
           crt' \in Cell, screen' \in Cell, astray' \in BOOLEAN,
           puts' \in 0..MaxPuts, keys' \in 0..MaxKeys,
           raced \ {t} \subseteq raced', raced' \subseteq Terminal,
           marred \ {t} \subseteq marred', marred' \subseteq Terminal,
           \A u \in Copying \ {t} : screen' = screen \/ u \in marred',
           t \notin raced' => FollowsCursor(putc'[t], want'[t], cursor'[t]),
           t \notin raced' /\ t \notin marred' =>
             FollowsText(putc'[t], want'[t], phys'[table[t]], screen')
    PROVE  Screens1'
PROOF
  <1>1. TypeInv'
    <2>1. /\ phys \in [Page -> Cells] /\ putc \in [Terminal -> Putc]
          /\ want \in [Terminal -> Screen] /\ cursor \in [Terminal -> Cell]
          /\ table \in [Terminal -> Page] /\ currTerminal \in Terminal
      BY DEF Screens1, TypeInv, Cells
    <2>2. /\ phys' \in [Page -> Cells] /\ putc' \in [Terminal -> Putc]
          /\ want' \in [Terminal -> Screen] /\ cursor' \in [Terminal -> Cell]
          /\ table' \in [Terminal -> Page] /\ currTerminal' \in Terminal
      BY <2>1 DEF OnlyAt
    <2>3. QED
      BY <2>2 DEF TypeInv, Cells
  <1>2. PagesApart'
    BY DEF OnlyAt, Screens1, PagesApart
  <1>3. table \in [Terminal -> Page] /\ phys \in [Page -> Cells]
    BY DEF Screens1, TypeInv, Cells
  <1>4. \A u \in Terminal \ {t} : table[u] # table[t] /\ table[u] \in Page
    BY <1>3, ScreensAssumption DEF Screens1, PagesApart
  <1>5. table' = table /\ \A u \in Terminal \ {t} : phys'[table'[u]] = View(u)
    BY <1>3, <1>4 DEF View, OnlyAt
  <1>6. \A u \in Terminal \ {t} :
          putc'[u] = putc[u] /\ want'[u] = want[u] /\ cursor'[u] = cursor[u]
    BY DEF Screens1, TypeInv, OnlyAt
  <1>7. ASSUME NEW u \in Terminal \ raced'
        PROVE  /\ FollowsCursor(putc'[u], want'[u], cursor'[u])
               /\ u \notin marred' =>
                    FollowsText(putc'[u], want'[u], phys'[table'[u]], screen')
    <2>1. CASE u = t
      BY <1>5, <1>6, <1>7, <2>1
    <2>2. CASE u # t
      <3>1. u \in Terminal \ {t} /\ u \notin raced /\ (u \in marred => u \in marred')
        BY <1>7, <2>2
      <3>2. /\ FollowsCursor(putc[u], want[u], cursor[u])
            /\ u \notin marred => FollowsText(putc[u], want[u], View(u), screen)
        BY <3>1 DEF Screens1, AllFollow
      <3>3. u \notin marred' => screen' = screen \/ putc[u].pc # "copy"
        BY <3>1 DEF Copying
      <3>4. u \notin marred' => FollowsText(putc[u], want[u], View(u), screen')
        BY <3>1, <3>2, <3>3 DEF FollowsText
      <3>5. QED
        BY <1>5, <1>6, <3>1, <3>2, <3>4
    <2>3. QED
      BY <2>1, <2>2
  <1>8. AllFollow'
    BY <1>7 DEF AllFollow, View
  <1>9. QED
    BY <1>1, <1>2, <1>8 DEF Screens1

\* What a step that leaves something of t alone does to it.
LEMMA Same ==
    ASSUME TypeInv, NEW t \in Terminal
    PROVE  /\ phys = [phys EXCEPT ![table[t]] = View(t)]
           /\ putc = [putc EXCEPT ![t] = putc[t]]
           /\ want = [want EXCEPT ![t] = want[t]]
           /\ cursor = [cursor EXCEPT ![t] = cursor[t]]
PROOF BY DEF TypeInv, View

\* What the invariant says of a terminal.
LEMMA At ==
    ASSUME Screens1, NEW t \in Terminal
    PROVE  /\ putc[t] \in Putc /\ want[t] \in Screen /\ cursor[t] \in Cell
           /\ table[t] \in Page /\ View(t) \in Cells /\ screen \in Cell /\ crt \in Cell
           /\ raced \subseteq Terminal /\ marred \subseteq Terminal
           /\ Copying \subseteq Terminal /\ astray \in BOOLEAN
           /\ puts \in 0..MaxPuts /\ keys \in 0..MaxKeys
           /\ t \notin raced => FollowsCursor(putc[t], want[t], cursor[t])
           /\ t \notin raced /\ t \notin marred =>
                FollowsText(putc[t], want[t], View(t), screen)
           /\ phys = [phys EXCEPT ![table[t]] = View(t)]
           /\ putc = [putc EXCEPT ![t] = putc[t]]
           /\ want = [want EXCEPT ![t] = want[t]]
           /\ cursor = [cursor EXCEPT ![t] = cursor[t]]
PROOF
  <1>1. TypeInv
    BY DEF Screens1
  <1>2. /\ t \notin raced => FollowsCursor(putc[t], want[t], cursor[t])
        /\ t \notin raced /\ t \notin marred =>
             FollowsText(putc[t], want[t], View(t), screen)
    BY DEF Screens1, AllFollow
  <1>3. /\ screen \in Cell /\ crt \in Cell /\ raced \subseteq Terminal
        /\ marred \subseteq Terminal /\ Copying \subseteq Terminal
        /\ astray \in BOOLEAN /\ puts \in 0..MaxPuts /\ keys \in 0..MaxKeys
    BY <1>1 DEF TypeInv, Copying
  <1>4. QED
    BY <1>1, <1>2, <1>3, Types, Same

LEMMA Functions ==
    ASSUME Screens1
    PROVE  /\ phys \in [Page -> Cells] /\ putc \in [Terminal -> Putc]
           /\ want \in [Terminal -> Screen] /\ cursor \in [Terminal -> Cell]
           /\ table \in [Terminal -> Page] /\ currTerminal \in Terminal
PROOF BY DEF Screens1, TypeInv, Cells

LEMMA PutStartStep == ASSUME Screens1, NEW t \in Terminal, PutStart(t) PROVE Screens1'
PROOF
  <1>1. PICK c \in {t, Newline} :
          /\ putc' = [putc EXCEPT ![t] = [pc |-> "write", c |-> c, pos |-> cursor[t]]]
          /\ want' = [want EXCEPT ![t] = Put(want[t], c)]
    BY DEF PutStart, Local, Wants
  <1> DEFINE to == [pc |-> "write", c |-> c, pos |-> cursor[t]]
  <1>2. c \in Terminal \cup {Newline}
    BY <1>1
  <1>3. to \in Putc /\ Put(want[t], c) \in Screen
    BY <1>2, At, PutIn, PutcMade
  <1>4. putc[t].pc = "idle"
    BY DEF PutStart, Idle
  <1>5. t \notin raced => want[t].cursor = cursor[t]
    BY <1>4, At DEF FollowsCursor
  <1>6. t \notin raced /\ t \notin marred => want[t].cells = View(t)
    BY <1>4, At DEF FollowsText
  <1>7. t \notin raced => FollowsCursor(to, Put(want[t], c), cursor[t])
    BY <1>5 DEF FollowsCursor, Put
  <1>8. t \notin raced /\ t \notin marred =>
          FollowsText(to, Put(want[t], c), View(t), screen)
    BY <1>5, <1>6 DEF FollowsText, Put
  <1>9. puts' \in 0..MaxPuts
    BY At, ScreensAssumption DEF PutStart
  <1>10. UNCHANGED <<phys, table, cursor, crt, currTerminal, screen, raced, marred,
                     astray, keys>>
    BY DEF PutStart
  <1> HIDE DEF to
  <1>11. putc' = [putc EXCEPT ![t] = to]
    BY <1>1 DEF to
  <1>12. OnlyAt(t) /\ putc'[t] = to /\ want'[t] = Put(want[t], c)
    BY <1>1, <1>3, <1>10, <1>11, At, Functions DEF OnlyAt
  <1>13. QED
    BY <1>7, <1>8, <1>9, <1>10, <1>12, At, OneTerminalStep DEF View

LEMMA PutWriteStep == ASSUME Screens1, NEW t \in Terminal, PutWrite(t) PROVE Screens1'
PROOF
  <1> DEFINE p == putc[t]
             cells == Written(View(t), p.pos, p.c)
             to == [pc |-> IF NeedsScroll(p.pos, p.c) THEN "scroll" ELSE "test",
                    pos |-> Advance(p.pos, p.c)]
  <1>1. p \in Putc /\ p.pc = "write" /\ p.pos \in Cell /\ p.c \in Terminal \cup {Newline}
    BY At, PutcShapes DEF PutWrite
  <1>2. cells \in Cells /\ Advance(p.pos, p.c) \in Cell
    BY <1>1, At, WrittenIn, AdvanceIn
  <1>3. to \in Putc /\ to.pc \in {"scroll", "test"} /\ to.pos = Advance(p.pos, p.c)
    BY <1>2, PutcMade
  <1>4. t \notin raced => FollowsCursor(to, want[t], cursor[t])
    BY <1>1, <1>3, At DEF FollowsCursor
  <1>5. ASSUME t \notin raced, t \notin marred PROVE FollowsText(to, want[t], cells, screen)
    <2>1. want[t].cells = Put([cells |-> View(t), cursor |-> p.pos], p.c).cells
      BY <1>1, <1>5, At DEF FollowsText
    <2>2. want[t].cells = IF NeedsScroll(p.pos, p.c) THEN Scrolled(cells) ELSE cells
      BY <2>1 DEF Put
    <2>3. QED
      BY <2>2 DEF FollowsText
  <1>6. phys' = [phys EXCEPT ![table[t]] = cells]
    BY At DEF PutWrite, Target, View
  <1>7. putc' = [putc EXCEPT ![t] = to]
    BY DEF PutWrite, Local
  <1>8. UNCHANGED <<table, cursor, crt, currTerminal, screen, want, raced, marred,
                    astray, puts, keys>>
    BY DEF PutWrite
  <1> HIDE DEF to, cells
  <1>9. OnlyAt(t) /\ putc'[t] = to /\ phys'[table[t]] = cells
    BY <1>2, <1>3, <1>6, <1>7, <1>8, At, Functions DEF OnlyAt
  <1>10. QED
    BY <1>4, <1>5, <1>8, <1>9, At, OneTerminalStep

LEMMA ScrollStartStep == ASSUME Screens1, NEW t \in Terminal, ScrollStart(t) PROVE Screens1'
PROOF
  <1> DEFINE to == [pc |-> "set", i |-> 0, kept |-> screen, pos |-> putc[t].pos]
  <1>1. putc[t].pc = "scroll" /\ putc[t].pos \in Cell
    BY At, PutcShapes DEF ScrollStart
  <1>2. to \in Putc
    BY <1>1, At, CellsBelow, PutcMade
  <1>3. raced' = raced /\ marred' = marred \cup Copying
    BY DEF ScrollStart
  <1>4. t \notin raced => FollowsCursor(to, want[t], cursor[t])
    BY <1>1, At DEF FollowsCursor
  <1>5. ASSUME t \notin raced, t \notin marred PROVE FollowsText(to, want[t], View(t), 0)
    <2>1. want[t].cells = Scrolled(View(t))
      BY <1>1, <1>5, At DEF FollowsText
    <2>2. \A c \in Cell : ~(c < 0)
      BY Geometry
    <2>3. QED
      BY <2>1, <2>2 DEF FollowsText, Scrolled
  <1>6. putc' = [putc EXCEPT ![t] = to]
    BY DEF ScrollStart, Local
  <1>7. /\ UNCHANGED <<phys, table, cursor, crt, currTerminal, want, astray, puts, keys>>
        /\ screen' = 0 /\ screen' \in Cell
    BY CellsBelow DEF ScrollStart
  <1>8. marred \subseteq marred' /\ Copying \subseteq marred' /\ marred' \subseteq Terminal
    BY <1>3, At
  <1> HIDE DEF to
  <1>9. OnlyAt(t) /\ putc'[t] = to
    BY <1>2, <1>6, <1>7, At, Functions DEF OnlyAt
  <1>10. QED
    BY <1>3, <1>4, <1>5, <1>7, <1>8, <1>9, At, OneTerminalStep DEF View

LEMMA ScrollSetStep == ASSUME Screens1, NEW t \in Terminal, ScrollSet(t) PROVE Screens1'
PROOF
  <1> DEFINE p == putc[t]
             to == [p EXCEPT !.pc = "copy"]
  <1>1. p \in Putc /\ p.pc = "set" /\ p.pos \in Cell /\ p.i \in Cell /\ p.kept \in Cell
    BY At, PutcShapes DEF ScrollSet
  <1> DEFINE Loop == [pc : {"set", "copy"}, i : Cell, kept : Cell, pos : Cell]
  <1>2. p \in Loop
    BY <1>1 DEF Putc, Idle
  <1>3. to \in Loop /\ to.pc = "copy" /\ to.i = p.i /\ to.pos = p.pos
    BY <1>2
  <1>4. to \in Putc
    BY <1>3 DEF Putc
  <1>5. raced' = raced /\ marred' = marred \cup Copying
    BY DEF ScrollSet
  <1>6. putc' = [putc EXCEPT ![t] = to] /\ screen' = p.i
    BY DEF ScrollSet, Local
  <1> HIDE DEF to
  <1>7. t \notin raced => FollowsCursor(to, want[t], cursor[t])
    BY <1>1, <1>3, At DEF FollowsCursor
  <1>8. t \notin raced /\ t \notin marred => FollowsText(to, want[t], View(t), p.i)
    <2>1. t \notin raced /\ t \notin marred => FollowsText(p, want[t], View(t), screen)
      BY At
    <2>2. QED
      BY <1>1, <1>3, <2>1 DEF FollowsText
  <1>9. UNCHANGED <<phys, table, cursor, crt, currTerminal, want, astray, puts, keys>>
    BY DEF ScrollSet
  <1>10. marred \subseteq marred' /\ Copying \subseteq marred' /\ marred' \subseteq Terminal
    BY <1>5, At
  <1>11. OnlyAt(t) /\ putc'[t] = to
    BY <1>4, <1>6, <1>9, At, Functions DEF OnlyAt
  <1>12. QED
    BY <1>1, <1>5, <1>6, <1>7, <1>8, <1>9, <1>10, <1>11, At, OneTerminalStep DEF View

LEMMA ScrollCopyStep == ASSUME Screens1, NEW t \in Terminal, ScrollCopy(t) PROVE Screens1'
PROOF
  <1> DEFINE p == putc[t]
             Loop == [pc : {"set", "copy"}, i : Cell, kept : Cell, pos : Cell]
  <1>1. /\ p \in Putc /\ p.pc = "copy" /\ p.pos \in Cell /\ p.i \in Cell /\ p.kept \in Cell
        /\ screen \in Cell
    BY At, PutcShapes DEF ScrollCopy
  <1>2. PICK c \in Char :
          /\ p.i >= LastRow => c = Blank
          /\ p.i < LastRow /\ screen + Cols \in Cell => c = View(t)[screen + Cols]
          /\ phys' = [phys EXCEPT ![Target(t)][screen] = c]
    BY DEF ScrollCopy
  <1> DEFINE cells == [View(t) EXCEPT ![screen] = c]
  <1>3. cells \in Cells
    BY <1>1, At DEF Cells
  <1>4. phys' = [phys EXCEPT ![table[t]] = cells]
    BY <1>2, At DEF Target, View
  <1>5. UNCHANGED <<table, cursor, crt, currTerminal, want, raced, astray, puts, keys>>
    BY DEF ScrollCopy
  <1>6. t \notin raced => want[t].cursor = p.pos
    BY <1>1, At DEF FollowsCursor
  <1>7. t \notin raced /\ t \notin marred =>
          /\ screen = p.i
          /\ \A d \in Cell : want[t].cells[d] =
               IF d < p.i THEN View(t)[d]
               ELSE IF d < LastRow THEN View(t)[d + Cols] ELSE Blank
    BY <1>1, At DEF FollowsText
  <1>8. ASSUME t \notin raced, t \notin marred, NEW d \in Cell
        PROVE  want[t].cells[d] = IF d < p.i + 1 THEN cells[d]
                                  ELSE IF d < LastRow THEN cells[d + Cols] ELSE Blank
    <2>1. View(t) \in Cells /\ d \in Nat /\ p.i \in Nat /\ Cols \in Nat /\ Cols > 0
          /\ LastRow \in Nat
      BY <1>1, At, Geometry
    <2>2. CASE d < p.i
      <3>1. cells[d] = View(t)[d]
        BY <1>7, <1>8, <2>1, <2>2 DEF Cells
      <3>2. QED
        BY <1>7, <1>8, <2>1, <2>2, <3>1
    <2>3. CASE d = p.i
      <3>1. cells[d] = c
        BY <1>1, <1>7, <1>8, <2>1, <2>3 DEF Cells
      <3>2. want[t].cells[d] = c
        BY <1>1, <1>2, <1>7, <1>8, <2>1, <2>3, CellsBelow
      <3>3. QED
        BY <2>1, <2>3, <3>1, <3>2
    <2>4. CASE d > p.i
      <3>1. d < LastRow => cells[d + Cols] = View(t)[d + Cols]
        BY <1>7, <1>8, <2>1, <2>4, CellsBelow DEF Cells
      <3>2. QED
        BY <1>7, <1>8, <2>1, <2>4, <3>1
    <2>5. QED
      BY <2>1, <2>2, <2>3, <2>4
  <1> HIDE DEF cells
  <1>9. CASE p.i + 1 \in Cell
    <2> DEFINE to == [p EXCEPT !.pc = "set", !.i = @ + 1]
    <2>1. putc' = [putc EXCEPT ![t] = to] /\ screen' = screen /\ marred' = marred
      BY <1>9 DEF ScrollCopy, Local
    <2>2. p \in Loop
      BY <1>1 DEF Putc, Idle
    <2>3. to \in Loop /\ to.pc = "set" /\ to.i = p.i + 1 /\ to.pos = p.pos
      BY <1>9, <2>2
    <2>4. to \in Putc
      BY <2>3 DEF Putc
    <2> HIDE DEF to
    <2>5. t \notin raced => FollowsCursor(to, want[t], cursor[t])
      BY <1>6, <2>3 DEF FollowsCursor
    <2>6. t \notin raced /\ t \notin marred => FollowsText(to, want[t], cells, screen)
      BY <1>8, <2>3 DEF FollowsText
    <2>7. OnlyAt(t) /\ putc'[t] = to /\ phys'[table[t]] = cells
      BY <1>3, <1>4, <1>5, <2>1, <2>4, At, Functions DEF OnlyAt
    <2>8. QED
      BY <1>5, <2>1, <2>5, <2>6, <2>7, At, OneTerminalStep
  <1>10. CASE p.i + 1 \notin Cell
    <2> DEFINE to == [pc |-> "test", pos |-> p.pos]
    <2>1. /\ putc' = [putc EXCEPT ![t] = to] /\ screen' = p.kept
          /\ marred' = marred \cup (Copying \ {t})
      BY <1>10 DEF ScrollCopy, Local
    <2>2. to \in Putc
      BY <1>1, PutcMade
    <2>3. ASSUME t \notin raced, t \notin marred PROVE want[t].cells = cells
      <3>1. \A d \in Cell : d < p.i + 1
        BY <1>1, <1>10, Geometry
      <3>2. \A d \in Cell : want[t].cells[d] = cells[d]
        BY <1>8, <2>3, <3>1
      <3>3. want[t].cells \in Cells
        BY At DEF Screen, Cells
      <3>4. QED
        BY <1>3, <3>2, <3>3 DEF Cells
    <2>4. t \notin raced => FollowsCursor(to, want[t], cursor[t])
      BY <1>6 DEF FollowsCursor
    <2>5. t \notin raced /\ t \notin marred => FollowsText(to, want[t], cells, p.kept)
      BY <2>3 DEF FollowsText
    <2>6. OnlyAt(t) /\ putc'[t] = to /\ phys'[table[t]] = cells
      BY <1>3, <1>4, <1>5, <2>1, <2>2, At, Functions DEF OnlyAt
    <2>7. marred \subseteq marred' /\ Copying \ {t} \subseteq marred'
          /\ marred' \subseteq Terminal
      BY <2>1, At
    <2> HIDE DEF to
    <2>8. QED
      BY <1>1, <1>5, <2>1, <2>4, <2>5, <2>6, <2>7, At, OneTerminalStep
  <1>11. QED
    BY <1>9, <1>10

LEMMA PutEndStep ==
    ASSUME Screens1, NEW t \in Terminal, PutTest(t) \/ PutUpdate(t) PROVE Screens1'
PROOF
  <1> DEFINE p == putc[t]
             to == [pc |-> IF p.pc = "test" /\ currTerminal = t THEN "update" ELSE "store",
                    pos |-> p.pos]
  <1>1. p.pc \in {"test", "update"} /\ p \in Putc /\ p.pos \in Cell
    BY At, PutcShapes DEF PutTest, PutUpdate
  <1>2. to \in Putc /\ to.pc \in {"update", "store"} /\ to.pos = p.pos
    BY <1>1, PutcMade
  <1>3. putc' = [putc EXCEPT ![t] = to]
    <2>1. CASE PutTest(t)
      BY <2>1 DEF PutTest, Local, IsShown
    <2>2. CASE PutUpdate(t)
      <3>1. p \in [pc : {"scroll", "test", "update", "store"}, pos : Cell]
        BY <1>1 DEF Putc, Idle
      <3>2. [p EXCEPT !.pc = "store"] = [pc |-> "store", pos |-> p.pos]
        BY <3>1
      <3>3. QED
        BY <2>2, <3>2 DEF PutUpdate, Local
    <2>3. QED
      BY <2>1, <2>2
  <1>4. /\ UNCHANGED <<phys, table, cursor, currTerminal, screen, want, raced, marred,
                       astray, puts, keys>>
        /\ crt' \in Cell
    BY <1>1, At DEF PutTest, PutUpdate
  <1> HIDE DEF to
  <1>5. t \notin raced => FollowsCursor(to, want[t], cursor[t])
    BY <1>1, <1>2, At DEF FollowsCursor
  <1>6. t \notin raced /\ t \notin marred => FollowsText(to, want[t], View(t), screen)
    BY <1>1, <1>2, At DEF FollowsText
  <1>7. OnlyAt(t) /\ putc'[t] = to
    BY <1>2, <1>3, <1>4, At, Functions DEF OnlyAt
  <1>8. QED
    BY <1>4, <1>5, <1>6, <1>7, At, OneTerminalStep DEF View

LEMMA PutStoreStep == ASSUME Screens1, NEW t \in Terminal, PutStore(t) PROVE Screens1'
PROOF
  <1> DEFINE p == putc[t]
  <1>1. p.pc = "store" /\ p.pos \in Cell /\ Idle \in Putc /\ Idle.pc = "idle"
    BY At, PutcShapes, PutcMade DEF PutStore, Idle
  <1>2. /\ cursor' = [cursor EXCEPT ![t] = p.pos] /\ putc' = [putc EXCEPT ![t] = Idle]
        /\ UNCHANGED <<phys, table, crt, currTerminal, screen, want, raced, marred,
                       astray, puts, keys>>
    BY DEF PutStore, Local
  <1>3. t \notin raced => FollowsCursor(Idle, want[t], p.pos)
    BY <1>1, At DEF FollowsCursor
  <1>4. t \notin raced /\ t \notin marred => FollowsText(Idle, want[t], View(t), screen)
    BY <1>1, At DEF FollowsText
  <1>5. OnlyAt(t) /\ putc'[t] = Idle /\ cursor'[t] = p.pos
    BY <1>1, <1>2, At, Functions DEF OnlyAt
  <1>6. QED
    BY <1>2, <1>3, <1>4, <1>5, At, OneTerminalStep DEF View

LEMMA DrawStep == ASSUME Screens1, NEW t \in Terminal, Draw(t) PROVE Screens1'
PROOF
  <1>1. PICK pos \in Cell :
          /\ phys' = [phys EXCEPT ![table[t]][pos] = t]
          /\ want' = [want EXCEPT ![t] = [want[t] EXCEPT !.cells[pos] = t]]
    BY DEF Draw, Wants
  <1> DEFINE cells == [View(t) EXCEPT ![pos] = t]
             w == [want[t] EXCEPT !.cells[pos] = t]
  <1>2. /\ cells \in Cells /\ w \in Screen
        /\ w.cells = [want[t].cells EXCEPT ![pos] = t] /\ w.cursor = want[t].cursor
    BY At DEF Cells, Screen, Char
  <1>3. phys' = [phys EXCEPT ![table[t]] = cells]
    BY <1>1, At DEF View
  <1>4. putc[t] = Idle /\ Idle.pc = "idle"
    BY DEF Draw, Idle
  <1>5. t \notin raced => FollowsCursor(putc[t], w, cursor[t])
    BY <1>2, <1>4, At DEF FollowsCursor
  <1>6. t \notin raced /\ t \notin marred => FollowsText(putc[t], w, cells, screen)
    <2>1. t \notin raced /\ t \notin marred => want[t].cells = View(t)
      BY <1>4, At DEF FollowsText
    <2>2. t \notin raced /\ t \notin marred => w.cells = cells
      BY <1>2, <2>1
    <2>3. QED
      BY <1>4, <2>2 DEF FollowsText
  <1>7. UNCHANGED <<table, cursor, crt, currTerminal, screen, putc, raced, marred,
                    astray, keys>>
        /\ puts' \in 0..MaxPuts
    BY At, ScreensAssumption DEF Draw
  <1>8. want' = [want EXCEPT ![t] = w]
    BY <1>1
  <1> HIDE DEF cells, w
  <1>9. OnlyAt(t) /\ phys'[table[t]] = cells /\ want'[t] = w
    BY <1>2, <1>3, <1>7, <1>8, At, Functions DEF OnlyAt
  <1>10. QED
    BY <1>5, <1>6, <1>7, <1>9, At, OneTerminalStep

\* An exception, whichever program raises it, is a step on the shown terminal.
LEMMA FaultStep == ASSUME Screens1, NEW u \in Terminal, Fault(u) PROVE Screens1'
PROOF
  <1>1. PICK t \in Terminal : t = currTerminal
    BY Functions
  <1>2. table[t] = Video
    BY <1>1 DEF Screens1, PagesApart
  <1>3. PICK n \in 1..Cols :
          /\ phys' = [phys EXCEPT ![table[t]] = Printed(View(t), n)]
          /\ screen' = After(screen, n)
          /\ want' = [want EXCEPT ![t] =
                        [want[t] EXCEPT !.cells = Printed(want[t].cells, n)]]
    BY <1>1, <1>2 DEF Fault, Wants, View
  <1> DEFINE cells == Printed(View(t), n)
             w == [want[t] EXCEPT !.cells = Printed(want[t].cells, n)]
  <1>4. want[t].cells \in Cells
    BY At DEF Screen, Cells
  <1>5. cells \in Cells /\ Printed(want[t].cells, n) \in Cells
    BY <1>4, At, PrintedIn
  <1>6. /\ w \in Screen
        /\ w.cells = Printed(want[t].cells, n) /\ w.cursor = want[t].cursor
    BY <1>5, At DEF Screen, Cells
  <1>7. screen' \in Cell
    <2>1. n \in Nat
      BY Geometry
    <2>2. QED
      BY <1>3, <2>1, At, AfterIn
  <1>8. /\ UNCHANGED <<table, cursor, crt, currTerminal, putc, raced, astray, keys>>
        /\ marred' = marred \cup Copying \cup (Changing \cap {t})
        /\ puts' \in 0..MaxPuts
    BY <1>1, At, ScreensAssumption DEF Fault
  <1>9. marred \subseteq marred' /\ Copying \subseteq marred' /\ marred' \subseteq Terminal
    BY <1>8, At
  <1>10. t \notin raced => FollowsCursor(putc[t], w, cursor[t])
    BY <1>6, At DEF FollowsCursor
  <1>11. ASSUME t \notin raced, t \notin marred'
         PROVE  FollowsText(putc[t], w, cells, screen')
    <2>1. t \notin marred /\ t \notin Changing
      BY <1>8, <1>11
    <2>2. putc[t].pc \in {"idle", "test", "update", "store"}
      BY <2>1, At, PutcShapes DEF Changing
    <2>3. want[t].cells = View(t)
      BY <1>11, <2>1, <2>2, At DEF FollowsText
    <2>4. w.cells = cells
      BY <1>6, <2>3
    <2> HIDE DEF w, cells
    <2>5. QED
      BY <2>2, <2>4 DEF FollowsText
  <1>12. want' = [want EXCEPT ![t] = w] /\ phys' = [phys EXCEPT ![table[t]] = cells]
    BY <1>3
  <1> HIDE DEF cells, w
  <1>13. OnlyAt(t) /\ phys'[table[t]] = cells /\ want'[t] = w
    BY <1>5, <1>6, <1>8, <1>12, At, Functions DEF OnlyAt
  <1>14. QED
    BY <1>7, <1>8, <1>9, <1>10, <1>11, <1>13, At, OneTerminalStep

-----------------------------------------------------------------------------
(* Keys *)

LEMMA ShownIs ==
    ASSUME Screens1
    PROVE  /\ currTerminal \in Terminal /\ Shown \in Screen /\ table[currTerminal] = Video
           /\ raced \subseteq Terminal /\ marred \subseteq Terminal
           /\ currTerminal \notin raced /\ putc[currTerminal] = Idle =>
                /\ want[currTerminal].cursor = Shown.cursor
                /\ currTerminal \notin marred => want[currTerminal].cells = Shown.cells
PROOF
  <1>1. PICK t \in Terminal : t = currTerminal
    BY Functions
  <1>2. Shown \in Screen
    BY <1>1, At DEF Shown, Screen, Cells
  <1>3. table[t] = Video
    BY <1>1 DEF Screens1, PagesApart
  <1>4. Idle.pc = "idle"
    BY DEF Idle
  <1>5. t \notin raced /\ putc[t] = Idle => want[t].cursor = cursor[t]
    BY <1>4, At DEF FollowsCursor
  <1>6. t \notin raced /\ putc[t] = Idle /\ t \notin marred => want[t].cells = View(t)
    BY <1>4, At DEF FollowsText
  <1>7. Shown.cells = View(t) /\ Shown.cursor = cursor[t]
    BY <1>1 DEF Shown
  <1>8. raced \subseteq Terminal /\ marred \subseteq Terminal
    BY At
  <1>9. QED
    BY <1>1, <1>2, <1>3, <1>5, <1>6, <1>7, <1>8

\* A key that leaves the shown terminal with s, which should have w.
LEMMA KeyStep ==
    ASSUME Screens1, Key, NEW s \in Screen, NEW w \in Screen,
           Shows(s), Wants(currTerminal, w),
           UNCHANGED <<table, currTerminal, screen, putc, astray, puts>>,
           raced \ {currTerminal} \subseteq raced', raced' \subseteq Terminal,
           marred \ {currTerminal} \subseteq marred', marred' \subseteq Terminal,
           putc[currTerminal] # Idle => currTerminal \in raced',
           currTerminal \notin raced' =>
             w.cursor = s.cursor /\ (currTerminal \notin marred' => w.cells = s.cells)
    PROVE  Screens1'
PROOF
  <1>1. PICK t \in Terminal : t = currTerminal
    BY Functions
  <1>2. s.cells \in Cells /\ s.cursor \in Cell
    BY DEF Screen, Cells
  <1>3. /\ phys' = [phys EXCEPT ![table[t]] = s.cells]
        /\ cursor' = [cursor EXCEPT ![t] = s.cursor]
        /\ crt' = s.cursor /\ want' = [want EXCEPT ![t] = w]
    BY <1>1 DEF Shows, Wants
  <1>4. OnlyAt(t) /\ phys'[table[t]] = s.cells /\ cursor'[t] = s.cursor /\ want'[t] = w
    <2>1. UNCHANGED <<table, currTerminal, putc>>
      OBVIOUS
    <2>2. putc' = [putc EXCEPT ![t] = putc'[t]] /\ putc'[t] \in Putc
      BY <2>1, At
    <2>3. /\ phys'[table[t]] = s.cells /\ cursor'[t] = s.cursor /\ want'[t] = w
          /\ phys' = [phys EXCEPT ![table[t]] = phys'[table[t]]]
          /\ cursor' = [cursor EXCEPT ![t] = cursor'[t]]
          /\ want' = [want EXCEPT ![t] = want'[t]]
      BY <1>3, Functions
    <2>4. QED
      BY <1>2, <2>1, <2>2, <2>3 DEF OnlyAt
  <1>5. t \notin raced' => putc'[t].pc = "idle" /\ w.cursor = s.cursor
    BY <1>1 DEF Idle
  <1>6. t \notin raced' => FollowsCursor(putc'[t], w, s.cursor)
    BY <1>5 DEF FollowsCursor
  <1>7. t \notin raced' /\ t \notin marred' => FollowsText(putc'[t], w, s.cells, screen')
    BY <1>1, <1>5 DEF FollowsText
  <1>8. keys' \in 0..MaxKeys
    BY <1>1, At, ScreensAssumption DEF Key
  <1>9. crt' \in Cell
    BY <1>2, <1>3
  <1>10. /\ raced \ {t} \subseteq raced' /\ marred \ {t} \subseteq marred'
         /\ screen' = screen /\ astray' = astray /\ puts' = puts
    BY <1>1
  <1>11. QED
    BY <1>4, <1>6, <1>7, <1>8, <1>9, <1>10, At, OneTerminalStep

LEMMA OverlapIs ==
    ASSUME Screens1, raced' = Overlap(currTerminal)
    PROVE  /\ raced \ {currTerminal} \subseteq raced' /\ raced' \subseteq Terminal
           /\ putc[currTerminal] # Idle => currTerminal \in raced'
           /\ currTerminal \notin raced' =>
                /\ want[currTerminal].cursor = Shown.cursor
                /\ currTerminal \notin marred => want[currTerminal].cells = Shown.cells
PROOF BY ShownIs DEF Overlap

LEMMA EchoStep == ASSUME Screens1, Echo PROVE Screens1'
PROOF
  <1>1. PICK c \in {currTerminal, Newline} :
          Shows(Put(Shown, c)) /\ Wants(currTerminal, Put(want[currTerminal], c))
    BY DEF Echo
  <1>2. c \in Terminal \cup {Newline}
    BY <1>1, ShownIs
  <1> DEFINE w == want[currTerminal]
  <1>3. Put(Shown, c) \in Screen /\ Put(w, c) \in Screen
    BY <1>2, ShownIs, At, PutIn
  <1>4. /\ Key /\ raced' = Overlap(currTerminal)
        /\ UNCHANGED <<table, currTerminal, screen, putc, marred, astray, puts>>
    BY DEF Echo
  <1>5. \/ currTerminal \in raced'
        \/ /\ w.cursor = Shown.cursor
           /\ currTerminal \notin marred => w.cells = Shown.cells
    BY <1>4, OverlapIs
  <1>6. w.cursor = Shown.cursor =>
          /\ Put(w, c).cursor = Put(Shown, c).cursor
          /\ w.cells = Shown.cells => Put(w, c).cells = Put(Shown, c).cells
    BY DEF Put
  <1> HIDE DEF w
  <1>7. currTerminal \notin raced' =>
          /\ Put(w, c).cursor = Put(Shown, c).cursor
          /\ currTerminal \notin marred' => Put(w, c).cells = Put(Shown, c).cells
    BY <1>4, <1>5, <1>6
  <1>8. QED
    BY <1>1, <1>3, <1>4, <1>7, OverlapIs, ShownIs, KeyStep DEF w

LEMMA BackspaceStep == ASSUME Screens1, Backspace PROVE Screens1'
PROOF
  <1> DEFINE w == want[currTerminal]
  <1>1. Shows(Erased(Shown)) /\ Wants(currTerminal, Erased(w))
    BY DEF Backspace
  <1>2. w \in Screen /\ Shown \in Screen
    BY ShownIs, At
  <1>3. Erased(Shown) \in Screen /\ Erased(w) \in Screen
    BY <1>2, ErasedIn
  <1>4. /\ Key /\ raced' = Overlap(currTerminal)
        /\ UNCHANGED <<table, currTerminal, screen, putc, marred, astray, puts>>
    BY DEF Backspace
  <1>5. \/ currTerminal \in raced'
        \/ /\ w.cursor = Shown.cursor
           /\ currTerminal \notin marred => w.cells = Shown.cells
    BY <1>4, OverlapIs
  <1>6. \A s \in Screen :
          /\ Erased(s).cursor = IF s.cursor = 0 THEN s.cursor ELSE s.cursor - 1
          /\ Erased(s).cells = IF s.cursor = 0 THEN s.cells
                               ELSE [s.cells EXCEPT ![s.cursor - 1] = Blank]
    BY DEF Erased, Screen
  <1>7. w.cursor = Shown.cursor =>
          /\ Erased(w).cursor = Erased(Shown).cursor
          /\ w.cells = Shown.cells => Erased(w).cells = Erased(Shown).cells
    BY <1>2, <1>6
  <1> HIDE DEF w
  <1>8. currTerminal \notin raced' =>
          /\ Erased(w).cursor = Erased(Shown).cursor
          /\ currTerminal \notin marred' => Erased(w).cells = Erased(Shown).cells
    BY <1>4, <1>5, <1>7
  <1>9. QED
    BY <1>1, <1>3, <1>4, <1>8, OverlapIs, ShownIs, KeyStep

LEMMA ClearStep == ASSUME Screens1, Clear PROVE Screens1'
PROOF
  <1> DEFINE s == [cells |-> Empty, cursor |-> 0]
  <1>1. s \in Screen
    BY EmptyIn
  <1>2. Shows(s)
    BY ShownIs DEF Clear, Shows
  <1>3. Wants(currTerminal, s) /\ Key
        /\ UNCHANGED <<table, currTerminal, screen, putc, astray, puts>>
    BY DEF Clear
  <1>4. /\ raced \ {currTerminal} \subseteq raced' /\ raced' \subseteq Terminal
        /\ marred \ {currTerminal} \subseteq marred' /\ marred' \subseteq Terminal
        /\ putc[currTerminal] # Idle => currTerminal \in raced'
    BY ShownIs DEF Clear
  <1> HIDE DEF s
  <1>5. QED
    BY <1>1, <1>2, <1>3, <1>4, KeyStep

-----------------------------------------------------------------------------
(* A switch *)

\* terminal_switch moves both pages and leaves every terminal what it has.
LEMMA SwitchKeeps ==
    ASSUME Screens1, NEW new \in Terminal, Switch(new)
    PROVE  /\ phys' \in [Page -> Cells]
           /\ table' = [t \in Terminal |-> IF t = new THEN Video ELSE t]
           /\ \A t \in Terminal : phys'[table'[t]] = View(t)
PROOF
  <1> DEFINE unmapped == [table EXCEPT ![currTerminal] = currTerminal]
             kept == [phys EXCEPT ![unmapped[currTerminal]] = phys[Video]]
  <1>1. /\ phys \in [Page -> Cells] /\ table \in [Terminal -> Page]
        /\ currTerminal \in Terminal /\ new # currTerminal /\ Video \notin Terminal
        /\ \A t \in Terminal : t \in Page /\ Video \in Page
    BY Functions, ScreensAssumption DEF Switch, Page
  <1>2. \A t \in Terminal : table[t] = IF t = currTerminal THEN Video ELSE t
    BY DEF Screens1, PagesApart
  <1>3. \A t \in Terminal : unmapped[t] = t
    BY <1>1, <1>2
  <1>4. /\ kept \in [Page -> Cells] /\ kept[currTerminal] = phys[Video]
        /\ kept[Video] = phys[Video]
        /\ \A t \in Terminal \ {currTerminal} : kept[t] = phys[t]
    BY <1>1, <1>3
  <1> HIDE DEF kept
  <1>5. phys' = [kept EXCEPT ![Video] = kept[new]]
    BY <1>3 DEF Switch, Swapped, kept
  <1> HIDE DEF unmapped
  <1>6. table' = [t \in Terminal |-> IF t = new THEN Video ELSE t]
    BY <1>1, <1>2 DEF Switch, Mapped
  <1>7. ASSUME NEW t \in Terminal PROVE phys'[table'[t]] = phys[table[t]]
    BY <1>1, <1>2, <1>4, <1>5, <1>6
  <1>8. QED
    BY <1>1, <1>4, <1>5, <1>6, <1>7 DEF View

LEMMA SwitchStep == ASSUME Screens1, NEW new \in Terminal, Switch(new) PROVE Screens1'
PROOF
  <1>1. /\ UNCHANGED <<cursor, putc, want, puts>> /\ currTerminal' = new
        /\ crt' = cursor[new] /\ screen' = cursor[new] /\ astray' \in BOOLEAN
        /\ raced' = raced /\ marred' = marred \cup Copying
    BY DEF Switch
  <1>2. keys' \in 0..MaxKeys
    BY At, ScreensAssumption DEF Switch, Key
  <1>3. table' \in [Terminal -> Page]
    BY SwitchKeeps DEF Page
  <1>4. cursor[new] \in Cell /\ puts \in 0..MaxPuts
        /\ raced' \subseteq Terminal /\ marred' \subseteq Terminal
    BY <1>1, At
  <1>5. TypeInv'
    BY <1>1, <1>2, <1>3, <1>4, SwitchKeeps, Functions DEF TypeInv, Cells
  <1>6. PagesApart'
    BY <1>1, SwitchKeeps DEF PagesApart
  <1>7. ASSUME NEW t \in Terminal \ raced'
        PROVE  /\ FollowsCursor(putc'[t], want'[t], cursor'[t])
               /\ t \notin marred' =>
                    FollowsText(putc'[t], want'[t], phys'[table'[t]], screen')
    <2>1. t \in Terminal /\ t \notin raced
      BY <1>1, <1>7
    <2>2. /\ FollowsCursor(putc[t], want[t], cursor[t])
          /\ t \notin marred => FollowsText(putc[t], want[t], View(t), screen)
      BY <2>1, At
    <2>3. t \notin marred' => t \notin marred /\ putc[t].pc # "copy"
      BY <1>1, <2>1 DEF Copying
    <2>4. t \notin marred' => FollowsText(putc[t], want[t], View(t), screen')
      BY <2>2, <2>3 DEF FollowsText
    <2>5. QED
      BY <1>1, <2>1, <2>2, <2>4, SwitchKeeps
  <1>8. AllFollow'
    BY <1>7 DEF AllFollow, View
  <1>9. QED
    BY <1>5, <1>6, <1>8 DEF Screens1

LEMMA InitScreens1 == ASSUME Init PROVE Screens1
PROOF
  <1>1. Empty \in Cells /\ [cells |-> Empty, cursor |-> 0] \in Screen /\ 0 \in Cell
    BY EmptyIn, CellsBelow
  <1>2. First \in Terminal /\ MaxPuts \in Nat /\ MaxKeys \in Nat
    BY ScreensAssumption
  <1>3. Idle \in Putc /\ Idle.pc = "idle"
    BY <1>1, PutcMade DEF Idle
  <1>4. table \in [Terminal -> Page] /\ phys \in [Page -> Cells]
    BY <1>1 DEF Init, Page
  <1>5. TypeInv
    <2>1. /\ cursor \in [Terminal -> Cell] /\ crt \in Cell /\ screen \in Cell
          /\ putc \in [Terminal -> Putc] /\ want \in [Terminal -> Screen]
          /\ currTerminal \in Terminal
      BY <1>1, <1>2, <1>3 DEF Init
    <2>2. raced \subseteq Terminal /\ marred \subseteq Terminal /\ astray \in BOOLEAN
      BY DEF Init
    <2>3. puts \in 0..MaxPuts /\ keys \in 0..MaxKeys
      BY <1>2 DEF Init
    <2>4. QED
      BY <1>4, <2>1, <2>2, <2>3 DEF TypeInv, Cells
  <1>6. PagesApart
    BY DEF Init, PagesApart
  <1>7. ASSUME NEW t \in Terminal
        PROVE  /\ FollowsCursor(putc[t], want[t], cursor[t])
               /\ FollowsText(putc[t], want[t], View(t), screen)
    <2>1. table[t] \in Page
      BY <1>4
    <2>2. View(t) = Empty /\ putc[t] = Idle /\ cursor[t] = 0
          /\ want[t] = [cells |-> Empty, cursor |-> 0]
      BY <2>1 DEF Init, View
    <2>3. QED
      BY <1>3, <2>2 DEF FollowsCursor, FollowsText
  <1>8. QED
    BY <1>5, <1>6, <1>7 DEF Screens1, AllFollow

LEMMA NextScreens1 == ASSUME Screens1, [Next]_vars PROVE Screens1'
PROOF
  <1>1. CASE UNCHANGED vars
    <2>1. /\ phys' = phys /\ table' = table /\ cursor' = cursor /\ crt' = crt
          /\ currTerminal' = currTerminal /\ screen' = screen /\ putc' = putc
          /\ want' = want /\ raced' = raced /\ marred' = marred /\ astray' = astray
          /\ puts' = puts /\ keys' = keys
      BY <1>1 DEF vars
    <2>2. TypeInv' /\ PagesApart'
      BY <2>1 DEF Screens1, TypeInv, PagesApart
    <2>3. AllFollow'
      BY <2>1 DEF Screens1, AllFollow, View
    <2>4. QED
      BY <2>2, <2>3 DEF Screens1
  <1>2. CASE Next
    BY <1>2, PutStartStep, PutWriteStep, ScrollStartStep, ScrollSetStep, ScrollCopyStep,
       PutEndStep, PutStoreStep, DrawStep, FaultStep, EchoStep, BackspaceStep, ClearStep, SwitchStep
       DEF Next
  <1>3. QED
    BY <1>1, <1>2

-----------------------------------------------------------------------------
(* The display's cursor *)

\* A step of t's putc2 that leaves the cursors alone.
LEMMA QuietStep ==
    ASSUME IInv, NEW t \in Terminal,
           UNCHANGED <<crt, cursor, currTerminal, astray>>, raced \subseteq raced',
           \A u \in Terminal \ {t} : putc'[u] = putc[u],
           putc'[t].pc # "idle",
           putc'[t].pc = "update" => currTerminal = t,
           putc'[t].pc = "store" => currTerminal # t
    PROVE  CrtFollows'
PROOF
  <1>1. CrtFollows /\ currTerminal \in Terminal
    BY Functions DEF IInv
  <1>2. CASE t = currTerminal
    BY <1>1, <1>2 DEF CrtFollows
  <1>3. CASE t # currTerminal
    BY <1>1, <1>3 DEF CrtFollows
  <1>4. QED
    BY <1>2, <1>3

LEMMA PutSteps ==
    ASSUME IInv, NEW t \in Terminal,
           \/ PutStart(t) \/ PutWrite(t) \/ ScrollStart(t) \/ ScrollSet(t) \/ ScrollCopy(t)
           \/ PutTest(t)
    PROVE  CrtFollows'
PROOF
  <1>1. putc \in [Terminal -> Putc]
    BY Functions DEF IInv
  <1>2. /\ UNCHANGED <<crt, cursor, currTerminal, astray>> /\ raced \subseteq raced'
    BY DEF PutStart, PutWrite, ScrollStart, ScrollSet, ScrollCopy, PutTest
  <1>3. PICK to : Local(t, to)
    BY DEF PutStart, PutWrite, ScrollStart, ScrollSet, ScrollCopy, PutTest
  <1>4. \A u \in Terminal \ {t} : putc'[u] = putc[u]
    BY <1>1, <1>3 DEF Local
  <1>5. /\ putc'[t].pc # "idle"
        /\ putc'[t].pc = "update" => currTerminal = t
        /\ putc'[t].pc = "store" => currTerminal # t
    <2>1. CASE PutStart(t)
      BY <1>1, <2>1 DEF PutStart, Local
    <2>2. CASE PutWrite(t)
      BY <1>1, <2>2 DEF PutWrite, Local
    <2>3. CASE ScrollStart(t)
      BY <1>1, <2>3 DEF ScrollStart, Local
    <2>4. CASE ScrollSet(t)
      <3>1. putc[t] \in [pc : {"set", "copy"}, i : Cell, kept : Cell, pos : Cell]
        BY <1>1, <2>4 DEF ScrollSet, Putc, Idle
      <3>2. [putc[t] EXCEPT !.pc = "copy"].pc = "copy"
        BY <3>1
      <3>3. QED
        BY <1>1, <2>4, <3>2 DEF ScrollSet, Local
    <2>5. CASE ScrollCopy(t)
      <3>1. putc[t] \in [pc : {"set", "copy"}, i : Cell, kept : Cell, pos : Cell]
        BY <1>1, <2>5 DEF ScrollCopy, Putc, Idle
      <3>2. [putc[t] EXCEPT !.pc = "set", !.i = @ + 1].pc = "set"
        BY <3>1
      <3>3. \/ Local(t, [putc[t] EXCEPT !.pc = "set", !.i = @ + 1])
            \/ Local(t, [pc |-> "test", pos |-> putc[t].pos])
        BY <2>5 DEF ScrollCopy
      <3>4. CASE Local(t, [putc[t] EXCEPT !.pc = "set", !.i = @ + 1])
        <4>1. \E next : putc' = [putc EXCEPT ![t] = next] /\ next.pc = "set"
          BY <3>2, <3>4 DEF Local
        <4>2. QED
          BY <1>1, <4>1
      <3>5. CASE Local(t, [pc |-> "test", pos |-> putc[t].pos])
        BY <1>1, <3>5 DEF Local
      <3>6. QED
        BY <3>3, <3>4, <3>5
    <2>6. CASE PutTest(t)
      BY <1>1, <2>6 DEF PutTest, Local, IsShown
    <2>7. QED
      BY <2>1, <2>2, <2>3, <2>4, <2>5, <2>6
  <1>6. QED
    BY <1>2, <1>4, <1>5, QuietStep

LEMMA PutUpdateCrt == ASSUME IInv, NEW t \in Terminal, PutUpdate(t) PROVE CrtFollows'
PROOF
  <1>1. /\ putc \in [Terminal -> Putc] /\ putc[t].pc = "update"
        /\ currTerminal \in Terminal /\ CrtFollows
    BY Functions DEF IInv, PutUpdate
  <1>2. /\ crt' = putc[t].pos /\ putc' = [putc EXCEPT ![t] = [putc[t] EXCEPT !.pc = "store"]]
        /\ UNCHANGED <<cursor, currTerminal, raced, astray>>
    BY DEF PutUpdate, Local
  <1>3. putc[t] \in [pc : {"scroll", "test", "update", "store"}, pos : Cell]
    BY <1>1 DEF Putc, Idle
  <1>4. putc'[t].pc = "store" /\ putc'[t].pos = putc[t].pos
    BY <1>1, <1>2, <1>3
  <1>5. \A u \in Terminal \ {t} : putc'[u] = putc[u]
    BY <1>1, <1>2
  <1>6. ~astray => t = currTerminal
    BY <1>1 DEF CrtFollows
  <1>7. QED
    BY <1>1, <1>2, <1>4, <1>5, <1>6 DEF CrtFollows

LEMMA PutStoreCrt == ASSUME IInv, NEW t \in Terminal, PutStore(t) PROVE CrtFollows'
PROOF
  <1>1. /\ putc \in [Terminal -> Putc] /\ cursor \in [Terminal -> Cell]
        /\ putc[t].pc = "store" /\ currTerminal \in Terminal /\ CrtFollows
    BY Functions DEF IInv, PutStore
  <1>2. /\ cursor' = [cursor EXCEPT ![t] = putc[t].pos] /\ putc' = [putc EXCEPT ![t] = Idle]
        /\ UNCHANGED <<crt, currTerminal, raced, astray>> /\ Idle.pc = "idle"
    BY DEF PutStore, Local, Idle
  <1>3. CASE t = currTerminal
    BY <1>1, <1>2, <1>3 DEF CrtFollows
  <1>4. CASE t # currTerminal
    BY <1>1, <1>2, <1>4 DEF CrtFollows
  <1>5. QED
    BY <1>3, <1>4

LEMMA DrawCrt == ASSUME IInv, NEW t \in Terminal, Draw(t) \/ Fault(t) PROVE CrtFollows'
PROOF BY DEF IInv, Draw, Fault, CrtFollows

\* A key puts both cursors at the same cell; during a putc2 it spoils the terminal.
LEMMA KeyCrt ==
    ASSUME IInv, Echo \/ Backspace \/ Clear PROVE CrtFollows'
PROOF
  <1>1. cursor \in [Terminal -> Cell] /\ currTerminal \in Terminal /\ CrtFollows
    BY Functions DEF IInv
  <1>2. UNCHANGED <<currTerminal, putc, astray>>
    BY DEF Echo, Backspace, Clear
  <1>3. crt' = cursor'[currTerminal]
    BY <1>1 DEF Echo, Backspace, Clear, Shows
  <1>4. putc[currTerminal] # Idle => currTerminal \in raced'
    BY DEF Echo, Backspace, Clear, Overlap
  <1>5. Idle.pc = "idle"
    BY DEF Idle
  <1>6. QED
    BY <1>1, <1>2, <1>3, <1>4, <1>5 DEF CrtFollows

LEMMA SwitchCrt == ASSUME IInv, NEW new \in Terminal, Switch(new) PROVE CrtFollows'
PROOF
  <1>1. /\ UNCHANGED <<cursor, putc>> /\ currTerminal' = new /\ crt' = cursor[new]
        /\ astray' = (\E t \in Terminal : putc[t].pc \in {"update", "store"})
    BY DEF Switch
  <1>2. QED
    BY <1>1 DEF CrtFollows

LEMMA InitIInv == ASSUME Init PROVE IInv
PROOF
  <1>1. Idle.pc = "idle" /\ First \in Terminal
    BY ScreensAssumption DEF Idle
  <1>2. CrtFollows
    BY <1>1 DEF Init, CrtFollows
  <1>3. QED
    BY <1>2, InitScreens1 DEF IInv

LEMMA NextIInv == ASSUME IInv, [Next]_vars PROVE IInv'
PROOF
  <1>1. Screens1'
    BY NextScreens1 DEF IInv
  <1>2. CASE UNCHANGED vars
    <2>1. /\ cursor' = cursor /\ crt' = crt /\ currTerminal' = currTerminal
          /\ putc' = putc /\ raced' = raced /\ astray' = astray
      BY <1>2 DEF vars
    <2>2. CrtFollows'
      BY <2>1 DEF IInv, CrtFollows
    <2>3. QED
      BY <1>1, <2>2 DEF IInv
  <1>3. CASE Next
    <2>1. CrtFollows'
      BY <1>3, PutSteps, PutUpdateCrt, PutStoreCrt, DrawCrt, KeyCrt, SwitchCrt DEF Next
    <2>2. QED
      BY <1>1, <2>1 DEF IInv
  <1>4. QED
    BY <1>2, <1>3

LEMMA IInvCorrect == Spec => []IInv
PROOF BY InitIInv, NextIInv, PTL DEF Spec

-----------------------------------------------------------------------------
(* The theorems *)

\* All places that are written to are cells of a screen.
THEOREM TypeCorrect == Spec => []TypeInv
PROOF
  <1>1. IInv => TypeInv
    BY DEF IInv, Screens1
  <1>2. QED
    BY <1>1, IInvCorrect, PTL

\* No two terminals share a page (terminal.c:137-151).
THEOREM PagesApartCorrect == Spec => []PagesApart
PROOF
  <1>1. IInv => PagesApart
    BY DEF IInv, Screens1
  <1>2. QED
    BY <1>1, IInvCorrect, PTL

\* Under every interleaving of any number of programs, keys, switches and exceptions,
\* a terminal's cursor and text are what was written, echoed and printed on it, but
\* for the overlaps that ScreenIsText names (lib.c:216-563, 610-622).
THEOREM ScreenIsTextCorrect == Spec => []ScreenIsText
PROOF
  <1>1. ASSUME IInv, NEW t \in Terminal \ raced, putc[t] = Idle
        PROVE  /\ cursor[t] = want[t].cursor
               /\ t \notin marred => View(t) = want[t].cells
    <2>1. /\ FollowsCursor(putc[t], want[t], cursor[t])
          /\ t \notin marred => FollowsText(putc[t], want[t], View(t), screen)
      BY <1>1, At DEF IInv
    <2>2. QED
      BY <1>1, <2>1 DEF FollowsCursor, FollowsText, Idle
  <1>2. IInv => ScreenIsText
    BY <1>1 DEF ScreenIsText
  <1>3. QED
    BY <1>2, IInvCorrect, PTL

\* The display's cursor is the shown terminal's, but for the overlaps
\* (lib.c:395-398, terminal.c:154-158).
THEOREM CursorIsShownCorrect == Spec => []CursorIsShown
PROOF
  <1>1. IInv => CursorIsShown
    BY DEF IInv, CrtFollows, CursorIsShown, Idle
  <1>2. QED
    BY <1>1, IInvCorrect, PTL

\* A switch leaves every terminal's screen as it was (terminal.c:137-151).
THEOREM SwitchLosesNothingCorrect == Spec => SwitchLosesNothing
PROOF
  <1>1. ASSUME IInv, [Next]_vars
        PROVE  [currTerminal' # currTerminal =>
                  \A t \in Terminal : View(t)' = View(t)]_vars
    <2>1. CASE UNCHANGED vars
      BY <2>1
    <2>2. CASE \E new \in Terminal : Switch(new)
      BY <1>1, <2>2, SwitchKeeps DEF IInv, View
    <2>3. CASE Next /\ ~\E new \in Terminal : Switch(new)
      <3>1. currTerminal' = currTerminal
        BY <2>3 DEF Next, PutStart, PutWrite, ScrollStart, ScrollSet, ScrollCopy, PutTest,
           PutUpdate, PutStore, Draw, Fault, Echo, Backspace, Clear
      <3>2. QED
        BY <3>1
    <2>4. QED
      BY <1>1, <2>1, <2>2, <2>3
  <1>2. QED
    BY <1>1, IInvCorrect, PTL DEF Spec, SwitchLosesNothing

=============================================================================
