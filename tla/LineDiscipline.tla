--------------------------- MODULE LineDiscipline ---------------------------
(***************************************************************************)
(* What a terminal's line input promises: each terminal has a line, which  *)
(* keys edit while the terminal is shown, Enter completes and a read takes *)
(* whole.  A completed line waits for its reader, and a terminal that is   *)
(* not shown keeps the line it was left with.                              *)
(***************************************************************************)
EXTENDS Integers, Sequences

CONSTANTS
    Terminals,  \* the terminals
    Printing,   \* the characters other than a tab that keys type
    Tab,        \* the character of the tab key
    Newline,    \* the character of Enter
    Size,       \* the longest line, its Newline included
    Width       \* the room that a tab wants

VARIABLES
    shown,      \* the visible terminal
    text,       \* per terminal, its line
    taken       \* per terminal, the line a read is returning, or <<>>

vars == <<shown, text, taken>>

Complete(line) == line # <<>> /\ line[Len(line)] = Newline

Init ==
    /\ shown \in Terminals
    /\ text = [t \in Terminals |-> <<>>]
    /\ taken = [t \in Terminals |-> <<>>]

\* The keys edit the visible line, until it is complete.
Edit(line) ==
    /\ ~Complete(text[shown])
    /\ text' = [text EXCEPT ![shown] = line]
    /\ UNCHANGED <<shown, taken>>

Type ==
    /\ Len(text[shown]) < Size - 1
    /\ \E c \in Printing \cup {Newline} : Edit(Append(text[shown], c))

TypeTab ==
    /\ Len(text[shown]) < Size - Width
    /\ Edit(Append(text[shown], Tab))

EndFullLine ==
    /\ Len(text[shown]) = Size - 1
    /\ Edit(Append(text[shown], Newline))

Erase ==
    /\ text[shown] # <<>>
    /\ Edit(SubSeq(text[shown], 1, Len(text[shown]) - 1))

Kill == Edit(<<>>)

Show ==
    /\ shown' \in Terminals
    /\ ~Complete(text[shown])
    /\ UNCHANGED <<text, taken>>

\* A read takes the completed line of the visible terminal.
Take ==
    /\ Complete(text[shown])
    /\ taken[shown] = <<>>
    /\ taken' = [taken EXCEPT ![shown] = text[shown]]
    /\ text' = [text EXCEPT ![shown] = <<>>]
    /\ UNCHANGED shown

Return(t) ==
    /\ taken[t] # <<>>
    /\ taken' = [taken EXCEPT ![t] = <<>>]
    /\ UNCHANGED <<shown, text>>

Next ==
    \/ Type \/ TypeTab \/ EndFullLine \/ Erase \/ Kill
    \/ Show \/ Take
    \/ \E t \in Terminals : Return(t)

Spec == Init /\ [][Next]_vars

FairSpec == Spec /\ \A t \in Terminals : WF_vars(Return(t))

=============================================================================
