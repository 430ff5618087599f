---------------------------- MODULE LineInputInv ----------------------------
(***************************************************************************)
(* The inductive invariant behind the line discipline: what buffers and    *)
(* flags look like at every step of the handler and of terminal_read, for  *)
(* a typist who waits for a completed line to be read.                     *)
(***************************************************************************)
EXTENDS LineInput

\* No habit of the typist's, no key that enters a '\0' or leaves a blank behind
\* the line, and reads that have room for a whole line, as the shell's.
Disciplined ==
    /\ Habits \subseteq {"preempt"}
    /\ Keys \cap {"escape", "shift_backspace"} = {}
    /\ Requests \subseteq {n \in Nat : n >= BufferSize}

\* A buffer holds a line of n characters and nothing behind it.
Holds(b, n) == \A i \in Index : b[i] = Nul <=> i >= n

\* The line's only newline, if any, is its last character.
Ends(b, n) == \A i \in Index : b[i] = Newline => i = n - 1

\* Lines that are not visible are incomplete; the visible one is complete
\* exactly when enterflag says so.
AtRest(t) ==
    /\ Holds(Buffer(t), currkey[t])
    /\ Ends(Buffer(t), currkey[t])
    /\ (t = currTerminal /\ enterflag) <=>
         currkey[t] > 0 /\ Buffer(t)[currkey[t] - 1] = Newline

\* What thread t has copied so far: idx characters, and when its count is not
\* BufferSize any more it is the length of the line.
Copied(t) ==
    /\ \A i \in Index : i < idx[t] => buf[t][i] = keyboardbuffer[i]
    /\ count[t] = IF idx[t] + (IF pc[t] = "copy" THEN 1 ELSE 0) > currkey[t]
                    THEN currkey[t] ELSE BufferSize

\* buf holds a complete line of count characters.
Result(t) ==
    /\ count[t] > 0
    /\ buf[t][count[t] - 1] = Newline
    /\ \A i \in Index : i < count[t] => buf[t][i] # Nul
    /\ \A i \in Index : buf[t][i] = Newline => i = count[t] - 1

LineInv ==
    /\ \A t \in Term : pc[t] \in Copying \cup Clearing =>
         /\ t = currTerminal
         /\ enterflag
         /\ nbytes[t] = BufferSize
    /\ \A t \in Term :
         /\ pc[t] = "flag" => t = currTerminal
         /\ pc[t] \in {"wait", "flag"} => nbytes[t] = BufferSize
         /\ pc[t] \in {"user", "write", "wait", "flag"} => count[t] = BufferSize
         /\ pc[t] # "wild"
         /\ pc[t] \notin Clearing => AtRest(t)
         /\ pc[t] \in Copying => Copied(t)
         /\ pc[t] \in Clearing \cup {"return"} => Result(t)
         /\ pc[t] = "scan" =>
              /\ AtRest(t)
              /\ keyboardbuffersize < currkey[t]
         /\ pc[t] = "clear" => \A i \in Index : i < idx[t] => keyboardbuffer[i] = Nul
         /\ pc[t] \in {"reset", "lower"} => keyboardbuffer = Empty
         /\ pc[t] = "lower" => currkey[t] = 0

=============================================================================
