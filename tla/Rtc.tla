-------------------------------- MODULE Rtc --------------------------------
(***************************************************************************)
(* The virtualised RTC (rtc.c).  The device interrupts at 1024 Hz; a       *)
(* program asks for a frequency and read_rtc makes it wait for the number  *)
(* of interrupts that this comes to.  Each terminal has one counter,       *)
(* currRTC, which the handler increments and the reader polls.             *)
(*                                                                         *)
(* This module knows nothing of the scheduler or of the interrupt          *)
(* controller: a thread may take its next step at any time, and so may the *)
(* handler, except where interrupts are off.  Interrupts says when.        *)
(***************************************************************************)
EXTENDS Integers

CONSTANTS
    MaxTerminals,   \* MAX_TERMINALS
    MaxFreq,        \* MAXFREQ
    MinFreq,        \* MINFREQ
    Frequencies,    \* the frequencies that programs write
    Word            \* 2^32: currRTC is an unsigned int

Idle    == Word - 1     \* the -1 that marks a counter without a reader
Valid   == {f \in MinFreq .. MaxFreq : \E i \in 1..MaxFreq : f = 2^i}
Periods == {MaxFreq \div f : f \in Valid \cup {MinFreq}}

ASSUME RtcAssumption ==
    /\ MaxTerminals \in Nat \ {0}
    /\ MinFreq \in Nat \ {0} /\ MaxFreq \in Nat /\ MinFreq <= MaxFreq
    /\ Frequencies \subseteq Nat
    /\ Word \in Nat /\ MaxFreq \div MinFreq + 1 < Word

Term == 0..(MaxTerminals - 1)

VARIABLES
    currRTC,    \* terminalArray[t].currRTC
    filepos,    \* filepos of the RTC descriptor of the program on t, 0: none
    rpc,        \* where the thread of t is
    target      \* target_freq, a local of read_rtc on t

rtcVars == <<currRTC, filepos, rpc, target>>

Locations == {"user",       \* outside read_rtc and write_rtc
              "spin",       \* read_rtc, at the while
              "finish",     \* read_rtc, behind the while
              "refused"}    \* write_rtc, behind rtc_set_freq, interrupts off

RtcTypeInv ==
    /\ currRTC \in [Term -> 0..Idle]
    /\ filepos \in [Term -> Periods \cup {0}]
    /\ rpc \in [Term -> Locations]
    /\ target \in [Term -> Periods \cup {0}]

RtcInit ==
    /\ currRTC = [t \in Term |-> Idle]
    /\ filepos = [t \in Term |-> 0]
    /\ rpc = [t \in Term |-> "user"]
    /\ target = [t \in Term |-> 0]

\* No thread is where rtc_set_freq left interrupts off.
Interruptible == \A t \in Term : rpc[t] # "refused"

InUser(t) == Interruptible /\ rpc[t] = "user"

OpenRtc(t) ==
    /\ InUser(t)
    /\ filepos' = [filepos EXCEPT ![t] = MaxFreq \div MinFreq]
    /\ UNCHANGED <<currRTC, rpc, target>>

\* The close system call empties the descriptor; close_rtc adds nothing.
CloseRtc(t) ==
    /\ InUser(t)
    /\ filepos[t] # 0
    /\ filepos' = [filepos EXCEPT ![t] = 0]
    /\ UNCHANGED <<currRTC, rpc, target>>

\* A bug for the checks: the frequency is kept instead of the period.
BugWriteValid(t) ==
    /\ InUser(t)
    /\ filepos[t] # 0
    /\ \E f \in Frequencies \cap Valid : filepos' = [filepos EXCEPT ![t] = f]
    /\ UNCHANGED <<currRTC, rpc, target>>

WriteValid(t) ==
    /\ InUser(t)
    /\ filepos[t] # 0
    /\ \E f \in Frequencies \cap Valid :
         filepos' = [filepos EXCEPT ![t] = MaxFreq \div f]
    /\ UNCHANGED <<currRTC, rpc, target>>

\* rtc_set_freq returns -1 without restore_flags: interrupts stay off until
\* the program has its flags back.
WriteInvalid(t) ==
    /\ InUser(t)
    /\ filepos[t] # 0
    /\ Frequencies \ Valid # {}
    /\ rpc' = [rpc EXCEPT ![t] = "refused"]
    /\ UNCHANGED <<currRTC, filepos, target>>

WriteReturn(t) ==
    /\ rpc[t] = "refused"
    /\ rpc' = [rpc EXCEPT ![t] = "user"]
    /\ UNCHANGED <<currRTC, filepos, target>>

ReadBegin(t) ==
    /\ InUser(t)
    /\ filepos[t] # 0
    /\ currRTC' = [currRTC EXCEPT ![t] = 0]
    /\ target' = [target EXCEPT ![t] = filepos[t]]
    /\ rpc' = [rpc EXCEPT ![t] = "spin"]
    /\ UNCHANGED filepos

\* A bug for the checks: one interrupt too few.
BugReadLeave(t) ==
    /\ Interruptible
    /\ rpc[t] = "spin"
    /\ ~(currRTC[t] < target[t] - 1)
    /\ rpc' = [rpc EXCEPT ![t] = "finish"]
    /\ UNCHANGED <<currRTC, filepos, target>>

\* The iterations that stay in the loop change nothing.
ReadLeave(t) ==
    /\ Interruptible
    /\ rpc[t] = "spin"
    /\ ~(currRTC[t] < target[t])
    /\ rpc' = [rpc EXCEPT ![t] = "finish"]
    /\ UNCHANGED <<currRTC, filepos, target>>

\* A bug for the checks: the counter is left running.
BugReadFinish(t) ==
    /\ Interruptible
    /\ rpc[t] = "finish"
    /\ rpc' = [rpc EXCEPT ![t] = "user"]
    /\ target' = [target EXCEPT ![t] = 0]
    /\ UNCHANGED <<currRTC, filepos>>

ReadFinish(t) ==
    /\ Interruptible
    /\ rpc[t] = "finish"
    /\ currRTC' = [currRTC EXCEPT ![t] = Idle]
    /\ rpc' = [rpc EXCEPT ![t] = "user"]
    /\ target' = [target EXCEPT ![t] = 0]
    /\ UNCHANGED filepos

\* execute starts a program, which has no descriptor of the RTC; halt goes back
\* to its parent, which may have one.
ChangeProgram(t) ==
    /\ InUser(t)
    /\ \E p \in Periods \cup {0} : filepos' = [filepos EXCEPT ![t] = p]
    /\ UNCHANGED <<currRTC, rpc, target>>

\* The counters after one interrupt.  A counter that reaches -1 stays there.
Counted == [t \in Term |-> IF currRTC[t] # Idle THEN (currRTC[t] + 1) % Word
                                                ELSE currRTC[t]]

Tick ==
    /\ Interruptible
    /\ currRTC' = Counted
    /\ UNCHANGED <<filepos, rpc, target>>

RtcStep(t) ==
    \/ OpenRtc(t) \/ CloseRtc(t) \/ WriteValid(t) \/ WriteInvalid(t)
    \/ WriteReturn(t) \/ ReadBegin(t) \/ ReadLeave(t) \/ ReadFinish(t)
    \/ ChangeProgram(t)

RtcNext == Tick \/ \E t \in Term : RtcStep(t)

RtcSpec == RtcInit /\ [][RtcNext]_rtcVars

-----------------------------------------------------------------------------
\* The counter runs for readers only, so that a read starts from 0 and no other
\* terminal's reads touch it (rtc.c:162-178).
CountsForReadersOnly ==
    \A t \in Term : currRTC[t] # Idle => rpc[t] \in {"spin", "finish"}

\* The terminals that wait, and for how many interrupts still.
Waiting == {t \in Term : rpc[t] \in {"spin", "finish"}}
Left    == [t \in Term |-> IF t \in Waiting /\ currRTC[t] < target[t]
                             THEN target[t] - currRTC[t] ELSE 0]

Timers == INSTANCE VirtualTimers WITH
            Terminals <- Term, waiting <- Waiting, left <- Left

\* Every terminal has a timer of its own: a read returns after at least as many
\* interrupts as its descriptor asks for, counted from its beginning, and an
\* interrupt counts for all readers (rtc.c:51-71 and 162-178).
TimersSpec == Timers!Spec

=============================================================================
