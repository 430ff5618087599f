----------------------------- MODULE Interrupts -----------------------------
(***************************************************************************)
(* How interrupts reach the kernel: the boot sequence (kernel.c), the IDT  *)
(* (IDT.c), the pair of 8259s and the bytes i8259.c writes to them, the    *)
(* PIT's round robin, and the handlers' end of interrupt.  The threads are *)
(* those of Rtc, whose reads need the RTC to interrupt for ever.           *)
(*                                                                         *)
(* The chips, the devices and the CPU's acknowledge cycle are external: as *)
(* far as the bytes this kernel writes can tell.                           *)
(***************************************************************************)
EXTENDS Rtc, Sequences, FiniteSetsExt

CONSTANTS
    MaxKeys,    \* bound on the keys that are pressed
    MaxNest     \* bound on the RTC handlers of one thread behind their sti

ASSUME InterruptsAssumption == MaxKeys \in Nat /\ MaxNest \in Nat \ {0}

Boot    == -1       \* the thread of entry; terminalrun before any shell runs
Context == Term \cup {Boot}
Chip    == {"master", "slave"}
Line    == 0..7     \* the bits of a byte, the lines of a chip
Cascade == 2        \* the master's line on which the slave is

KEYBOARD_IRQ == 1
PIT_IRQ      == 0
RTC_IRQ      == 8
IRQ_DIFF     == 8

VARIABLES
    chip,       \* the two 8259s
    mask,       \* master_mask and slave_mask
    booted,     \* how much of BootOrder is done
    running,    \* the thread that has the CPU: terminalrun
    iflag,      \* the CPU takes interrupts
    handler,    \* the handler that runs and has not ended its interrupt
    windows,    \* per thread, its RTC handlers behind their sti
    regC,       \* the RTC has interrupted and its register C is unread
    keys        \* keys that have been pressed

machine == <<chip, mask, booted, running, iflag, handler, windows, regC, keys>>
vars == <<rtcVars, machine>>

-----------------------------------------------------------------------------
(* The 8259.  A byte is the set of its bits. *)

Weight   == <<1, 2, 4, 8, 16, 32, 64, 128>>
Bits(n)  == {i \in Line : (n \div Weight[i + 1]) % 2 = 1}
Value(b) == LET V(i) == IF i \in b THEN Weight[i + 1] ELSE 0
            IN  V(0) + V(1) + V(2) + V(3) + V(4) + V(5) + V(6) + V(7)

\* A write to the command port: ICW1, or the end of the interrupt that is named.
Command(c, byte) ==
    IF 4 \in byte
      THEN [c EXCEPT !.irr = {}, !.isr = {}, !.imr = {}, !.icw = 2,
                     !.auto = FALSE, !.nested = FALSE]
      ELSE IF {5, 6} \subseteq byte
        THEN [c EXCEPT !.isr = @ \ {Value(byte \cap 0..2)}]
        ELSE c

\* A write to the data port: ICW2, 3 or 4 while one is expected, else the mask.
Data(c, byte) ==
    CASE c.icw = 2 -> [c EXCEPT !.base = Value(byte \ (0..2)), !.icw = 3]
      [] c.icw = 3 -> [c EXCEPT !.icw = 4]
      [] c.icw = 4 -> [c EXCEPT !.auto = 1 \in byte, !.nested = 4 \in byte,
                                !.icw = 0]
      [] OTHER     -> [c EXCEPT !.imr = byte]

Out(c, w) == [c EXCEPT ![w.chip] = IF w.port = "command"
                                     THEN Command(@, w.byte) ELSE Data(@, w.byte)]

\* The chips after each of a sequence of writes.
Chips(c, writes) ==
    LET chips[n \in 0..Len(writes)] ==
          IF n = 0 THEN c ELSE Out(chips[n - 1], writes[n])
    IN  chips

After(writes) == Chips(chip, writes)[Len(writes)]

Write(name, port, byte) == [chip |-> name, port |-> port, byte |-> byte]

\* The requests that a chip passes on: not masked, and above those in service.
Pending(c, requests) ==
    {i \in requests \ c.imr :
       \A j \in c.isr : i < j \/ (i = j /\ c.nested /\ i = Cascade)}

SlaveRequests  == Pending(chip["slave"], chip["slave"].irr)
MasterRequests ==
    Pending(chip["master"], chip["master"].irr \cup
                              IF SlaveRequests # {} THEN {Cascade} ELSE {})

None == 16

\* The interrupt that the CPU is given next.
Highest == IF MasterRequests = {} THEN None
           ELSE LET i == Min(MasterRequests)
                IN  IF i = Cascade THEN IRQ_DIFF + Min(SlaveRequests) ELSE i

Acknowledged(c, i) ==
    [c EXCEPT !.irr = @ \ {i}, !.isr = IF c.auto THEN @ ELSE @ \cup {i}]

Vector(irq) == IF irq < IRQ_DIFF THEN chip["master"].base + irq
                                 ELSE chip["slave"].base + irq - IRQ_DIFF

-----------------------------------------------------------------------------
(* i8259.c *)

\* A bug for the checks: the slave keeps the vectors of the BIOS.
Bugi8259Writes ==
    << Write("master", "command", Bits(17)), Write("master", "data", Bits(32)),
       Write("master", "data", Bits(4)), Write("slave", "data", Bits(1)),
       Write("slave", "command", Bits(17)), Write("slave", "data", Bits(112)),
       Write("slave", "data", Bits(2)), Write("slave", "data", Bits(1)),
       Write("master", "data", Line), Write("slave", "data", Line) >>

i8259Writes ==
    << Write("master", "command", Bits(17)),    \* ICW1
       Write("master", "data",    Bits(32)),    \* ICW2_MASTER
       Write("master", "data",    Bits(4)),     \* ICW3_MASTER
       Write("slave",  "data",    Bits(1)),     \* ICW4, to SLAVE_8259_PORT + 1
       Write("slave",  "command", Bits(17)),    \* ICW1
       Write("slave",  "data",    Bits(40)),    \* ICW2_SLAVE
       Write("slave",  "data",    Bits(2)),     \* ICW3_SLAVE
       Write("slave",  "data",    Bits(1)),     \* ICW4
       Write("master", "data",    Line),        \* master_mask
       Write("slave",  "data",    Line) >>      \* slave_mask

\* A bug for the checks: the cascade is left masked.
BugUnmasked(m, irq) ==
    IF irq < IRQ_DIFF THEN [m EXCEPT !["master"] = @ \ {irq}]
                      ELSE [m EXCEPT !["slave"]  = @ \ {irq - IRQ_DIFF}]

\* The masks once irq is enabled; PORT_2_UNMASK keeps the cascade open.
Unmasked(m, irq) ==
    IF irq < IRQ_DIFF
      THEN [m EXCEPT !["master"] = @ \ {irq}]
      ELSE [m EXCEPT !["slave"]  = @ \ {irq - IRQ_DIFF},
                     !["master"] = @ \ {Cascade}]

\* A bug for the checks: only the master's mask is written.
BugMaskWrites(m, irq) == << Write("master", "data", m["master"]) >>

MaskWrites(m, irq) ==
    IF irq < IRQ_DIFF
      THEN << Write("master", "data", m["master"]) >>
      ELSE << Write("slave",  "data", m["slave"]),
              Write("master", "data", m["master"]) >>

enable_irq(irq) ==
    /\ mask' = Unmasked(mask, irq)
    /\ chip' = After(MaskWrites(mask', irq))

EOI == Bits(96)

\* A bug for the checks: the slave's interrupt is not ended.
BugEoiWrites(irq) ==
    IF irq < IRQ_DIFF
      THEN << Write("master", "command", EOI \cup Bits(irq)) >>
      ELSE << Write("master", "command", EOI \cup Bits(Cascade)) >>

EoiWrites(irq) ==
    IF irq < IRQ_DIFF
      THEN << Write("master", "command", EOI \cup Bits(irq)) >>
      ELSE << Write("master", "command", EOI \cup Bits(Cascade)),
              Write("slave",  "command", EOI \cup Bits(irq - IRQ_DIFF)) >>

send_eoi(irq) == chip' = After(EoiWrites(irq))

-----------------------------------------------------------------------------
(* Boot *)

\* A bug for the checks: interrupts are let in before the terminals are set up.
BugBootOrder == <<"file", "idt", "pic", "rtc", "keyboard", "sti", "page",
                  "terminal", "pit", "mask", "out">>

\* entry, from file_init to its idle loop.  enable_irq(0) is two steps: it runs
\* with interrupts on.
BootOrder == <<"file", "idt", "pic", "rtc", "keyboard", "page", "terminal",
               "pit", "sti", "mask", "out">>

Done == {BootOrder[i] : i \in 1..booted}

BootStep ==
    /\ running = Boot /\ handler = "none" /\ windows[Boot] = 0
    /\ booted < Len(BootOrder)
    /\ booted' = booted + 1
    /\ LET step == BootOrder[booted + 1] IN
         /\ CASE step = "pic"      -> /\ mask' = [c \in Chip |-> Line]
                                      /\ chip' = After(i8259Writes)
              [] step = "rtc"      -> enable_irq(RTC_IRQ)
              [] step = "keyboard" -> enable_irq(KEYBOARD_IRQ)
              [] step = "mask"     -> /\ mask' = Unmasked(mask, PIT_IRQ)
                                      /\ UNCHANGED chip
              [] step = "out"      -> /\ chip' = After(MaskWrites(mask, PIT_IRQ))
                                      /\ UNCHANGED mask
              [] OTHER             -> UNCHANGED <<chip, mask>>
         /\ iflag' = (iflag \/ step = "sti")
    /\ UNCHANGED <<rtcVars, running, handler, windows, regC, keys>>

\* What the IDT sends each vector to.  The exceptions and generic_interrupt
\* print and call halt(HALT_CODE).
HaltingHandlers == {"exception", "generic_interrupt"}

IdtEntry(v) ==
    CASE v = 128 -> "call_handler"
      [] v = 33  -> "keyboard"
      [] v = 40  -> "rtc"
      [] v = 32  -> "pit"
      [] OTHER   -> IF v <= 19 THEN "exception" ELSE "generic_interrupt"

Gate(v) == IF "idt" \in Done THEN IdtEntry(v) ELSE "nothing"

Handler == {"none", "nothing", "call_handler", "keyboard", "rtc", "pit"}
             \cup HaltingHandlers

-----------------------------------------------------------------------------
(* The devices and the CPU *)

Raise(name, line) == chip' = [chip EXCEPT ![name].irr = @ \cup {line}]

\* A tick comes 10 ms after the last: by then its handler is over, and nothing
\* that was requested is left waiting.
PitRaise ==
    /\ handler # "pit"
    /\ \A c \in Chip : chip[c].irr = {}
    /\ Raise("master", PIT_IRQ)
    /\ UNCHANGED <<rtcVars, mask, booted, running, iflag, handler, windows, regC, keys>>

\* The RTC does not interrupt again until register C has been read.
RtcRaise ==
    /\ "rtc" \in Done /\ ~regC
    /\ regC' = TRUE
    /\ Raise("slave", RTC_IRQ - IRQ_DIFF)
    /\ UNCHANGED <<rtcVars, mask, booted, running, iflag, handler, windows, keys>>

\* Nor the keyboard, until its scan code has.
KeyRaise ==
    /\ "keyboard" \in Done /\ keys < MaxKeys
    /\ KEYBOARD_IRQ \notin chip["master"].irr /\ handler # "keyboard"
    /\ keys' = keys + 1
    /\ Raise("master", KEYBOARD_IRQ)
    /\ UNCHANGED <<rtcVars, mask, booted, running, iflag, handler, windows, regC>>

\* The CPU acknowledges irq and enters its gate, with interrupts off.
Accept(irq) ==
    /\ iflag
    /\ irq = Highest
    /\ irq = RTC_IRQ => windows[running] < MaxNest
    /\ handler' = Gate(Vector(irq))
    /\ iflag' = FALSE
    /\ chip' = IF irq < IRQ_DIFF
                 THEN [chip EXCEPT !["master"] = Acknowledged(@, irq)]
                 ELSE [chip EXCEPT !["master"] = Acknowledged(@, Cascade),
                                   !["slave"]  = Acknowledged(@, irq - IRQ_DIFF)]
    /\ UNCHANGED <<rtcVars, mask, booted, running, windows, regC, keys>>

-----------------------------------------------------------------------------
(* The handlers *)

\* A bug for the checks: the last terminal is left out.
BugPitHandler ==
    /\ handler = "pit"
    /\ send_eoi(PIT_IRQ)
    /\ running' = (running + 1) % (MaxTerminals - 1)
    /\ handler' = "none" /\ iflag' = TRUE
    /\ windows' = [windows EXCEPT ![Boot] = 0]
    /\ UNCHANGED <<rtcVars, mask, booted, regC, keys>>

\* scheduler ends the interrupt first and then goes to the next terminal's
\* thread, a new shell the first time; iret gives it its interrupt flag.  The
\* stack of entry, and what is on it, is left for good.
PitHandler ==
    /\ handler = "pit"
    /\ send_eoi(PIT_IRQ)
    /\ running' = (running + 1) % MaxTerminals
    /\ handler' = "none" /\ iflag' = TRUE
    /\ windows' = [windows EXCEPT ![Boot] = 0]
    /\ UNCHANGED <<rtcVars, mask, booted, regC, keys>>

KeyboardHandler ==
    /\ handler = "keyboard"
    /\ send_eoi(KEYBOARD_IRQ)
    /\ handler' = "none" /\ iflag' = TRUE
    /\ UNCHANGED <<rtcVars, mask, booted, running, windows, regC, keys>>

\* A bug for the checks: register C is not read.
BugRtcHandler ==
    /\ handler = "rtc"
    /\ Tick
    /\ send_eoi(RTC_IRQ)
    /\ handler' = "none" /\ iflag' = TRUE
    /\ windows' = [windows EXCEPT ![running] = @ + 1]
    /\ UNCHANGED <<mask, booted, running, regC, keys>>

\* rtc_handler, up to its sti; then any interrupt may come before its iret.
RtcHandler ==
    /\ handler = "rtc"
    /\ regC' = FALSE
    /\ Tick
    /\ send_eoi(RTC_IRQ)
    /\ handler' = "none" /\ iflag' = TRUE
    /\ windows' = [windows EXCEPT ![running] = @ + 1]
    /\ UNCHANGED <<mask, booted, running, keys>>

RtcReturn(c) ==
    /\ running = c /\ handler = "none" /\ windows[c] > 0
    /\ windows' = [windows EXCEPT ![c] = @ - 1]
    /\ UNCHANGED <<rtcVars, chip, mask, booted, running, iflag, handler, regC, keys>>

\* The thread of t, outside handlers.
Thread(t) ==
    /\ running = t /\ handler = "none" /\ windows[t] = 0
    /\ RtcStep(t)
    /\ iflag' = (rpc'[t] # "refused")
    /\ UNCHANGED <<chip, mask, booted, running, handler, windows, regC, keys>>

Handle  == PitHandler \/ KeyboardHandler \/ RtcHandler
Devices == PitRaise \/ RtcRaise \/ KeyRaise

Init ==
    /\ RtcInit
    /\ chip = [c \in Chip |->
                 [irr |-> {}, isr |-> {}, imr |-> {}, icw |-> 0, auto |-> FALSE,
                  nested |-> FALSE, base |-> IF c = "master" THEN 8 ELSE 112]]
    /\ mask = [c \in Chip |-> {}]
    /\ booted = 0
    /\ running = Boot
    /\ iflag = FALSE
    /\ handler = "none"
    /\ windows = [c \in Context |-> 0]
    /\ regC = FALSE
    /\ keys = 0

Next ==
    \/ BootStep
    \/ Devices
    \/ \E irq \in {PIT_IRQ, KEYBOARD_IRQ, RTC_IRQ} : Accept(irq)
    \/ Handle
    \/ \E c \in Context : RtcReturn(c)
    \/ \E t \in Term : Thread(t)

Spec == Init /\ [][Next]_vars

\* What a thread does without being asked: boot, the rest of a system call.
GoesOn(t) == (t = 0 /\ BootStep) \/ (Thread(t) /\ rpc[t] # "user")

\* The CPU executes; the PIT and the RTC keep running; what is interrupted again
\* and again gets its turn all the same: handlers are short against the periods
\* of the devices.
FairSpec ==
    /\ Spec
    /\ WF_vars(Handle) /\ WF_vars(RtcRaise) /\ SF_vars(PitRaise)
    /\ SF_vars(\E irq \in {PIT_IRQ, KEYBOARD_IRQ, RTC_IRQ} : Accept(irq))
    /\ WF_vars(RtcReturn(Boot))
    /\ \A t \in Term : SF_vars(RtcReturn(t)) /\ SF_vars(GoesOn(t))

-----------------------------------------------------------------------------
(* Properties *)

TypeInv ==
    /\ RtcTypeInv
    /\ chip \in [Chip -> [irr : SUBSET Line, isr : SUBSET Line, imr : SUBSET Line,
                          icw : {0, 2, 3, 4}, auto : BOOLEAN, nested : BOOLEAN,
                          base : 0..255]]
    /\ mask \in [Chip -> SUBSET Line]
    /\ booted \in 0..Len(BootOrder)
    /\ running \in Context
    /\ iflag \in BOOLEAN /\ regC \in BOOLEAN
    /\ handler \in Handler
    /\ windows \in [Context -> 0..MaxNest]
    /\ keys \in 0..MaxKeys

\* What each handler uses must be set up before its interrupt is let in:
\* terminal_init for currRTC, the pages and the file system for the shell that
\* the first tick starts (kernel.c:156-175 and its comment on "sti").
Needs(h) ==
    CASE h = "pit"      -> {"file", "idt", "page", "terminal", "pit"}
      [] h = "keyboard" -> {"idt", "keyboard", "page", "terminal"}
      [] h = "rtc"      -> {"idt", "rtc", "terminal"}
      [] OTHER          -> {}

HandlersReady == Needs(handler) \subseteq Done

\* An interrupt is sent to its own device's handler, never to an exception or
\* to the generic handler, which would halt the program that it interrupts
\* (i8259.c:38-48, IDT.c:403-406).
OwnHandler == handler \in {"none", "keyboard", "rtc", "pit"}

\* Where interrupts are on, no interrupt is still in service: the handlers end
\* theirs before iret or sti, the PIT's before it leaves for another thread,
\* which would otherwise block all later ones (rtc.c:69, scheduler.c:55).
NothingInServiceWhenOn == iflag => \A c \in Chip : chip[c].isr = {}

\* Once the kernel is up, the chips' masks are the variables', though enable_irq
\* changes them with interrupts on and the chips were not initialised as meant:
\* exactly the PIT, the keyboard, the cascade and the RTC are open
\* (i8259.c:66-100, kernel.c:175).
MasksMirror ==
    "out" \in Done => \A c \in Chip :
      /\ chip[c].imr = mask[c] /\ chip[c].icw = 0
      /\ Line \ mask[c] = IF c = "master" THEN {PIT_IRQ, KEYBOARD_IRQ, Cascade}
                                          ELSE {RTC_IRQ - IRQ_DIFF}

\* Every terminal has the CPU again and again, whatever its programs do with the
\* RTC; so interrupts left off by rtc_set_freq come back (rtc.c:109).
EveryTerminalRuns == \A t \in Term : []<>(running = t)

\* A read of the RTC returns, on a terminal that is shown or not; so the RTC goes
\* on interrupting, its handler having read register C and ended the interrupt on
\* the slave (rtc.c:51-71 and 162-178).
ReadReturns == \A t \in Term : rpc[t] = "spin" ~> rpc[t] = "user"

\* i8259.c:19 and 29: initialisation "masks all interrupts".
InitMasksAll ==
    ("pic" \in Done /\ "rtc" \notin Done) => \A c \in Chip : chip[c].imr = Line

=============================================================================
