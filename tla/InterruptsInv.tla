---------------------------- MODULE InterruptsInv ----------------------------
(***************************************************************************)
(* The inductive invariant of Interrupts: what the boot has programmed by  *)
(* each of its steps, and where the CPU may be.  TLC checks it, and        *)
(* ClockProofs proves it for any number of terminals and interrupts.       *)
(***************************************************************************)
EXTENDS Interrupts

\* The lines that the boot has opened on each chip.
Opened ==
    [c \in Chip |->
       {i \in Line :
          IF c = "master" THEN \/ i = Cascade      /\ booted >= 4
                               \/ i = KEYBOARD_IRQ /\ booted >= 5
                               \/ i = PIT_IRQ      /\ booted >= 10
                          ELSE i = RTC_IRQ - IRQ_DIFF /\ booted >= 4}]

\* What i8259_init has left, and enable_irq and send_eoi keep: no chip waits for
\* an ICW, the vectors are 32 to 47, the master ends interrupts by itself, so
\* that only the slave's RTC line is ever in service.  The master has its mask
\* again when the boot is over.
Programmed ==
    /\ \A c \in Chip : chip[c].icw = 0 /\ mask[c] = Line \ Opened[c]
    /\ chip["master"].base = 32 /\ chip["slave"].base = 40
    /\ chip["master"].auto = TRUE /\ chip["master"].isr = {}
    /\ chip["slave"].isr \subseteq IF handler = "rtc" THEN {RTC_IRQ - IRQ_DIFF} ELSE {}
    /\ chip["slave"].imr = mask["slave"]
    /\ booted = Len(BootOrder) => chip["master"].imr = mask["master"]

\* No handler runs where interrupts are on; before the boot's sti there is no
\* handler, and no other thread than entry; one that runs is its device's.
Cpu ==
    /\ OwnHandler
    /\ iflag => handler = "none"
    /\ iflag \/ handler # "none" \/ running # Boot => "sti" \in Done
    /\ handler = "rtc" => windows[running] < MaxNest

\* The interrupts find chips that are programmed, and a CPU behind its boot's
\* sti (kernel.c:110-182, i8259.c:21-174, rtc.c:51-71, scheduler.c:54-114).
MachineInv ==
    /\ Cpu
    /\ "pic" \in Done => Programmed

=============================================================================
