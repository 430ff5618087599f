---------------------------- MODULE MCInterrupts ----------------------------
(***************************************************************************)
(* Instances of Interrupts, and with it of Rtc, for TLC: two terminals, an *)
(* RTC of 4 Hz, and counters that wrap after 5.                            *)
(***************************************************************************)
EXTENDS InterruptsInv

=============================================================================
