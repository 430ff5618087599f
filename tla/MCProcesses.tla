---------------------------- MODULE MCProcesses ----------------------------
(***************************************************************************)
(* Instances of Processes for TLC: the kernel's own sizes (three terminals *)
(* and six pids), and a smaller kernel for the runs in which everything    *)
(* overlaps.                                                               *)
(***************************************************************************)
EXTENDS ProcessesInv


=============================================================================
