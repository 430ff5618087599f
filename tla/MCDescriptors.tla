---------------------------- MODULE MCDescriptors ----------------------------
(***************************************************************************)
(* Instances of Descriptors for TLC: blocks of two bytes, a file of three  *)
(* bytes in two blocks out of order, an empty file, the directory, with as *)
(* many names as ls expects, and the RTC.                                  *)
(***************************************************************************)
EXTENDS Descriptors

Entry(name, ftype, inode) == [name |-> name, ftype |-> ftype, inode |-> inode]

SmallDirectory == <<Entry(".", "dir", 0), Entry("rtc", "rtc", 0),
                    Entry("empty", "file", 1), Entry("frame", "file", 2)>>

SmallLength == [i \in 0..2 |-> IF i = 2 THEN 3 ELSE 0]
SmallBlocks == [i \in 0..2 |-> [k \in 0..2 |-> 5 - k]]

=============================================================================
