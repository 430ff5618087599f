----------------------------- MODULE Descriptors -----------------------------
(***************************************************************************)
(* File descriptors (syscall.c, filesys.c): the fdarray of the PCBs of one *)
(* terminal's processes, through open, close, read, write, execute and     *)
(* halt.  The process on top of the chain runs; a PCB is reused by later   *)
(* processes, with what the earlier left in it.                            *)
(*                                                                         *)
(* A process only uses its own table, and only while its terminal has the  *)
(* CPU, so one terminal stands for all.  The two descriptors of the        *)
(* terminal, 0 and 1, never change and are left out.                       *)
(***************************************************************************)
EXTENDS FileSystem, FiniteSets

CONSTANTS
    Pids,           \* the PCBs
    Base,           \* the pid of the base shell
    MaxFdLen,       \* MAX_FD_LEN
    MaxNumFiles,    \* MAX_NUM_FILES
    MaxFreq,        \* MAXFREQ
    MinFreq,        \* MINFREQ
    Frequencies,    \* the valid frequencies that programs write
    Sizes,          \* the nbytes that programs pass to read
    MaxPos          \* bound on the position from which programs read

ASSUME DescriptorsAssumption ==
    /\ Base \in Pids
    /\ MaxFdLen \in Nat /\ MaxFdLen > 2 /\ MaxNumFiles \in Nat
    /\ MinFreq \in Nat \ {0} /\ MaxFreq \in Nat /\ MinFreq <= MaxFreq
    /\ Frequencies \subseteq MinFreq..MaxFreq
    /\ Sizes \subseteq Nat \ {0} /\ MaxPos \in Nat

Fd      == 2..(MaxFdLen - 1)    \* START_FD_VAL on
Periods == {MaxFreq \div f : f \in Frequencies \cup {MinFreq}}

\* A descriptor: the device of its fileop, its inode, filepos and present.
Closed(inode) == [fileop |-> "none", inode |-> inode, filepos |-> 0, present |-> FALSE]

VARIABLES
    fdarray,    \* per PCB, its descriptors
    chain,      \* the processes of the terminal, the base shell first
    known,      \* per PCB, what the program takes its descriptors to be: the
                \* name that it opened, or ""
    got,        \* per PCB and descriptor, the bytes that the program has read
    listed      \* per PCB and descriptor, the names that it has read

vars == <<fdarray, chain, known, got, listed>>

Top == chain[Len(chain)]

\* What a program that starts with no descriptor knows.
Nothing == [fd \in Fd |-> ""]
NoneRead == [fd \in Fd |-> <<>>]

Init ==
    /\ chain = <<Base>>
    /\ fdarray = [p \in Pids |-> [fd \in Fd |-> Closed(-1)]]
    /\ known = [p \in Pids |-> Nothing]
    /\ got = [p \in Pids |-> NoneRead]
    /\ listed = [p \in Pids |-> NoneRead]

-----------------------------------------------------------------------------
(* Processes *)

\* A bug for the checks: the table is left as the last process left it.
BugFreshTable(p) == fdarray[p]

\* The table that execute_on_term fills in.
FreshTable(p) == [fd \in Fd |-> Closed(-1)]

\* p's program is new, or gone.
Forget(p) ==
    /\ known' = [known EXCEPT ![p] = Nothing]
    /\ got' = [got EXCEPT ![p] = NoneRead]
    /\ listed' = [listed EXCEPT ![p] = NoneRead]

Start(p) ==
    /\ fdarray' = [fdarray EXCEPT ![p] = FreshTable(p)]
    /\ Forget(p)

Execute ==
    \E p \in Pids \ {chain[i] : i \in 1..Len(chain)} :
      /\ chain' = Append(chain, p)
      /\ Start(p)

\* halt closes what is open.
Halt ==
    /\ Top # Base
    /\ chain' = SubSeq(chain, 1, Len(chain) - 1)
    /\ fdarray' = [fdarray EXCEPT ![Top] =
                     [fd \in Fd |-> IF @[fd].present THEN Closed(0) ELSE @[fd]]]
    /\ Forget(Top)

\* The base shell halts: halt executes another before it closes anything.
RestartBase ==
    /\ Top = Base
    /\ Start(Base)
    /\ UNCHANGED chain

-----------------------------------------------------------------------------
(* System calls *)

Table == fdarray[Top]

Free == {fd \in Fd : ~Table[fd].present}

\* A bug for the checks: open_file does not look up the last entry again.
BugDeviceOpens(d) ==
    d.ftype # "file" \/ (read_dentry_by_name(d.name) # None
                           /\ d.name # Directory[NumDirs].name)

\* open_rtc and open_dir succeed; open_file looks the name up again.
DeviceOpens(d) == d.ftype # "file" \/ read_dentry_by_name(d.name) # None

\* A bug for the checks: the RTC is opened with the frequency for a period.
BugFirstPos(d) == IF d.ftype = "rtc" THEN MinFreq ELSE 0

\* A bug for the checks: the RTC is opened with the position of no file.
BugNoPeriod(d) == IF d.ftype = "rtc" THEN -1 ELSE 0

\* filepos after open: the period of 2 Hz for the RTC, else the beginning.
FirstPos(d) == IF d.ftype = "rtc" THEN MaxFreq \div MinFreq ELSE 0

\* The descriptor is present before the device's open is called, and stays so if
\* that fails; the program is then told -1.
Open(fname) ==
    LET d == read_dentry_by_name(fname) IN
    /\ d # None
    /\ \E fd \in Free :
         /\ \A other \in Free : fd <= other
         /\ fdarray' = [fdarray EXCEPT ![Top][fd] =
                          [fileop |-> d.ftype, inode |-> d.inode,
                           filepos |-> FirstPos(d), present |-> TRUE]]
         /\ known' = [known EXCEPT ![Top][fd] = IF DeviceOpens(d) THEN fname ELSE ""]
         /\ got' = [got EXCEPT ![Top][fd] = <<>>]
         /\ listed' = [listed EXCEPT ![Top][fd] = <<>>]
    /\ UNCHANGED chain

Close(fd) ==
    /\ Table[fd].present
    /\ fdarray' = [fdarray EXCEPT ![Top][fd] = Closed(0)]
    /\ known' = [known EXCEPT ![Top][fd] = ""]
    /\ got' = [got EXCEPT ![Top][fd] = <<>>]
    /\ listed' = [listed EXCEPT ![Top][fd] = <<>>]
    /\ UNCHANGED chain

\* The system call read goes on to the function of the device.
Reads(fd, device) == Table[fd].present /\ Table[fd].fileop = device

\* read_file moves the position by what was asked for.
ReadFile(fd, nbytes) ==
    /\ Reads(fd, "file")
    /\ Table[fd].filepos <= MaxPos
    /\ Readable(Table[fd].inode)
    /\ \E n \in 0..nbytes :
         /\ Returns(Table[fd].inode, Table[fd].filepos, nbytes, n)
         /\ got' = [got EXCEPT ![Top][fd] =
                      @ \o Copied(Table[fd].inode, Table[fd].filepos, n)]
    /\ fdarray' = [fdarray EXCEPT ![Top][fd].filepos = @ + nbytes]
    /\ UNCHANGED <<chain, known, listed>>

\* A bug for the checks: one name too few.
BugMoreNames(filepos) == filepos < MaxNumFiles

\* Whether read_dir returns nbytes, or 0 for the end of the directory.
MoreNames(filepos) == filepos <= MaxNumFiles

\* read_dir copies a name in any case.
ReadDir(fd) ==
    /\ Reads(fd, "dir")
    /\ Table[fd].filepos <= MaxPos
    /\ read_dentry_by_index(Table[fd].filepos) # None
    /\ fdarray' = [fdarray EXCEPT ![Top][fd].filepos = @ + 1]
    /\ listed' = [listed EXCEPT ![Top][fd] =
                    IF MoreNames(Table[fd].filepos + 1)
                      THEN Append(@, read_dentry_by_index(Table[fd].filepos).name)
                      ELSE @]
    /\ UNCHANGED <<chain, known, got>>

\* write_rtc; a write to a file or a directory changes nothing.
Write(fd) ==
    /\ Table[fd].present /\ Table[fd].fileop = "rtc"
    /\ \E f \in Frequencies :
         fdarray' = [fdarray EXCEPT ![Top][fd].filepos = MaxFreq \div f]
    /\ UNCHANGED <<chain, known, got, listed>>

Next ==
    \/ Execute \/ Halt \/ RestartBase
    \/ \E fname \in Names : Open(fname)
    \/ \E fd \in Fd :
         \/ Close(fd) \/ ReadDir(fd) \/ Write(fd)
         \/ \E nbytes \in Sizes : ReadFile(fd, nbytes)

Spec == Init /\ [][Next]_vars

-----------------------------------------------------------------------------
(* Properties *)

Descriptor == [fileop : Type \cup {"none"}, inode : Inode \cup {-1},
               filepos : Nat, present : BOOLEAN]

TypeInv ==
    /\ fdarray \in [Pids -> [Fd -> Descriptor]]
    /\ chain \in Seq(Pids) /\ chain # <<>>
    /\ known \in [Pids -> [Fd -> Names \cup {""}]]
    /\ got \in [Pids -> [Fd -> Seq(Byte)]]
    /\ listed \in [Pids -> [Fd -> Seq(Names \cup {""})]]

Live == {chain[i] : i \in 1..Len(chain)}

\* A program's open descriptors are exactly those that it was given and has not
\* closed: none is taken by an open that finds the table full, none inherited from
\* the process that had the PCB before; and each calls the functions of the file
\* that was opened (syscall.c:543-605, 238-270).
DescriptorsMatch ==
    \A p \in Live : \A fd \in Fd :
      LET d == fdarray[p][fd] IN
      /\ d.present <=> known[p][fd] # ""
      /\ d.present => /\ d.fileop = read_dentry_by_name(known[p][fd]).ftype
                      /\ d.inode  = read_dentry_by_name(known[p][fd]).inode

\* What a program has read from a file, by reads of any sizes, begins with all
\* bytes of the file before its position, in order: no read skips, repeats or
\* falls short before the end (filesys.c:97-152, 197-214).
ReadsDeliverTheFile ==
    \A p \in Live : \A fd \in Fd :
      LET d == fdarray[p][fd] IN
      d.present /\ d.fileop = "file" =>
        \A k \in 0..(Length[d.inode] - 1) :
          k < d.filepos => /\ k < Len(got[p][fd])
                           /\ got[p][fd][k + 1] = Place(d.inode, k)

\* filesys.c:85-89 and 142: read_data reads "up to length bytes" from the file and
\* keeps the offset "within bounds": no byte comes from behind the file's end.
ReadsStayInFile ==
    \A p \in Live : \A fd \in Fd :
      fdarray[p][fd].present /\ fdarray[p][fd].fileop = "file" =>
        Len(got[p][fd]) <= Length[fdarray[p][fd].inode]

\* Reading a directory to its end gives the name of every entry, once and in
\* order, when there are MAX_NUM_FILES of them (filesys.c:270-309).
ListsEveryName ==
    \A p \in Live : \A fd \in Fd :
      fdarray[p][fd].present /\ fdarray[p][fd].fileop = "dir" =>
        /\ Len(listed[p][fd]) <= NumDirs
        /\ \A k \in 1..NumDirs :
             k <= fdarray[p][fd].filepos =>
               k <= Len(listed[p][fd]) /\ listed[p][fd][k] = Directory[k].name

\* The position of an RTC descriptor is a period at all times, from open on: what
\* read_rtc waits for (rtc.c:128, 171 and 200).
RtcPeriodKept ==
    \A p \in Live : \A fd \in Fd :
      fdarray[p][fd].present /\ fdarray[p][fd].fileop = "rtc" =>
        fdarray[p][fd].filepos \in Periods

=============================================================================
