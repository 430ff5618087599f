# FaultOS: TLA+ models, checks and proofs

FaultOS is a small x86 kernel (`src/student-distrib`): three text terminals
on one screen, at most six processes, a round-robin scheduler driven by the
PIT, ten system calls, a read-only file system in memory, a keyboard and a
virtualised real-time clock.  This directory holds a model of it in TLA+, the
configurations with which TLC checks the model on small instances, and theorems
that TLAPS proves for every instance.

Paths below are relative to `src/student-distrib/`.

## 1. The system and its components

Everything runs on one CPU, in one address space per process.  What makes it
concurrent is the interrupts.  The gate of `int 0x80` is a trap gate
(`IDT.c:365-378`): **a system call runs with interrupts enabled**, so the PIT
can take the CPU away from it at any instruction and give it to another
terminal, which may be in the middle of a system call of its own.  There is no
lock; sections are protected only by `cli`/`sti`.  The gates of the PIT, the
keyboard, the RTC and the exceptions are interrupt gates: a handler is not
interrupted (`rtc_handler` executes `sti` as its last statement, where only its
epilogue is left).

| Component | Code | State | Operations | Status |
|---|---|---|---|---|
| Processes and scheduling | `syscall.c`, `scheduler.c`, `terminal.c` | `currpid`, `baseShellFlag`, `processesid[6]`, `cur_PCB` and `savedt_esp` of each terminal, the PCBs, `page_directory[32]`, `tss.esp0`, `terminalrun`, `currTerminal` | `execute`, `execute_on_term`, `find_available_pid`, `halt`, `pit_handler`/`scheduler`, `terminal_switch` | modelled |
| Line input | `keyboard.c`, `terminal.c` | `keyboardbuffer`, `enterflag`, `charcount`, `keyboardbuffersize`, modifier flags, `currkey` and `terminalbuffer` of each terminal | `keyboard_handler`, `terminal_read`, `terminal_write`, `terminal_switch` | modelled |
| Console output, video pages | `lib.c`, `terminal.c`, `keyboard.c`, `syscall.c`, `paging.c` | `screen_x/y`, `cursor_x/y` per terminal, the video page and three backing pages, `page_table`, the display's cursor | `putc`, `putc2`, `putc2Keyboard`, `scroll`, `scrollKeyboard`, `clear`, `terminal_write`, `terminal_switch`, `vidmap` | modelled |
| Virtualised RTC | `rtc.c` | `currRTC` per terminal, the period kept in a descriptor | `rtc_handler`, `open_rtc`, `close_rtc`, `read_rtc`, `write_rtc`, `rtc_set_freq` | modelled |
| File descriptors | `syscall.c` | `fdarray[8]` of each PCB | `open`, `close`, `read`, `write`, set-up in `execute`, tear-down in `halt` | modelled |
| File system | `filesys.c` | a read-only image, `filepos` of a descriptor | `read_dentry_by_name/index`, `read_data`, `read_file`, `read_dir` | modelled |
| Interrupt controller | `i8259.c` | `master_mask`, `slave_mask`, the two chips | `i8259_init`, `enable_irq`, `send_eoi` (`disable_irq` is never called) | modelled |
| Boot | `kernel.c`, `boot.S` | how far it has come | the initialisations, `sti`, the idle loop | order modelled |
| Exceptions and linkage | `IDT.c`, `*.S` | the IDT | print a message, `halt(HALT_CODE)` | vectors, what they do to processes, and what they print over a screen (`Screens`) |
| Paging | `paging.c` | page directory and tables | filled once; entry 32 and the video entries change | the entries that change |
| Rest of the library, tests, user programs | `lib.c`, `tests.c`, `../syscalls`, `../fish` | | | not modelled, see section 12 |

How they interact:

* The **scheduler** (in the PIT handler) saves the stack of the terminal that
  has the CPU, picks the next terminal, starts its base shell if it has none, and
  otherwise loads its page and kernel stack and resumes its saved context.
* **execute** and **halt** hand each other data in globals: `currpid` carries the
  new pid from `execute` to `execute_on_term`, `baseShellFlag` asks for a base
  shell.  The scheduler uses `currpid` too.
* The **keyboard handler** calls `terminal_switch` on Alt-F1..F3, which
  changes `currTerminal`; `execute` and `terminal_read` spin until `currTerminal`
  is the terminal they run on.  It fills `keyboardbuffer`, which
  `terminal_read` empties, and echoes to the cursor that `terminal_write` moves.
* The **RTC handler** counts in every terminal that has a reader; `read_rtc` spins
  on the count of its own.

What is hard, component by component, and what correctness means there:

* *Processes*: every interleaving of launches, exits, scheduler turns and
  Alt-Fn.  The slots in use are those of live processes; each terminal's
  processes are a chain down to its base shell; the page and stacks in use are
  those of the process that runs; `halt` returns into the `execute` that launched
  the program; no two threads share a kernel stack; launches end.
* *Line input*: the handler between any two steps of `terminal_read`, lines
  typed ahead, Backspace and Ctrl-L after Enter, a full buffer, a switch of
  terminals in mid-line or with a complete line unread.  A line read is a line
  typed on that terminal; a completed line is delivered.
* *Console*: what a terminal writes lands on its own screen whether it is visible or
  not, and though a switch, a key or another terminal comes in the middle of a
  character; a switch loses nothing; the display's cursor is that of the
  terminal shown.
* *RTC*: `read_rtc` returns after the right number of interrupts, and does return,
  whatever other terminals read at the same time.
* *Descriptors*: none leaks, none is inherited from the process that had the PCB
  before, each works on the file that was opened.
* *File system*: reads of any sizes deliver a file's bytes in order, across blocks
  and at the end; reading a directory gives every name.
* *Interrupts*: each reaches its own handler, which is set up by then; each is ended
  on the chips that hold it before interrupts are on again; the masks are those
  of the calls made, also when `enable_irq` runs with interrupts on.

`PROJECT.json` lists the hazards of this code line by line, with the properties
that cover them.

## 2. The modules

| Part | Abstract | Detailed | Instances | Proofs |
|---|---|---|---|---|
| Processes | `ProcessForest` | `Processes`, `ProcessesInv` | `MCProcesses` | `ProcessesProofs`, `ProcessesSerialProofs`, `ProcessesForestProofs` |
| Line input | `LineDiscipline` | `LineInput`, `LineInputInv` | `MCLineInput` | `LineInputProofs`, `LineDisciplineProofs` |
| Clock and interrupts | `VirtualTimers` | `Rtc`; `Interrupts` composes it with the chips, the PIT and the boot; `InterruptsInv` | `MCInterrupts` | `ClockProofs` |
| Files | | `FileSystem` (functions of the image), `Descriptors` | `MCDescriptors` | `DescriptorsProofs` |
| Screens | `want`, a history variable | `Screens` | `MCScreens` | `ScreensProofs` |

What is left to do, most important first: what a user of `ProcessForest` and `LineDiscipline` may rely on, as
theorems of those modules; the refinement of `Rtc` by `Interrupts` repeated for `LineInput` and `Screens`, whose threads
take their steps in any order where the turns of `Processes` would choose one.

## 3. Processes: how the model corresponds to the code

One thread of control per terminal.  `terminalrun` has the CPU; the others
wait with their frames on a kernel stack.  A kernel stack is named by the pid it
belongs to (each is at 8 MB - 8 KB * pid), and so is the 4 MB page of a program.

| Model | Code |
|---|---|
| `terminalrun`, `currTerminal`, `currpid`, `baseShellFlag`, `processesid` | the globals of these names |
| `cur_PCB[t]` | `terminalArray[t].cur_PCB`, by pid |
| `parent_id`, `termid`, `saved_esp`, `active` | fields of the PCB of a pid; `saved_esp` is the stack the saved pointer is on |
| `mapped`, `tss_esp0` | the frame in `page_directory[32]`; `tss.esp0`; by pid |
| `pc[t]`, `kstack[t]` | where thread t is; the stack its frames are on (this includes `savedt_esp` while it waits) |
| `term`, `slot`, `status`, `retval`, `args_esp`, `restarting` | locals of `execute_on_term`, `find_available_pid` and `halt` on t's stack |

**Grain.**  Inside `execute`, with interrupts enabled, each access to a variable
that another thread or handler uses is an action: the spin on `currTerminal`
(`ExecGate`), its second read (`ExecFound`), the two halves of the test at
line 168 (`ExecCheckPid`, `ExecCheckFlag`), each slot read by
`find_available_pid` (`ScanSlot`), taking it (`TakeSlot`), the assignment to
`currpid` (`AssignPid`), reading `baseShellFlag` again and setting `currpid` for a base shell (`ExecElse`,
`ExecBase`), `ClearFlag`.  From `cli` to `iret` is one
action (`Load`).  `halt` is one action from `cli` to `sti` (`Halt`), then the
jump to the saved frame (`HaltReturn`) and the return to user mode
(`ExecReturn`).  `halt` of a base shell (`BaseExit`) calls `execute` again inside
itself; if that fails it runs on with `parent_id` -1 (`RestartFailed`) and
faults.  The scheduler and `terminal_switch` are interrupt handlers, one action
each: `ContextSwitch`, `BootShell`, `SwitchTerminal`.

**Abstractions.**  The lookup of the file is a choice of found or not found; the
argument, the copy of the program and the descriptors are left out; a program
may make any call, or fault, at any time; `pc = "wild"` is a thread that has
crashed the kernel (it is not followed further).  `RestartFailed` is one step, although interrupts are on
there: it only leads to the crash.  `halt` gives up when it cannot close a descriptor (`syscall.c:399-400`); that is left
out, since the closes of files, directories and the RTC always return 0.  Video memory, descriptors
and line input belong to other modules.

**The discipline.**  The kernel has no lock, and without one several of its
properties do not hold (section 9).  The model says precisely what it
takes: the constants `Overlap` and `MaxSwitches`.  An operation in `Overlap`
(`"launch"`, `"exit"`) happens whenever the hardware lets it; one that is not
happens only while every thread is in user mode.  Alt-Fn while some thread is in
the kernel happens at most `MaxSwitches` times.  With `Overlap = {}` and
`MaxSwitches = 0` (`Disciplined`), launches and exits happen one at a time, as
under a lock, while PIT ticks still come at every point.  That is how a person
at one keyboard uses the machine, and it is the assumption of the theorems that need one.  A
launch or a base-shell exit is then started on the visible terminal, where a user
types it; elsewhere it would spin until the user comes.

`ProcessForest` is what a user is promised: three stacks of processes; a turn
passes the CPU round; a launch pushes a free pid on the running stack; an exit
pops it; a base shell is restarted in place.  No slots, globals, pages, stacks or program
counters.

## 4. LineInput: how the model corresponds to the code

`keyboardbuffer`, `enterflag`, `charcount`, `keyboardbuffersize`, `currTerminal` and
the per-terminal `currkey`, `terminalbuffer`, `cursor_x` have the names of
the code.  `pc`, `nbytes`, `idx` (first `i`, then `j`), `count` and `buf` are what
a thread inside `terminal_read` has on its stack; `nullflag` is `count # BufferSize`.

**Grain.**  The keyboard handler runs with interrupts off, so a key is one
action, all the way through the handler: `PressChar`, `PressTab`, `PressBackspace`,
`BackspaceAtEdge` (where no case of the Backspace code applies and control
falls through to entering a character), `PressCtrlL`, and `SwitchTerminal`
for Alt-F1..F3.  `terminal_read` runs with interrupts on: each access to
a shared variable is an action, from the two tests of line 57 (`ReadWait`, `ReadFlag`)
through the copy (`ReadTest`, `ReadCopy`), the search for the newline (`ReadScan`) and the
clearing (`ReadClear`) to the three last assignments (`ReadReset`, `ReadLower`,
`ReadReturn`).  Any key, and any thread of another terminal, comes between two of
them.  `terminal_write` is the two moments at which it matters to line input:
`charcount = 0` at its start, and its end, at which the cursor is wherever
the output has left it and `keyboardbuffersize` is zeroed.

**Abstractions.**  A key is what the handler makes of it with the modifier
flags as they are: a printing character, Enter, Tab, Backspace with and without Shift
(which enters a blank), Esc for every key whose entry in the character map
is `'\0'`, Ctrl-L.  Of the cursor only the column is kept, which is what the Backspace
code tests; drawing is in `Screens`.  A search that leaves the buffer ends in `pc = "wild"`.
Which thread has the CPU is not modelled: any thread may take the
next step, which allows every schedule the PIT can produce, and a thread that runs finds
`terminalrun` to be its own terminal, since the scheduler sets it.

**The habits.**  The line discipline does not hold for every typist and every
program, and the constant `Habits` says precisely what may happen.  `"ahead"`: keys come while a
completed line is unread; `"switch"`: Alt-Fn comes at such a time, or
between the two tests of line 57; `"edge"`: Backspace where no case of the code
applies; `"preempt"`: another terminal's `terminal_write` ends while a read
searches for its newline.  The last is the scheduler's, not the typist's, and `line_discipline`
has it: a search whose index is zeroed begins again.  Only `line_live` goes without: it
takes a PIT tick within the few hundred instructions of the search, and the end of a write on the terminal that
gets the CPU, and only if that happened in every search for ever would a read not return.

`LineDiscipline` is what a user is promised: each terminal has a line; keys edit
the line of the terminal shown until Enter completes it; a read takes a
complete line whole and returns it; a terminal not shown keeps its line.  `LineInput` maps to it by
`LineOf` (what the buffer holds up to `currkey`, until a read has copied it) and `TakenBy`
(what a read has copied and not yet returned).

## 5. Rtc and Interrupts: how the models correspond to the code

`Rtc` has the threads of the terminals and the RTC's handler (`Tick`), and knows
nothing of the scheduler: any thread may take the next step, and so may the
handler, except where interrupts are off.  `currRTC` has the name of the code and wraps at
`Word` (an `unsigned int`; `Idle` is its -1), `filepos` is that of the RTC descriptor of
the program on a terminal, 0 when it has none, `target` is `target_freq`.  `read_rtc` is
three steps: up to its `sti` (`ReadBegin`), the polling loop (`ReadLeave`; iterations that stay in the
loop change nothing), and the last `cli`/`sti` (`ReadFinish`).  `rtc_set_freq` returns from its
default case without `restore_flags`: `WriteInvalid` leaves interrupts off, until the
system call returns and the program has its own flags again (`WriteReturn`).
`ChangeProgram` stands for `execute` and `halt`: another program, another descriptor.

`VirtualTimers` is what a program is promised: a timer per terminal, an
interrupt counts for every reader, a read returns when none is left.

`Interrupts` says when the handler runs, from power-on.

| Model | Code |
|---|---|
| `BootOrder`, `BootStep` | `entry`: `file_init`, `init_IDT`, `i8259_init`, `rtc_init`, `keyboard_init`, `init_page`, `terminal_init`, `pit_init`, `sti`, `enable_irq(0)`; the last is two steps, since it runs with interrupts on |
| `i8259Writes`, `MaskWrites`, `EoiWrites` | the bytes written by `i8259_init`, `enable_irq`, `send_eoi`, port by port, bit by bit |
| `mask` | `master_mask`, `slave_mask` |
| `IdtEntry`, `Gate` | `init_IDT`; before it, nothing is there to be entered |
| `running` | `terminalrun`; `Boot` (-1) is the stack of `entry`, which the first tick leaves for good |
| `handler`, `windows` | a handler before it has ended its interrupt; handlers of the RTC behind their `sti`, per thread |
| `regC` | the RTC does not interrupt again before its register C is read |

The chips, the devices and the CPU's acknowledge cycle are external: `Command` and `Data` are what an
8259 does with the bytes this kernel writes (ICW1 to 4, the mask, the specific end of
interrupt), `Pending` and `Highest` its priorities, `Accept` the acknowledge cycle, with
the vector from ICW2.

`i8259_init` sends the master's ICW4 to the slave's data port (`i8259.c:43`).  So the master still waits for
ICW4 when `i8259.c:52` writes the mask 0xFF, and takes that for it: automatic end
of interrupt, special fully nested mode, and no line masked.  The model shows that this does no
harm in the order of this boot: the first `enable_irq` writes the mask again, before interrupts are on,
and every end of interrupt the kernel sends finds the master with nothing in service.

Handlers are one step each, in the order of the code; only the RTC's ends with
interrupts on, so that any interrupt may come before its `iret` (`RtcReturn`).  `MaxNest`
bounds how many such windows one thread is in, `MaxKeys` the keys pressed.

## 6. FileSystem and Descriptors: how the models correspond to the code

The image is a constant: a directory, lengths and blocks of inodes.  A byte is named by its
block and its place in it, so that what a read delivers tells where it came
from.  `Returns` is the value of `read_data`: the first count at which its two loops
end, by the tests of lines 126 and 143, and, at the beginning of a block, those of lines 129
and 134.  Both lookups are operators, with the bound of line 71 and the second lookup of
`open_file`.

`Descriptors` has the tables of the PCBs of one terminal's processes.  A process uses its own table
only, and only while its terminal has the CPU, so one terminal stands for
three.  The chain of processes is that of `Processes`, top running; a PCB that is used
again still holds what the last process left.  `Open` marks the descriptor present before the
device's open is called, and leaves it so if that fails; `FirstPos` is what `open` and `open_rtc` together
leave in `filepos`; `ReadFile` moves the position by what was asked for; `ReadDir` moves it and
then compares with `MAX_NUM_FILES`.  `RestartBase` is `halt` of a base shell, which executes
another before it closes anything.  `known`, `got` and `listed` are the program's side: what it
opened, and the bytes and names it has received.

A call that fails and changes nothing is not an action.  Descriptors 0 and 1 never
change.  Names are compared as wholes; the 32-byte fields are left out.

## 7. Screens: how the model corresponds to the code

`phys` are the physical pages: `Video`, which is shown, and the page of each
terminal; `table` is where the page table leads the virtual page of a terminal;
`cursor` is `cursor_x`, `cursor_y` as a cell; `screen` is `screen_x`, `screen_y`; `crt` is the
display's cursor.

**Grain.**  `putc2` runs with interrupts on.  Its steps are: reading the cursor (`PutStart`), writing the
character where the page table leads (`PutWrite`), the scroll, for each cell
setting `screen_x`, `screen_y` (`ScrollSet`) and copying to wherever they point by then
(`ScrollCopy`), the test of `currTerminal` (`PutTest`), moving the display's cursor (`PutUpdate`), storing the
terminal's (`PutStore`).  Any step of another terminal, any key and any exception comes between two of them.
The keyboard handler's part is one step per key: `Echo`, `Backspace`, `Clear` (Ctrl-L), `Switch`
(Alt-Fn), the copies and mappings of `terminal_switch` in the order of the code.  `Draw`
is a program that writes to its `vidmap` page.  `Fault` is an exception, whose handler runs with interrupts
off: it prints its line with `printf` and `putc`, which know no terminals.  They write to the page `VIDEO`, so that the
message appears on the terminal that is shown, whichever raised the exception, and at `screen_x`, `screen_y`, which is
where the last switch, message or scroll left them and not where anything was written last; a message that reaches the end of its row goes
on at the beginning of the same row, and it leaves `screen_x` moved, also for a scroll it interrupts.

**History.**  `want` is the screen and cursor that a terminal should have: every character, echo,
erasure, drawing and message applied in one step.  Some overlaps do harm in this code, and three more history
variables say precisely which.  `raced`: a key changed the terminal while its
program was in `putc2` (both use the same cursor).  `marred`: in its scroll, between setting
`screen_x`, `screen_y` and the last use of them, a switch, another terminal's scroll or an exception moved them; or
a message came on it after its `putc2` began and before it had changed the page.  Ctrl-L starts
both afresh, outside a `putc2`.  What mars a text leaves the cursor right, and `ScreenIsText` says so.
`astray`: the last switch came between the test of a `putc2` and its end.  Each condition is needed: without
any one of them TLC finds the overlap in a few steps.

**Abstractions.**  Attributes are left out, and `' '` and `'\0'` are one blank.  A tab is four
spaces.  The four port writes of `update_cursor` are one step; so are, in a scroll, the two stores that set `screen_x`,
`screen_y`, and the reading and writing of a cell: an overlap between them counts as one with `ScrollCopy`.  The characters
of messages are one character, `Message`, and no message is longer than a row.  The pages
`VIDEO_T1..T3` start blank, though nothing clears them.  A scroll that was raced reads
behind the bottom row; what is there can be any character.  Whether there is something to
erase is LineInput's matter.

## 8. What the passing runs show

| Run | Instance | Shows |
|---|---|---|
| `serial` | 3 terminals, 6 pids (the kernel's sizes), disciplined | `SerialInv` is invariant, and so are the chains of processes, the slots, the mapped page, the stacks; launches take free pids, restarts keep the base pid, an exit takes down only the top, a resumed program is the mapped one |
| `forest` | 3 terminals, 5 pids, disciplined, fair | `Processes` implements `ProcessForest` with its fairness; launches complete; every terminal gets its shell |
| `overlap` | 2 terminals, 3 pids, launches overlapping everything, 1 Alt-Fn in the middle | even so pids stay in range, and base shells are told from programs (this run takes every action, the crash paths included) |
| `line_discipline` | 2 terminals, a buffer of 3, every editing key, whole-line reads, no habit but `"preempt"` | `LineInv` is invariant, and `LineInput` implements `LineDiscipline`: no character is lost, doubled, reordered or given to another terminal |
| `line_live` | the same, keys a and Enter, no habits, fair | every line taken is returned; a waiting read is answered once its terminal stays visible |
| `line_any` | 1 terminal, a buffer of 3, every key, `"ahead"` and `"edge"`, reads of 2 bytes and of more than the buffer | no index leaves its buffer (`TypeCorrect` proves it for any number of terminals and all habits) |
| `clock` | 2 terminals, 4 interrupts a second at most and frequencies 3 (invalid) and 4, one key, one window per thread, fair | no interrupt is lost in boot or goes astray, none stays in service where interrupts are on, the masks end up as meant, the timers are kept, every terminal runs, and every read returns |
| `files` | 2 PCBs, 2 descriptors each, blocks of 2 bytes, a file of 3 in two blocks out of order, an empty file, a directory of 4 names, the RTC; reads of 1, 2 and 3 bytes | the tables are what was opened; files and names are delivered whole and in order |
| `screens` | 2 terminals, 2 by 2 cells, 3 characters, drawings or exceptions, 3 keys | screens and cursors are what was written, but for the overlaps named |

The instances of Processes are large enough: two terminals suffice for every race between
two threads, and three (the real number) for the order of boots and turns; with
two or three user pids slots run out, chains reach the depth of four processes,
and two terminals compete for the last slot.  `Statuses` is {15}, because the
status decides nothing but the value returned.  In the overlapping runs
`MaxSwitches` bounds the number of Alt-Fn in mid-operation, no bound limits
the length of a run.

Those of LineInput: a line of three places has a first one, a middle one and the
one reserved for the newline, a tab (of two) fits at the start only, and a screen of
one or two columns puts the cursor at the left edge, past a wrap and inside a tab.
`MaxCount` bounds `charcount` up and down at the length of the buffer: no line is longer, and
between writes it only sums the keys of a few lines.  `Requests` are smaller than a line and
larger than the buffer.  A second terminal is needed where something is carried across a
switch, and there a third would only wait like the second.

In `clock`, two readers suffice for sharing one handler; periods are 1 and 2 interrupts, so that one reader
waits while the other returns; `Word` = 4 lets the counter of a reader that is kept waiting come to its end.
In `files`, a read can begin in the middle of a block, cross to the next, end at the end of the file and go
beyond; a second PCB is used again after its process ended; two descriptors can run out.  Positions beyond
`MaxPos` are only reached, not read from.  In `screens`, one row scrolls into the other, a character wraps, and
three characters fill a row and scroll; a message of two wraps in its row; three keys are a switch, a key there, and a switch
back; more of both only repeats.  `ScreensProofs` and `DescriptorsProofs` are without any of these bounds.

**Fairness** of Processes (`FairSpec`): weak on `Tick`, since the PIT is programmed once and
never stopped; strong on the kernel steps of each thread, since a thread gets the CPU
again and again and a time slice (10 ms or more) is many instructions long.  A
thread is not enabled while another has the CPU, hence strong.  Nothing is assumed
of programs or of the user, who may stop typing.

**Fairness** of LineInput: weak on the kernel steps of each thread, which the
model enables until they are taken; the round robin gives every thread its turns.
Neither the typist nor a program owes a step.

**Fairness** of Interrupts: weak on the handlers, which run with interrupts off, and on the RTC's requests, since the
device runs for ever; strong on the PIT's, on the acknowledge cycle, on a thread's return
from a handler and on what it does in the kernel or in boot, all of which other interrupts
disable again and again: a handler is far shorter than the time between two interrupts.  A tick is
requested only when nothing that was requested is waiting, which 10 ms are enough for.  Nothing is
assumed of programs or keys.

`CHECK_DEADLOCK` is on in the disciplined runs, in all passing runs of LineInput, in `clock` and in `files`.  The overlapping
runs switch it off: a crashed thread with interrupts off is where the model stops.  So does `screens`, where
`MaxPuts` and `MaxKeys` end it.

## 9. What the violation runs show

Each checks one sentence of the code's own comments and finds a
shortest behaviour in which the code does otherwise.

| Run | The comment | The code |
|---|---|---|
| `stack_reuse` | `scheduler.c:74`, the stack pointer is saved so that one can return to it | `halt` enables interrupts on a stack whose pid is free |
| `line_edge` | `keyboard.c:294`, the case of a character at the left edge | behind a prompt a line wraps before `charcount` says so; Backspace then enters a NUL |
| `past_end` | `filesys.c:85-89` and 142, up to length bytes from the offset, within bounds | a read from the middle of a file goes on behind its end, to the end of the block |

The first needs two operations to overlap within a few microseconds; the others need
neither that nor a second terminal.

The same models show the following disagreements, each by checking the
definition named instead, as an invariant or, where marked, a property, with these
changes to a configuration:

| Definition | Configuration | Comment and code |
|---|---|---|
| `CheckSeesPid3` | `ProcessesStack`, `Overlap = {"launch", "exit"}` | "after init 0->2 always pid 3 for max processes check" (`syscall.c:43`): another terminal's `halt` changes `currpid` before line 168 reads it |
| `ResumesOwnProgram` (property) | `ProcessesStack`, `Overlap = {}`, `MaxSwitches = 1` | "Switch execution to current terminal's user program" (`scheduler.c:89`): Alt-Fn between the two reads of `currTerminal` in `execute` puts the process in the other terminal |
| `RestartKeepsBasePid` (property) | `ProcessesStack`, `MaxProcesses = 5`, `Overlap = {"launch", "exit"}` | "those pids are for base shell" (`syscall.c:216`): another terminal's `execute` changes `currpid` before the restarted shell is loaded (`syscall.c:190`) |
| `BootInOrder` (property) | `ProcessesStack`, `MaxTerminals = 3` | "init the 3 terminals" (`scheduler.c:84`): a program launched before the third terminal's first turn has changed `currpid` |
| `HaltDeliversStatus` | `ProcessesStack`, `Statuses = {3, 15}`, `Overlap = {}` | "returning the specified value to its parent process" (`syscall.c:338`): every status but 15 arrives as 0 |
| `ScanFindsNewline` | `LineEdge`, `NumCols = 4`, `EdgeMargin = 0`, `Habits = {"ahead"}` | "waiting for an enter key from user to return with their input" (`terminal.c:55`): Backspace after Enter leaves `enterflag` set and takes the newline away |
| `EnterIsAnswered` (property) | `LineLive`, `Habits = {"switch"}` | the same comment: `terminal_switch` clears `enterflag` of a line not yet read (`terminal.c:136`) |
| `ReadEndsWithEnter` | `LineEdge`, `NumCols = 4`, `EdgeMargin = 0`, `Habits = {}`, `Keys` with `"escape"` | the same comment: Esc in mid-line enters a NUL, at which the read ends |
| `CountIsBytesRead` | `LineEdge`, `NumCols = 4`, `EdgeMargin = 0`, `Habits = {}`, `Requests = {1}` | "number of bytes read" (`terminal.c:42`): a read of no more bytes than the line has returns 128 |
| `InitMasksAll` | `Clock`, `SPECIFICATION Spec` | "masks all interrupts" (`i8259.c:19`): the mask is taken for the ICW4 that line 43 sent elsewhere |

Read off the code while modelling, without a run: `read_dentry_by_index` refuses index 62 of "63
indexes" (`filesys.c:71-72`); `write_rtc` returns 0 for an invalid frequency where its
description has -1 (`rtc.c:182`, 197); `read_dir` ends after 17 names whatever the directory holds
(`filesys.c:306`), so `ListsEveryName` is about images with as many names as `MAX_NUM_FILES`; an exception's message is
printed over the text of the terminal that is shown, although another terminal's program raised it (`lib.c:615`).

## 10. What is proved

`ProcessesProofs`, for every number of terminals and pids and every interleaving:

* `TypeCorrect`: every variable has its type.  The inductive strengthening is
  `TypeInv`: the slot in hand is a user pid, a thread in the kernel has a process,
  `currpid` reaches `MAX_NUM_PROCESSES` only in a crash.
* `BaseHasNoParentCorrect`, from `ParentInv`: a user pid without a parent was never
  loaded, and nothing refers to it.

`ProcessesSerialProofs`, assuming `Disciplined`:

* `SerialInvCorrect`: `Spec => []SerialInv`.  None of the properties is
  inductive alone.  That `halt` returns to its parent's stack needs to know where
  every waiting thread's frames are; that needs to know that a thread that is not
  in the kernel is in user mode with its frame on its own process's stack; that
  needs the mapped process to be the top one, which needs the terminal in `termid`, and so
  on.  `SerialInv` says it all at once, for every interruptible point: one thread at most
  is in the kernel (`OneInKernel`), the boot goes round in order (`BootOrder`), what a launch has
  established at each line (`LaunchState`), who owns `baseShellFlag`
  (`FlagOwned`), the slots (`SlotInv`), the links (`Tree`), the stacks (`Stacks`).
* `SlotsExactCorrect`, `RunningIsMappedCorrect`, `HaltReturnsToParentCorrect`,
  `StacksApartCorrect` follow from it.

`ProcessesForestProofs`, assuming `Disciplined`: the action properties
(`LaunchTakesFreePidCorrect`, `RestartKeepsBasePidCorrect`,
`ResumesOwnProgramCorrect`, `ExitTakesOnlyTopCorrect`) and `ForestRefined`, that
every behaviour of `Processes` is one of `ProcessForest`: `ContextSwitch` and
`BootShell` map to a turn or the start of a shell, `Load` to a launch or a restart, `Halt` to an exit,
every other step to a stutter.

There too `ProcessChainsCorrect`: unwinding a terminal meets its live processes and no other.  `SerialInv` has the
links one by one, and does not exclude a ring of processes apart from the rest, nor one that nobody's chain
meets.  `ChainInv` does: among any live processes one has no child among them (`NoCycle`), and one that is not on top
has a child (`NoneLost`).  That `Chain(t)`, a recursive function, then comes to its end within `MaxProcesses` steps
and has met every process is an induction on the depth and the pigeonhole principle.  The induction is done over sets
(`SetInduction`), from the library's theorem that a set of naturals has a least element.

`LineInputProofs`, for every number of terminals, every buffer, tab and screen
size, all keys and all habits: `TypeCorrect`, that `TypeInv` is invariant.  Its strengthening of the types is what
each program point knows of `idx`; the bound of `currkey` comes from the two guards that
reserve the last place and from Backspace's guard at 0.

`LineDisciplineProofs`, for every number of terminals and any sizes, assuming `Disciplined` of `LineInputInv`:

* `LineInvCorrect`: `LineInv` is inductive, together with the types.  `AtRest` says what a buffer and its flag are
  when nobody takes the line; from `Copied`, what has been copied by then, follows `Result`; the clauses of the
  clearing steps say how far the buffer is empty.  One thread at most is past the flag, the visible terminal's
  (`OneReader`), which is why the handler and the other threads leave a read alone.
* `LineAsCommented`: `ScanFindsNewline`, `ReadEndsWithEnter` and `LineHasNoGap`, which other habits break
  (section 9), hold of this typist.
* `LinesRefined`: every behaviour is one of `LineDiscipline`.  A key maps to an edit of the visible line, the step from
  copying to clearing takes the line, `ReadReturn` returns it, and every other step of a thread is a stutter.

`ClockProofs`, for every number of terminals and all frequencies, first under any schedule (of `RtcSpec`): `RtcTypeCorrect`,
`CountsForReadersOnlyCorrect`, and `TimersRefined`, that `Rtc` implements `VirtualTimers`.  The invariant behind them,
`RtcInv`, adds to the types that the target of a reader is a period.  `Tick` maps to an interrupt, `ReadBegin` and
`ReadFinish` to the beginning and the end of a wait, every other step to a stutter.

Then for `Interrupts`, with any number of interrupts, keys and nested handlers:

* `ClockInvCorrect`: `TypeInv`, `RtcInv` and `MachineInv` together are inductive.  That nothing is in service where
  interrupts are on needs to know what an end of interrupt does, which depends on what the chips took the
  boot's bytes for; and a handler finds its device set up only because its line was masked, or interrupts
  off, until then.  So `MachineInv` says what the chips hold after each step of the boot, the automatic end of
  interrupt that the master took from a mask included (`Programmed`), and where the CPU may be meanwhile
  (`Cpu`): in no handler before `sti`.  The proof computes each sequence of writes of `i8259.c` on the chips.
* `InterruptsTypeCorrect`, `MachineInvCorrect`, `HandlersReadyCorrect`, `OwnHandlerCorrect`, `NothingInServiceCorrect` and
  `MasksMirrorCorrect` follow from it.
* `RtcImplemented`: every step of `Interrupts` is one of `Rtc` or leaves its variables alone, `Spec => RtcSpec`.  So
  `ReadersOnlyUnderInterrupts` and `TimersUnderInterrupts`: the timers are kept under the interrupts as they come.

`DescriptorsProofs`, for every image, any block size, any number of PCBs and descriptors, and reads of any
size:

* `ReadDataReturns`, `ShortOnlyAtEnd` and `LoadIsExact`, about `read_data` alone: its loops end, with one result; short of
  what was asked for only at the end of the file; and from the beginning with exactly what there is.
* `TypeCorrect`, `DescriptorsMatchCorrect`, `ReadsDeliverTheFileCorrect`, `RtcPeriodKeptCorrect`.  The inductive invariant
  `IInv` says of every descriptor of every PCB, used or not, that it is `Good`: it is the file its program opened; every
  byte before its position has been received, and exactly as many as the position says while that is inside the file,
  which a read that begins behind the end could not repair.
* `ListedInOrder`, for every image: `ListInv`, that the names read from a directory are those of its entries from the
  first on, as many as the position says until there are `MAX_NUM_FILES`.  `ListsEveryNameCorrect` draws the conclusion
  for a `FullDirectory`, an image with `MAX_NUM_FILES` names.  Other images do not have the property: with fewer names,
  `read_dir` goes on into empty entries; with more, it ends early.

`ScreensProofs`, for any number of terminals, any screen size and any number of characters and keys:

* `TypeCorrect`, `PagesApartCorrect`, `ScreenIsTextCorrect`, `SwitchLosesNothingCorrect`, from `Screens1`.  A screen in the middle
  of a character equals its `want` only after the rest of the steps: `AllFollow` says at every program point what the
  page and the cursor still lack, cell by cell in a scroll, and that a scroll which is not `marred` finds `screen` as it
  set it.  An exception, whichever program raises it, is a step on the shown terminal (`FaultStep`).
* `CursorIsShownCorrect`, from `CrtFollows`: what the display's cursor is at every point of the shown terminal's `putc2`.

The assumptions are those named `...Assumption` in each module: the buffer is longer than a tab, characters and keys are distinct
(LineInput); at least one terminal, more pids than terminals, statuses are bytes (Processes); the counter is wide enough for the longest
period (Rtc); names are distinct and files fit into their inodes (FileSystem); at least one row and column, pages and characters are
told apart (Screens); and, where stated, `Disciplined` or `FullDirectory`.  TLC evaluates all but the last two in every run
(the image of `files` is a `FullDirectory`), and checks `TypeInv` of every model, `SerialInv`, `LineInv` and `MachineInv` as invariants.

## 11. What is only model-checked

* Liveness (`LaunchCompletes`, `BootCompletes`, `EnterIsAnswered`, `EveryTerminalRuns`, `ReadReturns`, the fairness of the
  forest and of the lines): fairness and ENABLED are beyond the prover.
* The runs with overlap other than `TypeInv` and `BaseHasNoParent`.

## 12. What is not modelled, and why

The multiboot information is taken to be good: `entry` returns otherwise, and nothing runs.  The LDT, the TSS descriptor, the
descriptor formats (GDT, IDT, page entries) are hardware encodings with no behaviour of their own, filled once.  The registers that the linkage saves
are left out.  The string functions of `lib.c` and the formats of `printf` are sequential and
given by the course; what `printf` prints in boot is cleared before anything else is (`kernel.c:170`), and what it prints for an
exception is in Screens.  `getargs` copies a string; `set_handler` and
`sigreturn` return -1.  `disable_irq`, `enable_cursor` and `disable_cursor` are never called.  `tests.c` is compiled
out.  User programs may do anything in the models, so their code does not matter.
Undefined machine states (a thread resumed from a stack that was overwritten, a fault
inside a handler) end in `pc = "wild"`.

## 13. Running it

    tlc -workers 2 -config ProcessesSerial.cfg MCProcesses
    tlc -workers 2 -config LineCareful.cfg MCLineInput
    tlc -workers 2 -config Clock.cfg MCInterrupts
    tlc -workers 2 -config Files.cfg MCDescriptors
    tlc -workers 2 -config Screens.cfg MCScreens
    tlapm ProcessesForestProofs.tla
    tlapm LineDisciplineProofs.tla
    tlapm ClockProofs.tla

A definition whose name starts with `Bug` is the definition after it with a
plausible mistake.  Substituted for the right one, it makes the property that
`PROJECT.json` lists with it fail: each property has one.
