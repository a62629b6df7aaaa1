# Verification of the student-distrib kernel

The kernel (`src/student-distrib`) is a small i386 kernel for one processor: three
text terminals, up to six processes, a read-only file system, a virtual real-time
clock, and three interrupts (timer, keyboard, clock). `src/syscalls` holds the
programs that run on it. This directory holds TLA+ models of both, the TLC runs
that check them and proofs that TLAPS checks.

## 1. The system

| Part | Code | State | Operations |
| --- | --- | --- | --- |
| Process life cycle | `system_call.c`, `exception_handler.c` | `process_arr`, a PCB and a kernel stack per slot, `tss.esp0`, the page mapped at 128 MB | `execute`, `halt`, exceptions, `vidmap`, `getargs` |
| Timer | `scheduling.c` | `schedule_arr`, `background_terminal` | `pit_handler`, `contextSwitch` (starts one shell per terminal) |
| Paging | `paging.c`, `paging_assembly.S` | page directory, two page tables, CR0, CR3, CR4, the TLB | `paging_init`, `paging_set_up`, `vidmap_paging_set_up`, `flush_tlb` |
| Files | `files.c`, `open`/`close`/`read`/`write` in `system_call.c` | descriptor table in the PCB, the image in memory | open, close, read a file, read the directory, load a program |
| Clock | `rtc.c` | `freq_ctr`, `freq_val` | open, write (rate), read (wait), handler |
| Interrupts | `i8259.c`, `idt.c`, `linkage.S`, `kernel.c` | masks, requests and lines in service of two controllers, the IDT, EFLAGS.IF | the order of initialisation, accept, EOI, return |
| Keyboard | `keyboard.c` | shift, caps, alt and control flags, the line of the terminal on screen | one handler call per key code |
| Terminals | `terminal.c` | per terminal: line, length, Enter flag, page, cursor; `cur_term_idx` | `terminal_read`, `terminal_write`, save, load, switch |
| Screen | `lib.c` | video memory, `screen_x`, `screen_y` | `putc`, `putc_switch`, scroll, backspace, enter, clear |
| Library | `lib.c` | the caller's memory, the direction flag | memory functions, `printf`, string functions |
| User programs | `src/syscalls`, `src/fish` | buffers on their stacks | the shell's loop, cat, ls, grep, the error test |
| Boot | `boot.S`, `x86_desc.S` | descriptor tables | straight-line set-up |

How they interact. There is one flow of control and no kernel lock. System calls
enter through `system_call_linkage.S`, whose prologue ends with `sti`: everything a
system call does can be cut by an interrupt. Handlers run behind interrupt gates
with interrupts off and share `cur_term_idx`, the terminal structures, the screen,
`freq_ctr` and `schedule_arr` with the system call they cut. The timer's handler
starts a shell from inside the interrupt and never returns to what it interrupted.
`execute` finds its caller through `schedule_arr[cur_term_idx]`, which the keyboard
handler can redirect at any time, and `halt` jumps onto a stack saved by `execute`.
The processor is a party too: it walks the page tables and caches what it finds
between any two stores of `paging_set_up`.

The hard behaviours are therefore: an interrupt between any two statements of a
system call; state read before and used after it (`cur_term_idx`, `schedule_arr`,
`screen_x`, a cached translation); the order of device acknowledgement and EOI;
long chains of execute/halt/exception whose state outlives a process; equality
waits that can be overshot; data left in a buffer, a descriptor or a flag by an
earlier call; and boundaries (block, file, row, name and buffer ends). Nothing is
persistent and nothing is sent over a network, so there is no crash recovery or
message loss. `PROJECT.json` lists the hazards line by line.

What makes each part correct: control, page, kernel stack and PCB belong to one
process (life cycle); a program sees its own page and nothing of memory besides
but the screen (paging); a read returns the next bytes of its file (files); a wait
ends when it is due (clock); no request is lost or blocked for good (interrupts);
a finished line reaches the read that waits for it (terminals); what the user left
on a terminal is still there (screen); a copy is a copy, a number is its numeral
(library); what is typed is what runs, and its output is right (programs).

## 2. The modules

| Module | Models | One step is | Proofs |
| --- | --- | --- | --- |
| `Process` | execute, halt, exceptions, timer tick, page and kernel stack | a part of execute or halt that an interrupt can separate | `ProcessProofs` |
| `Paging` | page directory, page tables, TLB | a group of stores, a flush, one page walk of the processor | `PagingProofs` |
| `AddressSpace` | abstract: what paging promises to programs | entry to and exit from user mode, vidmap | |
| `Files` | descriptors, directory, `read_data` | a call; one turn of `read_data`'s loop | `FilesProofs` |
| `FileTable` | abstract: the descriptor layer, used by `Programs` | a call | |
| `Rtc` | the virtual clock | a call; one turn of the wait; one interrupt | `DevicesProofs` |
| `Interrupts` | boot order, 8259 pair, handlers' protocol with the devices | a call of entry, a device event, a step of a handler | `DevicesProofs` |
| `Terminal` | line input | one key; one expression of `terminal_read` | `TerminalProofs` |
| `Screen` | drawing, cursors, terminal switch | one key; one statement of `putc` | `DevicesProofs` |
| `Memory` | memset, memcpy, memmove and their like | one turn of a loop, one repetition of a string instruction | `LibraryProofs` |
| `Printf` | printf, itoa | one conversion or character | `LibraryProofs` |
| `Dentry` | `read_dentry_by_name` | one directory entry | `LibraryProofs` |
| `Library` | composes the three above: any call after any other | theirs | `LibraryProofs` |
| `Programs` | shell, execute's parser, cat, ls, grep, syserr on `FileTable` | one system call with what follows it; a line in grep | `ProgramsProofs` |

`SequenceLemmas` holds what several proofs need about numbers and sequences.
`MC<name>` instantiates each module for TLC. Definitions keep the names of the source;
`PROJECT.json` maps each to its lines. Variables whose comment begins with
"history" record what happened for a property and are read by no guard.
Definitions commented "Mutant of X" are X with a plausible bug; no specification
uses them, they show that a property can fail.

**Process.** `cpu` is the program counter: `mode` is where control is, `stk` the
kernel stack in use (from which `get_cur_pcb` derives the PCB), `ifl` EFLAGS.IF.
`ExecCheck`, `ExecLoad`, `ExecCopy`, `ExecLink`, `ExecSched`, `ExecEnter` are
`execute` in order; `HaltClear`, `HaltRestore`, `HaltReturn` are `real_halt`.
`pcb` has entries for more blocks than there are slots, because the parent is
found through `schedule_arr`, into which `execute` stores its loop index `i` after
the parser has used `i` for the length of the command (`system_call.c:234`). What
the parser makes of a command line is a constant record (`found`, `elf`, `arg`,
`idx`); the parser itself is in `Programs`. `frame[s]` is the IF that the last trap
on kernel stack `s` saved; a system call's frame can be returned through, an
exception's (`NULL`) cannot.

**Paging.** `page_dir`, `page_table`, `page_table_VM` have the entries that are ever
present and one that never is. `Fill(v)` is the processor: it caches the
translation of page `v` whenever it likes, as an access or speculatively. A reload
of CR3 keeps global entries if CR4.PGE is set. `SetFlags`/`SetAddr`/`FlushTlb` are
`paging_set_up`; `PagingSetUp(p)` may also begin while another switch is half done,
which is what a tick that starts a shell does. `Kernel`, `User` and `Screen` name
the pages that matter: the kernel's 4 MB, the program's at 128 MB, and vidmap's.

**Files.** `call` holds `read_data`'s arguments and locals during a call, so the
state between two turns of the loop is visible. The image is a constant:
`length`, `data_block_list`, `data_block`. `length - offset` is taken modulo
`WordSize`, as `uint32_t` does. One table of one process is modelled; the call is
not interrupted by anything that touches it.

**FileTable** says the same without blocks and loops: open, close and read are one
step. `Files` implements it (`ImplementsFileTable`; a turn of the loop stutters),
and `Programs` is built on it instead of on `Files`, so that programs are checked
against what is proved of the kernel and not against its details.

**Rtc.** `rtc_state` says where the program is. `Poll` is one turn of the spin loop,
`Return` the store after it, `Handler` one chip interrupt. `level` is the program of
an execute chain that runs (a caller waits until its child halts).

**Interrupts.** `imr`, `irr`, `isr` are the controllers' registers, `handlers` the
stack of handlers entered, each with the step it is at. Level of a device's line
is `obf` (keyboard output buffer) and `pf` (register C of the clock); the
controllers are edge-triggered, so a line that is up and not latched is lost.

**Terminal.** Variables are the fields of `term_struct`. The kernel is built
without optimisation and the fields are re-read in every expression, hence one
step per expression of `terminal_read`.

**Screen.** `screen` is video memory with `screen_x`, `screen_y`; `term[t]` is
`video_mem`, `term_screen_x`, `term_screen_y`. `putc_switch` and the second branch
of `putc` are the same text over these two, so the drawing operators take a page;
`Target` and `ScrollSource` say which. `PageOf(t)` is what the user sees of `t`.

**Memory, Printf, Dentry, Library.** `Memory` has the registers of the assembly
(`edi`, `esi`, `ecx`, `edx`) and the direction flag `df`, which outlives a call:
`memmove` may leave it set. `Printf` works on a format's pieces and a stack of
words of `Bits` bits; `itoa` divides and reverses, and `Numeral` is the reference it
is compared with. `Dentry` has names as byte arrays that lack a NUL when they are
as long as the limit. `Library` lets any call follow any other, since the flow of
control and `df` are shared.

**Programs.** `sbuf` is the shell's buffer, which keeps what earlier lines left behind
the NUL; `Arguments` and `ExeNames` are what the parser in `execute` makes of it. The
parser has no bound of its own: where the buffer has no NUL any more, the argument
goes on with what lies behind it, one of the strings in `Behind`. `prog` runs from
`pc = "cat"`, `"ls"`, `"grep"` or `"syserr"` until `"exit"`; `out` is what it has written
to descriptor 1. `Found` is what grep is to print about an entry (`Hits`, line by
line): it passes over names that begin with a dot. `found` is what it has printed at
each entry, and `Fit` says for which entries the two must agree. grep's `data`,
`last`, `line_start` and `cnt` are its locals, and `data` begins with whatever was on
the stack (`Junk`); `stray` are the entries at which the byte behind that buffer was a
newline. `Calls` is the list of system calls of the error test, with `Expected` for
their results.

## 3. The runs

Every run finishes in under three minutes on two cores.

| Run | Bounds | Shows |
| --- | --- | --- |
| `process` | 3 slots, 2 terminals, 3 command lines (the shell, one with an argument, one that fails) | `OneSlotRuns`, `SlotHoldsProgram`, `HaltHasReturn`, `TickFindsSlot`, `BootEnds`. Three slots make a child of a root shell and a full table; the index stored by `execute` can name the last slot or a block beyond the table, as in the kernel. |
| `process_halt_restores_parent` | 6 slots, 3 terminals | A violation: halt maps the page of a program that did not call execute. |
| `paging` | 3 processes, 1 page behind the screen, addresses as in the kernel | `NoStale`, `UserReach`, and that `Paging` implements `AddressSpace`. Three processes give a switch that cuts a switch after a first one; the pages' addresses differ only by process number. |
| `files` | blocks of 2 bytes; files of 0, 1, 4 and 5 bytes in blocks out of order; reads of up to 5 bytes; 2 free descriptors | `ReadDelivers`, `PositionInFile`, `ChunkInFile`, `ReadReturns`, and that `Files` implements `FileTable`: reads that end at the request's, the block's and the file's end, and at two of them together. |
| `rtc` | an 8 Hz chip, a counter of 16 values, 2 programs, legal and illegal rates | `ReadKeepsUp`, `NotTooSoon`, `ReadReturns`; the counter wraps. |
| `rtc_read_on_time` | the same | A violation: a read that is late waits for the counter to go round. |
| `interrupts` | the machine as it is | `NoneLeftInService`, `NoLostEdge`, `VectorPresent`, `KeysServed`, `ClockServed`. |
| `terminal` | 2 terminals, lines of up to 2 characters | `ReadExtendsLine`, `NoStuckLine`, `ReadReturns`, `EnterWakes`. Two characters are enough for a copy that keys lengthen and for a backspace within it. |
| `screen` | 2 terminals of 2 by 2 cells, one cell behind them, 9 inputs | `TypeOK`, `PageKept`, `CursorOnScreen`. Four characters fill a page, two newlines scroll it, so nine inputs fill, scroll, switch and come back. |
| `screen_output_stays_home` | the same, 5 inputs | A violation: output on the wrong terminal. |
| `library` | 10 bytes of memory, bytes told apart by their place; words of 8 bits and 9 numbers around 0, the bases and the sign; formats of up to 2 pieces; names of up to 3 letters and strings of up to 4 over two letters, directories of 2 | `DoneRight`, `PrintedRight`, `LookupFirst`, `CallsReturn`. Ten bytes hold an unaligned start, a full group of four, a rest, and every overlap of such areas. Two entries are enough for `name_count1` to grow from the first to the second. |
| `programs` | a shell's buffer of 6 bytes, cat's and grep's of 5; files of 0 to 18 bytes; 16 command lines; memory never written is spaces and newlines, and behind the shell's buffer lies nothing or two more characters | `TypeOK`, `RunsWhatIsTyped`, `ArgumentFits`, `CatCopies`, `LsLists`, `GrepFinds`, `SysErrPasses`, `ShellComesBack`. The long file takes several reads, and its lines begin, end and are cut at every place of grep's buffer; executables with NULs and with a line that is too long come before and between the files that are searched right, and without any one of the conditions of `Fit` the run finds a counterexample. The command lines have spaces in front, between and behind, names that are no programs, and none at all; on blank ones the parser runs through the buffer and out of it. |

Deadlock is checked except in `process`, whose control is really lost when `halt`
unwinds an exception's frame (mode `wild`), and in `screen`, which stops after
`MaxInputs`. `TypeOK` is run only where it says something about a bound the code
could pass (`Screen`'s cursors, the indexes into grep's buffer); elsewhere it is proved (section 4).

### Refinements

- `Files` implements `FileTable`. The mapping keeps the descriptor table and the
  value returned; open, close, read and load are one abstract step each, taken when
  the call returns. `TFail` lets any call fail, so this says what a call does that
  succeeds and that one that fails changes nothing, not that a call succeeds.
- `Paging` implements `AddressSpace`: `running` is the program in user mode, `sees` the
  program whose page an access to 128 MB finds, through the TLB if it is cached
  there. So the abstract specification cannot be met by tables that are right and a
  TLB that is not.

Both are run as a PROPERTY and proved.

### Where code and comments disagree

Three runs end in a violation on purpose; `findings` in `PROJECT.json` quotes the
comment each one tests. Others met while modelling, without a run:

- `rtc_open` says "Open a new instance of virtualized RTC" (`rtc.c:38`); `freq_ctr` and
  `freq_val` are globals that every program overwrites (`rtc.c:46-47`).
- `scroll_up_switch` says "scroll up the screen when we reach the bottom"
  (`lib.c:345`) but fills the rows of `background_terminal` from `cur_term_idx`
  (`lib.c:350-351`): a terminal that scrolls while hidden gets another one's rows.
- `contextSwitch` says "run shell program respectively for three tereminals"
  (`scheduling.c:61`) and looks for entries that are still -1 (`scheduling.c:69`);
  `execute` overwrites the entry of the terminal on screen (`system_call.c:234`), so a
  terminal turned to too early never gets its shell.
- `memset_word` takes "number of bytes to set" (`lib.c:522`); it sets `n` words.
- `dir_read` returns the length of the name (`files.c:309`), its comment says 1
  (`files.c:267`); `open` returns a descriptor, its comment says 0 (`system_call.c:330`).
- `process_arr` is "set to 1 if the corresponding process exists"
  (`system_call.c:13`), but `halt` may resume a PCB whose slot was freed.
- `kernel.c:160` asks not to enable interrupts before the IDT is set up;
  `i8259_init` does (`i8259.c:41`). `VectorPresent` shows why it is harmless.
- `backspace` at the start of a row skips the last column (`lib.c:72`); `enter`
  says it scrolls, but its `scroll_up` is commented out (`lib.c:86-89`).

### Environment assumptions

- *Process*: no command is typed in the three timer periods in which the shells
  start (guard `Pending = {}` of `Execute`). Memory never written reads as zero.
- *Paging*: no vidmap before the last shell is started (the shells do not call it).
- *Files*: the image is well formed (`FsAssumption`), so the checks for an inode out
  of range (`files.c:128`) and for no image are left out; the caller's buffer is large
  enough.
- *Rtc*: the wait looks at the count at least once between two chip interrupts
  (variable `polled`): a turn takes nanoseconds, the chip's period is 1 ms.
- *Interrupts*: devices are slow compared with the handlers (variable `served`):
  a line that was served comes again only after the requests that waited
  meanwhile were served. The processor takes a request that passes before its
  next instruction. A key code that came before `i8259_init` is excepted
  (variable `early`): its edge is lost.
- *Terminal*: lines are shorter than the array (guard `Room`); the code tests
  `buf_idx`, which it never changes. `NoStuckLine` excepts terminals that a switch
  disturbed in the middle of a read (`torn`), `ReadExtendsLine` reads during which
  a character was taken back or a switch came (`steady`).
- *Screen*: starts after the first tick (before, `background_terminal` is -1). A
  cursor is not followed beyond its page (`InPage`). `CursorOnScreen` excepts
  prints that a key or a tick cut (`hit`): the code has no protection there.
- *Library*: areas lie in memory and `memcpy` does not copy up onto its own source
  (`Legal`); the strings to look up end with a NUL. Addresses 0, 4, 8 are aligned.
- *Programs*: command lines are shorter than what the parser looks at and are not
  "exit"; the names of executables are shorter than `exe_command`; the shell runs one
  program at a time, which is what its loop does. An argument longer than
  `argument[128]` can only come from a blank line (`ArgumentFits`); what its store
  overwrites in the PCB is not followed. `GrepFinds` speaks of each file by itself and
  says nothing of those that are not `Fit`: files with a NUL, as every executable has,
  since a NUL ends the string that `strcpy` moves and that is printed
  (`ece391grep.c:36`); files with a line longer than grep's buffer; and files for which
  the byte behind the buffer was a newline when they were opened, since grep looks at
  it (`ece391grep.c:33`) and takes the first part of a line for all of it. It does say
  that such files do not disturb the others.

### Fairness

- `Process`: weak on the steps of execute and halt (nothing blocks them), strong
  on `Syscall` (a shell's first act is a write) and on `PitTick` (the request
  stays latched until taken).
- `Files`, `Terminal`, `Library`: weak on the loop of the call. No fairness of the
  user: no property says that a key is ever pressed.
- `Programs`: weak on what follows once a line has been typed.
- `Rtc`: weak on the interrupt and the loop.
- `Interrupts`: weak on boot and handlers, strong on `Syscall` and on accepting a
  latched request (programs that run with interrupts on are there again and again).

## 4. The proofs

Checked by TLAPS for every value of the constants that satisfies the `ASSUME`s of
the modules, which TLC evaluates in the runs. Each component has one inductive
invariant, its initial and its step case (a step per action), and the results
that follow from it. The type invariant is part of each. All the invariants that
passing runs check are theorems; `KernelStays` (the kernel's own mapping) is proved only.

- **ProcessProofs.** `ProcessInv` is `TypeOK` with four parts. `PidInv`: a PCB
  carries its block's number or 0, so any pid found names a PCB with that pid.
  `ReturnInv`: a PCB above the root slots has a parent in which a stack pointer is
  stored. `ModeInv`: in each step of execute and halt, which slot the page, the
  stack and the PCB belong to. `BootInv`: while shells are being started, every
  slot taken is below every terminal that waits. None of the properties is
  inductive alone: what a halt finds was written by an execute many steps before.
  On top of it `HoldInv`: what execute has stored in the slot it fills (`LoadInv`), and
  that while shells are being started there is no other image (`ShellInv`), so a tick
  that cuts an execute short before its copy leaves a shell where a shell was.
  Results: `TypeCorrect`, `OneSlotRunsAlways`, `HaltAlwaysHasReturn`,
  `TickAlwaysFindsSlot`, `SlotAlwaysHoldsProgram`.
- **PagingProofs.** `PagingInv`: what `paging_init` stored stays (`FixedInv`); nothing
  is cached before paging is on, and PGE is clear from then on (`BootInv`); only the
  program's and the screen's translations can be stale, and only in a switch
  (`CacheInv`); how far a switch has come, whoever it cut (`SwitchInv`); the screen's
  table has one entry (`ScreenInv`). Results: `PagingTypeCorrect`, `NeverStale`,
  `UserAlwaysConfined`, `KernelAlwaysStays`, `PagingRefines`.
- **FilesProofs.** `FilesInv` ties `call`'s counters together (offset, bytes done,
  bytes left, block and place in it), by Euclidean division, so that a turn's
  bytes are the file's next bytes. Results: `FilesTypeCorrect`,
  `ReadAlwaysDelivers`, `PositionAlwaysInFile`, `ChunkAlwaysInFile`,
  `FilesRefinesFileTable`: the last needs that the loop ends having read all that
  was asked for and was there.
- **DevicesProofs**, the clock, the controllers and the screen. `RtcInv` says that the
  rate in force times `freq_val` is the chip's rate and that the count never exceeds
  what its owner has waited. `IntInv`: only the timer's handler is ever interrupted,
  after its EOI and never by itself (`NestInv`); the lines in service are those of the
  handler below, at its step (`ServiceInv`); what `entry` has done when (`BootInv`).
  `ScreenInv`: a print that nothing cut draws on its own terminal's page, and hands
  `update_cursor` the position the cursor still has (`PrintInv`); every cursor is on its
  screen, and past the last cell only between `putc`'s store and its scroll
  (`CursorInv`). Results: `RtcTypeCorrect`, `ReadAlwaysKeepsUp`, `NeverTooSoon`;
  `InterruptsTypeCorrect`, `NeverLeftInService`, `EdgesKept`, `VectorsPresent`;
  `ScreenTypeCorrect`, `CursorAlwaysOnScreen`, `PagesAlwaysKept`.
- **TerminalProofs.** `TermInv`: while only typing happens, the line on screen extends
  the line the read found, and what has been copied is its beginning (`CopyInv`); the
  loops' indexes stay in the array (`IndexInv`). Results: `TerminalTypeCorrect`,
  `ReadAlwaysExtendsLine`, `NeverStuckLine`.
- **LibraryProofs.** `LibraryInv` is `MemoryInv`, `PrintfInv` while printf runs, and
  `LookupInv`. `MemoryInv`: with `r` bytes to do, memory is as wanted on one side of
  `edi` and untouched on the other (`Ascending`, `Descending`); going up, the source is
  not yet overwritten since it lies above, or apart. `PrintfInv`: `buf` is at the
  beginning of a piece of the format or behind its `%` or `#`, `esp` is past the
  arguments of the pieces before it, and `out` is what those pieces mean. That a piece
  prints what it means rests on the conversions: `itoa`'s loop yields the numeral of
  any word in any base. `LookupInv`: no entry passed has the name, and
  `name_count1`, which only grows, is at least the length of the string. Results:
  `MemoryTypeCorrect`, `AlwaysDoneRight`, `AlwaysPrintedRight`, `LookupAlwaysFirst`.
- **ProgramsProofs.** `ProgramsInv` says, for each program, how what it has printed
  depends on how far it has read. The line is in the shell's buffer up to its NUL
  until it has been parsed, and what the parser then makes of it is what the line
  asks for: behind that NUL it looks only on a blank line, and then its name begins
  with the NUL, which no entry's does (`AskInv`). So on any other line the argument is
  part of the line. A program starts with nothing open
  (`FreshInv`), hence its file is descriptor 2, and grep's file 3. cat and ls have
  printed what lies before the descriptor's position (`CatInv`, `LsInv`). Before
  syserr's call `k`, the descriptors up to `k - 6` are open that its third test has not
  closed again (`SysInv`). grep is the hard one. Of any file it is known that the indexes
  stay in the buffer (`GrepFileInv`) and that what it prints is added at its own entry,
  behind what the entries before have got (`GrepFoundInv`). While it reads one that is
  `Fit`, its buffer holds, from `line_start` to `last`, the text before the descriptor's
  position, and the byte behind the buffer is no newline (`HoldsRest`); the text left
  begins where a line does (`AtLine`); and what is printed at the entry is what the
  lines before that place give (`GrepOutInv`). A line that fills the whole buffer ends
  behind it (`FullBuffer`): that is where the condition on lines is needed. The one on
  NULs is needed where `strcpy` moves the rest of a line, the one on the byte behind
  the buffer where the code looks at it. Every file starts with an empty buffer and a
  descriptor of its own, which is why files that are not fit do not matter to those
  behind them. Results: `ProgramsTypeCorrect`,
  `AlwaysRunsWhatIsTyped`, `ArgumentAlwaysFits`, `CatAlwaysCopies`, `LsAlwaysLists`, `GrepAlwaysFinds`,
  `SysErrAlwaysPasses`, for any image, any lines and buffers of any length.
- **SequenceLemmas.** Recursive functions (numerals, `FlattenSeq`) are reasoned about
  without an induction rule that takes a predicate: `InductionOnSet` is induction
  stated of a *set* of numbers, proved from the least element of its complement, and
  `SequenceOfSteps` shows that a step has a sequence of the values it makes of a first
  one, from which a recursive function gets its equation. `BeforeFacts` and
  `FlattenAt` are what follows for the sequences in a sequence put end to end.

What the theorems assume of the image and of the user is in `ASSUME`s:
`FsAssumption` (blocks exist for every byte of a file), `PrintfAssumption` (there is an
argument for each conversion), `DentryAssumption` (a string to look up ends with a
NUL), `ImageAssumption` (names are unique, the directory has one entry for itself and
no other directory, an executable's name leaves room for a NUL, and there is no file
with the name that syserr takes for missing), `LinesAssumption` (lines are typed,
hence without NUL, and fit into what the parser looks at), `BehindAssumption` (what
lies behind the shell's buffer is given up to its first NUL) and `SizeAssumption` (a
table of at least four descriptors, a buffer of at least a byte).

Only model-checked: all liveness, as fairness and ENABLED are outside the prover's
reach (`BootEnds`, `ReadReturns`, `KeysServed`, `ClockServed`, `EnterWakes`,
`CallsReturn`, `ShellComesBack`).

## 5. Not modelled

- The shift, caps and control keys' choice of a character, and which codes are
  letters. `strcpy` and `strncpy` of the kernel's library, which have no caller.
- GDT, LDT and TSS encodings, `boot.S`: straight-line set-up. Of the page tables, the
  bits that no access depends on, and the read/write bit, which is 1 in every entry
  that is ever present.
- Stores outside objects whose effect depends on the link (`term[i].pcb_idx` for a
  long command, `term[-1]` before the first tick, lines longer than `BUF_SIZE`,
  arguments longer than `argument`): listed as hazards.
- What the display shows after `putc_switch` was cut between its moves of the cursor
  (`lib.c:287`), and the rows that a hidden terminal gets when it scrolls
  (`lib.c:350`): hazards that no property catches. The first is excepted by
  `CursorOnScreen`, the second is what the code does.
- What system calls 9 and 10 do: `system_call_asm` lets them through (`cmpl $10`), its
  `jump_table` has eight calls. `SysErrPasses` is about the numbers it refuses.
- hello, counter, pingpong, testprint and fish, which echo, count and draw; sigtest, which
  asks for calls 9 and 10; of syserr the single tests (choices 1 to 8; choice 0 runs all
  of them); `tests.c`, of which `launch_tests` calls nothing; the host emulation.

## 6. Plan

Done, in this order: `Process` (the most intricate protocol), `Files`, `Rtc`,
`Interrupts`, `Terminal`, `Screen`; `Paging` with `AddressSpace`; the library; `FileTable`;
`Programs`; proofs of all of them (section 4).

Next:

1. The boot order composed with the terminals: keys between `keyboard_init` and
   `terminal_start`, prints before the first tick.
2. Keyboard modifiers, and the bound on the line with the structure behind it.
3. A process stack as the abstract specification of `Process`, for launches made from
   the terminal on screen.
