------------------------------ MODULE Programs ------------------------------
(***************************************************************************)
(* The shell and the programs it runs, on the descriptor layer of module   *)
(* FileTable: ece391shell.c, the parser in execute, getargs, ece391cat.c,  *)
(* ece391ls.c, ece391grep.c and ece391syserr.c.  A step is one system call *)
(* with what the program does until the next; in grep it is also one line. *)
(* Writing to fd 1 always succeeds and is kept in out.  The shell runs one *)
(* program at a time, none of which runs another, and is not left.         *)
(***************************************************************************)
EXTENDS FileTable, SequencesExt

CONSTANTS
  content,     \* content[i]: the bytes of the file of inode i
  programs,    \* programs[i]: the program in that file, NULL if it is no ELF
  CommandMax,  \* characters the parser looks at (128)
  NameMax,     \* length of exe_command (32)
  ShellBuf,    \* length of the shell's buffer (1024)
  Lines,       \* what may be typed, without the newline
  Junk,        \* what a byte of memory that was never written may be
  Behind       \* what may lie behind the shell's buffer, up to a NUL

NUL == "\\0"
NL == "\n"
SP == " "

Chars ==
  Junk \cup {NUL, NL, SP, ":"} \cup UNION {Range(line) : line \in Lines}
    \cup UNION {Range(content[i]) : i \in Inodes} \cup UNION {Range(b) : b \in Behind}
    \cup UNION {Range(dir_entries[n].fname) : n \in DOMAIN dir_entries}

Entry == [fname : Seq(Chars), file_type : {RTC, DIR, FILE}, inode_index : Inodes]
Executables == {"cat", "ls", "grep", "syserr"}

\* The lengths are the code's: 128 characters are parsed, a descriptor table
\* has eight entries, two of them are grep's.
ASSUME SizeAssumption ==
  /\ CommandMax \in Nat /\ ShellBuf \in Nat /\ CommandMax <= ShellBuf
  /\ NameMax \in Nat /\ BufSize \in Nat /\ BufSize >= 1
  /\ FdNum \in Nat /\ FdNum >= 4

\* A key types no NUL.
ASSUME LinesAssumption ==
  \A line \in Lines : /\ line \in Seq(Chars \ {NUL}) /\ Len(line) < CommandMax
                      /\ line # <<"e", "x", "i", "t">>

ASSUME BehindAssumption == Behind # {} /\ Behind \subseteq Seq(Chars \ {NUL})

\* The image: the directory is flat, with one entry for itself and none with
\* the name that syserr takes for missing; a program's name has a NUL behind
\* it.
ASSUME ImageAssumption ==
  /\ Inodes \subseteq Nat /\ 0 \in Inodes
  /\ content \in [Inodes -> Seq(Chars)] /\ \A i \in Inodes : length[i] = Len(content[i])
  /\ programs \in [Inodes -> Executables \cup {NULL}] /\ NULL \notin Executables \cup {"user"}
  /\ dir_entries \in Seq(Entry)
  /\ \E n \in DOMAIN dir_entries : dir_entries[n].fname = <<".">>
  /\ \A n, m \in DOMAIN dir_entries : dir_entries[n].fname = dir_entries[m].fname => n = m
  /\ \A n \in DOMAIN dir_entries :
       LET e == dir_entries[n] IN
       /\ e.fname \notin {<<>>, <<"h", "h">>} /\ Len(e.fname) <= NameMax
       /\ e.file_type = DIR <=> e.fname = <<".">>
       /\ programs[e.inode_index] # NULL => Len(e.fname) < NameMax

VARIABLES
  pc,        \* the next step: "shell", "execute", "exit", or of a program
  prog,      \* the program that runs or ran last
  typed,     \* history: the line
  sbuf,      \* the shell's buffer
  argument,  \* the argument in the PCB
  status,    \* what execute returns to the shell
  out,       \* what the program has written
  fd,        \* the file it reads
  dirfd, fname, data, last, line_start, cnt,  \* grep's directory and locals
  found,     \* history: what grep has printed while at each entry
  stray,     \* history: the entries met with a newline behind grep's buffer
  k, fails   \* syserr's next call and the tests that failed

locals == <<dirfd, fname, data, last, line_start, cnt, found, stray>>
sys == <<k, fails>>
shell == <<prog, typed, sbuf, argument>>
vars == <<tVars, pc, shell, status, out, fd, locals, sys>>

SIdx == 0 .. ShellBuf - 1
DIdx == 0 .. BufSize
Constantly(S, c) == [x \in S |-> c]
NothingFound == [n \in DOMAIN dir_entries |-> <<>>]

Init ==
  /\ TInit
  /\ pc = "shell" /\ prog = NULL /\ typed = <<>>
  /\ sbuf \in [SIdx -> Junk]
  /\ argument = <<>> /\ status = 0 /\ out = <<>>
  /\ fd = 0 /\ dirfd = 0 /\ fname = <<>> /\ data = Constantly(DIdx, NUL)
  /\ last = 0 /\ line_start = 0 /\ cnt = 0 /\ found = NothingFound /\ stray = {}
  /\ k = 1 /\ fails = {}

-----------------------------------------------------------------------------
(* The shell, execute's parser.                                            *)

ReadLine(line) ==
  /\ pc = "shell"
  /\ typed' = line
  /\ sbuf' = [j \in SIdx |-> IF j < Len(line) THEN line[j + 1]
                             ELSE IF j = Len(line) THEN NUL ELSE sbuf[j]]
  /\ pc' = IF line = <<>> THEN "shell" ELSE "execute"
  /\ UNCHANGED <<tVars, prog, argument, status, out, fd, locals, sys>>

\* The least index from lo on and below hi that is in S, or hi.
Find(lo, hi, S) ==
  IF S \cap lo .. hi - 1 = {} THEN hi ELSE Least(S \cap lo .. hi - 1)

Holding(C) == {j \in SIdx : sbuf[j] \in C}
Text(lo, hi) == [n \in 1 .. hi - lo |-> sbuf[lo + n - 1]]

\* Spaces in front are skipped.  The first other character belongs to the
\* name whatever it is, so on a blank line it is the NUL, and the parser
\* goes on into what earlier lines have left behind it.
NameStart == Find(0, CommandMax, SIdx \ Holding({SP}))

\* Mutant of NameEnd: a NUL does not end the name.
NameEndSpace == Find(NameStart + 1, CommandMax, Holding({SP}))

NameEnd == Find(NameStart + 1, CommandMax, Holding({NUL, SP}))
HasArg == NameEnd < CommandMax /\ sbuf[NameEnd] = SP

\* The C string at index lo: without a NUL in the buffer it goes on behind it.
StringsFrom(lo) ==
  LET end == Find(lo, ShellBuf, Holding({NUL}))
  IN  IF end < ShellBuf THEN {Text(lo, end)} ELSE {Text(lo, end) \o b : b \in Behind}

\* Mutant of Trimmed: the spaces before the argument are kept.
TrimmedNot(t) == Tail(t)

Trimmed(t) == SubSeq(t, Least({n \in 1 .. Len(t) + 1 : n \in DOMAIN t => t[n] # SP}), Len(t))

Arguments == IF HasArg THEN {Trimmed(t) : t \in StringsFrom(NameEnd)} ELSE {<<>>}

\* exe_command as a C string; with NameMax characters it is not terminated,
\* and strlen finds it that long or longer, which no entry's name is.
ExeNames ==
  LET all == Text(NameStart, NameEnd)
  IN  IF all = <<>> \/ all[1] = NUL THEN {<<>>}
      ELSE IF Len(all) < NameMax THEN {all}
      ELSE {SubSeq(all, 1, NameMax), Append(SubSeq(all, 1, NameMax), "?")}

Runs(name) == EntriesOf(name) # {}
              /\ programs[dir_entries[Least(EntriesOf(name))].inode_index] # NULL

Execute ==
  /\ pc = "execute"
  /\ argument' \in Arguments
  /\ \E name \in ExeNames :
       IF ~Runs(name)
       THEN pc' = "shell" /\ status' = -1 /\ UNCHANGED prog
       ELSE /\ prog' = programs[dir_entries[Least(EntriesOf(name))].inode_index]
            /\ pc' = prog'
            /\ status' = 0
  /\ UNCHANGED <<tVars, typed, sbuf, out, fd, locals, sys>>

\* halt closes the program's descriptors, clears its argument and returns its
\* status.
Halt ==
  /\ pc = "exit"
  /\ TExit
  /\ pc' = "shell"
  /\ fd' = 0 /\ dirfd' = 0 /\ fname' = <<>> /\ data' = Constantly(DIdx, NUL)
  /\ last' = 0 /\ line_start' = 0 /\ cnt' = 0 /\ found' = NothingFound /\ stray' = {}
  /\ k' = 1 /\ fails' = {} /\ out' = <<>> /\ argument' = <<>>
  /\ UNCHANGED <<prog, typed, sbuf, status>>

-----------------------------------------------------------------------------
(* System calls as programs make them.                                     *)

Exit(s) == pc' = "exit" /\ status' = s
Go(step) == pc' = step /\ UNCHANGED status

CanOpen(name) == EntriesOf(name) # {} /\ FreeUserFds # {}

\* Open a name and go on, or exit with a status.
OpenOr(name, step, s) ==
  \/ TOpen(name) /\ Go(step)
  \/ ~CanOpen(name) /\ TFail /\ Exit(s)

CanRead(f) == IsOpen(f) /\ f \in UserFds
IsRtc(f) == CanRead(f) /\ fdt[f].ops = RTC

Read(f, n) ==
  \/ TReadFile(f, n)
  \/ TReadDir(f)
  \/ IsRtc(f) /\ ret' = 0 /\ UNCHANGED fdt
  \/ (CanRead(f) => fdt[f].ops = FILE /\ n <= 0) /\ TFail

\* What the read that returns ret' has put into the caller's buffer.
Got(f) ==
  IF ret' <= 0 THEN <<>>
  ELSE IF fdt[f].ops = DIR THEN dir_entries[fdt[f].position + 1].fname
  ELSE SubSeq(content[fdt[f].inode], fdt[f].position + 1, fdt[f].position + ret')

CatOpen ==
  /\ pc = "cat"
  /\ IF argument = <<>> THEN Exit(3) /\ UNCHANGED tVars
     ELSE OpenOr(argument, "cat read", 2)
  /\ fd' = ret'
  /\ UNCHANGED <<shell, out, locals, sys>>

\* Mutants of CatRead: a short read is taken for the end; only a failed read is.
CatReadShort ==
  /\ pc = "cat read"
  /\ Read(fd, BufSize)
  /\ out' = out \o Got(fd)
  /\ IF ret' = -1 THEN Exit(3) ELSE IF ret' < BufSize THEN Exit(0) ELSE Go("cat read")
  /\ UNCHANGED <<shell, fd, locals, sys>>

CatReadToError ==
  /\ pc = "cat read"
  /\ Read(fd, BufSize)
  /\ out' = out \o Got(fd)
  /\ IF ret' = -1 THEN Exit(0) ELSE Go("cat read")
  /\ UNCHANGED <<shell, fd, locals, sys>>

CatRead ==
  /\ pc = "cat read"
  /\ Read(fd, BufSize)
  /\ out' = out \o Got(fd)
  /\ IF ret' = 0 THEN Exit(0) ELSE IF ret' = -1 THEN Exit(3) ELSE Go("cat read")
  /\ UNCHANGED <<shell, fd, locals, sys>>

LsOpen ==
  /\ pc = "ls"
  /\ OpenOr(<<".">>, "ls read", 2)
  /\ fd' = ret'
  /\ UNCHANGED <<shell, out, locals, sys>>

\* Mutant of LsRead: the newline goes behind the whole name field.
LsReadField ==
  /\ pc = "ls read"
  /\ Read(fd, NameMax)
  /\ IF ret' \in {-1, 0} THEN Exit(IF ret' = 0 THEN 0 ELSE 3) /\ UNCHANGED out
     ELSE Go("ls read") /\ out' = out \o Got(fd)
                             \o [n \in 1 .. NameMax - ret' |-> NUL] \o <<NL>>
  /\ UNCHANGED <<shell, fd, locals, sys>>

LsRead ==
  /\ pc = "ls read"
  /\ Read(fd, NameMax)
  /\ IF ret' \in {-1, 0} THEN Exit(IF ret' = 0 THEN 0 ELSE 3) /\ UNCHANGED out
     ELSE Go("ls read") /\ out' = out \o Append(Got(fd), NL)
  /\ UNCHANGED <<shell, fd, locals, sys>>

-----------------------------------------------------------------------------
(* grep.                                                                   *)

GrepOpenDir ==
  /\ pc = "grep"
  /\ IF argument = <<>> THEN Exit(3) /\ UNCHANGED tVars
     ELSE OpenOr(<<".">>, "grep next", 2)
  /\ dirfd' = ret'
  /\ UNCHANGED <<shell, out, fd, fname, data, last, line_start, cnt, found, stray, sys>>

GrepNext ==
  /\ pc = "grep next"
  /\ Read(dirfd, NameMax)
  /\ fname' = Got(dirfd)
  /\ IF ret' \in {-1, 0} THEN Exit(IF ret' = 0 THEN 0 ELSE 3)
     ELSE Go(IF fname'[1] = "." THEN "grep next" ELSE "grep open")
  /\ UNCHANGED <<shell, out, fd, dirfd, data, last, line_start, cnt, found, stray, sys>>

\* The buffer is on the stack: it holds whatever was there.
GrepOpen ==
  /\ pc = "grep open"
  /\ OpenOr(fname, "grep read", 3)
  /\ fd' = ret'
  /\ data' \in [DIdx -> Junk]
  /\ stray' = IF data'[BufSize] = NL THEN stray \cup {fdt[dirfd].position} ELSE stray
  /\ last' = 0
  /\ UNCHANGED <<shell, out, dirfd, fname, line_start, cnt, found, sys>>

\* Mutant of GrepRead: it asks for a whole buffer behind what is left.
GrepReadFull ==
  /\ pc = "grep read"
  /\ Read(fd, BufSize)
  /\ cnt' = ret'
  /\ data' = [j \in DIdx |-> IF last <= j /\ j < last + Len(Got(fd))
                             THEN Got(fd)[j - last + 1] ELSE data[j]]
  /\ last' = last + ret'
  /\ line_start' = 0
  /\ IF ret' = -1 THEN Exit(3) ELSE Go("grep line")
  /\ UNCHANGED <<shell, out, fd, dirfd, fname, found, stray, sys>>

GrepRead ==
  /\ pc = "grep read"
  /\ Read(fd, BufSize - last)
  /\ cnt' = ret'
  /\ data' = [j \in DIdx |-> IF last <= j /\ j < last + Len(Got(fd))
                             THEN Got(fd)[j - last + 1] ELSE data[j]]
  /\ last' = last + ret'
  /\ line_start' = 0
  /\ IF ret' = -1 THEN Exit(3) ELSE Go("grep line")
  /\ UNCHANGED <<shell, out, fd, dirfd, fname, found, stray, sys>>

LineEnd == Find(line_start, last, {j \in DIdx : data[j] = NL})

\* data with the end of the line marked, and the C string at index j of it.
Marked == [data EXCEPT ![LineEnd] = NUL]
StringAt(j) == LET end == Find(j, BufSize, {x \in DIdx : Marked[x] = NUL})
               IN  [n \in 1 .. end - j |-> Marked[j + n - 1]]

\* The rest of the buffer is not a whole line, and there is room to move it.
Shifted == data[LineEnd] # NL /\ cnt # 0 /\ line_start # 0

\* Mutant of GrepShift: as many bytes are taken off as the rest has.
GrepShiftRest ==
  /\ pc = "grep line"
  /\ Shifted
  /\ data' = [j \in DIdx |-> IF j < Len(StringAt(line_start))
                             THEN StringAt(line_start)[j + 1]
                             ELSE IF j = Len(StringAt(line_start)) THEN NUL ELSE Marked[j]]
  /\ last' = line_start
  /\ Go("grep read")
  /\ UNCHANGED <<tVars, shell, out, fd, dirfd, fname, line_start, cnt, found, stray, sys>>

\* strcpy moves the rest down, and the next read goes behind it.
GrepShift ==
  /\ pc = "grep line"
  /\ Shifted
  /\ data' = [j \in DIdx |-> IF j < Len(StringAt(line_start))
                             THEN StringAt(line_start)[j + 1]
                             ELSE IF j = Len(StringAt(line_start)) THEN NUL ELSE Marked[j]]
  /\ last' = last - line_start
  /\ Go("grep read")
  /\ UNCHANGED <<tVars, shell, out, fd, dirfd, fname, line_start, cnt, found, stray, sys>>

Hit == \E check \in line_start .. LineEnd - 1 : IsPrefix(argument, StringAt(check))

Line == IF Hit THEN fname \o <<":">> \o StringAt(line_start) \o <<NL>> ELSE <<>>

GrepLine ==
  /\ pc = "grep line"
  /\ ~Shifted
  /\ data' = Marked
  /\ out' = out \o Line
  /\ found' = [found EXCEPT ![fdt[dirfd].position] = @ \o Line]
  /\ line_start' = LineEnd + 1
  /\ IF LineEnd + 1 < last THEN Go("grep line") /\ UNCHANGED last
     ELSE last' = 0 /\ Go(IF cnt = 0 THEN "grep close" ELSE "grep read")
  /\ UNCHANGED <<tVars, shell, fd, dirfd, fname, cnt, stray, sys>>

GrepClose ==
  /\ pc = "grep close"
  /\ TClose(fd)
  /\ Go("grep next")
  /\ UNCHANGED <<shell, out, fd, locals, sys>>

-----------------------------------------------------------------------------
(* syserr.                                                                 *)

Call(test, op, arg) == [test |-> test, op |-> op, arg |-> arg]
AllFds(test, op, lo) == [f \in 1 .. FdNum - lo |-> Call(test, op, lo + f - 1)]
NEG_FD == -1
BIG_FD == FdNum + 1

\* Of what the user may choose, choice 0: the calls of tests 1 to 4 and 5 to 8
\* in order.  All of them are to fail but in test 3; a test that fails adds 2
\* to the status.
FirstCalls ==
  <<Call(1, "read", NEG_FD), Call(1, "write", NEG_FD), Call(1, "close", NEG_FD),
    Call(2, "read", BIG_FD), Call(2, "write", BIG_FD), Call(2, "close", BIG_FD)>>
  \o [n \in 1 .. FdNum - 1 |-> Call(3, "open", <<".">>)] \o AllFds(3, "close", 2)
  \o <<Call(4, "open", <<"h", "h">>), Call(4, "open", <<>>)>>

LastCalls ==
  AllFds(5, "close", 0) \o AllFds(5, "read", 2) \o AllFds(5, "write", 2)
  \o <<Call(6, "vidmap", NULL), Call(6, "vidmap", "kernel"),
       Call(7, "write", 0), Call(7, "read", 1),
       Call(8, "number", 11), Call(8, "number", -11), Call(8, "number", 0)>>

Calls == FirstCalls \o LastCalls

\* Writes only reach the screen and the clock.
Write(f) == IF f = 1 \/ IsRtc(f) THEN ret' = 31 /\ UNCHANGED fdt ELSE TFail

\* vidmap wants an address in the program's own 4 MB.
Vidmap(screen_start) == IF screen_start = "user" THEN ret' = 0 /\ UNCHANGED fdt ELSE TFail

\* A call number outside 1 .. 10 is refused before the jump.
CallNumber(n) == (n < 1 \/ n > 10) /\ TFail

Perform(c) ==
  CASE c.op = "read"   -> Read(c.arg, 1)
    [] c.op = "write"  -> Write(c.arg)
    [] c.op = "open"   -> TOpen(c.arg) \/ (~CanOpen(c.arg) /\ TFail)
    [] c.op = "close"  -> TClose(c.arg) \/ (~CanRead(c.arg) /\ TFail)
    [] c.op = "vidmap" -> Vidmap(c.arg)
    [] c.op = "number" -> CallNumber(c.arg)

\* In test 3 only the last open may fail, as the table is full then.
Expected(n, r) ==
  IF Calls[n].test # 3 THEN r = -1
  ELSE Calls[n].op = "open" => ((r = -1) <=> (Calls[n + 1].op = "close"))

SysErr ==
  /\ pc = "syserr"
  /\ IF k > Len(Calls)
     THEN Exit(2 * Cardinality(fails)) /\ UNCHANGED <<tVars, sys>>
     ELSE /\ Perform(Calls[k])
          /\ fails' = IF Expected(k, ret') THEN fails ELSE fails \cup {Calls[k].test}
          /\ k' = k + 1
          /\ Go("syserr")
  /\ UNCHANGED <<shell, out, fd, locals>>

-----------------------------------------------------------------------------
Cat == CatOpen \/ CatRead
Ls == LsOpen \/ LsRead
Grep == \/ GrepOpenDir \/ GrepNext \/ GrepOpen \/ GrepRead
        \/ GrepShift \/ GrepLine \/ GrepClose

Running == Execute \/ Cat \/ Ls \/ Grep \/ SysErr \/ Halt

Next == (\E line \in Lines : ReadLine(line)) \/ Running

\* The kernel comes back to a program that has been started.
Spec == Init /\ [][Next]_vars /\ WF_vars(Running)

-----------------------------------------------------------------------------
TypeOK ==
  /\ fdt \in [Fds -> [ops : {RTC, DIR, FILE, TERM, NULL}, inode : Inodes,
                      position : Nat, flags : {0, 1}]]
  /\ ret \in -1 .. FdNum + BufSize + NameMax + 31
  /\ sbuf \in [SIdx -> Chars] /\ argument \in Seq(Chars) /\ out \in Seq(Chars)
  /\ last \in 0 .. BufSize /\ line_start \in 0 .. BufSize + 1
  /\ data \in [DIdx -> Chars]

\* The line is spaces, a program's name, and an argument behind spaces.
Asks(line, program, arg) ==
  \E i \in 1 .. Len(line) : \E j \in i .. Len(line) : \E m \in j + 1 .. Len(line) + 1 :
    /\ \A x \in 1 .. i - 1 \cup j + 1 .. m - 1 : line[x] = SP
    /\ \A x \in i .. j : line[x] # SP
    /\ arg = SubSeq(line, m, Len(line))
    /\ m <= Len(line) => m > j + 1 /\ line[m] # SP
    /\ LET name == SubSeq(line, i, j) IN
       /\ Runs(name)
       /\ programs[dir_entries[Least(EntriesOf(name))].inode_index] = program

(***************************************************************************)
(* A program runs only when the line typed says so, with the argument that *)
(* the line has, whatever earlier lines have left in the shell's buffer; a *)
(* blank line, on which the parser runs past the end, starts none.         *)
(***************************************************************************)
RunsWhatIsTyped ==
  pc \in {"cat", "ls", "grep"} \/ (pc = "syserr" /\ k = 1) => Asks(typed, prog, argument)

(***************************************************************************)
(* On a line that is not blank the argument stored in the PCB is shorter   *)
(* than the line, so within argument[128], also when the launch then       *)
(* fails, whatever lies behind the line in the shell's buffer and beyond.  *)
(***************************************************************************)
ArgumentFits ==
  pc # "execute" /\ Range(typed) \ {SP} # {} => Len(argument) < Len(typed)

Ended(program) == pc = "exit" /\ prog = program

\* What reading an entry to its end gives.
Contents(e) ==
  IF e.file_type = FILE THEN content[e.inode_index]
  ELSE IF e.file_type = DIR
       THEN FlattenSeq([n \in DOMAIN dir_entries |-> dir_entries[n].fname])
       ELSE <<>>

\* cat prints all of the file, once, when there is one of that name, whatever
\* the length of its buffer; otherwise it prints nothing and says why.
CatCopies ==
  Ended("cat") =>
    IF argument = <<>> THEN status = 3 /\ out = <<>>
    ELSE IF EntriesOf(argument) = {} THEN status = 2 /\ out = <<>>
    ELSE status = 0 /\ out = Contents(dir_entries[Least(EntriesOf(argument))])

\* ls prints every entry's name on a line of its own, in order.
LsLists ==
  Ended("ls") =>
    /\ status = 0
    /\ out = FlattenSeq([n \in DOMAIN dir_entries |-> Append(dir_entries[n].fname, NL)])

\* The indices before which a line of text t begins, and that line.
Starts(t) == {0} \cup {x \in DOMAIN t : t[x] = NL}
LineFrom(t, x) == SubSeq(t, x + 1, Find(x + 1, Len(t) + 1, Starts(t)) - 1)
HasWord(t, s) == \E j \in DOMAIN t : IsPrefix(s, SubSeq(t, j, Len(t)))

\* Text without a NUL, whose lines fit into grep's buffer.
Plain(t) == NUL \notin Range(t) /\ \A x \in Starts(t) : Len(LineFrom(t, x)) <= BufSize

\* What grep is to print about an entry, for each index that a line may begin
\* behind.  It passes over the names that begin with a dot.
Hits(e, word) ==
  LET t == content[e.inode_index]
  IN  [x \in 1 .. Len(t) + 1 |->
         IF x - 1 \in Starts(t) /\ HasWord(LineFrom(t, x - 1), word)
         THEN e.fname \o <<":">> \o LineFrom(t, x - 1) \o <<NL>> ELSE <<>>]

Found(e, word) ==
  IF e.file_type = FILE /\ e.fname[1] # "." THEN FlattenSeq(Hits(e, word)) ELSE <<>>

\* Whether grep can be relied on for an entry: a file must have no NUL, which
\* ends the string that is copied or printed, and lines that fit, and the
\* byte behind the buffer must not be a newline by chance.
Fit(n) ==
  LET e == dir_entries[n]
  IN  e.file_type = FILE => n \notin stray /\ Plain(content[e.inode_index])

(***************************************************************************)
(* What grep writes is what it prints at each entry of the directory in    *)
(* turn, and of each file that is fit it prints each line that has the     *)
(* word in it exactly once, wherever the line lies in the reads that bring *)
(* it and whatever the files before are: executables, which have NULs, and *)
(* files with lines that are too long are not fit, but do not disturb the  *)
(* others.  Of the directory and the clock it prints nothing.              *)
(***************************************************************************)
GrepFinds ==
  Ended("grep") =>
    IF argument = <<>> THEN status = 3
    ELSE /\ status = 0
         /\ out = FlattenSeq(found)
         /\ \A n \in DOMAIN dir_entries : Fit(n) => found[n] = Found(dir_entries[n], argument)

\* The tests in syserr pass: a call with a bad descriptor, name, address or
\* number returns -1, and the table takes as many files as it has room for.
SysErrPasses == fails = {}

\* Every line typed is answered: programs end, and grep's buffer never fills
\* up with a rest that makes it ask for nothing.
ShellComesBack == pc # "shell" ~> pc = "shell"
=============================================================================
