------------------------------ MODULE FileTable ------------------------------
(***************************************************************************)
(* What the kernel's descriptor layer promises to a program: open, close   *)
(* and read happen at once, a read takes what is left of the file up to    *)
(* the count asked for and moves the descriptor past it, and an operation  *)
(* that cannot be done returns -1 and changes nothing.  Module Files       *)
(* implements this with read_data's loop over blocks; the programs of      *)
(* module Programs are built on it.                                        *)
(***************************************************************************)
EXTENDS Integers, Sequences

CONSTANTS
  FdNum,        \* length of fdt
  dir_entries,  \* sequence of [fname, file_type, inode_index]
  Inodes,       \* inode numbers
  length,       \* length[i]: file length in bytes
  Names,        \* names programs try to open
  BufSize,      \* largest nbytes a program asks for
  NULL

RTC == 0
DIR == 1
FILE == 2
TERM == 3

Fds == 0 .. FdNum - 1
UserFds == 2 .. FdNum - 1

VARIABLES
  fdt,  \* the descriptor table of the running process
  ret   \* what the last call returned

tVars == <<fdt, ret>>

Unused == [ops |-> NULL, inode |-> 0, position |-> 0, flags |-> 0]
Stdio  == [ops |-> TERM, inode |-> 0, position |-> 0, flags |-> 1]

TInit ==
  /\ fdt = [fd \in Fds |-> IF fd < 2 THEN Stdio ELSE Unused]
  /\ ret = 0

IsOpen(fd) == fd \in Fds /\ fdt[fd].flags = 1

\* The lowest of a set of numbers.
Least(S) == CHOOSE x \in S : \A y \in S : x <= y

EntriesOf(name) == {k \in DOMAIN dir_entries : dir_entries[k].fname = name}
FreeUserFds == {fd \in UserFds : ~IsOpen(fd)}

\* The lowest free descriptor, on the first entry of that name.
TOpen(name) ==
  /\ EntriesOf(name) # {} /\ FreeUserFds # {}
  /\ LET e == dir_entries[Least(EntriesOf(name))] IN
     /\ ret' = Least(FreeUserFds)
     /\ fdt' = [fdt EXCEPT ![ret'] =
          [ops |-> e.file_type, inode |-> IF e.file_type = FILE THEN e.inode_index ELSE 0,
           position |-> 0, flags |-> 1]]

\* Mutant of TClose: stdin and stdout may be closed.
TCloseAny(fd) ==
  /\ fd \in Fds /\ IsOpen(fd)
  /\ fdt' = [fdt EXCEPT ![fd].flags = 0]
  /\ ret' = 0

TClose(fd) ==
  /\ fd \in UserFds /\ IsOpen(fd)
  /\ fdt' = [fdt EXCEPT ![fd].flags = 0]
  /\ ret' = 0

\* What a read of n bytes through fd takes from its file.
Taken(fd, n) ==
  LET left == length[fdt[fd].inode] - fdt[fd].position IN IF n <= left THEN n ELSE left

TReadFile(fd, n) ==
  /\ IsOpen(fd) /\ fdt[fd].ops = FILE /\ n > 0
  /\ ret' = Taken(fd, n)
  /\ fdt' = [fdt EXCEPT ![fd].position = @ + Taken(fd, n)]

TReadDir(fd) ==
  /\ IsOpen(fd) /\ fdt[fd].ops = DIR
  /\ IF fdt[fd].position >= Len(dir_entries)
     THEN ret' = 0 /\ UNCHANGED fdt
     ELSE /\ ret' = Len(dir_entries[fdt[fd].position + 1].fname)
          /\ fdt' = [fdt EXCEPT ![fd].position = @ + 1]

\* execute reads a file of its own choice, from its start.
TLoad(i, n) == ret' = (IF n <= length[i] THEN n ELSE length[i]) /\ UNCHANGED fdt

\* Any call may fail: the causes are the code's, so that Files implements this
\* shows what a call does that succeeds and not that it succeeds.
TFail == ret' = -1 /\ UNCHANGED fdt

\* The program ends; the next one starts with stdin and stdout.
TExit ==
  /\ fdt' = [fd \in Fds |-> IF fd < 2 THEN Stdio ELSE [fdt[fd] EXCEPT !.flags = 0]]
  /\ UNCHANGED ret

TNext ==
  \/ \E name \in Names : TOpen(name)
  \/ \E fd \in Fds : TClose(fd) \/ TReadDir(fd) \/ \E n \in 1 .. BufSize : TReadFile(fd, n)
  \/ \E i \in Inodes, n \in 1 .. BufSize : TLoad(i, n)
  \/ TFail \/ TExit

TSpec == TInit /\ [][TNext]_tVars
=============================================================================
