-------------------------------- MODULE Files --------------------------------
(***************************************************************************)
(* The read-only file system and the file descriptor table of a process:   *)
(* open, close and read (system_call.c), read_dentry_by_name, file_read,   *)
(* dir_read and read_data (files.c), and execute's use of read_data to     *)
(* load a program.                                                         *)
(*                                                                         *)
(* read_data is a loop that copies one run of bytes within one data block  *)
(* per iteration; an iteration is a step here.  Reads of the RTC and the   *)
(* terminal are in their own modules.                                      *)
(***************************************************************************)
EXTENDS Integers, Sequences

CONSTANTS
  FdNum,        \* length of fdt
  BlockSize,    \* bytes in a data block (4096)
  WordSize,     \* 2^32, where uint32_t wraps
  dir_entries,  \* the boot block's entries: sequence of [fname, file_type, inode_index]
  Inodes,       \* inode numbers
  length,       \* length[i]: file length in bytes
  data_block_list,  \* data_block_list[i][b]: block number of the file's block b
  data_block,   \* data_block[d][o]: byte o of data block d
  Names,        \* names programs try to open
  BufSize,      \* largest nbytes a program asks for
  NULL

RTC == 0
DIR == 1
FILE == 2
TERM == 3

Fds == 0 .. FdNum - 1
UserFds == 2 .. FdNum - 1
FdArgs == -1 .. FdNum      \* what programs pass for a descriptor
BufIdx == 0 .. BufSize - 1
Bytes == UNION {{data_block[d][o] : o \in 0 .. BlockSize - 1} : d \in DOMAIN data_block}

ASSUME SizeAssumption ==
  /\ FdNum \in Nat /\ FdNum > 2
  /\ BlockSize \in Nat /\ BlockSize > 0 /\ BufSize \in Nat
  /\ WordSize \in Nat /\ BufSize < WordSize
  /\ NULL \notin Int

\* The boot block, the inodes and the blocks of a well-formed image.
ASSUME FsAssumption ==
  /\ 0 \in Inodes
  /\ length \in [Inodes -> Nat]
  /\ \A i \in Inodes : length[i] < WordSize
  /\ \A i \in Inodes : \A b \in 0 .. length[i] :
       b * BlockSize < length[i] => data_block_list[i][b] \in DOMAIN data_block
  /\ Len(dir_entries) \in Nat /\ DOMAIN dir_entries = 1 .. Len(dir_entries)
  /\ \A k \in DOMAIN dir_entries : /\ Len(dir_entries[k].fname) \in Nat
                                   /\ dir_entries[k].file_type \in {RTC, DIR, FILE}
                                   /\ dir_entries[k].inode_index \in Inodes

VARIABLES
  fdt,      \* the descriptor table of the running process
  buf,      \* the caller's buffer during a read
  call,     \* read_data's arguments and locals, or NULL
  ret       \* what the last call returned

vars == <<fdt, buf, call, ret>>

Fd == [ops : {RTC, DIR, FILE, TERM, NULL}, inode : Inodes, position : Nat, flags : {0, 1}]

\* fd is NULL when execute is the caller.
Call == [fd : Fds \cup {NULL}, inode : Inodes, offset : Nat, nbytes : Nat,
         num_bytes : Nat, length_file_remain : Nat, block_index : Nat,
         offset_in_one_block : Nat, bytes_index : Nat]

ASSUME NullAssumption == NULL \notin Call /\ NULL \notin Bytes

Unused == [ops |-> NULL, inode |-> 0, position |-> 0, flags |-> 0]
Stdio  == [ops |-> TERM, inode |-> 0, position |-> 0, flags |-> 1]

\* Every call of read gets a buffer of its own.
Fresh == [k \in BufIdx |-> NULL]

\* set_up_io_file on a PCB in memory that was never used.
Init ==
  /\ fdt = [fd \in Fds |-> IF fd < 2 THEN Stdio ELSE Unused]
  /\ buf = Fresh
  /\ call = NULL
  /\ ret = 0

-----------------------------------------------------------------------------
\* read_dentry_by_name: the first entry of that name (see module
\* Dentry).
Matches(name) == {k \in DOMAIN dir_entries : dir_entries[k].fname = name}
Lookup(name) == dir_entries[CHOOSE k \in Matches(name) : \A j \in Matches(name) : k <= j]

FreeFds == {fd \in UserFds : fdt[fd].flags = 0}

\* Mutant of Open: the position of the descriptor's last file is kept.
OpenKeepsPosition(name) ==
  /\ call = NULL
  /\ IF Matches(name) = {} \/ FreeFds = {}
     THEN ret' = -1 /\ UNCHANGED fdt
     ELSE LET fd == CHOOSE f \in FreeFds : \A g \in FreeFds : f <= g
              d  == Lookup(name)
          IN  /\ fdt' = [fdt EXCEPT ![fd] =
                    [ops |-> d.file_type,
                     inode |-> IF d.file_type = FILE THEN d.inode_index ELSE 0,
                     position |-> fdt[fd].position, flags |-> 1]]
              /\ ret' = fd
  /\ UNCHANGED <<buf, call>>

Open(name) ==
  /\ call = NULL
  /\ IF Matches(name) = {} \/ FreeFds = {}
     THEN ret' = -1 /\ UNCHANGED fdt
     ELSE LET fd == CHOOSE f \in FreeFds : \A g \in FreeFds : f <= g
              d  == Lookup(name)
          IN  /\ fdt' = [fdt EXCEPT ![fd] =
                    [ops |-> d.file_type,
                     inode |-> IF d.file_type = FILE THEN d.inode_index ELSE 0,
                     position |-> 0, flags |-> 1]]
              /\ ret' = fd
  /\ UNCHANGED <<buf, call>>

InUse(fd) == fd \in Fds /\ fdt[fd].flags # 0 /\ fdt[fd].ops # NULL

Close(fd) ==
  /\ call = NULL
  /\ IF fd >= 2 /\ InUse(fd)
     THEN fdt' = [fdt EXCEPT ![fd].flags = 0] /\ ret' = 0
     ELSE ret' = -1 /\ UNCHANGED fdt
  /\ UNCHANGED <<buf, call>>

\* real_halt clears the table; the next process in this slot sets up 0 and 1.
Exit ==
  /\ call = NULL
  /\ fdt' = [fd \in Fds |-> IF fd < 2 THEN Stdio ELSE [fdt[fd] EXCEPT !.flags = 0]]
  /\ UNCHANGED <<buf, call, ret>>

\* Writes to stdin, to a file and to the directory, reads of stdout, and both
\* through a descriptor that is not open.
TransferFails(fd) ==
  /\ call = NULL
  /\ InUse(fd) /\ fd >= 2 => fdt[fd].ops \in {FILE, DIR}
  /\ ret' = -1
  /\ UNCHANGED <<fdt, buf, call>>

\* dir_read hands out one name a call, NUL padded, and returns its length.
ReadDir(fd) ==
  /\ call = NULL
  /\ InUse(fd) /\ fdt[fd].ops = DIR
  /\ IF fdt[fd].position >= Len(dir_entries)
     THEN ret' = 0 /\ UNCHANGED fdt
     ELSE /\ ret' = Len(dir_entries[fdt[fd].position + 1].fname)
          /\ fdt' = [fdt EXCEPT ![fd].position = @ + 1]
  /\ UNCHANGED <<buf, call>>

-----------------------------------------------------------------------------
(* read_data.                                                              *)

\* Left out: boot_block is set before any call, and the image's inodes are in
\* range, so the checks of both never fail (FsAssumption).
Begin(fd, i, off, n) ==
  call' = [fd |-> fd, inode |-> i, offset |-> off, nbytes |-> n, num_bytes |-> n,
           length_file_remain |-> (length[i] - off) % WordSize,
           block_index |-> off \div BlockSize,
           offset_in_one_block |-> off % BlockSize, bytes_index |-> 0]

\* file_read checks its arguments and starts at the descriptor's position.
ReadFile(fd, n) ==
  /\ call = NULL
  /\ InUse(fd) /\ fdt[fd].ops = FILE
  /\ IF n <= 0
     THEN ret' = -1 /\ UNCHANGED call
     ELSE /\ Begin(fd, fdt[fd].inode, fdt[fd].position, n)
          /\ UNCHANGED ret
  /\ UNCHANGED <<fdt, buf>>

\* execute reads a file from its start (header, then the whole image).
ReadImage(i, n) ==
  /\ call = NULL
  /\ Begin(NULL, i, 0, n)
  /\ UNCHANGED <<fdt, buf, ret>>

\* Mutant of More: the loop runs on when every byte asked for was copied.
MoreAtZero == call.num_bytes >= 0 /\ call.length_file_remain > 0

More == call.num_bytes > 0 /\ call.length_file_remain > 0

\* Mutant of IndexInData: the end of the file is forgotten.
IndexPastEof ==
  LET room == BlockSize - call.offset_in_one_block IN
  IF call.num_bytes < room THEN call.num_bytes ELSE room

\* index_in_data, the number of bytes this iteration copies.
IndexInData ==
  LET room == BlockSize - call.offset_in_one_block IN
  IF call.num_bytes < room /\ call.num_bytes <= call.length_file_remain
  THEN call.num_bytes
  ELSE IF call.num_bytes > call.length_file_remain /\ call.length_file_remain < room
       THEN call.length_file_remain
       ELSE room

\* The data block in use and the byte that lands at index k of buf.
SourceByte(k) ==
  data_block[data_block_list[call.inode][call.block_index]]
            [call.offset_in_one_block + k - call.bytes_index]

\* Mutant of ReadChunk: the next block is not started at its beginning.
ReadChunkKeepsOffset ==
  /\ call # NULL
  /\ More
  /\ LET n == IndexInData
         more == call.num_bytes - n > 0 /\ call.length_file_remain - n > 0
     IN  /\ buf' = [k \in BufIdx |->
                      IF call.bytes_index <= k /\ k < call.bytes_index + n
                      THEN SourceByte(k) ELSE buf[k]]
         /\ call' = [call EXCEPT
              !.num_bytes = @ - n,
              !.length_file_remain = @ - n,
              !.bytes_index = @ + n,
              !.block_index = IF more THEN @ + 1 ELSE @,
              !.offset_in_one_block = IF more THEN @ ELSE @ + n]
  /\ UNCHANGED <<fdt, ret>>

ReadChunk ==
  /\ call # NULL
  /\ More
  /\ LET n == IndexInData
         more == call.num_bytes - n > 0 /\ call.length_file_remain - n > 0
     IN  /\ buf' = [k \in BufIdx |->
                      IF call.bytes_index <= k /\ k < call.bytes_index + n
                      THEN SourceByte(k) ELSE buf[k]]
         /\ call' = [call EXCEPT
              !.num_bytes = @ - n,
              !.length_file_remain = @ - n,
              !.bytes_index = @ + n,
              !.block_index = IF more THEN @ + 1 ELSE @,
              !.offset_in_one_block = IF more THEN 0 ELSE @ + n]
  /\ UNCHANGED <<fdt, ret>>

\* Mutant of ReadEnd: the position moves by the bytes asked for.
ReadEndByAsked ==
  /\ call # NULL
  /\ ~More
  /\ ret' = call.bytes_index
  /\ fdt' = IF call.fd = NULL THEN fdt
            ELSE [fdt EXCEPT ![call.fd].position = @ + call.nbytes]
  /\ call' = NULL
  /\ buf' = Fresh

\* read_data returns, and file_read moves the descriptor's position.
ReadEnd ==
  /\ call # NULL
  /\ ~More
  /\ ret' = call.bytes_index
  /\ fdt' = IF call.fd = NULL THEN fdt
            ELSE [fdt EXCEPT ![call.fd].position = @ + call.bytes_index]
  /\ call' = NULL
  /\ buf' = Fresh

-----------------------------------------------------------------------------
Next ==
  \/ \E name \in Names : Open(name)
  \/ \E fd \in FdArgs : Close(fd) \/ TransferFails(fd) \/ ReadDir(fd)
  \/ Exit
  \/ \E fd \in Fds, n \in 0 .. BufSize : ReadFile(fd, n)
  \/ \E i \in Inodes, n \in 1 .. BufSize : ReadImage(i, n)
  \/ ReadChunk \/ ReadEnd

Spec == Init /\ [][Next]_vars

\* read_data's loop runs on.
LiveSpec == Spec /\ WF_vars(ReadChunk \/ ReadEnd)

-----------------------------------------------------------------------------
TypeOK ==
  /\ fdt \in [Fds -> Fd]
  /\ buf \in [BufIdx -> Bytes \cup {NULL}]
  /\ call \in Call \cup {NULL}
  /\ ret \in Int

\* Byte o of the file of inode i, found through its block list.
FileByte(i, o) == data_block[data_block_list[i][o \div BlockSize]][o % BlockSize]

Smaller(a, b) == IF a <= b THEN a ELSE b

\* How many bytes a call of read_data must deliver.
Due == Smaller(call.nbytes, length[call.inode] - call.offset)

(***************************************************************************)
(* What read_data promises, at every turn of its loop: the bytes stored so *)
(* far are the file's bytes from offset on, the rest of the caller's       *)
(* buffer is untouched, and when the loop ends exactly Due bytes are       *)
(* there, whatever blocks the range starts, crosses and ends in.           *)
(***************************************************************************)
ReadDelivers ==
  call # NULL =>
    /\ call.bytes_index <= Due
    /\ \A k \in BufIdx : buf[k] = IF k < call.bytes_index
                                  THEN FileByte(call.inode, call.offset + k)
                                  ELSE NULL
    /\ ~More => call.bytes_index = Due

\* A descriptor's position never passes the end of its file, so the unsigned
\* length - offset in read_data never wraps; a directory's never passes the
\* last entry.
PositionInFile ==
  \A fd \in Fds : fdt[fd].flags = 1 =>
    /\ fdt[fd].ops = FILE => fdt[fd].position <= length[fdt[fd].inode]
    /\ fdt[fd].ops = DIR => fdt[fd].position <= Len(dir_entries)

\* The loop only takes bytes from the file's own blocks, and only from the
\* part of the last one that belongs to the file.
ChunkInFile ==
  call # NULL /\ More =>
    /\ call.offset_in_one_block + IndexInData <= BlockSize
    /\ call.block_index * BlockSize + call.offset_in_one_block + IndexInData
         <= length[call.inode]
    /\ IndexInData > 0

\* Every read returns.
ReadReturns == call # NULL ~> call = NULL

\* Files implements FileTable: seen through the descriptors and the values
\* that calls return, a read is one step, however many blocks it crosses.
Table == INSTANCE FileTable
ImplementsFileTable == Table!TSpec
=============================================================================
