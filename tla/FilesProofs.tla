----------------------------- MODULE FilesProofs -----------------------------
(***************************************************************************)
(* Proofs about Files, for every block size, every well-formed image and   *)
(* every sequence of calls.  FilesInv is the inductive invariant.          *)
(***************************************************************************)
EXTENDS Files, WellFoundedInduction, TLAPS

\* Every non-empty set of naturals has a least element.
LEMMA LeastExists ==
  ASSUME NEW S \in SUBSET Nat, S # {}
  PROVE  \E m \in S : \A r \in S : m <= r
<1>1. PICK m \in S : \A r \in S : ~(<<r, m>> \in OpToRel(<, Nat))
  BY NatLessThanWellFounded, WFMin
<1>2. \A r \in S : ~(r < m)
  BY <1>1 DEF OpToRel
<1>3. QED
  BY <1>2

LEMMA DivMod ==
  ASSUME NEW a \in Nat
  PROVE  /\ a \div BlockSize \in Nat
         /\ a % BlockSize \in 0 .. BlockSize - 1
         /\ a = ((a \div BlockSize) * BlockSize) + (a % BlockSize)
  BY SizeAssumption

LEMMA DivUnique ==
  ASSUME NEW b \in Nat, NEW r \in 0 .. BlockSize - 1
  PROVE  /\ ((b * BlockSize) + r) \div BlockSize = b
         /\ ((b * BlockSize) + r) % BlockSize = r
  BY SizeAssumption

\* A number below the wrap is its own remainder.
LEMMA NoWrap ==
  ASSUME NEW a \in Nat, a < WordSize
  PROVE  a % WordSize = a
  BY SizeAssumption

-----------------------------------------------------------------------------
\* The descriptor a read works for.
CallerInv ==
  call # NULL =>
    /\ call.offset <= length[call.inode]
    /\ call.nbytes <= BufSize /\ call.nbytes > 0
    /\ call.fd = NULL => call.offset = 0
    /\ call.fd # NULL => /\ fdt[call.fd].flags = 1 /\ fdt[call.fd].ops = FILE
                         /\ fdt[call.fd].inode = call.inode
                         /\ fdt[call.fd].position = call.offset

\* The loop's counters: what is left, and where in the file it stands.
CounterInv ==
  call # NULL =>
    /\ call.num_bytes = call.nbytes - call.bytes_index
    /\ call.length_file_remain = length[call.inode] - (call.offset + call.bytes_index)
    /\ (call.block_index * BlockSize) + call.offset_in_one_block
         = call.offset + call.bytes_index
    /\ More => call.offset_in_one_block < BlockSize

\* The bytes stored so far.
BufInv ==
  \A k \in BufIdx : buf[k] = IF call # NULL /\ k < call.bytes_index
                             THEN FileByte(call.inode, call.offset + k)
                             ELSE NULL

FilesInv == TypeOK /\ PositionInFile /\ CallerInv /\ CounterInv /\ BufInv

-----------------------------------------------------------------------------
LEMMA IndexInDataFacts ==
  ASSUME TypeOK, CounterInv, call # NULL, More
  PROVE  /\ IndexInData \in Nat /\ IndexInData > 0
         /\ IndexInData <= call.num_bytes
         /\ IndexInData <= call.length_file_remain
         /\ call.offset_in_one_block + IndexInData <= BlockSize
         /\ \/ IndexInData = call.num_bytes
            \/ IndexInData = call.length_file_remain
            \/ IndexInData = BlockSize - call.offset_in_one_block
  BY SizeAssumption DEF TypeOK, Call, CounterInv, More, IndexInData

THEOREM InitFilesInv == Init => FilesInv
<1> SUFFICES ASSUME Init PROVE FilesInv
    OBVIOUS
<1>1. fdt \in [Fds -> Fd]
  BY SizeAssumption, FsAssumption DEF Init, Fd, Fds, Stdio, Unused
<1>2. TypeOK
  BY <1>1 DEF Init, TypeOK, Fresh
<1>3. PositionInFile
  BY SizeAssumption, FsAssumption DEF Init, PositionInFile, Stdio, Unused, TERM, FILE, DIR
<1>4. CallerInv /\ CounterInv /\ BufInv
  BY DEF Init, CallerInv, CounterInv, BufInv, Fresh
<1>5. QED
  BY <1>2, <1>3, <1>4 DEF FilesInv

LEMMA IdleKeepsInv ==
  ASSUME FilesInv, call = NULL, UNCHANGED <<buf, call>>, ret' \in Int,
         fdt' \in [Fds -> Fd], PositionInFile'
  PROVE  FilesInv'
<1>1. TypeOK'
  BY DEF FilesInv, TypeOK
<1>2. CallerInv' /\ CounterInv' /\ BufInv'
  BY DEF FilesInv, CallerInv, CounterInv, BufInv
<1>3. QED
  BY <1>1, <1>2 DEF FilesInv

LEMMA OpenKeepsInv ==
  ASSUME FilesInv, NEW name \in Names, Open(name)
  PROVE  FilesInv'
<1>1. CASE Matches(name) = {} \/ FreeFds = {}
  BY <1>1, IdleKeepsInv DEF Open, FilesInv, TypeOK, PositionInFile
<1>2. CASE ~(Matches(name) = {} \/ FreeFds = {})
  <2> DEFINE fd == CHOOSE f \in FreeFds : \A g \in FreeFds : f <= g
             d  == Lookup(name)
             new == [ops |-> d.file_type,
                     inode |-> IF d.file_type = FILE THEN d.inode_index ELSE 0,
                     position |-> 0, flags |-> 1]
  <2>1. fd \in Fds
    <3>1. FreeFds \in SUBSET Nat /\ FreeFds # {}
      BY <1>2, SizeAssumption, FsAssumption DEF FreeFds, UserFds
    <3>2. \E f \in FreeFds : \A g \in FreeFds : f <= g
      BY <3>1, LeastExists
    <3>3. QED
      BY <3>2 DEF FreeFds, UserFds, Fds
  <2>2. d.file_type \in {RTC, DIR, FILE} /\ d.inode_index \in Inodes
    <3>1. Matches(name) \in SUBSET Nat /\ Matches(name) # {}
      BY <1>2, SizeAssumption, FsAssumption DEF Matches
    <3>2. \E k \in Matches(name) : \A j \in Matches(name) : k <= j
      BY <3>1, LeastExists
    <3>3. PICK k \in DOMAIN dir_entries : d = dir_entries[k]
      BY <3>2 DEF Lookup, Matches
    <3>4. QED
      BY <3>3, SizeAssumption, FsAssumption
  <2>3. fdt' = [fdt EXCEPT ![fd] = new] /\ ret' = fd /\ call = NULL /\ UNCHANGED <<buf, call>>
    BY <1>2 DEF Open
  <2> HIDE DEF fd, d
  <2>4. new \in Fd
    BY <2>2, SizeAssumption, FsAssumption DEF Fd
  <2>5. fdt' \in [Fds -> Fd] /\ ret' \in Int
    BY <2>1, <2>3, <2>4 DEF FilesInv, TypeOK, Fds
  <2>6. PositionInFile'
    <3>1. ASSUME NEW g \in Fds, g # fd PROVE fdt'[g] = fdt[g]
      BY <2>1, <2>3, <3>1 DEF FilesInv, TypeOK
    <3>2. fdt'[fd] = new
      BY <2>1, <2>3 DEF FilesInv, TypeOK
    <3> HIDE DEF new
    <3>3. fdt'[fd].position = 0 /\ fdt'[fd].inode \in Inodes
      BY <2>4, <3>2 DEF new, Fd
    <3>4. length[fdt'[fd].inode] \in Nat /\ Len(dir_entries) \in Nat
      BY <3>3, FsAssumption
    <3>5. ASSUME NEW g \in Fds, fdt'[g].flags = 1
          PROVE  /\ fdt'[g].ops = FILE => fdt'[g].position <= length[fdt'[g].inode]
                 /\ fdt'[g].ops = DIR => fdt'[g].position <= Len(dir_entries)
      <4>1. CASE g = fd
        BY <3>3, <3>4, <4>1
      <4>2. CASE g # fd
        BY <3>1, <3>5, <4>2 DEF FilesInv, PositionInFile
      <4>3. QED
        BY <4>1, <4>2
    <3>6. QED
      BY <3>5 DEF PositionInFile
  <2>7. QED
    BY <2>3, <2>5, <2>6, IdleKeepsInv
<1>3. QED
  BY <1>1, <1>2

LEMMA OtherKeepsInv ==
  ASSUME FilesInv,
         \/ \E fd \in FdArgs : Close(fd) \/ TransferFails(fd) \/ ReadDir(fd)
         \/ Exit
  PROVE  FilesInv'
<1>1. ASSUME NEW fd \in FdArgs, Close(fd) PROVE FilesInv'
  <2>1. fdt' \in [Fds -> Fd] /\ ret' \in Int
    BY <1>1 DEF Close, FilesInv, TypeOK, Fd
  <2>2. PositionInFile'
    BY <1>1 DEF Close, FilesInv, TypeOK, Fd, PositionInFile
  <2>3. QED
    BY <1>1, <2>1, <2>2, IdleKeepsInv DEF Close
<1>2. ASSUME NEW fd \in FdArgs, TransferFails(fd) PROVE FilesInv'
  BY <1>2, IdleKeepsInv DEF TransferFails, FilesInv, TypeOK, PositionInFile
<1>3. ASSUME NEW fd \in FdArgs, ReadDir(fd) PROVE FilesInv'
  <2>0. fd \in Fds
    BY <1>3 DEF ReadDir, InUse
  <2>1. CASE fdt[fd].position >= Len(dir_entries)
    BY <1>3, <2>1, IdleKeepsInv DEF ReadDir, FilesInv, TypeOK, PositionInFile
  <2>2. CASE ~(fdt[fd].position >= Len(dir_entries))
    <3>1. fdt' = [fdt EXCEPT ![fd].position = fdt[fd].position + 1]
      BY <1>3, <2>2 DEF ReadDir
    <3>2. fdt[fd].position \in Nat /\ fdt[fd].ops = DIR /\ Len(dir_entries) \in Nat
      BY <1>3, <2>0, SizeAssumption, FsAssumption DEF ReadDir, InUse, FilesInv, TypeOK, Fd
    <3> DEFINE new == [fdt[fd] EXCEPT !.position = fdt[fd].position + 1]
    <3>a. new \in Fd
      BY <2>0, <3>2 DEF FilesInv, TypeOK, Fd
    <3>b. fdt' = [fdt EXCEPT ![fd] = new]
      BY <3>1
    <3>3. fdt' \in [Fds -> Fd]
      BY <2>0, <3>a, <3>b DEF FilesInv, TypeOK
    <3>4. PositionInFile'
      BY <2>0, <2>2, <3>1, <3>2 DEF FilesInv, TypeOK, Fd, PositionInFile, FILE, DIR
    <3>5. ret' \in Int
      <4>1. fdt[fd].position + 1 \in DOMAIN dir_entries
        BY <2>2, <3>2, FsAssumption
      <4>2. Len(dir_entries[fdt[fd].position + 1].fname) \in Int
        BY <4>1, FsAssumption
      <4>3. QED
        BY <1>3, <2>2, <4>2 DEF ReadDir
    <3>6. QED
      BY <1>3, <3>3, <3>4, <3>5, IdleKeepsInv DEF ReadDir
  <2>3. QED
    BY <2>1, <2>2
<1>4. CASE Exit
  <2>1. fdt' \in [Fds -> Fd]
    <3>1. Stdio \in Fd
      BY SizeAssumption, FsAssumption DEF Stdio, Fd
    <3>2. ASSUME NEW fd \in Fds PROVE [fdt[fd] EXCEPT !.flags = 0] \in Fd
      <4>1. fdt[fd] \in Fd
        BY DEF FilesInv, TypeOK
      <4>2. QED
        BY <4>1 DEF Fd
    <3>3. QED
      BY <1>4, <3>1, <3>2 DEF Exit
  <2>2. PositionInFile'
    BY <1>4, <2>1 DEF Exit, FilesInv, TypeOK, Fd, PositionInFile, Stdio, TERM, FILE, DIR
  <2>3. QED
    BY <1>4, <2>1, <2>2, IdleKeepsInv DEF Exit, FilesInv, TypeOK
<1>5. QED
  BY <1>1, <1>2, <1>3, <1>4

-----------------------------------------------------------------------------
\* Every call of read_data starts with its counters right: the offset is
\* inside the file, so the subtraction does not wrap.
LEMMA BeginEstablishes ==
  ASSUME FilesInv, call = NULL, UNCHANGED <<fdt, buf, ret>>,
         NEW fd \in Fds \cup {NULL}, NEW i \in Inodes, NEW off \in Nat, NEW n \in 1 .. BufSize,
         Begin(fd, i, off, n), off <= length[i],
         fd = NULL => off = 0,
         fd # NULL => /\ fdt[fd].flags = 1 /\ fdt[fd].ops = FILE
                      /\ fdt[fd].inode = i /\ fdt[fd].position = off
  PROVE  FilesInv'
<1>1. length[i] \in Nat /\ length[i] - off \in Nat /\ length[i] - off < WordSize
  BY SizeAssumption, FsAssumption
<1>2. (length[i] - off) % WordSize = length[i] - off
  BY <1>1, NoWrap
<1>3. /\ off \div BlockSize \in Nat
      /\ off % BlockSize \in 0 .. BlockSize - 1
      /\ off = ((off \div BlockSize) * BlockSize) + (off % BlockSize)
  BY DivMod
<1>4. call' = [fd |-> fd, inode |-> i, offset |-> off, nbytes |-> n, num_bytes |-> n,
               length_file_remain |-> length[i] - off,
               block_index |-> off \div BlockSize,
               offset_in_one_block |-> off % BlockSize, bytes_index |-> 0]
  BY <1>2 DEF Begin
<1> HIDE DEF Begin
<1>5. call' \in Call /\ call' # NULL
  BY <1>1, <1>3, <1>4, SizeAssumption, NullAssumption DEF Call
<1>6. TypeOK' /\ PositionInFile'
  BY <1>5 DEF FilesInv, TypeOK, PositionInFile
<1>7. CallerInv'
  BY <1>4, SizeAssumption DEF CallerInv
<1>8. CounterInv'
  <2> DEFINE m == (off \div BlockSize) * BlockSize
             o == off % BlockSize
  <2>a. m + o = off /\ o \in 0 .. BlockSize - 1
    BY <1>3
  <2>2. /\ call'.num_bytes = n /\ call'.nbytes = n /\ call'.bytes_index = 0
        /\ call'.length_file_remain = length[i] - off
        /\ call'.inode = i /\ call'.offset = off
        /\ call'.block_index * BlockSize = m /\ call'.offset_in_one_block = o
    BY <1>4
  <2> HIDE DEF m, o
  <2>b. n \in Nat /\ n = n - 0
    BY SizeAssumption
  <2>c. off = off + 0
    BY SizeAssumption
  <2>1. /\ m + o = off + 0 /\ o < BlockSize /\ n = n - 0 /\ n \in Nat
        /\ length[i] - off = length[i] - (off + 0)
    BY <2>a, <2>b, <2>c, SizeAssumption
  <2>3. QED
    BY <2>1, <2>2 DEF CounterInv
<1>9. BufInv'
  <2>1. \A k \in BufIdx : buf'[k] = NULL /\ ~(k < call'.bytes_index)
    BY <1>4, SizeAssumption DEF FilesInv, BufInv, BufIdx
  <2>2. QED
    BY <2>1 DEF BufInv
<1>10. QED
  BY <1>6, <1>7, <1>8, <1>9 DEF FilesInv

LEMMA ReadFileKeepsInv ==
  ASSUME FilesInv, NEW fd \in Fds, NEW n \in 0 .. BufSize, ReadFile(fd, n)
  PROVE  FilesInv'
<1>1. CASE n <= 0
  BY <1>1, IdleKeepsInv DEF ReadFile, FilesInv, TypeOK, PositionInFile
<1>2. CASE ~(n <= 0)
  <2>1. n \in 1 .. BufSize /\ Begin(fd, fdt[fd].inode, fdt[fd].position, n)
    BY <1>2, SizeAssumption DEF ReadFile
  <2>2. /\ fdt[fd].inode \in Inodes /\ fdt[fd].position \in Nat
        /\ fdt[fd].flags = 1 /\ fdt[fd].ops = FILE
    BY DEF FilesInv, TypeOK, Fd, ReadFile, InUse
  <2>3. fdt[fd].position <= length[fdt[fd].inode]
    BY <2>2 DEF FilesInv, PositionInFile
  <2>4. call = NULL /\ UNCHANGED <<fdt, buf, ret>>
    BY <1>2 DEF ReadFile
  <2>5. fd # NULL
    BY SizeAssumption DEF Fds
  <2>6. QED
    BY <2>1, <2>2, <2>3, <2>4, <2>5, BeginEstablishes
<1>3. QED
  BY <1>1, <1>2

LEMMA ReadImageKeepsInv ==
  ASSUME FilesInv, NEW i \in Inodes, NEW n \in 1 .. BufSize, ReadImage(i, n)
  PROVE  FilesInv'
<1>1. 0 \in Nat /\ 0 <= length[i]
  BY FsAssumption
<1>2. QED
  BY <1>1, BeginEstablishes DEF ReadImage

\* One turn of the loop copies bytes of one block of the file and leaves the
\* counters in step.
LEMMA ReadChunkKeepsInv ==
  ASSUME FilesInv, ReadChunk
  PROVE  FilesInv'
<1> DEFINE n == IndexInData
           more == call.num_bytes - n > 0 /\ call.length_file_remain - n > 0
           b == call.block_index
           o == call.offset_in_one_block
           j == call.bytes_index
           m == b * BlockSize
<1>1. /\ call # NULL /\ More /\ call \in Call /\ call.inode \in Inodes
      /\ b \in Nat /\ o \in Nat /\ j \in Nat /\ call.offset \in Nat
      /\ call.num_bytes \in Nat /\ call.length_file_remain \in Nat
      /\ length[call.inode] \in Nat
  BY FsAssumption DEF ReadChunk, FilesInv, TypeOK, Call
<1>2. /\ n \in Nat /\ n > 0 /\ n <= call.num_bytes /\ n <= call.length_file_remain
      /\ o + n <= BlockSize
      /\ \/ n = call.num_bytes \/ n = call.length_file_remain \/ n = BlockSize - o
  BY <1>1, IndexInDataFacts DEF FilesInv
<1>3. /\ call.length_file_remain = length[call.inode] - (call.offset + j)
      /\ m + o = call.offset + j
      /\ o < BlockSize /\ m \in Nat
  BY <1>1, SizeAssumption DEF FilesInv, CounterInv
<1>4. /\ call' = [call EXCEPT !.num_bytes = @ - n, !.length_file_remain = @ - n,
                              !.bytes_index = @ + n,
                              !.block_index = IF more THEN @ + 1 ELSE @,
                              !.offset_in_one_block = IF more THEN 0 ELSE @ + n]
      /\ buf' = [k \in BufIdx |-> IF j <= k /\ k < j + n THEN SourceByte(k) ELSE buf[k]]
      /\ UNCHANGED <<fdt, ret>>
  BY DEF ReadChunk
<1> HIDE DEF n, m
<1>5. /\ call' \in Call /\ call' # NULL
      /\ call'.fd = call.fd /\ call'.inode = call.inode /\ call'.offset = call.offset
      /\ call'.nbytes = call.nbytes
      /\ call'.num_bytes = call.num_bytes - n
      /\ call'.length_file_remain = call.length_file_remain - n
      /\ call'.bytes_index = j + n
      /\ call'.block_index = (IF more THEN b + 1 ELSE b)
      /\ call'.offset_in_one_block = (IF more THEN 0 ELSE o + n)
  <2>1. call.num_bytes - n \in Nat /\ call.length_file_remain - n \in Nat /\ j + n \in Nat
        /\ b + 1 \in Nat /\ o + n \in Nat
    BY <1>1, <1>2
  <2> HIDE DEF more
  <2>2. call' \in Call
    BY <1>1, <1>4, <2>1, SizeAssumption DEF Call
  <2>3. call' # NULL
    BY <2>2, NullAssumption
  <2>4. QED
    BY <1>1, <1>4, <2>2, <2>3 DEF Call
<1>6. b * BlockSize < length[call.inode] /\ b <= length[call.inode]
  <2>1. m < length[call.inode]
    BY <1>1, <1>2, <1>3
  <2>2. b <= b * BlockSize
    BY <1>1, SizeAssumption
  <2>3. QED
    BY <1>1, <1>3, <2>1, <2>2 DEF m
<1>7. data_block_list[call.inode][b] \in DOMAIN data_block
  BY <1>1, <1>6, FsAssumption
<1>8. ASSUME NEW k \in BufIdx, j <= k, k < j + n
      PROVE  /\ SourceByte(k) = FileByte(call.inode, call.offset + k)
             /\ SourceByte(k) \in Bytes
  <2> DEFINE r == o + k - j
  <2>1. k \in Nat /\ r \in 0 .. BlockSize - 1 /\ call.offset + k = m + r
    BY <1>1, <1>2, <1>3, <1>8, SizeAssumption DEF BufIdx
  <2> HIDE DEF r, m
  <2>2. (call.offset + k) \div BlockSize = b /\ (call.offset + k) % BlockSize = r
    BY <1>1, <2>1, DivUnique DEF m
  <2>3. SourceByte(k) = data_block[data_block_list[call.inode][b]][r]
    BY DEF SourceByte, r
  <2>4. QED
    BY <1>7, <2>1, <2>2, <2>3 DEF FileByte, Bytes
<1>9. TypeOK' /\ PositionInFile'
  <2>1. buf' \in [BufIdx -> Bytes \cup {NULL}]
    BY <1>4, <1>8 DEF FilesInv, TypeOK
  <2>2. QED
    BY <1>4, <1>5, <2>1 DEF FilesInv, TypeOK, PositionInFile
<1>10. CallerInv'
  BY <1>1, <1>4, <1>5 DEF FilesInv, CallerInv
<1>11. CounterInv'
  <2>1. /\ call'.num_bytes = call'.nbytes - call'.bytes_index
        /\ call'.length_file_remain = length[call'.inode] - (call'.offset + call'.bytes_index)
    BY <1>1, <1>2, <1>3, <1>5, SizeAssumption DEF FilesInv, CounterInv, Call
  <2>2. CASE more
    <3>1. n = BlockSize - o
      BY <1>1, <1>2, <2>2
    <3>2. (b + 1) * BlockSize = m + BlockSize
      BY <1>1, SizeAssumption DEF m
    <3> DEFINE m1 == (b + 1) * BlockSize
    <3> HIDE DEF m1
    <3>3. m1 = m + BlockSize
      BY <3>2 DEF m1
    <3>4. m1 + 0 = call.offset + (j + n)
      BY <1>1, <1>2, <1>3, <3>1, <3>3, SizeAssumption
    <3>5. call'.block_index = b + 1 /\ call'.offset_in_one_block = 0
      BY <1>5, <2>2
    <3>6. (call'.block_index * BlockSize) + call'.offset_in_one_block
            = call'.offset + call'.bytes_index
      BY <1>5, <3>4, <3>5 DEF m1
    <3>7. QED
      BY <2>1, <3>5, <3>6, SizeAssumption DEF CounterInv
  <2>3. CASE ~more
    <3>1. ~More'
      BY <1>5, <2>3 DEF More
    <3>2. m + (o + n) = call.offset + (j + n)
      BY <1>1, <1>2, <1>3, SizeAssumption
    <3>3. QED
      BY <1>5, <2>1, <2>3, <3>1, <3>2 DEF CounterInv, m
  <2>4. QED
    BY <2>2, <2>3
<1>12. BufInv'
  <2> SUFFICES ASSUME NEW k \in BufIdx
               PROVE  buf'[k] = IF k < j + n THEN FileByte(call.inode, call.offset + k) ELSE NULL
    BY <1>5 DEF BufInv
  <2>1. k \in Nat /\ buf[k] = IF k < j THEN FileByte(call.inode, call.offset + k) ELSE NULL
    BY <1>1, SizeAssumption DEF FilesInv, BufInv, BufIdx
  <2>2. CASE j <= k /\ k < j + n
    BY <1>4, <1>8, <2>2
  <2>3. CASE ~(j <= k /\ k < j + n)
    BY <1>1, <1>2, <1>4, <2>1, <2>3
  <2>4. QED
    BY <2>2, <2>3
<1>13. QED
  BY <1>9, <1>10, <1>11, <1>12 DEF FilesInv

\* What holds when the loop is done: exactly the bytes due are there.
LEMMA DoneMeansDue ==
  ASSUME FilesInv, call # NULL
  PROVE  /\ call.bytes_index <= Due
         /\ ~More => call.bytes_index = Due
<1>1. /\ call.num_bytes = call.nbytes - call.bytes_index
      /\ call.length_file_remain = length[call.inode] - (call.offset + call.bytes_index)
      /\ call.num_bytes \in Nat /\ call.length_file_remain \in Nat
      /\ call.nbytes \in Nat /\ call.offset \in Nat /\ call.bytes_index \in Nat
      /\ length[call.inode] \in Nat
  BY FsAssumption DEF FilesInv, TypeOK, Call, CounterInv
<1>2. QED
  BY <1>1 DEF Due, Smaller, More

LEMMA ReadEndKeepsInv ==
  ASSUME FilesInv, ReadEnd
  PROVE  FilesInv'
<1>1. /\ call # NULL /\ call \in Call /\ call.bytes_index \in Nat /\ call' = NULL
      /\ call.inode \in Inodes /\ length[call.inode] \in Nat /\ call.offset \in Nat
      /\ call.length_file_remain \in Nat
  BY FsAssumption DEF ReadEnd, FilesInv, TypeOK, Call
<1>2. call.offset + call.bytes_index <= length[call.inode]
  BY <1>1 DEF FilesInv, CounterInv
<1>3. CASE call.fd = NULL
  <2>1. TypeOK' /\ PositionInFile'
    BY <1>1, <1>3 DEF ReadEnd, FilesInv, TypeOK, PositionInFile, Fresh
  <2>2. CallerInv' /\ CounterInv' /\ BufInv'
    BY <1>1 DEF ReadEnd, CallerInv, CounterInv, BufInv, Fresh
  <2>3. QED
    BY <2>1, <2>2 DEF FilesInv
<1>4. CASE call.fd # NULL
  <2> DEFINE fd == call.fd
             new == [fdt[fd] EXCEPT !.position = fdt[fd].position + call.bytes_index]
  <2>1. fd \in Fds /\ fdt[fd].position = call.offset /\ fdt[fd].ops = FILE
        /\ fdt[fd].inode = call.inode /\ fdt[fd] \in Fd
    BY <1>1, <1>4 DEF FilesInv, CallerInv, Call, TypeOK
  <2>2. new \in Fd /\ new.position <= length[new.inode] /\ new.ops = FILE
    BY <1>1, <1>2, <2>1 DEF Fd
  <2>3. fdt' = [fdt EXCEPT ![fd] = new]
    BY <1>1, <1>4 DEF ReadEnd
  <2> HIDE DEF new
  <2>4. fdt' \in [Fds -> Fd] /\ \A f \in Fds : fdt'[f] = IF f = fd THEN new ELSE fdt[f]
    BY <2>1, <2>2, <2>3 DEF FilesInv, TypeOK
  <2>5. TypeOK'
    BY <1>1, <2>4 DEF ReadEnd, FilesInv, TypeOK, Fresh
  <2>6. PositionInFile'
    BY <2>2, <2>4 DEF FilesInv, PositionInFile, FILE, DIR
  <2>7. CallerInv' /\ CounterInv' /\ BufInv'
    BY <1>1 DEF ReadEnd, CallerInv, CounterInv, BufInv, Fresh
  <2>8. QED
    BY <2>5, <2>6, <2>7 DEF FilesInv
<1>5. QED
  BY <1>3, <1>4

-----------------------------------------------------------------------------
\* FilesInv is inductive.
THEOREM NextFilesInv == FilesInv /\ [Next]_vars => FilesInv'
<1> SUFFICES ASSUME FilesInv, [Next]_vars PROVE FilesInv'
    OBVIOUS
<1>1. ASSUME NEW name \in Names, Open(name) PROVE FilesInv'
  BY <1>1, OpenKeepsInv
<1>2. CASE (\E fd \in FdArgs : Close(fd) \/ TransferFails(fd) \/ ReadDir(fd)) \/ Exit
  BY <1>2, OtherKeepsInv
<1>3. ASSUME NEW fd \in Fds, NEW n \in 0 .. BufSize, ReadFile(fd, n) PROVE FilesInv'
  BY <1>3, ReadFileKeepsInv
<1>4. ASSUME NEW i \in Inodes, NEW n \in 1 .. BufSize, ReadImage(i, n) PROVE FilesInv'
  BY <1>4, ReadImageKeepsInv
<1>5. CASE ReadChunk
  BY <1>5, ReadChunkKeepsInv
<1>6. CASE ReadEnd
  BY <1>6, ReadEndKeepsInv
<1>7. CASE UNCHANGED vars
  BY <1>7 DEF vars, FilesInv, TypeOK, PositionInFile, CallerInv, CounterInv, BufInv, More
<1>8. QED
  BY <1>1, <1>2, <1>3, <1>4, <1>5, <1>6, <1>7 DEF Next

THEOREM FilesInvariant == Spec => []FilesInv
  BY InitFilesInv, NextFilesInv, PTL DEF Spec

(***************************************************************************)
(* For every block size, every image and every offset and length: at each  *)
(* turn of read_data's loop the buffer holds exactly the file's bytes from *)
(* offset on, and the loop stops with all the bytes that are due.          *)
(***************************************************************************)
THEOREM ReadAlwaysDelivers == Spec => []ReadDelivers
<1>1. ASSUME FilesInv PROVE ReadDelivers
  BY <1>1, DoneMeansDue DEF FilesInv, BufInv, ReadDelivers
<1>2. QED
  BY <1>1, FilesInvariant, PTL

\* No sequence of calls moves a descriptor past the end of its file, so
\* read_data's unsigned length - offset never wraps.
THEOREM PositionAlwaysInFile == Spec => []PositionInFile
<1>1. FilesInv => PositionInFile
  BY DEF FilesInv
<1>2. QED
  BY <1>1, FilesInvariant, PTL

\* The loop never touches a block, or a part of a block, outside the file.
THEOREM ChunkAlwaysInFile == Spec => []ChunkInFile
<1>1. ASSUME FilesInv, call # NULL, More
      PROVE  /\ call.offset_in_one_block + IndexInData <= BlockSize
             /\ call.block_index * BlockSize + call.offset_in_one_block + IndexInData
                  <= length[call.inode]
             /\ IndexInData > 0
  <2>1. /\ IndexInData \in Nat /\ IndexInData > 0
        /\ IndexInData <= call.length_file_remain
        /\ call.offset_in_one_block + IndexInData <= BlockSize
    BY <1>1, IndexInDataFacts DEF FilesInv
  <2>2. /\ call.length_file_remain = length[call.inode] - (call.offset + call.bytes_index)
        /\ (call.block_index * BlockSize) + call.offset_in_one_block
             = call.offset + call.bytes_index
        /\ call.length_file_remain \in Nat /\ call.inode \in Inodes
        /\ length[call.inode] \in Nat /\ call.offset \in Nat /\ call.bytes_index \in Nat
    BY <1>1, FsAssumption DEF FilesInv, CounterInv, TypeOK, Call
  <2>3. QED
    BY <2>1, <2>2
<1>2. FilesInv => ChunkInFile
  BY <1>1 DEF ChunkInFile
<1>3. QED
  BY <1>2, FilesInvariant, PTL

\* The state of Files is well typed.
THEOREM FilesTypeCorrect == Spec => []TypeOK
<1>1. FilesInv => TypeOK
  BY DEF FilesInv
<1>2. QED
  BY <1>1, FilesInvariant, PTL

-----------------------------------------------------------------------------
(* Files implements FileTable.                                             *)

LEMMA OpenRefines ==
  ASSUME FilesInv, NEW name \in Names, Open(name)
  PROVE  Table!TFail \/ Table!TOpen(name)
<1>1. CASE Matches(name) = {} \/ FreeFds = {}
  BY <1>1 DEF Open, Table!TFail
<1>2. CASE ~(Matches(name) = {} \/ FreeFds = {})
  <2>1. Table!EntriesOf(name) = Matches(name)
    BY DEF Table!EntriesOf, Matches
  <2>2. Table!FreeUserFds = FreeFds
    <3>1. ASSUME NEW fd \in UserFds PROVE fdt[fd].flags \in {0, 1} /\ fd \in Fds
      <4>1. fd \in Fds
        BY SizeAssumption DEF UserFds, Fds
      <4>2. fdt[fd] \in Fd
        BY <4>1 DEF FilesInv, TypeOK
      <4>3. QED
        BY <4>1, <4>2 DEF Fd
    <3>2. QED
      BY <3>1 DEF Table!FreeUserFds, Table!IsOpen, Table!UserFds, Table!Fds, FreeFds, UserFds, Fds
  <2> DEFINE fd == CHOOSE f \in FreeFds : \A g \in FreeFds : f <= g
             d  == Lookup(name)
  <2>3. /\ fdt' = [fdt EXCEPT ![fd] =
                     [ops |-> d.file_type,
                      inode |-> IF d.file_type = FILE THEN d.inode_index ELSE 0,
                      position |-> 0, flags |-> 1]]
        /\ ret' = fd
    BY <1>2 DEF Open
  <2>4. fd = Table!Least(Table!FreeUserFds)
    BY <2>2 DEF Table!Least
  <2>5. d = dir_entries[Table!Least(Table!EntriesOf(name))]
    BY <2>1 DEF Lookup, Table!Least
  <2> HIDE DEF fd, d
  <2>6. QED
    BY <1>2, <2>1, <2>2, <2>3, <2>4, <2>5 DEF Table!TOpen, Table!FILE, FILE
<1>3. QED
  BY <1>1, <1>2

\* A descriptor in use is an open one of the table.
LEMMA InUseIsOpen ==
  ASSUME FilesInv, NEW fd, InUse(fd)
  PROVE  fd \in Fds /\ fdt[fd].flags = 1 /\ Table!IsOpen(fd)
<1>1. fd \in Fds /\ fdt[fd].flags # 0
  BY DEF InUse
<1>2. fdt[fd] \in Fd
  BY <1>1 DEF FilesInv, TypeOK
<1>3. fdt[fd].flags = 1
  BY <1>1, <1>2 DEF Fd
<1>4. QED
  BY <1>1, <1>3 DEF Table!IsOpen, Table!Fds, Fds

LEMMA OtherRefines ==
  ASSUME FilesInv, NEW fd \in FdArgs, Close(fd) \/ TransferFails(fd) \/ ReadDir(fd)
  PROVE  Table!TFail \/ (fd \in Fds /\ (Table!TClose(fd) \/ Table!TReadDir(fd)))
<1>1. CASE Close(fd)
  <2>1. CASE fd >= 2 /\ InUse(fd)
    <3>1. fd \in Fds /\ Table!IsOpen(fd)
      BY <2>1, InUseIsOpen
    <3>2. fd \in Table!UserFds
      BY <2>1, <3>1, SizeAssumption DEF Table!UserFds, Fds
    <3>3. QED
      BY <1>1, <2>1, <3>1, <3>2 DEF Close, Table!TClose
  <2>2. CASE ~(fd >= 2 /\ InUse(fd))
    BY <1>1, <2>2 DEF Close, Table!TFail
  <2>3. QED
    BY <2>1, <2>2
<1>2. CASE TransferFails(fd)
  BY <1>2 DEF TransferFails, Table!TFail
<1>3. CASE ReadDir(fd)
  <2>1. InUse(fd) /\ fdt[fd].ops = DIR
    BY <1>3 DEF ReadDir
  <2>2. fd \in Fds /\ Table!IsOpen(fd)
    BY <2>1, InUseIsOpen
  <2>3. QED
    BY <1>3, <2>1, <2>2 DEF ReadDir, Table!TReadDir, Table!DIR, DIR
<1>4. QED
  BY <1>1, <1>2, <1>3

\* read_data's return is the step in which the table's read happens.
LEMMA ReadEndRefines ==
  ASSUME FilesInv, ReadEnd
  PROVE  \/ \E fd \in Fds, n \in 1 .. BufSize : Table!TReadFile(fd, n)
         \/ \E i \in Inodes, n \in 1 .. BufSize : Table!TLoad(i, n)
<1> DEFINE n == call.nbytes
           i == call.inode
<1>1. /\ call # NULL /\ call \in Call /\ ~More /\ ret' = call.bytes_index
      /\ i \in Inodes /\ length[i] \in Nat /\ n \in Nat /\ call.offset \in Nat
  BY FsAssumption DEF ReadEnd, FilesInv, TypeOK, Call
<1>2. ret' = Due /\ n \in 1 .. BufSize
  BY <1>1, DoneMeansDue, SizeAssumption DEF FilesInv, CallerInv
<1>3. CASE call.fd = NULL
  <2>1. call.offset = 0 /\ UNCHANGED fdt
    BY <1>1, <1>3 DEF FilesInv, CallerInv, ReadEnd
  <2>2. ret' = IF n <= length[i] THEN n ELSE length[i]
    BY <1>1, <1>2, <2>1 DEF Due, Smaller
  <2> HIDE DEF n, i
  <2>3. Table!TLoad(i, n)
    BY <2>1, <2>2 DEF Table!TLoad
  <2>4. QED
    BY <1>1, <1>2, <2>3
<1>4. CASE call.fd # NULL
  <2> DEFINE fd == call.fd
  <2>1. /\ fd \in Fds /\ fdt[fd].flags = 1 /\ fdt[fd].ops = FILE
        /\ fdt[fd].inode = i /\ fdt[fd].position = call.offset
    BY <1>1, <1>4 DEF FilesInv, CallerInv, Call
  <2>2. fdt' = [fdt EXCEPT ![fd].position = @ + ret']
    BY <1>1, <1>4 DEF ReadEnd
  <2>3. Due = Table!Taken(fd, n)
    BY <2>1 DEF Due, Smaller, Table!Taken
  <2> HIDE DEF n, fd
  <2>4. Table!IsOpen(fd)
    BY <2>1 DEF Table!IsOpen, Table!Fds, Fds
  <2>5. n > 0
    BY <1>2
  <2>6. Table!TReadFile(fd, n)
    BY <1>2, <2>1, <2>2, <2>3, <2>4, <2>5 DEF Table!TReadFile, Table!FILE, FILE
  <2>7. QED
    BY <1>2, <2>1, <2>6
<1>5. QED
  BY <1>3, <1>4

LEMMA NextRefines ==
  ASSUME FilesInv, [Next]_vars
  PROVE  [Table!TNext]_(Table!tVars)
<1>0. Table!Fds = Fds
  BY DEF Table!Fds, Fds
<1>1. ASSUME NEW name \in Names, Open(name) PROVE Table!TNext
  BY <1>1, OpenRefines DEF Table!TNext
<1>2. ASSUME NEW fd \in FdArgs, Close(fd) \/ TransferFails(fd) \/ ReadDir(fd)
      PROVE  Table!TNext
  BY <1>0, <1>2, OtherRefines DEF Table!TNext
<1>3. CASE Exit
  BY <1>3 DEF Exit, Table!TNext, Table!TExit, Table!Fds, Fds, Table!Stdio, Stdio, Table!TERM, TERM
<1>4. ASSUME NEW fd \in Fds, NEW n \in 0 .. BufSize, ReadFile(fd, n)
      PROVE  Table!TFail \/ UNCHANGED <<fdt, ret>>
  BY <1>4 DEF ReadFile, Table!TFail
<1>5. ASSUME NEW i \in Inodes, NEW n \in 1 .. BufSize, ReadImage(i, n)
      PROVE  UNCHANGED <<fdt, ret>>
  BY <1>5 DEF ReadImage
<1>6. CASE ReadChunk
  BY <1>6 DEF ReadChunk, Table!tVars
<1>7. CASE ReadEnd
  BY <1>0, <1>7, ReadEndRefines DEF Table!TNext
<1>8. CASE UNCHANGED vars
  BY <1>8 DEF vars, Table!tVars
<1>9. QED
  BY <1>1, <1>2, <1>3, <1>4, <1>5, <1>6, <1>7, <1>8 DEF Next, Table!TNext, Table!tVars

\* Whatever the block size and the image: to its caller a read through the
\* loop over blocks is one step of the descriptor table's promise, and no
\* other step is seen.
THEOREM FilesRefinesFileTable == Spec => ImplementsFileTable
<1>1. Init => Table!TInit
  BY DEF Init, Table!TInit, Fds, Table!Fds, Stdio, Table!Stdio, Unused, Table!Unused,
         TERM, Table!TERM
<1>2. FilesInv /\ [Next]_vars => [Table!TNext]_(Table!tVars)
  BY NextRefines
<1>3. QED
  BY <1>1, <1>2, FilesInvariant, PTL DEF Spec, ImplementsFileTable, Table!TSpec
=============================================================================
