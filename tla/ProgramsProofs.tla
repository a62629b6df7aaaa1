--------------------------- MODULE ProgramsProofs ---------------------------
(***************************************************************************)
(* Proofs about the shell and the programs (module Programs), for any file *)
(* system image, any lines typed and buffers of any length.                *)
(***************************************************************************)
EXTENDS Programs, SequenceLemmas

-----------------------------------------------------------------------------
(* Facts about the constants.                                              *)

LEMMA Characters ==
  /\ NUL # NL /\ NUL # SP /\ NL # SP
  /\ NUL \in Chars /\ NL \in Chars /\ SP \in Chars /\ ":" \in Chars
  /\ Junk \subseteq Chars
BY DEF NUL, NL, SP, Chars

\* What an entry of the directory is.
LEMMA EntryFacts ==
  ASSUME NEW n \in DOMAIN dir_entries
  PROVE  LET e == dir_entries[n] IN
         /\ e.fname \in Seq(Chars) /\ e.fname # <<>> /\ Len(e.fname) \in 1 .. NameMax
         /\ e.fname # <<"h", "h">>
         /\ e.file_type \in {RTC, DIR, FILE}
         /\ e.inode_index \in Inodes
         /\ content[e.inode_index] \in Seq(Chars)
         /\ length[e.inode_index] = Len(content[e.inode_index])
         /\ e.file_type = DIR <=> e.fname = <<".">>
<1> DEFINE e == dir_entries[n]
<1>1. e \in Entry
  BY ImageAssumption
<1>2. /\ e.fname \notin {<<>>, <<"h", "h">>} /\ Len(e.fname) <= NameMax
      /\ e.file_type = DIR <=> e.fname = <<".">>
  BY ImageAssumption
<1>3. e.fname \in Seq(Chars) /\ e.file_type \in {RTC, DIR, FILE} /\ e.inode_index \in Inodes
  BY <1>1 DEF Entry
<1>4. content[e.inode_index] \in Seq(Chars)
      /\ length[e.inode_index] = Len(content[e.inode_index])
  BY <1>3, ImageAssumption
<1>5. Len(e.fname) \in 1 .. NameMax
  BY <1>2, <1>3, EmptySeq, SizeAssumption
<1>6. QED
  BY <1>2, <1>3, <1>4, <1>5

LEMMA DirectoryFacts ==
  /\ Len(dir_entries) \in Nat /\ DOMAIN dir_entries = 1 .. Len(dir_entries)
  /\ dir_entries \in Seq(Entry)
BY ImageAssumption

\* Least of a set of naturals.
LEMMA LeastFacts ==
  ASSUME NEW S \in SUBSET Nat, S # {}
  PROVE  Least(S) \in S /\ \A x \in S : Least(S) <= x
BY LeastNatural DEF Least

\* The entries of a name are one or none.
LEMMA EntriesOfFacts ==
  ASSUME NEW name
  PROVE  /\ EntriesOf(name) # {} =>
              /\ Least(EntriesOf(name)) \in DOMAIN dir_entries
              /\ dir_entries[Least(EntriesOf(name))].fname = name
         /\ \A n \in DOMAIN dir_entries :
              dir_entries[n].fname = name =>
                EntriesOf(name) # {} /\ Least(EntriesOf(name)) = n
<1>1. EntriesOf(name) \in SUBSET Nat
  BY DirectoryFacts DEF EntriesOf
<1>2. EntriesOf(name) # {} => Least(EntriesOf(name)) \in EntriesOf(name)
  BY <1>1, LeastFacts
<1>3. QED
  BY <1>2, ImageAssumption DEF EntriesOf

\* Find returns the first index of the set, or the end of the search.
LEMMA FindFacts ==
  ASSUME NEW lo \in Nat, NEW hi \in Nat, lo <= hi, NEW S
  PROVE  /\ Find(lo, hi, S) \in lo .. hi
         /\ \A x \in lo .. Find(lo, hi, S) - 1 : x \notin S
         /\ Find(lo, hi, S) < hi => Find(lo, hi, S) \in S
<1> DEFINE T == S \cap lo .. hi - 1
<1>1. T \in SUBSET Nat
  OBVIOUS
<1>2. T # {} => Least(T) \in T /\ \A x \in T : Least(T) <= x
  BY <1>1, LeastFacts
<1>3. Find(lo, hi, S) = IF T = {} THEN hi ELSE Least(T)
  BY DEF Find
<1> HIDE DEF T
<1>4. CASE T = {}
  BY <1>3, <1>4 DEF T
<1>5. CASE T # {}
  <2>1. Find(lo, hi, S) = Least(T) /\ Least(T) \in S /\ Least(T) \in lo .. hi - 1
    BY <1>2, <1>3, <1>5 DEF T
  <2>2. ASSUME NEW x \in lo .. Least(T) - 1 PROVE x \notin S
    <3>1. x \in lo .. hi - 1 /\ ~(Least(T) <= x)
      BY <2>1
    <3>2. QED
      BY <3>1, <1>2, <1>5 DEF T
  <2>3. QED
    BY <2>1, <2>2
<1>6. QED
  BY <1>4, <1>5

\* What Find returns is the only one.
LEMMA FindIs ==
  ASSUME NEW lo \in Nat, NEW hi \in Nat, NEW S, NEW m \in lo .. hi,
         \A x \in lo .. m - 1 : x \notin S, m < hi => m \in S
  PROVE  Find(lo, hi, S) = m
<1> DEFINE f == Find(lo, hi, S)
<1>1. /\ f \in lo .. hi
      /\ \A x \in lo .. f - 1 : x \notin S
      /\ f < hi => f \in S
  BY FindFacts
<1> HIDE DEF f
<1>2. f \in Nat /\ m \in Nat
  BY <1>1
<1>3. ~(f < m)
  <2> SUFFICES ASSUME f < m PROVE FALSE
    OBVIOUS
  <2>1. f \in lo .. m - 1 /\ f < hi
    BY <1>1, <1>2
  <2>2. QED
    BY <2>1, <1>1
<1>4. ~(m < f)
  <2> SUFFICES ASSUME m < f PROVE FALSE
    OBVIOUS
  <2>1. m \in lo .. f - 1 /\ m < hi
    BY <1>1, <1>2
  <2>2. QED
    BY <2>1, <1>1
<1>5. QED
  BY <1>2, <1>3, <1>4 DEF f

\* A piece of a sequence of naturals' length.
LEMMA PieceFacts ==
  ASSUME NEW C, NEW t \in Seq(C), NEW lo \in Nat, NEW hi \in Nat, lo <= hi, hi <= Len(t)
  PROVE  /\ SubSeq(t, lo + 1, hi) \in Seq(C)
         /\ Len(SubSeq(t, lo + 1, hi)) = hi - lo
         /\ \A j \in 1 .. hi - lo : SubSeq(t, lo + 1, hi)[j] = t[lo + j]
<1>1. SubSeq(t, lo + 1, hi) = [m \in 1 .. (1 + hi - (lo + 1)) |-> t[lo + 1 + m - 1]]
  OBVIOUS
<1>2. 1 + hi - (lo + 1) = hi - lo
  OBVIOUS
<1>3. \A m \in 1 .. hi - lo : lo + 1 + m - 1 = lo + m /\ t[lo + m] \in C
  OBVIOUS
<1>4. SubSeq(t, lo + 1, hi) = [m \in 1 .. hi - lo |-> t[lo + m]]
  BY <1>1, <1>2, <1>3
<1>5. QED
  BY <1>3, <1>4

\* A piece of a piece.
LEMMA PieceOfPiece ==
  ASSUME NEW C, NEW t \in Seq(C), NEW a \in Nat, NEW b \in Nat, NEW i \in Nat,
         a <= b, b <= Len(t), i <= b - a
  PROVE  SubSeq(SubSeq(t, a + 1, b), i + 1, b - a) = SubSeq(t, a + i + 1, b)
<1> DEFINE w == SubSeq(t, a + 1, b)
           m == b - a
           u == SubSeq(w, i + 1, m)
           c == a + i
           v == SubSeq(t, c + 1, b)
<1>1. /\ w \in Seq(C) /\ Len(w) = m
      /\ \A j \in 1 .. m : w[j] = t[a + j]
  BY PieceFacts
<1>2. m \in Nat /\ i <= m /\ c \in Nat /\ c <= b /\ b - c = m - i
  OBVIOUS
<1> HIDE DEF w, m, c
<1>a. m <= Len(w)
  BY <1>1, <1>2
<1>3. /\ u \in Seq(C) /\ Len(u) = m - i
      /\ \A j \in 1 .. m - i : u[j] = w[i + j]
  <2>1. w \in Seq(C) /\ m \in Nat /\ i <= m /\ m <= Len(w)
    BY <1>1, <1>2, <1>a
  <2>2. QED
    BY <2>1, PieceFacts
<1>4. /\ v \in Seq(C) /\ Len(v) = b - c
      /\ \A j \in 1 .. b - c : v[j] = t[c + j]
  BY <1>2, PieceFacts
<1> HIDE DEF u, v
<1>5. ASSUME NEW j \in 1 .. m - i PROVE u[j] = v[j]
  <2>1. i + j \in 1 .. m /\ a + (i + j) = c + j
    BY <1>2 DEF c
  <2>2. QED
    BY <1>1, <1>2, <1>3, <1>4, <2>1
<1>6. u = v
  BY <1>2, <1>3, <1>4, <1>5, SeqEqual
<1>7. QED
  BY <1>6 DEF u, v, w, m, c

-----------------------------------------------------------------------------
(* The parser.                                                             *)

\* The shell's buffer holds the line and a NUL behind it.
HoldsLine(line) ==
  /\ Len(line) \in SIdx /\ sbuf[Len(line)] = NUL
  /\ \A j \in 0 .. Len(line) - 1 : sbuf[j] = line[j + 1]

LEMMA LineFacts ==
  ASSUME NEW line \in Lines
  PROVE  /\ line \in Seq(Chars) /\ Len(line) \in Nat /\ Len(line) < CommandMax
         /\ Len(line) \in SIdx
         /\ \A x \in 1 .. Len(line) : line[x] \in Chars /\ line[x] # NUL
<1>1. line \in Seq(Chars \ {NUL}) /\ Len(line) < CommandMax
  BY LinesAssumption
<1>2. \A x \in 1 .. Len(line) : line[x] \in Chars \ {NUL}
  BY <1>1
<1>3. line \in Seq(Chars)
  BY <1>1
<1>4. QED
  BY <1>1, <1>2, <1>3, SizeAssumption DEF SIdx

\* A piece of the buffer within the line is a piece of the line.
LEMMA TextOfLine ==
  ASSUME NEW line \in Lines, HoldsLine(line),
         NEW lo \in Nat, NEW hi \in lo .. Len(line)
  PROVE  /\ Text(lo, hi) = SubSeq(line, lo + 1, hi)
         /\ Len(Text(lo, hi)) = hi - lo
<1>1. line \in Seq(Chars) /\ Len(line) \in Nat
  BY LineFacts
<1>2. \A m \in 1 .. hi - lo : sbuf[lo + m - 1] = line[lo + m]
  <2> SUFFICES ASSUME NEW m \in 1 .. hi - lo PROVE sbuf[lo + m - 1] = line[lo + m]
    OBVIOUS
  <2>1. lo + m - 1 \in 0 .. Len(line) - 1 /\ (lo + m - 1) + 1 = lo + m
    BY <1>1
  <2>2. sbuf[lo + m - 1] = line[(lo + m - 1) + 1]
    BY <2>1 DEF HoldsLine
  <2>3. QED
    BY <2>1, <2>2
<1>3. SubSeq(line, lo + 1, hi) = [m \in 1 .. hi - lo |-> line[lo + m]]
  <2>1. SubSeq(line, lo + 1, hi) = [m \in 1 .. (1 + hi - (lo + 1)) |-> line[lo + 1 + m - 1]]
    BY <1>1
  <2>2. 1 + hi - (lo + 1) = hi - lo
    BY <1>1
  <2>3. \A m \in 1 .. hi - lo : lo + 1 + m - 1 = lo + m
    BY <1>1
  <2>4. QED
    BY <2>1, <2>2, <2>3
<1>4. Text(lo, hi) = SubSeq(line, lo + 1, hi)
  BY <1>2, <1>3 DEF Text
<1>5. Len(SubSeq(line, lo + 1, hi)) = hi - lo
  BY <1>1
<1>6. QED
  BY <1>4, <1>5

LEMMA NameStartFacts ==
  ASSUME NEW line \in Lines, HoldsLine(line), sbuf \in [SIdx -> Chars]
  PROVE  /\ NameStart \in 0 .. Len(line)
         /\ \A x \in 1 .. NameStart : line[x] = SP
         /\ NameStart < Len(line) => line[NameStart + 1] # SP
<1> DEFINE n == Len(line)
           S == SIdx \ Holding({SP})
           a == Find(0, CommandMax, S)
<1>1. n \in Nat /\ n < CommandMax /\ CommandMax \in Nat /\ CommandMax <= ShellBuf
      /\ ShellBuf \in Nat /\ n \in SIdx
  BY LineFacts, SizeAssumption
<1>s. 0 \in Nat /\ 0 <= CommandMax
  BY <1>1
<1> HIDE DEF S
<1>2. a \in 0 .. CommandMax /\ (\A x \in 0 .. a - 1 : x \notin S) /\ (a < CommandMax => a \in S)
  BY <1>1, <1>s, FindFacts
<1>3. n \in S
  BY <1>1, Characters DEF S, Holding, HoldsLine
<1>4. NameStart = a
  BY DEF NameStart, S
<1>5. \A x \in 0 .. n - 1 : sbuf[x] = line[x + 1] /\ (x \in S <=> line[x + 1] # SP)
  BY <1>1 DEF HoldsLine, Holding, SIdx, S
<1> HIDE DEF n, S, a
<1>6. a \in 0 .. n
  <2> SUFFICES ASSUME n < a PROVE FALSE
    BY <1>1, <1>2
  <2>1. n \in 0 .. a - 1
    BY <1>1, <1>2
  <2>2. QED
    BY <2>1, <1>2, <1>3
<1>7. ASSUME NEW x \in 1 .. a PROVE line[x] = SP
  <2>1. x - 1 \in 0 .. a - 1 /\ x - 1 \in 0 .. n - 1 /\ (x - 1) + 1 = x
    BY <1>1, <1>6
  <2>2. x - 1 \notin S
    BY <2>1, <1>2
  <2>3. QED
    BY <2>1, <2>2, <1>5
<1>8. ASSUME a < n PROVE line[a + 1] # SP
  <2>1. a \in S /\ a \in 0 .. n - 1
    BY <1>8, <1>1, <1>2, <1>6
  <2>2. QED
    BY <2>1, <1>5
<1>9. QED
  BY <1>4, <1>6, <1>7, <1>8 DEF n

LEMMA NameEndFacts ==
  ASSUME NEW line \in Lines, HoldsLine(line), sbuf \in [SIdx -> Chars],
         NameStart < Len(line)
  PROVE  /\ NameEnd \in NameStart + 1 .. Len(line)
         /\ \A x \in NameStart + 1 .. NameEnd : line[x] # SP
         /\ NameEnd < Len(line) => line[NameEnd + 1] = SP
         /\ sbuf[NameEnd] = IF NameEnd < Len(line) THEN SP ELSE NUL
<1> DEFINE n == Len(line)
           S == Holding({NUL, SP})
           b == NameStart
           a == Find(b + 1, CommandMax, S)
<1>1. n \in Nat /\ n < CommandMax /\ CommandMax \in Nat /\ CommandMax <= ShellBuf
      /\ ShellBuf \in Nat /\ n \in SIdx
  BY LineFacts, SizeAssumption
<1>2. b \in 0 .. n /\ b < n /\ line[b + 1] # SP
  BY NameStartFacts
<1>3. NameEnd = a
  BY DEF NameEnd
<1>4. n \in S /\ sbuf[n] = NUL
  BY <1>1 DEF Holding, HoldsLine
<1>5. \A x \in 0 .. n - 1 : sbuf[x] = line[x + 1] /\ (x \in S <=> line[x + 1] = SP)
  <2> SUFFICES ASSUME NEW x \in 0 .. n - 1
               PROVE  sbuf[x] = line[x + 1] /\ (x \in S <=> line[x + 1] = SP)
    OBVIOUS
  <2>1. line[x + 1] # NUL
    BY LineFacts, <1>1
  <2>2. x \in SIdx
    BY <1>1 DEF SIdx
  <2>3. QED
    BY <1>1, <2>1, <2>2 DEF HoldsLine, Holding
<1> HIDE DEF b
<1>6. a \in b + 1 .. CommandMax /\ (\A x \in b + 1 .. a - 1 : x \notin S)
      /\ (a < CommandMax => a \in S)
  BY <1>1, <1>2, FindFacts
<1> HIDE DEF n, S, a
<1>7. a \in b + 1 .. n
  <2> SUFFICES ASSUME n < a PROVE FALSE
    BY <1>1, <1>2, <1>6
  <2>1. n \in b + 1 .. a - 1
    BY <1>1, <1>2, <1>6
  <2>2. QED
    BY <2>1, <1>4, <1>6
<1>8. ASSUME NEW x \in b + 1 .. a PROVE line[x] # SP
  <2>1. CASE x = b + 1
    BY <2>1, <1>2
  <2>2. CASE x # b + 1
    <3>1. x - 1 \in b + 1 .. a - 1 /\ x - 1 \in 0 .. n - 1 /\ (x - 1) + 1 = x
      BY <2>2, <1>1, <1>2, <1>7
    <3>2. x - 1 \notin S
      BY <3>1, <1>6
    <3>3. QED
      BY <3>1, <3>2, <1>5
  <2>3. QED
    BY <2>1, <2>2
<1>9. ASSUME a < n PROVE line[a + 1] = SP /\ sbuf[a] = SP
  <2>1. a \in S /\ a \in 0 .. n - 1
    BY <1>9, <1>1, <1>2, <1>6, <1>7
  <2>2. QED
    BY <2>1, <1>5
<1>10. ASSUME ~(a < n) PROVE sbuf[a] = NUL
  <2>1. a = n
    BY <1>10, <1>1, <1>2, <1>7
  <2>2. QED
    BY <2>1, <1>4
<1>11. QED
  BY <1>3, <1>7, <1>8, <1>9, <1>10 DEF n, b

\* Text without the spaces in front of it is a piece of it.
LEMMA TrimmedFacts ==
  ASSUME NEW t \in Seq(Chars)
  PROVE  /\ \E i \in 0 .. Len(t) :
              /\ Trimmed(t) = SubSeq(t, i + 1, Len(t))
              /\ \A x \in 1 .. i : t[x] = SP
              /\ i < Len(t) => t[i + 1] # SP
         /\ Trimmed(t) \in Seq(Chars)
<1> DEFINE n == Len(t)
           K == {x \in 1 .. n + 1 : x \in DOMAIN t => t[x] # SP}
           i == Least(K) - 1
<1>1. n \in Nat /\ DOMAIN t = 1 .. n
  OBVIOUS
<1>2. K \in SUBSET Nat /\ n + 1 \in K
  BY <1>1
<1>3. Least(K) \in K /\ \A x \in K : Least(K) <= x
  <2> HIDE DEF K
  <2>1. QED
    BY <1>2, LeastFacts
<1>4. Trimmed(t) = SubSeq(t, Least(K), n)
  BY DEF Trimmed
<1>5. i \in 0 .. n /\ i + 1 = Least(K)
  <2>1. Least(K) \in 1 .. n + 1
    BY <1>3
  <2>2. QED
    BY <1>1, <2>1
<1>6. ASSUME NEW x \in 1 .. i PROVE t[x] = SP
  <2>1. x \in 1 .. n /\ ~(Least(K) <= x)
    BY <1>1, <1>5
  <2>2. x \notin K
    BY <1>3, <2>1
  <2>3. QED
    BY <1>1, <2>1, <2>2
<1>7. ASSUME i < n PROVE t[i + 1] # SP
  <2>1. i + 1 \in DOMAIN t /\ i + 1 \in K
    BY <1>1, <1>3, <1>5, <1>7
  <2>2. QED
    BY <2>1
<1> HIDE DEF n, i, K
<1>8. Trimmed(t) = SubSeq(t, i + 1, n)
  BY <1>4, <1>5
<1>9. SubSeq(t, i + 1, n) \in Seq(Chars)
  <2>1. i \in Nat /\ i <= n /\ n <= Len(t)
    BY <1>1, <1>5 DEF n
  <2>2. QED
    BY <1>1, <2>1, PieceFacts
<1>10. QED
  BY <1>5, <1>6, <1>7, <1>8, <1>9 DEF n

\* The only argument of a line with a space behind the name.
LEMMA ArgumentsFacts ==
  ASSUME NEW line \in Lines, HoldsLine(line), sbuf \in [SIdx -> Chars],
         NameStart < Len(line), NameEnd < Len(line)
  PROVE  /\ HasArg
         /\ \E a \in NameEnd + 1 .. Len(line) :
              /\ \A x \in NameEnd + 1 .. a : line[x] = SP
              /\ a < Len(line) => line[a + 1] # SP
              /\ Arguments = {SubSeq(line, a + 1, Len(line))}
<1> DEFINE n == Len(line)
           b == NameEnd
           t == SubSeq(line, b + 1, n)
<1>1. n \in Nat /\ n < CommandMax /\ CommandMax \in Nat /\ CommandMax <= ShellBuf
      /\ ShellBuf \in Nat /\ n \in SIdx /\ n < ShellBuf
  BY LineFacts, SizeAssumption
<1>2. b \in Nat /\ b < n /\ sbuf[b] = SP /\ line[b + 1] = SP
  BY <1>1, NameStartFacts, NameEndFacts
<1>3. HasArg
  BY <1>1, <1>2 DEF HasArg
<1> HIDE DEF b
<1>4. Find(b, ShellBuf, Holding({NUL})) = n
  <2>1. ASSUME NEW x \in b .. n - 1 PROVE x \notin Holding({NUL})
    <3>1. x \in 0 .. n - 1 /\ x + 1 \in 1 .. n
      BY <1>1, <1>2
    <3>2. line[x + 1] # NUL /\ sbuf[x] = line[x + 1]
      BY <3>1, LineFacts DEF n, HoldsLine
    <3>3. QED
      BY <3>2 DEF Holding
  <2>2. n \in Holding({NUL})
    BY <1>1 DEF Holding, HoldsLine
  <2>3. PICK m \in b .. ShellBuf : m = n
    BY <1>1, <1>2
  <2> HIDE DEF n
  <2>4. b \in Nat /\ ShellBuf \in Nat /\ \A x \in b .. m - 1 : x \notin Holding({NUL})
    BY <1>1, <1>2, <2>1, <2>3
  <2>5. m \in Holding({NUL})
    BY <2>2, <2>3
  <2>6. Find(b, ShellBuf, Holding({NUL})) = m
    BY <2>4, <2>5, FindIs
  <2>7. QED
    BY <2>3, <2>6
<1>5. Text(b, n) = t /\ Len(t) = n - b
  <2>1. n \in b .. Len(line)
    BY <1>1, <1>2
  <2>2. Text(b, n) = SubSeq(line, b + 1, n) /\ Len(Text(b, n)) = n - b
    BY <1>2, <2>1, TextOfLine
  <2>3. QED
    BY <2>2
<1>6. StringsFrom(b) = {t}
  BY <1>1, <1>4, <1>5 DEF StringsFrom
<1>7. Arguments = {Trimmed(t)}
  BY <1>3, <1>6 DEF Arguments, b
<1>8. /\ t \in Seq(Chars) /\ Len(t) = n - b
      /\ \A j \in 1 .. n - b : t[j] = line[b + j]
  <2>1. line \in Seq(Chars) /\ b <= n /\ n <= Len(line)
    BY <1>1, <1>2, LineFacts
  <2>2. QED
    BY <1>1, <1>2, <2>1, PieceFacts
<1>9. PICK i \in 0 .. n - b : /\ Trimmed(t) = SubSeq(t, i + 1, n - b)
                              /\ \A x \in 1 .. i : t[x] = SP
                              /\ i < n - b => t[i + 1] # SP
  <2> HIDE DEF t, n
  <2>1. QED
    BY <1>8, TrimmedFacts
<1> DEFINE a == b + i
<1>10. SubSeq(t, i + 1, n - b) = SubSeq(line, a + 1, n)
  <2>1. line \in Seq(Chars) /\ i \in Nat /\ b <= n /\ n <= Len(line) /\ i <= n - b
    BY <1>1, <1>2, LineFacts
  <2>2. QED
    BY <1>1, <1>2, <2>1, PieceOfPiece
<1> HIDE DEF t, n
<1>11. i # 0
  <2>1. 1 \in 1 .. n - b /\ 0 < n - b
    BY <1>1, <1>2
  <2>2. t[1] = SP
    BY <1>2, <1>8, <2>1
  <2>3. QED
    BY <1>9, <2>1, <2>2
<1>12. a \in b + 1 .. n
  BY <1>1, <1>2, <1>11
<1>13. ASSUME NEW x \in b + 1 .. a PROVE line[x] = SP
  <2>1. x - b \in 1 .. i /\ x - b \in 1 .. n - b /\ b + (x - b) = x
    BY <1>1, <1>2
  <2>2. QED
    BY <1>8, <1>9, <2>1
<1>14. ASSUME a < n PROVE line[a + 1] # SP
  <2>1. i < n - b /\ i + 1 \in 1 .. n - b /\ b + (i + 1) = a + 1
    BY <1>1, <1>2, <1>14
  <2>2. QED
    BY <1>8, <1>9, <2>1
<1> HIDE DEF a
<1>15. Arguments = {SubSeq(line, a + 1, n)}
  BY <1>7, <1>9, <1>10
<1>16. QED
  BY <1>3, <1>12, <1>13, <1>14, <1>15 DEF n, b

\* The name that execute looks for in the directory: on a blank line it is
\* empty, else it is the line's, or too long for any program's.
LEMMA NameFacts ==
  ASSUME NEW line \in Lines, HoldsLine(line), sbuf \in [SIdx -> Chars],
         NEW name \in ExeNames, Runs(name)
  PROVE  NameStart < Len(line) /\ name = SubSeq(line, NameStart + 1, NameEnd)
<1> DEFINE n == Len(line)
           a == NameStart
           b == NameEnd
           all == Text(a, b)
           e == dir_entries[Least(EntriesOf(name))]
<1>1. /\ EntriesOf(name) # {} /\ e.fname = name
      /\ Least(EntriesOf(name)) \in DOMAIN dir_entries
      /\ Len(name) \in 1 .. NameMax /\ Len(name) < NameMax /\ name # <<>>
  <2>1. EntriesOf(name) # {} /\ programs[e.inode_index] # NULL
    BY DEF Runs
  <2>2. Least(EntriesOf(name)) \in DOMAIN dir_entries /\ e.fname = name
    BY <2>1, EntriesOfFacts
  <2>3. Len(e.fname) < NameMax
    BY <2>1, <2>2, ImageAssumption
  <2>4. e.fname # <<>> /\ Len(e.fname) \in 1 .. NameMax
    BY <2>2, EntryFacts
  <2>5. QED
    BY <2>1, <2>2, <2>3, <2>4
<1>2. n \in Nat /\ n < CommandMax /\ CommandMax \in Nat /\ n \in SIdx
  BY LineFacts, SizeAssumption
<1>3. a \in 0 .. n
  BY NameStartFacts
<1>4. b \in Nat /\ b >= a + 1
  <2>1. NameEnd = Find(a + 1, CommandMax, Holding({NUL, SP}))
    BY DEF NameEnd
  <2> HIDE DEF a
  <2>a. a + 1 \in Nat /\ a + 1 <= CommandMax
    BY <1>2, <1>3
  <2>b. Find(a + 1, CommandMax, Holding({NUL, SP})) \in a + 1 .. CommandMax
    BY <1>2, <2>a, FindFacts
  <2>2. NameEnd \in a + 1 .. CommandMax
    BY <2>1, <2>b
  <2>3. QED
    BY <1>2, <1>3, <2>2
<1> HIDE DEF a, b
<1>5. all = [m \in 1 .. b - a |-> sbuf[a + m - 1]]
  BY DEF Text
<1>6. all[1] = sbuf[a] /\ all # <<>>
  <2>1. 1 \in 1 .. b - a /\ a + 1 - 1 = a
    BY <1>2, <1>3, <1>4
  <2>2. DOMAIN all = 1 .. b - a
    BY <1>5
  <2>3. QED
    BY <1>5, <2>1, <2>2
<1> HIDE DEF all
<1>7. ExeNames = IF all[1] = NUL THEN {<<>>}
                 ELSE IF Len(all) < NameMax THEN {all}
                 ELSE {SubSeq(all, 1, NameMax), Append(SubSeq(all, 1, NameMax), "?")}
  BY <1>6 DEF ExeNames, all, a, b
<1>8. a < n
  <2> SUFFICES ASSUME a = n PROVE FALSE
    BY <1>2, <1>3
  <2>1. all[1] = NUL
    BY <1>6 DEF HoldsLine, n
  <2>2. QED
    BY <2>1, <1>7, <1>1
<1>9. b \in a + 1 .. n
  BY <1>8, NameEndFacts DEF a, b, n
<1>10. all = SubSeq(line, a + 1, b) /\ Len(all) = b - a
  <2>1. a \in Nat /\ b \in a .. Len(line)
    BY <1>3, <1>9 DEF n
  <2>2. QED
    BY <2>1, TextOfLine DEF all
<1>11. all[1] # NUL
  <2>1. sbuf[a] = line[a + 1] /\ a + 1 \in 1 .. Len(line)
    BY <1>2, <1>3, <1>8 DEF HoldsLine, n
  <2>2. QED
    BY <2>1, <1>6, LineFacts
<1>12. name = all
  <2> SUFFICES ASSUME ~(Len(all) < NameMax) PROVE FALSE
    BY <1>7, <1>11
  <2>1. NameMax \in Nat /\ Len(all) >= NameMax
    BY <1>10, <1>9, <1>3, <1>2, SizeAssumption
  <2>2. all \in Seq(Chars)
    BY <1>10, LineFacts, <1>9, <1>3, <1>2 DEF n
  <2> DEFINE cut == SubSeq(all, 1, NameMax)
  <2>3. cut \in Seq(Chars) /\ Len(cut) = NameMax
    BY <2>1, <2>2
  <2>4. Len(Append(cut, "?")) = NameMax + 1
    BY <2>3
  <2>5. name \in {cut, Append(cut, "?")}
    BY <1>7, <1>11
  <2> HIDE DEF cut
  <2>6. Len(name) >= NameMax
    BY <2>1, <2>3, <2>4, <2>5
  <2>7. QED
    BY <2>6, <2>1, <1>1
<1>13. QED
  BY <1>8, <1>10, <1>12 DEF a, b, n

\* What the parser starts is what the line asks for.
LEMMA ParsesRight ==
  ASSUME NEW line \in Lines, HoldsLine(line), sbuf \in [SIdx -> Chars],
         NEW name \in ExeNames, Runs(name), NEW arg \in Arguments
  PROVE  Asks(line, programs[dir_entries[Least(EntriesOf(name))].inode_index], arg)
<1> DEFINE n == Len(line)
           i == NameStart + 1
           j == NameEnd
           program == programs[dir_entries[Least(EntriesOf(name))].inode_index]
           Fits(m) ==
             /\ \A x \in 1 .. i - 1 \cup j + 1 .. m - 1 : line[x] = SP
             /\ \A x \in i .. j : line[x] # SP
             /\ arg = SubSeq(line, m, Len(line))
             /\ m <= Len(line) => m > j + 1 /\ line[m] # SP
<1>1. NameStart < n /\ name = SubSeq(line, i, j)
  BY NameFacts
<1>2. n \in Nat /\ n < CommandMax /\ CommandMax \in Nat /\ n \in SIdx /\ line \in Seq(Chars)
  BY LineFacts, SizeAssumption
<1>3. NameStart \in 0 .. n /\ \A x \in 1 .. NameStart : line[x] = SP
  BY NameStartFacts
<1>4. /\ j \in NameStart + 1 .. n
      /\ \A x \in NameStart + 1 .. j : line[x] # SP
      /\ sbuf[j] = IF j < n THEN SP ELSE NUL
  BY <1>1, NameEndFacts
<1>5. i \in 1 .. n /\ j \in i .. n /\ NameStart = i - 1
  BY <1>1, <1>2, <1>3, <1>4
<1>6. Runs(SubSeq(line, i, j))
      /\ programs[dir_entries[Least(EntriesOf(SubSeq(line, i, j)))].inode_index] = program
  BY <1>1
<1> HIDE DEF n, program, i, j
<1>7. \E m \in j + 1 .. n + 1 : Fits(m)
  <2>1. CASE j < n
    <3>1. PICK a \in j + 1 .. n : /\ \A x \in j + 1 .. a : line[x] = SP
                                  /\ a < n => line[a + 1] # SP
                                  /\ arg = SubSeq(line, a + 1, n)
      BY <2>1, <1>1, ArgumentsFacts DEF n, j
    <3> DEFINE m == a + 1
    <3>2. m \in j + 1 .. n + 1 /\ m - 1 = a /\ m > j + 1
      BY <3>1, <1>2, <1>5
    <3>3. \A x \in 1 .. i - 1 \cup j + 1 .. m - 1 : line[x] = SP
      BY <3>1, <3>2, <1>3, <1>5
    <3>4. \A x \in i .. j : line[x] # SP
      BY <1>4, <1>5 DEF i
    <3>5. m <= n => line[m] # SP
      BY <3>1, <3>2, <1>2
    <3>6. Fits(m)
      BY <3>1, <3>2, <3>3, <3>4, <3>5 DEF n
    <3>7. QED
      BY <3>2, <3>6
  <2>2. CASE ~(j < n)
    <3>1. j = n
      BY <2>2, <1>5, <1>2
    <3>2. ~HasArg
      BY <1>4, <2>2, Characters DEF HasArg, j
    <3>3. arg = <<>>
      BY <3>2 DEF Arguments
    <3> DEFINE m == n + 1
    <3>4. SubSeq(line, m, n) = <<>>
      BY <1>2
    <3>5. m \in j + 1 .. n + 1 /\ ~(m <= n)
      BY <1>2, <3>1
    <3>6. \A x \in 1 .. i - 1 \cup j + 1 .. m - 1 : line[x] = SP
      BY <3>1, <1>2, <1>3, <1>5
    <3>7. \A x \in i .. j : line[x] # SP
      BY <1>4, <1>5 DEF i
    <3>8. Fits(m)
      BY <3>3, <3>4, <3>5, <3>6, <3>7 DEF n
    <3>9. QED
      BY <3>5, <3>8
  <2>3. QED
    BY <2>1, <2>2
<1>8. Asks(line, program, arg)
  BY <1>5, <1>6, <1>7 DEF Asks, n
<1>9. QED
  BY <1>8 DEF program

\* On a line that is not blank the argument is shorter than the line.
LEMMA ArgumentIsShort ==
  ASSUME NEW line \in Lines, HoldsLine(line), sbuf \in [SIdx -> Chars],
         Range(line) \ {SP} # {}, NEW arg \in Arguments
  PROVE  Len(arg) < Len(line)
<1>1. line \in Seq(Chars) /\ Len(line) \in Nat
  BY LineFacts
<1>2. NameStart < Len(line)
  <2>1. PICK x \in 1 .. Len(line) : line[x] # SP
    BY <1>1 DEF Range
  <2>2. NameStart \in 0 .. Len(line) /\ x \notin 1 .. NameStart
    BY <2>1, NameStartFacts
  <2>3. QED
    BY <1>1, <2>2
<1>3. NameEnd \in 1 .. Len(line) /\ sbuf[NameEnd] = IF NameEnd < Len(line) THEN SP ELSE NUL
  <2>1. NameStart \in 0 .. Len(line) /\ NameEnd \in NameStart + 1 .. Len(line)
    BY <1>2, NameStartFacts, NameEndFacts
  <2>2. QED
    BY <1>1, <1>2, <2>1, NameEndFacts
<1>4. CASE NameEnd < Len(line)
  <2>1. PICK a \in NameEnd + 1 .. Len(line) : arg = SubSeq(line, a + 1, Len(line))
    BY <1>2, <1>4, ArgumentsFacts
  <2>2. a \in Nat /\ a <= Len(line) /\ a >= 1
    BY <1>1, <1>3
  <2>3. Len(arg) = Len(line) - a
    BY <1>1, <2>1, <2>2, PieceFacts
  <2>4. QED
    BY <1>1, <2>2, <2>3
<1>5. CASE ~(NameEnd < Len(line))
  <2>1. ~HasArg
    BY <1>3, <1>5, Characters DEF HasArg
  <2>2. arg = <<>>
    BY <2>1 DEF Arguments
  <2>3. QED
    BY <1>1, <1>2, <2>2, NameStartFacts
<1>6. QED
  BY <1>4, <1>5

-----------------------------------------------------------------------------
(* The descriptor table.                                                   *)

Descriptor == [ops : {RTC, DIR, FILE, TERM, NULL}, inode : Inodes,
               position : Nat, flags : {0, 1}]

TableTypes ==
  /\ fdt \in [Fds -> Descriptor]
  /\ ret \in -1 .. FdNum + BufSize + NameMax + 31
  /\ fdt[0] = Stdio /\ fdt[1] = Stdio

Size(e) ==
  IF e.file_type = FILE THEN Len(content[e.inode_index])
  ELSE IF e.file_type = DIR THEN Len(dir_entries) ELSE 0

\* Descriptor f is open on entry e, at a position within it.
OnEntry(f, e) ==
  /\ IsOpen(f) /\ f \in UserFds
  /\ fdt[f].ops = e.file_type
  /\ e.file_type = FILE => fdt[f].inode = e.inode_index
  /\ fdt[f].position <= Size(e)

\* Nothing is open from descriptor lo on.
ClosedFrom(lo) == \A f \in UserFds : f >= lo => ~IsOpen(f)

LEMMA FdFacts ==
  /\ FdNum \in Nat /\ FdNum >= 4
  /\ 0 \in Fds /\ 1 \in Fds /\ 2 \in UserFds /\ 3 \in UserFds
  /\ \A f \in UserFds : f \in Fds /\ f \in Nat /\ f >= 2 /\ f < FdNum
  /\ \A f \in Fds : f \in Nat /\ f < FdNum
BY SizeAssumption DEF Fds, UserFds

LEMMA StdioFacts == Stdio \in Descriptor /\ Unused \in Descriptor
BY ImageAssumption DEF Stdio, Unused, Descriptor

\* The lowest free descriptor.
LEMMA FirstFree ==
  ASSUME NEW f \in UserFds, ~IsOpen(f), \A g \in UserFds : g < f => IsOpen(g)
  PROVE  FreeUserFds # {} /\ Least(FreeUserFds) = f
<1>1. FreeUserFds \in SUBSET Nat /\ f \in FreeUserFds /\ \A g \in FreeUserFds : ~(g < f)
  BY FdFacts DEF FreeUserFds
<1>2. Least(FreeUserFds) \in FreeUserFds /\ Least(FreeUserFds) <= f
  BY <1>1, LeastFacts
<1>3. f \in Nat /\ Least(FreeUserFds) \in Nat
  BY <1>1, <1>2
<1>4. QED
  BY <1>1, <1>2, <1>3

\* Opening an entry's name opens the entry, at its start, with the lowest
\* free descriptor.
LEMMA OpenFacts ==
  ASSUME TableTypes, NEW name, EntriesOf(name) # {}, TOpen(name),
         NEW f \in UserFds, ~IsOpen(f), \A g \in UserFds : g < f => IsOpen(g)
  PROVE  /\ ret' = f /\ TableTypes'
         /\ OnEntry(f, dir_entries[Least(EntriesOf(name))])'
         /\ fdt'[f].position = 0
         /\ \A g \in Fds : g # f => fdt'[g] = fdt[g]
<1> DEFINE e == dir_entries[Least(EntriesOf(name))]
           d == [ops |-> e.file_type,
                 inode |-> IF e.file_type = FILE THEN e.inode_index ELSE 0,
                 position |-> 0, flags |-> 1]
<1>1. Least(EntriesOf(name)) \in DOMAIN dir_entries
  BY EntriesOfFacts
<1>2. ret' = f /\ fdt' = [fdt EXCEPT ![f] = d]
  BY FirstFree DEF TOpen
<1>3. /\ e.file_type \in {RTC, DIR, FILE} /\ e.inode_index \in Inodes
      /\ content[e.inode_index] \in Seq(Chars)
  BY <1>1, EntryFacts
<1>4. Size(e) \in Nat
  BY <1>3, DirectoryFacts DEF Size
<1> HIDE DEF e
<1>5. d \in Descriptor
  BY <1>3, ImageAssumption DEF Descriptor
<1>6. f \in Fds /\ f # 0 /\ f # 1 /\ f < FdNum /\ f \in Nat
  BY FdFacts
<1>7. d.ops = e.file_type /\ (e.file_type = FILE => d.inode = e.inode_index)
      /\ d.position = 0 /\ d.flags = 1
  OBVIOUS
<1> HIDE DEF d
<1>8. fdt' \in [Fds -> Descriptor] /\ fdt'[f] = d /\ \A g \in Fds : g # f => fdt'[g] = fdt[g]
  BY <1>2, <1>5, <1>6 DEF TableTypes
<1>9. TableTypes'
  BY <1>2, <1>6, <1>8, FdFacts, SizeAssumption DEF TableTypes
<1>10. OnEntry(f, e)'
  BY <1>4, <1>6, <1>7, <1>8 DEF OnEntry, IsOpen, Size
<1>11. QED
  BY <1>2, <1>7, <1>8, <1>9, <1>10 DEF e

LEMMA FailFacts ==
  ASSUME TableTypes, TFail
  PROVE  TableTypes' /\ ret' = -1 /\ fdt' = fdt
BY SizeAssumption DEF TableTypes, TFail

LEMMA CloseFacts ==
  ASSUME TableTypes, NEW f, TClose(f)
  PROVE  /\ TableTypes' /\ ret' = 0 /\ f \in UserFds /\ IsOpen(f)
         /\ fdt'[f].flags = 0
         /\ \A g \in Fds : g # f => fdt'[g] = fdt[g]
<1>1. f \in UserFds /\ IsOpen(f) /\ f \in Fds /\ f # 0 /\ f # 1
  BY FdFacts DEF TClose
<1>2. ret' = 0 /\ fdt' = [fdt EXCEPT ![f] = [fdt[f] EXCEPT !.flags = 0]]
  BY DEF TClose
<1>3. fdt[f] \in Descriptor
  BY <1>1 DEF TableTypes
<1> DEFINE d == [fdt[f] EXCEPT !.flags = 0]
<1>4. d \in Descriptor /\ d.flags = 0
  BY <1>3 DEF Descriptor
<1> HIDE DEF d
<1>5. fdt' \in [Fds -> Descriptor] /\ fdt'[f] = d /\ \A g \in Fds : g # f => fdt'[g] = fdt[g]
  BY <1>1, <1>2, <1>4 DEF TableTypes, d
<1>6. QED
  BY <1>1, <1>2, <1>4, <1>5, FdFacts, SizeAssumption DEF TableTypes

\* A read through an open descriptor never fails; what it does depends on
\* what is open.
LEMMA ReadIs ==
  ASSUME TableTypes, NEW f, NEW e, OnEntry(f, e), NEW n \in Int,
         Read(f, n), n > 0 \/ e.file_type # FILE
  PROVE  /\ e.file_type = FILE => TReadFile(f, n)
         /\ e.file_type = DIR => TReadDir(f)
         /\ e.file_type = RTC => ret' = 0 /\ UNCHANGED fdt
<1>1. CanRead(f) /\ fdt[f].ops = e.file_type
  BY DEF OnEntry, CanRead
<1>2. TReadFile(f, n) => fdt[f].ops = FILE
  BY DEF TReadFile
<1>3. TReadDir(f) => fdt[f].ops = DIR
  BY DEF TReadDir
<1>4. IsRtc(f) => fdt[f].ops = RTC
  BY DEF IsRtc
<1>5. \/ TReadFile(f, n) \/ TReadDir(f)
      \/ IsRtc(f) /\ ret' = 0 /\ UNCHANGED fdt
      \/ (fdt[f].ops = FILE /\ n <= 0) /\ TFail
  BY <1>1 DEF Read
<1>6. ~(fdt[f].ops = FILE /\ n <= 0)
  BY <1>1
<1>7. RTC # DIR /\ RTC # FILE /\ DIR # FILE
  BY DEF RTC, DIR, FILE
<1>8. QED
  BY <1>1, <1>2, <1>3, <1>4, <1>5, <1>6, <1>7

\* Adjacent pieces make one piece.
LEMMA PiecesJoin ==
  ASSUME NEW C, NEW t \in Seq(C), NEW a \in Nat, NEW b \in Nat, NEW c \in Nat,
         a <= b, b <= c, c <= Len(t)
  PROVE  SubSeq(t, a + 1, b) \o SubSeq(t, b + 1, c) = SubSeq(t, a + 1, c)
<1> DEFINE u == SubSeq(t, a + 1, b)
           v == SubSeq(t, b + 1, c)
           w == SubSeq(t, a + 1, c)
<1>1. /\ u \in Seq(C) /\ Len(u) = b - a /\ \A j \in 1 .. b - a : u[j] = t[a + j]
      /\ v \in Seq(C) /\ Len(v) = c - b /\ \A j \in 1 .. c - b : v[j] = t[b + j]
      /\ w \in Seq(C) /\ Len(w) = c - a /\ \A j \in 1 .. c - a : w[j] = t[a + j]
  <2>1. a <= c /\ b <= Len(t)
    OBVIOUS
  <2>2. QED
    BY <2>1, PieceFacts
<1> HIDE DEF u, v, w
<1>2. u \o v \in Seq(C) /\ Len(u \o v) = Len(w)
  <2>1. u \o v \in Seq(C) /\ Len(u \o v) = Len(u) + Len(v)
    <3>1. u \in Seq(C) /\ v \in Seq(C)
      BY <1>1
    <3>2. QED
      BY <3>1, ConcatProperties
  <2>2. (b - a) + (c - b) = c - a
    OBVIOUS
  <2>3. QED
    BY <1>1, <2>1, <2>2
<1>3. ASSUME NEW j \in 1 .. Len(w) PROVE (u \o v)[j] = w[j]
  <2>1. CASE j <= b - a
    <3>1. j \in 1 .. Len(u) /\ j \in 1 .. b - a /\ j \in 1 .. c - a
      BY <1>1, <2>1
    <3>2. (u \o v)[j] = u[j]
      BY <1>1, <3>1
    <3>3. QED
      BY <1>1, <3>1, <3>2
  <2>2. CASE ~(j <= b - a)
    <3>1. j - (b - a) \in 1 .. c - b /\ j \in 1 .. c - a /\ b + (j - (b - a)) = a + j
      BY <1>1, <2>2
    <3>2. u \in Seq(C) /\ v \in Seq(C)
      BY <1>1
    <3>3. \A x \in 1 .. Len(u) + Len(v) :
            (u \o v)[x] = IF x <= Len(u) THEN u[x] ELSE v[x - Len(u)]
      BY <3>2, ConcatProperties
    <3>4. Len(u) = b - a /\ j \in 1 .. Len(u) + Len(v)
      BY <1>1, <2>2
    <3>5. (u \o v)[j] = v[j - (b - a)]
      BY <2>2, <3>3, <3>4
    <3>6. QED
      BY <1>1, <3>1, <3>5
  <2>3. QED
    BY <2>1, <2>2
<1>4. u \o v = w
  BY <1>1, <1>2, <1>3, SeqEqual
<1>5. QED
  BY <1>4 DEF u, v, w

LEMMA ReadFileFacts ==
  ASSUME TableTypes, NEW f, NEW e \in Entry, OnEntry(f, e), e.file_type = FILE,
         NEW n \in 1 .. BufSize, Read(f, n)
  PROVE  LET t == content[e.inode_index]
             q == fdt[f].position IN
         /\ TableTypes' /\ OnEntry(f, e)'
         /\ ret' \in 0 .. n /\ (ret' = n \/ q + ret' = Len(t))
         /\ fdt'[f].position = q + ret' /\ q \in Nat
         /\ Got(f) = SubSeq(t, q + 1, q + ret')
         /\ \A g \in Fds : g # f => fdt'[g] = fdt[g]
<1> DEFINE t == content[e.inode_index]
           q == fdt[f].position
           d == [fdt[f] EXCEPT !.position = @ + Taken(f, n)]
<1>1. TReadFile(f, n)
  <2>1. n \in Int /\ n > 0
    BY SizeAssumption
  <2>2. QED
    BY <2>1, ReadIs
<1>2. /\ f \in Fds /\ f # 0 /\ f # 1 /\ fdt[f] \in Descriptor
      /\ fdt[f].inode = e.inode_index /\ q \in Nat /\ q <= Len(t)
      /\ t \in Seq(Chars) /\ length[fdt[f].inode] = Len(t)
  <2>1. f \in Fds /\ f # 0 /\ f # 1 /\ fdt[f] \in Descriptor
    BY FdFacts DEF OnEntry, TableTypes
  <2>2. e.inode_index \in Inodes
    BY DEF Entry
  <2>3. q <= Len(t) /\ fdt[f].inode = e.inode_index
    BY DEF OnEntry, Size
  <2>4. q \in Nat
    BY <2>1 DEF Descriptor
  <2>5. QED
    BY <2>1, <2>2, <2>3, <2>4, ImageAssumption
<1>3. Taken(f, n) = IF n <= Len(t) - q THEN n ELSE Len(t) - q
  BY <1>2 DEF Taken
<1>4. ret' = Taken(f, n) /\ fdt' = [fdt EXCEPT ![f] = d]
  BY <1>1 DEF TReadFile
<1>5. Len(t) \in Nat /\ q \in Nat /\ q <= Len(t) /\ n \in Nat /\ n <= BufSize /\ BufSize \in Nat
  BY <1>2, SizeAssumption
<1> HIDE DEF t, q
<1>6. /\ Taken(f, n) \in 0 .. n /\ q + Taken(f, n) \in Nat /\ q + Taken(f, n) <= Len(t)
      /\ Taken(f, n) = n \/ q + Taken(f, n) = Len(t)
  BY <1>3, <1>5
<1>7. /\ d \in Descriptor /\ d.position = q + Taken(f, n)
      /\ d.flags = fdt[f].flags /\ d.ops = fdt[f].ops /\ d.inode = fdt[f].inode
  BY <1>2, <1>6 DEF Descriptor, q
<1> HIDE DEF d
<1>8. fdt' \in [Fds -> Descriptor] /\ fdt'[f] = d /\ \A g \in Fds : g # f => fdt'[g] = fdt[g]
  BY <1>2, <1>4, <1>7 DEF TableTypes
<1>9. TableTypes'
  BY <1>2, <1>4, <1>5, <1>6, <1>8, FdFacts, SizeAssumption DEF TableTypes
<1>10. OnEntry(f, e)'
  BY <1>2, <1>6, <1>7, <1>8 DEF OnEntry, IsOpen, Size, t
<1>11. Got(f) = SubSeq(t, q + 1, q + ret')
  <2>1. fdt[f].ops # DIR
    BY DEF OnEntry, DIR, FILE
  <2>2. CASE ret' <= 0
    <3>1. ret' = 0
      BY <2>2, <1>4, <1>6
    <3>2. SubSeq(t, q + 1, q) = <<>>
      BY <1>5, <1>2 DEF t
    <3>3. Got(f) = <<>>
      BY <3>1 DEF Got
    <3>4. q + ret' = q
      BY <3>1, <1>5
    <3>5. QED
      BY <3>2, <3>3, <3>4
  <2>3. CASE ~(ret' <= 0)
    BY <2>1, <2>3, <1>2 DEF Got, t, q
  <2>4. QED
    BY <2>2, <2>3
<1>12. QED
  BY <1>4, <1>5, <1>6, <1>7, <1>8, <1>9, <1>10, <1>11 DEF t, q

LEMMA ReadDirFacts ==
  ASSUME TableTypes, NEW f, NEW e, OnEntry(f, e), e.file_type = DIR,
         NEW n \in Int, Read(f, n)
  PROVE  LET q == fdt[f].position IN
         /\ TableTypes' /\ OnEntry(f, e)' /\ q \in Nat /\ q <= Len(dir_entries)
         /\ \A g \in Fds : g # f => fdt'[g] = fdt[g]
         /\ q = Len(dir_entries) => ret' = 0 /\ Got(f) = <<>> /\ fdt'[f].position = q
         /\ q # Len(dir_entries) =>
              /\ q + 1 \in DOMAIN dir_entries
              /\ ret' = Len(dir_entries[q + 1].fname) /\ ret' \in 1 .. NameMax
              /\ Got(f) = dir_entries[q + 1].fname
              /\ fdt'[f].position = q + 1
<1> DEFINE q == fdt[f].position
           m == Len(dir_entries)
           d == [fdt[f] EXCEPT !.position = @ + 1]
<1>1. TReadDir(f)
  <2>1. e.file_type # FILE
    BY DEF DIR, FILE
  <2>2. QED
    BY <2>1, ReadIs
<1>2. f \in Fds /\ f # 0 /\ f # 1 /\ fdt[f] \in Descriptor
  BY FdFacts DEF OnEntry, TableTypes
<1>3. q \in Nat /\ m \in Nat /\ q <= m /\ fdt[f].ops = DIR
  <2>1. Size(e) = m
    BY DEF Size, DIR, FILE
  <2>2. QED
    BY <1>2, <2>1, DirectoryFacts DEF OnEntry, Descriptor
<1>4. /\ q >= m => ret' = 0 /\ UNCHANGED fdt
      /\ ~(q >= m) => ret' = Len(dir_entries[q + 1].fname) /\ fdt' = [fdt EXCEPT ![f] = d]
  BY <1>1 DEF TReadDir
<1> HIDE DEF q, m
<1>5. CASE q = m
  <2>1. ret' = 0 /\ fdt' = fdt
    BY <1>3, <1>4, <1>5
  <2>2. Got(f) = <<>>
    BY <2>1 DEF Got
  <2>3. TableTypes' /\ OnEntry(f, e)'
    BY <2>1, SizeAssumption DEF TableTypes, OnEntry, IsOpen, Size
  <2>4. QED
    BY <1>3, <1>5, <2>1, <2>2, <2>3 DEF q, m
<1>6. CASE q # m
  <2>1. ~(q >= m) /\ q + 1 \in 1 .. m
    BY <1>3, <1>6
  <2>2. q + 1 \in DOMAIN dir_entries
    BY <2>1, DirectoryFacts DEF m
  <2>3. ret' = Len(dir_entries[q + 1].fname) /\ fdt' = [fdt EXCEPT ![f] = d]
    BY <2>1, <1>4
  <2>4. ret' \in 1 .. NameMax
    BY <2>2, <2>3, EntryFacts
  <2>5. /\ d \in Descriptor /\ d.position = q + 1
        /\ d.flags = fdt[f].flags /\ d.ops = fdt[f].ops /\ d.inode = fdt[f].inode
    BY <1>2, <1>3 DEF Descriptor, q
  <2> HIDE DEF d
  <2>6. fdt' \in [Fds -> Descriptor] /\ fdt'[f] = d /\ \A g \in Fds : g # f => fdt'[g] = fdt[g]
    BY <1>2, <2>3, <2>5 DEF TableTypes
  <2>7. TableTypes'
    BY <1>2, <2>4, <2>6, FdFacts, SizeAssumption DEF TableTypes
  <2>8. OnEntry(f, e)'
    <3>1. Size(e) = m
      BY DEF Size, DIR, FILE, m
    <3>2. IsOpen(f)'
      BY <2>5, <2>6 DEF OnEntry, IsOpen
    <3>3. fdt'[f].position <= Size(e)
      BY <2>1, <2>5, <2>6, <3>1, <1>3
    <3>4. QED
      BY <2>5, <2>6, <3>2, <3>3 DEF OnEntry, Size
  <2>9. Got(f) = dir_entries[q + 1].fname
    <3>1. ~(ret' <= 0)
      BY <2>4
    <3>2. QED
      BY <3>1, <1>3 DEF Got, q
  <2>10. QED
    BY <1>3, <1>6, <2>2, <2>3, <2>4, <2>5, <2>6, <2>7, <2>8, <2>9 DEF q, m
<1>7. QED
  BY <1>5, <1>6

LEMMA ReadClockFacts ==
  ASSUME TableTypes, NEW f, NEW e, OnEntry(f, e), e.file_type = RTC,
         NEW n \in Int, Read(f, n)
  PROVE  /\ TableTypes' /\ OnEntry(f, e)'
         /\ ret' = 0 /\ fdt' = fdt /\ Got(f) = <<>>
<1>1. e.file_type # FILE
  BY DEF RTC, FILE
<1>2. ret' = 0 /\ fdt' = fdt
  BY <1>1, ReadIs
<1>3. QED
  BY <1>2, SizeAssumption DEF TableTypes, OnEntry, IsOpen, Size, Got

-----------------------------------------------------------------------------
(* The invariant.                                                          *)

OtherTypes ==
  /\ sbuf \in [SIdx -> Chars] /\ argument \in Seq(Chars) /\ out \in Seq(Chars)
  /\ last \in 0 .. BufSize /\ line_start \in 0 .. BufSize + 1
  /\ data \in [DIdx -> Chars]

CatSteps == {"cat", "cat read"}
LsSteps == {"ls", "ls read"}
GrepSteps == {"grep", "grep next", "grep open", "grep read", "grep line", "grep close"}

\* The program that runs is the one whose step is next.
StepInv ==
  /\ pc \in {"shell", "execute", "exit", "syserr"} \cup CatSteps \cup LsSteps \cup GrepSteps
  /\ pc \in CatSteps => prog = "cat"
  /\ pc \in LsSteps => prog = "ls"
  /\ pc \in GrepSteps => prog = "grep"
  /\ pc = "syserr" => prog = "syserr"
  /\ pc = "exit" => prog \in Executables

\* From the newline to the program's end, the line is known, and what the
\* PCB has of it.
AskInv ==
  /\ typed \in Lines \cup {<<>>} /\ ArgumentFits
  /\ pc = "execute" => typed \in Lines /\ HoldsLine(typed)
  /\ pc \notin {"shell", "execute"} => Asks(typed, prog, argument)

\* A program starts with nothing open and nothing printed.
FreshInv ==
  pc \in {"shell", "execute", "cat", "ls", "grep"} =>
    ClosedFrom(2) /\ out = <<>> /\ k = 1 /\ found = NothingFound /\ stray = {}

EntryNames == [n \in DOMAIN dir_entries |-> dir_entries[n].fname]
EntryLines == [n \in DOMAIN dir_entries |-> Append(dir_entries[n].fname, NL)]

\* What reading entry e has given at position q.
UpTo(e, q) ==
  IF e.file_type = FILE THEN SubSeq(content[e.inode_index], 1, q)
  ELSE IF e.file_type = DIR THEN Before(EntryNames, q) ELSE <<>>

EntryOf(name) == dir_entries[Least(EntriesOf(name))]

CatInv ==
  pc = "cat read" =>
    /\ argument # <<>> /\ EntriesOf(argument) # {}
    /\ fd = 2 /\ OnEntry(2, EntryOf(argument))
    /\ out = UpTo(EntryOf(argument), fdt[2].position)

LsInv ==
  pc = "ls read" =>
    /\ fd = 2 /\ OnEntry(2, EntryOf(<<".">>))
    /\ out = Before(EntryLines, fdt[2].position)

\* syserr's third test has opened descriptors up to k - 6 before call k, and
\* has closed those up to k - 5 - FdNum again.
SysInv ==
  pc = "syserr" =>
    /\ k \in 1 .. Len(Calls) + 1
    /\ \A f \in UserFds : /\ IsOpen(f) <=> k - 5 - FdNum < f /\ f <= k - 6
                          /\ IsOpen(f) => OnEntry(f, EntryOf(<<".">>))

\* Something that is printed at each entry.
PerEntry == [DOMAIN dir_entries -> Seq(Chars)]

\* The entry that grep has come to.
Current == dir_entries[fdt[2].position]

GrepDirInv ==
  pc \in GrepSteps \ {"grep"} =>
    /\ argument # <<>>
    /\ dirfd = 2 /\ OnEntry(2, EntryOf(<<".">>))
    /\ ClosedFrom(4)

GrepFileInv ==
  /\ pc \in {"grep next", "grep open"} => ClosedFrom(3)
  /\ pc \in GrepSteps \ {"grep", "grep next"} =>
       /\ fdt[2].position \in DOMAIN dir_entries
       /\ fname = Current.fname /\ fname[1] # "."
  /\ pc \in {"grep read", "grep line", "grep close"} => fd = 3 /\ OnEntry(3, Current)
  /\ pc = "grep read" => last < BufSize
  /\ pc = "grep line" => line_start <= last /\ cnt \in 0 .. BufSize

\* Text t has been dealt with up to s, which is where a line begins, or the
\* end of one.
AtLine(t, s) ==
  /\ s \in 0 .. Len(t)
  /\ s \in Starts(t) \/ s = Len(t) \/ t[s + 1] = NL

\* The rest of the buffer, from lo on, is what the last read has brought and
\* what was left before, and no newline lies behind the buffer.
HoldsRest(t, q, lo) ==
  /\ last <= q /\ q <= Len(t)
  /\ \A j \in lo .. last - 1 : data[j] = t[q - last + j + 1]
  /\ data[BufSize] # NL

\* What grep has printed at each entry is in its output in the entries' order;
\* of those it is done with it has printed what it is to, and it has printed
\* nothing of those ahead.
GrepFoundInv ==
  pc \in GrepSteps \ {"grep"} =>
    LET p == fdt[2].position IN
    /\ found \in PerEntry
    /\ out = Before(found, p)
    /\ \A m \in DOMAIN dir_entries :
         m > p \/ (m = p /\ pc = "grep open") => found[m] = <<>>
    /\ \A m \in DOMAIN dir_entries :
         (m < p \/ (m = p /\ pc \in {"grep next", "grep close"})) /\ Fit(m) =>
           found[m] = Found(dir_entries[m], argument)

\* What it has printed of the entry it is at, and where it is in the file.
GrepOutInv ==
  LET p == fdt[2].position
      q == fdt[3].position
      t == content[Current.inode_index] IN
  /\ pc \in {"grep read", "grep line"} /\ Current.file_type = RTC =>
       /\ found[p] = <<>> /\ last = 0
       /\ pc = "grep line" => line_start = 0 /\ cnt = 0
  /\ pc = "grep read" /\ Current.file_type = FILE /\ Fit(p) =>
       /\ HoldsRest(t, q, 0) /\ AtLine(t, q - last)
       /\ found[p] = Before(Hits(Current, argument), q - last)
  /\ pc = "grep line" /\ Current.file_type = FILE /\ Fit(p) =>
       /\ HoldsRest(t, q, line_start) /\ AtLine(t, q - last + line_start)
       /\ found[p] = Before(Hits(Current, argument), q - last + line_start)
       /\ last = BufSize \/ q = Len(t)
       /\ cnt = 0 => q = Len(t)
       /\ cnt # 0 => last > 0

\* What programs have done when they end.
EndInv == CatCopies /\ LsLists /\ GrepFinds /\ SysErrPasses

ProgramsInv ==
  /\ TableTypes /\ OtherTypes
  /\ StepInv /\ AskInv /\ FreshInv
  /\ CatInv /\ LsInv /\ SysInv
  /\ GrepDirInv /\ GrepFileInv /\ GrepFoundInv /\ GrepOutInv
  /\ EndInv

-----------------------------------------------------------------------------
(* The calls of syserr.                                                    *)

\* Two sequences in a row.
LEMMA JoinFacts ==
  ASSUME NEW C, NEW u \in Seq(C), NEW v \in Seq(C)
  PROVE  /\ u \o v \in Seq(C) /\ Len(u \o v) = Len(u) + Len(v)
         /\ \A j \in 1 .. Len(u) : (u \o v)[j] = u[j]
         /\ \A j \in 1 .. Len(v) : (u \o v)[Len(u) + j] = v[j]
<1>1. /\ u \o v \in Seq(C) /\ Len(u \o v) = Len(u) + Len(v)
      /\ \A i \in 1 .. Len(u) + Len(v) :
           (u \o v)[i] = IF i <= Len(u) THEN u[i] ELSE v[i - Len(u)]
  BY ConcatProperties
<1>2. Len(u) \in Nat /\ Len(v) \in Nat
  OBVIOUS
<1>3. ASSUME NEW j \in 1 .. Len(u) PROVE (u \o v)[j] = u[j]
  <2>1. j \in 1 .. Len(u) + Len(v) /\ j <= Len(u)
    BY <1>2
  <2>2. QED
    BY <1>1, <2>1
<1>4. ASSUME NEW j \in 1 .. Len(v) PROVE (u \o v)[Len(u) + j] = v[j]
  <2> DEFINE i == Len(u) + j
  <2>1. i \in 1 .. Len(u) + Len(v) /\ ~(i <= Len(u)) /\ i - Len(u) = j
    BY <1>2
  <2> HIDE DEF i
  <2>2. (u \o v)[i] = v[j]
    BY <1>1, <2>1
  <2>3. QED
    BY <2>2 DEF i
<1>5. QED
  BY <1>1, <1>3, <1>4

\* The calls with a bad descriptor, and those with a bad name.
BadFdCalls ==
  {Call(t, op, f) : t \in {1, 2}, op \in {"read", "write", "close"}, f \in {NEG_FD, BIG_FD}}
BadNameCalls == {Call(4, "open", <<"h", "h">>), Call(4, "open", <<>>)}
OpenDots == {Call(3, "open", <<".">>)}
Closes == {Call(3, "close", f) : f \in UserFds}

\* The calls of tests 5 to 8.
LateCalls ==
  {Call(5, "close", f) : f \in Fds} \cup {Call(5, "read", f) : f \in UserFds}
    \cup {Call(5, "write", f) : f \in UserFds}
    \cup {Call(6, "vidmap", NULL), Call(6, "vidmap", "kernel"),
          Call(7, "write", 0), Call(7, "read", 1),
          Call(8, "number", 11), Call(8, "number", -11), Call(8, "number", 0)}

AnyCall == BadFdCalls \cup BadNameCalls \cup OpenDots \cup Closes \cup LateCalls

LEMMA AllFdsFacts ==
  ASSUME NEW test, NEW op, NEW lo \in {0, 2}
  PROVE  /\ AllFds(test, op, lo) \in Seq({Call(test, op, f) : f \in lo .. FdNum - 1})
         /\ Len(AllFds(test, op, lo)) = FdNum - lo
         /\ \A j \in 1 .. FdNum - lo : AllFds(test, op, lo)[j] = Call(test, op, lo + j - 1)
<1> DEFINE C == {Call(test, op, f) : f \in lo .. FdNum - 1}
           s == AllFds(test, op, lo)
<1>1. FdNum - lo \in Nat /\ FdNum \in Nat /\ lo \in Nat
  BY FdFacts
<1>2. s = [f \in 1 .. FdNum - lo |-> Call(test, op, lo + f - 1)]
  BY DEF AllFds
<1>3. ASSUME NEW f \in 1 .. FdNum - lo PROVE Call(test, op, lo + f - 1) \in C
  <2>1. lo + f - 1 \in lo .. FdNum - 1
    BY <1>1
  <2>2. QED
    BY <2>1
<1> HIDE DEF C
<1>4. s \in [1 .. FdNum - lo -> C]
  BY <1>2, <1>3
<1>5. s \in Seq(C)
  BY <1>1, <1>4, SeqDef
<1>6. Len(s) = FdNum - lo
  BY <1>1, <1>2
<1>7. QED
  BY <1>2, <1>5, <1>6 DEF C

LEMMA FirstCallsFacts ==
  /\ FirstCalls \in Seq(AnyCall) /\ Len(FirstCalls) = FdNum + FdNum + 5
  /\ \A j \in 1 .. 6 : FirstCalls[j] \in BadFdCalls
  /\ \A j \in 7 .. FdNum + 5 : FirstCalls[j] = Call(3, "open", <<".">>)
  /\ \A j \in FdNum + 6 .. FdNum + FdNum + 3 :
       FirstCalls[j] = Call(3, "close", j - FdNum - 4)
  /\ \A j \in FdNum + FdNum + 4 .. FdNum + FdNum + 5 : FirstCalls[j] \in BadNameCalls
<1> DEFINE a == <<Call(1, "read", NEG_FD), Call(1, "write", NEG_FD), Call(1, "close", NEG_FD),
                  Call(2, "read", BIG_FD), Call(2, "write", BIG_FD), Call(2, "close", BIG_FD)>>
           b == [n \in 1 .. FdNum - 1 |-> Call(3, "open", <<".">>)]
           c1 == AllFds(3, "close", 2)
           d == <<Call(4, "open", <<"h", "h">>), Call(4, "open", <<>>)>>
           N == FdNum
<1>0. N \in Nat /\ N >= 4 /\ N - 1 \in Nat /\ N - 2 \in Nat
  BY FdFacts
<1>1. a \in Seq(BadFdCalls) /\ Len(a) = 6
  <2>1. /\ Call(1, "read", NEG_FD) \in BadFdCalls /\ Call(1, "write", NEG_FD) \in BadFdCalls
        /\ Call(1, "close", NEG_FD) \in BadFdCalls /\ Call(2, "read", BIG_FD) \in BadFdCalls
        /\ Call(2, "write", BIG_FD) \in BadFdCalls /\ Call(2, "close", BIG_FD) \in BadFdCalls
    BY DEF BadFdCalls
  <2>2. QED
    BY <2>1
<1>2. b \in Seq(OpenDots) /\ Len(b) = N - 1
  <2>1. b \in [1 .. N - 1 -> OpenDots]
    BY DEF OpenDots
  <2>2. QED
    BY <1>0, <2>1, SeqDef
<1>3. c1 \in Seq(Closes) /\ Len(c1) = N - 2
      /\ \A j \in 1 .. N - 2 : c1[j] = Call(3, "close", 2 + j - 1)
  BY AllFdsFacts DEF Closes, UserFds
<1>4. d \in Seq(BadNameCalls) /\ Len(d) = 2
  BY DEF BadNameCalls
<1>5. FirstCalls = ((a \o b) \o c1) \o d
  BY DEF FirstCalls
<1>6. \A j \in 1 .. 6 : a[j] \in BadFdCalls
  BY <1>1
<1>7. \A j \in 1 .. N - 1 : b[j] = Call(3, "open", <<".">>)
  OBVIOUS
<1>8. \A j \in 1 .. 2 : d[j] \in BadNameCalls
  BY <1>4
<1> HIDE DEF a, b, c1, d, N
<1>9. a \in Seq(AnyCall) /\ b \in Seq(AnyCall) /\ c1 \in Seq(AnyCall) /\ d \in Seq(AnyCall)
  <2>1. /\ BadFdCalls \subseteq AnyCall /\ OpenDots \subseteq AnyCall
        /\ Closes \subseteq AnyCall /\ BadNameCalls \subseteq AnyCall
    BY DEF AnyCall
  <2>2. QED
    BY <1>1, <1>2, <1>3, <1>4, <2>1, SeqMonotonic
<1> DEFINE ab == a \o b
           abc == ab \o c1
           abcd == abc \o d
<1>10. /\ ab \in Seq(AnyCall) /\ Len(ab) = 6 + (N - 1)
       /\ \A j \in 1 .. 6 : ab[j] = a[j]
       /\ \A j \in 1 .. N - 1 : ab[6 + j] = b[j]
  <2>1. a \in Seq(AnyCall) /\ b \in Seq(AnyCall)
    BY <1>9
  <2>2. /\ a \o b \in Seq(AnyCall) /\ Len(a \o b) = Len(a) + Len(b)
        /\ \A j \in 1 .. Len(a) : (a \o b)[j] = a[j]
        /\ \A j \in 1 .. Len(b) : (a \o b)[Len(a) + j] = b[j]
    BY <2>1, JoinFacts
  <2>3. QED
    BY <2>2, <1>1, <1>2
<1> HIDE DEF ab
<1>11. /\ abc \in Seq(AnyCall) /\ Len(abc) = Len(ab) + (N - 2)
       /\ \A j \in 1 .. Len(ab) : abc[j] = ab[j]
       /\ \A j \in 1 .. N - 2 : abc[Len(ab) + j] = c1[j]
  <2>1. ab \in Seq(AnyCall) /\ c1 \in Seq(AnyCall)
    BY <1>9, <1>10
  <2>2. /\ ab \o c1 \in Seq(AnyCall) /\ Len(ab \o c1) = Len(ab) + Len(c1)
        /\ \A j \in 1 .. Len(ab) : (ab \o c1)[j] = ab[j]
        /\ \A j \in 1 .. Len(c1) : (ab \o c1)[Len(ab) + j] = c1[j]
    BY <2>1, JoinFacts
  <2>3. QED
    BY <2>2, <1>3
<1> HIDE DEF abc
<1>12. /\ abcd \in Seq(AnyCall) /\ Len(abcd) = Len(abc) + 2
       /\ \A j \in 1 .. Len(abc) : abcd[j] = abc[j]
       /\ \A j \in 1 .. 2 : abcd[Len(abc) + j] = d[j]
  <2>1. abc \in Seq(AnyCall) /\ d \in Seq(AnyCall)
    BY <1>9, <1>11
  <2>2. /\ abc \o d \in Seq(AnyCall) /\ Len(abc \o d) = Len(abc) + Len(d)
        /\ \A j \in 1 .. Len(abc) : (abc \o d)[j] = abc[j]
        /\ \A j \in 1 .. Len(d) : (abc \o d)[Len(abc) + j] = d[j]
    BY <2>1, JoinFacts
  <2>3. QED
    BY <2>2, <1>4
<1>13. FirstCalls = abcd
  BY <1>5 DEF ab, abc
<1> HIDE DEF abcd
<1>14. Len(ab) = N + 5 /\ Len(abc) = N + N + 3 /\ Len(abcd) = N + N + 5
  BY <1>0, <1>10, <1>11, <1>12
<1>15. ASSUME NEW j \in 1 .. 6 PROVE abcd[j] \in BadFdCalls
  <2>1. j \in 1 .. Len(ab) /\ j \in 1 .. Len(abc)
    BY <1>0, <1>14
  <2>2. QED
    BY <2>1, <1>6, <1>10, <1>11, <1>12
<1>16. ASSUME NEW j \in 7 .. N + 5 PROVE abcd[j] = Call(3, "open", <<".">>)
  <2>1. j \in 1 .. Len(ab) /\ j \in 1 .. Len(abc) /\ j - 6 \in 1 .. N - 1 /\ 6 + (j - 6) = j
    BY <1>0, <1>14
  <2>2. abcd[j] = ab[j] /\ ab[6 + (j - 6)] = b[j - 6]
    BY <2>1, <1>10, <1>11, <1>12
  <2>3. QED
    BY <2>1, <2>2, <1>7
<1>17. ASSUME NEW j \in N + 6 .. N + N + 3 PROVE abcd[j] = Call(3, "close", j - N - 4)
  <2> DEFINE i == j - (N + 5)
  <2>1. j \in 1 .. Len(abc) /\ i \in 1 .. N - 2 /\ Len(ab) + i = j /\ 2 + i - 1 = j - N - 4
    BY <1>0, <1>14
  <2> HIDE DEF i
  <2>2. abcd[j] = abc[j] /\ abc[Len(ab) + i] = c1[i] /\ c1[i] = Call(3, "close", 2 + i - 1)
    BY <2>1, <1>3, <1>11, <1>12
  <2>3. QED
    BY <2>1, <2>2
<1>18. ASSUME NEW j \in N + N + 4 .. N + N + 5 PROVE abcd[j] \in BadNameCalls
  <2> DEFINE i == j - (N + N + 3)
  <2>1. i \in 1 .. 2 /\ Len(abc) + i = j
    BY <1>0, <1>14
  <2> HIDE DEF i
  <2>2. abcd[Len(abc) + i] = d[i] /\ d[i] \in BadNameCalls
    BY <2>1, <1>8, <1>12
  <2>3. QED
    BY <2>1, <2>2
<1>19. QED
  BY <1>12, <1>13, <1>14, <1>15, <1>16, <1>17, <1>18 DEF N

LEMMA LastCallsFacts == LastCalls \in Seq(LateCalls)
<1> DEFINE a == AllFds(5, "close", 0)
           b == AllFds(5, "read", 2)
           c1 == AllFds(5, "write", 2)
           d == <<Call(6, "vidmap", NULL), Call(6, "vidmap", "kernel"),
                  Call(7, "write", 0), Call(7, "read", 1),
                  Call(8, "number", 11), Call(8, "number", -11), Call(8, "number", 0)>>
<1>1. a \in Seq({Call(5, "close", f) : f \in Fds})
  BY AllFdsFacts DEF Fds
<1>2. b \in Seq({Call(5, "read", f) : f \in UserFds})
  BY AllFdsFacts DEF UserFds
<1>3. c1 \in Seq({Call(5, "write", f) : f \in UserFds})
  BY AllFdsFacts DEF UserFds
<1>4. d \in Seq(LateCalls)
  <2>1. /\ Call(6, "vidmap", NULL) \in LateCalls /\ Call(6, "vidmap", "kernel") \in LateCalls
        /\ Call(7, "write", 0) \in LateCalls /\ Call(7, "read", 1) \in LateCalls
        /\ Call(8, "number", 11) \in LateCalls /\ Call(8, "number", -11) \in LateCalls
        /\ Call(8, "number", 0) \in LateCalls
    BY DEF LateCalls
  <2>2. QED
    BY <2>1
<1>5. LastCalls = ((a \o b) \o c1) \o d
  BY DEF LastCalls
<1>6. /\ {Call(5, "close", f) : f \in Fds} \subseteq LateCalls
      /\ {Call(5, "read", f) : f \in UserFds} \subseteq LateCalls
      /\ {Call(5, "write", f) : f \in UserFds} \subseteq LateCalls
  BY DEF LateCalls
<1> HIDE DEF a, b, c1, d
<1>7. a \in Seq(LateCalls) /\ b \in Seq(LateCalls) /\ c1 \in Seq(LateCalls)
  BY <1>1, <1>2, <1>3, <1>6, SeqMonotonic
<1>8. a \o b \in Seq(LateCalls)
  BY <1>7, ConcatProperties
<1>9. (a \o b) \o c1 \in Seq(LateCalls)
  BY <1>7, <1>8, ConcatProperties
<1>10. QED
  BY <1>4, <1>5, <1>9, ConcatProperties

\* What syserr calls, one after the other.
LEMMA CallsFacts ==
  /\ Calls \in Seq(AnyCall) /\ Len(Calls) \in Nat
  /\ \A j \in 1 .. Len(Calls) :
       /\ j <= 6 => Calls[j] \in BadFdCalls
       /\ 7 <= j /\ j <= FdNum + 5 => Calls[j] = Call(3, "open", <<".">>)
       /\ FdNum + 6 <= j /\ j <= FdNum + FdNum + 3 =>
            Calls[j] = Call(3, "close", j - FdNum - 4)
       /\ FdNum + FdNum + 4 <= j => Calls[j] \in BadNameCalls \cup LateCalls
  /\ Len(Calls) >= FdNum + FdNum + 5
<1> DEFINE m == FdNum + FdNum + 5
           u == FirstCalls
           v == LastCalls
<1>1. FdNum \in Nat /\ m \in Nat
  BY FdFacts
<1>2. u \in Seq(AnyCall) /\ Len(u) = m
  BY FirstCallsFacts
<1>3. v \in Seq(LateCalls)
  BY LastCallsFacts
<1>4. v \in Seq(AnyCall) /\ Len(v) \in Nat
  <2>1. LateCalls \subseteq AnyCall
    BY DEF AnyCall
  <2>2. QED
    BY <1>3, <2>1, SeqMonotonic
<1>5. Calls = u \o v
  BY DEF Calls
<1> HIDE DEF u, v
<1>6. /\ u \o v \in Seq(AnyCall) /\ Len(u \o v) = Len(u) + Len(v)
      /\ \A j \in 1 .. Len(u) : (u \o v)[j] = u[j]
      /\ \A j \in 1 .. Len(v) : (u \o v)[Len(u) + j] = v[j]
  <2>1. u \in Seq(AnyCall) /\ v \in Seq(AnyCall)
    BY <1>2, <1>4
  <2>2. QED
    BY <2>1, JoinFacts
<1>7. \A j \in 1 .. Len(v) : v[j] \in LateCalls
  BY <1>3
<1>8. ASSUME NEW j \in 1 .. Len(Calls)
      PROVE  /\ j <= 6 => Calls[j] \in BadFdCalls
             /\ 7 <= j /\ j <= FdNum + 5 => Calls[j] = Call(3, "open", <<".">>)
             /\ FdNum + 6 <= j /\ j <= FdNum + FdNum + 3 =>
                  Calls[j] = Call(3, "close", j - FdNum - 4)
             /\ FdNum + FdNum + 4 <= j => Calls[j] \in BadNameCalls \cup LateCalls
  <2>1. CASE j <= m
    <3>1. Calls[j] = u[j] /\ j \in Nat /\ j >= 1
      BY <1>2, <1>5, <1>6, <2>1, <1>1
    <3>2. /\ j <= 6 => u[j] \in BadFdCalls
          /\ 7 <= j /\ j <= FdNum + 5 => u[j] = Call(3, "open", <<".">>)
          /\ FdNum + 6 <= j /\ j <= FdNum + FdNum + 3 =>
               u[j] = Call(3, "close", j - FdNum - 4)
          /\ FdNum + FdNum + 4 <= j => u[j] \in BadNameCalls
      BY <2>1, <3>1, <1>1, FirstCallsFacts DEF u
    <3>3. QED
      BY <3>1, <3>2
  <2>2. CASE ~(j <= m)
    <3> DEFINE i == j - m
    <3>1. i \in 1 .. Len(v) /\ Len(u) + i = j
      BY <1>1, <1>2, <1>4, <1>5, <1>6, <2>2
    <3> HIDE DEF i
    <3>2. Calls[j] \in LateCalls
      BY <1>5, <1>6, <1>7, <3>1
    <3>3. ~(j <= 6) /\ ~(j <= FdNum + 5) /\ ~(j <= FdNum + FdNum + 3)
      BY <1>1, <2>2, FdFacts
    <3>4. QED
      BY <3>2, <3>3
  <2>3. QED
    BY <2>1, <2>2
<1>9. Len(Calls) \in Nat /\ Len(Calls) >= m
  BY <1>1, <1>2, <1>4, <1>5, <1>6
<1>10. QED
  BY <1>5, <1>6, <1>8, <1>9

-----------------------------------------------------------------------------
(* The shell's steps and execute.                                          *)

LEMMA NotFree ==
  /\ "shell" \notin CatSteps \cup LsSteps \cup GrepSteps
  /\ "execute" \notin CatSteps \cup LsSteps \cup GrepSteps
  /\ "exit" \notin CatSteps \cup LsSteps \cup GrepSteps
  /\ "syserr" \notin CatSteps \cup LsSteps \cup GrepSteps
  /\ CatSteps \cap LsSteps = {} /\ CatSteps \cap GrepSteps = {} /\ LsSteps \cap GrepSteps = {}
BY DEF CatSteps, LsSteps, GrepSteps

\* Between programs only the buffers have to be right.
ProgramsQuiet ==
  /\ CatInv /\ LsInv /\ SysInv /\ GrepDirInv /\ GrepFileInv /\ GrepFoundInv /\ GrepOutInv
  /\ CatCopies /\ LsLists /\ GrepFinds

LEMMA BetweenPrograms ==
  pc \in {"shell", "execute", "cat", "ls", "grep"} => ProgramsQuiet
<1> SUFFICES ASSUME pc \in {"shell", "execute", "cat", "ls", "grep"} PROVE ProgramsQuiet
  OBVIOUS
<1>1. pc \notin {"cat read", "ls read", "syserr", "exit"} /\ pc \notin GrepSteps \ {"grep"}
  BY DEF GrepSteps
<1>2. CatInv /\ LsInv /\ SysInv /\ GrepDirInv /\ CatCopies /\ LsLists /\ GrepFinds
  BY <1>1 DEF CatInv, LsInv, SysInv, GrepDirInv, CatCopies, LsLists, GrepFinds, Ended
<1>3. pc \notin {"grep next", "grep open", "grep read", "grep line", "grep close"}
  OBVIOUS
<1>4. GrepFileInv /\ GrepFoundInv /\ GrepOutInv
  BY <1>1, <1>3 DEF GrepFileInv, GrepFoundInv, GrepOutInv
<1>5. QED
  BY <1>2, <1>4 DEF ProgramsQuiet

LEMMA QuietNext ==
  ASSUME pc' \in {"shell", "execute", "cat", "ls", "grep"}
  PROVE  ProgramsQuiet'
<1>1. (pc \in {"shell", "execute", "cat", "ls", "grep"} => ProgramsQuiet)'
  BY BetweenPrograms, PTL
<1>2. QED
  BY <1>1

LEMMA InitProgramsInv == Init => ProgramsInv
<1> SUFFICES ASSUME Init PROVE ProgramsInv
  OBVIOUS
<1>1. TableTypes
  BY StdioFacts, FdFacts, SizeAssumption DEF Init, TInit, TableTypes, Fds
<1>2. OtherTypes
  <2>3. sbuf \in [SIdx -> Chars]
    BY Characters DEF Init
  <2>4. data \in [DIdx -> Chars]
    BY Characters DEF Init, Constantly
  <2>5. <<>> \in Seq(Chars)
    OBVIOUS
  <2>6. QED
    BY <2>3, <2>4, <2>5, SizeAssumption DEF Init, OtherTypes
<1>3. pc = "shell"
  BY DEF Init
<1>4. StepInv /\ AskInv
  <2>1. typed = <<>> /\ Range(typed) \ {SP} = {}
    BY DEF Init, Range
  <2>2. QED
    BY <1>3, <2>1, NotFree DEF StepInv, AskInv, ArgumentFits
<1>5. FreshInv
  <2>1. \A f \in UserFds : ~IsOpen(f)
    BY FdFacts DEF Init, TInit, Unused, IsOpen
  <2>2. QED
    BY <2>1 DEF Init, FreshInv, ClosedFrom
<1>6. ProgramsQuiet
  BY <1>3, BetweenPrograms
<1>7. SysErrPasses
  BY DEF Init, SysErrPasses
<1>8. QED
  BY <1>1, <1>2, <1>4, <1>5, <1>6, <1>7 DEF ProgramsInv, EndInv, ProgramsQuiet

LEMMA ReadLineKeepsInv ==
  ASSUME ProgramsInv, NEW line \in Lines, ReadLine(line)
  PROVE  ProgramsInv'
<1>1. /\ pc = "shell" /\ pc' = IF line = <<>> THEN "shell" ELSE "execute"
      /\ typed' = line
      /\ sbuf' = [j \in SIdx |-> IF j < Len(line) THEN line[j + 1]
                                 ELSE IF j = Len(line) THEN NUL ELSE sbuf[j]]
      /\ fdt' = fdt /\ ret' = ret /\ argument' = argument /\ out' = out
      /\ last' = last /\ line_start' = line_start /\ data' = data
      /\ k' = k /\ found' = found /\ stray' = stray /\ fails' = fails
  BY DEF ReadLine, tVars, locals, sys
<1>2. TableTypes' /\ SysErrPasses'
  BY <1>1 DEF ProgramsInv, TableTypes, EndInv, SysErrPasses
<1>3. \A j \in 0 .. Len(line) - 1 : line[j + 1] \in Chars
  BY LineFacts
<1>4. sbuf' \in [SIdx -> Chars]
  <2>1. sbuf \in [SIdx -> Chars]
    BY DEF ProgramsInv, OtherTypes
  <2>2. ASSUME NEW j \in SIdx
        PROVE  (IF j < Len(line) THEN line[j + 1]
                ELSE IF j = Len(line) THEN NUL ELSE sbuf[j]) \in Chars
    <3>1. j \in Nat /\ Len(line) \in Nat
      BY LineFacts DEF SIdx
    <3>2. j < Len(line) => j \in 0 .. Len(line) - 1
      BY <3>1
    <3>3. QED
      BY <2>1, <3>2, <1>3, Characters
  <2>3. QED
    BY <1>1, <2>2
<1>5. OtherTypes'
  BY <1>1, <1>4 DEF ProgramsInv, OtherTypes
<1>6. HoldsLine(line)'
  <2>1. Len(line) \in SIdx /\ Len(line) \in Nat
    BY LineFacts
  <2>2. sbuf'[Len(line)] = NUL
    BY <1>1, <2>1
  <2>3. ASSUME NEW j \in 0 .. Len(line) - 1 PROVE sbuf'[j] = line[j + 1]
    <3>1. j \in SIdx /\ j < Len(line)
      BY <2>1, SizeAssumption DEF SIdx
    <3>2. QED
      BY <1>1, <3>1
  <2>4. QED
    BY <2>1, <2>2, <2>3 DEF HoldsLine
<1>7. pc' \in {"shell", "execute"}
  BY <1>1
<1>8. StepInv' /\ AskInv'
  <2>1. pc' # "execute" => typed' = <<>> /\ Range(<<>>) \ {SP} = {}
    BY <1>1 DEF Range
  <2>2. ArgumentFits'
    BY <2>1 DEF ArgumentFits
  <2>3. QED
    BY <1>1, <1>6, <1>7, <2>2, NotFree DEF StepInv, AskInv
<1>9. FreshInv'
  BY <1>1 DEF ProgramsInv, FreshInv, ClosedFrom, IsOpen
<1>10. ProgramsQuiet'
  BY <1>7, QuietNext
<1>11. QED
  BY <1>2, <1>5, <1>8, <1>9, <1>10 DEF ProgramsInv, EndInv, ProgramsQuiet

\* Whatever the line, and what lies behind it, the argument is text.
LEMMA ArgumentType ==
  ASSUME NEW line \in Lines, HoldsLine(line), sbuf \in [SIdx -> Chars], NEW arg \in Arguments
  PROVE  arg \in Seq(Chars)
<1> DEFINE a == NameStart
           b == NameEnd
           e == Find(b, ShellBuf, Holding({NUL}))
<1>1. CommandMax \in Nat /\ ShellBuf \in Nat /\ CommandMax <= ShellBuf
  BY SizeAssumption
<1>2. a + 1 \in Nat /\ a + 1 <= CommandMax
  <2>1. NameStart \in 0 .. Len(line) /\ Len(line) \in Nat /\ Len(line) < CommandMax
    BY LineFacts, NameStartFacts
  <2>2. QED
    BY <2>1, <1>1
<1>3. b \in Nat /\ b <= ShellBuf
  <2>1. Find(a + 1, CommandMax, Holding({NUL, SP})) \in a + 1 .. CommandMax
    BY <1>1, <1>2, FindFacts
  <2>2. b \in a + 1 .. CommandMax
    BY <2>1 DEF NameEnd
  <2> HIDE DEF b, a
  <2>3. QED
    BY <2>2, <1>1, <1>2
<1> HIDE DEF a, b
<1>4. e \in b .. ShellBuf
  BY <1>1, <1>3, FindFacts
<1> HIDE DEF e
<1>5. Text(b, e) \in Seq(Chars)
  <2>1. e - b \in Nat
    BY <1>1, <1>3, <1>4
  <2>2. \A m \in 1 .. e - b : sbuf[b + m - 1] \in Chars
    <3> SUFFICES ASSUME NEW m \in 1 .. e - b PROVE sbuf[b + m - 1] \in Chars
      OBVIOUS
    <3>1. b + m - 1 \in SIdx
      BY <1>1, <1>3, <1>4 DEF SIdx
    <3>2. QED
      BY <3>1
  <2>3. Text(b, e) \in [1 .. e - b -> Chars]
    BY <2>2 DEF Text
  <2>4. QED
    BY <2>1, <2>3, SeqDef
<1>6. ASSUME NEW t \in StringsFrom(b) PROVE t \in Seq(Chars)
  <2>1. t = Text(b, e) \/ \E u \in Behind : t = Text(b, e) \o u
    BY DEF StringsFrom, e
  <2>2. \A u \in Behind : u \in Seq(Chars)
    <3> SUFFICES ASSUME NEW u \in Behind PROVE u \in Seq(Chars)
      OBVIOUS
    <3>1. u \in Seq(Chars \ {NUL})
      BY BehindAssumption
    <3>2. QED
      BY <3>1
  <2>3. QED
    BY <1>5, <2>1, <2>2, ConcatProperties
<1>7. CASE HasArg
  <2>1. PICK t \in StringsFrom(b) : arg = Trimmed(t)
    BY <1>7 DEF Arguments, b
  <2>2. QED
    BY <1>6, <2>1, TrimmedFacts
<1>8. CASE ~HasArg
  <2>1. arg = <<>>
    BY <1>8 DEF Arguments
  <2>2. QED
    BY <2>1
<1>9. QED
  BY <1>7, <1>8

LEMMA ExecuteKeepsInv ==
  ASSUME ProgramsInv, Execute
  PROVE  ProgramsInv'
<1>1. /\ pc = "execute" /\ argument' \in Arguments
      /\ fdt' = fdt /\ ret' = ret /\ typed' = typed /\ sbuf' = sbuf /\ out' = out
      /\ last' = last /\ line_start' = line_start /\ data' = data
      /\ k' = k /\ found' = found /\ stray' = stray /\ fails' = fails
  BY DEF Execute, tVars, locals, sys
<1>2. PICK name \in ExeNames :
        IF ~Runs(name)
        THEN pc' = "shell" /\ prog' = prog
        ELSE /\ prog' = programs[dir_entries[Least(EntriesOf(name))].inode_index]
             /\ pc' = prog'
  BY DEF Execute
<1>3. typed \in Lines /\ HoldsLine(typed) /\ sbuf \in [SIdx -> Chars]
  BY <1>1 DEF ProgramsInv, AskInv, OtherTypes
<1>4. TableTypes' /\ SysErrPasses'
  BY <1>1 DEF ProgramsInv, TableTypes, EndInv, SysErrPasses
<1>5. OtherTypes'
  BY <1>1, <1>3, ArgumentType DEF ProgramsInv, OtherTypes
<1>a. typed' \in Lines \cup {<<>>} /\ ArgumentFits'
  <2>1. Range(typed) \ {SP} # {} => Len(argument') < Len(typed)
    BY <1>1, <1>3, ArgumentIsShort
  <2>2. QED
    BY <1>1, <1>3, <2>1 DEF ArgumentFits
<1>6. ClosedFrom(2) /\ out = <<>> /\ k = 1 /\ found = NothingFound /\ stray = {}
  BY <1>1 DEF ProgramsInv, FreshInv
<1>7. ClosedFrom(2)'
  BY <1>1, <1>6 DEF ClosedFrom, IsOpen
<1>8. FreshInv'
  BY <1>1, <1>6, <1>7 DEF FreshInv
<1>9. CASE ~Runs(name)
  <2>1. pc' = "shell"
    BY <1>2, <1>9
  <2>2. StepInv' /\ AskInv'
    BY <1>a, <2>1, NotFree DEF StepInv, AskInv
  <2>3. ProgramsQuiet'
    BY <2>1, QuietNext
  <2>4. QED
    BY <1>4, <1>5, <1>8, <2>2, <2>3 DEF ProgramsInv, EndInv, ProgramsQuiet
<1>10. CASE Runs(name)
  <2>1. /\ prog' = programs[dir_entries[Least(EntriesOf(name))].inode_index]
        /\ pc' = prog'
    BY <1>2, <1>10
  <2>2. prog' \in Executables
    <3>1. EntriesOf(name) # {} /\ prog' # NULL
      BY <2>1, <1>10 DEF Runs
    <3>2. dir_entries[Least(EntriesOf(name))].inode_index \in Inodes
      BY <3>1, EntriesOfFacts, EntryFacts
    <3>3. QED
      BY <2>1, <3>1, <3>2, ImageAssumption
  <2>3. Asks(typed, prog', argument')
    BY <1>1, <1>3, <1>10, <2>1, ParsesRight
  <2>4. Asks(typed', prog', argument')
    BY <2>3, <1>1
  <2>5. pc' \in {"cat", "ls", "grep", "syserr"}
    BY <2>1, <2>2 DEF Executables
  <2>6. AskInv'
    BY <1>a, <2>4, <2>5 DEF AskInv
  <2>7. StepInv'
    BY <2>1, <2>2, <2>5 DEF StepInv, CatSteps, LsSteps, GrepSteps, Executables
  <2>8. CASE pc' # "syserr"
    <3>1. ProgramsQuiet'
      BY <2>5, <2>8, QuietNext
    <3>2. QED
      BY <1>4, <1>5, <1>8, <2>6, <2>7, <3>1 DEF ProgramsInv, EndInv, ProgramsQuiet
  <2>9. CASE pc' = "syserr"
    <3>1. SysInv'
      <4>1. Len(Calls) \in Nat
        BY CallsFacts
      <4>2. \A f \in UserFds : ~(1 - 5 - FdNum < f /\ f <= 1 - 6)
        BY FdFacts
      <4>3. \A f \in UserFds : ~IsOpen(f)'
        BY <1>7, FdFacts DEF ClosedFrom
      <4>4. k' = 1
        BY <1>1, <1>6
      <4>5. QED
        BY <4>1, <4>2, <4>3, <4>4 DEF SysInv
    <3>2. (CatInv /\ LsInv /\ GrepDirInv /\ CatCopies /\ LsLists /\ GrepFinds)'
      BY <2>9, NotFree DEF CatInv, LsInv, GrepDirInv, CatCopies, LsLists, GrepFinds, Ended
    <3>3. GrepFileInv' /\ GrepFoundInv' /\ GrepOutInv'
      BY <2>9, NotFree DEF GrepFileInv, GrepFoundInv, GrepOutInv
    <3>4. QED
      BY <1>4, <1>5, <1>8, <2>6, <2>7, <3>1, <3>2, <3>3 DEF ProgramsInv, EndInv
  <2>10. QED
    BY <2>8, <2>9
<1>11. QED
  BY <1>9, <1>10

LEMMA HaltKeepsInv ==
  ASSUME ProgramsInv, Halt
  PROVE  ProgramsInv'
<1>1. /\ pc' = "shell"
      /\ fdt' = [f \in Fds |-> IF f < 2 THEN Stdio ELSE [fdt[f] EXCEPT !.flags = 0]]
      /\ ret' = ret /\ sbuf' = sbuf /\ argument' = <<>> /\ out' = <<>>
      /\ last' = 0 /\ line_start' = 0 /\ data' = [x \in DIdx |-> NUL]
      /\ k' = 1 /\ found' = NothingFound /\ stray' = {} /\ fails' = {} /\ typed' = typed
  BY DEF Halt, TExit, Constantly, NothingFound
<1>2. \A f \in Fds : [fdt[f] EXCEPT !.flags = 0] \in Descriptor
                     /\ [fdt[f] EXCEPT !.flags = 0].flags = 0
  <2> SUFFICES ASSUME NEW f \in Fds
               PROVE  [fdt[f] EXCEPT !.flags = 0] \in Descriptor
                      /\ [fdt[f] EXCEPT !.flags = 0].flags = 0
    OBVIOUS
  <2>1. fdt[f] \in Descriptor
    BY DEF ProgramsInv, TableTypes
  <2>2. QED
    BY <2>1 DEF Descriptor
<1>3. TableTypes'
  <2>1. ret \in -1 .. FdNum + BufSize + NameMax + 31
    BY DEF ProgramsInv, TableTypes
  <2>2. fdt' \in [Fds -> Descriptor]
    BY <1>1, <1>2, StdioFacts
  <2>3. fdt'[0] = Stdio /\ fdt'[1] = Stdio
    BY <1>1, FdFacts
  <2>4. QED
    BY <1>1, <2>1, <2>2, <2>3, SizeAssumption DEF TableTypes
<1>4. OtherTypes'
  <2>1. sbuf \in [SIdx -> Chars]
    BY DEF ProgramsInv, OtherTypes
  <2>2. data' \in [DIdx -> Chars]
    BY <1>1, Characters
  <2>3. <<>> \in Seq(Chars)
    OBVIOUS
  <2>4. QED
    BY <1>1, <2>1, <2>2, <2>3, SizeAssumption DEF OtherTypes
<1>5. FreshInv'
  <2>1. ASSUME NEW f \in UserFds PROVE fdt'[f].flags = 0
    <3>1. f \in Fds /\ ~(f < 2)
      BY FdFacts
    <3>2. QED
      BY <3>1, <1>1, <1>2
  <2>2. ClosedFrom(2)'
    BY <2>1 DEF ClosedFrom, IsOpen
  <2>3. QED
    BY <1>1, <2>2 DEF FreshInv
<1>6. StepInv' /\ AskInv' /\ SysErrPasses'
  <2>1. typed \in Lines \cup {<<>>}
    BY DEF ProgramsInv, AskInv
  <2>a. <<>> \in Seq(Chars)
    OBVIOUS
  <2>2. typed \in Seq(Chars)
    BY <2>1, <2>a, LineFacts
  <2>3. ASSUME Range(typed) # {} PROVE Len(<<>>) < Len(typed)
    BY <2>2, <2>3 DEF Range
  <2>4. ArgumentFits'
    BY <1>1, <2>3 DEF ArgumentFits
  <2>5. QED
    BY <1>1, <2>1, <2>4, NotFree DEF StepInv, AskInv, SysErrPasses
<1>7. ProgramsQuiet'
  BY <1>1, QuietNext
<1>8. QED
  BY <1>3, <1>4, <1>5, <1>6, <1>7 DEF ProgramsInv, EndInv, ProgramsQuiet

-----------------------------------------------------------------------------
(* cat and ls.                                                             *)

\* A program goes on, or ends.
LEMMA SameProgram ==
  ASSUME StepInv, AskInv, UNCHANGED shell,
         NEW P \in {CatSteps, LsSteps, GrepSteps, {"syserr"}},
         pc \in P, pc' \in P \cup {"exit"}
  PROVE  StepInv' /\ AskInv'
<1>1. prog' = prog /\ typed' = typed /\ argument' = argument
  BY DEF shell
<1>2. pc \notin {"shell", "execute"} /\ pc' \notin {"shell", "execute"}
  BY NotFree
<1>3. Asks(typed', prog', argument')
  BY <1>1, <1>2 DEF AskInv
<1>4. AskInv'
  BY <1>1, <1>2, <1>3 DEF AskInv, ArgumentFits
<1>5. CASE P = CatSteps
  <2>1. prog' = "cat"
    BY <1>1, <1>5 DEF StepInv
  <2>2. pc' \in CatSteps \cup {"exit"} /\ pc' \notin LsSteps \cup GrepSteps \cup {"syserr"}
    BY <1>5, NotFree
  <2>3. QED
    BY <1>4, <2>1, <2>2 DEF StepInv, Executables
<1>6. CASE P = LsSteps
  <2>1. prog' = "ls"
    BY <1>1, <1>6 DEF StepInv
  <2>2. pc' \in LsSteps \cup {"exit"} /\ pc' \notin CatSteps \cup GrepSteps \cup {"syserr"}
    BY <1>6, NotFree
  <2>3. QED
    BY <1>4, <2>1, <2>2 DEF StepInv, Executables
<1>7. CASE P = GrepSteps
  <2>1. prog' = "grep"
    BY <1>1, <1>7 DEF StepInv
  <2>2. pc' \in GrepSteps \cup {"exit"} /\ pc' \notin CatSteps \cup LsSteps \cup {"syserr"}
    BY <1>7, NotFree
  <2>3. QED
    BY <1>4, <2>1, <2>2 DEF StepInv, Executables
<1>8. CASE P = {"syserr"}
  <2>1. prog' = "syserr"
    BY <1>1, <1>8 DEF StepInv
  <2>2. pc' \in {"syserr"} \cup {"exit"} /\ pc' \notin CatSteps \cup LsSteps \cup GrepSteps
    BY <1>8, NotFree
  <2>3. QED
    BY <1>4, <2>1, <2>2 DEF StepInv, Executables
<1>9. QED
  BY <1>4, <1>5, <1>6, <1>7, <1>8

LEMMA DotFacts ==
  /\ EntriesOf(<<".">>) # {}
  /\ Least(EntriesOf(<<".">>)) \in DOMAIN dir_entries
  /\ EntryOf(<<".">>) \in Entry /\ EntryOf(<<".">>).file_type = DIR
<1>1. PICK n \in DOMAIN dir_entries : dir_entries[n].fname = <<".">>
  BY ImageAssumption
<1>2. EntriesOf(<<".">>) # {} /\ Least(EntriesOf(<<".">>)) = n
  BY <1>1, EntriesOfFacts
<1>3. dir_entries[n] \in Entry
  BY ImageAssumption
<1>4. QED
  BY <1>1, <1>2, <1>3, EntryFacts DEF EntryOf

LEMMA NamesFacts ==
  /\ EntryNames \in Seq(Seq(Chars)) /\ Len(EntryNames) = Len(dir_entries)
  /\ EntryLines \in Seq(Seq(Chars)) /\ Len(EntryLines) = Len(dir_entries)
  /\ \A n \in DOMAIN dir_entries :
       /\ EntryNames[n] = dir_entries[n].fname
       /\ EntryLines[n] = Append(dir_entries[n].fname, NL)
<1> DEFINE m == Len(dir_entries)
<1>1. m \in Nat /\ DOMAIN dir_entries = 1 .. m
  BY DirectoryFacts
<1>2. ASSUME NEW n \in 1 .. m
      PROVE  dir_entries[n].fname \in Seq(Chars) /\ Append(dir_entries[n].fname, NL) \in Seq(Chars)
  <2>1. dir_entries[n].fname \in Seq(Chars)
    BY <1>1, EntryFacts
  <2>2. QED
    BY <2>1, Characters
<1> HIDE DEF m
<1>3. EntryNames = [n \in 1 .. m |-> dir_entries[n].fname]
      /\ EntryLines = [n \in 1 .. m |-> Append(dir_entries[n].fname, NL)]
  BY <1>1 DEF EntryNames, EntryLines
<1>4. EntryNames \in [1 .. m -> Seq(Chars)] /\ EntryLines \in [1 .. m -> Seq(Chars)]
  BY <1>2, <1>3
<1>5. EntryNames \in Seq(Seq(Chars)) /\ EntryLines \in Seq(Seq(Chars))
  BY <1>1, <1>4, SeqDef
<1>6. Len(EntryNames) = m /\ Len(EntryLines) = m
  BY <1>1, <1>4, <1>5
<1>7. QED
  BY <1>1, <1>3, <1>5, <1>6 DEF m

\* Descriptor 2 is the first one free when nothing is open.
LEMMA FirstOpen ==
  ASSUME TableTypes, ClosedFrom(2), NEW name
  PROVE  /\ FreeUserFds # {}
         /\ TOpen(name) =>
              /\ EntriesOf(name) # {}
              /\ ret' = 2 /\ TableTypes' /\ OnEntry(2, EntryOf(name))'
              /\ fdt'[2].position = 0
              /\ \A g \in Fds : g # 2 => fdt'[g] = fdt[g]
<1>1. 2 \in UserFds /\ ~IsOpen(2) /\ \A g \in UserFds : g < 2 => IsOpen(g)
  BY FdFacts DEF ClosedFrom
<1>2. FreeUserFds # {}
  BY <1>1, FirstFree
<1>3. TOpen(name) => EntriesOf(name) # {}
  BY DEF TOpen
<1>4. QED
  BY <1>1, <1>2, <1>3, OpenFacts DEF EntryOf

LEMMA UpToFacts ==
  ASSUME NEW n \in DOMAIN dir_entries
  PROVE  /\ UpTo(dir_entries[n], 0) = <<>>
         /\ UpTo(dir_entries[n], Size(dir_entries[n])) = Contents(dir_entries[n])
<1> DEFINE e == dir_entries[n]
           t == content[e.inode_index]
<1>1. t \in Seq(Chars)
  BY EntryFacts
<1>2. SubSeq(t, 1, 0) = <<>> /\ SubSeq(t, 1, Len(t)) = t
  BY <1>1
<1>3. Before(EntryNames, 0) = <<>> /\ Before(EntryNames, Len(dir_entries)) = FlattenSeq(EntryNames)
  <2>1. EntryNames \in Seq(Seq(Chars)) /\ Len(EntryNames) = Len(dir_entries)
    BY NamesFacts
  <2>2. Before(EntryNames, 0) = <<>>
        /\ Before(EntryNames, Len(EntryNames)) = FlattenSeq(EntryNames)
    BY <2>1, BeforeFacts
  <2>3. QED
    BY <2>1, <2>2
<1> HIDE DEF e, t
<1>4. UpTo(e, 0) = <<>>
  BY <1>2, <1>3 DEF UpTo, t
<1>5. UpTo(e, Size(e)) = Contents(e)
  BY <1>2, <1>3 DEF UpTo, Size, Contents, t, EntryNames
<1>6. QED
  BY <1>4, <1>5 DEF e

\* The rest of the invariant while cat runs.
LEMMA CatAlone ==
  ASSUME pc' \in {"cat read", "exit"}, prog' = "cat"
  PROVE  (FreshInv /\ LsInv /\ SysInv /\ GrepDirInv /\ GrepFileInv /\ GrepFoundInv /\ GrepOutInv
           /\ LsLists /\ GrepFinds)'
<1>1. pc' \notin {"shell", "execute", "cat", "ls", "grep", "ls read", "syserr"}
      /\ pc' \notin GrepSteps
  BY NotFree DEF CatSteps
<1>2. pc' \notin {"grep next", "grep open", "grep read", "grep line", "grep close"}
  BY <1>1 DEF GrepSteps
<1>3. (FreshInv /\ LsInv /\ SysInv /\ GrepDirInv)'
  BY <1>1 DEF FreshInv, LsInv, SysInv, GrepDirInv
<1>4. GrepFileInv' /\ GrepFoundInv' /\ GrepOutInv'
  BY <1>1, <1>2 DEF GrepFileInv, GrepFoundInv, GrepOutInv
<1>5. LsLists' /\ GrepFinds'
  BY DEF LsLists, GrepFinds, Ended
<1>6. QED
  BY <1>3, <1>4, <1>5

LEMMA EntryOfFacts ==
  ASSUME NEW name, EntriesOf(name) # {}
  PROVE  /\ EntryOf(name) \in Entry
         /\ UpTo(EntryOf(name), 0) = <<>>
         /\ UpTo(EntryOf(name), Size(EntryOf(name))) = Contents(EntryOf(name))
<1>1. Least(EntriesOf(name)) \in DOMAIN dir_entries
  BY EntriesOfFacts
<1>2. dir_entries[Least(EntriesOf(name))] \in Entry
  BY <1>1, ImageAssumption
<1>3. QED
  BY <1>1, <1>2, UpToFacts DEF EntryOf

\* A read of the next piece of an open entry.
LEMMA NextPiece ==
  ASSUME TableTypes, NEW e \in Entry, OnEntry(2, e), NEW n \in 1 .. BufSize, Read(2, n)
  PROVE  /\ TableTypes' /\ OnEntry(2, e)'
         /\ ret' # -1 /\ ret' \in Int
         /\ Got(2) \in Seq(Chars)
         /\ UpTo(e, fdt'[2].position) = UpTo(e, fdt[2].position) \o Got(2)
         /\ ret' = 0 => Got(2) = <<>> /\ UpTo(e, fdt'[2].position) = UpTo(e, Size(e))
<1> DEFINE q == fdt[2].position
<1>0. n \in Int /\ n > 0 /\ e.file_type \in {RTC, DIR, FILE}
      /\ content[e.inode_index] \in Seq(Chars)
  <2>1. n \in Int /\ n > 0
    BY SizeAssumption
  <2>2. e.file_type \in {RTC, DIR, FILE} /\ e.inode_index \in Inodes
    BY DEF Entry
  <2>3. QED
    BY <2>1, <2>2, ImageAssumption
<1>1. CASE e.file_type = FILE
  <2> DEFINE t == content[e.inode_index]
             r == ret'
  <2>1. /\ TableTypes' /\ OnEntry(2, e)'
        /\ r \in 0 .. n /\ (r = n \/ q + r = Len(t))
        /\ fdt'[2].position = q + r /\ q \in Nat
        /\ Got(2) = SubSeq(t, q + 1, q + r)
    BY <1>1, ReadFileFacts
  <2>2. q + r <= Len(t)
    <3>1. fdt'[2].position <= Size(e)
      BY <2>1 DEF OnEntry, Size
    <3>2. QED
      BY <3>1, <2>1, <1>1 DEF Size
  <2>3. t \in Seq(Chars) /\ Len(t) \in Nat /\ r \in Nat
    BY <1>0, <2>1
  <2> HIDE DEF t, r, q
  <2>4. q + r \in Nat /\ 0 \in Nat /\ 0 <= q /\ q <= q + r
    BY <2>1, <2>3
  <2>5. SubSeq(t, 0 + 1, q) \o SubSeq(t, q + 1, q + r) = SubSeq(t, 0 + 1, q + r)
    BY <2>1, <2>2, <2>3, <2>4, PiecesJoin
  <2>6. \A x : UpTo(e, x) = SubSeq(t, 1, x)
    BY <1>1 DEF UpTo, t
  <2>7. UpTo(e, q + r) = UpTo(e, q) \o Got(2)
    <3>1. 0 + 1 = 1
      OBVIOUS
    <3>2. SubSeq(t, 1, q) \o SubSeq(t, q + 1, q + r) = SubSeq(t, 1, q + r)
      BY <2>5, <3>1
    <3>3. QED
      BY <3>2, <2>1, <2>6
  <2>8. Got(2) \in Seq(Chars)
    <3>1. SubSeq(t, q + 1, q + r) \in Seq(Chars)
      BY <2>1, <2>2, <2>3, <2>4, PieceFacts
    <3>2. QED
      BY <3>1, <2>1
  <2>9. ASSUME r = 0 PROVE Got(2) = <<>> /\ UpTo(e, q + r) = UpTo(e, Size(e))
    <3>1. q = Len(t) /\ q + r = q
      BY <2>1, <2>9, <1>0
    <3>2. Size(e) = q
      BY <3>1, <1>1 DEF Size, t
    <3>3. Got(2) = <<>>
      BY <2>9 DEF Got, r
    <3>4. QED
      BY <3>1, <3>2, <3>3
  <2>10. r # -1 /\ r \in Int
    BY <2>3
  <2>11. QED
    BY <2>1, <2>7, <2>8, <2>9, <2>10 DEF r, q
<1>2. CASE e.file_type = DIR
  <2> DEFINE m == Len(dir_entries)
  <2>1. /\ TableTypes' /\ OnEntry(2, e)' /\ q \in Nat /\ q <= m
        /\ q = m => ret' = 0 /\ Got(2) = <<>> /\ fdt'[2].position = q
        /\ q # m =>
             /\ q + 1 \in DOMAIN dir_entries
             /\ ret' \in 1 .. NameMax
             /\ Got(2) = dir_entries[q + 1].fname
             /\ fdt'[2].position = q + 1
    BY <1>0, <1>2, ReadDirFacts
  <2>2. Size(e) = m /\ \A x : UpTo(e, x) = Before(EntryNames, x)
    BY <1>2 DEF Size, UpTo, DIR, FILE
  <2>3. /\ \A i \in 0 .. m : Before(EntryNames, i) \in Seq(Chars)
        /\ \A i \in 1 .. m : Before(EntryNames, i) = Before(EntryNames, i - 1) \o EntryNames[i]
    <3>1. EntryNames \in Seq(Seq(Chars)) /\ Len(EntryNames) = m
      BY NamesFacts
    <3>2. QED
      BY <3>1, BeforeFacts
  <2> HIDE DEF m, q
  <2>4. CASE q = m
    <3>1. Before(EntryNames, q) \in Seq(Chars)
      BY <2>1, <2>3
    <3>2. Before(EntryNames, q) \o <<>> = Before(EntryNames, q)
      BY <3>1
    <3>3. <<>> \in Seq(Chars)
      OBVIOUS
    <3>4. ret' = 0 /\ Got(2) = <<>> /\ fdt'[2].position = q /\ Size(e) = q
      BY <2>1, <2>2, <2>4
    <3>5. UpTo(e, q) = UpTo(e, q) \o Got(2)
      BY <2>2, <3>2, <3>4
    <3>6. /\ UpTo(e, fdt'[2].position) = UpTo(e, q) \o Got(2)
          /\ UpTo(e, fdt'[2].position) = UpTo(e, Size(e))
      BY <3>4, <3>5
    <3>7. ret' # -1 /\ ret' \in Int
      BY <3>4
    <3>8. Got(2) \in Seq(Chars)
      BY <3>3, <3>4
    <3>9. QED
      BY <2>1, <3>4, <3>6, <3>7, <3>8 DEF q
  <2>5. CASE q # m
    <3>a. q + 1 \in DOMAIN dir_entries /\ q \in Nat
      BY <2>1, <2>5
    <3>1. q + 1 \in 1 .. m /\ (q + 1) - 1 = q
      BY <3>a, DirectoryFacts DEF m
    <3>2. EntryNames[q + 1] = dir_entries[q + 1].fname
      BY <2>1, <2>5, NamesFacts
    <3>3. Before(EntryNames, q + 1) = Before(EntryNames, q) \o Got(2)
      BY <2>1, <2>3, <2>5, <3>1, <3>2
    <3>4. Got(2) \in Seq(Chars)
      BY <2>1, <2>5, EntryFacts
    <3>5. ret' # -1 /\ ret' # 0 /\ ret' \in Int
      BY <2>1, <2>5
    <3>6. QED
      BY <2>1, <2>2, <2>5, <3>3, <3>4, <3>5 DEF q
  <2>6. QED
    BY <2>4, <2>5
<1>3. CASE e.file_type = RTC
  <2>1. TableTypes' /\ OnEntry(2, e)' /\ ret' = 0 /\ fdt' = fdt /\ Got(2) = <<>>
    BY <1>0, <1>3, ReadClockFacts
  <2>2. \A x : UpTo(e, x) = <<>>
    BY <1>3 DEF UpTo, RTC, DIR, FILE
  <2>3. <<>> \in Seq(Chars)
    OBVIOUS
  <2>4. <<>> \o <<>> = <<>>
    BY ConcatEmptySeq
  <2>5. UpTo(e, fdt[2].position) = <<>> /\ UpTo(e, fdt'[2].position) = <<>>
        /\ UpTo(e, Size(e)) = <<>>
    BY <2>2
  <2>6. ret' # -1 /\ ret' \in Int
    BY <2>1
  <2>7. UpTo(e, fdt'[2].position) = UpTo(e, fdt[2].position) \o Got(2)
    BY <2>1, <2>4, <2>5
  <2>8. QED
    BY <2>1, <2>3, <2>5, <2>6, <2>7
<1>4. QED
  BY <1>0, <1>1, <1>2, <1>3

LEMMA CatOpenKeepsInv ==
  ASSUME ProgramsInv, CatOpen
  PROVE  ProgramsInv'
<1>1. /\ pc = "cat" /\ fd' = ret' /\ UNCHANGED shell
      /\ argument' = argument /\ prog' = prog /\ sbuf' = sbuf /\ out' = out
      /\ last' = last /\ line_start' = line_start /\ data' = data /\ fails' = fails
  BY DEF CatOpen, shell, locals, sys
<1>2. prog = "cat" /\ out = <<>> /\ ClosedFrom(2) /\ TableTypes
      /\ StepInv /\ AskInv /\ fails = {} /\ OtherTypes
  BY <1>1 DEF ProgramsInv, StepInv, FreshInv, CatSteps, EndInv, SysErrPasses
<1>3. OtherTypes' /\ SysErrPasses'
  BY <1>1, <1>2 DEF OtherTypes, SysErrPasses
<1>4. \/ argument = <<>> /\ Exit(3) /\ UNCHANGED tVars
      \/ argument # <<>> /\ TOpen(argument) /\ Go("cat read")
      \/ argument # <<>> /\ ~CanOpen(argument) /\ TFail /\ Exit(2)
  BY DEF CatOpen, OpenOr
<1>5. ASSUME TableTypes', CatInv', CatCopies', pc' \in {"cat read", "exit"}
      PROVE  ProgramsInv'
  <2>1. StepInv' /\ AskInv'
    <3>1. pc \in CatSteps /\ pc' \in CatSteps \cup {"exit"}
      BY <1>1, <1>5 DEF CatSteps
    <3>2. QED
      BY <1>1, <1>2, <3>1, SameProgram
  <2>2. prog' = "cat"
    BY <1>1, <1>2
  <2>3. QED
    BY <1>3, <1>5, <2>1, <2>2, CatAlone DEF ProgramsInv, EndInv
<1>6. CASE argument = <<>> /\ Exit(3) /\ UNCHANGED tVars
  <2>1. pc' = "exit" /\ status' = 3 /\ fdt' = fdt /\ ret' = ret
    BY <1>6 DEF Exit, tVars
  <2>2. TableTypes'
    BY <1>2, <2>1 DEF TableTypes
  <2>3. CatInv'
    BY <2>1 DEF CatInv
  <2>4. CatCopies'
    BY <1>1, <1>2, <1>6, <2>1 DEF CatCopies
  <2>5. QED
    BY <1>5, <2>1, <2>2, <2>3, <2>4
<1>7. CASE argument # <<>> /\ TOpen(argument) /\ Go("cat read")
  <2>1. pc' = "cat read"
    BY <1>7 DEF Go
  <2>a. PICK name : name = argument
    OBVIOUS
  <2>2. /\ EntriesOf(name) # {}
        /\ ret' = 2 /\ TableTypes' /\ OnEntry(2, EntryOf(name))'
        /\ fdt'[2].position = 0
    BY <1>2, <1>7, <2>a, FirstOpen
  <2>3. UpTo(EntryOf(name), 0) = <<>>
    BY <2>2, EntryOfFacts
  <2>b. argument' = name /\ name # <<>> /\ out' = <<>> /\ fd' = 2
    BY <1>1, <1>2, <1>7, <2>2, <2>a
  <2>4. CatInv'
    BY <2>2, <2>3, <2>b DEF CatInv
  <2>5. CatCopies'
    BY <2>1 DEF CatCopies, Ended
  <2>6. QED
    BY <1>5, <2>1, <2>2, <2>4, <2>5
<1>8. CASE argument # <<>> /\ ~CanOpen(argument) /\ TFail /\ Exit(2)
  <2>1. pc' = "exit" /\ status' = 2
    BY <1>8 DEF Exit
  <2>2. EntriesOf(argument) = {}
    BY <1>2, <1>8, FirstOpen DEF CanOpen
  <2>3. TableTypes'
    BY <1>2, <1>8, FailFacts
  <2>4. CatInv'
    BY <2>1 DEF CatInv
  <2>5. CatCopies'
    BY <1>1, <1>2, <1>8, <2>1, <2>2 DEF CatCopies, EntriesOf
  <2>6. QED
    BY <1>5, <2>1, <2>3, <2>4, <2>5
<1>9. QED
  BY <1>4, <1>6, <1>7, <1>8

LEMMA CatReadKeepsInv ==
  ASSUME ProgramsInv, CatRead
  PROVE  ProgramsInv'
<1>0. PICK name : name = argument
  OBVIOUS
<1> DEFINE e == EntryOf(name)
<1>1. /\ pc = "cat read" /\ fd' = fd /\ UNCHANGED shell
      /\ Read(fd, BufSize) /\ out' = out \o Got(fd)
      /\ argument' = argument /\ prog' = prog /\ sbuf' = sbuf
      /\ last' = last /\ line_start' = line_start /\ data' = data /\ fails' = fails
      /\ IF ret' = 0 THEN Exit(0) ELSE IF ret' = -1 THEN Exit(3) ELSE Go("cat read")
  BY DEF CatRead, shell, locals, sys
<1>2. prog = "cat" /\ TableTypes
      /\ StepInv /\ AskInv /\ fails = {} /\ OtherTypes
      /\ name # <<>> /\ EntriesOf(name) # {} /\ fd = 2 /\ OnEntry(2, e)
      /\ out = UpTo(e, fdt[2].position)
  BY <1>0, <1>1 DEF ProgramsInv, StepInv, CatInv, CatSteps, EndInv, SysErrPasses
<1>3. e \in Entry /\ UpTo(e, Size(e)) = Contents(e) /\ BufSize \in 1 .. BufSize
  BY <1>2, EntryOfFacts, SizeAssumption
<1> HIDE DEF e
<1>4. /\ TableTypes' /\ OnEntry(2, e)'
      /\ ret' # -1 /\ ret' \in Int
      /\ Got(2) \in Seq(Chars)
      /\ UpTo(e, fdt'[2].position) = UpTo(e, fdt[2].position) \o Got(2)
      /\ ret' = 0 => UpTo(e, fdt'[2].position) = UpTo(e, Size(e))
  BY <1>1, <1>2, <1>3, NextPiece
<1>5. out' = UpTo(e, fdt'[2].position) /\ out' \in Seq(Chars)
  <2>1. out \in Seq(Chars)
    BY <1>2 DEF OtherTypes
  <2>2. out \o Got(2) \in Seq(Chars)
    BY <1>4, <2>1, ConcatProperties
  <2>3. QED
    BY <1>1, <1>2, <1>4, <2>2
<1>6. OtherTypes' /\ SysErrPasses'
  BY <1>1, <1>2, <1>5 DEF OtherTypes, SysErrPasses
<1>7. pc' \in {"cat read", "exit"} /\ (pc' = "exit" => ret' = 0 /\ status' = 0)
  BY <1>1, <1>4 DEF Exit, Go
<1>8. CatInv'
  <2>1. argument' = name
    BY <1>0, <1>1
  <2>2. QED
    BY <1>1, <1>2, <1>4, <1>5, <2>1 DEF CatInv, e
<1>9. CatCopies'
  <2> SUFFICES ASSUME pc' = "exit" PROVE CatCopies'
    BY DEF CatCopies, Ended
  <2>1. status' = 0 /\ out' = Contents(e)
    BY <1>3, <1>4, <1>5, <1>7
  <2>2. QED
    BY <1>0, <1>1, <1>2, <2>1 DEF CatCopies, EntryOf, e
<1>10. StepInv' /\ AskInv'
  <2>1. pc \in CatSteps /\ pc' \in CatSteps \cup {"exit"}
    BY <1>1, <1>7 DEF CatSteps
  <2>2. QED
    BY <1>1, <1>2, <2>1, SameProgram
<1>11. prog' = "cat"
  BY <1>1, <1>2
<1>12. QED
  BY <1>4, <1>6, <1>7, <1>8, <1>9, <1>10, <1>11, CatAlone DEF ProgramsInv, EndInv

\* The rest of the invariant while ls runs.
LEMMA LsAlone ==
  ASSUME pc' \in {"ls read", "exit"}, prog' = "ls"
  PROVE  (FreshInv /\ CatInv /\ SysInv /\ GrepDirInv /\ GrepFileInv /\ GrepFoundInv /\ GrepOutInv
           /\ CatCopies /\ GrepFinds)'
<1>1. pc' \notin {"shell", "execute", "cat", "ls", "grep", "cat read", "syserr"}
      /\ pc' \notin GrepSteps
  BY NotFree DEF LsSteps
<1>2. pc' \notin {"grep next", "grep open", "grep read", "grep line", "grep close"}
  BY <1>1 DEF GrepSteps
<1>3. (FreshInv /\ CatInv /\ SysInv /\ GrepDirInv)'
  BY <1>1 DEF FreshInv, CatInv, SysInv, GrepDirInv
<1>4. GrepFileInv' /\ GrepFoundInv' /\ GrepOutInv'
  BY <1>1, <1>2 DEF GrepFileInv, GrepFoundInv, GrepOutInv
<1>5. CatCopies' /\ GrepFinds'
  BY DEF CatCopies, GrepFinds, Ended
<1>6. QED
  BY <1>3, <1>4, <1>5

LEMMA LinesFacts ==
  /\ Before(EntryLines, 0) = <<>>
  /\ Before(EntryLines, Len(dir_entries)) = FlattenSeq(EntryLines)
  /\ \A i \in 0 .. Len(dir_entries) : Before(EntryLines, i) \in Seq(Chars)
  /\ \A i \in 1 .. Len(dir_entries) :
       Before(EntryLines, i) = Before(EntryLines, i - 1) \o Append(dir_entries[i].fname, NL)
<1>1. EntryLines \in Seq(Seq(Chars)) /\ Len(EntryLines) = Len(dir_entries)
      /\ \A i \in 1 .. Len(dir_entries) : EntryLines[i] = Append(dir_entries[i].fname, NL)
  BY NamesFacts, DirectoryFacts
<1>2. /\ Before(EntryLines, 0) = <<>>
      /\ \A i \in 0 .. Len(EntryLines) : Before(EntryLines, i) \in Seq(Chars)
      /\ \A i \in 1 .. Len(EntryLines) :
           Before(EntryLines, i) = Before(EntryLines, i - 1) \o EntryLines[i]
      /\ Before(EntryLines, Len(EntryLines)) = FlattenSeq(EntryLines)
  BY <1>1, BeforeFacts
<1>3. QED
  BY <1>1, <1>2

LEMMA LsOpenKeepsInv ==
  ASSUME ProgramsInv, LsOpen
  PROVE  ProgramsInv'
<1>1. /\ pc = "ls" /\ fd' = ret' /\ UNCHANGED shell
      /\ argument' = argument /\ prog' = prog /\ sbuf' = sbuf /\ out' = out
      /\ last' = last /\ line_start' = line_start /\ data' = data /\ fails' = fails
  BY DEF LsOpen, shell, locals, sys
<1>2. prog = "ls" /\ out = <<>> /\ ClosedFrom(2) /\ TableTypes
      /\ StepInv /\ AskInv /\ fails = {} /\ OtherTypes
  BY <1>1 DEF ProgramsInv, StepInv, FreshInv, LsSteps, EndInv, SysErrPasses
<1>3. OtherTypes' /\ SysErrPasses'
  BY <1>1, <1>2 DEF OtherTypes, SysErrPasses
<1>4. CanOpen(<<".">>)
  BY <1>2, DotFacts, FirstOpen DEF CanOpen
<1>5. TOpen(<<".">>) /\ pc' = "ls read"
  BY <1>4 DEF LsOpen, OpenOr, Go
<1>6. /\ ret' = 2 /\ TableTypes' /\ OnEntry(2, EntryOf(<<".">>))'
      /\ fdt'[2].position = 0
  BY <1>2, <1>5, FirstOpen
<1>7. Before(EntryLines, 0) = <<>>
  BY LinesFacts
<1>8. LsInv'
  BY <1>1, <1>2, <1>6, <1>7 DEF LsInv
<1>9. LsLists'
  BY <1>5 DEF LsLists, Ended
<1>10. StepInv' /\ AskInv'
  <2>1. pc \in LsSteps /\ pc' \in LsSteps \cup {"exit"}
    BY <1>1, <1>5 DEF LsSteps
  <2>2. QED
    BY <1>1, <1>2, <2>1, SameProgram
<1>11. prog' = "ls" /\ pc' \in {"ls read", "exit"}
  BY <1>1, <1>2, <1>5
<1>12. QED
  BY <1>3, <1>6, <1>8, <1>9, <1>10, <1>11, LsAlone DEF ProgramsInv, EndInv

LEMMA LsReadKeepsInv ==
  ASSUME ProgramsInv, LsRead
  PROVE  ProgramsInv'
<1> DEFINE e == EntryOf(<<".">>)
           q == fdt[2].position
           m == Len(dir_entries)
<1>1. /\ pc = "ls read" /\ fd' = fd /\ UNCHANGED shell
      /\ Read(fd, NameMax)
      /\ argument' = argument /\ prog' = prog /\ sbuf' = sbuf
      /\ last' = last /\ line_start' = line_start /\ data' = data /\ fails' = fails
      /\ IF ret' \in {-1, 0} THEN Exit(IF ret' = 0 THEN 0 ELSE 3) /\ UNCHANGED out
         ELSE Go("ls read") /\ out' = out \o Append(Got(fd), NL)
  BY DEF LsRead, shell, locals, sys
<1>2. prog = "ls" /\ TableTypes
      /\ StepInv /\ AskInv /\ fails = {} /\ OtherTypes
      /\ fd = 2 /\ OnEntry(2, e)
      /\ out = Before(EntryLines, q)
  BY <1>1 DEF ProgramsInv, StepInv, LsInv, LsSteps, EndInv, SysErrPasses
<1>3. e.file_type = DIR /\ NameMax \in Int
  BY DotFacts, SizeAssumption
<1> HIDE DEF e
<1>4. /\ TableTypes' /\ OnEntry(2, e)' /\ q \in Nat /\ q <= m
      /\ q = m => ret' = 0 /\ fdt'[2].position = q
      /\ q # m => /\ q + 1 \in DOMAIN dir_entries
                  /\ ret' \in 1 .. NameMax
                  /\ Got(2) = dir_entries[q + 1].fname
                  /\ fdt'[2].position = q + 1
  BY <1>1, <1>2, <1>3, ReadDirFacts
<1> HIDE DEF q, m
<1>5. /\ pc' \in {"ls read", "exit"} /\ out' = Before(EntryLines, fdt'[2].position)
      /\ out' \in Seq(Chars)
      /\ pc' = "exit" => status' = 0 /\ out' = FlattenSeq(EntryLines)
  <2>1. CASE q = m
    <3>1. ret' = 0 /\ fdt'[2].position = q
      BY <1>4, <2>1
    <3>2. pc' = "exit" /\ status' = 0 /\ out' = out
      BY <1>1, <3>1 DEF Exit
    <3>3. out \in Seq(Chars)
      BY <1>2 DEF OtherTypes
    <3>4. Before(EntryLines, q) = FlattenSeq(EntryLines)
      BY <2>1, LinesFacts DEF m
    <3>5. QED
      BY <1>2, <3>1, <3>2, <3>3, <3>4
  <2>2. CASE q # m
    <3>1. /\ q + 1 \in DOMAIN dir_entries /\ ret' \in 1 .. NameMax
          /\ Got(2) = dir_entries[q + 1].fname
          /\ fdt'[2].position = q + 1
      BY <1>4, <2>2
    <3>2. ret' \notin {-1, 0}
      BY <3>1
    <3>3. pc' = "ls read" /\ out' = out \o Append(Got(2), NL)
      BY <1>1, <1>2, <3>2 DEF Go
    <3>4. q + 1 \in 1 .. Len(dir_entries) /\ q + 1 - 1 = q /\ q + 1 \in 0 .. Len(dir_entries)
      BY <1>4, <3>1, DirectoryFacts
    <3>5. Before(EntryLines, q + 1) = Before(EntryLines, q) \o Append(Got(2), NL)
      <4> DEFINE i == q + 1
      <4>1. i \in 1 .. Len(dir_entries) /\ i - 1 = q
        BY <1>4, <3>4, DirectoryFacts
      <4> HIDE DEF i
      <4>2. Before(EntryLines, i)
              = Before(EntryLines, i - 1) \o Append(dir_entries[i].fname, NL)
        BY <4>1, LinesFacts
      <4>3. Before(EntryLines, i) = Before(EntryLines, q) \o Append(dir_entries[i].fname, NL)
        BY <4>1, <4>2
      <4>4. QED
        BY <3>1, <4>3 DEF i
    <3>6. Before(EntryLines, q + 1) \in Seq(Chars)
      BY <3>4, LinesFacts
    <3>7. QED
      BY <1>2, <3>1, <3>3, <3>5, <3>6
  <2>3. QED
    BY <2>1, <2>2
<1>6. OtherTypes' /\ SysErrPasses'
  BY <1>1, <1>2, <1>5 DEF OtherTypes, SysErrPasses
<1>7. LsInv'
  BY <1>1, <1>2, <1>4, <1>5 DEF LsInv, e
<1>8. LsLists'
  BY <1>5 DEF LsLists, Ended, EntryLines
<1>9. StepInv' /\ AskInv'
  <2>1. pc \in LsSteps /\ pc' \in LsSteps \cup {"exit"}
    BY <1>1, <1>5 DEF LsSteps
  <2>2. QED
    BY <1>1, <1>2, <2>1, SameProgram
<1>10. prog' = "ls"
  BY <1>1, <1>2
<1>11. QED
  BY <1>4, <1>5, <1>6, <1>7, <1>8, <1>9, <1>10, LsAlone DEF ProgramsInv, EndInv

-----------------------------------------------------------------------------
(* syserr.                                                                 *)

\* The call that is made is the one asked for.
LEMMA PerformIs ==
  ASSUME NEW c, Perform(c)
  PROVE  /\ c.op = "read" => Read(c.arg, 1)
         /\ c.op = "write" => Write(c.arg)
         /\ c.op = "open" => TOpen(c.arg) \/ (~CanOpen(c.arg) /\ TFail)
         /\ c.op = "close" => TClose(c.arg) \/ (~CanRead(c.arg) /\ TFail)
         /\ c.op = "vidmap" => Vidmap(c.arg)
         /\ c.op = "number" => CallNumber(c.arg)
<1>1. ASSUME c.op = "read" PROVE Read(c.arg, 1)
  BY <1>1, Zenon DEF Perform
<1>2. ASSUME c.op = "write" PROVE Write(c.arg)
  BY <1>2, Zenon DEF Perform
<1>3. ASSUME c.op = "open" PROVE TOpen(c.arg) \/ (~CanOpen(c.arg) /\ TFail)
  BY <1>3, Zenon DEF Perform
<1>4. ASSUME c.op = "close" PROVE TClose(c.arg) \/ (~CanRead(c.arg) /\ TFail)
  BY <1>4, Zenon DEF Perform
<1>5. ASSUME c.op = "vidmap" PROVE Vidmap(c.arg)
  BY <1>5, Zenon DEF Perform
<1>6. ASSUME c.op = "number" PROVE CallNumber(c.arg)
  BY <1>6, Zenon DEF Perform
<1>7. QED
  BY <1>1, <1>2, <1>3, <1>4, <1>5, <1>6

\* With nothing open, no call through a descriptor gets anywhere.
LEMMA NothingOpen ==
  ASSUME TableTypes, ClosedFrom(2), NEW f
  PROVE  /\ ~CanRead(f) /\ ~TClose(f)
         /\ Read(f, 1) => TFail
         /\ Write(f) /\ f # 1 => TFail
<1>1. ~CanRead(f)
  BY FdFacts DEF CanRead, ClosedFrom
<1>2. ~TClose(f)
  BY FdFacts DEF TClose, ClosedFrom
<1>3. ASSUME IsOpen(f) PROVE fdt[f].ops = TERM
  <2>1. f \in Fds /\ f \notin UserFds
    BY <1>1, <1>3 DEF CanRead, IsOpen
  <2>2. f = 0 \/ f = 1
    BY <2>1, SizeAssumption DEF Fds, UserFds
  <2>3. QED
    BY <2>2 DEF TableTypes, Stdio
<1>4. ~TReadFile(f, 1) /\ ~TReadDir(f) /\ ~IsRtc(f)
  BY <1>1, <1>3 DEF TReadFile, TReadDir, IsRtc, TERM, FILE, DIR
<1>5. Read(f, 1) => TFail
  BY <1>4 DEF Read
<1>6. Write(f) /\ f # 1 => TFail
  BY <1>4 DEF Write
<1>7. QED
  BY <1>1, <1>2, <1>5, <1>6

\* No entry has a name that syserr takes for a bad one.
LEMMA BadNames == EntriesOf(<<>>) = {} /\ EntriesOf(<<"h", "h">>) = {}
<1>1. \A n \in DOMAIN dir_entries : dir_entries[n].fname \notin {<<>>, <<"h", "h">>}
  BY ImageAssumption
<1>2. QED
  BY <1>1 DEF EntriesOf

LEMMA BadCallFails ==
  ASSUME TableTypes, ClosedFrom(2), NEW c \in BadFdCalls \cup BadNameCalls \cup LateCalls,
         Perform(c)
  PROVE  TFail /\ c.test # 3
<1>1. \A f : /\ ~CanRead(f) /\ ~TClose(f)
             /\ Read(f, 1) => TFail
             /\ Write(f) /\ f # 1 => TFail
  BY NothingOpen
<1>2. CASE c \in BadFdCalls
  <2>1. PICK t \in {1, 2}, o \in {"read", "write", "close"}, f \in {NEG_FD, BIG_FD} :
          c = Call(t, o, f)
    BY <1>2 DEF BadFdCalls
  <2>2. c.test = t /\ c.op = o /\ c.arg = f
    BY <2>1 DEF Call
  <2>3. f # 1 /\ c.test # 3
    BY <2>1, <2>2, SizeAssumption DEF NEG_FD, BIG_FD
  <2>4. QED
    BY <1>1, <2>1, <2>2, <2>3, PerformIs
<1>3. CASE c \in BadNameCalls
  <2>1. c.test = 4 /\ c.op = "open" /\ c.arg \in {<<>>, <<"h", "h">>}
    BY <1>3 DEF BadNameCalls, Call
  <2>2. EntriesOf(c.arg) = {}
    BY <2>1, BadNames
  <2>3. ~TOpen(c.arg)
    BY <2>2 DEF TOpen
  <2>4. QED
    BY <2>1, <2>3, PerformIs
<1>4. CASE c \in LateCalls
  <2>1. c.test \in {5, 6, 7, 8}
    BY <1>4 DEF LateCalls, Call
  <2>2. \/ c.op \in {"close", "read"}
        \/ c.op = "write" /\ c.arg # 1
        \/ c.op = "vidmap" /\ c.arg \in {NULL, "kernel"}
        \/ c.op = "number" /\ c.arg \in {11, -11, 0}
    <3>1. \A f \in UserFds : f # 1
      BY FdFacts
    <3>2. QED
      BY <1>4, <3>1 DEF LateCalls, Call
  <2>3. CASE c.op \in {"close", "read"} \/ (c.op = "write" /\ c.arg # 1)
    BY <1>1, <2>1, <2>3, PerformIs
  <2>4. CASE c.op = "vidmap" /\ c.arg \in {NULL, "kernel"}
    <3>1. c.arg # "user"
      BY <2>4, ImageAssumption
    <3>2. QED
      BY <2>1, <2>4, <3>1, PerformIs DEF Vidmap
  <2>5. CASE c.op = "number" /\ c.arg \in {11, -11, 0}
    BY <2>1, <2>5, PerformIs DEF CallNumber
  <2>6. QED
    BY <2>2, <2>3, <2>4, <2>5
<1>5. QED
  BY <1>2, <1>3, <1>4

\* The rest of the invariant while syserr runs.
LEMMA SysErrAlone ==
  ASSUME pc' \in {"syserr", "exit"}, prog' = "syserr"
  PROVE  (FreshInv /\ CatInv /\ LsInv /\ GrepDirInv /\ GrepFileInv /\ GrepFoundInv /\ GrepOutInv
           /\ CatCopies /\ LsLists /\ GrepFinds)'
<1>1. pc' \notin {"shell", "execute", "cat", "ls", "grep", "cat read", "ls read"}
      /\ pc' \notin GrepSteps
  BY NotFree
<1>2. pc' \notin {"grep next", "grep open", "grep read", "grep line", "grep close"}
  BY <1>1 DEF GrepSteps
<1>3. (FreshInv /\ CatInv /\ LsInv /\ GrepDirInv)'
  BY <1>1 DEF FreshInv, CatInv, LsInv, GrepDirInv
<1>4. GrepFileInv' /\ GrepFoundInv' /\ GrepOutInv'
  BY <1>1, <1>2 DEF GrepFileInv, GrepFoundInv, GrepOutInv
<1>5. CatCopies' /\ LsLists' /\ GrepFinds'
  BY DEF CatCopies, LsLists, GrepFinds, Ended
<1>6. QED
  BY <1>3, <1>4, <1>5

\* Which descriptors are open before call n.
OpenBefore(n) ==
  \A f \in UserFds : /\ IsOpen(f) <=> n - 5 - FdNum < f /\ f <= n - 6
                     /\ IsOpen(f) => OnEntry(f, EntryOf(<<".">>))

\* A descriptor that stays as it is stays on its entry.
LEMMA SameDescriptor ==
  ASSUME NEW f, fdt'[f] = fdt[f]
  PROVE  /\ IsOpen(f)' <=> IsOpen(f)
         /\ \A e : OnEntry(f, e) => OnEntry(f, e)'
BY DEF IsOpen, OnEntry, Size

\* Each call does what its test expects.
LEMMA CallAsExpected ==
  ASSUME TableTypes, NEW n \in 1 .. Len(Calls), NEW m, m = n + 1,
         OpenBefore(n), Perform(Calls[n])
  PROVE  TableTypes' /\ Expected(n, ret') /\ OpenBefore(m)'
<1>1. /\ FdNum \in Nat /\ FdNum >= 4 /\ n \in Nat /\ n >= 1 /\ m \in Nat
      /\ Len(Calls) \in Nat /\ Len(Calls) >= FdNum + FdNum + 5
      /\ \A f \in UserFds : f \in Fds /\ f \in Nat /\ f >= 2 /\ f < FdNum
  BY CallsFacts, FdFacts
<1>2. \A j \in 1 .. Len(Calls) :
        /\ j <= 6 => Calls[j] \in BadFdCalls
        /\ 7 <= j /\ j <= FdNum + 5 => Calls[j] = Call(3, "open", <<".">>)
        /\ FdNum + 6 <= j /\ j <= FdNum + FdNum + 3 =>
             Calls[j] = Call(3, "close", j - FdNum - 4)
        /\ FdNum + FdNum + 4 <= j => Calls[j] \in BadNameCalls \cup LateCalls
  BY CallsFacts
<1>3. CASE n <= 6 \/ FdNum + FdNum + 4 <= n
  <2>1. Calls[n] \in BadFdCalls \cup BadNameCalls \cup LateCalls
    BY <1>2, <1>3
  <2>2. \A f \in UserFds : ~(n - 5 - FdNum < f /\ f <= n - 6)
    BY <1>1, <1>3
  <2>3. ClosedFrom(2)
    BY <2>2 DEF ClosedFrom, OpenBefore
  <2>4. TFail /\ Calls[n].test # 3
    BY <2>1, <2>3, BadCallFails
  <2>5. TableTypes' /\ ret' = -1 /\ fdt' = fdt
    BY <2>4, FailFacts
  <2>6. Expected(n, ret')
    BY <2>4, <2>5 DEF Expected
  <2>7. OpenBefore(m)'
    <3>1. \A f \in UserFds : ~IsOpen(f)'
      BY <2>3, <2>5, <1>1 DEF ClosedFrom, IsOpen
    <3>2. \A f \in UserFds : ~(m - 5 - FdNum < f /\ f <= m - 6)
      BY <1>1, <1>3
    <3>3. QED
      BY <3>1, <3>2 DEF OpenBefore
  <2>8. QED
    BY <2>5, <2>6, <2>7
<1>4. CASE 7 <= n /\ n <= FdNum + 5
  <2>1. Calls[n] = Call(3, "open", <<".">>)
    BY <1>2, <1>4
  <2>2. Calls[n].op = "open" /\ Calls[n].arg = <<".">> /\ Calls[n].test = 3
    BY <2>1 DEF Call
  <2>3. TOpen(<<".">>) \/ (~CanOpen(<<".">>) /\ TFail)
    <3>1. PICK c : c = Calls[n]
      OBVIOUS
    <3>2. QED
      BY <2>2, <3>1, PerformIs
  <2>4. m \in 1 .. Len(Calls)
    BY <1>1, <1>4
  <2>5. CASE n = FdNum + 5
    <3>1. \A f \in UserFds : n - 5 - FdNum < f /\ f <= n - 6
      BY <1>1, <2>5
    <3>2. FreeUserFds = {}
      BY <3>1 DEF OpenBefore, FreeUserFds
    <3>3. TFail
      BY <2>3, <3>2 DEF TOpen
    <3>4. TableTypes' /\ ret' = -1 /\ fdt' = fdt
      BY <3>3, FailFacts
    <3>5. Calls[m].op = "close"
      <4>1. FdNum + 6 <= m /\ m <= FdNum + FdNum + 3
        BY <1>1, <2>5
      <4>2. Calls[m] = Call(3, "close", m - FdNum - 4)
        BY <1>2, <2>4, <4>1
      <4>3. QED
        BY <4>2 DEF Call
    <3>6. Expected(n, ret')
      BY <3>4, <3>5 DEF Expected
    <3>7. OpenBefore(m)'
      <4>1. \A f \in UserFds : m - 5 - FdNum < f /\ f <= m - 6
        BY <1>1, <2>5
      <4>2. \A f \in UserFds : IsOpen(f)' /\ OnEntry(f, EntryOf(<<".">>))'
        BY <3>1, <3>4, SameDescriptor DEF OpenBefore
      <4>3. QED
        BY <4>1, <4>2 DEF OpenBefore
    <3>8. QED
      BY <3>4, <3>6, <3>7
  <2>6. CASE n # FdNum + 5
    <3> DEFINE f == n - 5
    <3>1. f \in UserFds /\ f # -1
      BY <1>1, <1>4, <2>6 DEF UserFds
    <3>2. ~IsOpen(f) /\ \A g \in UserFds : g < f => IsOpen(g)
      <4>1. ~(f <= n - 6)
        BY <1>1
      <4>2. \A g \in UserFds : g < f => n - 5 - FdNum < g /\ g <= n - 6
        BY <1>1, <1>4
      <4>3. QED
        BY <3>1, <4>1, <4>2 DEF OpenBefore
    <3>a. \A g \in UserFds : g # f =>
            ((n - 5 - FdNum < g /\ g <= n - 6) <=> (m - 5 - FdNum < g /\ g <= m - 6))
      BY <1>1, <1>4
    <3>b. m - 5 - FdNum < f /\ f <= m - 6
      BY <1>1
    <3> HIDE DEF f
    <3>3. FreeUserFds # {}
      BY <3>1, <3>2, FirstFree
    <3>4. TOpen(<<".">>)
      BY <2>3, <3>3, DotFacts DEF CanOpen
    <3>5. /\ ret' = f /\ TableTypes' /\ OnEntry(f, EntryOf(<<".">>))'
          /\ \A g \in Fds : g # f => fdt'[g] = fdt[g]
      BY <3>1, <3>2, <3>4, DotFacts, OpenFacts DEF EntryOf
    <3>6. Calls[m].op = "open"
      <4>1. 7 <= m /\ m <= FdNum + 5
        BY <1>1, <1>4, <2>6
      <4>2. Calls[m] = Call(3, "open", <<".">>)
        BY <1>2, <2>4, <4>1
      <4>3. QED
        BY <4>2 DEF Call
    <3>7. Expected(n, ret')
      <4>1. ret' # -1 /\ Calls[m].op # "close"
        BY <3>1, <3>5, <3>6
      <4>2. QED
        BY <2>2, <4>1 DEF Expected
    <3>8. OpenBefore(m)'
      <4>1. ASSUME NEW g \in UserFds
            PROVE  /\ IsOpen(g)' <=> m - 5 - FdNum < g /\ g <= m - 6
                   /\ IsOpen(g)' => OnEntry(g, EntryOf(<<".">>))'
        <5>1. CASE g = f
          BY <3>5, <3>b, <5>1 DEF OnEntry
        <5>2. CASE g # f
          <6>1. fdt'[g] = fdt[g]
            BY <1>1, <3>5, <5>2
          <6>2. IsOpen(g)' <=> IsOpen(g)
            BY <6>1, SameDescriptor
          <6>3. OnEntry(g, EntryOf(<<".">>)) => OnEntry(g, EntryOf(<<".">>))'
            BY <6>1, SameDescriptor
          <6>4. QED
            BY <3>a, <5>2, <6>2, <6>3 DEF OpenBefore
        <5>3. QED
          BY <5>1, <5>2
      <4>2. QED
        BY <4>1 DEF OpenBefore
    <3>9. QED
      BY <3>5, <3>7, <3>8
  <2>7. QED
    BY <2>5, <2>6
<1>5. CASE FdNum + 6 <= n /\ n <= FdNum + FdNum + 3
  <2> DEFINE f == n - FdNum - 4
  <2>1. Calls[n] = Call(3, "close", f)
    BY <1>2, <1>5
  <2>2. Calls[n].op = "close" /\ Calls[n].arg = f /\ Calls[n].test = 3
    BY <2>1 DEF Call
  <2>3. TClose(f) \/ (~CanRead(f) /\ TFail)
    <3>1. PICK c : c = Calls[n]
      OBVIOUS
    <3>2. QED
      BY <2>2, <3>1, PerformIs
  <2>4. f \in UserFds /\ n - 5 - FdNum < f /\ f <= n - 6 /\ ~(m - 5 - FdNum < f)
    BY <1>1, <1>5 DEF UserFds
  <2>5. \A g \in UserFds : g # f =>
          ((n - 5 - FdNum < g /\ g <= n - 6) <=> (m - 5 - FdNum < g /\ g <= m - 6))
    BY <1>1, <1>5
  <2> HIDE DEF f
  <2>6. TClose(f)
    BY <2>3, <2>4 DEF CanRead, OpenBefore
  <2>7. /\ TableTypes' /\ fdt'[f].flags = 0
        /\ \A g \in Fds : g # f => fdt'[g] = fdt[g]
    BY <2>6, CloseFacts
  <2>8. Expected(n, ret')
    BY <2>2 DEF Expected
  <2>9. OpenBefore(m)'
    <3>1. ASSUME NEW g \in UserFds
          PROVE  /\ IsOpen(g)' <=> m - 5 - FdNum < g /\ g <= m - 6
                 /\ IsOpen(g)' => OnEntry(g, EntryOf(<<".">>))'
      <4>1. CASE g = f
        <5>1. ~IsOpen(g)'
          BY <2>7, <4>1 DEF IsOpen
        <5>2. QED
          BY <2>4, <4>1, <5>1
      <4>2. CASE g # f
        <5>1. fdt'[g] = fdt[g]
          BY <1>1, <2>7, <4>2
        <5>2. IsOpen(g)' <=> IsOpen(g)
          BY <5>1, SameDescriptor
        <5>3. OnEntry(g, EntryOf(<<".">>)) => OnEntry(g, EntryOf(<<".">>))'
          BY <5>1, SameDescriptor
        <5>4. QED
          BY <2>5, <4>2, <5>2, <5>3 DEF OpenBefore
      <4>3. QED
        BY <4>1, <4>2
    <3>2. QED
      BY <3>1 DEF OpenBefore
  <2>10. QED
    BY <2>7, <2>8, <2>9
<1>6. QED
  BY <1>1, <1>3, <1>4, <1>5

LEMMA SysErrKeepsInv ==
  ASSUME ProgramsInv, SysErr
  PROVE  ProgramsInv'
<1>1. /\ pc = "syserr" /\ UNCHANGED shell
      /\ argument' = argument /\ prog' = prog /\ sbuf' = sbuf /\ out' = out
      /\ last' = last /\ line_start' = line_start /\ data' = data
  BY DEF SysErr, shell, locals
<1>2. prog = "syserr" /\ TableTypes /\ StepInv /\ AskInv /\ fails = {} /\ OtherTypes
      /\ k \in 1 .. Len(Calls) + 1 /\ OpenBefore(k)
  BY <1>1 DEF ProgramsInv, StepInv, SysInv, EndInv, SysErrPasses, OpenBefore
<1>3. OtherTypes'
  BY <1>1, <1>2 DEF OtherTypes
<1>4. ASSUME pc' \in {"syserr", "exit"} PROVE StepInv' /\ AskInv'
  BY <1>1, <1>2, <1>4, SameProgram
<1>5. prog' = "syserr"
  BY <1>1, <1>2
<1>6. Len(Calls) \in Nat
  BY CallsFacts
<1>7. CASE k > Len(Calls)
  <2>1. pc' = "exit" /\ fdt' = fdt /\ ret' = ret /\ fails' = fails
    BY <1>7 DEF SysErr, Exit, tVars, sys
  <2>2. TableTypes' /\ SysErrPasses' /\ SysInv'
    BY <1>2, <2>1 DEF TableTypes, SysErrPasses, SysInv
  <2>3. QED
    BY <1>3, <1>4, <1>5, <2>1, <2>2, SysErrAlone DEF ProgramsInv, EndInv
<1>8. CASE ~(k > Len(Calls))
  <2>1. PICK n : n = k
    OBVIOUS
  <2>2. /\ Perform(Calls[n]) /\ k' = n + 1 /\ pc' = "syserr"
        /\ fails' = IF Expected(n, ret') THEN fails ELSE fails \cup {Calls[n].test}
    BY <1>8, <2>1 DEF SysErr, Go
  <2>3. n \in 1 .. Len(Calls) /\ OpenBefore(n)
    BY <1>2, <1>6, <1>8, <2>1
  <2>a. PICK m : m = n + 1
    OBVIOUS
  <2>4. TableTypes' /\ Expected(n, ret') /\ OpenBefore(m)'
    BY <1>2, <2>2, <2>3, <2>a, CallAsExpected
  <2>5. SysErrPasses'
    BY <1>2, <2>2, <2>4 DEF SysErrPasses
  <2>6. k' = m /\ m \in 1 .. Len(Calls) + 1
    BY <1>6, <2>2, <2>3, <2>a
  <2>7. SysInv'
    BY <2>2, <2>4, <2>6 DEF SysInv, OpenBefore
  <2>8. QED
    BY <1>3, <1>4, <1>5, <2>2, <2>4, <2>5, <2>7, SysErrAlone DEF ProgramsInv, EndInv
<1>9. QED
  BY <1>7, <1>8

-----------------------------------------------------------------------------
(* The lines of a text, and what grep is to print about them.              *)

\* Where nothing is added, nothing changes.
LEMMA BlankSteps ==
  ASSUME NEW C, NEW s \in Seq(Seq(C)), NEW a \in Nat, NEW b \in Nat, a <= b, b <= Len(s),
         \A x \in a + 1 .. b : s[x] = <<>>
  PROVE  Before(s, b) = Before(s, a)
<1> DEFINE S == {n \in Nat : a + n <= b => Before(s, a + n) = Before(s, a)}
<1>1. /\ \A i \in 0 .. Len(s) : Before(s, i) \in Seq(C)
      /\ \A i \in 1 .. Len(s) : Before(s, i) = Before(s, i - 1) \o s[i]
  BY BeforeFacts
<1>2. Len(s) \in Nat
  OBVIOUS
<1>3. 0 \in S
  OBVIOUS
<1>4. ASSUME NEW n \in Nat, n \in S PROVE n + 1 \in S
  <2> SUFFICES ASSUME a + (n + 1) <= b PROVE Before(s, a + (n + 1)) = Before(s, a)
    OBVIOUS
  <2> DEFINE i == a + (n + 1)
  <2>1. /\ a + n <= b /\ i \in 1 .. Len(s) /\ i - 1 = a + n /\ i \in a + 1 .. b
        /\ a + n \in 0 .. Len(s)
    BY <1>2
  <2>2. Before(s, a + n) = Before(s, a)
    BY <1>4, <2>1
  <2> HIDE DEF i, S
  <2>3. Before(s, i) = Before(s, i - 1) \o s[i] /\ s[i] = <<>>
    BY <1>1, <2>1
  <2>4. Before(s, a + n) \in Seq(C)
    BY <1>1, <2>1
  <2>5. Before(s, a + n) \o <<>> = Before(s, a + n)
    BY <2>4, ConcatEmptySeq
  <2>6. Before(s, i) = Before(s, a)
    BY <2>1, <2>2, <2>3, <2>5
  <2>7. QED
    BY <2>6 DEF i
<1> HIDE DEF S
<1>5. \A n \in Nat : n \in S
  BY <1>3, <1>4, InductionOnSet
<1>6. b - a \in Nat /\ a + (b - a) = b
  OBVIOUS
<1>7. b - a \in S
  BY <1>5, <1>6
<1>8. a + (b - a) <= b => Before(s, a + (b - a)) = Before(s, a)
  BY <1>7 DEF S
<1>9. QED
  BY <1>6, <1>8

\* A line goes up to the next newline.
LEMMA LineIs ==
  ASSUME NEW t \in Seq(Chars), NEW s \in Nat, NEW z \in Nat, s <= z, z <= Len(t),
         \A x \in s + 1 .. z : t[x] # NL,
         z = Len(t) \/ t[z + 1] = NL
  PROVE  LineFrom(t, s) = SubSeq(t, s + 1, z)
<1> DEFINE n == Len(t)
           S == Starts(t)
<1>1. n \in Nat /\ DOMAIN t = 1 .. n
  OBVIOUS
<1>2. \A x \in s + 1 .. z : x \notin S
  <2> SUFFICES ASSUME NEW x \in s + 1 .. z PROVE x \notin S
    OBVIOUS
  <2>1. x # 0 /\ t[x] # NL
    OBVIOUS
  <2>2. QED
    BY <2>1 DEF Starts
<1>3. z <= n /\ (z = n \/ t[z + 1] = NL)
  OBVIOUS
<1>4. LineFrom(t, s) = SubSeq(t, s + 1, Find(s + 1, n + 1, S) - 1)
  BY DEF LineFrom
<1>5. ASSUME NEW lo, NEW hi, NEW m, lo = s + 1, hi = n + 1, m = z + 1
      PROVE  Find(lo, hi, S) = m
  <2> HIDE DEF n
  <2>1. lo \in Nat /\ hi \in Nat /\ m \in lo .. hi
    BY <1>1, <1>3, <1>5
  <2>2. \A x \in lo .. m - 1 : x \notin S
    BY <1>2, <1>5
  <2>3. m < hi => m \in S
    <3>1. m < hi => z # n /\ m \in 1 .. n
      BY <1>1, <1>3, <1>5
    <3>2. QED
      BY <1>1, <1>3, <1>5, <3>1 DEF Starts
  <2> HIDE DEF S
  <2>4. QED
    BY <2>1, <2>2, <2>3, FindIs
<1> HIDE DEF n, S
<1>6. Find(s + 1, n + 1, S) = z + 1
  BY <1>5
<1>7. z + 1 - 1 = z
  OBVIOUS
<1>8. QED
  BY <1>4, <1>6, <1>7

\* A line is text.
LEMMA LineType ==
  ASSUME NEW t \in Seq(Chars), NEW s \in 0 .. Len(t)
  PROVE  LineFrom(t, s) \in Seq(Chars)
<1> DEFINE f == Find(s + 1, Len(t) + 1, Starts(t))
<1>1. Len(t) \in Nat /\ s + 1 \in Nat /\ Len(t) + 1 \in Nat /\ s + 1 <= Len(t) + 1 /\ s \in Nat
  OBVIOUS
<1>2. f \in s + 1 .. Len(t) + 1
  BY <1>1, FindFacts
<1>3. LineFrom(t, s) = SubSeq(t, s + 1, f - 1)
  BY DEF LineFrom
<1> HIDE DEF f
<1>4. f - 1 \in Nat /\ s <= f - 1 /\ f - 1 <= Len(t)
  BY <1>1, <1>2
<1>5. SubSeq(t, s + 1, f - 1) \in Seq(Chars)
  BY <1>1, <1>4, PieceFacts
<1>6. QED
  BY <1>3, <1>5

\* What is printed about a line.
Printed(e, word, line) ==
  IF HasWord(line, word) THEN e.fname \o <<":">> \o line \o <<NL>> ELSE <<>>

LEMMA PrintedType ==
  ASSUME NEW e \in Entry, NEW word, NEW line \in Seq(Chars)
  PROVE  Printed(e, word, line) \in Seq(Chars)
<1>1. e.fname \in Seq(Chars) /\ <<":">> \in Seq(Chars) /\ <<NL>> \in Seq(Chars)
  BY Characters DEF Entry
<1>2. e.fname \o <<":">> \in Seq(Chars)
  BY <1>1, ConcatProperties
<1>3. e.fname \o <<":">> \o line \in Seq(Chars)
  BY <1>2, ConcatProperties
<1>4. e.fname \o <<":">> \o line \o <<NL>> \in Seq(Chars)
  BY <1>1, <1>3, ConcatProperties
<1>5. QED
  BY <1>4 DEF Printed

LEMMA NothingPrinted == \A e, word : Printed(e, word, <<>>) = <<>>
BY DEF Printed, HasWord

LEMMA HitsFacts ==
  ASSUME NEW e \in Entry, NEW word
  PROVE  LET t == content[e.inode_index] IN
         /\ t \in Seq(Chars) /\ Len(t) \in Nat
         /\ Hits(e, word) \in Seq(Seq(Chars)) /\ Len(Hits(e, word)) = Len(t) + 1
         /\ \A x \in 1 .. Len(t) + 1 :
              Hits(e, word)[x] = IF x - 1 \in Starts(t)
                                 THEN Printed(e, word, LineFrom(t, x - 1)) ELSE <<>>
<1> DEFINE t == content[e.inode_index]
           h == Hits(e, word)
<1>1. t \in Seq(Chars)
  <2>1. e.inode_index \in Inodes
    BY DEF Entry
  <2>2. QED
    BY <2>1, ImageAssumption
<1>2. Len(t) \in Nat /\ Len(t) + 1 \in Nat
  BY <1>1
<1>3. h = [x \in 1 .. Len(t) + 1 |->
             IF x - 1 \in Starts(t) /\ HasWord(LineFrom(t, x - 1), word)
             THEN e.fname \o <<":">> \o LineFrom(t, x - 1) \o <<NL>> ELSE <<>>]
  BY DEF Hits
<1> HIDE DEF t, h
<1>4. ASSUME NEW x \in 1 .. Len(t) + 1
      PROVE  h[x] = IF x - 1 \in Starts(t)
                    THEN Printed(e, word, LineFrom(t, x - 1)) ELSE <<>>
  BY <1>3 DEF Printed
<1>5. ASSUME NEW x \in 1 .. Len(t) + 1 PROVE h[x] \in Seq(Chars)
  <2>1. x - 1 \in 0 .. Len(t)
    BY <1>2
  <2>2. LineFrom(t, x - 1) \in Seq(Chars)
    BY <1>1, <2>1, LineType
  <2>3. Printed(e, word, LineFrom(t, x - 1)) \in Seq(Chars)
    BY <2>2, PrintedType
  <2>4. <<>> \in Seq(Chars)
    OBVIOUS
  <2>5. QED
    BY <1>4, <2>3, <2>4
<1>6. h \in [1 .. Len(t) + 1 -> Seq(Chars)]
  BY <1>3, <1>5
<1>7. h \in Seq(Seq(Chars))
  BY <1>2, <1>6, SeqDef
<1>8. Len(h) = Len(t) + 1
  BY <1>2, <1>6, <1>7
<1>9. QED
  BY <1>1, <1>2, <1>4, <1>7, <1>8 DEF t, h

\* In the file of e, with text t, the rest of a line from s ends at z.
RestOfLine(e, t, s, z) ==
  /\ t = content[e.inode_index]
  /\ s \in Nat /\ z \in Nat /\ s <= z /\ z <= Len(t)
  /\ \A x \in s + 1 .. z : t[x] # NL
  /\ z = Len(t) \/ t[z + 1] = NL
  /\ AtLine(t, s)

\* A line dealt with whole adds what is printed about it.
LEMMA LineDone ==
  ASSUME NEW e \in Entry, NEW word, NEW t, NEW s, NEW z, RestOfLine(e, t, s, z)
  PROVE  /\ Before(Hits(e, word), z + 1)
              = Before(Hits(e, word), s) \o Printed(e, word, SubSeq(t, s + 1, z))
         /\ s < z => Before(Hits(e, word), z + 1) = Before(Hits(e, word), z)
<1>0. /\ t = content[e.inode_index]
      /\ s \in Nat /\ z \in Nat /\ s <= z /\ z <= Len(t)
      /\ \A x \in s + 1 .. z : t[x] # NL
      /\ z = Len(t) \/ t[z + 1] = NL
      /\ AtLine(t, s)
  BY DEF RestOfLine
<1> DEFINE h == Hits(e, word)
           w == SubSeq(t, s + 1, z)
<1>1. /\ t \in Seq(Chars) /\ Len(t) \in Nat
      /\ h \in Seq(Seq(Chars)) /\ Len(h) = Len(t) + 1
      /\ \A x \in 1 .. Len(t) + 1 :
           h[x] = IF x - 1 \in Starts(t)
                  THEN Printed(e, word, LineFrom(t, x - 1)) ELSE <<>>
  BY <1>0, HitsFacts
<1> HIDE DEF h
<1>3. /\ \A i \in 0 .. Len(h) : Before(h, i) \in Seq(Chars)
      /\ \A i \in 1 .. Len(h) : Before(h, i) = Before(h, i - 1) \o h[i]
  BY <1>0, <1>1, BeforeFacts
<1>5. h[s + 1] = Printed(e, word, w)
  <2> DEFINE i == s + 1
  <2>0. i \in 1 .. Len(t) + 1 /\ i - 1 = s
    BY <1>0, <1>1
  <2> HIDE DEF i
  <2>1. CASE s \in Starts(t)
    <3>1. LineFrom(t, s) = w
      BY <1>0, <1>1, LineIs
    <3>2. h[i] = Printed(e, word, LineFrom(t, s))
      BY <1>0, <1>1, <2>0, <2>1
    <3>3. QED
      BY <3>1, <3>2 DEF i
  <2>2. CASE s \notin Starts(t)
    <3>1. s = Len(t) \/ t[s + 1] = NL
      BY <1>0, <2>2 DEF AtLine
    <3>2. s = z
      <4>1. ASSUME s # z PROVE FALSE
        <5>1. s + 1 \in s + 1 .. z /\ s # Len(t)
          BY <1>0, <1>1, <4>1
        <5>2. QED
          BY <1>0, <3>1, <5>1
      <4>2. QED
        BY <4>1
    <3>3. w = <<>>
      BY <1>0, <1>1, <3>2
    <3>4. h[i] = <<>>
      BY <1>0, <1>1, <2>0, <2>2
    <3>5. QED
      BY <3>3, <3>4, NothingPrinted DEF i
  <2>3. QED
    BY <2>1, <2>2
<1>6. ASSUME NEW x \in s + 2 .. z + 1 PROVE h[x] = <<>>
  <2>1. x - 1 \in s + 1 .. z /\ x - 1 # 0 /\ x \in 1 .. Len(t) + 1
    BY <1>0, <1>1
  <2>2. t[x - 1] # NL
    BY <1>0, <2>1
  <2>3. x - 1 \notin Starts(t)
    BY <2>1, <2>2 DEF Starts
  <2>4. QED
    BY <1>0, <1>1, <2>1, <2>3
<1> HIDE DEF w
<1>7. Before(h, s + 1) = Before(h, s) \o Printed(e, word, w)
  <2> DEFINE i == s + 1
  <2>1. i \in 1 .. Len(h) /\ i - 1 = s
    BY <1>0, <1>1
  <2>2. h[i] = Printed(e, word, w)
    BY <1>5
  <2> HIDE DEF i
  <2>3. Before(h, i) = Before(h, i - 1) \o h[i]
    BY <1>3, <2>1
  <2>4. Before(h, i) = Before(h, s) \o Printed(e, word, w)
    BY <2>1, <2>2, <2>3
  <2>5. QED
    BY <2>4 DEF i
<1>8. Before(h, z + 1) = Before(h, s + 1)
  <2>1. s + 1 \in Nat /\ z + 1 \in Nat /\ s + 1 <= z + 1 /\ z + 1 <= Len(h)
    BY <1>0, <1>1
  <2>2. \A x \in s + 1 + 1 .. z + 1 : h[x] = <<>>
    BY <1>0, <1>6
  <2>3. QED
    BY <1>0, <1>1, <2>1, <2>2, BlankSteps
<1>9. ASSUME s < z PROVE Before(h, z + 1) = Before(h, z)
  <2>1. z \in Nat /\ z + 1 \in Nat /\ z <= z + 1 /\ z + 1 <= Len(h)
    BY <1>0, <1>1
  <2>2. \A x \in z + 1 .. z + 1 : h[x] = <<>>
    BY <1>0, <1>6, <1>9
  <2>3. QED
    BY <1>0, <1>1, <2>1, <2>2, BlankSteps
<1>10. QED
  BY <1>7, <1>8, <1>9 DEF h, w

\* Behind the last newline there is nothing more.
LEMMA AllLinesDone ==
  ASSUME NEW e \in Entry, NEW word, NEW t, t = content[e.inode_index]
  PROVE  /\ Before(Hits(e, word), Len(t)) = FlattenSeq(Hits(e, word))
         /\ Before(Hits(e, word), Len(t) + 1) = FlattenSeq(Hits(e, word))
<1> DEFINE h == Hits(e, word)
           n == Len(t)
<1>1. /\ t \in Seq(Chars) /\ n \in Nat
      /\ h \in Seq(Seq(Chars)) /\ Len(h) = n + 1
      /\ \A x \in 1 .. n + 1 :
           h[x] = IF x - 1 \in Starts(t)
                  THEN Printed(e, word, LineFrom(t, x - 1)) ELSE <<>>
  BY HitsFacts
<1> HIDE DEF h
<1>2. Before(h, n + 1) = FlattenSeq(h)
  BY <1>1, BeforeFacts
<1>3. h[n + 1] = <<>>
  <2>1. SubSeq(t, n + 1, n) = <<>>
    BY <1>1
  <2>2. LineFrom(t, n) = <<>>
    <3>1. n = Len(t) /\ n <= n /\ n <= Len(t) /\ \A x \in n + 1 .. n : t[x] # NL
      BY <1>1
    <3> HIDE DEF n
    <3>2. LineFrom(t, n) = SubSeq(t, n + 1, n)
      BY <1>1, <3>1, LineIs
    <3>3. QED
      BY <2>1, <3>2
  <2> DEFINE i == n + 1
  <2>3. i \in 1 .. n + 1 /\ i - 1 = n
    BY <1>1
  <2> HIDE DEF i, n
  <2>4. h[i] = IF n \in Starts(t) THEN Printed(e, word, LineFrom(t, n)) ELSE <<>>
    BY <1>1, <2>3
  <2>5. QED
    BY <2>2, <2>4, NothingPrinted DEF i
<1> HIDE DEF n
<1>4. Before(h, n + 1) = Before(h, n)
  <2>1. n + 1 \in Nat /\ n <= n + 1 /\ n + 1 <= Len(h) /\ n \in Nat
    BY <1>1
  <2>2. \A x \in n + 1 .. n + 1 : h[x] = <<>>
    BY <1>1, <1>3
  <2>3. QED
    BY <1>1, <2>1, <2>2, BlankSteps
<1>5. QED
  BY <1>2, <1>4 DEF h, n

LEMMA JoinThree == \A a, b, c \in Seq(Chars) : (a \o b) \o c = a \o (b \o c)
<1> SUFFICES ASSUME NEW a \in Seq(Chars), NEW b \in Seq(Chars), NEW c \in Seq(Chars)
             PROVE  (a \o b) \o c = a \o (b \o c)
  OBVIOUS
<1>1. QED
  OBVIOUS

\* What has been printed at the entries, one after the other.
LEMMA PerEntryFacts ==
  ASSUME NEW f \in PerEntry
  PROVE  /\ f \in Seq(Seq(Chars)) /\ Len(f) = Len(dir_entries)
         /\ Before(f, 0) = <<>>
         /\ Before(f, Len(dir_entries)) = FlattenSeq(f)
         /\ \A n \in 0 .. Len(dir_entries) : Before(f, n) \in Seq(Chars)
         /\ \A n \in 1 .. Len(dir_entries) : Before(f, n) = Before(f, n - 1) \o f[n]
<1> DEFINE m == Len(dir_entries)
<1>1. m \in Nat /\ DOMAIN dir_entries = 1 .. m
  BY DirectoryFacts
<1> HIDE DEF m
<1>2. f \in [1 .. m -> Seq(Chars)]
  BY <1>1 DEF PerEntry
<1>3. f \in Seq(Seq(Chars)) /\ Len(f) = m
  BY <1>1, <1>2, SeqDef
<1>4. /\ Before(f, 0) = <<>>
      /\ \A i \in 0 .. Len(f) : Before(f, i) \in Seq(Chars)
      /\ \A i \in 1 .. Len(f) : Before(f, i) = Before(f, i - 1) \o f[i]
      /\ Before(f, Len(f)) = FlattenSeq(f)
  BY <1>3, BeforeFacts
<1>5. QED
  BY <1>3, <1>4 DEF m

\* What is printed at an entry does not change what was printed before it.
LEMMA PerEntryGrows ==
  ASSUME NEW f \in PerEntry, NEW n \in DOMAIN dir_entries, NEW w \in Seq(Chars),
         NEW g \in PerEntry, g[n] = f[n] \o w,
         \A m \in DOMAIN dir_entries : m # n => g[m] = f[m]
  PROVE  Before(g, n) = Before(f, n) \o w
<1>1. Len(dir_entries) \in Nat /\ n \in 1 .. Len(dir_entries) /\ n - 1 \in 0 .. Len(dir_entries)
      /\ DOMAIN dir_entries = 1 .. Len(dir_entries)
  BY DirectoryFacts
<1>2. f[n] \in Seq(Chars)
  BY DEF PerEntry
<1>3. /\ g \in PerEntry /\ g[n] = f[n] \o w
      /\ \A m \in DOMAIN dir_entries : m # n => g[m] = f[m]
  OBVIOUS
<1>4. Before(g, n - 1) = Before(f, n - 1)
  <2> DEFINE b == n - 1
             u == SubSeq(f, 1, b)
             v == SubSeq(g, 1, b)
  <2>1. b \in Nat /\ b <= Len(dir_entries) /\ \A j \in 1 .. b : j \in DOMAIN dir_entries /\ j # n
    BY <1>1
  <2> HIDE DEF b
  <2>2. f \in Seq(Seq(Chars)) /\ Len(f) = Len(dir_entries)
        /\ g \in Seq(Seq(Chars)) /\ Len(g) = Len(dir_entries)
    BY <1>3, PerEntryFacts
  <2>3. /\ u \in Seq(Seq(Chars)) /\ Len(u) = b /\ \A j \in 1 .. b : u[j] = f[j]
        /\ v \in Seq(Seq(Chars)) /\ Len(v) = b /\ \A j \in 1 .. b : v[j] = g[j]
    <3>1. 0 \in Nat /\ 0 <= b /\ b - 0 = b /\ 0 + 1 = 1 /\ \A j \in 1 .. b : 0 + j = j
      BY <2>1
    <3>2. /\ SubSeq(f, 0 + 1, b) \in Seq(Seq(Chars)) /\ Len(SubSeq(f, 0 + 1, b)) = b - 0
          /\ \A j \in 1 .. b - 0 : SubSeq(f, 0 + 1, b)[j] = f[0 + j]
      BY <2>1, <2>2, <3>1, PieceFacts
    <3>3. /\ SubSeq(g, 0 + 1, b) \in Seq(Seq(Chars)) /\ Len(SubSeq(g, 0 + 1, b)) = b - 0
          /\ \A j \in 1 .. b - 0 : SubSeq(g, 0 + 1, b)[j] = g[0 + j]
      BY <2>1, <2>2, <3>1, PieceFacts
    <3>4. QED
      BY <3>1, <3>2, <3>3
  <2> HIDE DEF u, v
  <2>4. u = v
    BY <1>3, <2>1, <2>3, SeqEqual
  <2>5. QED
    BY <2>4 DEF Before, u, v, b
<1>5. PICK a, c, d : a = Before(f, n - 1) /\ c = f[n] /\ d = w
  OBVIOUS
<1>6. a \in Seq(Chars) /\ c \in Seq(Chars) /\ d \in Seq(Chars)
      /\ Before(f, n) = a \o c /\ Before(g, n) = a \o (c \o d)
  BY <1>1, <1>2, <1>3, <1>4, <1>5, PerEntryFacts
<1>7. (a \o c) \o d = a \o (c \o d)
  BY <1>6, JoinThree, Zenon
<1>8. QED
  BY <1>3, <1>5, <1>6, <1>7

-----------------------------------------------------------------------------
(* grep.                                                                   *)

GrepGoesOn == {"grep next", "grep open", "grep read", "grep line", "grep close"}

LEMMA GrepStepsAre ==
  /\ GrepSteps = {"grep"} \cup GrepGoesOn /\ GrepSteps \ {"grep"} = GrepGoesOn
  /\ GrepSteps \ {"grep", "grep next"} = {"grep open", "grep read", "grep line", "grep close"}
BY DEF GrepSteps, GrepGoesOn

\* The rest of the invariant while grep runs.
LEMMA GrepAlone ==
  ASSUME ProgramsInv, pc \in GrepSteps, UNCHANGED shell, fails' = fails,
         pc' \in GrepGoesOn \cup {"exit"},
         TableTypes', OtherTypes', GrepDirInv', GrepFileInv', GrepFoundInv', GrepOutInv',
         GrepFinds'
  PROVE  ProgramsInv'
<1>1. StepInv /\ AskInv /\ prog = "grep" /\ fails = {}
  BY DEF ProgramsInv, StepInv, EndInv, SysErrPasses
<1>2. StepInv' /\ AskInv'
  <2>1. pc' \in GrepSteps \cup {"exit"}
    BY GrepStepsAre
  <2>2. QED
    BY <1>1, <2>1, SameProgram
<1>3. prog' = "grep"
  BY <1>1 DEF shell
<1>4. pc' \notin {"shell", "execute", "cat", "ls", "grep", "cat read", "ls read", "syserr"}
  BY DEF GrepGoesOn
<1>5. (FreshInv /\ CatInv /\ LsInv /\ SysInv)'
  BY <1>4 DEF FreshInv, CatInv, LsInv, SysInv
<1>6. CatCopies' /\ LsLists' /\ SysErrPasses'
  BY <1>1, <1>3 DEF CatCopies, LsLists, Ended, SysErrPasses
<1>7. QED
  BY <1>2, <1>5, <1>6 DEF ProgramsInv, EndInv

\* While grep is at a file and prints nothing, what it has printed stays right.
LEMMA FoundStays ==
  ASSUME GrepFoundInv, pc \in GrepSteps \ {"grep"},
         NEW n, n = fdt[2].position, fdt'[2].position = n,
         argument' = argument, found' = found, out' = out, stray \subseteq stray',
         pc' \in {"grep read", "grep line"} \/ (pc = "grep close" /\ pc' = "grep next")
  PROVE  GrepFoundInv'
<1>1. /\ found \in PerEntry /\ out = Before(found, n)
      /\ \A m \in DOMAIN dir_entries : m > n => found[m] = <<>>
      /\ \A m \in DOMAIN dir_entries :
           (m < n \/ (m = n /\ pc \in {"grep next", "grep close"})) /\ Fit(m) =>
             found[m] = Found(dir_entries[m], argument)
  BY DEF GrepFoundInv
<1>2. \A m \in DOMAIN dir_entries : Fit(m)' => Fit(m)
  BY DEF Fit
<1>3. ASSUME NEW m \in DOMAIN dir_entries,
             m < n \/ (m = n /\ pc' \in {"grep next", "grep close"}), Fit(m)'
      PROVE  found'[m] = Found(dir_entries[m], argument')
  <2>1. pc' \in {"grep next", "grep close"} => pc = "grep close"
    OBVIOUS
  <2>2. QED
    BY <1>1, <1>2, <1>3, <2>1
<1>4. pc' # "grep open"
  OBVIOUS
<1>5. QED
  BY <1>1, <1>3, <1>4 DEF GrepFoundInv

LEMMA GrepOpenDirKeepsInv ==
  ASSUME ProgramsInv, GrepOpenDir
  PROVE  ProgramsInv'
<1>1. /\ pc = "grep" /\ dirfd' = ret' /\ UNCHANGED shell
      /\ argument' = argument /\ sbuf' = sbuf /\ out' = out /\ found' = found
      /\ last' = last /\ line_start' = line_start /\ data' = data /\ fails' = fails
  BY DEF GrepOpenDir, shell, sys
<1>2. pc \in GrepSteps /\ out = <<>> /\ ClosedFrom(2) /\ TableTypes /\ OtherTypes
      /\ found = NothingFound
  BY <1>1 DEF ProgramsInv, FreshInv, GrepSteps
<1>3. OtherTypes'
  BY <1>1, <1>2 DEF OtherTypes
<1>4. CASE argument = <<>>
  <2>1. pc' = "exit" /\ status' = 3 /\ fdt' = fdt /\ ret' = ret
    BY <1>4 DEF GrepOpenDir, Exit, tVars
  <2>2. TableTypes'
    BY <1>2, <2>1 DEF TableTypes
  <2>3. pc' \notin GrepSteps /\ pc' \notin GrepGoesOn
    BY <2>1, NotFree, GrepStepsAre
  <2>4. GrepDirInv' /\ GrepFileInv' /\ GrepFoundInv' /\ GrepOutInv'
    BY <2>3 DEF GrepDirInv, GrepFileInv, GrepFoundInv, GrepOutInv, GrepGoesOn
  <2>5. GrepFinds'
    BY <1>1, <1>4, <2>1 DEF GrepFinds
  <2>6. QED
    BY <1>1, <1>2, <1>3, <2>1, <2>2, <2>4, <2>5, GrepAlone
<1>5. CASE argument # <<>>
  <2>1. CanOpen(<<".">>)
    BY <1>2, DotFacts, FirstOpen DEF CanOpen
  <2>2. TOpen(<<".">>) /\ pc' = "grep next"
    BY <1>5, <2>1 DEF GrepOpenDir, OpenOr, Go
  <2>3. /\ ret' = 2 /\ TableTypes' /\ OnEntry(2, EntryOf(<<".">>))'
        /\ fdt'[2].position = 0
        /\ \A g \in Fds : g # 2 => fdt'[g] = fdt[g]
    BY <1>2, <2>2, FirstOpen
  <2>4. \A g \in UserFds : g >= 3 => ~IsOpen(g)'
    <3> SUFFICES ASSUME NEW g \in UserFds, g >= 3 PROVE ~IsOpen(g)'
      OBVIOUS
    <3>1. g \in Fds /\ g # 2 /\ g >= 2
      BY FdFacts
    <3>2. QED
      BY <1>2, <2>3, <3>1 DEF ClosedFrom, IsOpen
  <2>5. ClosedFrom(3)' /\ ClosedFrom(4)'
    BY <2>4, FdFacts DEF ClosedFrom
  <2>6. GrepDirInv'
    BY <1>1, <1>2, <1>5, <2>3, <2>5 DEF GrepDirInv
  <2>7. GrepFileInv'
    BY <2>2, <2>5, GrepStepsAre DEF GrepFileInv
  <2>8. GrepFoundInv'
    <3>1. found' \in PerEntry /\ \A n \in DOMAIN dir_entries : found'[n] = <<>>
      <4>1. <<>> \in Seq(Chars)
        OBVIOUS
      <4>2. QED
        BY <1>1, <1>2, <4>1 DEF PerEntry, NothingFound
    <3>2. out' = Before(found', 0)
      BY <1>1, <1>2, <3>1, PerEntryFacts
    <3>3. \A n \in DOMAIN dir_entries : ~(n < 0) /\ n # 0
      BY DirectoryFacts
    <3>4. QED
      BY <2>3, <3>1, <3>2, <3>3 DEF GrepFoundInv
  <2>9. GrepOutInv'
    BY <2>2 DEF GrepOutInv
  <2>10. GrepFinds'
    BY <2>2 DEF GrepFinds, Ended
  <2>11. QED
    BY <1>1, <1>2, <1>3, <2>2, <2>3, <2>6, <2>7, <2>8, <2>9, <2>10, GrepAlone DEF GrepGoesOn
<1>6. QED
  BY <1>4, <1>5

\* Descriptors that stay as they are stay closed.
LEMMA StayClosed ==
  ASSUME NEW lo \in Nat, NEW f, f < lo, ClosedFrom(lo),
         \A g \in Fds : g # f => fdt'[g] = fdt[g]
  PROVE  ClosedFrom(lo)'
<1> SUFFICES ASSUME NEW g \in UserFds, g >= lo PROVE ~IsOpen(g)'
  BY DEF ClosedFrom
<1>1. g \in Fds /\ g # f
  BY FdFacts
<1>2. ~IsOpen(g)
  BY DEF ClosedFrom
<1>3. QED
  BY <1>1, <1>2, SameDescriptor

LEMMA GrepNextKeepsInv ==
  ASSUME ProgramsInv, GrepNext
  PROVE  ProgramsInv'
<1>0. PICK word : word = argument
  OBVIOUS
<1> DEFINE q == fdt[2].position
           m == Len(dir_entries)
           dot == EntryOf(<<".">>)
<1>1. /\ pc = "grep next" /\ UNCHANGED shell /\ argument' = word
      /\ Read(dirfd, NameMax) /\ fname' = Got(dirfd)
      /\ IF ret' \in {-1, 0} THEN Exit(IF ret' = 0 THEN 0 ELSE 3)
         ELSE Go(IF fname'[1] = "." THEN "grep next" ELSE "grep open")
      /\ sbuf' = sbuf /\ out' = out /\ found' = found /\ stray' = stray /\ dirfd' = dirfd
      /\ last' = last /\ line_start' = line_start /\ data' = data /\ fails' = fails
  BY <1>0 DEF GrepNext, shell, sys
<1>2. pc \in GrepSteps \ {"grep"} /\ pc \in GrepSteps
  BY <1>1 DEF GrepSteps
<1>3. /\ TableTypes /\ OtherTypes /\ word # <<>>
      /\ dirfd = 2 /\ OnEntry(2, dot) /\ ClosedFrom(4) /\ ClosedFrom(3)
  BY <1>0, <1>1, <1>2 DEF ProgramsInv, GrepDirInv, GrepFileInv
<1>a. /\ found \in PerEntry /\ out = Before(found, q)
      /\ \A i \in DOMAIN dir_entries : i > q => found[i] = <<>>
      /\ \A i \in DOMAIN dir_entries :
           i <= q /\ Fit(i) => found[i] = Found(dir_entries[i], word)
  <2>1. q \in Nat
    <3>1. fdt[2] \in Descriptor
      BY <1>3, FdFacts DEF TableTypes
    <3>2. QED
      BY <3>1 DEF Descriptor
  <2>2. \A i \in DOMAIN dir_entries : i <= q => i < q \/ i = q
    BY <2>1, DirectoryFacts
  <2>3. QED
    BY <1>0, <1>1, <1>2, <2>2 DEF ProgramsInv, GrepFoundInv
<1>4. OtherTypes'
  BY <1>1, <1>3, <1>0 DEF OtherTypes
<1>5. dot.file_type = DIR /\ NameMax \in Int
  BY DotFacts, SizeAssumption
<1> HIDE DEF dot
<1>6. /\ TableTypes' /\ OnEntry(2, dot)' /\ q \in Nat /\ q <= m
      /\ \A g \in Fds : g # 2 => fdt'[g] = fdt[g]
      /\ q = m => ret' = 0 /\ fdt'[2].position = q
      /\ q # m => /\ q + 1 \in DOMAIN dir_entries
                  /\ ret' \in 1 .. NameMax
                  /\ Got(2) = dir_entries[q + 1].fname
                  /\ fdt'[2].position = q + 1
  BY <1>1, <1>3, <1>5, ReadDirFacts
<1>7. ClosedFrom(3)' /\ ClosedFrom(4)'
  <2>1. \A g \in Fds : g # 2 => fdt'[g] = fdt[g]
    BY <1>6
  <2>2. ClosedFrom(3) /\ ClosedFrom(4) /\ 3 \in Nat /\ 4 \in Nat /\ 2 < 3 /\ 2 < 4
    BY <1>3
  <2>3. \A lo \in Nat : 2 < lo /\ ClosedFrom(lo) => ClosedFrom(lo)'
    BY <2>1, StayClosed
  <2>4. QED
    BY <2>2, <2>3
<1>8. GrepDirInv'
  BY <1>1, <1>3, <1>6, <1>7 DEF GrepDirInv, dot
<1>9. \A i : Fit(i)' <=> Fit(i)
  BY <1>1 DEF Fit
<1> HIDE DEF q, m
<1>10. CASE q = m
  <2>1. pc' = "exit" /\ status' = 0
    BY <1>1, <1>6, <1>10 DEF Exit
  <2>2. pc' \notin GrepSteps /\ pc' \notin GrepGoesOn
    BY <2>1, NotFree, GrepStepsAre
  <2>3. GrepFileInv' /\ GrepFoundInv' /\ GrepOutInv'
    BY <2>2 DEF GrepFileInv, GrepFoundInv, GrepOutInv, GrepGoesOn, GrepSteps
  <2>4. out' = FlattenSeq(found')
    BY <1>1, <1>a, <1>10, PerEntryFacts DEF m
  <2>5. \A i \in DOMAIN dir_entries : Fit(i)' => found'[i] = Found(dir_entries[i], word)
    <3>1. \A i \in DOMAIN dir_entries : i <= q
      BY <1>10, DirectoryFacts DEF m
    <3>2. QED
      BY <1>1, <1>9, <1>a, <3>1
  <2>6. GrepFinds'
    BY <1>1, <1>3, <2>1, <2>4, <2>5 DEF GrepFinds
  <2>7. QED
    BY <1>1, <1>2, <1>4, <1>6, <1>8, <2>1, <2>3, <2>6, GrepAlone
<1>11. CASE q # m
  <2> DEFINE n == q + 1
             e == dir_entries[n]
  <2>1. /\ n \in DOMAIN dir_entries /\ ret' \in 1 .. NameMax
        /\ fname' = e.fname /\ fdt'[2].position = n
    BY <1>1, <1>3, <1>6, <1>11
  <2>2. n \in 1 .. Len(dir_entries) /\ n - 1 = q /\ n \in Nat /\ q \in Nat
        /\ n - 1 \in 0 .. Len(dir_entries) /\ DOMAIN dir_entries \subseteq Nat
    BY <1>6, <2>1, DirectoryFacts
  <2> HIDE DEF n
  <2>3. ret' \notin {-1, 0}
    BY <2>1
  <2>4. pc' = IF e.fname[1] = "." THEN "grep next" ELSE "grep open"
    BY <1>1, <2>1, <2>3 DEF Go
  <2>5. GrepFileInv'
    <3>1. pc' \in {"grep next", "grep open"}
      BY <2>4
    <3>2. pc' = "grep open" => e.fname[1] # "."
      BY <2>4
    <3>3. Current' = e
      BY <2>1 DEF Current
    <3>4. pc' \notin {"grep read", "grep line", "grep close"}
      BY <3>1
    <3>5. pc' \in GrepSteps \ {"grep", "grep next"} =>
            /\ fdt'[2].position \in DOMAIN dir_entries
            /\ fname' = Current'.fname /\ fname'[1] # "."
      BY <2>1, <3>1, <3>2, <3>3
    <3>6. QED
      BY <1>7, <3>4, <3>5 DEF GrepFileInv
  <2>6. GrepFoundInv'
    <3>1. out' = Before(found', n)
      <4>1. Before(found, n) = Before(found, n - 1) \o found[n] /\ Before(found, n - 1) \in Seq(Chars)
        <5>1. found \in PerEntry
          BY <1>a
        <5>2. QED
          BY <2>2, <5>1, PerEntryFacts
      <4>2. found[n] = <<>>
        BY <1>6, <1>a, <2>1, <2>2
      <4>3. Before(found, n - 1) \o <<>> = Before(found, n - 1)
        BY <4>1, ConcatEmptySeq
      <4>4. QED
        BY <1>1, <1>a, <2>2, <4>1, <4>2, <4>3
    <3>2. ASSUME NEW i \in DOMAIN dir_entries, i > n \/ (i = n /\ pc' = "grep open")
          PROVE  found'[i] = <<>>
      <4>1. i > q
        <5>1. i \in Nat /\ n \in Nat /\ q \in Nat /\ n - 1 = q
          BY <2>2
        <5>2. i > n \/ i = n
          BY <3>2
        <5>3. i > n => i > q
          BY <5>1
        <5>4. n > q
          BY <5>1
        <5>5. QED
          BY <5>2, <5>3, <5>4
      <4>2. QED
        BY <1>1, <1>a, <4>1
    <3>3. ASSUME NEW i \in DOMAIN dir_entries,
                 i < n \/ (i = n /\ pc' \in {"grep next", "grep close"}), Fit(i)'
          PROVE  found'[i] = Found(dir_entries[i], word)
      <4>1. CASE i < n
        <5>0. i \in Nat /\ n \in Nat /\ q \in Nat /\ n - 1 = q
          BY <2>2
        <5>1. i <= q
          BY <4>1, <5>0
        <5>2. QED
          BY <1>1, <1>9, <1>a, <3>3, <5>1
      <4>2. CASE i = n /\ pc' \in {"grep next", "grep close"}
        <5>1. e.fname[1] = "."
          BY <2>4, <4>2
        <5>2. Found(e, word) = <<>>
          BY <5>1 DEF Found
        <5>3. n > q
          BY <2>2
        <5>4. found[n] = <<>>
          BY <1>a, <2>1, <5>3
        <5>5. QED
          BY <1>1, <4>2, <5>2, <5>4
      <4>3. QED
        BY <3>3, <4>1, <4>2
    <3>4. QED
      BY <1>1, <1>a, <2>1, <3>1, <3>2, <3>3 DEF GrepFoundInv
  <2>a. GrepOutInv'
    BY <2>4 DEF GrepOutInv
  <2>7. pc' \in GrepGoesOn /\ pc' # "exit"
    BY <2>4 DEF GrepGoesOn
  <2>8. GrepFinds'
    BY <2>7 DEF GrepFinds, Ended
  <2>9. QED
    BY <1>1, <1>2, <1>4, <1>6, <1>8, <2>5, <2>6, <2>7, <2>8, <2>a, GrepAlone
<1>12. QED
  BY <1>10, <1>11

-----------------------------------------------------------------------------
(* grep: opening and closing.                                              *)

\* While grep is at a file, descriptor 2 stays on the directory.
LEMMA DirStays ==
  ASSUME NEW lo \in Nat, lo > 3, ClosedFrom(lo), OnEntry(2, EntryOf(<<".">>)),
         \A g \in Fds : g # 3 => fdt'[g] = fdt[g]
  PROVE  ClosedFrom(lo)' /\ OnEntry(2, EntryOf(<<".">>))' /\ fdt'[2] = fdt[2]
<1>1. fdt'[2] = fdt[2]
  BY FdFacts
<1>2. OnEntry(2, EntryOf(<<".">>))'
  BY <1>1, SameDescriptor
<1>3. 3 < lo
  OBVIOUS
<1>4. ClosedFrom(lo)'
  BY <1>3, StayClosed
<1>5. QED
  BY <1>1, <1>2, <1>4

LEMMA GrepOpenKeepsInv ==
  ASSUME ProgramsInv, GrepOpen
  PROVE  ProgramsInv'
<1>0. PICK word, name, n : word = argument /\ name = fname /\ n = fdt[2].position
  OBVIOUS
<1> DEFINE dot == EntryOf(<<".">>)
           e == dir_entries[n]
           t == content[e.inode_index]
<1>1. /\ pc = "grep open" /\ UNCHANGED shell /\ argument' = word
      /\ OpenOr(name, "grep read", 3) /\ fd' = ret' /\ last' = 0
      /\ sbuf' = sbuf /\ out' = out /\ found' = found /\ dirfd' = dirfd /\ fname' = name
      /\ line_start' = line_start /\ fails' = fails
  BY <1>0 DEF GrepOpen, shell, sys
<1>a. last' = 0 /\ argument' = word /\ sbuf' = sbuf /\ out' = out /\ line_start' = line_start
  BY <1>1, Zenon
<1>2. /\ data' \in [DIdx -> Junk]
      /\ stray' = IF data'[BufSize] = NL THEN stray \cup {fdt[dirfd].position} ELSE stray
  BY DEF GrepOpen
<1>3. pc \in GrepSteps \ {"grep"} /\ pc \in GrepSteps /\ pc \in GrepSteps \ {"grep", "grep next"}
  BY <1>1 DEF GrepSteps
<1>4. /\ TableTypes /\ OtherTypes /\ word # <<>>
      /\ dirfd = 2 /\ OnEntry(2, dot) /\ ClosedFrom(4) /\ ClosedFrom(3)
      /\ n \in DOMAIN dir_entries /\ name = e.fname /\ e.fname[1] # "."
  BY <1>0, <1>1, <1>3 DEF ProgramsInv, GrepDirInv, GrepFileInv, Current
<1>b. GrepFoundInv /\ found[n] = <<>>
  BY <1>0, <1>1, <1>3, <1>4 DEF ProgramsInv, GrepFoundInv
<1>5. EntriesOf(name) # {} /\ Least(EntriesOf(name)) = n
  BY <1>4, EntriesOfFacts
<1>6. 3 \in UserFds /\ ~IsOpen(3) /\ \A g \in UserFds : g < 3 => IsOpen(g)
  <2>1. 3 \in UserFds /\ ~IsOpen(3)
    BY <1>4, FdFacts DEF ClosedFrom
  <2>2. IsOpen(2)
    BY <1>4 DEF OnEntry
  <2>3. \A g \in UserFds : g < 3 => g = 2
    BY FdFacts
  <2>4. QED
    BY <2>1, <2>2, <2>3
<1>7. FreeUserFds # {}
  BY <1>6, FirstFree
<1>8. TOpen(name) /\ pc' = "grep read"
  BY <1>1, <1>5, <1>7 DEF OpenOr, CanOpen, Go
<1> HIDE DEF dot, e, t
<1>9. /\ ret' = 3 /\ TableTypes' /\ OnEntry(3, e)'
      /\ fdt'[3].position = 0
      /\ \A g \in Fds : g # 3 => fdt'[g] = fdt[g]
  BY <1>4, <1>5, <1>6, <1>8, OpenFacts DEF e
<1>10. ClosedFrom(4)' /\ OnEntry(2, dot)' /\ fdt'[2].position = n
  <2>1. 4 \in Nat /\ 4 > 3 /\ ClosedFrom(4) /\ OnEntry(2, EntryOf(<<".">>))
    BY <1>4 DEF dot
  <2>2. \A g \in Fds : g # 3 => fdt'[g] = fdt[g]
    BY <1>9
  <2>3. ClosedFrom(4)' /\ OnEntry(2, EntryOf(<<".">>))' /\ fdt'[2] = fdt[2]
    BY <2>1, <2>2, DirStays
  <2>4. QED
    BY <1>0, <2>3 DEF dot
<1>11. OtherTypes'
  <2>1. data' \in [DIdx -> Chars]
    BY <1>2, Characters
  <2>2. QED
    BY <1>0, <1>a, <1>4, <2>1, SizeAssumption DEF OtherTypes
<1>12. GrepDirInv'
  BY <1>1, <1>4, <1>10 DEF GrepDirInv, dot
<1>13. Current' = e
  BY <1>10 DEF Current, e
<1>14. GrepFileInv'
  <2>1. last' < BufSize
    BY <1>a, SizeAssumption
  <2>2. QED
    BY <1>1, <1>4, <1>8, <1>9, <1>10, <1>13, <2>1 DEF GrepFileInv
<1>c. GrepFoundInv'
  <2>1. stray \subseteq stray'
    BY <1>2
  <2>2. found' = found
    BY <1>1
  <2>3. QED
    BY <1>0, <1>3, <1>8, <1>10, <1>a, <1>b, <2>1, <2>2, FoundStays
<1>15. GrepOutInv'
  <2>1. e \in Entry /\ e.file_type \in {RTC, DIR, FILE}
    BY <1>4, EntryFacts, ImageAssumption DEF e
  <2>2. t \in Seq(Chars) /\ Before(Hits(e, word), 0) = <<>>
    <3>1. Hits(e, word) \in Seq(Seq(Chars)) /\ t \in Seq(Chars)
      BY <2>1, HitsFacts DEF t
    <3>2. QED
      BY <3>1, BeforeFacts
  <2>3. ASSUME e.file_type = FILE, Fit(n)' PROVE HoldsRest(t, 0, 0)'
    <3>1. last' = 0 /\ 0 <= Len(t)
      BY <1>a, <2>2
    <3>2. \A j \in 0 .. last' - 1 : FALSE
      BY <3>1
    <3>3. n \notin stray'
      BY <2>3 DEF Fit, e
    <3>4. data'[BufSize] # NL
      BY <1>0, <1>2, <1>4, <3>3
    <3>5. QED
      BY <3>1, <3>2, <3>4 DEF HoldsRest
  <2>4. AtLine(t, 0)
    BY <2>2 DEF AtLine, Starts
  <2>5. found'[n] = <<>> /\ 0 - last' = 0
    <3>1. found' = found /\ found[n] = <<>>
      BY <1>1, <1>b
    <3>2. last' = 0
      BY <1>a
    <3>3. 0 - last' = 0
      BY <3>2
    <3>4. QED
      BY <3>1, <3>3
  <2>6. pc' = "grep read"
    BY <1>8
  <2>7. (/\ e.file_type = RTC => found'[n] = <<>> /\ last' = 0
         /\ e.file_type = FILE /\ Fit(n)' =>
              /\ HoldsRest(t, 0, 0)' /\ AtLine(t, 0 - last')
              /\ found'[n] = Before(Hits(e, word), 0 - last'))
        => GrepOutInv'
    <3>1. /\ fdt'[2].position = n /\ fdt'[3].position = 0
          /\ argument' = word /\ pc' # "grep line"
      BY <1>9, <1>10, <1>a, <2>6
    <3>2. QED
      BY <1>13, <3>1, Zenon DEF GrepOutInv, t, HoldsRest, AtLine, Fit
  <2>8. QED
    BY <1>a, <2>2, <2>3, <2>4, <2>5, <2>7
<1>16. GrepFinds'
  BY <1>8 DEF GrepFinds, Ended
<1>17. QED
  BY <1>1, <1>3, <1>8, <1>9, <1>11, <1>12, <1>14, <1>15, <1>16, <1>c, GrepAlone DEF GrepGoesOn

LEMMA GrepCloseKeepsInv ==
  ASSUME ProgramsInv, GrepClose
  PROVE  ProgramsInv'
<1>1. /\ pc = "grep close" /\ pc' = "grep next" /\ TClose(fd) /\ UNCHANGED shell
      /\ argument' = argument /\ sbuf' = sbuf /\ out' = out /\ found' = found
      /\ stray' = stray /\ dirfd' = dirfd
      /\ last' = last /\ line_start' = line_start /\ data' = data /\ fails' = fails
  BY DEF GrepClose, Go, shell, locals, sys
<1>2. pc \in GrepSteps \ {"grep"} /\ pc \in GrepSteps
  BY <1>1 DEF GrepSteps
<1>3. /\ TableTypes /\ OtherTypes /\ argument # <<>> /\ fd = 3
      /\ dirfd = 2 /\ OnEntry(2, EntryOf(<<".">>)) /\ ClosedFrom(4)
      /\ GrepFoundInv
  BY <1>1, <1>2 DEF ProgramsInv, GrepDirInv, GrepFileInv
<1>4. /\ TableTypes' /\ fdt'[3].flags = 0
      /\ \A g \in Fds : g # 3 => fdt'[g] = fdt[g]
  <2>1. PICK f : f = fd
    OBVIOUS
  <2>2. TableTypes /\ TClose(f) /\ f = 3
    BY <1>1, <1>3, <2>1
  <2>3. /\ TableTypes' /\ fdt'[f].flags = 0
        /\ \A g \in Fds : g # f => fdt'[g] = fdt[g]
    BY <2>2, CloseFacts
  <2>4. QED
    BY <2>2, <2>3
<1>5. ClosedFrom(4)' /\ OnEntry(2, EntryOf(<<".">>))' /\ fdt'[2] = fdt[2]
  <2>1. 4 \in Nat /\ 4 > 3 /\ ClosedFrom(4) /\ OnEntry(2, EntryOf(<<".">>))
    BY <1>3
  <2>2. \A g \in Fds : g # 3 => fdt'[g] = fdt[g]
    BY <1>4
  <2>3. QED
    BY <2>1, <2>2, DirStays
<1>6. ClosedFrom(3)'
  <2>1. \A g \in UserFds : g >= 3 => g = 3 \/ g >= 4
    BY FdFacts
  <2>2. QED
    BY <1>4, <1>5, <2>1 DEF ClosedFrom, IsOpen
<1>7. OtherTypes'
  BY <1>1, <1>3 DEF OtherTypes
<1>8. GrepDirInv'
  BY <1>1, <1>3, <1>5 DEF GrepDirInv
<1>9. GrepFileInv'
  BY <1>1, <1>6, GrepStepsAre DEF GrepFileInv
<1>a. GrepFoundInv'
  <2>1. PICK n : n = fdt[2].position
    OBVIOUS
  <2>2. fdt'[2].position = n
    BY <1>5, <2>1
  <2>3. stray \subseteq stray'
    BY <1>1
  <2>4. QED
    BY <1>1, <1>2, <1>3, <2>1, <2>2, <2>3, FoundStays
<1>10. GrepOutInv'
  BY <1>1 DEF GrepOutInv
<1>11. GrepFinds'
  BY <1>1 DEF GrepFinds, Ended
<1>12. QED
  BY <1>1, <1>2, <1>4, <1>7, <1>8, <1>9, <1>10, <1>11, <1>a, GrepAlone DEF GrepGoesOn

-----------------------------------------------------------------------------
(* grep: reading into the buffer.                                          *)

\* A read of a clock or a file that grep has open.
LEMMA NextRead ==
  ASSUME TableTypes, NEW e \in Entry, OnEntry(3, e), e.file_type # DIR,
         NEW n \in 1 .. BufSize, Read(3, n)
  PROVE  /\ TableTypes' /\ OnEntry(3, e)'
         /\ ret' \in 0 .. n
         /\ Got(3) \in Seq(Chars) /\ Len(Got(3)) = ret'
         /\ \A g \in Fds : g # 3 => fdt'[g] = fdt[g]
         /\ e.file_type = RTC => ret' = 0
         /\ e.file_type = FILE =>
              LET t == content[e.inode_index]
                  q == fdt[3].position IN
              /\ q \in Nat /\ fdt'[3].position = q + ret' /\ q + ret' <= Len(t)
              /\ ret' = n \/ q + ret' = Len(t)
              /\ \A j \in 1 .. ret' : Got(3)[j] = t[q + j]
<1>1. e.file_type \in {RTC, DIR, FILE} /\ n \in Int /\ n \in Nat
      /\ content[e.inode_index] \in Seq(Chars)
  <2>1. e.file_type \in {RTC, DIR, FILE} /\ e.inode_index \in Inodes
    BY DEF Entry
  <2>2. n \in Int /\ n \in Nat
    BY SizeAssumption
  <2>3. QED
    BY <2>1, <2>2, ImageAssumption
<1>2. CASE e.file_type = RTC
  <2>1. TableTypes' /\ OnEntry(3, e)' /\ ret' = 0 /\ fdt' = fdt /\ Got(3) = <<>>
    BY <1>1, <1>2, ReadClockFacts
  <2>2. ret' \in 0 .. n
    BY <1>1, <2>1
  <2>3. Got(3) \in Seq(Chars) /\ Len(Got(3)) = ret'
    <3>1. <<>> \in Seq(Chars) /\ Len(<<>>) = 0
      OBVIOUS
    <3>2. QED
      BY <2>1, <3>1
  <2>4. e.file_type # FILE
    BY <1>2 DEF RTC, FILE
  <2>5. QED
    BY <2>1, <2>2, <2>3, <2>4
<1>3. CASE e.file_type = FILE
  <2> DEFINE t == content[e.inode_index]
             q == fdt[3].position
             r == ret'
  <2>1. /\ TableTypes' /\ OnEntry(3, e)'
        /\ r \in 0 .. n /\ (r = n \/ q + r = Len(t))
        /\ fdt'[3].position = q + r /\ q \in Nat
        /\ Got(3) = SubSeq(t, q + 1, q + r)
        /\ \A g \in Fds : g # 3 => fdt'[g] = fdt[g]
    BY <1>3, ReadFileFacts
  <2>2. q + r <= Len(t)
    <3>1. fdt'[3].position <= Size(e)
      BY <2>1 DEF OnEntry, Size
    <3>2. QED
      BY <3>1, <2>1, <1>3 DEF Size
  <2>3. t \in Seq(Chars) /\ Len(t) \in Nat
    BY <1>1
  <2> HIDE DEF t, q, r
  <2>4. PICK z : z = q + r
    OBVIOUS
  <2>a. z \in Nat /\ q \in Nat /\ q <= z /\ z <= Len(t) /\ z - q = r
    BY <1>1, <2>1, <2>2, <2>4
  <2>b. /\ SubSeq(t, q + 1, z) \in Seq(Chars)
        /\ Len(SubSeq(t, q + 1, z)) = z - q
        /\ \A j \in 1 .. z - q : SubSeq(t, q + 1, z)[j] = t[q + j]
    BY <2>3, <2>a, PieceFacts
  <2>5. Got(3) = SubSeq(t, q + 1, z)
    BY <2>1, <2>4
  <2>6. e.file_type # RTC
    BY <1>3 DEF RTC, FILE
  <2>7. /\ Got(3) \in Seq(Chars) /\ Len(Got(3)) = r
        /\ \A j \in 1 .. r : Got(3)[j] = t[q + j]
    BY <2>a, <2>b, <2>5
  <2>8. QED
    BY <2>1, <2>2, <2>6, <2>7 DEF t, q, r
<1>4. QED
  BY <1>1, <1>2, <1>3

\* The step reads s, which is the text from q to z, behind what is left.
Brings(t, q, z, s) ==
  /\ t \in Seq(Chars) /\ q \in Nat /\ z \in Nat /\ q <= z /\ z <= Len(t)
  /\ s \in Seq(Chars) /\ Len(s) = z - q /\ \A j \in 1 .. z - q : s[j] = t[q + j]
  /\ last \in Nat /\ last + (z - q) <= BufSize /\ last' = last + (z - q)
  /\ \A j \in DIdx : data'[j] = IF last <= j /\ j < last + Len(s)
                                THEN s[j - last + 1] ELSE data[j]

LEMMA RestGrows ==
  ASSUME NEW t, NEW q, NEW z, NEW s, Brings(t, q, z, s), HoldsRest(t, q, 0)
  PROVE  HoldsRest(t, z, 0)' /\ z - last' = q - last
<1>0. PICK r \in Nat : r = z - q
  BY DEF Brings
<1>a. /\ t \in Seq(Chars) /\ q \in Nat /\ z \in Nat /\ z = q + r /\ z <= Len(t)
      /\ s \in Seq(Chars) /\ Len(s) = r /\ \A j \in 1 .. r : s[j] = t[q + j]
      /\ last \in Nat /\ last + r <= BufSize /\ last' = last + r
      /\ \A j \in DIdx : data'[j] = IF last <= j /\ j < last + Len(s)
                                    THEN s[j - last + 1] ELSE data[j]
  BY <1>0 DEF Brings
<1>1. /\ last <= q /\ q <= Len(t)
      /\ \A j \in 0 .. last - 1 : data[j] = t[q - last + j + 1]
      /\ data[BufSize] # NL
  BY DEF HoldsRest
<1>2. last' <= z /\ z - last' = q - last /\ BufSize \in Nat /\ BufSize \in DIdx
  BY <1>1, <1>a, SizeAssumption DEF DIdx
<1>3. \A j \in 0 .. last' - 1 : j \in DIdx /\ j \in Nat
  BY <1>a, <1>2 DEF DIdx
<1>4. ASSUME NEW j \in 0 .. last' - 1 PROVE data'[j] = t[z - last' + j + 1]
  <2>1. CASE j < last
    <3>1. j \in 0 .. last - 1 /\ ~(last <= j)
      BY <1>a, <1>3, <2>1
    <3>2. data'[j] = data[j]
      BY <1>a, <1>3, <3>1
    <3>3. QED
      BY <1>1, <1>a, <1>2, <3>1, <3>2
  <2>2. CASE ~(j < last)
    <3>1. j - last + 1 \in 1 .. r /\ last <= j /\ j < last + Len(s)
          /\ q + (j - last + 1) = q - last + j + 1
      BY <1>1, <1>a, <1>3, <2>2
    <3>2. data'[j] = s[j - last + 1]
      BY <1>a, <1>3, <3>1
    <3>3. s[j - last + 1] = t[q + (j - last + 1)]
      BY <1>a, <3>1
    <3>4. QED
      BY <1>a, <1>2, <3>1, <3>2, <3>3
  <2>3. QED
    BY <2>1, <2>2
<1>5. data'[BufSize] # NL
  <2>1. ~(BufSize < last + Len(s))
    BY <1>a, <1>2
  <2>2. data'[BufSize] = data[BufSize]
    BY <1>a, <1>2, <2>1
  <2>3. QED
    BY <1>1, <2>2
<1>6. HoldsRest(t, z, 0)'
  BY <1>a, <1>2, <1>4, <1>5 DEF HoldsRest
<1>7. QED
  BY <1>a, <1>2, <1>6

LEMMA GrepReadKeepsInv ==
  ASSUME ProgramsInv, GrepRead
  PROVE  ProgramsInv'
<1>0. PICK word, n, size : word = argument /\ n = fdt[2].position /\ size = BufSize - last
  OBVIOUS
<1> DEFINE dot == EntryOf(<<".">>)
           e == dir_entries[n]
           t == content[e.inode_index]
           q == fdt[3].position
<1>1. /\ pc = "grep read" /\ UNCHANGED shell /\ argument' = word
      /\ Read(fd, size) /\ cnt' = ret' /\ line_start' = 0 /\ last' = last + ret'
      /\ data' = [j \in DIdx |-> IF last <= j /\ j < last + Len(Got(fd))
                                 THEN Got(fd)[j - last + 1] ELSE data[j]]
      /\ IF ret' = -1 THEN Exit(3) ELSE Go("grep line")
      /\ sbuf' = sbuf /\ out' = out /\ fd' = fd /\ dirfd' = dirfd /\ fname' = fname
      /\ found' = found /\ stray' = stray /\ fails' = fails
  BY <1>0 DEF GrepRead, shell, sys
<1>2. pc \in GrepSteps \ {"grep"} /\ pc \in GrepSteps /\ pc \in GrepSteps \ {"grep", "grep next"}
  BY <1>1 DEF GrepSteps
<1>3. /\ TableTypes /\ OtherTypes /\ word # <<>>
      /\ dirfd = 2 /\ OnEntry(2, dot) /\ ClosedFrom(4) /\ GrepFoundInv
      /\ n \in DOMAIN dir_entries /\ fname = e.fname /\ e.fname[1] # "."
      /\ fd = 3 /\ OnEntry(3, e) /\ last < BufSize
  BY <1>0, <1>1, <1>2 DEF ProgramsInv, GrepDirInv, GrepFileInv, Current
<1>4. /\ e.file_type = RTC => found[n] = <<>> /\ last = 0
      /\ e.file_type = FILE /\ Fit(n) =>
           /\ HoldsRest(t, q, 0) /\ AtLine(t, q - last)
           /\ found[n] = Before(Hits(e, word), q - last)
  BY <1>0, <1>1 DEF ProgramsInv, GrepOutInv, Current
<1>5. last \in 0 .. BufSize /\ last \in Nat /\ BufSize \in Nat /\ data \in [DIdx -> Chars]
  BY <1>3, SizeAssumption DEF OtherTypes
<1>6. size \in 1 .. BufSize
  BY <1>0, <1>3, <1>5
<1>7. e \in Entry /\ e.file_type \in {RTC, FILE}
  <2>1. e.file_type \in {RTC, DIR, FILE} /\ (e.file_type = DIR <=> e.fname = <<".">>)
    BY <1>3, EntryFacts
  <2>2. e.fname # <<".">>
    BY <1>3
  <2>3. QED
    BY <1>3, <2>1, <2>2, ImageAssumption
<1>8. RTC # DIR /\ FILE # DIR /\ RTC # FILE
  BY DEF RTC, DIR, FILE
<1> HIDE DEF dot, e, t
<1>9. /\ TableTypes' /\ OnEntry(3, e)'
      /\ ret' \in 0 .. size
      /\ Got(3) \in Seq(Chars) /\ Len(Got(3)) = ret'
      /\ \A g \in Fds : g # 3 => fdt'[g] = fdt[g]
      /\ e.file_type = RTC => ret' = 0
      /\ e.file_type = FILE =>
           /\ q \in Nat /\ fdt'[3].position = q + ret' /\ q + ret' <= Len(t)
           /\ ret' = size \/ q + ret' = Len(t)
           /\ \A j \in 1 .. ret' : Got(3)[j] = t[q + j]
  <2>1. Read(3, size)
    BY <1>1, <1>3
  <2>2. e.file_type # DIR
    BY <1>7, <1>8
  <2>3. QED
    BY <1>3, <1>6, <1>7, <2>1, <2>2, NextRead DEF t
<1> HIDE DEF q
<1>10. PICK r : r = ret'
  OBVIOUS
<1>11. r \in Nat /\ last + r \in 0 .. BufSize /\ ret' # -1 /\ r \in 0 .. BufSize
       /\ (r = size => last + r = BufSize)
  <2>1. r \in 0 .. size
    BY <1>9, <1>10
  <2>2. last \in Nat /\ BufSize \in Nat /\ size = BufSize - last /\ size \in Nat
    BY <1>0, <1>5, <1>6
  <2>3. r \in Nat /\ last + r \in 0 .. BufSize /\ (r = size => last + r = BufSize)
    BY <2>1, <2>2
  <2>4. r \in 0 .. BufSize /\ r # -1
    BY <2>1, <2>2
  <2>5. QED
    BY <1>10, <2>3, <2>4, Zenon
<1>a. last' = last + ret' /\ line_start' = 0 /\ cnt' = ret' /\ fd' = fd /\ dirfd' = dirfd
  BY <1>1, Zenon
<1>b. fd = 3 /\ dirfd = 2
  BY <1>3
<1>12. last' = last + r /\ line_start' = 0 /\ cnt' = r /\ fd' = 3 /\ dirfd' = 2
  BY <1>10, <1>a, <1>b
<1>c. pc' = "grep line"
  BY <1>1, <1>11 DEF Go
<1>13. ClosedFrom(4)' /\ OnEntry(2, dot)' /\ fdt'[2].position = n
  <2>1. 4 \in Nat /\ 4 > 3 /\ ClosedFrom(4) /\ OnEntry(2, EntryOf(<<".">>))
    BY <1>3 DEF dot
  <2>2. \A g \in Fds : g # 3 => fdt'[g] = fdt[g]
    BY <1>9
  <2>3. ClosedFrom(4)' /\ OnEntry(2, EntryOf(<<".">>))' /\ fdt'[2] = fdt[2]
    BY <2>1, <2>2, DirStays
  <2>4. QED
    BY <1>0, <2>3 DEF dot
<1>14. Current' = e
  BY <1>13 DEF Current, e
<1>15. data' = [j \in DIdx |-> IF last <= j /\ j < last + Len(Got(3))
                               THEN Got(3)[j - last + 1] ELSE data[j]]
  BY <1>1, <1>3
<1>16. OtherTypes'
  <2>1. ASSUME NEW j \in DIdx
        PROVE  (IF last <= j /\ j < last + Len(Got(3))
                THEN Got(3)[j - last + 1] ELSE data[j]) \in Chars
    <3>1. j \in Nat
      BY <1>5 DEF DIdx
    <3>2. last <= j /\ j < last + Len(Got(3)) => j - last + 1 \in 1 .. Len(Got(3))
      BY <1>5, <1>9, <1>10, <1>11, <3>1
    <3>3. QED
      BY <1>5, <1>9, <3>2
  <2>2. data' \in [DIdx -> Chars]
    BY <1>15, <2>1
  <2>3. sbuf' \in [SIdx -> Chars] /\ argument' \in Seq(Chars) /\ out' \in Seq(Chars)
    BY <1>0, <1>1, <1>3 DEF OtherTypes
  <2>4. QED
    BY <1>5, <1>11, <1>12, <2>2, <2>3 DEF OtherTypes
<1>17. GrepDirInv'
  BY <1>1, <1>3, <1>12, <1>13 DEF GrepDirInv, dot
<1>18. GrepFileInv'
  <2>1. line_start' <= last'
    BY <1>5, <1>11, <1>12
  <2>2. fname' = e.fname
    BY <1>1, <1>3
  <2>3. pc' \notin {"grep next", "grep open", "grep read"}
    BY <1>c
  <2>4. fdt'[2].position \in DOMAIN dir_entries /\ Current'.fname = e.fname
    BY <1>3, <1>13, <1>14
  <2>5. cnt' \in 0 .. BufSize /\ OnEntry(3, e)'
    BY <1>9, <1>11, <1>12
  <2>6. QED
    BY <1>3, <1>12, <1>14, <1>c, <2>1, <2>2, <2>3, <2>4, <2>5 DEF GrepFileInv
<1>d. GrepFoundInv'
  <2>1. pc' = "grep line" /\ stray \subseteq stray' /\ found' = found /\ out' = out
        /\ argument' = argument
    BY <1>0, <1>1, <1>c
  <2>2. QED
    BY <1>0, <1>2, <1>3, <1>13, <2>1, FoundStays
<1>19. GrepOutInv'
  <2>1. CASE e.file_type = RTC
    <3>a. found' = found /\ found[n] = <<>>
      BY <1>1, <1>4, <2>1
    <3>b. last = 0 /\ r = 0
      BY <1>4, <1>9, <1>10, <2>1
    <3>1. found'[n] = <<>> /\ last' = 0 /\ line_start' = 0 /\ cnt' = 0
      BY <1>12, <3>a, <3>b
    <3>2. Current'.file_type = RTC /\ Current'.file_type # FILE
          /\ pc' = "grep line" /\ fdt'[2].position = n
      BY <1>8, <1>13, <1>14, <1>c, <2>1
    <3>3. QED
      BY <3>1, <3>2, Zenon DEF GrepOutInv
  <2>2. CASE e.file_type = FILE /\ ~Fit(n)'
    BY <1>8, <1>13, <1>14, <1>c, <2>2 DEF GrepOutInv
  <2>3. CASE e.file_type = FILE /\ Fit(n)'
    <3>0. e.file_type = FILE /\ Fit(n)
      BY <1>1, <2>3 DEF Fit
    <3>1. HoldsRest(t, q, 0) /\ AtLine(t, q - last)
          /\ found'[n] = Before(Hits(e, word), q - last)
      BY <1>1, <1>4, <3>0
    <3>2. /\ q \in Nat /\ fdt'[3].position = q + r /\ q + r <= Len(t)
          /\ r = size \/ q + r = Len(t)
          /\ \A j \in 1 .. r : Got(3)[j] = t[q + j]
          /\ Got(3) \in Seq(Chars) /\ Len(Got(3)) = r
      BY <1>9, <1>10, <3>0
    <3>3. t \in Seq(Chars) /\ Len(t) \in Nat
      BY <1>7, HitsFacts DEF t
    <3>a. PICK z : z = q + r
      OBVIOUS
    <3>4. HoldsRest(t, z, 0)' /\ z - last' = q - last
      <4>1. PICK q0, s, u : q0 = q /\ s = Got(3) /\ u = t
        OBVIOUS
      <4>2. r = z - q0 /\ q0 \in Nat /\ z \in Nat /\ q0 <= z
        BY <1>11, <3>2, <3>a, <4>1
      <4>3. u \in Seq(Chars) /\ z <= Len(u) /\ s \in Seq(Chars) /\ Len(s) = z - q0
            /\ \A j \in 1 .. z - q0 : s[j] = u[q0 + j]
        BY <3>2, <3>3, <3>a, <4>1, <4>2
      <4>4. HoldsRest(u, q0, 0)
        BY <3>1, <4>1
      <4>5. last \in Nat /\ last + (z - q0) <= BufSize /\ last' = last + (z - q0)
        BY <1>5, <1>11, <1>12, <4>2
      <4>6. \A j \in DIdx : data'[j] = IF last <= j /\ j < last + Len(s)
                                       THEN s[j - last + 1] ELSE data[j]
        BY <1>15, <4>1
      <4>7. HoldsRest(u, z, 0)' /\ z - last' = q0 - last
        <5>1. Brings(u, q0, z, s)
          BY <4>2, <4>3, <4>5, <4>6 DEF Brings
        <5>2. QED
          BY <4>4, <5>1, RestGrows
      <4>8. QED
        BY <4>1, <4>7
    <3>5. z - last' + line_start' = q - last
      <4>1. last \in Int
        BY <1>5
      <4>2. QED
        BY <1>12, <3>2, <3>4, <4>1
    <3>6. last' = BufSize \/ z = Len(t)
      BY <3>a, <1>11, <1>12, <3>2
    <3>7. cnt' = 0 => z = Len(t)
      BY <3>a, <1>6, <1>12, <3>2
    <3>8. cnt' # 0 => last' > 0
      BY <1>5, <1>11, <1>12
    <3>b. fdt'[3].position = z /\ line_start' = 0
      BY <1>12, <3>2, <3>a
    <3>c. GrepOutInv' <=>
           (/\ HoldsRest(t, z, 0)' /\ AtLine(t, z - last' + line_start')
            /\ found'[n] = Before(Hits(e, word), z - last' + line_start')
            /\ last' = BufSize \/ z = Len(t)
            /\ cnt' = 0 => z = Len(t)
            /\ cnt' # 0 => last' > 0)
      BY <1>1, <1>8, <1>12, <1>13, <1>14, <1>c, <2>3, <3>b, Zenon
      DEF GrepOutInv, t, HoldsRest, AtLine
    <3>9. QED
      BY <3>1, <3>4, <3>5, <3>6, <3>7, <3>8, <3>c
  <2>4. QED
    BY <1>7, <2>1, <2>2, <2>3
<1>20. GrepFinds'
  BY <1>c DEF GrepFinds, Ended
<1>21. QED
  BY <1>1, <1>2, <1>9, <1>c, <1>16, <1>17, <1>18, <1>19, <1>20, <1>d, GrepAlone DEF GrepGoesOn

-----------------------------------------------------------------------------
(* grep: the strings in the buffer.                                        *)

LEMMA BufferFacts ==
  ASSUME OtherTypes, line_start <= last
  PROVE  /\ BufSize \in Nat /\ last \in Nat /\ line_start \in Nat /\ last <= BufSize
         /\ LineEnd \in line_start .. last /\ LineEnd \in Nat /\ LineEnd \in DIdx
         /\ \A j \in line_start .. LineEnd - 1 : data[j] # NL
         /\ LineEnd < last => data[LineEnd] = NL
         /\ Marked \in [DIdx -> Chars] /\ Marked[LineEnd] = NUL
         /\ \A j \in DIdx : j # LineEnd => Marked[j] = data[j]
<1> DEFINE S == {j \in DIdx : data[j] = NL}
<1>1. /\ BufSize \in Nat /\ last \in Nat /\ line_start \in Nat /\ last <= BufSize
      /\ data \in [DIdx -> Chars]
  BY SizeAssumption DEF OtherTypes
<1>2. /\ Find(line_start, last, S) \in line_start .. last
      /\ \A x \in line_start .. Find(line_start, last, S) - 1 : x \notin S
      /\ Find(line_start, last, S) < last => Find(line_start, last, S) \in S
  <2> HIDE DEF S
  <2>1. QED
    BY <1>1, FindFacts
<1>3. LineEnd = Find(line_start, last, S)
  BY DEF LineEnd
<1> HIDE DEF S
<1>4. LineEnd \in line_start .. last /\ LineEnd \in Nat /\ LineEnd \in DIdx
  BY <1>1, <1>2, <1>3 DEF DIdx
<1>5. ASSUME NEW j \in line_start .. LineEnd - 1 PROVE data[j] # NL
  <2>1. j \in DIdx /\ j \notin S
    BY <1>1, <1>2, <1>3, <1>4, <1>5 DEF DIdx
  <2>2. QED
    BY <2>1 DEF S
<1>6. LineEnd < last => data[LineEnd] = NL
  BY <1>2, <1>3 DEF S
<1>7. /\ Marked \in [DIdx -> Chars] /\ Marked[LineEnd] = NUL
      /\ \A j \in DIdx : j # LineEnd => Marked[j] = data[j]
  BY <1>1, <1>4, Characters DEF Marked
<1>8. QED
  BY <1>1, <1>4, <1>5, <1>6, <1>7

\* The strings in the buffer.
LEMMA StringFacts ==
  ASSUME OtherTypes, line_start <= last, NEW j \in 0 .. BufSize
  PROVE  /\ StringAt(j) \in Seq(Chars)
         /\ j <= LineEnd /\ (\A x \in j .. LineEnd - 1 : data[x] # NUL) =>
              /\ Len(StringAt(j)) = LineEnd - j
              /\ \A n \in 1 .. LineEnd - j : StringAt(j)[n] = data[j + n - 1]
<1> DEFINE S == {x \in DIdx : Marked[x] = NUL}
           end == Find(j, BufSize, S)
<1>1. /\ BufSize \in Nat /\ j \in Nat /\ j <= BufSize
      /\ LineEnd \in Nat /\ LineEnd \in DIdx /\ LineEnd <= BufSize
      /\ Marked \in [DIdx -> Chars] /\ Marked[LineEnd] = NUL
      /\ \A x \in DIdx : x # LineEnd => Marked[x] = data[x]
  BY BufferFacts DEF DIdx
<1>2. end \in j .. BufSize
  <2> HIDE DEF S
  <2>1. QED
    BY <1>1, FindFacts
<1>3. StringAt(j) = [n \in 1 .. end - j |-> Marked[j + n - 1]]
  BY DEF StringAt
<1> HIDE DEF end
<1>4. end - j \in Nat
  BY <1>1, <1>2
<1>5. ASSUME NEW n \in 1 .. end - j PROVE j + n - 1 \in DIdx /\ Marked[j + n - 1] \in Chars
  <2>1. j + n - 1 \in DIdx
    BY <1>1, <1>2 DEF DIdx
  <2>2. QED
    BY <1>1, <2>1
<1>6. StringAt(j) \in [1 .. end - j -> Chars]
  BY <1>3, <1>5
<1>7. StringAt(j) \in Seq(Chars) /\ Len(StringAt(j)) = end - j
  BY <1>4, <1>6, SeqDef
<1>8. ASSUME j <= LineEnd, \A x \in j .. LineEnd - 1 : data[x] # NUL
      PROVE  end = LineEnd
  <2>1. LineEnd \in j .. BufSize
    BY <1>1, <1>8
  <2>2. \A x \in j .. LineEnd - 1 : x \notin S
    <3> SUFFICES ASSUME NEW x \in j .. LineEnd - 1 PROVE Marked[x] # NUL
      OBVIOUS
    <3>1. x \in DIdx /\ x # LineEnd /\ data[x] # NUL
      BY <1>1, <1>8 DEF DIdx
    <3>2. QED
      BY <1>1, <3>1
  <2>3. LineEnd < BufSize => LineEnd \in S
    BY <1>1
  <2> HIDE DEF S
  <2>4. PICK m : m = LineEnd
    OBVIOUS
  <2>5. Find(j, BufSize, S) = m
    BY <1>1, <2>1, <2>2, <2>3, <2>4, FindIs
  <2>6. QED
    BY <2>4, <2>5 DEF end
<1>9. ASSUME j <= LineEnd, \A x \in j .. LineEnd - 1 : data[x] # NUL,
             NEW n \in 1 .. LineEnd - j
      PROVE  StringAt(j)[n] = data[j + n - 1]
  <2>1. end = LineEnd
    BY <1>8, <1>9
  <2>2. StringAt(j)[n] = Marked[j + n - 1]
    BY <1>3, <2>1
  <2>3. j + n - 1 \in DIdx /\ j + n - 1 # LineEnd
    BY <1>1, <1>9 DEF DIdx
  <2>4. QED
    BY <1>1, <2>2, <2>3
<1>10. QED
  BY <1>7, <1>8, <1>9

\* Where the rest of the buffer is in text t.
From(q) == q - last + line_start
To(q) == q - last + LineEnd

\* The rest of the buffer as text.
LEMMA RestIs ==
  ASSUME OtherTypes, line_start <= last, NEW t \in Seq(Chars), NEW q \in Nat,
         NUL \notin Range(t), HoldsRest(t, q, line_start)
  PROVE  /\ From(q) \in Nat /\ To(q) \in Nat /\ From(q) <= To(q) /\ To(q) <= q /\ q <= Len(t)
         /\ \A x \in From(q) + 1 .. To(q) : t[x] # NL
         /\ LineEnd < last => To(q) < q /\ t[To(q) + 1] = NL
         /\ last = BufSize => data[last] # NL
         /\ \A x \in line_start .. LineEnd - 1 : data[x] # NUL
         /\ \A j \in line_start .. LineEnd : StringAt(j) = SubSeq(t, q - last + j + 1, To(q))
<1> DEFINE b == q - last
<1>1. /\ BufSize \in Nat /\ last \in Nat /\ line_start \in Nat /\ last <= BufSize
      /\ LineEnd \in line_start .. last /\ LineEnd \in Nat /\ LineEnd \in DIdx
      /\ \A j \in line_start .. LineEnd - 1 : data[j] # NL
      /\ LineEnd < last => data[LineEnd] = NL
  BY BufferFacts
<1>2. /\ last <= q /\ q <= Len(t)
      /\ \A j \in line_start .. last - 1 : data[j] = t[b + j + 1]
      /\ data[BufSize] # NL
  BY DEF HoldsRest
<1>3. b \in Nat /\ b + last = q /\ Len(t) \in Nat /\ DOMAIN t = 1 .. Len(t)
  BY <1>1, <1>2
<1>4. From(q) = b + line_start /\ To(q) = b + LineEnd
  BY DEF From, To
<1> HIDE DEF b
<1>5. /\ From(q) \in Nat /\ To(q) \in Nat /\ From(q) <= To(q) /\ To(q) <= q
      /\ (LineEnd < last => To(q) < q)
  BY <1>1, <1>3, <1>4
<1>6. ASSUME NEW x \in From(q) + 1 .. To(q) PROVE t[x] # NL
  <2>1. PICK j : j = x - b - 1
    OBVIOUS
  <2>2. j \in line_start .. LineEnd - 1 /\ j \in line_start .. last - 1 /\ b + j + 1 = x
    BY <1>1, <1>3, <1>4, <2>1
  <2>3. QED
    BY <1>1, <1>2, <2>2
<1>7. LineEnd < last => t[To(q) + 1] = NL
  BY <1>1, <1>2, <1>4
<1>8. last = BufSize => data[last] # NL
  BY <1>2
<1>9. ASSUME NEW x \in line_start .. LineEnd - 1 PROVE data[x] # NUL
  <2>1. x \in line_start .. last - 1 /\ b + x + 1 \in 1 .. Len(t)
    BY <1>1, <1>2, <1>3
  <2>2. t[b + x + 1] \in Range(t)
    BY <1>3, <2>1 DEF Range
  <2>3. QED
    BY <1>2, <2>1, <2>2
<1>10. ASSUME NEW j \in line_start .. LineEnd
       PROVE  StringAt(j) = SubSeq(t, b + j + 1, To(q))
  <2> DEFINE u == StringAt(j)
             lo == b + j
             hi == To(q)
  <2>1. j \in 0 .. BufSize /\ j <= LineEnd /\ \A x \in j .. LineEnd - 1 : data[x] # NUL
    BY <1>1, <1>9
  <2>2. /\ u \in Seq(Chars) /\ Len(u) = LineEnd - j
        /\ \A n \in 1 .. LineEnd - j : u[n] = data[j + n - 1]
    BY <2>1, StringFacts
  <2>3. lo \in Nat /\ hi \in Nat /\ lo <= hi /\ hi <= Len(t) /\ hi - lo = LineEnd - j
    BY <1>1, <1>2, <1>3, <1>4, <1>5
  <2> HIDE DEF u, lo, hi
  <2>4. /\ SubSeq(t, lo + 1, hi) \in Seq(Chars) /\ Len(SubSeq(t, lo + 1, hi)) = hi - lo
        /\ \A n \in 1 .. hi - lo : SubSeq(t, lo + 1, hi)[n] = t[lo + n]
    BY <2>3, PieceFacts
  <2>5. ASSUME NEW n \in 1 .. LineEnd - j PROVE u[n] = SubSeq(t, lo + 1, hi)[n]
    <3>1. j + n - 1 \in line_start .. last - 1 /\ b + (j + n - 1) + 1 = lo + n
      BY <1>1, <1>3 DEF lo
    <3>2. data[j + n - 1] = t[b + (j + n - 1) + 1]
      BY <1>2, <3>1
    <3>3. n \in 1 .. hi - lo
      BY <2>3
    <3>4. QED
      BY <2>2, <2>4, <3>1, <3>2, <3>3
  <2>6. u = SubSeq(t, lo + 1, hi)
    BY <2>2, <2>3, <2>4, <2>5, SeqEqual
  <2>7. QED
    BY <2>6 DEF u, lo, hi
<1>11. QED
  BY <1>2, <1>5, <1>6, <1>7, <1>8, <1>9, <1>10 DEF b

\* A hit is a line with the word in it.
LEMMA HitIs ==
  ASSUME OtherTypes, line_start <= last, NEW t \in Seq(Chars), NEW q \in Nat,
         NUL \notin Range(t), HoldsRest(t, q, line_start)
  PROVE  Hit <=> HasWord(SubSeq(t, From(q) + 1, To(q)), argument)
<1> DEFINE b == q - last
           s == From(q)
           z == To(q)
           w == SubSeq(t, s + 1, z)
<1>1. /\ s \in Nat /\ z \in Nat /\ s <= z /\ z <= q /\ q <= Len(t)
      /\ \A j \in line_start .. LineEnd : StringAt(j) = SubSeq(t, b + j + 1, z)
  BY RestIs
<1>2. line_start \in Nat /\ LineEnd \in Nat /\ last \in Nat /\ line_start <= LineEnd
  BY BufferFacts
<1>3. b \in Int /\ s = b + line_start /\ z = b + LineEnd
  BY <1>2 DEF From, To
<1>4. z <= Len(t) /\ Len(t) \in Nat
  BY <1>1
<1> HIDE DEF b, s, z
<1>5. /\ w \in Seq(Chars) /\ Len(w) = z - s
      /\ \A j \in 1 .. z - s : w[j] = t[s + j]
  BY <1>1, <1>4, PieceFacts
<1>6. DOMAIN w = 1 .. z - s
  BY <1>5
<1> HIDE DEF w
<1>7. ASSUME NEW j \in 1 .. z - s PROVE SubSeq(w, j, Len(w)) = SubSeq(t, s + j, z)
  <2> DEFINE u == SubSeq(w, j, z - s)
             lo == s + j - 1
             v == SubSeq(t, lo + 1, z)
  <2>1. j - 1 \in Nat /\ z - s \in Nat /\ j - 1 <= z - s /\ z - s <= Len(w) /\ j - 1 + 1 = j
    BY <1>1, <1>5
  <2>2. /\ u \in Seq(Chars) /\ Len(u) = z - s - (j - 1)
        /\ \A n \in 1 .. z - s - (j - 1) : u[n] = w[j - 1 + n]
    <3>1. PICK i : i = j - 1
      OBVIOUS
    <3>2. PICK h : h = z - s
      OBVIOUS
    <3>3. i \in Nat /\ h \in Nat /\ i <= h /\ h <= Len(w) /\ i + 1 = j
      BY <2>1, <3>1, <3>2
    <3>4. /\ SubSeq(w, i + 1, h) \in Seq(Chars) /\ Len(SubSeq(w, i + 1, h)) = h - i
          /\ \A n \in 1 .. h - i : SubSeq(w, i + 1, h)[n] = w[i + n]
      BY <1>5, <3>3, PieceFacts
    <3>5. QED
      BY <3>1, <3>2, <3>3, <3>4
  <2>3. lo \in Nat /\ lo <= z /\ lo + 1 = s + j /\ z - lo = z - s - (j - 1)
    BY <1>1
  <2> HIDE DEF lo, u
  <2>4. /\ v \in Seq(Chars) /\ Len(v) = z - lo
        /\ \A n \in 1 .. z - lo : v[n] = t[lo + n]
    BY <1>1, <1>4, <2>3, PieceFacts
  <2> HIDE DEF v
  <2>5. ASSUME NEW n \in 1 .. z - lo PROVE u[n] = v[n]
    <3>1. j - 1 + n \in 1 .. z - s /\ s + (j - 1 + n) = lo + n
      BY <1>1, <2>3 DEF lo
    <3>2. w[j - 1 + n] = t[s + (j - 1 + n)]
      BY <1>5, <3>1
    <3>3. u[n] = w[j - 1 + n]
      BY <2>2, <2>3
    <3>4. QED
      BY <2>4, <3>1, <3>2, <3>3
  <2>6. u = v
    BY <2>2, <2>3, <2>4, <2>5, SeqEqual
  <2>7. QED
    BY <1>5, <2>3, <2>6 DEF u, v
<1>8. ASSUME Hit PROVE HasWord(w, argument)
  <2>1. PICK check \in line_start .. LineEnd - 1 : IsPrefix(argument, StringAt(check))
    BY <1>8 DEF Hit
  <2>2. PICK j : j = check - line_start + 1
    OBVIOUS
  <2>3. j \in 1 .. z - s /\ check \in line_start .. LineEnd /\ s + j = b + check + 1
    BY <1>2, <1>3, <2>2
  <2>4. StringAt(check) = SubSeq(w, j, Len(w))
    BY <1>1, <1>7, <2>3
  <2>5. QED
    BY <1>6, <2>1, <2>3, <2>4 DEF HasWord
<1>9. ASSUME HasWord(w, argument) PROVE Hit
  <2>1. PICK j \in 1 .. z - s : IsPrefix(argument, SubSeq(w, j, Len(w)))
    BY <1>6, <1>9 DEF HasWord
  <2>2. PICK check : check = line_start + j - 1
    OBVIOUS
  <2>3. /\ check \in line_start .. LineEnd - 1 /\ check \in line_start .. LineEnd
        /\ s + j = b + check + 1
    BY <1>2, <1>3, <2>2
  <2>4. StringAt(check) = SubSeq(w, j, Len(w))
    BY <1>1, <1>7, <2>3
  <2>5. QED
    BY <2>1, <2>3, <2>4 DEF Hit
<1>10. QED
  BY <1>8, <1>9 DEF w, s, z

LEMMA EntryType == \A n \in DOMAIN dir_entries : dir_entries[n] \in Entry
BY ImageAssumption

\* Where grep is when it looks at a line.
LEMMA AtALine ==
  ASSUME ProgramsInv, pc = "grep line"
  PROVE  LET n == fdt[2].position
             e == dir_entries[n]
             t == content[e.inode_index]
             q == fdt[3].position IN
         /\ TableTypes /\ OtherTypes /\ argument # <<>> /\ GrepFoundInv
         /\ found \in PerEntry /\ out = Before(found, n)
         /\ dirfd = 2 /\ OnEntry(2, EntryOf(<<".">>)) /\ ClosedFrom(4)
         /\ n \in DOMAIN dir_entries /\ fname = e.fname /\ e.fname[1] # "."
         /\ fd = 3 /\ OnEntry(3, e) /\ line_start <= last /\ cnt \in 0 .. BufSize
         /\ e \in Entry /\ e.file_type \in {RTC, FILE} /\ t \in Seq(Chars) /\ q \in Nat
         /\ e.file_type = RTC =>
              /\ found[n] = <<>> /\ last = 0 /\ line_start = 0 /\ cnt = 0
         /\ e.file_type = FILE /\ Fit(n) =>
              /\ NUL \notin Range(t) /\ Plain(t)
              /\ HoldsRest(t, q, line_start) /\ AtLine(t, From(q))
              /\ found[n] = Before(Hits(e, argument), From(q))
              /\ last = BufSize \/ q = Len(t)
              /\ cnt = 0 => q = Len(t)
              /\ cnt # 0 => last > 0
<1> DEFINE n == fdt[2].position
           e == dir_entries[n]
           t == content[e.inode_index]
           q == fdt[3].position
<1>1. pc \in GrepSteps \ {"grep"} /\ pc \in GrepSteps \ {"grep", "grep next"}
  BY DEF GrepSteps
<1>2. /\ TableTypes /\ OtherTypes /\ argument # <<>>
      /\ dirfd = 2 /\ OnEntry(2, EntryOf(<<".">>)) /\ ClosedFrom(4)
      /\ n \in DOMAIN dir_entries /\ fname = e.fname /\ e.fname[1] # "."
      /\ fd = 3 /\ OnEntry(3, e) /\ line_start <= last /\ cnt \in 0 .. BufSize
  BY <1>1 DEF ProgramsInv, GrepDirInv, GrepFileInv, Current
<1>8. GrepFoundInv /\ found \in PerEntry /\ out = Before(found, n)
  BY <1>1 DEF ProgramsInv, GrepFoundInv
<1>3. e \in Entry /\ e.file_type \in {RTC, FILE} /\ t \in Seq(Chars) /\ e.inode_index \in Inodes
  <2>0. PICK m : m = n
    OBVIOUS
  <2> DEFINE d == dir_entries[m]
  <2>1. m \in DOMAIN dir_entries /\ d.fname[1] # "."
    BY <1>2, <2>0
  <2>2. /\ d.file_type \in {RTC, DIR, FILE} /\ (d.file_type = DIR <=> d.fname = <<".">>)
        /\ content[d.inode_index] \in Seq(Chars) /\ d.inode_index \in Inodes
    BY <2>1, EntryFacts
  <2>3. d.fname # <<".">>
    <3>1. <<".">>[1] = "."
      OBVIOUS
    <3>2. d.fname = <<".">> => d.fname[1] = <<".">>[1]
      BY Zenon
    <3>3. QED
      BY <2>1, <3>1, <3>2, Zenon
  <2>4. d \in Entry /\ d.file_type \in {RTC, FILE}
    <3>1. d \in Entry
      BY <2>1, EntryType
    <3>2. QED
      BY <2>2, <2>3, <3>1
  <2>5. QED
    BY <2>0, <2>2, <2>4
<1>4. q \in Nat
  <2>1. fdt[3] \in Descriptor
    BY <1>2, FdFacts DEF TableTypes
  <2>2. QED
    BY <2>1 DEF Descriptor
<1>5. /\ e.file_type = RTC =>
           /\ found[n] = <<>> /\ last = 0 /\ line_start = 0 /\ cnt = 0
      /\ e.file_type = FILE /\ Fit(n) =>
           /\ HoldsRest(t, q, line_start) /\ AtLine(t, From(q))
           /\ found[n] = Before(Hits(e, argument), From(q))
           /\ last = BufSize \/ q = Len(t)
           /\ cnt = 0 => q = Len(t)
           /\ cnt # 0 => last > 0
  <2>1. GrepOutInv
    BY DEF ProgramsInv
  <2>2. QED
    BY <2>1 DEF GrepOutInv, Current, From
<1>6. e.file_type = FILE /\ Fit(n) => NUL \notin Range(t) /\ Plain(t)
  BY DEF Fit, Plain
<1>7. QED
  BY <1>2, <1>3, <1>4, <1>5, <1>6, <1>8

\* A line, or moving its rest, changes only what is in the buffer.
LEMMA BufferStep ==
  ASSUME ProgramsInv, pc = "grep line",
         UNCHANGED <<tVars, shell, fd, dirfd, fname, cnt, stray, sys>>,
         OtherTypes', pc' \in {"grep line", "grep read", "grep close"},
         pc' = "grep read" => last' < BufSize,
         pc' = "grep line" => line_start' <= last',
         GrepFoundInv', GrepOutInv'
  PROVE  ProgramsInv'
<1>1. /\ fdt' = fdt /\ ret' = ret /\ argument' = argument /\ fd' = fd /\ dirfd' = dirfd
      /\ fname' = fname /\ cnt' = cnt /\ fails' = fails
  BY DEF tVars, shell, sys
<1>2. /\ TableTypes /\ argument # <<>>
      /\ dirfd = 2 /\ OnEntry(2, EntryOf(<<".">>)) /\ ClosedFrom(4)
      /\ fdt[2].position \in DOMAIN dir_entries /\ fname = Current.fname /\ fname[1] # "."
      /\ fd = 3 /\ OnEntry(3, Current) /\ cnt \in 0 .. BufSize
  BY AtALine DEF Current
<1>3. TableTypes'
  BY <1>1, <1>2 DEF TableTypes
<1>4. \A f, e : OnEntry(f, e) => OnEntry(f, e)'
  BY <1>1 DEF OnEntry, IsOpen, Size
<1>5. Current' = Current /\ ClosedFrom(4)'
  BY <1>1, <1>2 DEF Current, ClosedFrom, IsOpen
<1>6. OnEntry(2, EntryOf(<<".">>))'
  BY <1>2, <1>4
<1>7. OnEntry(3, Current)'
  BY <1>1, <1>2, <1>5 DEF OnEntry, IsOpen, Size
<1>8. GrepDirInv'
  BY <1>1, <1>2, <1>5, <1>6 DEF GrepDirInv
<1>9. pc' \notin {"grep next", "grep open"} /\ pc' \in GrepGoesOn /\ pc' # "exit"
  BY DEF GrepGoesOn
<1>10. GrepFileInv'
  BY <1>1, <1>2, <1>5, <1>7, <1>9 DEF GrepFileInv
<1>11. GrepFinds'
  BY <1>9 DEF GrepFinds, Ended
<1>12. pc \in GrepSteps
  BY DEF GrepSteps
<1>13. QED
  BY <1>1, <1>3, <1>8, <1>9, <1>10, <1>11, <1>12, GrepAlone

LEMMA GrepShiftKeepsInv ==
  ASSUME ProgramsInv, GrepShift
  PROVE  ProgramsInv'
<1> DEFINE u == StringAt(line_start)
<1>1. /\ pc = "grep line" /\ pc' = "grep read"
      /\ UNCHANGED <<tVars, shell, fd, dirfd, fname, cnt, stray, sys>>
  BY DEF GrepShift, Go
<1>2. Shifted
  BY DEF GrepShift
<1>3. /\ data' = [j \in DIdx |-> IF j < Len(u) THEN u[j + 1]
                                 ELSE IF j = Len(u) THEN NUL ELSE Marked[j]]
      /\ last' = last - line_start /\ line_start' = line_start /\ out' = out
      /\ found' = found
  BY DEF GrepShift
<1>4. /\ sbuf' = sbuf /\ argument' = argument /\ stray' = stray /\ cnt' = cnt /\ fdt' = fdt
  BY <1>1 DEF shell, tVars
<1>5. OtherTypes /\ line_start <= last
  BY <1>1, AtALine
<1>6. /\ BufSize \in Nat /\ last \in Nat /\ line_start \in Nat /\ last <= BufSize
      /\ LineEnd \in line_start .. last /\ LineEnd \in Nat /\ LineEnd \in DIdx
      /\ LineEnd < last => data[LineEnd] = NL
      /\ Marked \in [DIdx -> Chars]
      /\ \A j \in DIdx : j # LineEnd => Marked[j] = data[j]
  BY <1>5, BufferFacts
<1>7. u \in Seq(Chars) /\ Len(u) \in Nat
  <2>1. line_start \in 0 .. BufSize
    BY <1>5, <1>6
  <2>2. u \in Seq(Chars)
    BY <1>5, <2>1, StringFacts
  <2>3. QED
    BY <2>2
<1>8. line_start # 0 /\ cnt # 0 /\ data[LineEnd] # NL
  BY <1>2 DEF Shifted
<1>9. LineEnd = last
  BY <1>6, <1>8
<1> HIDE DEF u
<1>10. OtherTypes'
  <2>1. ASSUME NEW j \in DIdx
        PROVE  (IF j < Len(u) THEN u[j + 1]
                ELSE IF j = Len(u) THEN NUL ELSE Marked[j]) \in Chars
    <3>1. j \in Nat /\ (j < Len(u) => j + 1 \in 1 .. Len(u))
      BY <1>6, <1>7 DEF DIdx
    <3>2. QED
      BY <1>6, <1>7, <3>1, Characters
  <2>2. data' \in [DIdx -> Chars]
    BY <1>3, <2>1
  <2>3. last' \in 0 .. BufSize
    BY <1>3, <1>5, <1>6
  <2>4. QED
    BY <1>3, <1>4, <1>5, <2>2, <2>3 DEF OtherTypes
<1>11. last' < BufSize
  BY <1>3, <1>5, <1>6, <1>8
<1>a. GrepFoundInv'
  <2>1. PICK n : n = fdt[2].position
    OBVIOUS
  <2>2. GrepFoundInv /\ pc \in GrepSteps \ {"grep"}
    BY <1>1, AtALine DEF GrepSteps
  <2>3. fdt'[2].position = n /\ stray \subseteq stray'
    BY <1>4, <2>1
  <2>4. QED
    BY <1>1, <1>3, <1>4, <2>1, <2>2, <2>3, FoundStays
<1>12. GrepOutInv'
  <2>1. PICK n, q, word : n = fdt[2].position /\ q = fdt[3].position /\ word = argument
    OBVIOUS
  <2> DEFINE e == dir_entries[n]
             t == content[e.inode_index]
  <2>2. /\ e \in Entry /\ e.file_type \in {RTC, FILE} /\ t \in Seq(Chars) /\ q \in Nat
        /\ e.file_type = RTC => cnt = 0
        /\ e.file_type = FILE /\ Fit(n) =>
             /\ NUL \notin Range(t)
             /\ HoldsRest(t, q, line_start) /\ AtLine(t, From(q))
             /\ found[n] = Before(Hits(e, word), From(q))
    BY <1>1, <2>1, AtALine
  <2>3. Current' = e
    BY <1>4, <2>1 DEF Current
  <2> HIDE DEF e, t
  <2>4. e.file_type = FILE /\ e.file_type # RTC
    BY <1>8, <2>2 DEF RTC, FILE
  <2> SUFFICES ASSUME Fit(n)' PROVE GrepOutInv'
    BY <1>1, <1>4, <2>1, <2>3, <2>4 DEF GrepOutInv
  <2>0. Fit(n)
    BY <1>4 DEF Fit
  <2>5. /\ HoldsRest(t, q, line_start) /\ AtLine(t, From(q)) /\ NUL \notin Range(t)
        /\ found[n] = Before(Hits(e, word), From(q))
    BY <2>0, <2>2, <2>4
  <2>6. /\ last <= q /\ q <= Len(t)
        /\ \A j \in line_start .. last - 1 : data[j] = t[q - last + j + 1]
        /\ data[BufSize] # NL
    BY <2>5 DEF HoldsRest
  <2>7. \A x \in line_start .. LineEnd - 1 : data[x] # NUL
    BY <1>5, <2>2, <2>5, RestIs
  <2>8. /\ Len(u) = last - line_start
        /\ \A j \in 1 .. last - line_start : u[j] = data[line_start + j - 1]
    <3>1. line_start \in 0 .. BufSize /\ line_start <= LineEnd
      BY <1>5, <1>6
    <3>2. /\ Len(u) = LineEnd - line_start
          /\ \A j \in 1 .. LineEnd - line_start : u[j] = data[line_start + j - 1]
      BY <1>5, <2>7, <3>1, StringFacts DEF u
    <3>3. QED
      BY <1>9, <3>2
  <2>a. PICK rest : rest = last'
    OBVIOUS
  <2>b. last' = last - line_start
    BY <1>3, Zenon
  <2>9. /\ Len(u) = rest /\ rest \in Nat /\ q - rest = From(q) /\ q - last' = From(q)
        /\ rest = last - line_start
    BY <2>a, <2>b, <1>5, <1>6, <2>2, <2>8 DEF From
  <2>10. HoldsRest(t, q, 0)'
    <3>0. rest = last - line_start /\ line_start <= last
      BY <1>5, <2>9
    <3>1. rest <= q
      BY <1>6, <2>2, <2>6, <3>0
    <3>2. ASSUME NEW j \in 0 .. rest - 1 PROVE data'[j] = t[q - rest + j + 1]
      <4>1. j \in DIdx /\ j < Len(u) /\ j + 1 \in 1 .. last - line_start
        BY <1>6, <2>9, <3>0 DEF DIdx
      <4>2. data'[j] = u[j + 1]
        BY <1>3, <4>1
      <4>3. line_start + (j + 1) - 1 \in line_start .. last - 1
            /\ q - last + (line_start + (j + 1) - 1) + 1 = q - rest + j + 1
        BY <1>6, <2>2, <3>0
      <4>4. u[j + 1] = data[line_start + (j + 1) - 1]
        BY <2>8, <4>1
      <4>5. QED
        BY <2>6, <4>2, <4>3, <4>4
    <3>3. data'[BufSize] # NL
      <4>1. BufSize \in DIdx /\ ~(BufSize < Len(u)) /\ BufSize # Len(u)
        BY <1>6, <1>8, <2>9, <3>0 DEF DIdx
      <4>2. data'[BufSize] = Marked[BufSize]
        BY <1>3, <4>1
      <4>3. Marked[LineEnd] = NUL
        BY <1>5, BufferFacts
      <4>4. NUL # NL
        BY Characters
      <4>5. QED
        BY <1>6, <2>6, <4>1, <4>2, <4>3, <4>4
    <3>4. QED
      BY <2>6, <2>a, <3>1, <3>2, <3>3 DEF HoldsRest
  <2>11. GrepOutInv' <=>
          (/\ HoldsRest(t, q, 0)' /\ AtLine(t, q - last')
           /\ found'[n] = Before(Hits(e, word), q - last'))
    BY <1>1, <1>4, <2>1, <2>3, <2>4, Zenon DEF GrepOutInv, t, HoldsRest, AtLine
  <2>12. QED
    BY <1>3, <2>5, <2>9, <2>10, <2>11
<1>13. QED
  BY <1>1, <1>10, <1>11, <1>12, <1>a, BufferStep

-----------------------------------------------------------------------------
(* grep: looking at a line.                                                *)

\* A line of plain text that fills a buffer ends behind it.
LEMMA FullBuffer ==
  ASSUME NEW t \in Seq(Chars), Plain(t), NEW s \in Nat, NEW z \in Nat,
         s + BufSize <= z, z <= Len(t), \A x \in s + 1 .. z : t[x] # NL, AtLine(t, s)
  PROVE  z = Len(t) \/ t[z + 1] = NL
<1> SUFFICES ASSUME z < Len(t), t[z + 1] # NL PROVE FALSE
  OBVIOUS
<1>1. Len(t) \in Nat /\ DOMAIN t = 1 .. Len(t) /\ BufSize \in Nat /\ BufSize >= 1
  BY SizeAssumption
<1>a. PICK n \in Nat, m \in Nat : n = Len(t) /\ m = BufSize /\ m >= 1
  BY <1>1
<1>b. s + m <= z /\ z < n
  BY <1>a
<1>c. s < z
  BY <1>a, <1>b
<1>2. s < z /\ s + 1 \in s + 1 .. z /\ s \in 0 .. Len(t) /\ s # Len(t)
  <2>1. s + 1 \in s + 1 .. z /\ s \in 0 .. n /\ s # n
    BY <1>b, <1>c
  <2>2. QED
    BY <1>a, <1>c, <2>1
<1>3. s \in Starts(t)
  BY <1>2 DEF AtLine
<1> DEFINE S == Starts(t)
           f == Find(s + 1, Len(t) + 1, S)
<1>4. \A x \in s + 1 .. z + 1 : x \notin S
  <2> SUFFICES ASSUME NEW x \in s + 1 .. z + 1 PROVE x # 0 /\ t[x] # NL
    BY DEF Starts
  <2>1. x \in s + 1 .. z \/ x = z + 1
    BY <1>2
  <2>2. QED
    BY <2>1
<1>5. f \in s + 1 .. Len(t) + 1 /\ (f < Len(t) + 1 => f \in S)
  <2> HIDE DEF S
  <2>1. PICK lo, hi : lo = s + 1 /\ hi = Len(t) + 1
    OBVIOUS
  <2>2. lo \in Nat /\ hi \in Nat /\ lo <= hi
    <3>1. hi = n + 1
      BY <1>a, <2>1
    <3>2. QED
      BY <1>b, <1>c, <2>1, <3>1
  <2>3. Find(lo, hi, S) \in lo .. hi /\ (Find(lo, hi, S) < hi => Find(lo, hi, S) \in S)
    BY <2>2, FindFacts
  <2>4. QED
    BY <2>1, <2>3
<1>6. LineFrom(t, s) = SubSeq(t, s + 1, f - 1) /\ Len(LineFrom(t, s)) <= BufSize
  BY <1>3 DEF LineFrom, Plain
<1> HIDE DEF S, f
<1>7. f > z + 1
  <2>1. f \notin s + 1 .. z + 1
    <3>1. CASE f < Len(t) + 1
      BY <1>4, <1>5, <3>1
    <3>2. CASE ~(f < Len(t) + 1)
      BY <1>1, <1>5, <3>2
    <3>3. QED
      BY <3>1, <3>2
  <2>2. QED
    BY <1>1, <1>5, <2>1
<1>8. PICK h : h = f - 1
  OBVIOUS
<1>9. h \in Nat /\ s <= h /\ h <= Len(t) /\ h - s > BufSize
  <2>1. f \in s + 1 .. n + 1
    BY <1>5, <1>a
  <2>2. h \in Nat /\ s <= h /\ h <= n /\ h - s > m
    BY <1>7, <1>8, <1>b, <2>1
  <2>3. QED
    BY <1>a, <2>2
<1>10. Len(SubSeq(t, s + 1, h)) = h - s
  BY <1>9, PieceFacts
<1>11. QED
  BY <1>1, <1>6, <1>8, <1>9, <1>10

\* In a file, what grep takes for a line is the rest of one, and there is
\* nothing of it behind the buffer.
LEMMA LineWhole ==
  ASSUME OtherTypes, line_start <= last, NEW t \in Seq(Chars), NEW q \in Nat,
         NUL \notin Range(t), Plain(t), HoldsRest(t, q, line_start), AtLine(t, From(q)),
         last = BufSize \/ q = Len(t), cnt = 0 => q = Len(t), ~Shifted
  PROVE  To(q) = Len(t) \/ t[To(q) + 1] = NL
<1>1. PICK s, z : s = From(q) /\ z = To(q)
  OBVIOUS
<1>2. /\ s \in Nat /\ z \in Nat /\ s <= z /\ z <= q /\ q <= Len(t)
      /\ \A x \in s + 1 .. z : t[x] # NL
      /\ LineEnd < last => z < q /\ t[z + 1] = NL
      /\ last = BufSize => data[last] # NL
  BY <1>1, RestIs
<1>3. /\ BufSize \in Nat /\ last \in Nat /\ line_start \in Nat
      /\ LineEnd \in line_start .. last /\ Len(t) \in Nat
  BY BufferFacts
<1>4. CASE LineEnd < last
  BY <1>1, <1>2, <1>4
<1>5. CASE LineEnd = last
  <2>1. s = q - last + line_start /\ z = q
    BY <1>1, <1>3, <1>5 DEF From, To
  <2>3. CASE q = Len(t)
    BY <1>1, <2>1, <2>3
  <2>4. CASE q # Len(t)
    <3>0. last = BufSize /\ cnt # 0
      BY <2>4
    <3>1. last = BufSize /\ line_start = 0
      BY <1>2, <1>5, <3>0 DEF Shifted
    <3>2. s + BufSize <= z /\ z <= Len(t)
      BY <1>2, <1>3, <2>1, <3>1
    <3>3. AtLine(t, s)
      BY <1>1
    <3>4. z = Len(t) \/ t[z + 1] = NL
      BY <1>2, <3>2, <3>3, FullBuffer
    <3>5. QED
      BY <1>1, <3>4
  <2>5. QED
    BY <2>3, <2>4
<1>6. QED
  BY <1>3, <1>4, <1>5

\* What grep prints about a line is what it is to print.
LEMMA LinePrinted ==
  ASSUME OtherTypes, line_start <= last, NEW e \in Entry, NEW t \in Seq(Chars), NEW q \in Nat,
         NUL \notin Range(t), HoldsRest(t, q, line_start), fname = e.fname
  PROVE  Line = Printed(e, argument, SubSeq(t, From(q) + 1, To(q)))
<1> DEFINE w == SubSeq(t, From(q) + 1, To(q))
<1>1. line_start \in line_start .. LineEnd
  BY BufferFacts
<1>2. StringAt(line_start) = w
  BY <1>1, RestIs DEF From
<1>3. Hit <=> HasWord(w, argument)
  BY HitIs
<1> HIDE DEF w
<1>4. Line = Printed(e, argument, w)
  BY <1>2, <1>3, Zenon DEF Line, Printed
<1>5. QED
  BY <1>4 DEF w

LEMMA LineChars ==
  ASSUME OtherTypes, line_start <= last, NEW e \in Entry, fname = e.fname
  PROVE  Line \in Seq(Chars)
<1>1. line_start \in 0 .. BufSize
  BY BufferFacts
<1>2. /\ StringAt(line_start) \in Seq(Chars)
      /\ fname \in Seq(Chars) /\ <<":">> \in Seq(Chars) /\ <<NL>> \in Seq(Chars)
  BY <1>1, StringFacts, Characters DEF Entry
<1>3. fname \o <<":">> \in Seq(Chars)
  BY <1>2, ConcatProperties
<1>4. fname \o <<":">> \o StringAt(line_start) \in Seq(Chars)
  BY <1>2, <1>3, ConcatProperties
<1>5. fname \o <<":">> \o StringAt(line_start) \o <<NL>> \in Seq(Chars)
  BY <1>2, <1>4, ConcatProperties
<1>6. <<>> \in Seq(Chars)
  OBVIOUS
<1>7. QED
  BY <1>5, <1>6 DEF Line

\* What a line leaves in the buffer is behind it.
LEMMA RestShrinks ==
  ASSUME OtherTypes, line_start <= last, NEW t, NEW q, HoldsRest(t, q, line_start),
         data' = Marked
  PROVE  /\ \A j \in LineEnd + 1 .. last - 1 : data'[j] = t[q - last + j + 1]
         /\ data'[BufSize] # NL
<1>1. /\ BufSize \in Nat /\ last \in Nat /\ line_start \in Nat /\ last <= BufSize
      /\ LineEnd \in line_start .. last /\ LineEnd \in Nat
      /\ \A j \in line_start .. LineEnd - 1 : data[j] # NL
      /\ Marked[LineEnd] = NUL
      /\ \A j \in DIdx : j # LineEnd => Marked[j] = data[j]
  BY BufferFacts
<1>2. /\ \A j \in line_start .. last - 1 : data[j] = t[q - last + j + 1]
      /\ data[BufSize] # NL
  BY DEF HoldsRest
<1>3. ASSUME NEW j \in LineEnd + 1 .. last - 1 PROVE data'[j] = t[q - last + j + 1]
  <2>1. j \in line_start .. last - 1 /\ j \in DIdx /\ j # LineEnd
    BY <1>1 DEF DIdx
  <2>2. QED
    BY <1>1, <1>2, <2>1
<1>4. data'[BufSize] # NL
  <2>1. BufSize \in DIdx /\ NUL # NL
    BY <1>1, Characters DEF DIdx
  <2>2. QED
    BY <1>1, <1>2, <2>1
<1>5. QED
  BY <1>3, <1>4

\* In a file, this line is what grep is to print of the lines from where it
\* has got to, up to z.
UpToLine(e, t, q, z) ==
  /\ z \in Nat /\ z <= q /\ q <= Len(t)
  /\ z = Len(t) \/ t[z + 1] = NL
  /\ LineEnd < last => z < q /\ t[z + 1] = NL
  /\ Before(Hits(e, argument), z + 1) = Before(Hits(e, argument), From(q)) \o Line
  /\ From(q) < z => Before(Hits(e, argument), z + 1) = Before(Hits(e, argument), z)

LEMMA FileLine ==
  ASSUME OtherTypes, line_start <= last, NEW e \in Entry, NEW t, t = content[e.inode_index],
         NEW q \in Nat, NUL \notin Range(t), Plain(t), HoldsRest(t, q, line_start),
         AtLine(t, From(q)), last = BufSize \/ q = Len(t), cnt = 0 => q = Len(t), ~Shifted,
         fname = e.fname
  PROVE  UpToLine(e, t, q, To(q))
<1>1. PICK s, z, word : s = From(q) /\ z = To(q) /\ word = argument
  OBVIOUS
<1> DEFINE h == Hits(e, word)
           w == SubSeq(t, s + 1, z)
<1>2. t \in Seq(Chars) /\ Len(t) \in Nat /\ h \in Seq(Seq(Chars)) /\ Len(h) = Len(t) + 1
  BY HitsFacts
<1>3. /\ s \in Nat /\ z \in Nat /\ s <= z /\ z <= q /\ q <= Len(t)
      /\ \A x \in s + 1 .. z : t[x] # NL
      /\ LineEnd < last => z < q /\ t[z + 1] = NL
  BY <1>1, <1>2, RestIs
<1>4. z = Len(t) \/ t[z + 1] = NL
  BY <1>1, <1>2, LineWhole
<1>5. Line = Printed(e, word, w)
  BY <1>1, <1>2, LinePrinted
<1>6. /\ Before(h, z + 1) = Before(h, s) \o Printed(e, word, w)
      /\ s < z => Before(h, z + 1) = Before(h, z)
  <2>1. z <= Len(t)
    BY <1>2, <1>3
  <2>2. RestOfLine(e, t, s, z)
    BY <1>1, <1>3, <1>4, <2>1 DEF RestOfLine
  <2>3. QED
    BY <2>2, LineDone
<1>7. Before(h, z + 1) = Before(h, s) \o Line
  BY <1>5, <1>6
<1>8. QED
  BY <1>1, <1>3, <1>4, <1>6, <1>7 DEF UpToLine

\* When a file has been read to its end and there are no lines left, grep has
\* printed what it is to print of the entry.
LEMMA EntryDone ==
  ASSUME NEW word, NEW e \in Entry, e.file_type = FILE, e.fname[1] # ".", NEW z,
         z = Len(content[e.inode_index]) \/ z = Len(content[e.inode_index]) + 1
  PROVE  Before(Hits(e, word), z) = Found(e, word)
<1>1. Before(Hits(e, word), z) = FlattenSeq(Hits(e, word))
  BY AllLinesDone
<1>2. Found(e, word) = FlattenSeq(Hits(e, word))
  BY DEF Found
<1>3. QED
  BY <1>1, <1>2

LEMMA FileIsNoClock == FILE # RTC
BY DEF FILE, RTC

LEMMA NoOtherStep ==
  "grep line" \notin {"grep next", "grep close"} /\ "grep read" \notin {"grep next", "grep close"}
OBVIOUS

LEMMA GrepLineKeepsInv ==
  ASSUME ProgramsInv, GrepLine
  PROVE  ProgramsInv'
<1>1. /\ pc = "grep line"
      /\ UNCHANGED <<tVars, shell, fd, dirfd, fname, cnt, stray, sys>>
      /\ IF LineEnd + 1 < last THEN Go("grep line") /\ UNCHANGED last
         ELSE last' = 0 /\ Go(IF cnt = 0 THEN "grep close" ELSE "grep read")
  BY DEF GrepLine
<1>2. /\ data' = Marked /\ line_start' = LineEnd + 1 /\ ~Shifted
      /\ out' = out \o Line
      /\ found' = [found EXCEPT ![fdt[dirfd].position] = @ \o Line]
  BY DEF GrepLine
<1>3. /\ sbuf' = sbuf /\ argument' = argument /\ stray' = stray /\ cnt' = cnt /\ fdt' = fdt
  BY <1>1 DEF shell, tVars
<1>4. OtherTypes /\ line_start <= last
  BY <1>1, AtALine
<1>5. /\ BufSize \in Nat /\ BufSize >= 1 /\ last \in Nat /\ line_start \in Nat /\ last <= BufSize
      /\ LineEnd \in line_start .. last /\ LineEnd \in Nat /\ LineEnd \in DIdx
      /\ Marked \in [DIdx -> Chars]
  BY <1>4, BufferFacts, SizeAssumption
<1>6. PICK n, q, word, e : /\ n = fdt[2].position /\ q = fdt[3].position /\ word = argument
                           /\ e = dir_entries[n]
  OBVIOUS
<1> DEFINE t == content[e.inode_index]
<1>7. /\ n \in DOMAIN dir_entries /\ fname = e.fname /\ e.fname[1] # "."
      /\ e \in Entry /\ e.file_type \in {RTC, FILE} /\ t \in Seq(Chars) /\ q \in Nat
      /\ dirfd = 2 /\ GrepFoundInv /\ found \in PerEntry /\ out = Before(found, n)
      /\ e.file_type = RTC =>
           /\ found[n] = <<>> /\ last = 0 /\ line_start = 0 /\ cnt = 0
      /\ e.file_type = FILE /\ Fit(n) =>
           /\ NUL \notin Range(t) /\ Plain(t)
           /\ HoldsRest(t, q, line_start) /\ AtLine(t, From(q))
           /\ found[n] = Before(Hits(e, word), From(q))
           /\ last = BufSize \/ q = Len(t)
           /\ cnt = 0 => q = Len(t)
           /\ cnt # 0 => last > 0
  BY <1>1, <1>6, AtALine
<1>8. Current' = e
  BY <1>3, <1>6 DEF Current
<1>a. PICK w \in Seq(Chars) : w = Line
  BY <1>4, <1>7, LineChars
<1>b. /\ found' \in PerEntry /\ found'[n] = found[n] \o w
      /\ \A m \in DOMAIN dir_entries : m # n => found'[m] = found[m]
      /\ out' = Before(found', n)
  <2>1. out' = out \o w /\ found' = [found EXCEPT ![n] = @ \o w]
    BY <1>2, <1>6, <1>7, <1>a
  <2>2. PICK f, g : f = found /\ g = found'
    OBVIOUS
  <2>3. f \in PerEntry /\ g = [f EXCEPT ![n] = @ \o w] /\ out = Before(f, n)
    BY <1>7, <2>1, <2>2
  <2>4. /\ g \in PerEntry /\ g[n] = f[n] \o w
        /\ \A m \in DOMAIN dir_entries : m # n => g[m] = f[m]
        /\ Before(g, n) = Before(f, n) \o w
    <3>1. n \in DOMAIN dir_entries /\ w \in Seq(Chars)
      BY <1>7, <1>a
    <3>2. f[n] \o w \in Seq(Chars)
      <4>1. f[n] \in Seq(Chars)
        BY <2>3, <3>1 DEF PerEntry
      <4>2. QED
        BY <3>1, <4>1, ConcatProperties
    <3>3. /\ g \in PerEntry /\ g[n] = f[n] \o w
          /\ \A m \in DOMAIN dir_entries : m # n => g[m] = f[m]
      BY <2>3, <3>1, <3>2 DEF PerEntry
    <3>4. QED
      BY <2>3, <3>1, <3>3, PerEntryGrows
  <2>5. QED
    BY <2>1, <2>2, <2>3, <2>4
<1> HIDE DEF t
<1>9. \/ /\ LineEnd + 1 < last /\ last' = last /\ pc' = "grep line"
      \/ /\ ~(LineEnd + 1 < last) /\ last' = 0
         /\ \/ cnt = 0 /\ pc' = "grep close"
            \/ cnt # 0 /\ pc' = "grep read"
  BY <1>1 DEF Go
<1>10. last' \in 0 .. BufSize /\ (last' = last \/ last' = 0) /\ last' \in Nat
  <2>1. last' = last \/ last' = 0
    BY <1>9, Zenon
  <2>2. QED
    BY <1>5, <2>1
<1>11. OtherTypes'
  <2>1. out' \in Seq(Chars)
    <3>1. n \in 0 .. Len(dir_entries)
      BY <1>7, DirectoryFacts
    <3>2. QED
      BY <1>b, <3>1, PerEntryFacts
  <2>2. line_start' \in 0 .. BufSize + 1
    BY <1>2, <1>5
  <2>3. data' \in [DIdx -> Chars]
    BY <1>2, <1>5
  <2>4. QED
    BY <1>3, <1>4, <1>10, <2>1, <2>2, <2>3 DEF OtherTypes
<1>12. pc' = "grep read" => last' < BufSize
  <2>1. pc' = "grep read" => last' = 0
    BY <1>9
  <2>2. 0 < BufSize
    BY <1>5
  <2>3. QED
    BY <2>1, <2>2
<1>13. pc' = "grep line" => line_start' <= last'
  <2>1. pc' = "grep line" => LineEnd + 1 < last /\ last' = last
    BY <1>9
  <2>2. LineEnd + 1 < last => LineEnd + 1 <= last
    BY <1>5
  <2>3. QED
    BY <1>2, <2>1, <2>2
<1>14. pc' \in {"grep line", "grep read", "grep close"}
  BY <1>9
\* In a file that is fit, the line is the next that grep is to print.
<1>c. ASSUME e.file_type = FILE, Fit(n)'
      PROVE  /\ NUL \notin Range(t) /\ HoldsRest(t, q, line_start)
             /\ last = BufSize \/ q = Len(t)
             /\ cnt = 0 => q = Len(t)
             /\ cnt # 0 => last > 0
             /\ UpToLine(e, t, q, To(q))
             /\ found'[n] = Before(Hits(e, word), To(q) + 1)
  <2>1. Fit(n)
    BY <1>3, <1>c DEF Fit
  <2>2. /\ NUL \notin Range(t) /\ Plain(t)
        /\ HoldsRest(t, q, line_start) /\ AtLine(t, From(q))
        /\ found[n] = Before(Hits(e, word), From(q))
        /\ last = BufSize \/ q = Len(t)
        /\ cnt = 0 => q = Len(t)
        /\ cnt # 0 => last > 0
    BY <1>7, <1>c, <2>1
  <2>3. t = content[e.inode_index]
    BY DEF t
  <2>4. UpToLine(e, t, q, To(q))
    BY <1>2, <1>4, <1>7, <2>2, <2>3, FileLine
  <2>5. Before(Hits(e, word), To(q) + 1) = Before(Hits(e, word), From(q)) \o w
    BY <1>6, <1>a, <2>4 DEF UpToLine
  <2>6. QED
    BY <1>b, <2>2, <2>4, <2>5
\* Of a clock there is nothing to print.
<1>d. ASSUME e.file_type = RTC
      PROVE  found'[n] = <<>> /\ pc' = "grep close"
  <2>1. found[n] = <<>> /\ last = 0 /\ line_start = 0 /\ cnt = 0
    BY <1>7, <1>d
  <2>2. line_start .. LineEnd - 1 = {} /\ ~(LineEnd + 1 < last)
    BY <1>5, <2>1
  <2>3. w = <<>>
    BY <1>a, <2>2 DEF Line, Hit
  <2>4. <<>> \o <<>> = <<>>
    OBVIOUS
  <2>5. pc' = "grep close"
    BY <1>9, <2>1, <2>2
  <2>6. QED
    BY <1>b, <2>1, <2>3, <2>4, <2>5
<1>15. GrepFoundInv'
  <2>1. /\ \A m \in DOMAIN dir_entries : m > n => found[m] = <<>>
        /\ \A m \in DOMAIN dir_entries : m < n /\ Fit(m) => found[m] = Found(dir_entries[m], word)
    <3>1. pc \in GrepSteps \ {"grep"} /\ pc # "grep open"
      BY <1>1 DEF GrepSteps
    <3>2. QED
      BY <1>6, <1>7, <3>1 DEF GrepFoundInv
  <2>2. \A m \in DOMAIN dir_entries : Fit(m)' => Fit(m)
    BY <1>3 DEF Fit
  <2>3. \A m \in DOMAIN dir_entries : (m > n => m # n) /\ (m < n => m # n)
    BY <1>7, DirectoryFacts
  <2>4. ASSUME pc' = "grep close", Fit(n)' PROVE found'[n] = Found(e, word)
    <3>1. CASE e.file_type = RTC
      BY <1>d, <3>1, FileIsNoClock DEF Found
    <3>2. CASE e.file_type = FILE
      <4>1. PICK z, at : z = To(q) /\ at = z + 1
        OBVIOUS
      <4>2. /\ z \in Nat /\ z <= q /\ q <= Len(t) /\ found'[n] = Before(Hits(e, word), at)
            /\ cnt = 0 => q = Len(t)
        BY <1>c, <2>4, <3>2, <4>1 DEF UpToLine
      <4>3. ~(LineEnd + 1 < last) /\ cnt = 0
        BY <1>9, <2>4
      <4>4. at = Len(t) \/ at = Len(t) + 1
        <5>1. LineEnd = last \/ LineEnd + 1 = last
          BY <1>5, <4>3
        <5>2. z = q \/ z + 1 = q
          BY <1>5, <1>7, <4>1, <5>1 DEF To
        <5>3. QED
          BY <4>1, <4>2, <4>3, <5>2
      <4>5. Before(Hits(e, word), at) = Found(e, word)
        BY <1>7, <3>2, <4>4, EntryDone DEF t
      <4>6. QED
        BY <4>2, <4>5
    <3>3. QED
      BY <1>7, <3>1, <3>2
  <2>5. \A m \in DOMAIN dir_entries : m > n => found'[m] = <<>>
    BY <1>b, <2>1, <2>3
  <2>6. ASSUME NEW m \in DOMAIN dir_entries,
               m < n \/ (m = n /\ pc' \in {"grep next", "grep close"}), Fit(m)'
        PROVE  found'[m] = Found(dir_entries[m], word)
    <3>1. CASE m < n
      BY <1>b, <2>1, <2>2, <2>3, <2>6, <3>1
    <3>2. CASE m = n /\ pc' \in {"grep next", "grep close"}
      <4>1. pc' = "grep close"
        BY <1>14, <3>2
      <4>2. QED
        BY <1>6, <2>4, <2>6, <3>2, <4>1
    <3>3. QED
      BY <2>6, <3>1, <3>2
  <2>7. pc' # "grep open" /\ fdt'[2].position = n /\ argument' = word
    BY <1>3, <1>6, <1>14
  <2>8. QED
    BY <1>b, <2>5, <2>6, <2>7 DEF GrepFoundInv
<1>16. GrepOutInv'
  <2>1. fdt'[2].position = n /\ fdt'[3].position = q /\ argument' = word /\ cnt' = cnt
    BY <1>3, <1>6
  <2>2. CASE e.file_type = RTC
    <3>1. pc' # "grep read" /\ pc' # "grep line"
      BY <1>d, <2>2
    <3>2. QED
      BY <3>1, Zenon DEF GrepOutInv
  <2>3. CASE e.file_type = FILE /\ ~Fit(n)'
    <3>1. Current'.file_type = FILE /\ Current'.file_type # RTC
      BY <1>8, <2>3, FileIsNoClock
    <3>2. QED
      BY <2>1, <2>3, <3>1, Zenon DEF GrepOutInv
  <2>4. CASE e.file_type = FILE /\ Fit(n)'
    <3>1. PICK s, z : s = From(q) /\ z = To(q)
      OBVIOUS
    <3>2. /\ NUL \notin Range(t) /\ HoldsRest(t, q, line_start)
          /\ last = BufSize \/ q = Len(t)
          /\ cnt = 0 => q = Len(t)
          /\ cnt # 0 => last > 0
          /\ UpToLine(e, t, q, z)
          /\ found'[n] = Before(Hits(e, word), z + 1)
      BY <1>c, <2>4, <3>1
    <3>5. /\ z \in Nat /\ z <= q /\ q <= Len(t)
          /\ z = Len(t) \/ t[z + 1] = NL
          /\ LineEnd < last => z < q /\ t[z + 1] = NL
          /\ s < z => Before(Hits(e, word), z + 1) = Before(Hits(e, word), z)
      BY <1>6, <3>1, <3>2 DEF UpToLine
    <3>6. /\ \A j \in LineEnd + 1 .. last - 1 : data'[j] = t[q - last + j + 1]
          /\ data'[BufSize] # NL
      BY <1>2, <1>4, <3>2, RestShrinks
    <3>7. s = q - last + line_start /\ z = q - last + LineEnd
      BY <3>1 DEF From, To
    <3>8. last <= q
      BY <3>2 DEF HoldsRest
    <3>9. CASE pc' = "grep line"
      <4>1. PICK lo, at : lo = LineEnd + 1 /\ at = z + 1
        OBVIOUS
      <4>2. LineEnd + 1 < last /\ last' = last
        BY <1>9, <3>9
      <4>3. line_start' = lo /\ lo <= last /\ LineEnd < last
        BY <1>2, <1>5, <4>1, <4>2
      <4>4. HoldsRest(t, q, lo)'
        BY <3>5, <3>6, <3>8, <4>1, <4>2 DEF HoldsRest
      <4>5. q - last' + line_start' = at
        BY <1>5, <1>7, <3>7, <4>1, <4>2, <4>3
      <4>6. AtLine(t, at)
        <5>1. z \in Nat /\ z < q /\ q <= Len(t) /\ t[z + 1] = NL /\ Len(t) \in Nat
              /\ DOMAIN t = 1 .. Len(t)
          BY <1>7, <3>5, <4>3
        <5>2. at \in 1 .. Len(t) /\ at \in 0 .. Len(t)
          <6>1. q \in Nat
            BY <1>7
          <6>2. PICK len \in Nat : len = Len(t)
            BY <5>1
          <6>3. z \in Nat /\ z < len
            BY <5>1, <6>1, <6>2
          <6>4. at \in 1 .. len /\ at \in 0 .. len
            BY <4>1, <6>3
          <6>5. QED
            BY <6>2, <6>4
        <5>3. at \in Starts(t)
          BY <4>1, <5>1, <5>2 DEF Starts
        <5>4. QED
          BY <5>2, <5>3 DEF AtLine
      <4>7. found'[n] = Before(Hits(e, word), at)
        BY <3>2, <4>1
      <4>8. GrepOutInv' <=>
             (/\ HoldsRest(t, q, lo)' /\ AtLine(t, q - last' + line_start')
              /\ found'[n] = Before(Hits(e, word), q - last' + line_start')
              /\ last' = BufSize \/ q = Len(t)
              /\ cnt' = 0 => q = Len(t)
              /\ cnt' # 0 => last' > 0)
        BY <1>8, <2>1, <2>4, <3>9, <4>3, FileIsNoClock, NoOtherStep, Zenon
        DEF GrepOutInv, t, HoldsRest, AtLine
      <4>9. QED
        BY <2>1, <3>2, <4>2, <4>4, <4>5, <4>6, <4>7, <4>8
    <3>10. CASE pc' = "grep read"
      <4>1. ~(LineEnd + 1 < last) /\ last' = 0 /\ cnt # 0
        BY <1>9, <3>10
      <4>2. last > 0
        BY <3>2, <4>1
      <4>3. HoldsRest(t, q, 0)'
        <5>1. 0 .. 0 - 1 = {}
          OBVIOUS
        <5>2. data'[BufSize] # NL
          BY <3>6
        <5>3. 0 <= q /\ q <= Len(t)
          BY <1>7, <3>5
        <5>4. QED
          BY <4>1, <5>1, <5>2, <5>3 DEF HoldsRest
      <4>4. AtLine(t, q) /\ Before(Hits(e, word), z + 1) = Before(Hits(e, word), q)
        <5>1. Len(t) \in Nat /\ DOMAIN t = 1 .. Len(t)
          BY <1>7
        <5>2. CASE LineEnd < last
          <6>1. z + 1 = q /\ t[z + 1] = NL
            BY <1>5, <1>7, <3>5, <3>7, <4>1, <5>2
          <6>2. q \in 1 .. Len(t) /\ t[q] = NL
            BY <1>7, <3>5, <5>1, <6>1
          <6>3. q \in Starts(t) /\ q \in 0 .. Len(t)
            BY <5>1, <6>2 DEF Starts
          <6>4. QED
            BY <6>1, <6>3 DEF AtLine
        <5>3. CASE LineEnd = last
          <6>1. z = q
            BY <1>5, <1>7, <3>7, <5>3
          <6>2. q \in 0 .. Len(t)
            <7>1. q <= Len(t)
              BY <3>5
            <7>2. q \in Nat
              BY <1>7
            <7>3. QED
              BY <5>1, <7>1, <7>2
          <6>3. CASE q = Len(t)
            <7>1. AtLine(t, q)
              BY <6>2, <6>3 DEF AtLine
            <7>2. Before(Hits(e, word), Len(t) + 1) = Before(Hits(e, word), Len(t))
              BY <1>7, AllLinesDone DEF t
            <7>3. QED
              BY <6>1, <6>3, <7>1, <7>2
          <6>4. CASE q # Len(t)
            <7>1. last = BufSize
              BY <3>2, <6>4
            <7>2. data[last] # NL
              BY <1>4, <1>7, <3>2, <7>1, RestIs
            <7>3. line_start = 0
              BY <1>2, <4>1, <5>3, <7>2 DEF Shifted
            <7>4. s < z
              BY <1>5, <1>7, <3>7, <4>2, <6>1, <7>3
            <7>5. QED
              BY <3>5, <6>1, <6>2, <7>4 DEF AtLine
          <6>5. QED
            BY <6>3, <6>4
        <5>4. QED
          BY <1>5, <5>2, <5>3
      <4>5. q - last' = q
        BY <1>7, <4>1
      <4>6. GrepOutInv' <=>
             (/\ HoldsRest(t, q, 0)' /\ AtLine(t, q - last')
              /\ found'[n] = Before(Hits(e, word), q - last'))
        BY <1>8, <2>1, <2>4, <3>10, FileIsNoClock, NoOtherStep, Zenon
        DEF GrepOutInv, t, HoldsRest, AtLine
      <4>7. QED
        BY <3>2, <4>3, <4>4, <4>5, <4>6
    <3>11. CASE pc' = "grep close"
      BY <3>11, Zenon DEF GrepOutInv
    <3>12. QED
      BY <1>14, <3>9, <3>10, <3>11
  <2>5. QED
    BY <1>7, <2>2, <2>3, <2>4
<1>17. QED
  BY <1>1, <1>11, <1>12, <1>13, <1>14, <1>15, <1>16, BufferStep

-----------------------------------------------------------------------------
(* The theorems.                                                           *)

LEMMA NothingChanges ==
  ASSUME ProgramsInv, UNCHANGED vars
  PROVE  ProgramsInv'
<1>1. /\ fdt' = fdt /\ ret' = ret /\ pc' = pc /\ prog' = prog /\ typed' = typed /\ sbuf' = sbuf
      /\ argument' = argument /\ status' = status /\ out' = out /\ fd' = fd /\ dirfd' = dirfd
      /\ fname' = fname /\ data' = data /\ last' = last /\ line_start' = line_start
      /\ cnt' = cnt /\ found' = found /\ stray' = stray /\ k' = k /\ fails' = fails
  BY DEF vars, tVars, shell, locals, sys
<1>2. TableTypes' /\ OtherTypes'
  BY <1>1 DEF ProgramsInv, TableTypes, OtherTypes
<1>3. StepInv' /\ AskInv'
  BY <1>1 DEF ProgramsInv, StepInv, AskInv, ArgumentFits, HoldsLine
<1>4. \A f : (IsOpen(f)' <=> IsOpen(f)) /\ \A e : (OnEntry(f, e)' <=> OnEntry(f, e))
  BY <1>1 DEF IsOpen, OnEntry, Size
<1>5. \A lo : ClosedFrom(lo)' <=> ClosedFrom(lo)
  BY <1>4 DEF ClosedFrom
<1>6. FreshInv'
  BY <1>1, <1>5 DEF ProgramsInv, FreshInv
<1>7. CatInv'
  BY <1>1 DEF ProgramsInv, CatInv, IsOpen, OnEntry, Size
<1>8. LsInv'
  BY <1>1, <1>4 DEF ProgramsInv, LsInv
<1>9. SysInv'
  BY <1>1, <1>4 DEF ProgramsInv, SysInv
<1>10. GrepDirInv'
  BY <1>1, <1>4, <1>5 DEF ProgramsInv, GrepDirInv
<1>11. Current' = Current
  BY <1>1 DEF Current
<1>12. GrepFileInv'
  BY <1>1, <1>5, <1>11 DEF ProgramsInv, GrepFileInv, OnEntry, IsOpen, Size
<1>a. \A n : Fit(n)' <=> Fit(n)
  BY <1>1 DEF Fit
<1>b. GrepFoundInv'
  BY <1>1, <1>a, Zenon DEF ProgramsInv, GrepFoundInv
<1>13. GrepOutInv'
  BY <1>1, <1>11, <1>a, Zenon DEF ProgramsInv, GrepOutInv, HoldsRest
<1>14. EndInv'
  BY <1>1 DEF ProgramsInv, EndInv, CatCopies, LsLists, GrepFinds, SysErrPasses, Ended, Fit
<1>15. QED
  BY <1>2, <1>3, <1>6, <1>7, <1>8, <1>9, <1>10, <1>12, <1>13, <1>14, <1>b DEF ProgramsInv

\* Every step of the shell, of a program or of the kernel between them.
LEMMA NextProgramsInv == ProgramsInv /\ [Next]_vars => ProgramsInv'
<1> SUFFICES ASSUME ProgramsInv, [Next]_vars PROVE ProgramsInv'
  OBVIOUS
<1>1. ASSUME NEW line \in Lines, ReadLine(line) PROVE ProgramsInv'
  BY <1>1, ReadLineKeepsInv
<1>2. CASE Execute
  BY <1>2, ExecuteKeepsInv
<1>3. CASE Cat
  BY <1>3, CatOpenKeepsInv, CatReadKeepsInv DEF Cat
<1>4. CASE Ls
  BY <1>4, LsOpenKeepsInv, LsReadKeepsInv DEF Ls
<1>5. CASE Grep
  BY <1>5, GrepOpenDirKeepsInv, GrepNextKeepsInv, GrepOpenKeepsInv, GrepReadKeepsInv,
     GrepShiftKeepsInv, GrepLineKeepsInv, GrepCloseKeepsInv DEF Grep
<1>6. CASE SysErr
  BY <1>6, SysErrKeepsInv
<1>7. CASE Halt
  BY <1>7, HaltKeepsInv
<1>8. CASE UNCHANGED vars
  BY <1>8, NothingChanges
<1>9. QED
  BY <1>1, <1>2, <1>3, <1>4, <1>5, <1>6, <1>7, <1>8 DEF Next, Running

\* The invariant that carries the rest: the line is in the shell's buffer
\* until it has been parsed; a program that reads has printed what it has
\* read; syserr's next call finds the descriptors it needs; and at a file that
\* is fit grep's buffer holds the text from where it has got to, with what
\* comes before printed, whatever it has printed of the files that are not.
THEOREM ProgramsInvariant == Spec => []ProgramsInv
BY InitProgramsInv, NextProgramsInv, PTL DEF Spec

\* The state keeps its types, and grep's indexes stay in its buffer, whatever
\* is in the files: it never takes in more than there is room for.
THEOREM ProgramsTypeCorrect == Spec => []TypeOK
<1>1. ProgramsInv => TypeOK
  BY DEF ProgramsInv, TableTypes, OtherTypes, Descriptor, TypeOK
<1>2. QED
  BY <1>1, ProgramsInvariant, PTL

\* Any lines in any order, up to the length that the parser looks at: what
\* runs is what the last line asks for, with the argument it has, and nothing
\* that earlier lines have left in the buffer is taken for a name.
THEOREM AlwaysRunsWhatIsTyped == Spec => []RunsWhatIsTyped
<1>1. ProgramsInv => RunsWhatIsTyped
  BY DEF ProgramsInv, AskInv, RunsWhatIsTyped
<1>2. QED
  BY <1>1, ProgramsInvariant, PTL

\* Whatever lies behind the line in the shell's buffer and beyond it: the
\* argument of a line that is not blank is shorter than the line, so that the
\* lines the parser looks at whole never overrun argument[128].
THEOREM ArgumentAlwaysFits == Spec => []ArgumentFits
<1>1. ProgramsInv => ArgumentFits
  BY DEF ProgramsInv, AskInv
<1>2. QED
  BY <1>1, ProgramsInvariant, PTL

\* Every directory, every file and every length of the buffer: cat prints the
\* whole file and nothing else.
THEOREM CatAlwaysCopies == Spec => []CatCopies
<1>1. ProgramsInv => CatCopies
  BY DEF ProgramsInv, EndInv
<1>2. QED
  BY <1>1, ProgramsInvariant, PTL

\* Every directory: ls prints each name once, in order.
THEOREM LsAlwaysLists == Spec => []LsLists
<1>1. ProgramsInv => LsLists
  BY DEF ProgramsInv, EndInv
<1>2. QED
  BY <1>1, ProgramsInvariant, PTL

\* Every directory, with files of any kind in it: of each file without a NUL
\* whose lines fit into the buffer, met with no newline behind the buffer by
\* chance, grep prints exactly the lines with the word in them, however the
\* reads cut them and whatever it makes of the files that are not so.
THEOREM GrepAlwaysFinds == Spec => []GrepFinds
<1>1. ProgramsInv => GrepFinds
  BY DEF ProgramsInv, EndInv
<1>2. QED
  BY <1>1, ProgramsInvariant, PTL

\* A descriptor table of any size of four or more: each of syserr's tests
\* passes.
THEOREM SysErrAlwaysPasses == Spec => []SysErrPasses
<1>1. ProgramsInv => SysErrPasses
  BY DEF ProgramsInv, EndInv
<1>2. QED
  BY <1>1, ProgramsInvariant, PTL
=============================================================================
