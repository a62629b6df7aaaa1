---------------------------- MODULE LibraryProofs ----------------------------
(***************************************************************************)
(* For memory of any size, every length, alignment and overlap, every      *)
(* format and word size, every directory and string: the library's memory  *)
(* functions leave, printf prints and read_dentry_by_name finds what they  *)
(* promise.  MemoryInv, PrintfInv and LookupInv are the inductive          *)
(* invariants.                                                             *)
(***************************************************************************)
EXTENDS Library, SequenceLemmas, FiniteSetTheorems

-----------------------------------------------------------------------------
(* The memory functions.                                                   *)

\* What byte x must be when call c, begun in memory o, returns.
Target(c, o, x) ==
  LET k == x - c.s IN
  IF k < 0 \/ k >= Unit(c) * c.n THEN o[x]
  ELSE IF c.fn \in Copies THEN o[c.src + k]
  ELSE IF c.fn = "memset" THEN c.c[0]
  ELSE c.c[k % Unit(c)]

\* Going up with r bytes to do: memory m is as wanted below d, and old from d on.
Ascending(c, o, d, e, m, r) ==
  /\ r \in Nat /\ r <= Unit(c) * c.n
  /\ d = c.s + (Unit(c) * c.n) - r
  /\ c.fn \in Copies => e = c.src + (Unit(c) * c.n) - r
  /\ \A x \in Addr : m[x] = IF x < d THEN Target(c, o, x) ELSE o[x]

\* Going down with r bytes to do, the highest of them at d.
Descending(c, o, d, e, m, r) ==
  /\ r \in Nat /\ r <= c.n
  /\ d = c.s + r - 1 /\ e = c.src + r - 1
  /\ \A x \in Addr : m[x] = IF x > d THEN Target(c, o, x) ELSE o[x]

StepInv ==
  /\ at \in {"top", "rep", "bottom"} => arg.fn \in {"memset", "memcpy"}
  /\ at = "top" => Ascending(arg, old, edi, esi, mem, ecx)
  /\ at = "rep" => ~df /\ Ascending(arg, old, edi, esi, mem, 4 * ecx + edx)
  /\ at = "bottom" => Ascending(arg, old, edi, esi, mem, edx)
  /\ at = "stos" => /\ arg.fn \in {"memset_word", "memset_dword"} /\ ~df
                    /\ Ascending(arg, old, edi, esi, mem, Unit(arg) * ecx)
  /\ at = "movsb" => /\ arg.fn = "memmove" /\ (df <=> arg.src < arg.s)
                     /\ df => Descending(arg, old, edi, esi, mem, ecx)
                     /\ ~df => Ascending(arg, old, edi, esi, mem, ecx)
  /\ at = "done" => \A x \in Addr : mem[x] = Target(arg, old, x)

MemoryInv ==
  /\ MTypeOK
  /\ at = "idle" => mem = old /\ arg = NULL
  /\ at # "idle" => arg \in Calls /\ Legal(arg)
  /\ StepInv

\* What is known of a call in progress.
LEMMA CallFacts ==
  ASSUME NEW c \in Calls, Legal(c)
  PROVE  /\ c.fn \in Fills \cup Copies /\ c.s \in Nat /\ c.src \in Nat /\ c.n \in Nat
         /\ c.c \in Values /\ c.c \in [0 .. 3 -> Bytes] /\ Size \in Nat
         /\ Unit(c) \in {1, 2, 4} /\ Unit(c) * c.n \in Nat
         /\ c.s + (Unit(c) * c.n) <= Size
         /\ c.fn \in Copies => c.src + c.n <= Size
         /\ c.fn = "memcpy" => c.s <= c.src \/ c.src + c.n <= c.s
<1>1. /\ c.fn \in Fills \cup Copies /\ c.s \in Nat /\ c.src \in Nat /\ c.n \in Nat
      /\ c.c \in Values /\ c.c \in [0 .. 3 -> Bytes] /\ Size \in Nat
  BY MemoryAssumption DEF Calls, Addr
<1>2. Unit(c) \in {1, 2, 4}
  BY DEF Unit
<1>3. Unit(c) * c.n \in Nat
  BY <1>1, <1>2
<1>4. QED
  BY <1>1, <1>2, <1>3 DEF Legal

LEMMA UnitOne ==
  ASSUME NEW c \in Calls, c.fn \in {"memset", "memcpy", "memmove"}
  PROVE  Unit(c) * c.n = c.n
<1>1. Unit(c) = 1
  BY DEF Unit
<1>2. c.n \in Nat
  BY MemoryAssumption DEF Calls
<1>3. QED
  BY <1>1, <1>2

LEMMA UnitOfWords ==
  ASSUME NEW c \in Calls, c.fn \in {"memset_word", "memset_dword"}
  PROVE  /\ Unit(c) \in {2, 4} /\ c.fn \notin Copies /\ c.fn # "memset"
  BY DEF Unit, Copies

\* Target's two cases, for the byte at k from the start of the area.
LEMMA TargetUnfolded ==
  ASSUME NEW c, NEW o, NEW x, NEW k, k = x - c.s
  PROVE  Target(c, o, x) = IF k < 0 \/ k >= Unit(c) * c.n THEN o[x]
                           ELSE IF c.fn \in Copies THEN o[c.src + k]
                           ELSE IF c.fn = "memset" THEN c.c[0] ELSE c.c[k % Unit(c)]
<1> DEFINE d == x - c.s
<1>1. Target(c, o, x) = IF d < 0 \/ d >= Unit(c) * c.n THEN o[x]
                        ELSE IF c.fn \in Copies THEN o[c.src + d]
                        ELSE IF c.fn = "memset" THEN c.c[0] ELSE c.c[d % Unit(c)]
  BY DEF Target
<1>2. k = d
  OBVIOUS
<1> HIDE DEF d
<1>3. QED
  BY <1>1, <1>2

LEMMA TargetInside ==
  ASSUME NEW c \in Calls, Legal(c), NEW o, NEW k \in Nat, k < Unit(c) * c.n,
         NEW x, x = c.s + k
  PROVE  /\ c.fn \in Copies => Target(c, o, x) = o[c.src + k]
         /\ c.fn = "memset" => Target(c, o, x) = c.c[0]
         /\ c.fn \notin Copies \cup {"memset"} => Target(c, o, x) = c.c[k % Unit(c)]
<1>1. k = x - c.s /\ Unit(c) * c.n \in Nat
  BY CallFacts
<1> DEFINE N == Unit(c) * c.n
           u == Unit(c)
<1> HIDE DEF N, u
<1>2. Target(c, o, x) = IF k < 0 \/ k >= N THEN o[x]
                        ELSE IF c.fn \in Copies THEN o[c.src + k]
                        ELSE IF c.fn = "memset" THEN c.c[0] ELSE c.c[k % u]
  BY <1>1, TargetUnfolded DEF N, u
<1>3. ~(k < 0 \/ k >= N)
  BY <1>1 DEF N
<1>4. "memset" \notin Copies
  BY DEF Copies
<1>5. QED
  BY <1>2, <1>3, <1>4 DEF u

LEMMA TargetOfFill ==
  ASSUME NEW c \in Calls, Legal(c), c.fn = "memset", NEW o, NEW k \in Nat, k < Unit(c) * c.n,
         NEW x, x = c.s + k
  PROVE  Target(c, o, x) = c.c[0]
BY TargetInside

LEMMA TargetOutside ==
  ASSUME NEW c \in Calls, Legal(c), NEW o, NEW x \in Int,
         x < c.s \/ x >= c.s + (Unit(c) * c.n)
  PROVE  Target(c, o, x) = o[x]
<1> DEFINE N == Unit(c) * c.n
           k == x - c.s
<1>1. k \in Int /\ N \in Nat /\ (k < 0 \/ k >= N)
  BY CallFacts
<1>2. k = x - c.s
  OBVIOUS
<1> HIDE DEF N, k
<1>3. Target(c, o, x) = IF k < 0 \/ k >= N THEN o[x]
                        ELSE IF c.fn \in Copies THEN o[c.src + k]
                        ELSE IF c.fn = "memset" THEN c.c[0] ELSE c.c[k % Unit(c)]
  BY <1>2, TargetUnfolded DEF N
<1>4. QED
  BY <1>1, <1>3

LEMMA TargetIsByte ==
  ASSUME NEW c \in Calls, Legal(c), NEW o \in [Addr -> Bytes], NEW x \in Addr
  PROVE  Target(c, o, x) \in Bytes
<1> DEFINE k == x - c.s
<1>1. /\ c.c \in [0 .. 3 -> Bytes] /\ c.s \in Nat /\ c.src \in Nat /\ c.n \in Nat
      /\ Unit(c) \in {1, 2, 4} /\ k \in Int /\ Size \in Nat
      /\ c.fn \in Copies => c.src + c.n <= Size
  BY CallFacts DEF Addr
<1>2. ASSUME k >= 0, k < Unit(c) * c.n, c.fn \in Copies
      PROVE  o[c.src + k] \in Bytes
  <2>1. Unit(c) * c.n = c.n
    BY <1>2, UnitOne DEF Copies
  <2> HIDE DEF k
  <2>a. k \in Nat /\ k < c.n
    BY <1>1, <1>2, <2>1
  <2>b. c.src + c.n <= Size
    BY <1>1, <1>2
  <2>2. c.src + k \in Addr
    BY <1>1, <2>a, <2>b DEF Addr
  <2>3. QED
    BY <2>2
<1>3. c.c[0] \in Bytes
  BY <1>1
<1>4. ASSUME k >= 0
      PROVE  c.c[k % Unit(c)] \in Bytes
  <2>1. k % Unit(c) \in 0 .. 3
    BY <1>1, <1>4
  <2>2. QED
    BY <1>1, <2>1
<1>5. o[x] \in Bytes
  OBVIOUS
<1> HIDE DEF k
<1>6. Target(c, o, x) = IF k < 0 \/ k >= Unit(c) * c.n THEN o[x]
                        ELSE IF c.fn \in Copies THEN o[c.src + k]
                        ELSE IF c.fn = "memset" THEN c.c[0] ELSE c.c[k % Unit(c)]
  BY DEF Target, k
<1>7. CASE k < 0 \/ k >= Unit(c) * c.n
  BY <1>5, <1>6, <1>7
<1>8. CASE ~(k < 0 \/ k >= Unit(c) * c.n)
  <2>1. k >= 0 /\ k < Unit(c) * c.n
    BY <1>1, <1>8, CallFacts
  <2>2. QED
    BY <1>2, <1>3, <1>4, <1>6, <1>8, <2>1
<1>9. QED
  BY <1>7, <1>8

\* One store of w bytes, as wanted, brings an ascending call w bytes on.
LEMMA PutAscends ==
  ASSUME NEW r \in Nat, NEW w \in Nat, w <= r, arg \in Calls, Legal(arg),
         MTypeOK, Ascending(arg, old, edi, esi, mem, r), Put(w, w),
         \A j \in 0 .. w - 1 : Stored(j) = Target(arg, old, edi + j)
  PROVE  Ascending(arg, old, edi', esi', mem', r - w)
<1>1. /\ edi \in Int /\ esi \in Int /\ arg.s \in Nat /\ arg.src \in Nat
      /\ Unit(arg) * arg.n \in Nat
      /\ edi' = edi + w /\ esi' = IF arg.fn \in Copies THEN esi + w ELSE esi
  BY CallFacts DEF MTypeOK, Put
<1>2. /\ r <= Unit(arg) * arg.n
      /\ edi = arg.s + (Unit(arg) * arg.n) - r
      /\ arg.fn \in Copies => esi = arg.src + (Unit(arg) * arg.n) - r
      /\ \A x \in Addr : mem[x] = IF x < edi THEN Target(arg, old, x) ELSE old[x]
  BY DEF Ascending
<1>3. ASSUME NEW x \in Addr
      PROVE  mem'[x] = IF x < edi' THEN Target(arg, old, x) ELSE old[x]
  <2>1. x \in Int
    BY DEF Addr
  <2>2. mem'[x] = IF edi <= x /\ x < edi + w THEN Stored(x - edi) ELSE mem[x]
    BY DEF Put
  <2>3. CASE edi <= x /\ x < edi + w
    <3>1. x - edi \in 0 .. w - 1 /\ edi + (x - edi) = x
      BY <1>1, <2>1, <2>3
    <3>2. Stored(x - edi) = Target(arg, old, x)
      BY <3>1
    <3>3. QED
      BY <1>1, <2>2, <2>3, <3>2
  <2>4. CASE ~(edi <= x /\ x < edi + w)
    BY <1>1, <1>2, <2>1, <2>2, <2>4
  <2>5. QED
    BY <2>3, <2>4
<1> DEFINE N == Unit(arg) * arg.n
<1> HIDE DEF N
<1>4. N \in Nat /\ r <= N /\ edi = arg.s + N - r
      /\ (arg.fn \in Copies => esi = arg.src + N - r)
  BY <1>1, <1>2 DEF N
<1>5. /\ r - w \in Nat /\ r - w <= N
      /\ edi' = arg.s + N - (r - w)
      /\ arg.fn \in Copies => esi' = arg.src + N - (r - w)
  BY <1>1, <1>4
<1>6. QED
  BY <1>3, <1>5 DEF Ascending, N

\* What an ascending call stores is what is wanted there: memset's byte ...
LEMMA FillStores ==
  ASSUME NEW r \in Nat, NEW w \in Nat, w <= r, arg \in Calls, Legal(arg), arg.fn = "memset",
         Ascending(arg, old, edi, esi, mem, r), NEW j \in 0 .. w - 1
  PROVE  Stored(j) = Target(arg, old, edi + j)
<1>1. Unit(arg) * arg.n = arg.n
  BY UnitOne
<1>2. arg.n \in Nat /\ arg.s \in Nat
  BY CallFacts
<1>a. r <= arg.n /\ edi = arg.s + arg.n - r
  BY <1>1 DEF Ascending
<1> DEFINE k == arg.n - r + j
<1>b. k \in Nat /\ k < arg.n /\ edi + j = arg.s + k
  BY <1>2, <1>a
<1> HIDE DEF k
<1>3. Target(arg, old, edi + j) = arg.c[0]
  BY <1>1, <1>b, TargetOfFill
<1>4. Stored(j) = arg.c[0]
  BY DEF Stored, Copies
<1>5. QED
  BY <1>3, <1>4

\* ... the source's bytes, which the call has not overwritten yet ...
LEMMA CopyStores ==
  ASSUME NEW r \in Nat, NEW w \in Nat, w <= r, arg \in Calls, Legal(arg), MTypeOK,
         arg.fn = "memcpy" \/ (arg.fn = "memmove" /\ arg.s <= arg.src),
         Ascending(arg, old, edi, esi, mem, r), NEW j \in 0 .. w - 1
  PROVE  Stored(j) = Target(arg, old, edi + j)
<1>1. Unit(arg) * arg.n = arg.n /\ arg.fn \in Copies
  BY UnitOne DEF Copies
<1>2. /\ arg.n \in Nat /\ arg.s \in Nat /\ arg.src \in Nat /\ Size \in Nat
      /\ arg.src + arg.n <= Size
      /\ arg.s <= arg.src \/ arg.src + arg.n <= arg.s
  BY <1>1, CallFacts
<1>3. r <= arg.n /\ edi = arg.s + arg.n - r /\ esi = arg.src + arg.n - r
  BY <1>1 DEF Ascending
<1> DEFINE k == arg.n - r + j
           y == esi + j
<1>4. /\ k \in Nat /\ k < arg.n /\ edi + j = arg.s + k
      /\ y = arg.src + k /\ y \in Int /\ y >= 0 /\ y < Size
      /\ arg.s <= arg.src => ~(y < edi)
      /\ arg.src + arg.n <= arg.s => y < arg.s
  BY <1>2, <1>3
<1>5. y \in Addr
  BY <1>4, <1>2 DEF Addr
<1>6. Stored(j) = mem[y]
  BY <1>1 DEF Stored, Copies
<1> HIDE DEF k, y
<1>7. mem[y] = IF y < edi THEN Target(arg, old, y) ELSE old[y]
  BY <1>5 DEF Ascending
<1>8. arg.src + arg.n <= arg.s => Target(arg, old, y) = old[y]
  BY <1>4, TargetOutside
<1>9. mem[y] = old[y]
  BY <1>2, <1>4, <1>7, <1>8
<1>10. Target(arg, old, edi + j) = old[arg.src + k]
  BY <1>1, <1>4, TargetInside
<1>11. QED
  BY <1>4, <1>6, <1>9, <1>10

\* ... and a word's bytes in order.
LEMMA WordStores ==
  ASSUME NEW q \in Nat, q > 0, arg \in Calls, Legal(arg),
         arg.fn \in {"memset_word", "memset_dword"},
         Ascending(arg, old, edi, esi, mem, Unit(arg) * q), NEW j \in 0 .. Unit(arg) - 1
  PROVE  Stored(j) = Target(arg, old, edi + j)
<1>1. Unit(arg) \in {2, 4} /\ arg.fn \notin Copies /\ arg.fn # "memset"
  BY UnitOfWords
<1>2. arg.n \in Nat /\ arg.s \in Nat
  BY CallFacts
<1>3. edi = arg.s + (Unit(arg) * arg.n) - (Unit(arg) * q) /\ Unit(arg) * q <= Unit(arg) * arg.n
  BY DEF Ascending
<1> DEFINE k == (Unit(arg) * arg.n) - (Unit(arg) * q) + j
<1>4. /\ k \in Nat /\ k < Unit(arg) * arg.n /\ edi + j = arg.s + k
      /\ k % Unit(arg) = j
  <2>1. CASE Unit(arg) = 2
    BY <1>2, <1>3, <2>1
  <2>2. CASE Unit(arg) = 4
    BY <1>2, <1>3, <2>2
  <2>3. QED
    BY <1>1, <2>1, <2>2
<1>5. Stored(j) = arg.c[j]
  BY <1>1 DEF Stored
<1> HIDE DEF k
<1>6. Target(arg, old, edi + j) = arg.c[k % Unit(arg)]
  BY <1>1, <1>4, TargetInside
<1>7. QED
  BY <1>4, <1>5, <1>6

\* An ascending call that has nothing left to do is done.
LEMMA AscendedAll ==
  ASSUME arg \in Calls, Legal(arg), Ascending(arg, old, edi, esi, mem, 0), NEW x \in Addr
  PROVE  mem[x] = Target(arg, old, x)
<1> DEFINE N == Unit(arg) * arg.n
<1>1. N \in Nat /\ edi = arg.s + N - 0 /\ arg.s \in Nat /\ x \in Int
  BY CallFacts DEF Ascending, Addr
<1>2. mem[x] = IF x < edi THEN Target(arg, old, x) ELSE old[x]
  BY DEF Ascending
<1> HIDE DEF N
<1>3. CASE x < edi
  BY <1>2, <1>3
<1>4. CASE ~(x < edi)
  <2>1. x >= arg.s + N
    BY <1>1, <1>4
  <2>2. Target(arg, old, x) = old[x]
    BY <1>1, <2>1, TargetOutside DEF N
  <2>3. QED
    BY <1>2, <1>4, <2>2
<1>5. QED
  BY <1>3, <1>4

\* memmove going down: the byte below those done comes from below.
LEMMA PutDescends ==
  ASSUME NEW r \in Nat, r > 0, arg \in Calls, Legal(arg), MTypeOK,
         arg.fn = "memmove", arg.src < arg.s,
         Descending(arg, old, edi, esi, mem, r), Put(1, -1)
  PROVE  Descending(arg, old, edi', esi', mem', r - 1)
<1>1. /\ arg.n \in Nat /\ arg.s \in Nat /\ arg.src \in Nat /\ Size \in Nat
      /\ arg.src + arg.n <= Size /\ arg.fn \in Copies /\ Unit(arg) * arg.n = arg.n
  BY CallFacts, UnitOne DEF Copies
<1>2. /\ r <= arg.n /\ edi = arg.s + r - 1 /\ esi = arg.src + r - 1
      /\ \A x \in Addr : mem[x] = IF x > edi THEN Target(arg, old, x) ELSE old[x]
  BY DEF Descending
<1>3. edi' = edi - 1 /\ esi' = esi - 1
  BY <1>1, <1>2 DEF Put
<1>4. Stored(0) = Target(arg, old, edi)
  <2> DEFINE k == r - 1
  <2>1. /\ esi \in Addr /\ ~(esi > edi) /\ esi = esi + 0
        /\ k \in Nat /\ k < arg.n /\ edi = arg.s + k /\ esi = arg.src + k
    BY <1>1, <1>2 DEF Addr
  <2>2. Stored(0) = mem[esi + 0]
    BY <1>1 DEF Stored, Copies
  <2>3. mem[esi] = old[esi]
    BY <1>2, <2>1
  <2> HIDE DEF k
  <2>4. Stored(0) = old[esi]
    BY <2>1, <2>2, <2>3
  <2>5. k \in Nat /\ k < Unit(arg) * arg.n /\ edi = arg.s + k /\ arg.fn \in Copies
    BY <1>1, <2>1
  <2>6. Target(arg, old, edi) = old[arg.src + k]
    BY ONLY <2>5, TargetInside, arg \in Calls, Legal(arg)
  <2>7. QED
    BY <2>1, <2>4, <2>6
<1>5. ASSUME NEW x \in Addr
      PROVE  mem'[x] = IF x > edi' THEN Target(arg, old, x) ELSE old[x]
  <2>1. x \in Int
    BY DEF Addr
  <2>2. mem'[x] = IF edi <= x /\ x < edi + 1 THEN Stored(x - edi) ELSE mem[x]
    BY DEF Put
  <2>3. CASE x = edi
    BY <1>1, <1>2, <1>3, <1>4, <2>1, <2>2, <2>3
  <2>4. CASE x # edi
    BY <1>1, <1>2, <1>3, <2>1, <2>2, <2>4
  <2>5. QED
    BY <2>3, <2>4
<1> DEFINE q == r - 1
<1>6. /\ q \in Nat /\ q <= arg.n
      /\ edi' = arg.s + q - 1 /\ esi' = arg.src + q - 1
  <2> DEFINE a == arg.s
             b == arg.src
             n == arg.n
  <2>1. /\ a \in Nat /\ b \in Nat /\ n \in Nat /\ r <= n
        /\ edi' = a + r - 1 - 1 /\ esi' = b + r - 1 - 1
    BY <1>1, <1>2, <1>3
  <2> HIDE DEF a, b, n
  <2>2. q \in Nat /\ q <= n /\ edi' = a + q - 1 /\ esi' = b + q - 1
    BY <2>1
  <2>3. QED
    BY <2>2 DEF a, b, n
<1> HIDE DEF q
<1>7. Descending(arg, old, edi', esi', mem', q)
  BY <1>5, <1>6 DEF Descending
<1>8. QED
  BY <1>7 DEF q

LEMMA DescendedAll ==
  ASSUME arg \in Calls, Legal(arg), arg.fn = "memmove",
         Descending(arg, old, edi, esi, mem, 0), NEW x \in Addr
  PROVE  mem[x] = Target(arg, old, x)
<1>1. edi = arg.s + 0 - 1 /\ arg.s \in Nat /\ x \in Int
      /\ mem[x] = IF x > edi THEN Target(arg, old, x) ELSE old[x]
  BY CallFacts DEF Descending, Addr
<1>2. CASE x > edi
  BY <1>1, <1>2
<1>3. CASE ~(x > edi)
  <2>1. x < arg.s
    BY <1>1, <1>3
  <2>2. Target(arg, old, x) = old[x]
    BY <1>1, <2>1, TargetOutside
  <2>3. QED
    BY <1>1, <1>3, <2>2
<1>4. QED
  BY <1>2, <1>3

\* What a store does to everything but the contents of memory.
LEMMA PutFrame ==
  ASSUME MTypeOK, NEW w \in Int, NEW d \in Int, Put(w, d), \A x \in Addr : mem'[x] \in Bytes
  PROVE  /\ mem' \in [Addr -> Bytes] /\ old' \in [Addr -> Bytes] /\ old' = old
         /\ arg' = arg /\ edi' \in Int /\ esi' \in Int
<1>1. edi \in Int /\ esi \in Int /\ old \in [Addr -> Bytes]
  BY DEF MTypeOK
<1>2. /\ edi' = edi + d /\ esi' = IF arg.fn \in Copies THEN esi + d ELSE esi
      /\ old' = old /\ arg' = arg
  BY DEF Put
<1>3. mem' = [x \in Addr |-> mem'[x]]
  BY DEF Put
<1>4. mem' \in [Addr -> Bytes]
  BY <1>3
<1>5. QED
  BY <1>1, <1>2, <1>4

LEMMA AscendingBytes ==
  ASSUME arg \in Calls, Legal(arg), old \in [Addr -> Bytes],
         NEW d, NEW e, NEW m, NEW r, Ascending(arg, old, d, e, m, r)
  PROVE  \A x \in Addr : m[x] \in Bytes
BY TargetIsByte DEF Ascending

LEMMA DescendingBytes ==
  ASSUME arg \in Calls, Legal(arg), old \in [Addr -> Bytes],
         NEW d, NEW e, NEW m, NEW r, Descending(arg, old, d, e, m, r)
  PROVE  \A x \in Addr : m[x] \in Bytes
BY TargetIsByte DEF Descending

\* An upward store of w bytes by memset, memcpy or an upward memmove.
LEMMA UpwardStore ==
  ASSUME MTypeOK, arg \in Calls, Legal(arg), NEW r \in Nat, NEW w \in Nat, w <= r,
         \/ arg.fn \in {"memset", "memcpy"}
         \/ arg.fn = "memmove" /\ arg.s <= arg.src,
         Ascending(arg, old, edi, esi, mem, r), Put(w, w)
  PROVE  /\ Ascending(arg, old, edi', esi', mem', r - w)
         /\ mem' \in [Addr -> Bytes] /\ old' \in [Addr -> Bytes] /\ old' = old
         /\ arg' = arg /\ edi' \in Int /\ esi' \in Int
<1>1. ASSUME NEW j \in 0 .. w - 1
      PROVE  Stored(j) = Target(arg, old, edi + j)
  <2>1. CASE arg.fn = "memset"
    BY <2>1, FillStores
  <2>2. CASE arg.fn = "memcpy" \/ (arg.fn = "memmove" /\ arg.s <= arg.src)
    BY <2>2, CopyStores
  <2>3. QED
    BY <2>1, <2>2
<1>2. Ascending(arg, old, edi', esi', mem', r - w)
  BY <1>1, PutAscends
<1>3. \A x \in Addr : mem'[x] \in Bytes
  <2>1. old \in [Addr -> Bytes]
    BY DEF MTypeOK
  <2>2. QED
    BY <1>2, <2>1, AscendingBytes
<1>4. w \in Int
  OBVIOUS
<1>5. QED
  BY <1>2, <1>3, <1>4, PutFrame

-----------------------------------------------------------------------------
LEMMA InitMemoryInv == MInit => MemoryInv
<1> SUFFICES ASSUME MInit PROVE MemoryInv
  OBVIOUS
<1>1. mem \in [Addr -> Bytes] /\ old = mem
  BY MemoryAssumption DEF MInit
<1>2. MTypeOK
  <2>1. df \in BOOLEAN
    BY Zenon DEF MInit
  <2>2. edi \in Int /\ esi \in Int /\ ecx \in Nat /\ edx \in Nat
    BY DEF MInit
  <2>3. at = "idle" /\ arg = NULL
    BY DEF MInit
  <2>4. QED
    BY <1>1, <2>1, <2>2, <2>3 DEF MTypeOK
<1>3. QED
  BY <1>1, <1>2 DEF MInit, MemoryInv, StepInv

\* A call begins with nothing done and everything to do.
LEMMA StartKeepsInv ==
  ASSUME MemoryInv, NEW a \in Calls, Legal(a), Start(a)
  PROVE  MemoryInv'
<1> DEFINE N == Unit(a) * a.n
<1>1. /\ a.fn \in Fills \cup Copies /\ a.s \in Nat /\ a.src \in Nat /\ a.n \in Nat /\ N \in Nat
      /\ Unit(a) \in {1, 2, 4}
  BY CallFacts
<1>2. mem = old /\ mem \in [Addr -> Bytes] /\ edx \in Nat /\ df \in BOOLEAN
  BY DEF MemoryInv, MTypeOK, Start
<1>3. /\ arg' = a /\ at' = FirstStep(a.fn) /\ mem' = mem /\ old' = old
      /\ ecx' = a.n /\ edx' = edx
  BY DEF Start
<1>4. CASE a.fn = "memmove" /\ a.src < a.s
  <2>1. at' = "movsb" /\ df' = TRUE /\ edi' = a.s + a.n - 1 /\ esi' = a.src + a.n - 1
    BY <1>3, <1>4 DEF Start, FirstStep
  <2>2. N = a.n
    BY <1>4, UnitOne
  <2>3. ASSUME NEW x \in Addr
        PROVE  mem[x] = IF x > edi' THEN Target(a, old, x) ELSE old[x]
    <3>1. x \in Int
      BY DEF Addr
    <3>2. x > edi' => Target(a, old, x) = old[x]
      <4>1. x > edi' => x >= a.s + N
        BY <1>1, <2>1, <2>2, <3>1
      <4> HIDE DEF N
      <4>2. QED
        BY <3>1, <4>1, TargetOutside DEF N
    <3>3. QED
      BY <1>2, <3>2
  <2>4. Descending(a, old, edi', esi', mem, a.n)
    BY <1>1, <2>1, <2>3 DEF Descending
  <2>5. MTypeOK'
    BY <1>1, <1>2, <1>3, <2>1 DEF MTypeOK
  <2>6. StepInv'
    BY <1>3, <1>4, <2>1, <2>4 DEF StepInv
  <2>7. QED
    BY <1>3, <2>1, <2>5, <2>6 DEF MemoryInv
<1>5. CASE ~(a.fn = "memmove" /\ a.src < a.s)
  <2>1. edi' = a.s /\ esi' = a.src
    BY <1>3, <1>5 DEF Start
  <2>2. df' = IF at' = "top" THEN df ELSE FALSE
    BY <1>3, <1>5 DEF Start
  <2>3. ASSUME NEW x \in Addr
        PROVE  mem[x] = IF x < edi' THEN Target(a, old, x) ELSE old[x]
    <3>1. x \in Int
      BY DEF Addr
    <3>2. QED
      BY <1>2, <2>1, <3>1, TargetOutside
  <2>4. Ascending(a, old, edi', esi', mem, N)
    <3>1. N \in Nat /\ N <= N /\ edi' = a.s + N - N /\ esi' = a.src + N - N
      BY <1>1, <2>1
    <3>2. QED
      BY <2>3, <3>1 DEF Ascending
  <2>5. MTypeOK'
    <3>1. df' \in BOOLEAN
      BY <1>2, <2>2
    <3>2. at' \in {"top", "movsb", "stos"}
      BY <1>3 DEF FirstStep
    <3>3. edi' \in Int /\ esi' \in Int /\ ecx' \in Nat /\ edx' \in Nat
      BY <1>1, <1>2, <1>3, <2>1
    <3>4. QED
      BY <1>2, <1>3, <3>1, <3>2, <3>3 DEF MTypeOK
  <2>6. CASE a.fn \in {"memset", "memcpy"}
    <3>1. at' = "top" /\ N = a.n
      BY <1>3, <2>6, UnitOne DEF FirstStep
    <3>2. StepInv'
      BY <1>3, <2>4, <2>6, <3>1 DEF StepInv
    <3>3. QED
      BY <1>3, <2>5, <3>1, <3>2 DEF MemoryInv
  <2>7. CASE a.fn = "memmove"
    <3>1. at' = "movsb" /\ N = a.n
      BY <1>3, <2>7, UnitOne DEF FirstStep
    <3>2. df' = FALSE /\ ~(a.src < a.s)
      BY <1>5, <2>2, <2>7, <3>1
    <3>3. StepInv'
      BY <1>3, <1>5, <2>2, <2>4, <2>7, <3>1, <3>2 DEF StepInv
    <3>4. QED
      BY <1>3, <2>5, <3>1, <3>3 DEF MemoryInv
  <2>8. CASE a.fn \in {"memset_word", "memset_dword"}
    <3>1. at' = "stos" /\ df' = FALSE
      BY <1>3, <2>2, <2>8 DEF FirstStep
    <3>2. StepInv'
      BY <1>3, <2>4, <2>8, <3>1 DEF StepInv
    <3>3. QED
      BY <1>3, <2>5, <3>1, <3>2 DEF MemoryInv
  <2>9. QED
    BY <1>1, <2>6, <2>7, <2>8 DEF Fills, Copies
<1>6. QED
  BY <1>4, <1>5

\* A loop that has nothing left goes on with what is next, or is done.
LEMMA LeaveKeepsInv ==
  ASSUME MemoryInv, at \in {"top", "rep", "bottom", "stos", "movsb"}, NEW step, Leave(step),
         \/ step = "done" /\ \A x \in Addr : mem[x] = Target(arg, old, x)
         \/ step = "bottom" /\ arg.fn \in {"memset", "memcpy"}
                            /\ Ascending(arg, old, edi, esi, mem, edx)
  PROVE  MemoryInv'
<1>1. /\ at' = step /\ mem' = mem /\ old' = old /\ arg' = arg /\ edi' = edi
      /\ esi' = esi /\ ecx' = ecx /\ edx' = edx /\ df' = df
  BY DEF Leave
<1>2. MTypeOK'
  <2>1. MTypeOK
    BY DEF MemoryInv
  <2>2. QED
    BY <1>1, <2>1 DEF MTypeOK
<1>3. arg \in Calls /\ Legal(arg)
  BY DEF MemoryInv
<1>4. StepInv'
  BY <1>1 DEF StepInv
<1>5. QED
  BY <1>1, <1>2, <1>3, <1>4 DEF MemoryInv

\* What MemoryInv says of a call in progress.
LEMMA InProgress ==
  ASSUME MemoryInv, at # "idle"
  PROVE  /\ MTypeOK /\ arg \in Calls /\ Legal(arg)
         /\ ecx \in Nat /\ edx \in Nat /\ df \in BOOLEAN
BY DEF MemoryInv, MTypeOK

LEMMA TopKeepsInv ==
  ASSUME MemoryInv, Top
  PROVE  MemoryInv'
<1>1. /\ at = "top" /\ MTypeOK /\ arg \in Calls /\ Legal(arg)
      /\ ecx \in Nat /\ edx \in Nat /\ df \in BOOLEAN
  BY InProgress DEF Top
<1>2. Ascending(arg, old, edi, esi, mem, ecx) /\ arg.fn \in {"memset", "memcpy"}
  BY <1>1 DEF MemoryInv, StepInv
<1>3. CASE ecx = 0 /\ Leave("done")
  <2>1. Ascending(arg, old, edi, esi, mem, 0)
    BY <1>2, <1>3
  <2>2. QED
    BY <1>1, <1>3, <2>1, AscendedAll, LeaveKeepsInv
<1>4. CASE /\ ecx # 0 /\ edi % 4 = 0
           /\ edx' = ecx % 4 /\ ecx' = ecx \div 4
           /\ df' = FALSE
           /\ at' = "rep"
           /\ UNCHANGED <<mem, old, arg, edi, esi>>
  <2>1. ecx' \in Nat /\ edx' \in Nat /\ 4 * ecx' + edx' = ecx
    BY <1>1, <1>4
  <2>2. MTypeOK'
    BY <1>1, <1>4, <2>1 DEF MTypeOK
  <2>3. Ascending(arg, old, edi, esi, mem, 4 * ecx' + edx')
    BY <1>2, <2>1
  <2>4. StepInv'
    BY <1>2, <1>4, <2>3 DEF StepInv
  <2>5. QED
    BY <1>1, <1>4, <2>2, <2>4 DEF MemoryInv
<1>5. CASE /\ ecx # 0 /\ edi % 4 # 0
           /\ Put(1, 1)
           /\ ecx' = ecx - 1
           /\ UNCHANGED <<at, edx, df>>
  <2>1. /\ Ascending(arg, old, edi', esi', mem', ecx - 1)
        /\ mem' \in [Addr -> Bytes] /\ old' \in [Addr -> Bytes] /\ old' = old
        /\ arg' = arg /\ edi' \in Int /\ esi' \in Int
    BY <1>1, <1>2, <1>5, UpwardStore
  <2>2. ecx' \in Nat /\ edx' \in Nat /\ df' = df /\ at' = "top"
    BY <1>1, <1>5
  <2>3. MTypeOK'
    BY <1>1, <2>1, <2>2 DEF MTypeOK
  <2>4. Ascending(arg, old, edi', esi', mem', ecx')
    BY <1>5, <2>1
  <2>5. StepInv'
    BY <1>2, <2>1, <2>2, <2>4 DEF StepInv
  <2>6. QED
    BY <1>1, <2>1, <2>2, <2>3, <2>5 DEF MemoryInv
<1>6. QED
  BY <1>3, <1>4, <1>5 DEF Top

LEMMA BottomKeepsInv ==
  ASSUME MemoryInv, Bottom
  PROVE  MemoryInv'
<1>1. /\ at = "bottom" /\ MTypeOK /\ arg \in Calls /\ Legal(arg)
      /\ ecx \in Nat /\ edx \in Nat /\ df \in BOOLEAN
  BY InProgress DEF Bottom
<1>2. Ascending(arg, old, edi, esi, mem, edx) /\ arg.fn \in {"memset", "memcpy"}
  BY <1>1 DEF MemoryInv, StepInv
<1>3. CASE edx = 0 /\ Leave("done")
  <2>1. Ascending(arg, old, edi, esi, mem, 0)
    BY <1>2, <1>3
  <2>2. QED
    BY <1>1, <1>3, <2>1, AscendedAll, LeaveKeepsInv
<1>4. CASE edx # 0 /\ Put(1, 1) /\ edx' = edx - 1 /\ UNCHANGED <<at, ecx, df>>
  <2>1. /\ Ascending(arg, old, edi', esi', mem', edx - 1)
        /\ mem' \in [Addr -> Bytes] /\ old' \in [Addr -> Bytes] /\ old' = old
        /\ arg' = arg /\ edi' \in Int /\ esi' \in Int
    BY <1>1, <1>2, <1>4, UpwardStore
  <2>2. ecx' \in Nat /\ edx' \in Nat /\ df' = df /\ at' = "bottom"
    BY <1>1, <1>4
  <2>3. MTypeOK'
    BY <1>1, <2>1, <2>2 DEF MTypeOK
  <2>4. Ascending(arg, old, edi', esi', mem', edx')
    BY <1>4, <2>1
  <2>5. StepInv'
    BY <1>2, <2>1, <2>2, <2>4 DEF StepInv
  <2>6. QED
    BY <1>1, <2>1, <2>2, <2>3, <2>5 DEF MemoryInv
<1>5. QED
  BY <1>3, <1>4 DEF Bottom

\* rep stosl and rep movsl, four bytes at a time.
LEMMA RepFoursKeepsInv ==
  ASSUME MemoryInv, Rep("rep", 4, "bottom")
  PROVE  MemoryInv'
<1>1. /\ at = "rep" /\ MTypeOK /\ arg \in Calls /\ Legal(arg)
      /\ ecx \in Nat /\ edx \in Nat /\ df \in BOOLEAN
  BY InProgress DEF Rep
<1>2. /\ Ascending(arg, old, edi, esi, mem, 4 * ecx + edx) /\ arg.fn \in {"memset", "memcpy"}
      /\ ~df
  BY <1>1 DEF MemoryInv, StepInv
<1>3. CASE ecx = 0 /\ Leave("bottom")
  <2>1. 4 * ecx + edx = edx
    BY <1>1, <1>3
  <2>2. Ascending(arg, old, edi, esi, mem, edx)
    BY <1>2, <2>1
  <2>3. QED
    BY <1>1, <1>2, <1>3, <2>2, LeaveKeepsInv
<1>4. CASE ecx # 0 /\ Put(4, Down(4)) /\ ecx' = ecx - 1 /\ UNCHANGED <<at, edx, df>>
  <2>1. Put(4, 4)
    BY <1>2, <1>4 DEF Down
  <2> DEFINE r == 4 * ecx + edx
  <2>2. r \in Nat /\ 4 <= r /\ r - 4 = 4 * ecx' + edx'
    BY <1>1, <1>4
  <2> HIDE DEF r
  <2>3. Ascending(arg, old, edi, esi, mem, r)
    BY <1>2 DEF r
  <2>4. /\ Ascending(arg, old, edi', esi', mem', r - 4)
        /\ mem' \in [Addr -> Bytes] /\ old' \in [Addr -> Bytes] /\ old' = old
        /\ arg' = arg /\ edi' \in Int /\ esi' \in Int
    BY <1>1, <1>2, <2>1, <2>2, <2>3, UpwardStore
  <2>5. ecx' \in Nat /\ edx' \in Nat /\ df' = df /\ at' = "rep"
    BY <1>1, <1>4
  <2>6. MTypeOK'
    BY <1>1, <2>4, <2>5 DEF MTypeOK
  <2>7. Ascending(arg, old, edi', esi', mem', 4 * ecx' + edx')
    BY <2>2, <2>4
  <2>8. StepInv'
    BY <1>2, <2>4, <2>5, <2>7 DEF StepInv
  <2>9. QED
    BY <1>1, <2>4, <2>5, <2>6, <2>8 DEF MemoryInv
<1>5. QED
  BY <1>3, <1>4 DEF Rep

\* rep stosw and rep stosl of the word fills.
LEMMA RepWordsKeepsInv ==
  ASSUME MemoryInv, Rep("stos", Unit(arg), "done")
  PROVE  MemoryInv'
<1> DEFINE u == Unit(arg)
<1>1. /\ at = "stos" /\ MTypeOK /\ arg \in Calls /\ Legal(arg)
      /\ ecx \in Nat /\ edx \in Nat /\ df \in BOOLEAN
  BY InProgress DEF Rep
<1>2. /\ Ascending(arg, old, edi, esi, mem, u * ecx)
      /\ arg.fn \in {"memset_word", "memset_dword"} /\ ~df
  BY <1>1 DEF MemoryInv, StepInv
<1>3. u \in {2, 4}
  BY <1>1, <1>2, UnitOfWords
<1>4. CASE ecx = 0 /\ Leave("done")
  <2>1. u * ecx = 0
    BY <1>3, <1>4
  <2>2. Ascending(arg, old, edi, esi, mem, 0)
    BY <1>2, <2>1
  <2>3. QED
    BY <1>1, <1>4, <2>2, AscendedAll, LeaveKeepsInv
<1>5. CASE ecx # 0 /\ Put(u, Down(u)) /\ ecx' = ecx - 1 /\ UNCHANGED <<at, edx, df>>
  <2>1. Put(u, u)
    BY <1>2, <1>5 DEF Down
  <2>2. \A j \in 0 .. u - 1 : Stored(j) = Target(arg, old, edi + j)
    BY <1>1, <1>2, <1>5, WordStores
  <2>3. u \in Nat /\ u * ecx \in Nat /\ u <= u * ecx /\ (u * ecx) - u = u * ecx'
    <3>1. CASE u = 2
      BY <1>1, <1>5, <3>1
    <3>2. CASE u = 4
      BY <1>1, <1>5, <3>2
    <3>3. QED
      BY <1>3, <3>1, <3>2
  <2>4. arg' = arg
    BY <2>1 DEF Put
  <2> HIDE DEF u
  <2>5. Ascending(arg, old, edi', esi', mem', (u * ecx) - u)
    BY <1>1, <1>2, <2>1, <2>2, <2>3, PutAscends
  <2>6. \A x \in Addr : mem'[x] \in Bytes
    <3>1. old \in [Addr -> Bytes]
      BY <1>1 DEF MTypeOK
    <3>2. QED
      BY <1>1, <2>5, <3>1, AscendingBytes
  <2>7. /\ mem' \in [Addr -> Bytes] /\ old' \in [Addr -> Bytes] /\ old' = old
        /\ edi' \in Int /\ esi' \in Int
    <3>1. u \in Int
      BY <2>3
    <3>2. QED
      BY <1>1, <2>1, <2>6, <3>1, PutFrame
  <2>8. ecx' \in Nat /\ edx' \in Nat /\ df' = df /\ at' = "stos"
    BY <1>1, <1>5
  <2>9. MTypeOK'
    BY <1>1, <2>4, <2>7, <2>8 DEF MTypeOK
  <2>10. Unit(arg') = u
    BY <2>4 DEF u
  <2>11. Ascending(arg, old, edi', esi', mem', Unit(arg') * ecx')
    BY <2>3, <2>5, <2>10
  <2>12. StepInv'
    BY <1>2, <2>4, <2>7, <2>8, <2>11 DEF StepInv
  <2>13. QED
    BY <1>1, <2>4, <2>7, <2>8, <2>9, <2>12 DEF MemoryInv
<1>6. QED
  BY <1>4, <1>5 DEF Rep

\* rep movsb of memmove, in either direction.
LEMMA RepMoveKeepsInv ==
  ASSUME MemoryInv, Rep("movsb", 1, "done")
  PROVE  MemoryInv'
<1>1. /\ at = "movsb" /\ MTypeOK /\ arg \in Calls /\ Legal(arg)
      /\ ecx \in Nat /\ edx \in Nat /\ df \in BOOLEAN
  BY InProgress DEF Rep
<1>2. /\ arg.fn = "memmove"
      /\ df <=> arg.src < arg.s
      /\ df => Descending(arg, old, edi, esi, mem, ecx)
      /\ ~df => Ascending(arg, old, edi, esi, mem, ecx)
  BY <1>1 DEF MemoryInv, StepInv
<1>3. CASE ecx = 0 /\ Leave("done")
  <2>1. /\ df => Descending(arg, old, edi, esi, mem, 0)
        /\ ~df => Ascending(arg, old, edi, esi, mem, 0)
    BY <1>2, <1>3
  <2>2. \A x \in Addr : mem[x] = Target(arg, old, x)
    BY <1>1, <1>2, <2>1, AscendedAll, DescendedAll
  <2>3. QED
    BY <1>1, <1>3, <2>2, LeaveKeepsInv
<1>4. ASSUME ecx # 0, Put(1, Down(1)), ecx' = ecx - 1, UNCHANGED <<at, edx, df>>
      PROVE  MemoryInv'
  <2>1. ecx' \in Nat /\ edx' \in Nat /\ df' = df /\ at' = "movsb" /\ ecx > 0 /\ 1 <= ecx
    BY <1>1, <1>4
  <2>2. /\ df => Descending(arg, old, edi', esi', mem', ecx')
        /\ ~df => Ascending(arg, old, edi', esi', mem', ecx')
        /\ mem' \in [Addr -> Bytes] /\ old' \in [Addr -> Bytes] /\ old' = old
        /\ arg' = arg /\ edi' \in Int /\ esi' \in Int
    <3>1. CASE df
      <4>1. Put(1, -1)
        BY <1>4, <3>1 DEF Down
      <4>2. Descending(arg, old, edi', esi', mem', ecx - 1)
        BY <1>1, <1>2, <2>1, <3>1, <4>1, PutDescends
      <4>3. \A x \in Addr : mem'[x] \in Bytes
        <5>1. old \in [Addr -> Bytes]
          BY <1>1 DEF MTypeOK
        <5>2. QED
          BY <1>1, <4>2, <5>1, DescendingBytes
      <4>4. QED
        BY <1>1, <1>4, <3>1, <4>1, <4>2, <4>3, PutFrame
    <3>2. CASE ~df
      <4>1. Put(1, 1)
        BY <1>4, <3>2 DEF Down
      <4>2. arg.s <= arg.src
        BY <1>1, <1>2, <3>2, CallFacts
      <4>3. /\ Ascending(arg, old, edi', esi', mem', ecx - 1)
            /\ mem' \in [Addr -> Bytes] /\ old' \in [Addr -> Bytes] /\ old' = old
            /\ arg' = arg /\ edi' \in Int /\ esi' \in Int
        BY <1>1, <1>2, <2>1, <3>2, <4>1, <4>2, UpwardStore
      <4>4. QED
        BY <1>4, <3>2, <4>3
    <3>3. QED
      BY <3>1, <3>2
  <2>3. MTypeOK'
    <3>1. df' \in BOOLEAN
      BY <1>1, <2>1
    <3>2. QED
      BY <1>1, <2>1, <2>2, <3>1 DEF MTypeOK
  <2>4. StepInv'
    BY <1>2, <2>1, <2>2 DEF StepInv
  <2>5. QED
    BY <1>1, <2>1, <2>2, <2>3, <2>4 DEF MemoryInv
<1>5. QED
  BY <1>3, <1>4 DEF Rep

LEMMA ReturnKeepsInv ==
  ASSUME MemoryInv, NEW m \in Fresh, Return(m)
  PROVE  MemoryInv'
<1>1. /\ at' = "idle" /\ arg' = NULL /\ mem' = m /\ old' = m
      /\ edi' = 0 /\ esi' = 0 /\ ecx' = 0 /\ edx' = 0 /\ df' = df
  BY DEF Return
<1>2. m \in [Addr -> Bytes] /\ df \in BOOLEAN
  BY MemoryAssumption DEF MemoryInv, MTypeOK
<1>3. MTypeOK'
  <2>1. edi' \in Int /\ esi' \in Int /\ ecx' \in Nat /\ edx' \in Nat
    BY <1>1
  <2>2. QED
    BY <1>1, <1>2, <2>1 DEF MTypeOK
<1>4. QED
  BY <1>1, <1>3 DEF MemoryInv, StepInv

LEMMA NextMemoryInv == MemoryInv /\ [MNext]_mVars => MemoryInv'
<1> SUFFICES ASSUME MemoryInv, [MNext]_mVars PROVE MemoryInv'
  OBVIOUS
<1>1. CASE MLoop
  BY <1>1, TopKeepsInv, BottomKeepsInv, RepFoursKeepsInv, RepWordsKeepsInv, RepMoveKeepsInv
     DEF MLoop
<1>2. CASE MCallOrReturn
  BY <1>2, StartKeepsInv, ReturnKeepsInv DEF MCallOrReturn
<1>3. CASE UNCHANGED mVars
  BY <1>3 DEF mVars, MemoryInv, MTypeOK, StepInv
<1>4. QED
  BY <1>1, <1>2, <1>3 DEF MNext

-----------------------------------------------------------------------------
(* Numerals.                                                               *)

\* A power by repeated multiplication.
LEMMA PowerFacts ==
  ASSUME NEW b \in Nat
  PROVE  /\ Power(b)[0] = 1
         /\ \A n \in Nat : Power(b)[n] \in Nat /\ Power(b)[n + 1] = b * Power(b)[n]
<1> DEFINE step == [n \in Nat |-> [x \in Nat |-> b * x]]
           Pow(g) == [k \in Nat |-> IF k = 0 THEN 1 ELSE b * g[k - 1]]
           p == CHOOSE g : g = Pow(g)
<1>1. step \in Steps(Nat)
  BY DEF Steps
<1>2. PICK F : TakesSteps(F, Nat, 1, step)
  <2> HIDE DEF step
  <2>1. QED
    BY <1>1, SequenceOfSteps
<1>3. /\ F \in [Nat -> Nat] /\ F[0] = 1
      /\ \A n \in Nat : F[n + 1] = b * F[n]
  BY <1>2 DEF TakesSteps
<1>4. F = Pow(F)
  <2>1. ASSUME NEW k \in Nat PROVE F[k] = IF k = 0 THEN 1 ELSE b * F[k - 1]
    <3>1. CASE k = 0
      BY <1>3, <3>1
    <3>2. CASE k # 0
      <4>1. k - 1 \in Nat /\ (k - 1) + 1 = k
        BY <3>2
      <4>2. QED
        BY <1>3, <3>2, <4>1
    <3>3. QED
      BY <3>1, <3>2
  <2>2. QED
    BY <1>3, <2>1
<1>5. p = Pow(p)
  <2> HIDE DEF Pow
  <2>1. QED
    BY <1>4
<1>6. Power(b) = p
  BY DEF Power
<1> HIDE DEF p
<1>7. \A k \in Nat : p[k] = IF k = 0 THEN 1 ELSE b * p[k - 1]
  <2>1. \A k \in Nat : p[k] = Pow(p)[k]
    BY <1>5
  <2>2. QED
    BY <2>1
<1>8. \A n \in Nat : p[n + 1] = b * p[n]
  <2> SUFFICES ASSUME NEW n \in Nat PROVE p[n + 1] = b * p[n]
    OBVIOUS
  <2>1. n + 1 \in Nat /\ n + 1 # 0 /\ (n + 1) - 1 = n
    OBVIOUS
  <2>2. p[n + 1] = b * p[(n + 1) - 1]
    BY <1>7, <2>1
  <2>3. QED
    BY <2>1, <2>2
<1>9. \A n \in Nat : p[n] \in Nat
  <2> DEFINE N == {n \in Nat : p[n] \in Nat}
  <2>1. 0 \in N
    BY <1>7
  <2>2. ASSUME NEW n \in Nat, n \in N PROVE n + 1 \in N
    BY <1>8, <2>2
  <2> HIDE DEF N
  <2>3. \A n \in Nat : n \in N
    BY <2>1, <2>2, InductionOnSet
  <2>4. QED
    BY <2>3 DEF N
<1>10. QED
  BY <1>6, <1>7, <1>8, <1>9

\* A product of naturals grows with its factors.
LEMMA ProductGrows ==
  ASSUME NEW a \in Nat, NEW b \in Nat, NEW c \in Nat, b <= c
  PROVE  a * b <= a * c /\ a * b \in Nat /\ a * c \in Nat
<1>1. PICK d \in Nat : c = b + d
  <2>1. c - b \in Nat /\ c = b + (c - b)
    OBVIOUS
  <2>2. QED
    BY <2>1
<1>2. a * c = (a * b) + (a * d)
  BY <1>1
<1>3. a * d \in Nat /\ a * b \in Nat
  OBVIOUS
<1>4. QED
  BY <1>2, <1>3

LEMMA PowerGrows ==
  ASSUME NEW b \in Nat, b >= 2
  PROVE  /\ \A n \in Nat : Power(b)[n] > n
         /\ \A m, n \in Nat : m <= n => Power(b)[m] <= Power(b)[n]
<1> DEFINE p == Power(b)
<1>1. p[0] = 1 /\ \A n \in Nat : p[n] \in Nat /\ p[n + 1] = b * p[n]
  BY PowerFacts
<1> HIDE DEF p
<1>2. ASSUME NEW n \in Nat, p[n] > n PROVE p[n + 1] > n + 1
  <2>1. p[n] * 2 <= p[n] * b
    BY <1>1, ProductGrows
  <2>2. p[n + 1] >= 2 * p[n] /\ p[n + 1] \in Nat /\ p[n] \in Nat
    <3>1. p[n + 1] = p[n] * b
      BY <1>1
    <3>2. QED
      BY <1>1, <2>1, <3>1
  <2>3. QED
    BY <1>2, <2>2
<1>3. \A n \in Nat : p[n] > n
  <2> DEFINE N == {n \in Nat : p[n] > n}
  <2>1. 0 \in N
    BY <1>1
  <2>2. ASSUME NEW n \in Nat, n \in N PROVE n + 1 \in N
    BY <1>2, <2>2
  <2> HIDE DEF N
  <2>3. \A n \in Nat : n \in N
    BY <2>1, <2>2, InductionOnSet
  <2>4. QED
    BY <2>3 DEF N
<1>4. ASSUME NEW m \in Nat PROVE \A n \in Nat : m <= n => p[m] <= p[n]
  <2> DEFINE N == {n \in Nat : m <= n => p[m] <= p[n]}
  <2>1. 0 \in N
    BY <1>1
  <2>2. ASSUME NEW n \in Nat, n \in N PROVE n + 1 \in N
    <3>1. p[n] * 1 <= p[n] * b
      <4>1. p[n] \in Nat /\ 1 \in Nat /\ 1 <= b
        BY <1>1
      <4>2. QED
        BY <4>1, ProductGrows
    <3>2. p[n] <= p[n + 1] /\ p[n] \in Nat /\ p[n + 1] \in Nat /\ p[m] \in Nat
      <4>1. p[n + 1] = p[n] * b
        BY <1>1
      <4>2. QED
        BY <1>1, <3>1, <4>1
    <3>3. QED
      BY <2>2, <3>2
  <2> HIDE DEF N
  <2>3. \A n \in Nat : n \in N
    BY <2>1, <2>2, InductionOnSet
  <2>4. QED
    BY <2>3 DEF N
<1>5. QED
  BY <1>3, <1>4 DEF p

\* Division with rest.
LEMMA Euclid ==
  ASSUME NEW v \in Nat, NEW b \in Nat, b > 0
  PROVE  /\ v \div b \in Nat /\ v % b \in Nat /\ v % b < b
         /\ v = (b * (v \div b)) + (v % b)
OBVIOUS

LEMMA QuotientIs ==
  ASSUME NEW v \in Nat, NEW b \in Nat, b > 0, NEW q \in Nat, NEW r \in Nat,
         r < b, v = (b * q) + r
  PROVE  v \div b = q /\ v % b = r
OBVIOUS

LEMMA DivideTwice ==
  ASSUME NEW v \in Nat, NEW b \in Nat, NEW c \in Nat, b > 0, c > 0
  PROVE  (v \div b) \div c = v \div (b * c)
<1> DEFINE q == v \div b
           r == v % b
           s == q \div c
           t == q % c
<1>1. q \in Nat /\ r \in Nat /\ r < b /\ v = (b * q) + r
  BY Euclid
<1> HIDE DEF q, r
<1>2. s \in Nat /\ t \in Nat /\ t < c /\ q = (c * s) + t
  BY <1>1, Euclid
<1> HIDE DEF s, t
<1>3. v = (b * c) * s + (b * t + r)
  <2>1. b * q = b * (c * s) + b * t
    BY <1>2
  <2>2. b * (c * s) = (b * c) * s
    BY <1>2
  <2>3. QED
    BY <1>1, <1>2, <2>1, <2>2
<1>4. b * t + r < b * c /\ b * t + r \in Nat /\ b * c \in Nat
  <2>1. b * t + b <= b * c
    <3>1. t + 1 \in Nat /\ t + 1 <= c
      BY <1>2
    <3>2. b * (t + 1) <= b * c
      BY <3>1, ProductGrows
    <3>3. b * (t + 1) = b * t + b
      BY <1>2
    <3>4. QED
      BY <3>2, <3>3
  <2>2. b * t \in Nat /\ b * c \in Nat
    BY <1>2, ProductGrows
  <2>3. QED
    BY <1>1, <2>1, <2>2
<1>5. v \div (b * c) = s
  <2>1. b * c > 0
    BY <1>1, <1>4
  <2> DEFINE bc == b * c
             rest == b * t + r
  <2>2. bc \in Nat /\ bc > 0 /\ rest \in Nat /\ rest < bc /\ v = (bc * s) + rest
    BY <1>3, <1>4, <2>1
  <2> HIDE DEF bc, rest
  <2>3. v \div bc = s
    BY <1>2, <2>2, QuotientIs
  <2>4. QED
    BY <2>3 DEF bc
<1>6. QED
  BY <1>5 DEF s, q

\* n digits in radix r are enough for v, and n - 1 are not.
Length(v, r, n) ==
  /\ n \in Nat /\ Power(r)[n] > v
  /\ n > 0 => Power(r)[n - 1] <= v

LEMMA LengthExists ==
  ASSUME NEW v \in Nat, NEW r \in Nat, r >= 2
  PROVE  \E n \in Nat : Length(v, r, n)
<1> DEFINE p == Power(r)
           S == {n \in Nat : p[n] > v}
<1>1. \A n \in Nat : p[n] \in Nat
  BY PowerFacts
<1>2. v \in S
  BY PowerGrows
<1> HIDE DEF p
<1>3. PICK m \in S : \A n \in S : m <= n
  <2>1. S \in SUBSET Nat /\ S # {}
    BY <1>2
  <2> HIDE DEF S
  <2>2. QED
    BY <2>1, LeastNatural
<1>4. ASSUME m > 0 PROVE p[m - 1] <= v
  <2>1. m - 1 \in Nat /\ m - 1 \notin S
    BY <1>3, <1>4
  <2>2. QED
    BY <1>1, <2>1
<1>5. QED
  BY <1>3, <1>4 DEF Length, p

LEMMA LengthUnique ==
  ASSUME NEW v \in Nat, NEW r \in Nat, r >= 2, NEW m, NEW n,
         Length(v, r, m), Length(v, r, n)
  PROVE  m = n
<1> DEFINE p == Power(r)
<1>1. m \in Nat /\ n \in Nat /\ p[m] > v /\ p[n] > v
      /\ (m > 0 => p[m - 1] <= v) /\ (n > 0 => p[n - 1] <= v)
  BY DEF Length
<1>2. /\ \A i \in Nat : p[i] \in Nat
      /\ \A i, j \in Nat : i <= j => p[i] <= p[j]
  BY PowerFacts, PowerGrows
<1> HIDE DEF p
<1>3. ASSUME m < n PROVE FALSE
  <2>1. n - 1 \in Nat /\ m <= n - 1 /\ n > 0
    BY <1>1, <1>3
  <2>2. p[m] <= p[n - 1] /\ p[n - 1] <= v /\ p[m] \in Nat /\ p[n - 1] \in Nat
    BY <1>1, <1>2, <2>1
  <2>3. QED
    BY <1>1, <2>2
<1>4. ASSUME n < m PROVE FALSE
  <2>1. m - 1 \in Nat /\ n <= m - 1 /\ m > 0
    BY <1>1, <1>4
  <2>2. p[n] <= p[m - 1] /\ p[m - 1] <= v /\ p[n] \in Nat /\ p[m - 1] \in Nat
    BY <1>1, <1>2, <2>1
  <2>3. QED
    BY <1>1, <2>2
<1>5. QED
  BY <1>1, <1>3, <1>4

\* Without its lowest digit v is one digit shorter.
LEMMA LengthShift ==
  ASSUME NEW v \in Nat, NEW r \in Nat, r >= 2, v > 0, NEW n, Length(v, r, n)
  PROVE  n > 0 /\ Length(v \div r, r, n - 1)
<1> DEFINE p == Power(r)
           q == v \div r
<1>1. n \in Nat /\ p[n] > v /\ (n > 0 => p[n - 1] <= v)
  BY DEF Length
<1>2. p[0] = 1 /\ \A i \in Nat : p[i] \in Nat /\ p[i + 1] = r * p[i]
  BY PowerFacts
<1>3. q \in Nat /\ v % r \in Nat /\ v % r < r /\ v = (r * q) + (v % r)
  BY Euclid
<1> DEFINE rest == v % r
<1> HIDE DEF p, q, rest
<1>4. n > 0
  BY <1>1, <1>2
<1>5. n - 1 \in Nat /\ p[n] = r * p[n - 1] /\ p[n - 1] \in Nat
  <2>1. n - 1 \in Nat /\ (n - 1) + 1 = n
    BY <1>1, <1>4
  <2>2. QED
    BY <1>2, <2>1
<1>6. q < p[n - 1]
  <2> SUFFICES ASSUME p[n - 1] <= q PROVE FALSE
    BY <1>3, <1>5
  <2>1. r * p[n - 1] <= r * q /\ r * q \in Nat /\ r * p[n - 1] \in Nat
    BY <1>3, <1>5, ProductGrows
  <2>2. QED
    BY <1>1, <1>3, <1>5, <2>1 DEF rest
<1>7. ASSUME n - 1 > 0 PROVE p[(n - 1) - 1] <= q
  <2> DEFINE m == (n - 1) - 1
  <2>1. m \in Nat /\ m + 1 = n - 1
    BY <1>5, <1>7
  <2>2. p[n - 1] = r * p[m] /\ p[m] \in Nat
    BY <1>2, <2>1
  <2> SUFFICES ASSUME q + 1 <= p[m] PROVE FALSE
    BY <1>3, <2>2
  <2>3. r * (q + 1) <= r * p[m] /\ r * (q + 1) \in Nat /\ r * p[m] \in Nat
    BY <1>3, <2>2, ProductGrows
  <2>4. r * (q + 1) = (r * q) + r /\ r * q \in Nat
    BY <1>3
  <2>5. QED
    BY <1>1, <1>3, <1>4, <2>2, <2>3, <2>4 DEF rest
<1>8. QED
  BY <1>4, <1>5, <1>6, <1>7 DEF Length, p, q

LEMMA DigitShift ==
  ASSUME NEW v \in Nat, NEW r \in Nat, r >= 2, NEW k \in Nat
  PROVE  Digit(v \div r, r, k) = Digit(v, r, k + 1)
<1>1. Power(r)[k] \in Nat /\ Power(r)[k] > 0 /\ Power(r)[k + 1] = r * Power(r)[k]
  <2>1. Power(r)[k] \in Nat /\ Power(r)[k + 1] = r * Power(r)[k]
    BY PowerFacts
  <2>2. Power(r)[k] > k
    BY PowerGrows
  <2>3. QED
    BY <2>1, <2>2
<1>2. (v \div r) \div Power(r)[k] = v \div Power(r)[k + 1]
  <2> DEFINE c == Power(r)[k]
  <2>1. c \in Nat /\ c > 0 /\ Power(r)[k + 1] = r * c
    BY <1>1
  <2> HIDE DEF c
  <2>2. (v \div r) \div c = v \div (r * c)
    BY <2>1, DivideTwice
  <2>3. QED
    BY <2>1, <2>2 DEF c
<1>3. QED
  BY <1>2 DEF Digit

DigitSet == {lookup[i] : i \in 1 .. 16}

LEMMA DigitInSet ==
  ASSUME NEW v \in Nat, NEW r \in Nat, r >= 2, r <= 16, NEW k \in Nat
  PROVE  /\ Digit(v, r, k) \in DigitSet
         /\ Digit(v, r, 0) = lookup[(v % r) + 1]
<1>1. Power(r)[k] \in Nat /\ Power(r)[k] > 0 /\ Power(r)[0] = 1
  <2>1. Power(r)[k] \in Nat /\ Power(r)[0] = 1
    BY PowerFacts
  <2>2. Power(r)[k] > k
    BY PowerGrows
  <2>3. QED
    BY <2>1, <2>2
<1> DEFINE q == v \div Power(r)[k]
<1>2. q \in Nat
  <2> DEFINE c == Power(r)[k]
  <2>1. c \in Nat /\ c > 0
    BY <1>1
  <2> HIDE DEF c
  <2>2. v \div c \in Nat
    BY <2>1, Euclid
  <2>3. QED
    BY <2>2 DEF c
<1> HIDE DEF q
<1>3. q % r \in Nat /\ q % r < r
  BY <1>2, Euclid
<1>4. (q % r) + 1 \in 1 .. 16
  BY <1>3
<1>5. Digit(v, r, k) \in DigitSet
  BY <1>4 DEF Digit, DigitSet, q
<1>6. Digit(v, r, 0) = lookup[(v % r) + 1]
  BY <1>1 DEF Digit
<1>7. QED
  BY <1>5, <1>6

\* The numeral without zeros in front, from the lowest digit on.
NumLen(v, r) == CHOOSE n \in Nat : Length(v, r, n)
LowDigits(v, r) == [k \in 1 .. NumLen(v, r) |-> Digit(v, r, k - 1)]

LEMMA NumLenIs ==
  ASSUME NEW v \in Nat, NEW r \in Nat, r >= 2
  PROVE  /\ NumLen(v, r) \in Nat /\ Length(v, r, NumLen(v, r))
         /\ \A n : Length(v, r, n) => n = NumLen(v, r)
<1>1. NumLen(v, r) \in Nat /\ Length(v, r, NumLen(v, r))
  BY LengthExists DEF NumLen
<1>2. QED
  BY <1>1, LengthUnique

LEMMA LowDigitsOfZero ==
  ASSUME NEW r \in Nat, r >= 2
  PROVE  LowDigits(0, r) = <<>>
<1>1. Length(0, r, 0)
  <2>1. Power(r)[0] = 1
    BY PowerFacts
  <2>2. QED
    BY <2>1 DEF Length
<1>2. NumLen(0, r) = 0
  BY <1>1, NumLenIs
<1>3. QED
  BY <1>2 DEF LowDigits

LEMMA LowDigitsStep ==
  ASSUME NEW v \in Nat, NEW r \in Nat, r >= 2, r <= 16
  PROVE  /\ LowDigits(v, r) \in Seq(DigitSet)
         /\ Len(LowDigits(v, r)) = NumLen(v, r)
         /\ v > 0 => LowDigits(v, r) = <<lookup[(v % r) + 1]>> \o LowDigits(v \div r, r)
<1> DEFINE n == NumLen(v, r)
           q == v \div r
           d == lookup[(v % r) + 1]
<1>1. n \in Nat /\ Length(v, r, n)
  BY NumLenIs
<1>2. q \in Nat
  BY Euclid
<1> HIDE DEF n, q
<1>3. LowDigits(v, r) \in Seq(DigitSet) /\ Len(LowDigits(v, r)) = n
  <2>1. \A k \in 1 .. n : Digit(v, r, k - 1) \in DigitSet
    <3> SUFFICES ASSUME NEW k \in 1 .. n PROVE Digit(v, r, k - 1) \in DigitSet
      OBVIOUS
    <3>1. k - 1 \in Nat
      BY <1>1
    <3>2. QED
      BY <3>1, DigitInSet
  <2>2. LowDigits(v, r) = [k \in 1 .. n |-> Digit(v, r, k - 1)]
    BY DEF LowDigits, n
  <2>3. QED
    BY <1>1, <2>1, <2>2
<1>4. ASSUME v > 0 PROVE LowDigits(v, r) = <<d>> \o LowDigits(q, r)
  <2>1. n > 0 /\ Length(q, r, n - 1)
    BY <1>1, <1>4, LengthShift DEF q
  <2>2. NumLen(q, r) = n - 1
    BY <1>2, <2>1, NumLenIs
  <2>3. LowDigits(v, r) = [k \in 1 .. n |-> Digit(v, r, k - 1)]
    BY DEF LowDigits, n
  <2>4. LowDigits(q, r) = [k \in 1 .. n - 1 |-> Digit(q, r, k - 1)]
    BY <2>2 DEF LowDigits
  <2>5. d = Digit(v, r, 0) /\ d \in DigitSet
    BY DigitInSet
  <2>6. \A k \in 1 .. n - 1 : Digit(q, r, k - 1) = Digit(v, r, k)
    <3> SUFFICES ASSUME NEW k \in 1 .. n - 1 PROVE Digit(q, r, k - 1) = Digit(v, r, k)
      OBVIOUS
    <3>1. k - 1 \in Nat /\ (k - 1) + 1 = k
      BY <1>1
    <3>2. QED
      BY <3>1, DigitShift DEF q
  <2> HIDE DEF d
  <2>7. LowDigits(q, r) \in Seq(DigitSet)
    <3>1. \A k \in 1 .. n - 1 : Digit(q, r, k - 1) \in DigitSet
      <4> SUFFICES ASSUME NEW k \in 1 .. n - 1 PROVE Digit(q, r, k - 1) \in DigitSet
        OBVIOUS
      <4>1. k - 1 \in Nat
        BY <1>1
      <4>2. QED
        BY <4>1, <1>2, DigitInSet
    <3>2. QED
      BY <1>1, <2>1, <2>4, <3>1
  <2> DEFINE s == <<d>> \o LowDigits(q, r)
  <2>8. s \in Seq(DigitSet) /\ Len(s) = n /\ s[1] = d
        /\ \A k \in 2 .. n : s[k] = Digit(v, r, k - 1)
    <3>1. <<d>> \in Seq(DigitSet) /\ Len(<<d>>) = 1 /\ <<d>>[1] = d
      BY <2>5
    <3>2. Len(LowDigits(q, r)) = n - 1
      BY <1>1, <2>1, <2>4
    <3>3. s \in Seq(DigitSet) /\ Len(s) = n /\ s[1] = d
      BY <1>1, <2>1, <2>7, <3>1, <3>2
    <3>4. ASSUME NEW k \in 2 .. n PROVE s[k] = Digit(v, r, k - 1)
      <4>1. s[k] = LowDigits(q, r)[k - 1]
        BY <1>1, <2>1, <2>7, <3>1, <3>2
      <4>2. k - 1 \in 1 .. n - 1
        BY <1>1
      <4> DEFINE j == k - 1
      <4> HIDE DEF j
      <4>3. LowDigits(q, r)[j] = Digit(q, r, j - 1)
        BY <2>4, <4>2 DEF j
      <4>4. QED
        BY <2>6, <4>1, <4>2, <4>3 DEF j
    <3>5. QED
      BY <3>3, <3>4
  <2> HIDE DEF s
  <2>9. \A k \in 1 .. n : LowDigits(v, r)[k] = s[k]
    <3> SUFFICES ASSUME NEW k \in 1 .. n PROVE LowDigits(v, r)[k] = s[k]
      OBVIOUS
    <3>1. LowDigits(v, r)[k] = Digit(v, r, k - 1)
      BY <2>3
    <3>2. CASE k = 1
      BY <2>5, <2>8, <3>1, <3>2
    <3>3. CASE k # 1
      BY <1>1, <2>8, <3>1, <3>3
    <3>4. QED
      BY <3>2, <3>3
  <2>10. LowDigits(v, r) = s
    BY <1>1, <1>3, <2>8, <2>9, SeqEqual
  <2>11. QED
    BY <2>10 DEF s
<1>5. QED
  BY <1>3, <1>4 DEF n, q

\* The recursion of itoa computes those digits.
Low(r) == LET low[v \in Nat] == IF v = 0 THEN <<>>
                                ELSE <<lookup[(v % r) + 1]>> \o low[v \div r]
          IN  low

LEMMA LowIs ==
  ASSUME NEW r \in Nat, r >= 2, r <= 16
  PROVE  \A v \in Nat : Low(r)[v] = LowDigits(v, r)
<1> DEFINE Rec(g) == [v \in Nat |-> IF v = 0 THEN <<>>
                                    ELSE <<lookup[(v % r) + 1]>> \o g[v \div r]]
           low == CHOOSE g : g = Rec(g)
           low0 == [v \in Nat |-> LowDigits(v, r)]
<1>1. low0 = Rec(low0)
  <2>1. ASSUME NEW v \in Nat
        PROVE  low0[v] = IF v = 0 THEN <<>> ELSE <<lookup[(v % r) + 1]>> \o low0[v \div r]
    <3>1. CASE v = 0
      BY <3>1, LowDigitsOfZero
    <3>2. CASE v > 0
      <4>1. v \div r \in Nat
        BY Euclid
      <4>2. LowDigits(v, r) = <<lookup[(v % r) + 1]>> \o LowDigits(v \div r, r)
        BY <3>2, LowDigitsStep
      <4>3. QED
        BY <3>2, <4>1, <4>2
    <3>3. QED
      BY <3>1, <3>2
  <2>2. low0 = [v \in Nat |-> low0[v]]
    OBVIOUS
  <2> HIDE DEF low0
  <2>3. Rec(low0) = [v \in Nat |-> low0[v]]
    BY <2>1
  <2>4. QED
    BY <2>2, <2>3
<1>2. low = Rec(low)
  <2> HIDE DEF Rec, low0
  <2>1. QED
    BY <1>1
<1>3. Low(r) = low
  BY DEF Low
<1> HIDE DEF low
<1>4. \A v \in Nat : low[v] = IF v = 0 THEN <<>>
                              ELSE <<lookup[(v % r) + 1]>> \o low[v \div r]
  <2> SUFFICES ASSUME NEW v \in Nat
               PROVE  low[v] = IF v = 0 THEN <<>>
                               ELSE <<lookup[(v % r) + 1]>> \o low[v \div r]
    OBVIOUS
  <2>1. low[v] = Rec(low)[v]
    BY <1>2
  <2>2. QED
    BY <2>1
<1> HIDE DEF Rec, low0
<1> DEFINE Bad == {v \in Nat : low[v] # LowDigits(v, r)}
<1>5. ASSUME Bad # {} PROVE FALSE
  <2>1. PICK m \in Bad : \A v \in Bad : m <= v
    BY <1>5, LeastNatural
  <2>2. CASE m = 0
    BY <1>4, <2>1, <2>2, LowDigitsOfZero
  <2>3. CASE m > 0
    <3>1. m \div r \in Nat /\ m \div r < m
      <4>1. PICK q \in Nat : q = m \div r /\ m % r \in Nat /\ m = (r * q) + (m % r)
        BY <2>1, Euclid
      <4>2. q * 2 <= q * r /\ q * r \in Nat
        BY <4>1, ProductGrows
      <4>3. q * r = r * q
        BY <4>1
      <4> DEFINE rest == m % r
      <4>4. rest \in Nat /\ m = (r * q) + rest
        BY <4>1
      <4> HIDE DEF rest
      <4>5. 2 * q <= m
        BY <4>2, <4>3, <4>4
      <4>6. QED
        BY <2>1, <2>3, <4>1, <4>5
    <3>2. low[m \div r] = LowDigits(m \div r, r)
      BY <2>1, <3>1
    <3>3. low[m] = <<lookup[(m % r) + 1]>> \o low[m \div r]
      <4>1. m \in Nat /\ m # 0
        BY <2>1, <2>3
      <4>2. low[m] = IF m = 0 THEN <<>> ELSE <<lookup[(m % r) + 1]>> \o low[m \div r]
        BY <1>4, <4>1
      <4> HIDE DEF Bad
      <4>3. QED
        BY <4>1, <4>2, Zenon
    <3>4. LowDigits(m, r) = <<lookup[(m % r) + 1]>> \o LowDigits(m \div r, r)
      BY <2>1, <2>3, LowDigitsStep
    <3>5. QED
      BY <2>1, <3>2, <3>3, <3>4
  <2>4. QED
    BY <2>1, <2>2, <2>3
<1>6. QED
  BY <1>3, <1>5

\* Where fewer than 2 ^ Bits are counted, Bits digits are enough.
LEMMA BitsAreEnough ==
  ASSUME NEW r \in Nat, r >= 2
  PROVE  \A n \in Nat : Power(2)[n] <= Power(r)[n]
<1> DEFINE p == Power(r)
           t == Power(2)
<1>1. p[0] = 1 /\ \A n \in Nat : p[n] \in Nat /\ p[n + 1] = r * p[n]
  BY PowerFacts
<1>2. t[0] = 1 /\ \A n \in Nat : t[n] \in Nat /\ t[n + 1] = 2 * t[n]
  BY PowerFacts
<1> HIDE DEF p, t
<1> DEFINE N == {n \in Nat : t[n] <= p[n]}
<1>3. 0 \in N
  BY <1>1, <1>2
<1>4. ASSUME NEW n \in Nat, n \in N PROVE n + 1 \in N
  <2>1. p[n] * 2 <= p[n] * r /\ p[n] * r = r * p[n] /\ p[n] * 2 = 2 * p[n]
    <3>1. p[n] \in Nat /\ 2 \in Nat
      BY <1>1
    <3>2. QED
      BY <3>1, ProductGrows
  <2>2. t[n + 1] = 2 * t[n] /\ p[n + 1] = r * p[n] /\ t[n] <= p[n] /\ t[n] \in Nat
        /\ p[n] \in Nat
    BY <1>1, <1>2, <1>4
  <2>3. 2 * t[n] <= 2 * p[n] /\ p[n + 1] \in Nat /\ t[n + 1] \in Nat
    BY <1>1, <1>2, <2>2
  <2>4. 2 * p[n] <= p[n + 1]
    BY <2>1, <2>2
  <2>5. t[n + 1] <= p[n + 1]
    BY <2>2, <2>3, <2>4
  <2>6. QED
    BY <2>5
<1> HIDE DEF N
<1>5. \A n \in Nat : n \in N
  BY <1>3, <1>4, InductionOnSet
<1>6. QED
  BY <1>5 DEF N, p, t

LEMMA WordSize ==
  /\ Power(2)[Bits] \in Nat /\ Power(2)[Bits] > 1
  /\ Power(2)[Bits - 1] \in Nat /\ Power(2)[Bits - 1] > 0
  /\ Power(2)[Bits] = 2 * Power(2)[Bits - 1]
<1>1. Bits \in Nat /\ Bits > 0 /\ Bits - 1 \in Nat /\ (Bits - 1) + 1 = Bits
  BY PrintfAssumption
<1>2. \A n \in Nat : Power(2)[n] \in Nat /\ Power(2)[n] > n
  BY PowerFacts, PowerGrows
<1>3. Power(2)[(Bits - 1) + 1] = 2 * Power(2)[Bits - 1]
  BY <1>1, PowerFacts
<1>4. /\ Power(2)[Bits] \in Nat /\ Power(2)[Bits] > Bits
      /\ Power(2)[Bits - 1] \in Nat /\ Power(2)[Bits - 1] > Bits - 1
  BY <1>1, <1>2
<1>5. QED
  BY <1>1, <1>3, <1>4

WordValues == 0 .. Power(2)[Bits] - 1

\* A word has at most Bits digits, and one at least unless it is zero.
LEMMA WordLength ==
  ASSUME NEW v \in WordValues, NEW r \in Nat, r >= 2
  PROVE  v \in Nat /\ NumLen(v, r) <= Bits /\ (v > 0 => NumLen(v, r) > 0)
<1>1. Power(2)[Bits] \in Nat /\ v \in Nat /\ v < Power(2)[Bits]
  BY WordSize DEF WordValues
<1>2. Bits \in Nat /\ Bits > 0
  BY PrintfAssumption
<1> DEFINE n == NumLen(v, r)
           p == Power(r)
<1>3. n \in Nat /\ p[n] > v /\ (n > 0 => p[n - 1] <= v)
  BY <1>1, NumLenIs DEF Length
<1>4. p[0] = 1 /\ p[Bits] > v /\ p[Bits] \in Nat /\ \A i \in Nat : p[i] \in Nat
  <2>1. p[0] = 1 /\ \A i \in Nat : p[i] \in Nat
    BY PowerFacts
  <2>2. Power(2)[Bits] <= p[Bits]
    BY <1>2, BitsAreEnough
  <2> HIDE DEF p
  <2>3. p[Bits] \in Nat
    BY <1>2, <2>1
  <2>4. QED
    BY <1>1, <2>1, <2>2, <2>3
<1>5. \A i, j \in Nat : i <= j => p[i] <= p[j]
  BY PowerGrows
<1> HIDE DEF n, p
<1>6. n <= Bits
  <2> SUFFICES ASSUME Bits < n PROVE FALSE
    BY <1>2, <1>3
  <2>1. n - 1 \in Nat /\ Bits <= n - 1 /\ n > 0
    BY <1>2, <1>3
  <2>2. p[Bits] <= p[n - 1] /\ p[n - 1] <= v /\ p[n - 1] \in Nat
    BY <1>2, <1>3, <1>4, <1>5, <2>1
  <2>3. QED
    BY <1>1, <1>4, <2>2
<1>7. v > 0 => n > 0
  <2> SUFFICES ASSUME v > 0, n = 0 PROVE FALSE
    BY <1>3
  <2>1. QED
    BY <1>1, <1>3, <1>4
<1>8. QED
  BY <1>1, <1>6, <1>7 DEF n

\* The numeral of a word that is not zero.
LEMMA NumeralIs ==
  ASSUME NEW v \in WordValues, NEW r \in Nat, r >= 2
  PROVE  /\ v > 0 => Numeral(v, r) =
                       [k \in 1 .. NumLen(v, r) |-> Digit(v, r, NumLen(v, r) - k)]
         /\ v = 0 => Numeral(v, r) = <<"0">>
<1> DEFINE N(k) == /\ Power(r)[k] > v
                   /\ k > 1 => Power(r)[k - 1] <= v
           n == CHOOSE k \in 1 .. Bits : N(k)
<1>1. Bits \in Nat /\ Bits > 0
  BY PrintfAssumption
<1>2. Numeral(v, r) = [k \in 1 .. n |-> Digit(v, r, n - k)]
  BY DEF Numeral
<1>3. v \in Nat
  BY WordLength
<1>4. ASSUME v > 0 PROVE n = NumLen(v, r)
  <2>1. NumLen(v, r) \in 1 .. Bits /\ N(NumLen(v, r))
    <3>1. NumLen(v, r) \in Nat /\ Length(v, r, NumLen(v, r))
      BY <1>3, NumLenIs
    <3>2. NumLen(v, r) <= Bits /\ NumLen(v, r) > 0
      BY <1>4, WordLength
    <3>3. QED
      BY <1>1, <3>1, <3>2 DEF Length
  <2>2. n \in 1 .. Bits /\ N(n)
    <3> HIDE DEF N
    <3>1. QED
      BY <2>1
  <2> HIDE DEF n
  <2>3. Length(v, r, n)
    <3>1. CASE n = 1
      <4>1. Power(r)[0] = 1
        BY PowerFacts
      <4>2. QED
        BY <1>3, <1>4, <2>2, <3>1, <4>1 DEF Length
    <3>2. CASE n > 1
      BY <1>1, <2>2, <3>2 DEF Length
    <3>3. QED
      BY <1>1, <2>2, <3>1, <3>2
  <2>4. QED
    BY <1>3, <2>3, NumLenIs
<1>5. ASSUME v = 0 PROVE Numeral(v, r) = <<"0">>
  <2>1. \A k \in Nat : Power(r)[k] \in Nat /\ Power(r)[k] > k
    BY PowerFacts, PowerGrows
  <2>2. N(1) /\ 1 \in 1 .. Bits
    BY <1>1, <1>5, <2>1
  <2>3. n \in 1 .. Bits /\ N(n)
    <3> HIDE DEF N
    <3>1. QED
      BY <2>2
  <2> HIDE DEF n
  <2>4. n = 1
    <3> SUFFICES ASSUME n > 1 PROVE FALSE
      BY <1>1, <2>3
    <3>1. n - 1 \in Nat
      BY <1>1, <2>3
    <3>2. Power(r)[n - 1] > n - 1 /\ Power(r)[n - 1] \in Nat
      BY <2>1, <3>1
    <3>3. Power(r)[n - 1] <= v
      BY <2>3
    <3>4. QED
      BY <1>1, <1>5, <2>3, <3>1, <3>2, <3>3
  <2>5. Digit(v, r, 0) = lookup[(v % r) + 1]
    <3>1. Power(r)[0] = 1
      BY PowerFacts
    <3>2. QED
      BY <1>3, <3>1 DEF Digit
  <2>6. Digit(v, r, 0) = "0"
    <3>1. v % r = 0
      BY <1>5
    <3>2. QED
      BY <2>5, <3>1 DEF lookup
  <2>7. Numeral(v, r) = [k \in 1 .. 1 |-> Digit(v, r, 1 - k)]
    BY <1>2, <2>4
  <2>8. QED
    BY <2>6, <2>7
<1> HIDE DEF n
<1>6. QED
  BY <1>2, <1>4, <1>5

LEMMA ReverseAt ==
  ASSUME NEW S, NEW s \in Seq(S)
  PROVE  Reverse(s) = [k \in 1 .. Len(s) |-> s[(Len(s) - k) + 1]]
BY DEF Reverse

\* itoa gives the numeral of every word.
LEMMA ItoaRight ==
  ASSUME NEW v \in WordValues, NEW r \in Nat, r >= 2, r <= 16
  PROVE  itoa(v, r) = Numeral(v, r)
<1>1. v \in Nat
  BY WordLength
<1>2. itoa(v, r) = IF v = 0 THEN <<"0">> ELSE Reverse(Low(r)[v])
  BY DEF itoa, Low
<1>3. CASE v = 0
  BY <1>2, <1>3, NumeralIs
<1>4. CASE v > 0
  <2> DEFINE s == LowDigits(v, r)
             n == NumLen(v, r)
  <2>1. s \in Seq(DigitSet) /\ Len(s) = n /\ n \in Nat
    BY <1>1, LowDigitsStep, NumLenIs
  <2>2. itoa(v, r) = Reverse(s)
    BY <1>1, <1>2, <1>4, LowIs
  <2>3. s = [k \in 1 .. n |-> Digit(v, r, k - 1)]
    BY DEF LowDigits
  <2> HIDE DEF s, n
  <2>4. Reverse(s) = [k \in 1 .. n |-> s[(n - k) + 1]]
    BY <2>1, ReverseAt
  <2>5. \A k \in 1 .. n : s[(n - k) + 1] = Digit(v, r, n - k)
    <3> SUFFICES ASSUME NEW k \in 1 .. n PROVE s[(n - k) + 1] = Digit(v, r, n - k)
      OBVIOUS
    <3>1. (n - k) + 1 \in 1 .. n /\ ((n - k) + 1) - 1 = n - k
      BY <2>1
    <3>2. QED
      BY <2>3, <3>1
  <2>6. Reverse(s) = [k \in 1 .. n |-> Digit(v, r, n - k)]
    BY <2>4, <2>5
  <2>7. QED
    BY <1>4, <2>2, <2>6, NumeralIs DEF n
<1>5. QED
  BY <1>1, <1>3, <1>4

LEMMA SixteenIsTwoToTheFour ==
  \A n \in Nat : Power(2)[4 * n] = Power(16)[n]
<1> DEFINE t == Power(2)
           h == Power(16)
<1>1. t[0] = 1 /\ \A n \in Nat : t[n] \in Nat /\ t[n + 1] = 2 * t[n]
  BY PowerFacts
<1>2. h[0] = 1 /\ \A n \in Nat : h[n] \in Nat /\ h[n + 1] = 16 * h[n]
  BY PowerFacts
<1> HIDE DEF t, h
<1> DEFINE N == {n \in Nat : t[4 * n] = h[n]}
<1>3. 0 \in N
  BY <1>1, <1>2
<1>4. ASSUME NEW n \in Nat, n \in N PROVE n + 1 \in N
  <2> DEFINE m == 4 * n
  <2>1. m \in Nat /\ 4 * (n + 1) = (((m + 1) + 1) + 1) + 1
    OBVIOUS
  <2> HIDE DEF m
  <2>2. t[((m + 1) + 1) + 1] = 2 * t[(m + 1) + 1] /\ t[(m + 1) + 1] = 2 * t[m + 1]
        /\ t[m + 1] = 2 * t[m] /\ t[m] \in Nat
    BY <1>1, <2>1
  <2>3. t[(((m + 1) + 1) + 1) + 1] = 2 * t[((m + 1) + 1) + 1]
    BY <1>1, <2>1
  <2>4. t[4 * (n + 1)] = 16 * t[m]
    BY <2>1, <2>2, <2>3
  <2>5. QED
    BY <1>2, <1>4, <2>4 DEF m
<1> HIDE DEF N
<1>5. \A n \in Nat : n \in N
  BY <1>3, <1>4, InductionOnSet
<1>6. QED
  BY <1>5 DEF N, t, h

\* Behind the digits of a number there are only zeros.
LEMMA HighDigits ==
  ASSUME NEW v \in Nat, NEW r \in Nat, r >= 2, NEW k \in Nat, NumLen(v, r) <= k
  PROVE  Digit(v, r, k) = "0"
<1> DEFINE c == Power(r)[k]
           n == NumLen(v, r)
<1>1. n \in Nat /\ Power(r)[n] > v
  BY NumLenIs DEF Length
<1>2. Power(r)[n] <= c /\ c \in Nat /\ Power(r)[n] \in Nat
  BY <1>1, PowerFacts, PowerGrows
<1>3. c > v
  BY <1>1, <1>2
<1>4. Digit(v, r, k) = lookup[((v \div c) % r) + 1]
  BY DEF Digit
<1> HIDE DEF c, n
<1>5. v \div c = 0
  <2>1. v = (c * 0) + v /\ c > 0
    BY <1>2, <1>3
  <2>2. QED
    BY <1>2, <1>3, <2>1, QuotientIs
<1>6. (v \div c) % r = 0
  BY <1>5
<1>7. QED
  BY <1>4, <1>6 DEF lookup

\* %#x gives all Bits \div 4 digits.
LEMMA PaddedRight ==
  ASSUME NEW v \in WordValues
  PROVE  Padded(v) = [k \in 1 .. Bits \div 4 |-> Digit(v, 16, (Bits \div 4) - k)]
<1> DEFINE w == Bits \div 4
           digits == itoa(v, 16)
<1>1. w \in Nat /\ Bits = 4 * w /\ w > 0
  BY PrintfAssumption
<1>2. v \in Nat /\ v < Power(2)[Bits] /\ Power(2)[Bits] \in Nat
  BY WordLength, WordSize DEF WordValues
<1>3. Power(2)[Bits] = Power(16)[w]
  BY <1>1, SixteenIsTwoToTheFour
<1> HIDE DEF w
<1>4. NumLen(v, 16) <= w /\ NumLen(v, 16) \in Nat
  <2> DEFINE n == NumLen(v, 16)
             p == Power(16)
  <2>1. n \in Nat /\ (n > 0 => p[n - 1] <= v)
    BY <1>2, NumLenIs DEF Length
  <2>2. /\ \A i, j \in Nat : i <= j => p[i] <= p[j]
        /\ \A i \in Nat : p[i] \in Nat
    BY PowerGrows, PowerFacts
  <2>3. p[w] > v
    BY <1>2, <1>3
  <2> HIDE DEF n, p
  <2>4. ASSUME w < n PROVE FALSE
    <3>1. n - 1 \in Nat /\ w <= n - 1 /\ n > 0
      BY <1>1, <2>1, <2>4
    <3>2. p[w] <= p[n - 1] /\ p[n - 1] <= v /\ p[w] \in Nat /\ p[n - 1] \in Nat
      BY <1>1, <2>1, <2>2, <3>1
    <3>3. QED
      BY <1>2, <2>3, <3>2
  <2>5. QED
    BY <1>1, <2>1, <2>4 DEF n
<1>5. \E n \in 1 .. w : /\ digits = [k \in 1 .. n |-> Digit(v, 16, n - k)]
                        /\ NumLen(v, 16) <= n
  <2>1. digits = Numeral(v, 16)
    BY ItoaRight
  <2>2. CASE v > 0
    <3>1. NumLen(v, 16) \in 1 .. w
      BY <1>1, <1>4, <2>2, WordLength
    <3>2. digits = [k \in 1 .. NumLen(v, 16) |-> Digit(v, 16, NumLen(v, 16) - k)]
      BY <2>1, <2>2, NumeralIs
    <3> HIDE DEF digits
    <3>3. QED
      BY <1>4, <3>1, <3>2
  <2>3. CASE v = 0
    <3>1. digits = <<"0">>
      BY <2>1, <2>3, NumeralIs
    <3>2. Length(v, 16, 0)
      <4>1. Power(16)[0] = 1
        BY PowerFacts
      <4>2. QED
        BY <2>3, <4>1 DEF Length
    <3>3. NumLen(v, 16) = 0
      BY <1>2, <3>2, NumLenIs
    <3>4. Digit(v, 16, 0) = "0"
      BY <1>2, <3>3, HighDigits
    <3> HIDE DEF digits
    <3>5. digits = [k \in 1 .. 1 |-> Digit(v, 16, 1 - k)]
      BY <3>1, <3>4
    <3>6. QED
      BY <1>1, <3>3, <3>5
  <2>4. QED
    BY <1>2, <2>2, <2>3
<1>6. Padded(v) = [k \in 1 .. w - Len(digits) |-> "0"] \o digits
  BY DEF Padded, w
<1> HIDE DEF digits
<1>7. PICK n \in 1 .. w : /\ digits = [k \in 1 .. n |-> Digit(v, 16, n - k)]
                          /\ NumLen(v, 16) <= n
  BY <1>5
<1> DEFINE zeros == [k \in 1 .. w - n |-> "0"]
           all == [k \in 1 .. w |-> Digit(v, 16, w - k)]
<1>8. \A k \in 0 .. w - 1 : Digit(v, 16, k) \in DigitSet
  BY <1>1, <1>2, DigitInSet
<1>9. "0" \in DigitSet
  BY DEF DigitSet, lookup
<1>10. digits \in Seq(DigitSet) /\ Len(digits) = n
  <2>1. ASSUME NEW k \in 1 .. n PROVE Digit(v, 16, n - k) \in DigitSet
    <3>1. n - k \in 0 .. w - 1
      BY <1>1
    <3>2. QED
      BY <1>8, <3>1
  <2>2. QED
    BY <1>1, <1>7, <2>1
<1>11. zeros \in Seq(DigitSet) /\ Len(zeros) = w - n
  BY <1>1, <1>9
<1>12. all \in Seq(DigitSet) /\ Len(all) = w
  <2>1. ASSUME NEW k \in 1 .. w PROVE Digit(v, 16, w - k) \in DigitSet
    <3>1. w - k \in 0 .. w - 1
      BY <1>1
    <3>2. QED
      BY <1>8, <3>1
  <2>2. QED
    BY <1>1, <2>1
<1> DEFINE s == zeros \o digits
<1>13. s \in Seq(DigitSet) /\ Len(s) = w
  BY <1>1, <1>10, <1>11
<1>14. ASSUME NEW k \in 1 .. w PROVE s[k] = Digit(v, 16, w - k)
  <2>1. CASE k <= w - n
    <3>1. s[k] = "0"
      BY <1>1, <1>10, <1>11, <2>1
    <3>2. w - k \in Nat /\ NumLen(v, 16) <= w - k
      BY <1>1, <1>4, <1>7, <2>1
    <3> HIDE DEF s, all, zeros
    <3>3. Digit(v, 16, w - k) = "0"
      BY <1>2, <3>2, HighDigits
    <3>4. QED
      BY <3>1, <3>3
  <2>2. CASE k > w - n
    <3> DEFINE j == k - (w - n)
    <3>1. j \in 1 .. n /\ n - j = w - k
      BY <1>1, <2>2
    <3>2. s[k] = digits[j]
      BY <1>1, <1>10, <1>11, <2>2
    <3> HIDE DEF j
    <3>3. digits[j] = Digit(v, 16, n - j)
      BY <1>7, <3>1
    <3>4. QED
      BY <3>1, <3>2, <3>3
  <2> HIDE DEF s, all, zeros
  <2>3. k <= w - n \/ k > w - n
    BY <1>1
  <2>4. QED
    BY <2>1, <2>2, <2>3
<1>15. Padded(v) = s
  BY <1>6, <1>7, <1>10
<1> HIDE DEF s
<1>16. s = all
  <2>1. \A k \in 1 .. w : s[k] = all[k]
    BY <1>14
  <2> HIDE DEF all
  <2>2. QED
    BY <1>1, <1>12, <1>13, <2>1, SeqEqual
<1>17. QED
  BY <1>15, <1>16 DEF w

\* %d gives the numeral of the value, behind a minus sign when it is negative.
LEMMA SignedRight ==
  ASSUME NEW v \in WordValues
  PROVE  Signed(v) = IF v < Power(2)[Bits - 1] THEN Numeral(v, 10)
                     ELSE <<"-">> \o Numeral(Power(2)[Bits] - v, 10)
<1> DEFINE words == Power(2)[Bits]
           half == Power(2)[Bits - 1]
<1>1. words \in Nat /\ half \in Nat /\ half > 0 /\ v \in 0 .. words - 1
  BY WordSize DEF WordValues
<1>2. Signed(v) = IF v >= half THEN <<"-">> \o itoa((words - v) % words, 10)
                  ELSE itoa(v, 10)
  BY DEF Signed
<1>3. itoa(v, 10) = Numeral(v, 10)
  BY ItoaRight
<1>4. WordValues = 0 .. words - 1
  BY DEF WordValues
<1> HIDE DEF words, half
<1>5. ASSUME v >= half PROVE itoa((words - v) % words, 10) = Numeral(words - v, 10)
  <2>1. words - v \in 0 .. words - 1 /\ words > 0
    BY <1>1, <1>5
  <2> DEFINE u == words - v
  <2>2. u \in Nat /\ u < words /\ u = (words * 0) + u
    BY <1>1, <2>1
  <2> HIDE DEF u
  <2>3. u % words = u
    BY <1>1, <2>1, <2>2, QuotientIs
  <2>4. itoa(u, 10) = Numeral(u, 10)
    BY <1>4, <2>1, ItoaRight DEF u
  <2>5. QED
    BY <2>3, <2>4 DEF u
<1>6. QED
  BY <1>1, <1>2, <1>3, <1>5 DEF words, half

-----------------------------------------------------------------------------
(* printf.                                                                 *)

\* How many arguments the first i pieces take.
Count(ps, i) == Cardinality({j \in 1 .. i : ps[j] \in Takers})

LEMMA CountStep ==
  ASSUME NEW ps, NEW i \in Nat
  PROVE  /\ Count(ps, 0) = 0 /\ Count(ps, i) \in Nat
         /\ Count(ps, i + 1) = IF ps[i + 1] \in Takers THEN Count(ps, i) + 1
                               ELSE Count(ps, i)
<1> DEFINE T(k) == {j \in 1 .. k : ps[j] \in Takers}
<1>1. T(0) = {} /\ Cardinality({}) = 0
  BY FS_EmptySet
<1>2. IsFiniteSet(T(i))
  <2>1. IsFiniteSet(1 .. i) /\ T(i) \subseteq 1 .. i
    BY FS_Interval
  <2>2. QED
    BY <2>1, FS_Subset
<1>3. Cardinality(T(i)) \in Nat
  BY <1>2, FS_CardinalityType
<1>4. T(i + 1) = IF ps[i + 1] \in Takers THEN T(i) \cup {i + 1} ELSE T(i)
  OBVIOUS
<1>5. i + 1 \notin T(i)
  OBVIOUS
<1> HIDE DEF T
<1>6. Cardinality(T(i) \cup {i + 1}) = Cardinality(T(i)) + 1
  BY <1>2, <1>5, FS_AddElement
<1>7. QED
  BY <1>1, <1>3, <1>4, <1>6 DEF Count, T

Letters == Chars \cup {"%", "#", "x", "u", "d", "c", "s"}
Signs == Chars \cup {"%", "-"} \cup DigitSet

LEMMA PieceKinds ==
  ASSUME NEW piece \in Pieces
  PROVE  /\ piece \in Seq(Letters) /\ Len(piece) \in 1 .. 3
         /\ \/ piece = <<"%", "x">> \/ piece = <<"%", "#", "x">>
            \/ piece = <<"%", "u">> \/ piece = <<"%", "d">>
            \/ piece = <<"%", "c">> \/ piece = <<"%", "s">>
            \/ piece = <<"%", "%">> \/ piece = <<"%">> \/ piece = <<"%", "#">>
            \/ \E c \in Chars \ {"%"} : piece = <<c>>
<1>1. \/ piece = <<"%", "x">> \/ piece = <<"%", "#", "x">>
      \/ piece = <<"%", "u">> \/ piece = <<"%", "d">>
      \/ piece = <<"%", "c">> \/ piece = <<"%", "s">>
      \/ piece = <<"%", "%">> \/ piece = <<"%">> \/ piece = <<"%", "#">>
      \/ \E c \in Chars \ {"%"} : piece = <<c>>
  BY DEF Pieces, Takers, Numbers, Dangling
<1>2. /\ {"%", "#", "x", "u", "d", "c", "s"} \subseteq Letters
      /\ Chars \subseteq Letters
  BY DEF Letters
<1>3. ASSUME NEW b \in Letters, NEW c \in Letters, NEW d \in Letters
      PROVE  /\ <<b>> \in Seq(Letters) /\ Len(<<b>>) = 1
             /\ <<b, c>> \in Seq(Letters) /\ Len(<<b, c>>) = 2
             /\ <<b, c, d>> \in Seq(Letters) /\ Len(<<b, c, d>>) = 3
  OBVIOUS
<1>4. ASSUME \E c \in Chars \cup {"%"} : piece = <<c>>
      PROVE  piece \in Seq(Letters) /\ Len(piece) \in 1 .. 3
  BY <1>2, <1>3, <1>4
<1>5. ASSUME piece = <<"%", "#", "x">>
      PROVE  piece \in Seq(Letters) /\ Len(piece) \in 1 .. 3
  BY <1>2, <1>3, <1>5
<1>6. ASSUME \E c \in {"%", "#", "x", "u", "d", "c", "s"} : piece = <<"%", c>>
      PROVE  piece \in Seq(Letters) /\ Len(piece) \in 1 .. 3
  BY <1>2, <1>3, <1>6
<1>7. QED
  BY <1>1, <1>4, <1>5, <1>6

LEMMA NumeralType ==
  ASSUME NEW v \in WordValues, NEW r \in Nat, r >= 2, r <= 16
  PROVE  Numeral(v, r) \in Seq(Signs)
<1>1. v \in Nat
  BY WordLength
<1>2. CASE v = 0
  <2>1. "0" \in Signs
    BY DEF Signs, DigitSet, lookup
  <2>2. <<"0">> \in Seq(Signs)
    BY <2>1
  <2>3. QED
    BY <1>2, <2>2, NumeralIs
<1>3. CASE v > 0
  <2> DEFINE n == NumLen(v, r)
  <2>1. n \in Nat
    BY <1>1, NumLenIs
  <2>2. Numeral(v, r) = [k \in 1 .. n |-> Digit(v, r, n - k)]
    BY <1>3, NumeralIs
  <2> HIDE DEF n
  <2>3. ASSUME NEW k \in 1 .. n PROVE Digit(v, r, n - k) \in Signs
    <3>1. n - k \in Nat
      BY <2>1
    <3>2. QED
      BY <1>1, <3>1, DigitInSet DEF Signs
  <2>4. QED
    BY <2>1, <2>2, <2>3
<1>4. QED
  BY <1>1, <1>2, <1>3

LEMMA PaddedType ==
  ASSUME NEW v \in WordValues
  PROVE  [k \in 1 .. Bits \div 4 |-> Digit(v, 16, (Bits \div 4) - k)] \in Seq(Signs)
<1> DEFINE n == Bits \div 4
<1>1. n \in Nat /\ v \in Nat
  BY PrintfAssumption, WordLength
<1> HIDE DEF n
<1>2. ASSUME NEW k \in 1 .. n PROVE Digit(v, 16, n - k) \in Signs
  <2>1. n - k \in Nat
    BY <1>1
  <2>2. QED
    BY <1>1, <2>1, DigitInSet DEF Signs
<1>3. [k \in 1 .. n |-> Digit(v, 16, n - k)] \in Seq(Signs)
  BY <1>1, <1>2
<1>4. QED
  BY <1>3 DEF n

LEMMA MeaningIs ==
  ASSUME NEW a
  PROVE  /\ Meaning(<<"%", "x">>, a) = Numeral(a, 16)
         /\ Meaning(<<"%", "#", "x">>, a) =
              [k \in 1 .. Bits \div 4 |-> Digit(a, 16, (Bits \div 4) - k)]
         /\ Meaning(<<"%", "u">>, a) = Numeral(a, 10)
         /\ Meaning(<<"%", "d">>, a) =
              IF a < Power(2)[Bits - 1] THEN Numeral(a, 10)
              ELSE <<"-">> \o Numeral(Power(2)[Bits] - a, 10)
         /\ Meaning(<<"%", "c">>, a) = <<a>>
         /\ Meaning(<<"%", "s">>, a) = a
         /\ Meaning(<<"%", "%">>, a) = <<"%">>
         /\ Meaning(<<"%">>, a) = <<>>
         /\ Meaning(<<"%", "#">>, a) = <<>>
BY DEF Meaning, Dangling

LEMMA CharMeansItself ==
  ASSUME NEW a, NEW c, c # "%"
  PROVE  Meaning(<<c>>, a) = <<c>>
BY DEF Meaning, Dangling

LEMMA MeaningType ==
  ASSUME NEW piece \in Pieces, NEW a, Fits(piece, a)
  PROVE  Meaning(piece, a) \in Seq(Signs)
<1>1. /\ piece \in Numbers => a \in WordValues
      /\ piece = <<"%", "c">> => a \in Signs
      /\ piece = <<"%", "s">> => a \in Seq(Signs)
  <2>1. Chars \subseteq Signs
    BY DEF Signs
  <2>2. \A s \in Seq(Chars) : s \in Seq(Signs)
    BY <2>1
  <2>3. QED
    BY <2>1, <2>2 DEF Fits, WordValues
<1>2. "%" \in Signs /\ "-" \in Signs /\ Chars \subseteq Signs
  BY DEF Signs
<1>3. <<"%">> \in Seq(Signs) /\ <<"-">> \in Seq(Signs) /\ <<>> \in Seq(Signs)
      /\ \A c \in Signs : <<c>> \in Seq(Signs)
  BY <1>2
<1>4. CASE piece = <<"%", "x">> \/ piece = <<"%", "u">>
  <2>1. a \in WordValues
    BY <1>1, <1>4 DEF Numbers
  <2>2. Numeral(a, 10) \in Seq(Signs) /\ Numeral(a, 16) \in Seq(Signs)
    BY <2>1, NumeralType
  <2>3. QED
    BY <1>4, <2>2, MeaningIs
<1>5. CASE piece = <<"%", "#", "x">>
  <2>1. a \in WordValues
    BY <1>1, <1>5 DEF Numbers
  <2>2. Meaning(piece, a) = [k \in 1 .. Bits \div 4 |-> Digit(a, 16, (Bits \div 4) - k)]
    BY <1>5, MeaningIs
  <2>3. QED
    BY <2>1, <2>2, PaddedType
<1>6. CASE piece = <<"%", "d">>
  <2>1. a \in WordValues
    BY <1>1, <1>6 DEF Numbers
  <2>2. Meaning(piece, a) = IF a < Power(2)[Bits - 1] THEN Numeral(a, 10)
                            ELSE <<"-">> \o Numeral(Power(2)[Bits] - a, 10)
    BY <1>6, MeaningIs
  <2>3. Numeral(a, 10) \in Seq(Signs)
    BY <2>1, NumeralType
  <2>4. ASSUME ~(a < Power(2)[Bits - 1])
        PROVE  <<"-">> \o Numeral(Power(2)[Bits] - a, 10) \in Seq(Signs)
    <3>1. Power(2)[Bits] - a \in WordValues
      BY <2>1, <2>4, WordSize DEF WordValues
    <3>2. Numeral(Power(2)[Bits] - a, 10) \in Seq(Signs)
      BY <3>1, NumeralType
    <3>3. QED
      BY <1>3, <3>2, ConcatProperties
  <2>5. QED
    BY <2>2, <2>3, <2>4
<1>7. CASE piece = <<"%", "c">> \/ piece = <<"%", "s">>
  <2>1. CASE piece = <<"%", "c">>
    <3>1. Meaning(piece, a) = <<a>> /\ a \in Signs
      BY <1>1, <2>1, MeaningIs
    <3>2. QED
      BY <1>3, <3>1
  <2>2. CASE piece = <<"%", "s">>
    BY <1>1, <2>2, MeaningIs
  <2>3. QED
    BY <1>7, <2>1, <2>2
<1>8. CASE piece = <<"%", "%">> \/ piece = <<"%">> \/ piece = <<"%", "#">>
  BY <1>3, <1>8, MeaningIs
<1>9. CASE \E c \in Chars \ {"%"} : piece = <<c>>
  <2>1. PICK c \in Chars \ {"%"} : piece = <<c>>
    BY <1>9
  <2>2. Meaning(piece, a) = <<c>>
    BY <2>1, CharMeansItself
  <2>3. QED
    BY <1>2, <1>3, <2>1, <2>2
<1>10. QED
  BY <1>4, <1>5, <1>6, <1>7, <1>8, <1>9, PieceKinds

\* What every piece of a format means with its own argument.
Meanings(ps, as) == [k \in DOMAIN ps |-> Meaning(ps[k], ArgOf(ps, as, k))]

WellFormed(ps, as) ==
  /\ ps \in Seq(Pieces)
  /\ \A k \in DOMAIN ps : /\ Fits(ps[k], ArgOf(ps, as, k))
                          /\ ps[k] \in Dangling => k = Len(ps)

LEMMA WellFormedTypes ==
  ASSUME NEW ps, NEW as, WellFormed(ps, as)
  PROVE  /\ ps \in Seq(Seq(Letters)) /\ Len(ps) \in Nat /\ DOMAIN ps = 1 .. Len(ps)
         /\ Meanings(ps, as) \in Seq(Seq(Signs)) /\ Len(Meanings(ps, as)) = Len(ps)
<1>1. ps \in Seq(Pieces) /\ Len(ps) \in Nat /\ DOMAIN ps = 1 .. Len(ps)
  BY LenProperties DEF WellFormed
<1>2. ASSUME NEW k \in 1 .. Len(ps) PROVE ps[k] \in Pieces /\ Fits(ps[k], ArgOf(ps, as, k))
  <2>1. ps[k] \in Pieces
    BY <1>1
  <2>2. Fits(ps[k], ArgOf(ps, as, k))
    BY <1>1, Zenon DEF WellFormed
  <2>3. QED
    BY <2>1, <2>2
<1>3. \A k \in 1 .. Len(ps) : ps[k] \in Seq(Letters)
  BY <1>2, PieceKinds
<1>4. ps \in Seq(Seq(Letters))
  BY <1>1, <1>3
<1> DEFINE M == Meanings(ps, as)
           T == Seq(Signs)
           n == Len(ps)
<1>5. \A k \in 1 .. n : Meaning(ps[k], ArgOf(ps, as, k)) \in T
  BY <1>2, MeaningType
<1>6. M = [k \in 1 .. n |-> Meaning(ps[k], ArgOf(ps, as, k))] /\ n \in Nat
  BY <1>1 DEF Meanings
<1> HIDE DEF M, T, n
<1>7. M \in Seq(T) /\ Len(M) = n
  <2>1. M \in [1 .. n -> T]
    BY <1>5, <1>6, Zenon
  <2>2. n \in Nat
    BY <1>6
  <2>3. DOMAIN M = 1 .. n /\ M \in Seq(T)
    BY <2>1, <2>2
  <2>4. QED
    BY <2>2, <2>3
<1>8. QED
  BY <1>1, <1>4, <1>7 DEF M, T, n

At(p) ==
  /\ out = Before(Meanings(pieces, args), p)
  /\ esp = Count(pieces, p) + 1

InPiece(p) == p < Len(pieces) /\ pieces[p + 1][1] = "%"

Where(p, b) ==
  \/ alternate = -1 /\ buf = b + 1
  \/ alternate = 0 /\ buf = b + 2 /\ InPiece(p)
  \/ /\ alternate = 1 /\ buf = b + 3 /\ InPiece(p)
     /\ Len(pieces[p + 1]) > 1 /\ pieces[p + 1][2] = "#"
  \/ alternate = -1 /\ buf = b + 2 /\ p = Len(pieces) /\ p > 0 /\ pieces[p] \in Dangling

PrintfInv ==
  /\ WellFormed(pieces, args)
  /\ \E p \in 0 .. Len(pieces) : At(p) /\ Where(p, Len(Before(pieces, p)))

\* Where pieces begin and end in the format.
LEMMA PiecePlaces ==
  ASSUME WellFormed(pieces, args), NEW p \in 0 .. Len(pieces)
  PROVE  /\ Len(Before(pieces, p)) \in Nat
         /\ p < Len(pieces) =>
              /\ Len(Before(pieces, p)) < Len(Format)
              /\ Len(Before(pieces, p + 1)) = Len(Before(pieces, p)) + Len(pieces[p + 1])
         /\ p = Len(pieces) => Len(Before(pieces, p)) = Len(Format)
<1> DEFINE n == Len(pieces)
           b == Len(Before(pieces, p))
<1>1. pieces \in Seq(Seq(Letters)) /\ n \in Nat
  BY WellFormedTypes
<1>2. Before(pieces, n) = Format
  BY <1>1, BeforeFacts DEF Format
<1>3. b \in Nat
  <2>1. Before(pieces, p) \in Seq(Letters)
    BY <1>1, BeforeFacts
  <2>2. QED
    BY <2>1, LenProperties
<1> HIDE DEF n, b
<1>4. ASSUME p < n
      PROVE  b < Len(Format) /\ Len(Before(pieces, p + 1)) = b + Len(pieces[p + 1])
  <2>1. p \in 0 .. n - 1 /\ p + 1 \in 1 .. n
    BY <1>1, <1>4 DEF n
  <2> DEFINE l == Len(pieces[p + 1])
             e == Len(Before(pieces, p + 1))
             w == Len(Format)
  <2>2. e = b + l /\ e <= w /\ w \in Nat
    <3>1. Format \in Seq(Letters) /\ e = b + l /\ e <= w
      BY <1>1, <2>1, FlattenAt DEF Format, n, b
    <3>2. QED
      BY <3>1, LenProperties
  <2>3. l \in 1 .. 3
    <3>1. pieces[p + 1] \in Pieces
      BY <2>1 DEF WellFormed, n
    <3>2. QED
      BY <3>1, PieceKinds
  <2> HIDE DEF l, e, w
  <2>4. b < w
    BY <1>3, <2>2, <2>3
  <2>5. QED
    BY <2>2, <2>4 DEF l, e, w
<1>5. p = n => b = Len(Format)
  BY <1>2 DEF b
<1>6. QED
  BY <1>3, <1>4, <1>5 DEF n, b

LEMMA CharInPiece ==
  ASSUME WellFormed(pieces, args), NEW p \in 0 .. Len(pieces), p < Len(pieces),
         NEW j \in 1 .. Len(pieces[p + 1]), buf = Len(Before(pieces, p)) + j
  PROVE  Char = pieces[p + 1][j]
<1>1. pieces \in Seq(Seq(Letters)) /\ Len(pieces) \in Nat
  BY WellFormedTypes
<1>2. p \in 0 .. Len(pieces) - 1 /\ p + 1 \in 1 .. Len(pieces)
  BY <1>1
<1> DEFINE b == Len(Before(pieces, p))
           l == Len(pieces[p + 1])
           e == Len(Before(pieces, p + 1))
           w == Len(Format)
<1>3. e = b + l /\ e <= w /\ w \in Nat /\ b \in Nat
      /\ \A k \in 1 .. l : Format[b + k] = pieces[p + 1][k]
  <2>1. /\ Format \in Seq(Letters) /\ e = b + l /\ e <= w /\ b \in Nat
        /\ \A k \in 1 .. l : Format[b + k] = pieces[p + 1][k]
    BY <1>1, <1>2, FlattenAt DEF Format
  <2>2. w \in Nat
    BY <2>1, LenProperties
  <2>3. QED
    BY <2>1, <2>2
<1>4. l \in 1 .. 3
  <2>1. pieces[p + 1] \in Pieces
    BY <1>2 DEF WellFormed
  <2>2. QED
    BY <2>1, PieceKinds
<1>5. Char = IF buf <= w THEN Format[buf] ELSE NoChar
  BY DEF Char
<1>6. j \in 1 .. l /\ buf = b + j
  OBVIOUS
<1> HIDE DEF b, l, e, w
<1>7. buf <= w
  BY <1>3, <1>4, <1>6
<1>8. QED
  BY <1>3, <1>5, <1>6, <1>7

LEMMA CharBehind ==
  ASSUME NEW k \in Nat, k > Len(Format), Len(Format) \in Nat, buf = k
  PROVE  Char = NoChar
BY DEF Char

\* To print what the next piece means moves on by one piece.
LEMMA Advance ==
  ASSUME WellFormed(pieces, args), NEW p \in 0 .. Len(pieces), p < Len(pieces), At(p),
         UNCHANGED <<pieces, args>>,
         out' = out \o Meaning(pieces[p + 1], ArgOf(pieces, args, p + 1)),
         esp' = IF pieces[p + 1] \in Takers THEN esp + 1 ELSE esp
  PROVE  p + 1 \in 0 .. Len(pieces) /\ At(p + 1)'
<1> DEFINE n == Len(pieces)
           M == Meanings(pieces, args)
<1>1. M \in Seq(Seq(Signs)) /\ Len(M) = n /\ n \in Nat /\ DOMAIN pieces = 1 .. n
  BY WellFormedTypes
<1>2. p + 1 \in 1 .. n /\ (p + 1) - 1 = p /\ p \in Nat
  BY <1>1
<1>3. M[p + 1] = Meaning(pieces[p + 1], ArgOf(pieces, args, p + 1))
  BY <1>1, <1>2 DEF Meanings
<1> HIDE DEF M
<1>4. Before(M, p + 1) = Before(M, (p + 1) - 1) \o M[p + 1]
  BY <1>1, <1>2, BeforeFacts
<1>5. out' = Before(M, p + 1)
  BY <1>2, <1>3, <1>4 DEF At, M
<1>6. esp' = Count(pieces, p + 1) + 1
  <2>1. Count(pieces, p) \in Nat /\ Count(pieces, p + 1) =
           IF pieces[p + 1] \in Takers THEN Count(pieces, p) + 1 ELSE Count(pieces, p)
    BY <1>2, CountStep
  <2>2. esp = Count(pieces, p) + 1
    BY DEF At
  <2>3. QED
    BY <2>1, <2>2
<1>7. At(p + 1)'
  BY <1>5, <1>6 DEF At, M
<1>8. QED
  BY <1>1, <1>2, <1>7

LEMMA StepKeepsPrintfInv ==
  ASSUME PrintfInv, PNext
  PROVE  PrintfInv'
<1>1. PICK p \in 0 .. Len(pieces) : At(p) /\ Where(p, Len(Before(pieces, p)))
  BY DEF PrintfInv
<1> DEFINE b == Len(Before(pieces, p))
           n == Len(pieces)
           piece == pieces[p + 1]
           mine == ArgOf(pieces, args, p + 1)
           m == Meaning(piece, mine)
<1>2. WellFormed(pieces, args) /\ UNCHANGED <<pieces, args>>
  BY DEF PrintfInv, PNext
<1>3. n \in Nat /\ p \in 0 .. n /\ b \in Nat /\ buf \in Nat /\ Where(p, b) /\ At(p)
  <2>1. n \in Nat /\ pieces \in Seq(Seq(Letters))
    BY <1>2, WellFormedTypes
  <2>2. Before(pieces, p) \in Seq(Letters)
    BY <2>1, BeforeFacts
  <2>3. b \in Nat
    BY <2>2, LenProperties
  <2> HIDE DEF b
  <2>4. Where(p, b)
    BY <1>1 DEF b
  <2>5. buf \in Nat
    BY <2>3, <2>4 DEF Where
  <2>6. QED
    BY <1>1, <2>1, <2>3, <2>4, <2>5
<1>4. /\ p < n => /\ b < Len(Format)
                 /\ Len(Before(pieces, p + 1)) = b + Len(piece)
      /\ p = n => b = Len(Format)
  BY <1>2, PiecePlaces
<1>5. p < n => /\ piece \in Pieces /\ (piece \in Dangling => p + 1 = n)
               /\ Fits(piece, mine)
  <2> SUFFICES ASSUME p < n
               PROVE  /\ piece \in Pieces /\ (piece \in Dangling => p + 1 = n)
                      /\ Fits(piece, mine)
    OBVIOUS
  <2>1. p + 1 \in 1 .. n /\ DOMAIN pieces = 1 .. n /\ pieces \in Seq(Pieces)
    BY <1>2, <1>3, LenProperties DEF WellFormed
  <2>2. piece \in Pieces
    BY <2>1
  <2>3. Fits(piece, mine) /\ (piece \in Dangling => p + 1 = n)
    BY <1>2, <2>1, Zenon DEF WellFormed
  <2>4. QED
    BY <2>2, <2>3
<1>6. mine = args[esp] \/ piece \notin Takers \/ ~(p < n)
  <2> SUFFICES ASSUME p < n, piece \in Takers PROVE mine = args[esp]
    OBVIOUS
  <2>1. p \in Nat
    BY <1>3
  <2>2. Count(pieces, p + 1) = Count(pieces, p) + 1
    BY <2>1, CountStep
  <2>3. esp = Count(pieces, p + 1)
    BY <1>3, <2>2 DEF At
  <2>4. QED
    BY <2>3 DEF ArgOf, Count
<1>7. ASSUME p < n, out' = out \o m, esp' = IF piece \in Takers THEN esp + 1 ELSE esp
      PROVE  p + 1 \in 0 .. n /\ At(p + 1)'
  BY <1>2, <1>3, <1>7, Advance
\* To be at piece q with the flag and the next character as Where has them.
<1>8. ASSUME NEW q \in 0 .. n, At(q)', Where(q, Len(Before(pieces, q)))'
      PROVE  PrintfInv'
  BY <1>2, <1>8 DEF PrintfInv
<1>a. ASSUME p < n, NEW k \in 1 .. Len(piece), buf = b + k PROVE Char = piece[k]
  BY <1>2, <1>a, CharInPiece
<1>b. ASSUME p < n, p + 1 = n, buf = (b + Len(piece)) + 1 PROVE Char = NoChar
  <2>1. Len(Format) = b + Len(piece) /\ Len(Format) \in Nat
    <3>1. p + 1 \in 0 .. Len(pieces) /\ p + 1 = Len(pieces)
      BY <1>3, <1>b
    <3>2. Len(Before(pieces, p + 1)) = Len(Format) /\ Len(Before(pieces, p + 1)) \in Nat
      BY <1>2, <3>1, PiecePlaces
    <3>3. QED
      BY <1>4, <1>b, <3>2
  <2> HIDE DEF b, n, piece, mine, m
  <2>2. QED
    BY <1>b, <1>3, <2>1, CharBehind
<1> HIDE DEF b, n, piece, mine, m
<1>9. ASSUME p < n, out' = out \o m, alternate' = -1,
             esp' = IF piece \in Takers THEN esp + 1 ELSE esp,
             \/ buf' = (b + Len(piece)) + 1
             \/ buf' = (b + Len(piece)) + 2 /\ piece \in Dangling
      PROVE  PrintfInv'
  <2>1. p + 1 \in 0 .. n /\ At(p + 1)'
    BY <1>7, <1>9
  <2>2. Len(Before(pieces, p + 1)) = b + Len(piece)
    BY <1>4, <1>9
  <2>3. piece \in Dangling => p + 1 = Len(pieces) /\ p + 1 > 0 /\ pieces[p + 1] \in Dangling
    BY <1>3, <1>5, <1>9 DEF n, piece
  <2>4. Where(p + 1, Len(Before(pieces, p + 1)))'
    BY <1>2, <1>9, <2>2, <2>3 DEF Where
  <2>5. QED
    BY <1>8, <2>1, <2>4
<1>10. ASSUME p < n, UNCHANGED <<out, esp>>, Where(p, Len(Before(pieces, p)))'
       PROVE  PrintfInv'
  <2>1. At(p)'
    BY <1>1, <1>2, <1>10 DEF At
  <2>2. QED
    BY <1>3, <1>8, <1>10, <2>1
<1>11. p < n => out \in Seq(Signs) /\ m \in Seq(Signs)
  <2> DEFINE M == Meanings(pieces, args)
  <2>1. M \in Seq(Seq(Signs)) /\ Len(M) = n
    BY <1>2, WellFormedTypes DEF n
  <2>2. out = Before(M, p)
    BY <1>1 DEF At
  <2> HIDE DEF M
  <2>3. out \in Seq(Signs)
    BY <1>3, <2>1, <2>2, BeforeFacts
  <2>4. ASSUME p < n PROVE m \in Seq(Signs)
    BY <1>5, <2>4, MeaningType DEF m
  <2>5. QED
    BY <2>3, <2>4
<1>12. \/ alternate = -1 /\ buf <= Len(Format) /\ Char # "%" /\ out' = Append(out, Char)
          /\ buf' = buf + 1 /\ UNCHANGED <<alternate, esp>>
       \/ alternate = -1 /\ Char = "%" /\ alternate' = 0 /\ buf' = buf + 1
          /\ UNCHANGED <<esp, out>>
       \/ alternate # -1 /\ Char = "#" /\ alternate' = 1 /\ buf' = buf + 1
          /\ UNCHANGED <<esp, out>>
       \/ alternate # -1 /\ Char \in {"x", "u", "d", "c", "s"}
          /\ out' = out \o Converted(Char) /\ esp' = esp + 1 /\ buf' = buf + 1
          /\ alternate' = -1
       \/ alternate # -1 /\ Char \notin {"x", "u", "d", "c", "s", "#"}
          /\ out' = (IF Char = "%" THEN Append(out, "%") ELSE out) /\ buf' = buf + 1
          /\ alternate' = -1 /\ esp' = esp
  BY DEF PNext, Literal, Percent, Alternate, Convert, Other
<1>13. Char = NoChar => Char \notin {"%", "#", "x", "u", "d", "c", "s"}
  BY DEF NoChar
<1>14. CASE p = n
  <2>1. b = Len(Format) /\ alternate = -1 /\ buf > b
    BY <1>3, <1>4, <1>14 DEF Where, InPiece, n
  <2>2. Char = NoChar
    BY <1>3, <2>1, CharBehind
  <2>3. ~(buf <= Len(Format))
    BY <1>3, <2>1
  <2>4. QED
    BY <1>12, <1>13, <2>1, <2>2, <2>3
<1>15. CASE p < n /\ alternate = -1
  <2>1. buf = b + 1
    BY <1>3, <1>15 DEF Where, n
  <2>2. piece \in Seq(Letters) /\ Len(piece) \in 1 .. 3
    BY <1>5, <1>15, PieceKinds
  <2>3. Char = piece[1]
    <3> DEFINE l == Len(piece)
    <3>0. l \in 1 .. 3
      BY <2>2
    <3> HIDE DEF l
    <3>1. 1 \in 1 .. Len(piece)
      BY <3>0 DEF l
    <3>2. QED
      BY <1>a, <1>15, <2>1, <3>1
  <2>4. CASE Char = "%"
    <3>1. alternate' = 0 /\ buf' = b + 2 /\ UNCHANGED <<esp, out>>
      BY <1>3, <1>12, <1>15, <2>1, <2>4
    <3>2. Where(p, b)'
      BY <1>2, <1>15, <2>3, <2>4, <3>1 DEF Where, InPiece, n, piece, b
    <3>3. QED
      BY <1>2, <1>10, <1>15, <3>1, <3>2 DEF b
  <2>5. CASE Char # "%"
    <3>1. PICK c \in Chars \ {"%"} : piece = <<c>>
      BY <1>5, <1>15, <2>3, <2>5, PieceKinds
    <3>2. m = <<c>>
      BY <3>1, CharMeansItself DEF m
    <3>3. piece \notin Takers /\ Len(piece) = 1 /\ Char = c
      BY <2>3, <3>1 DEF Takers, Numbers
    <3>4. out' = Append(out, c) /\ buf' = buf + 1 /\ alternate' = -1 /\ esp' = esp
      BY <1>12, <1>15, <2>5, <3>3
    <3>5. out' = out \o m
      BY <1>11, <1>15, <3>2, <3>4
    <3>6. buf' = (b + Len(piece)) + 1
      BY <1>3, <2>1, <3>3, <3>4
    <3>7. QED
      BY <1>9, <1>15, <3>3, <3>4, <3>5, <3>6
  <2>6. QED
    BY <2>4, <2>5
<1>16. CASE p < n /\ alternate # -1
  <2>1. piece[1] = "%" /\ alternate \in {0, 1} /\ buf = (b + alternate) + 2
        /\ (alternate = 1 => Len(piece) > 1 /\ piece[2] = "#")
    BY <1>3, <1>16 DEF Where, InPiece, piece
  <2> DEFINE j == alternate + 2
  <2>2. j \in {2, 3} /\ buf = b + j /\ (j <= Len(piece) => Char = piece[j])
    <3>1. Len(piece) \in 1 .. 3
      BY <1>5, <1>16, PieceKinds
    <3>2. j \in {2, 3} /\ buf = b + j
      BY <1>3, <2>1
    <3> HIDE DEF j
    <3>3. ASSUME j <= Len(piece) PROVE Char = piece[j]
      <4>1. j \in 1 .. Len(piece)
        BY <3>1, <3>2, <3>3
      <4>2. QED
        BY <1>a, <1>16, <3>2, <4>1
    <3>4. QED
      BY <3>2, <3>3
  <2>3. ASSUME piece \in Dangling, Len(piece) = alternate + 1 PROVE PrintfInv'
    <3>1. m = <<>> /\ piece \notin Takers
      <4>1. piece = <<"%">> \/ piece = <<"%", "#">>
        BY <2>3 DEF Dangling
      <4>2. piece \notin Takers
        <5>1. ASSUME NEW t \in Takers PROVE t[Len(t)] \in {"x", "u", "d", "c", "s"}
          <6>1. \/ \E c \in {"x", "u", "d", "c", "s"} : t = <<"%", c>>
                \/ t = <<"%", "#", "x">>
            BY DEF Takers, Numbers
          <6>2. QED
            BY <6>1
        <5>2. piece[Len(piece)] \notin {"x", "u", "d", "c", "s"}
          BY <4>1
        <5>3. QED
          BY <5>1, <5>2
      <4>3. m = <<>>
        BY <4>1, MeaningIs DEF m
      <4>4. QED
        BY <4>2, <4>3
    <3>2. Char = NoChar
      <4>1. p + 1 = n
        BY <1>5, <1>16, <2>3
      <4>2. buf = (b + Len(piece)) + 1
        BY <1>3, <2>1, <2>3
      <4>3. QED
        BY <1>b, <1>16, <4>1, <4>2
    <3>3. out' = out /\ buf' = buf + 1 /\ alternate' = -1 /\ esp' = esp
      BY <1>12, <1>13, <1>16, <3>2
    <3>4. out' = out \o m
      BY <1>11, <1>16, <3>1, <3>3
    <3>5. buf' = (b + Len(piece)) + 2
      BY <1>3, <2>1, <2>3, <3>3
    <3>6. QED
      BY <1>9, <1>16, <2>3, <3>1, <3>3, <3>4, <3>5
  <2>4. ASSUME piece \in Takers, Len(piece) = j, Char \in {"x", "u", "d", "c", "s"},
               Converted(Char) = m
        PROVE  PrintfInv'
    <3>1. /\ out' = out \o m /\ esp' = esp + 1 /\ buf' = buf + 1 /\ alternate' = -1
      BY <1>12, <1>16, <2>4
    <3>2. buf' = (b + Len(piece)) + 1
      BY <1>3, <2>2, <2>4, <3>1
    <3>3. QED
      BY <1>9, <1>16, <2>4, <3>1, <3>2
  <2>5. piece \in Takers => mine = args[esp] /\ Fits(piece, args[esp])
    BY <1>5, <1>6, <1>16
  <2>6. piece \in Numbers => args[esp] \in WordValues
    <3>1. piece \in Numbers => piece \in Takers
      BY DEF Takers
    <3>2. QED
      BY <2>5, <3>1 DEF Fits, WordValues
  <2>7. /\ Converted("x") = IF alternate = 1 THEN Padded(args[esp]) ELSE itoa(args[esp], 16)
        /\ Converted("u") = itoa(args[esp], 10)
        /\ Converted("d") = Signed(args[esp])
        /\ Converted("c") = <<args[esp]>>
        /\ Converted("s") = args[esp]
    BY DEF Converted
  <2>8. CASE piece \in {<<"%", "x">>, <<"%", "u">>, <<"%", "d">>}
    <3>1. Len(piece) = 2 /\ piece \in Numbers /\ piece \in Takers
      BY <2>8 DEF Takers, Numbers
    <3>2. alternate = 0 /\ j = 2
      BY <2>1, <2>8
    <3>3. Char = piece[2]
      BY <2>2, <3>1, <3>2
    <3>4. args[esp] \in WordValues /\ mine = args[esp]
      BY <2>5, <2>6, <3>1
    <3>5. Converted(Char) = m
      <4>1. CASE piece = <<"%", "x">>
        <5>1. Char = "x" /\ m = Numeral(args[esp], 16)
          BY <3>3, <3>4, <4>1, MeaningIs DEF m
        <5>2. itoa(args[esp], 16) = Numeral(args[esp], 16)
          BY <3>4, ItoaRight
        <5>3. QED
          BY <2>7, <3>2, <5>1, <5>2
      <4>2. CASE piece = <<"%", "u">>
        <5>1. Char = "u" /\ m = Numeral(args[esp], 10)
          BY <3>3, <3>4, <4>2, MeaningIs DEF m
        <5>2. itoa(args[esp], 10) = Numeral(args[esp], 10)
          BY <3>4, ItoaRight
        <5>3. QED
          BY <2>7, <5>1, <5>2
      <4>3. CASE piece = <<"%", "d">>
        <5>1. Char = "d"
          BY <3>3, <4>3
        <5>2. m = Signed(args[esp])
          BY <3>4, <4>3, MeaningIs, SignedRight DEF m
        <5>3. QED
          BY <2>7, <5>1, <5>2
      <4>4. QED
        BY <2>8, <4>1, <4>2, <4>3
    <3>6. Char \in {"x", "u", "d", "c", "s"}
      BY <2>8, <3>3
    <3>7. QED
      BY <2>4, <3>1, <3>2, <3>5, <3>6
  <2>9. CASE piece \in {<<"%", "c">>, <<"%", "s">>}
    <3>1. Len(piece) = 2 /\ piece \in Takers
      BY <2>9 DEF Takers
    <3>2. alternate = 0 /\ j = 2
      BY <2>1, <2>9
    <3>3. Char = piece[2] /\ mine = args[esp]
      BY <2>2, <2>5, <3>1, <3>2
    <3>4. Converted(Char) = m
      <4>1. CASE piece = <<"%", "c">>
        <5>1. Char = "c" /\ m = <<args[esp]>>
          BY <3>3, <4>1, MeaningIs DEF m
        <5>2. QED
          BY <2>7, <5>1
      <4>2. CASE piece = <<"%", "s">>
        <5>1. Char = "s" /\ m = args[esp]
          BY <3>3, <4>2, MeaningIs DEF m
        <5>2. QED
          BY <2>7, <5>1
      <4>3. QED
        BY <2>9, <4>1, <4>2
    <3>5. Char \in {"x", "u", "d", "c", "s"}
      BY <2>9, <3>3
    <3>6. QED
      BY <2>4, <3>1, <3>2, <3>4, <3>5
  <2>10. CASE piece = <<"%", "%">>
    <3>1. alternate = 0 /\ Len(piece) = 2 /\ j = 2 /\ piece \notin Takers /\ m = <<"%">>
      <4>1. alternate = 0 /\ j = 2 /\ Len(piece) = 2
        BY <2>1, <2>10
      <4>2. piece \notin Takers
        BY <2>10 DEF Takers, Numbers
      <4>3. QED
        BY <2>10, <4>1, <4>2, MeaningIs DEF m
    <3>2. Char = "%"
      BY <2>2, <2>10, <3>1
    <3>3. out' = Append(out, "%") /\ buf' = buf + 1 /\ alternate' = -1 /\ esp' = esp
      BY <1>12, <1>16, <3>2
    <3>4. out' = out \o m /\ buf' = (b + Len(piece)) + 1
      BY <1>3, <1>11, <1>16, <2>2, <3>1, <3>3
    <3>5. QED
      BY <1>9, <1>16, <3>1, <3>3, <3>4
  <2>11. CASE piece = <<"%">>
    <3>1. alternate = 0 /\ Len(piece) = 1
      BY <2>1, <2>11
    <3>2. QED
      BY <2>3, <2>11, <3>1 DEF Dangling
  <2>12. CASE alternate = 0 /\ piece \in {<<"%", "#">>, <<"%", "#", "x">>}
    <3>1. j = 2 /\ Len(piece) > 1 /\ piece[2] = "#"
      BY <2>12
    <3>2. Char = "#"
      BY <2>2, <2>12, <3>1
    <3>3. alternate' = 1 /\ buf' = b + 3 /\ UNCHANGED <<out, esp>>
      BY <1>3, <1>12, <1>16, <2>2, <3>1, <3>2
    <3>4. Where(p, b)'
      BY <1>2, <1>16, <2>1, <3>1, <3>3 DEF Where, InPiece, n, piece, b
    <3>5. QED
      BY <1>2, <1>10, <1>16, <3>3, <3>4 DEF b
  <2>13. CASE alternate = 1 /\ piece = <<"%", "#">>
    <3>1. Len(piece) = alternate + 1 /\ piece \in Dangling
      BY <2>13 DEF Dangling
    <3>2. QED
      BY <2>3, <3>1
  <2>14. CASE alternate = 1 /\ piece = <<"%", "#", "x">>
    <3>1. Len(piece) = 3 /\ j = 3 /\ piece \in Numbers /\ piece \in Takers
      BY <2>14 DEF Takers, Numbers
    <3>2. Char = "x"
      BY <2>2, <2>14, <3>1
    <3>3. args[esp] \in WordValues /\ mine = args[esp]
      BY <2>5, <2>6, <3>1
    <3>4. m = [k \in 1 .. Bits \div 4 |-> Digit(mine, 16, (Bits \div 4) - k)]
      BY <2>14, MeaningIs DEF m
    <3>5. Converted(Char) = m
      BY <2>7, <2>14, <3>2, <3>3, <3>4, PaddedRight
    <3>6. QED
      BY <2>4, <3>1, <3>2, <3>5
  <2>15. ~(\E c \in Chars \ {"%"} : piece = <<c>>)
    BY <2>1
  <2>16. QED
    BY <1>5, <1>16, <2>1, <2>8, <2>9, <2>10, <2>11, <2>12, <2>13, <2>14, <2>15, PieceKinds
<1>17. QED
  BY <1>3, <1>14, <1>15, <1>16

-----------------------------------------------------------------------------
(* read_dentry_by_name.                                                    *)

\* A string or a name: its indices are the naturals up to some bound.
IsArray(s) == \A k \in DOMAIN s : k \in Nat /\ 0 .. k \subseteq DOMAIN s

\* strlen gives the index of the first NUL, or more than a name's length.
LEMMA StrlenFacts ==
  ASSUME NEW s, IsArray(s)
  PROVE  /\ (\E k \in DOMAIN s : s[k] = NUL) =>
              /\ Strlen(s) \in DOMAIN s /\ Strlen(s) \in Nat /\ s[Strlen(s)] = NUL
              /\ \A j \in Nat : j < Strlen(s) => j \in DOMAIN s /\ s[j] # NUL
         /\ (\A k \in DOMAIN s : s[k] # NUL) => Strlen(s) = NameMax + 1
<1>1. ASSUME NEW k \in DOMAIN s, s[k] = NUL
      PROVE  /\ Strlen(s) \in DOMAIN s /\ s[Strlen(s)] = NUL
             /\ \A j \in 0 .. Strlen(s) - 1 : s[j] # NUL
  <2> DEFINE N == {j \in DOMAIN s : s[j] = NUL}
  <2>1. N \in SUBSET Nat /\ N # {}
    BY <1>1 DEF IsArray
  <2>2. PICK m \in N : \A r \in N : m <= r
    BY <2>1, LeastNatural
  <2>3. ASSUME NEW j \in 0 .. m - 1
        PROVE  s[j] # NUL
    <3>1. m \in Nat /\ j \in DOMAIN s /\ ~(m <= j)
      BY <2>1, <2>2, <2>3 DEF IsArray
    <3>2. QED
      BY <2>2, <3>1
  <2>4. m \in DOMAIN s /\ s[m] = NUL
    OBVIOUS
  <2>5. \E i \in DOMAIN s : s[i] = NUL /\ \A j \in 0 .. i - 1 : s[j] # NUL
    BY <2>3, <2>4
  <2>6. QED
    BY <1>1, <2>5 DEF Strlen
<1>2. ASSUME \E k \in DOMAIN s : s[k] = NUL
      PROVE  /\ Strlen(s) \in Nat
             /\ \A j \in Nat : j < Strlen(s) => j \in DOMAIN s /\ s[j] # NUL
  BY <1>1, <1>2 DEF IsArray
<1>3. (\A k \in DOMAIN s : s[k] # NUL) => Strlen(s) = NameMax + 1
  BY DEF Strlen
<1>4. QED
  BY <1>1, <1>2, <1>3

\* How long the name in an entry is.
NameLength(e) == Smaller(Strlen(e), NameMax)

LEMMA NameFacts ==
  ASSUME NEW e, DOMAIN e = 0 .. NameMax - 1
  PROVE  /\ NameLength(e) \in 0 .. NameMax
         /\ NameLength(e) < NameMax => e[NameLength(e)] = NUL
         /\ \A j \in 0 .. NameLength(e) - 1 : e[j] # NUL
<1>1. IsArray(e) /\ NameMax \in Nat
  BY DentryAssumption DEF IsArray
<1>2. CASE \E k \in DOMAIN e : e[k] = NUL
  <2>1. /\ Strlen(e) \in 0 .. NameMax - 1 /\ e[Strlen(e)] = NUL
        /\ \A j \in Nat : j < Strlen(e) => e[j] # NUL
    BY <1>1, <1>2, StrlenFacts
  <2>2. NameLength(e) = Strlen(e)
    BY <1>1, <2>1 DEF NameLength, Smaller
  <2>3. QED
    BY <1>1, <2>1, <2>2
<1>3. CASE \A k \in DOMAIN e : e[k] # NUL
  <2>1. NameLength(e) = NameMax
    BY <1>1, <1>3, StrlenFacts DEF NameLength, Smaller
  <2>2. QED
    BY <1>1, <1>3, <2>1
<1>4. QED
  BY <1>2, <1>3

\* Comparing enough bytes for the string and for the name, and no more than
\* a name has, tells whether they are the same.
LEMMA CompareDecides ==
  ASSUME NEW f \in Fnames, NEW e, DOMAIN e = 0 .. NameMax - 1,
         NEW n \in 0 .. NameMax, Strlen(f) <= n, NameLength(e) <= n
  PROVE  StrncmpZero(f, e, n) <=>
           Strlen(f) = NameLength(e) /\ \A k \in 0 .. Strlen(f) - 1 : f[k] = e[k]
<1> DEFINE L == Strlen(f)
           E == NameLength(e)
<1>1. NameMax \in Nat /\ L \in Nat /\ f[L] = NUL /\ \A j \in 0 .. L - 1 : f[j] # NUL
  BY DentryAssumption, StrlenFacts DEF IsArray
<1>2. /\ E \in 0 .. NameMax /\ (E < NameMax => e[E] = NUL)
      /\ \A j \in 0 .. E - 1 : e[j] # NUL
  BY NameFacts
<1> HIDE DEF L, E
<1>3. L <= n /\ E <= n
  BY DEF L, E
<1>4. ASSUME StrncmpZero(f, e, n)
      PROVE  L = E /\ \A k \in 0 .. L - 1 : f[k] = e[k]
  <2>1. \A i \in 0 .. n - 1 :
          (\A j \in 0 .. i - 1 : f[j] = e[j] /\ f[j] # NUL) => f[i] = e[i]
    BY <1>4 DEF StrncmpZero
  <2>2. \A k \in 0 .. L - 1 : f[k] = e[k]
    <3> DEFINE D == {k \in 0 .. L - 1 : f[k] # e[k]}
    <3>1. ASSUME D # {} PROVE FALSE
      <4>1. D \in SUBSET Nat
        BY <1>1
      <4>2. PICK m \in D : \A r \in D : m <= r
        BY <3>1, <4>1, LeastNatural
      <4>3. m \in 0 .. n - 1 /\ f[m] # e[m]
        BY <1>1, <1>3
      <4>4. ASSUME NEW j \in 0 .. m - 1 PROVE f[j] = e[j] /\ f[j] # NUL
        <5>1. j \in 0 .. L - 1 /\ ~(m <= j)
          BY <1>1, <4>4
        <5>2. QED
          BY <1>1, <4>2, <5>1
      <4>5. QED
        BY <2>1, <4>3, <4>4
    <3>2. QED
      BY <3>1
  <2>3. ~(E < L)
    BY <1>1, <1>2, <1>3, <2>2
  <2>4. ~(L < E)
    <3> SUFFICES ASSUME L < E PROVE FALSE
      OBVIOUS
    <3>1. L \in 0 .. n - 1 /\ L \in 0 .. E - 1
      BY <1>1, <1>2, <1>3
    <3>2. f[L] = e[L]
      BY <1>1, <2>1, <2>2, <3>1
    <3>3. QED
      BY <1>1, <1>2, <3>1, <3>2
  <2>5. QED
    BY <1>1, <1>2, <2>2, <2>3, <2>4
<1>5. ASSUME L = E, \A k \in 0 .. L - 1 : f[k] = e[k]
      PROVE  StrncmpZero(f, e, n)
  <2> SUFFICES ASSUME NEW i \in 0 .. n - 1,
                      \A j \in 0 .. i - 1 : f[j] = e[j] /\ f[j] # NUL
               PROVE  f[i] = e[i]
    BY DEF StrncmpZero
  <2>1. i <= L
    BY <1>1
  <2>2. CASE i < L
    BY <1>1, <1>5, <2>2
  <2>3. CASE i = L
    BY <1>1, <1>2, <1>5, <2>3
  <2>4. QED
    BY <1>1, <2>1, <2>2, <2>3
<1>6. QED
  BY <1>4, <1>5 DEF L, E

\* A lookup has passed only entries of other names, and compares as many
\* bytes as the string and the names it has passed need.
LookupInv ==
  /\ \/ dir = <<>> /\ found = -1
     \/ dir \in Dirs /\ fname \in Fnames
  /\ index_dir_entry \in Nat \ {0} /\ found \in Int
  /\ found = 0 =>
       /\ dir \in Dirs /\ fname \in Fnames
       /\ name_count1 \in Strlen(fname) .. NameMax
       /\ \A k \in DOMAIN dir : k < index_dir_entry => ~SameName(dir[k])
  /\ LookupFirst

LEMMA InitLookupInv == DInit => LookupInv
<1> SUFFICES ASSUME DInit PROVE LookupInv
  OBVIOUS
<1>1. dir = <<>> /\ found = -1 /\ index_dir_entry = 1 /\ DOMAIN dir = {}
  BY DEF DInit
<1>2. QED
  BY <1>1 DEF LookupInv, LookupFirst

LEMMA CallKeepsLookupInv ==
  ASSUME LookupInv, DCall
  PROVE  LookupInv'
<1>1. /\ fname' \in Fnames /\ dir' \in Dirs /\ index_dir_entry' = 1
      /\ name_count1' = Strlen(fname')
      /\ found' = IF Strlen(fname') > NameMax THEN -1 ELSE 0
  BY DEF DCall
<1>2. Strlen(fname') \in Nat /\ NameMax \in Nat
  BY <1>1, DentryAssumption, StrlenFacts DEF IsArray
<1>3. DOMAIN dir' \in SUBSET (Nat \ {0})
  BY <1>1, DentryAssumption
<1>4. ASSUME found' = -1, NEW k \in DOMAIN dir' PROVE ~SameName(dir[k])'
  <2>1. Strlen(fname') > NameMax
    BY <1>1, <1>4
  <2>2. DOMAIN dir'[k] = 0 .. NameMax - 1
    BY <1>1, DentryAssumption
  <2>3. NameLength(dir'[k]) \in 0 .. NameMax
    BY <2>2, NameFacts
  <2>4. QED
    BY <1>2, <2>1, <2>3 DEF SameName, NameLength
<1>5. LookupFirst'
  BY <1>1, <1>4 DEF LookupFirst
<1>6. QED
  BY <1>1, <1>2, <1>3, <1>5 DEF LookupInv

LEMMA CompareKeepsLookupInv ==
  ASSUME LookupInv, Compare
  PROVE  LookupInv'
<1> DEFINE i == index_dir_entry
           e == dir[i]
           n == Larger(name_count1, NameLength(e))
<1>1. /\ found = 0 /\ dir \in Dirs /\ fname \in Fnames /\ i \in Nat \ {0}
      /\ name_count1 \in Strlen(fname) .. NameMax
      /\ \A k \in DOMAIN dir : k < i => ~SameName(dir[k])
  BY DEF LookupInv, Compare
<1>2. dir' = dir /\ fname' = fname
  BY DEF Compare
<1>3. /\ Len(dir) \in Nat /\ DOMAIN dir = 1 .. Len(dir)
      /\ \A k \in DOMAIN dir : DOMAIN dir[k] = 0 .. NameMax - 1
  BY <1>1, DentryAssumption
<1>4. NameMax \in Nat /\ Strlen(fname) \in Nat
  BY <1>1, DentryAssumption, StrlenFacts DEF IsArray
<1>5. \A k \in DOMAIN dir : SameName(dir[k])' = SameName(dir[k])
  BY <1>2 DEF SameName
<1>6. CASE i > Len(dir)
  <2>1. found' = -1 /\ index_dir_entry' = i /\ name_count1' = name_count1
    BY <1>6 DEF Compare
  <2>2. \A k \in DOMAIN dir : ~SameName(dir[k])
    BY <1>1, <1>3, <1>6
  <2>3. LookupFirst'
    BY <1>2, <1>5, <2>1, <2>2 DEF LookupFirst
  <2>4. QED
    BY <1>1, <1>2, <2>1, <2>3 DEF LookupInv
<1>7. CASE ~(i > Len(dir))
  <2>1. i \in DOMAIN dir
    BY <1>1, <1>3, <1>7
  <2>2. DOMAIN e = 0 .. NameMax - 1
    BY <1>3, <2>1
  <2>3. NameLength(e) \in 0 .. NameMax
    BY <2>2, NameFacts
  <2>4. n \in Strlen(fname) .. NameMax /\ NameLength(e) <= n
    BY <1>1, <1>4, <2>3 DEF Larger
  <2>5. StrncmpZero(fname, e, n) <=> SameName(e)
    <3> HIDE DEF n, e
    <3>1. n \in 0 .. NameMax /\ Strlen(fname) <= n
      BY <1>4, <2>4
    <3>2. QED
      BY <1>1, <2>2, <2>4, <3>1, CompareDecides DEF SameName, NameLength
  <2>6. /\ name_count1' = n
        /\ IF StrncmpZero(fname, e, n)
           THEN found' = i /\ index_dir_entry' = i
           ELSE index_dir_entry' = i + 1 /\ found' = found
    BY <1>7 DEF Compare, NameLength
  <2> HIDE DEF n
  <2>7. CASE SameName(e)
    <3>1. found' = i /\ index_dir_entry' = i /\ i > 0
      BY <1>1, <2>5, <2>6, <2>7
    <3>2. \A k \in DOMAIN dir : SameName(dir[k]) => i <= k
      BY <1>1, <1>3
    <3>3. LookupFirst'
      BY <1>2, <1>5, <2>1, <2>7, <3>1, <3>2 DEF LookupFirst
    <3>4. QED
      BY <1>1, <1>2, <3>1, <3>3 DEF LookupInv
  <2>8. CASE ~SameName(e)
    <3>1. found' = 0 /\ index_dir_entry' = i + 1 /\ name_count1' = n
      BY <1>1, <2>5, <2>6, <2>8
    <3>2. \A k \in DOMAIN dir : k < i + 1 => ~SameName(dir[k])
      <4> SUFFICES ASSUME NEW k \in DOMAIN dir, k < i + 1 PROVE ~SameName(dir[k])
        OBVIOUS
      <4>1. k < i \/ k = i
        BY <1>1, <1>3
      <4>2. QED
        BY <1>1, <2>8, <4>1
    <3>3. LookupFirst'
      BY <3>1 DEF LookupFirst
    <3>4. QED
      BY <1>1, <1>2, <1>5, <2>4, <3>1, <3>2, <3>3 DEF LookupInv
  <2>9. QED
    BY <2>7, <2>8
<1>8. QED
  BY <1>6, <1>7

LEMMA ReturnKeepsLookupInv ==
  ASSUME DReturn
  PROVE  LookupInv'
<1>1. dir' = <<>> /\ found' = -1 /\ index_dir_entry' = 1
  BY DEF DReturn
<1>2. DOMAIN dir' = {}
  BY <1>1
<1>3. QED
  BY <1>1, <1>2 DEF LookupInv, LookupFirst

-----------------------------------------------------------------------------
(* The library as a whole.                                                 *)

\* A format with nothing done of it yet.
LEMMA FreshFormat ==
  ASSUME NEW ps, NEW as, WellFormed(ps, as)
  PROVE  Before(Meanings(ps, as), 0) = <<>> /\ Before(ps, 0) = <<>> /\ Count(ps, 0) = 0
<1>1. ps \in Seq(Seq(Letters)) /\ Meanings(ps, as) \in Seq(Seq(Signs))
  BY WellFormedTypes
<1>2. Count(ps, 0) = 0
  BY CountStep
<1>3. Before(ps, 0) = <<>>
  BY <1>1, BeforeFacts
<1>4. Before(Meanings(ps, as), 0) = <<>>
  <2> DEFINE M == Meanings(ps, as)
  <2>1. M \in Seq(Seq(Signs))
    BY <1>1
  <2> HIDE DEF M
  <2>2. Before(M, 0) = <<>>
    BY <2>1, BeforeFacts
  <2>3. QED
    BY <2>2 DEF M
<1>5. QED
  BY <1>2, <1>3, <1>4

LEMMA NoFormat == WellFormed(<<>>, <<>>)
<1>1. <<>> \in Seq(Pieces) /\ DOMAIN <<>> = {}
  OBVIOUS
<1>2. QED
  BY <1>1 DEF WellFormed

LEMMA InitPrintfInv == PInit => PrintfInv
<1> SUFFICES ASSUME PInit PROVE PrintfInv
  OBVIOUS
<1>1. /\ pieces = <<>> /\ args = <<>> /\ buf = 1 /\ alternate = -1 /\ esp = 1
      /\ out = <<>>
  BY DEF PInit
<1>2. WellFormed(pieces, args)
  BY <1>1, NoFormat
<1>3. At(0)
  BY <1>1, <1>2, FreshFormat DEF At
<1>4. Where(0, Len(Before(pieces, 0)))
  <2>1. Len(Before(pieces, 0)) = 0
    BY <1>2, FreshFormat
  <2>2. QED
    BY <1>1, <2>1 DEF Where
<1>5. 0 \in 0 .. Len(pieces)
  BY <1>1
<1>6. QED
  BY <1>2, <1>3, <1>4, <1>5 DEF PrintfInv

LEMMA CallKeepsPrintfInv ==
  ASSUME PInit, PCall
  PROVE  PrintfInv'
<1>1. /\ buf' = 1 /\ alternate' = -1 /\ esp' = 1 /\ out' = <<>>
  BY DEF PInit, PCall
<1>2. PICK f \in Formats : pieces' = f[1] /\ args' = f[2]
  BY DEF PCall
<1>3. WellFormed(f[1], f[2])
  BY PrintfAssumption DEF WellFormed
<1>4. WellFormed(pieces, args)'
  BY <1>2, <1>3
<1>5. At(0)'
  <2>1. Before(Meanings(f[1], f[2]), 0) = <<>> /\ Count(f[1], 0) = 0
    BY <1>3, FreshFormat
  <2>2. QED
    BY <1>1, <1>2, <2>1 DEF At
<1>6. Where(0, Len(Before(pieces, 0)))'
  <2>1. Len(Before(f[1], 0)) = 0
    BY <1>3, FreshFormat
  <2>2. QED
    BY <1>1, <1>2, <2>1 DEF Where
<1>7. 0 \in 0 .. Len(pieces')
  <2>1. Len(f[1]) \in Nat
    BY <1>3, WellFormedTypes
  <2>2. QED
    BY <1>2, <2>1
<1>8. QED
  BY <1>4, <1>5, <1>6, <1>7 DEF PrintfInv

LEMMA ReturnKeepsPrintfInv ==
  ASSUME PReturn
  PROVE  PInit' /\ PrintfInv'
<1>1. PInit'
  BY DEF PReturn, PInit
<1>2. QED
  BY <1>1, InitPrintfInv, PTL

\* Through with a format, printf stands at its end, or behind the NUL of one
\* that ends within a conversion.
LEMMA PrintfInvSuffices == PrintfInv => PrintedRight
<1> SUFFICES ASSUME PrintfInv, PDone, pieces # <<>> PROVE PrintedRight
  BY DEF PrintedRight
<1>1. PICK p \in 0 .. Len(pieces) : At(p) /\ Where(p, Len(Before(pieces, p)))
  BY DEF PrintfInv
<1> DEFINE b == Len(Before(pieces, p))
           n == Len(pieces)
           M == Meanings(pieces, args)
<1>2. WellFormed(pieces, args) /\ buf > Len(Format) /\ alternate = -1
  BY DEF PrintfInv, PDone
<1>3. /\ n \in Nat /\ p \in 0 .. n /\ M \in Seq(Seq(Signs)) /\ Len(M) = n
  BY <1>2, WellFormedTypes
<1>4. /\ b \in Nat /\ (p < n => b < Len(Format)) /\ (p = n => b = Len(Format))
  BY <1>2, PiecePlaces
<1>5. Len(Format) \in Nat
  <2>1. n \in 0 .. Len(pieces)
    BY <1>3
  <2>2. Len(Before(pieces, n)) \in Nat /\ Len(Before(pieces, n)) = Len(Format)
    BY <1>2, <2>1, PiecePlaces
  <2>3. QED
    BY <2>2
<1> HIDE DEF b, n, M
<1>6. \/ buf = b + 1
      \/ buf = b + 2 /\ p = n /\ p > 0 /\ pieces[p] \in Dangling
  BY <1>1, <1>2 DEF Where, b, n
<1>7. p = n
  BY <1>2, <1>3, <1>4, <1>5, <1>6
<1>8. out = FlattenSeq(M)
  <2>1. out = Before(M, Len(M))
    BY <1>1, <1>3, <1>7 DEF At, M
  <2>2. QED
    BY <1>3, <2>1, BeforeFacts
<1>9. buf > Len(Format) + 1 => Last(pieces) \in Dangling
  <2> SUFFICES ASSUME buf > Len(Format) + 1 PROVE Last(pieces) \in Dangling
    OBVIOUS
  <2>1. pieces[n] \in Dangling
    BY <1>4, <1>6, <1>7
  <2>2. QED
    BY <2>1 DEF Last, n
<1>10. QED
  BY <1>8, <1>9 DEF PrintedRight, M, Meanings

\* While printf is not running nothing is left of its last call.
LibraryInv ==
  /\ MemoryInv /\ PrintfInv /\ LookupInv
  /\ running # "printf" => PInit

LEMMA InitLibraryInv == Init => LibraryInv
BY InitMemoryInv, InitPrintfInv, InitLookupInv DEF Init, LibraryInv

LEMMA NextLibraryInv == LibraryInv /\ [Next]_vars => LibraryInv'
<1> SUFFICES ASSUME LibraryInv, [Next]_vars PROVE LibraryInv'
  OBVIOUS
<1>1. MemoryInv /\ PrintfInv /\ LookupInv /\ (running # "printf" => PInit)
  BY DEF LibraryInv
<1>2. ASSUME UNCHANGED mVars PROVE MemoryInv'
  BY <1>1, <1>2, NextMemoryInv
<1>3. ASSUME UNCHANGED pVars PROVE PrintfInv' /\ (PInit => PInit')
  <2>1. PrintfInv'
    BY <1>1, <1>3 DEF pVars, PrintfInv, At, Where, InPiece
  <2>2. PInit => PInit'
    BY <1>3 DEF pVars, PInit
  <2>3. QED
    BY <2>1, <2>2
<1>4. ASSUME UNCHANGED dVars PROVE LookupInv'
  BY <1>1, <1>4 DEF dVars, LookupInv, LookupFirst, SameName
<1>5. CASE MemoryCall \/ MemoryLoop
  <2>1. MNext /\ UNCHANGED pVars /\ UNCHANGED dVars /\ running' = running
    BY <1>5 DEF MemoryCall, MemoryLoop, MNext
  <2>2. MemoryInv'
    BY <1>1, <2>1, NextMemoryInv
  <2>3. QED
    BY <1>1, <1>3, <1>4, <2>1, <2>2 DEF LibraryInv
<1>6. CASE PrintfCall
  <2>1. /\ UNCHANGED mVars /\ UNCHANGED dVars /\ PInit /\ PCall /\ running' = "printf"
    BY <1>1, <1>6 DEF PrintfCall
  <2>2. QED
    BY <1>2, <1>4, <2>1, CallKeepsPrintfInv DEF LibraryInv
<1>7. CASE PrintfStep
  <2>1. /\ UNCHANGED mVars /\ UNCHANGED dVars /\ PNext /\ running' = "printf"
    BY <1>7 DEF PrintfStep
  <2>2. QED
    BY <1>1, <1>2, <1>4, <2>1, StepKeepsPrintfInv DEF LibraryInv
<1>8. CASE PrintfReturn
  <2>1. UNCHANGED mVars /\ UNCHANGED dVars /\ PReturn
    BY <1>8 DEF PrintfReturn
  <2>2. QED
    BY <1>2, <1>4, <2>1, ReturnKeepsPrintfInv DEF LibraryInv
<1>9. CASE LookupCall \/ LookupStep \/ LookupReturn
  <2>1. /\ UNCHANGED mVars /\ UNCHANGED pVars /\ running # "printf"
        /\ DCall \/ Compare \/ DReturn
    BY <1>9 DEF LookupCall, LookupStep, LookupReturn
  <2>2. LookupInv'
    BY <1>1, <2>1, CallKeepsLookupInv, CompareKeepsLookupInv, ReturnKeepsLookupInv
  <2>3. QED
    BY <1>1, <1>2, <1>3, <2>1, <2>2 DEF LibraryInv
<1>10. CASE UNCHANGED vars
  <2>1. UNCHANGED mVars /\ UNCHANGED pVars /\ UNCHANGED dVars /\ running' = running
    BY <1>10 DEF vars
  <2>2. QED
    BY <1>1, <1>2, <1>3, <1>4, <2>1 DEF LibraryInv
<1>11. QED
  BY <1>5, <1>6, <1>7, <1>8, <1>9, <1>10 DEF Next

\* The invariant that carries the rest: what the memory functions have done
\* so far is right, and what is still to be read of the source has not been
\* overwritten; printf has put what the pieces before its place mean; and no
\* entry that a lookup has passed has the name.
THEOREM LibraryInvariant == Spec => []LibraryInv
BY InitLibraryInv, NextLibraryInv, PTL DEF Spec

\* Every format, whatever pieces it is made of, every argument and every
\* width of a word: printf puts what each piece means, the numerals of itoa
\* among them.
THEOREM AlwaysPrintedRight == Spec => []PrintedRight
<1>1. LibraryInv => PrintedRight
  BY PrintfInvSuffices DEF LibraryInv
<1>2. QED
  BY <1>1, LibraryInvariant, PTL

\* Every directory, every string and every limit of a name: a lookup finds
\* the first entry of that name, and one only if there is one.
THEOREM LookupAlwaysFirst == Spec => []LookupFirst
<1>1. LibraryInv => LookupFirst
  BY DEF LibraryInv, LookupInv
<1>2. QED
  BY <1>1, LibraryInvariant, PTL

\* The state is well typed: no store leaves memory, and no count of a loop
\* goes below zero.
THEOREM MemoryTypeCorrect == Spec => []MTypeOK
<1>1. LibraryInv => MTypeOK
  BY DEF LibraryInv, MemoryInv
<1>2. QED
  BY <1>1, LibraryInvariant, PTL

\* Memory of any size, every call the callers may make, whatever direction
\* flag the call before has left: the area holds what was asked for and the
\* rest of memory is untouched.
THEOREM AlwaysDoneRight == Spec => []DoneRight
<1>1. LibraryInv => DoneRight
  <2> SUFFICES ASSUME MemoryInv, at = "done" PROVE mem = [a \in Addr |-> Wanted(a)]
    BY DEF LibraryInv, DoneRight
  <2>1. mem \in [Addr -> Bytes] /\ \A x \in Addr : mem[x] = Target(arg, old, x)
    BY DEF MemoryInv, MTypeOK, StepInv
  <2>2. ASSUME NEW x \in Addr
        PROVE  Target(arg, old, x) = Wanted(x)
    <3> DEFINE k == x - arg.s
    <3>1. Wanted(x) = IF k < 0 \/ k >= Unit(arg) * arg.n THEN old[x]
                      ELSE CASE arg.fn \in Copies -> old[arg.src + k]
                             [] arg.fn = "memset" -> arg.c[0]
                             [] OTHER             -> arg.c[k % Unit(arg)]
      BY DEF Wanted, Extent
    <3>2. k = x - arg.s /\ "memset" \notin Copies
      BY DEF Copies
    <3> HIDE DEF k
    <3>3. QED
      BY <3>1, <3>2, TargetUnfolded
  <2>3. QED
    BY <2>1, <2>2
<1>2. QED
  BY <1>1, LibraryInvariant, PTL
=============================================================================
