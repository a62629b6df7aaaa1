----------------------------- MODULE TerminalProofs -----------------------------
(***************************************************************************)
(* Proofs about Terminal, for any number of terminals and any length of    *)
(* line: the type invariant and the two safety invariants its run checks.  *)
(***************************************************************************)
EXTENDS Terminal, TLAPS

Reading == {"flag", "copy_test", "copy"}
Copied == {"clear_test", "clear", "reset", "done"}

\* A byte that a read in which only typing happened may return as its k-th.
Extends(b, k) == IF k <= Len(line) THEN b = line[k] ELSE b \in Typed

\* The loop indexes stay inside the line's array, and a read starts afresh.
IndexInv ==
  /\ pc \in {"copy", "clear"} => i \in BufIdx
  /\ Waiting => i = 0 /\ dst = << >>

\* As long as only typing happens, the line on screen extends the one that
\* the read found, and what is copied is its beginning.
CopyInv ==
  pc \in Reading /\ steady =>
    /\ Len(line) <= idx
    /\ \A k \in 1 .. idx : Extends(term_buf_arr[cur_term_idx][k - 1], k)
    /\ Len(dst) = i /\ i <= idx
    /\ pc = "copy" => i < idx
    /\ \A k \in 1 .. i : Extends(dst[k], k)

TermInv == TypeOK /\ IndexInv /\ CopyInv /\ ReadExtendsLine /\ NoStuckLine

-----------------------------------------------------------------------------
LEMMA TypeFacts ==
  ASSUME TypeOK
  PROVE  /\ cur_term_idx \in Terms /\ idx \in BufIdx /\ idx \in Nat /\ i \in Nat
         /\ BufSize \in Nat /\ idx < BufSize
         /\ Len(dst) \in Nat /\ Len(line) \in Nat
         /\ term_buf_arr[cur_term_idx] \in [BufIdx -> Bytes]
BY TerminalAssumption DEF TypeOK, idx, BufIdx

LEMMA ByteFacts ==
  /\ Chars \subseteq Bytes /\ Enter \in Bytes /\ Blank \in Bytes /\ Typed \subseteq Bytes
  /\ Enter \notin Chars /\ Chars \subseteq Typed /\ Enter \in Typed
BY TerminalAssumption DEF Bytes, Typed

\* A change of one byte of the line on screen.
LEMMA ByteStored ==
  ASSUME TypeOK, NEW k \in BufIdx, NEW b \in Bytes,
         term_buf_arr' = [term_buf_arr EXCEPT ![cur_term_idx][k] = b]
  PROVE  /\ term_buf_arr' \in [Terms -> [BufIdx -> Bytes]]
         /\ term_buf_arr'[cur_term_idx][k] = b
         /\ \A j \in BufIdx : j # k => term_buf_arr'[cur_term_idx][j] = term_buf_arr[cur_term_idx][j]
         /\ \A t \in Terms : t # cur_term_idx => term_buf_arr'[t] = term_buf_arr[t]
<1> DEFINE new == [term_buf_arr[cur_term_idx] EXCEPT ![k] = b]
<1>1. term_buf_arr' = [term_buf_arr EXCEPT ![cur_term_idx] = new]
  OBVIOUS
<1>2. term_buf_arr \in [Terms -> [BufIdx -> Bytes]] /\ cur_term_idx \in Terms
  BY DEF TypeOK
<1>3. term_buf_arr[cur_term_idx] \in [BufIdx -> Bytes]
  BY <1>2
<1>4. /\ new \in [BufIdx -> Bytes] /\ new[k] = b
      /\ \A j \in BufIdx : j # k => new[j] = term_buf_arr[cur_term_idx][j]
  BY <1>3
<1> HIDE DEF new
<1>5. /\ term_buf_arr'[cur_term_idx] = new
      /\ \A t \in Terms : t # cur_term_idx => term_buf_arr'[t] = term_buf_arr[t]
      /\ term_buf_arr' \in [Terms -> [BufIdx -> Bytes]]
  BY <1>1, <1>2, <1>4
<1>6. QED
  BY <1>4, <1>5

\* A key stored at the end of the line.
LEMMA KeyStored ==
  ASSUME TypeOK, Room, NEW b \in Typed, Store(b)
  PROVE  /\ term_buf_arr' \in [Terms -> [BufIdx -> Bytes]]
         /\ term_buf_idx' \in [Terms -> BufIdx]
         /\ term_buf_idx'[cur_term_idx] = idx + 1
         /\ term_buf_arr'[cur_term_idx][idx] = b
         /\ \A j \in BufIdx : j # idx => term_buf_arr'[cur_term_idx][j] = term_buf_arr[cur_term_idx][j]
         /\ \A t \in Terms : t # cur_term_idx => /\ term_buf_arr'[t] = term_buf_arr[t]
                                                 /\ term_buf_idx'[t] = term_buf_idx[t]
<1>1. b \in Bytes /\ idx \in BufIdx /\ cur_term_idx \in Terms /\ term_buf_idx \in [Terms -> BufIdx]
  BY ByteFacts, TypeFacts DEF TypeOK
<1>2. idx + 1 \in BufIdx
  BY <1>1, TypeFacts DEF Room, BufIdx
<1>3. /\ term_buf_arr' = [term_buf_arr EXCEPT ![cur_term_idx][idx] = b]
      /\ term_buf_idx' = [term_buf_idx EXCEPT ![cur_term_idx] = idx + 1]
  BY DEF Store, idx
<1>4. QED
  BY <1>1, <1>2, <1>3, ByteStored

-----------------------------------------------------------------------------
LEMMA InitTermInv == Init => TermInv
<1> SUFFICES ASSUME Init PROVE TermInv
  OBVIOUS
<1>1. TypeOK
  <2>1. steady \in BOOLEAN
    BY Zenon DEF Init
  <2>2. 0 \in BufIdx /\ 0 \in Terms /\ 0 \in 0 .. BufSize
    BY TerminalAssumption DEF BufIdx, Terms
  <2>3. /\ term_buf_arr \in [Terms -> [BufIdx -> Bytes]]
        /\ term_buf_idx \in [Terms -> BufIdx]
        /\ term_enter_flag \in [Terms -> {0, 1}]
    BY <2>2 DEF Init, Bytes
  <2>4. dst \in Seq(Bytes) /\ line \in Seq(Bytes)
    BY DEF Init
  <2>5. QED
    BY <2>1, <2>2, <2>3, <2>4 DEF Init, TypeOK
<1>2. NoStuckLine
  <2>1. \A t \in Terms : ~ \E k \in 0 .. term_buf_idx[t] - 1 : term_buf_arr[t][k] = Enter
    BY DEF Init
  <2>2. QED
    BY <2>1 DEF NoStuckLine
<1>3. QED
  BY <1>1, <1>2 DEF Init, TermInv, IndexInv, Waiting, CopyInv, Reading, ReadExtendsLine

\* A key lengthens the line; whatever a read has seen of it stays.
LEMMA KeyKeepsInv ==
  ASSUME TermInv, Room, NEW b \in Typed, Store(b),
         UNCHANGED <<cur_term_idx, readVars, steady, torn>>,
         term_enter_flag' \in [Terms -> {0, 1}],
         \A t \in Terms : t # cur_term_idx => term_enter_flag'[t] = term_enter_flag[t],
         \/ b # Enter /\ term_enter_flag'[cur_term_idx] = term_enter_flag[cur_term_idx]
         \/ term_enter_flag'[cur_term_idx] = 1
  PROVE  TermInv'
<1>1. TypeOK /\ IndexInv /\ CopyInv /\ ReadExtendsLine /\ NoStuckLine
  BY DEF TermInv
<1>2. /\ cur_term_idx' = cur_term_idx /\ pc' = pc /\ i' = i /\ dst' = dst /\ line' = line
      /\ steady' = steady /\ torn' = torn
  BY DEF readVars
<1>3. /\ term_buf_arr' \in [Terms -> [BufIdx -> Bytes]]
      /\ term_buf_idx' \in [Terms -> BufIdx]
      /\ term_buf_idx'[cur_term_idx] = idx + 1 /\ idx' = idx + 1
      /\ term_buf_arr'[cur_term_idx][idx] = b
      /\ \A j \in BufIdx : j # idx => term_buf_arr'[cur_term_idx][j] = term_buf_arr[cur_term_idx][j]
      /\ \A t \in Terms : t # cur_term_idx => /\ term_buf_arr'[t] = term_buf_arr[t]
                                              /\ term_buf_idx'[t] = term_buf_idx[t]
  BY <1>1, <1>2, KeyStored DEF idx
<1>4. idx \in Nat /\ idx < BufSize /\ BufSize \in Nat /\ Len(line) \in Nat /\ i \in Nat
  BY <1>1, TypeFacts
<1>5. TypeOK'
  BY <1>1, <1>2, <1>3 DEF TypeOK
<1>6. IndexInv'
  BY <1>1, <1>2 DEF IndexInv, Waiting
<1>7. CopyInv'
  <2> SUFFICES ASSUME pc \in Reading, steady
               PROVE  /\ Len(line) <= idx'
                      /\ \A k \in 1 .. idx' : Extends(term_buf_arr'[cur_term_idx][k - 1], k)
                      /\ Len(dst) = i /\ i <= idx'
                      /\ pc = "copy" => i < idx'
                      /\ \A k \in 1 .. i : Extends(dst[k], k)
    BY <1>2 DEF CopyInv, Extends
  <2>1. /\ Len(line) <= idx
        /\ \A k \in 1 .. idx : Extends(term_buf_arr[cur_term_idx][k - 1], k)
        /\ Len(dst) = i /\ i <= idx
        /\ pc = "copy" => i < idx
        /\ \A k \in 1 .. i : Extends(dst[k], k)
    BY <1>1 DEF CopyInv
  <2>2. ASSUME NEW k \in 1 .. idx'
        PROVE  Extends(term_buf_arr'[cur_term_idx][k - 1], k)
    <3>1. k - 1 \in BufIdx
      BY <1>3, <1>4 DEF BufIdx
    <3>2. CASE k = idx + 1
      <4>1. k - 1 = idx /\ ~(k <= Len(line))
        BY <1>4, <2>1, <3>2
      <4>2. QED
        BY <1>3, <4>1 DEF Extends
    <3>3. CASE k # idx + 1
      <4>1. k \in 1 .. idx /\ k - 1 # idx
        BY <1>3, <1>4, <3>3
      <4>2. QED
        BY <1>3, <2>1, <3>1, <4>1
    <3>4. QED
      BY <3>2, <3>3
  <2>3. QED
    BY <1>3, <1>4, <2>1, <2>2
<1>8. ReadExtendsLine'
  BY <1>1, <1>2 DEF ReadExtendsLine
<1>9. NoStuckLine'
  <2> SUFFICES ASSUME NEW t \in Terms,
                      Waiting \/ pc = "done" \/ t # cur_term_idx, t \notin torn,
                      NEW k \in 0 .. term_buf_idx'[t] - 1, term_buf_arr'[t][k] = Enter
               PROVE  term_enter_flag'[t] = 1
    BY <1>2 DEF NoStuckLine, Waiting
  <2>1. CASE t # cur_term_idx
    BY <1>1, <1>3, <2>1 DEF NoStuckLine
  <2>2. CASE t = cur_term_idx
    <3>1. CASE b # Enter /\ term_enter_flag'[cur_term_idx] = term_enter_flag[cur_term_idx]
      <4>1. k \in BufIdx /\ k # idx /\ k \in 0 .. idx - 1
        BY <1>3, <1>4, <2>2, <3>1 DEF BufIdx
      <4>2. term_buf_arr[t][k] = Enter /\ k \in 0 .. term_buf_idx[t] - 1
        BY <1>3, <2>2, <4>1 DEF idx
      <4>3. QED
        BY <1>1, <2>2, <3>1, <4>2 DEF NoStuckLine
    <3>2. QED
      BY <2>2, <3>1
  <2>3. QED
    BY <2>1, <2>2
<1>10. QED
  BY <1>5, <1>6, <1>7, <1>8, <1>9 DEF TermInv

\* A character taken back, or another terminal shown, in the middle of a read:
\* the read promises nothing any more.
LEMMA DisturbFacts ==
  ASSUME TypeOK, ReadExtendsLine, NEW really \in BOOLEAN, Disturb(really),
         UNCHANGED <<pc, i, dst>>
  PROVE  /\ steady' \in BOOLEAN /\ line' \in Seq(Bytes)
         /\ ReadExtendsLine'
         /\ really /\ ~Waiting => ~steady'
         /\ ~really => steady' = steady /\ line' = line
<1>1. steady \in BOOLEAN /\ line \in Seq(Bytes)
  BY DEF TypeOK
<1>2. CASE really /\ ~Waiting
  <2>1. steady' = FALSE /\ line' = << >>
    BY <1>2 DEF Disturb
  <2>2. line' \in Seq(Bytes)
    BY <2>1
  <2>3. QED
    BY <1>2, <2>1, <2>2 DEF ReadExtendsLine
<1>3. CASE ~(really /\ ~Waiting)
  <2>1. steady' = steady /\ line' = line
    BY <1>3 DEF Disturb
  <2>2. QED
    BY <1>1, <1>3, <2>1 DEF ReadExtendsLine
<1>4. QED
  BY <1>2, <1>3

LEMMA BackspaceKeepsInv ==
  ASSUME TermInv, KeyBackspace
  PROVE  TermInv'
<1>1. TypeOK /\ IndexInv /\ CopyInv /\ ReadExtendsLine /\ NoStuckLine
  BY DEF TermInv
<1>2. /\ idx > 0 /\ Disturb(TRUE)
      /\ term_buf_arr' = [term_buf_arr EXCEPT ![cur_term_idx][idx] = Blank]
      /\ term_buf_idx' = [term_buf_idx EXCEPT ![cur_term_idx] = idx - 1]
      /\ UNCHANGED <<term_enter_flag, cur_term_idx, pc, i, dst, torn>>
  BY DEF KeyBackspace, idx
<1>3. idx \in BufIdx /\ idx \in Nat /\ idx < BufSize /\ BufSize \in Nat /\ cur_term_idx \in Terms
  BY <1>1, TypeFacts
<1>4. /\ term_buf_arr' \in [Terms -> [BufIdx -> Bytes]]
      /\ \A j \in BufIdx : j # idx => term_buf_arr'[cur_term_idx][j] = term_buf_arr[cur_term_idx][j]
      /\ \A t \in Terms : t # cur_term_idx => term_buf_arr'[t] = term_buf_arr[t]
  BY <1>1, <1>2, <1>3, ByteFacts, ByteStored
<1>5. /\ idx - 1 \in BufIdx
      /\ term_buf_idx' \in [Terms -> BufIdx] /\ term_buf_idx'[cur_term_idx] = idx - 1
      /\ \A t \in Terms : t # cur_term_idx => term_buf_idx'[t] = term_buf_idx[t]
  <2>1. idx - 1 \in BufIdx
    BY <1>2, <1>3 DEF BufIdx
  <2>2. QED
    BY <1>1, <1>2, <1>3, <2>1 DEF TypeOK
<1>6. /\ steady' \in BOOLEAN /\ line' \in Seq(Bytes) /\ ReadExtendsLine'
      /\ ~Waiting => ~steady'
  BY <1>1, <1>2, DisturbFacts
<1>7. TypeOK'
  BY <1>1, <1>2, <1>4, <1>5, <1>6 DEF TypeOK
<1>8. IndexInv' /\ CopyInv'
  BY <1>1, <1>2, <1>6 DEF IndexInv, CopyInv, Waiting, Reading
<1>9. NoStuckLine'
  <2> SUFFICES ASSUME NEW t \in Terms,
                      Waiting \/ pc = "done" \/ t # cur_term_idx, t \notin torn,
                      NEW k \in 0 .. term_buf_idx'[t] - 1, term_buf_arr'[t][k] = Enter
               PROVE  term_enter_flag[t] = 1
    BY <1>2 DEF NoStuckLine, Waiting
  <2>1. CASE t # cur_term_idx
    BY <1>1, <1>4, <1>5, <2>1 DEF NoStuckLine
  <2>2. CASE t = cur_term_idx
    <3>1. k \in BufIdx /\ k # idx /\ k \in 0 .. idx - 1
      BY <1>3, <1>5, <2>2 DEF BufIdx
    <3>2. term_buf_arr[t][k] = Enter /\ k \in 0 .. term_buf_idx[t] - 1
      BY <1>4, <2>2, <3>1 DEF idx
    <3>3. QED
      BY <1>1, <3>2 DEF NoStuckLine
  <2>3. QED
    BY <2>1, <2>2
<1>10. QED
  BY <1>6, <1>7, <1>8, <1>9 DEF TermInv

LEMMA SwitchKeepsInv ==
  ASSUME TermInv, NEW t \in Terms, Switch(t)
  PROVE  TermInv'
<1>1. TypeOK /\ IndexInv /\ CopyInv /\ ReadExtendsLine /\ NoStuckLine
  BY DEF TermInv
<1>2. /\ cur_term_idx' = t /\ Disturb(t # cur_term_idx)
      /\ torn' = IF Waiting \/ t = cur_term_idx THEN torn ELSE torn \cup {t, cur_term_idx}
      /\ UNCHANGED <<term_buf_arr, term_buf_idx, term_enter_flag, pc, i, dst>>
  BY DEF Switch, lineVars
<1>3. cur_term_idx \in Terms /\ torn \subseteq Terms
  BY <1>1 DEF TypeOK
<1>4. /\ steady' \in BOOLEAN /\ line' \in Seq(Bytes) /\ ReadExtendsLine'
      /\ t # cur_term_idx /\ ~Waiting => ~steady'
      /\ t = cur_term_idx => steady' = steady /\ line' = line
  <2>1. (t # cur_term_idx) \in BOOLEAN
    OBVIOUS
  <2>2. QED
    BY <1>1, <1>2, <2>1, DisturbFacts
<1>5. TypeOK'
  BY <1>1, <1>2, <1>3, <1>4 DEF TypeOK
<1>6. IndexInv'
  BY <1>1, <1>2 DEF IndexInv, Waiting
<1>7. CopyInv'
  <2>1. CASE t = cur_term_idx
    BY <1>1, <1>2, <1>4, <2>1 DEF CopyInv, idx, Extends
  <2>2. CASE t # cur_term_idx
    BY <1>2, <1>4, <2>2 DEF CopyInv, Waiting, Reading
  <2>3. QED
    BY <2>1, <2>2
<1>8. NoStuckLine'
  BY <1>1, <1>2 DEF NoStuckLine, Waiting
<1>9. QED
  BY <1>4, <1>5, <1>6, <1>7, <1>8 DEF TermInv

-----------------------------------------------------------------------------
(* The read's own steps.                                                   *)

LEMMA Unpacked ==
  ASSUME TermInv
  PROVE  TypeOK /\ IndexInv /\ CopyInv /\ ReadExtendsLine /\ NoStuckLine
BY DEF TermInv

\* A step that leaves the terminals alone and does not end a read's work
\* leaves no line stuck.
LEMMA QuietKeepsNoStuck ==
  ASSUME NoStuckLine, UNCHANGED <<lineVars, cur_term_idx, torn>>,
         Waiting' \/ pc' = "done" => Waiting \/ pc = "done"
  PROVE  NoStuckLine'
BY DEF NoStuckLine, lineVars

LEMMA CallKeepsInv ==
  ASSUME TermInv, Call
  PROVE  TermInv'
<1>1. pc = "idle" /\ pc' = "spin"
      /\ UNCHANGED <<lineVars, cur_term_idx, i, dst, line, steady, torn>>
  BY DEF Call
<1>2. TypeOK'
  BY <1>1, Unpacked DEF TypeOK, lineVars
<1>3. IndexInv' /\ CopyInv' /\ ReadExtendsLine'
  BY <1>1, Unpacked DEF IndexInv, CopyInv, ReadExtendsLine, Waiting, Reading
<1>4. NoStuckLine'
  BY <1>1, Unpacked, QuietKeepsNoStuck DEF Waiting
<1>5. QED
  BY <1>2, <1>3, <1>4 DEF TermInv

\* The read finds its line.
LEMMA SeeFlagKeepsInv ==
  ASSUME TermInv, SeeFlag
  PROVE  TermInv'
<1>1. /\ pc = "spin" /\ pc' = "flag"
      /\ line' = [k \in 1 .. idx |-> term_buf_arr[cur_term_idx][k - 1]]
      /\ UNCHANGED <<lineVars, cur_term_idx, i, dst, steady, torn>>
  BY DEF SeeFlag
<1>2. /\ idx \in Nat /\ idx < BufSize /\ BufSize \in Nat
      /\ term_buf_arr[cur_term_idx] \in [BufIdx -> Bytes] /\ i = 0 /\ dst = << >>
  BY <1>1, Unpacked, TypeFacts DEF IndexInv, Waiting
<1>3. line' \in Seq(Bytes) /\ Len(line') = idx
      /\ \A k \in 1 .. idx : line'[k] = term_buf_arr[cur_term_idx][k - 1]
  <2>1. \A k \in 1 .. idx : term_buf_arr[cur_term_idx][k - 1] \in Bytes
    <3>1. ASSUME NEW k \in 1 .. idx PROVE k - 1 \in BufIdx
      BY <1>2 DEF BufIdx
    <3>2. QED
      BY <1>2, <3>1
  <2>2. line' \in [1 .. idx -> Bytes]
    BY <1>1, <2>1
  <2>3. QED
    BY <1>1, <1>2, <2>2
<1>4. TypeOK'
  BY <1>1, <1>3, Unpacked DEF TypeOK, lineVars
<1>5. IndexInv' /\ ReadExtendsLine'
  BY <1>1 DEF IndexInv, ReadExtendsLine, Waiting
<1>6. CopyInv'
  <2>1. idx' = idx /\ i' = 0 /\ dst' = << >> /\ term_buf_arr' = term_buf_arr
        /\ cur_term_idx' = cur_term_idx
    BY <1>1, <1>2 DEF idx, lineVars
  <2>2. /\ Len(line') <= idx'
        /\ \A k \in 1 .. idx' : Extends(term_buf_arr[cur_term_idx][k - 1], k)'
    BY <1>2, <1>3, <2>1 DEF Extends
  <2>3. Len(dst') = i' /\ i' <= idx' /\ ~(pc' = "copy") /\ \A k \in 1 .. i' : FALSE
    BY <1>1, <1>2, <2>1
  <2>4. QED
    BY <2>1, <2>2, <2>3 DEF CopyInv
<1>7. NoStuckLine'
  BY <1>1, Unpacked, QuietKeepsNoStuck DEF Waiting
<1>8. QED
  BY <1>4, <1>5, <1>6, <1>7 DEF TermInv

LEMMA ClearFlagKeepsInv ==
  ASSUME TermInv, ClearFlag
  PROVE  TermInv'
<1>1. /\ pc = "flag" /\ pc' = "copy_test"
      /\ term_enter_flag' = [term_enter_flag EXCEPT ![cur_term_idx] = 0]
      /\ UNCHANGED <<term_buf_arr, term_buf_idx, cur_term_idx, i, dst, line, steady, torn>>
  BY DEF ClearFlag
<1>2. TypeOK'
  BY <1>1, Unpacked DEF TypeOK
<1>3. IndexInv' /\ ReadExtendsLine'
  BY <1>1 DEF IndexInv, ReadExtendsLine, Waiting
<1>4. CopyInv'
  BY <1>1, Unpacked DEF CopyInv, Reading, idx, Extends
<1>5. NoStuckLine'
  <2>1. \A t \in Terms : t # cur_term_idx => term_enter_flag'[t] = term_enter_flag[t]
    BY <1>1, Unpacked DEF TypeOK
  <2>2. QED
    BY <1>1, <2>1, Unpacked DEF NoStuckLine, Waiting
<1>6. QED
  BY <1>2, <1>3, <1>4, <1>5 DEF TermInv

\* The copy goes on, or it is complete: all of the line is there.
LEMMA CopyTestKeepsInv ==
  ASSUME TermInv, CopyTest
  PROVE  TermInv'
<1>1. /\ pc = "copy_test"
      /\ IF i < idx THEN pc' = "copy" /\ i' = i ELSE pc' = "clear_test" /\ i' = 0
      /\ UNCHANGED <<lineVars, cur_term_idx, dst, line, steady, torn>>
  BY DEF CopyTest
<1>2. idx \in Nat /\ idx < BufSize /\ BufSize \in Nat /\ i \in Nat /\ Len(line) \in Nat
  BY Unpacked, TypeFacts
<1>3. TypeOK'
  <2>1. i' \in 0 .. BufSize /\ pc' \in {"copy", "clear_test"}
    BY <1>1, <1>2
  <2>2. QED
    BY <1>1, <2>1, Unpacked DEF TypeOK, lineVars
<1>4. IndexInv'
  BY <1>1, <1>2 DEF IndexInv, Waiting, BufIdx
<1>5. CopyInv'
  BY <1>1, Unpacked DEF CopyInv, Reading, idx, Extends, lineVars
<1>6. ReadExtendsLine'
  <2>1. CASE i < idx
    BY <1>1, <2>1 DEF ReadExtendsLine
  <2>2. CASE ~(i < idx)
    <3> SUFFICES ASSUME steady PROVE /\ Len(dst) >= Len(line)
                                     /\ \A k \in 1 .. Len(dst) : Extends(dst[k], k)
      BY <1>1 DEF ReadExtendsLine, Extends
    <3>1. /\ Len(line) <= idx /\ Len(dst) = i /\ i <= idx
          /\ \A k \in 1 .. i : Extends(dst[k], k)
      BY <1>1, Unpacked DEF CopyInv, Reading
    <3>2. QED
      BY <1>2, <2>2, <3>1
  <2>3. QED
    BY <2>1, <2>2
<1>7. NoStuckLine'
  BY <1>1, Unpacked, QuietKeepsNoStuck DEF Waiting
<1>8. QED
  BY <1>3, <1>4, <1>5, <1>6, <1>7 DEF TermInv

LEMMA CopyByteKeepsInv ==
  ASSUME TermInv, CopyByte
  PROVE  TermInv'
<1> DEFINE b == term_buf_arr[cur_term_idx][i]
<1>1. /\ pc = "copy" /\ dst' = Append(dst, b) /\ i' = i + 1 /\ pc' = "copy_test"
      /\ UNCHANGED <<lineVars, cur_term_idx, line, steady, torn>>
  BY DEF CopyByte
<1>2. /\ i \in BufIdx /\ i \in Nat /\ i < BufSize /\ BufSize \in Nat
      /\ idx \in Nat /\ dst \in Seq(Bytes) /\ b \in Bytes
  BY <1>1, Unpacked, TypeFacts DEF IndexInv, TypeOK, BufIdx
<1> HIDE DEF b
<1>3. /\ dst' \in Seq(Bytes) /\ Len(dst') = Len(dst) + 1 /\ dst'[Len(dst) + 1] = b
      /\ \A k \in 1 .. Len(dst) : dst'[k] = dst[k]
  BY <1>1, <1>2
<1>4. TypeOK'
  <2>1. i' \in 0 .. BufSize
    BY <1>1, <1>2
  <2>2. QED
    BY <1>1, <1>3, <2>1, Unpacked DEF TypeOK, lineVars
<1>5. IndexInv' /\ ReadExtendsLine'
  BY <1>1 DEF IndexInv, ReadExtendsLine, Waiting
<1>6. CopyInv'
  <2>1. idx' = idx /\ term_buf_arr' = term_buf_arr /\ cur_term_idx' = cur_term_idx
        /\ line' = line /\ steady' = steady
    BY <1>1 DEF idx, lineVars
  <2> SUFFICES ASSUME steady
               PROVE  /\ Len(line) <= idx
                      /\ \A k \in 1 .. idx : Extends(term_buf_arr[cur_term_idx][k - 1], k)
                      /\ Len(dst') = i' /\ i' <= idx
                      /\ \A k \in 1 .. i' : Extends(dst'[k], k)
    BY <1>1, <2>1 DEF CopyInv, Extends
  <2>2. /\ Len(line) <= idx
        /\ \A k \in 1 .. idx : Extends(term_buf_arr[cur_term_idx][k - 1], k)
        /\ Len(dst) = i /\ i < idx
        /\ \A k \in 1 .. i : Extends(dst[k], k)
    BY <1>1, Unpacked DEF CopyInv, Reading
  <2>3. Extends(b, i + 1)
    <3>1. i + 1 \in 1 .. idx /\ (i + 1) - 1 = i
      BY <1>2, <2>2
    <3>2. QED
      BY <2>2, <3>1 DEF b
  <2>4. ASSUME NEW k \in 1 .. i' PROVE Extends(dst'[k], k)
    <3>1. CASE k = i + 1
      BY <1>3, <2>2, <2>3, <3>1
    <3>2. CASE k # i + 1
      <4>1. k \in 1 .. i
        BY <1>1, <1>2, <3>2
      <4>2. QED
        BY <1>3, <2>2, <4>1
    <3>3. QED
      BY <3>1, <3>2
  <2>5. QED
    BY <1>1, <1>2, <1>3, <2>2, <2>4
<1>7. NoStuckLine'
  BY <1>1, Unpacked, QuietKeepsNoStuck DEF Waiting
<1>8. QED
  BY <1>4, <1>5, <1>6, <1>7 DEF TermInv

LEMMA ClearTestKeepsInv ==
  ASSUME TermInv, ClearTest
  PROVE  TermInv'
<1>1. /\ pc = "clear_test" /\ pc' = IF i < idx THEN "clear" ELSE "reset"
      /\ UNCHANGED <<lineVars, cur_term_idx, i, dst, line, steady, torn>>
  BY DEF ClearTest
<1>2. idx \in Nat /\ idx < BufSize /\ BufSize \in Nat /\ i \in Nat
  BY Unpacked, TypeFacts
<1>3. pc' \in {"clear", "reset"} /\ (pc' = "clear" => i < idx)
  BY <1>1
<1>4. TypeOK'
  BY <1>1, <1>3, Unpacked DEF TypeOK, lineVars
<1>5. IndexInv'
  BY <1>1, <1>2, <1>3 DEF IndexInv, Waiting, BufIdx
<1>6. CopyInv' /\ ReadExtendsLine'
  BY <1>1, <1>3, Unpacked DEF CopyInv, ReadExtendsLine, Reading
<1>7. NoStuckLine'
  BY <1>1, <1>3, Unpacked, QuietKeepsNoStuck DEF Waiting
<1>8. QED
  BY <1>4, <1>5, <1>6, <1>7 DEF TermInv

LEMMA ClearByteKeepsInv ==
  ASSUME TermInv, ClearByte
  PROVE  TermInv'
<1>1. /\ pc = "clear" /\ pc' = "clear_test" /\ i' = i + 1
      /\ term_buf_arr' = [term_buf_arr EXCEPT ![cur_term_idx][i] = Blank]
      /\ UNCHANGED <<term_buf_idx, term_enter_flag, cur_term_idx, dst, line, steady, torn>>
  BY DEF ClearByte
<1>2. i \in BufIdx /\ i \in Nat /\ i < BufSize /\ BufSize \in Nat
  BY <1>1, Unpacked, TypeFacts DEF IndexInv, BufIdx
<1>3. /\ term_buf_arr' \in [Terms -> [BufIdx -> Bytes]]
      /\ \A t \in Terms : t # cur_term_idx => term_buf_arr'[t] = term_buf_arr[t]
  BY <1>1, <1>2, Unpacked, ByteFacts, ByteStored
<1>4. TypeOK'
  <2>1. i' \in 0 .. BufSize
    BY <1>1, <1>2
  <2>2. QED
    BY <1>1, <1>3, <2>1, Unpacked DEF TypeOK
<1>5. IndexInv' /\ CopyInv' /\ ReadExtendsLine'
  BY <1>1, Unpacked DEF IndexInv, CopyInv, ReadExtendsLine, Waiting, Reading
<1>6. NoStuckLine'
  BY <1>1, <1>3, Unpacked DEF NoStuckLine, Waiting
<1>7. QED
  BY <1>4, <1>5, <1>6 DEF TermInv

\* The line is empty: there is no Enter in it to be stuck.
LEMMA ResetKeepsInv ==
  ASSUME TermInv, Reset
  PROVE  TermInv'
<1>1. /\ pc = "reset" /\ pc' = "done"
      /\ term_buf_idx' = [term_buf_idx EXCEPT ![cur_term_idx] = 0]
      /\ UNCHANGED <<term_buf_arr, term_enter_flag, cur_term_idx, i, dst, line, steady, torn>>
  BY DEF Reset
<1>2. /\ term_buf_idx' \in [Terms -> BufIdx] /\ term_buf_idx'[cur_term_idx] = 0
      /\ \A t \in Terms : t # cur_term_idx => term_buf_idx'[t] = term_buf_idx[t]
  <2>1. 0 \in BufIdx
    BY TerminalAssumption DEF BufIdx
  <2>2. QED
    BY <1>1, <2>1, Unpacked DEF TypeOK
<1>3. TypeOK'
  BY <1>1, <1>2, Unpacked DEF TypeOK
<1>4. IndexInv' /\ CopyInv' /\ ReadExtendsLine'
  BY <1>1, Unpacked DEF IndexInv, CopyInv, ReadExtendsLine, Waiting, Reading
<1>5. NoStuckLine'
  <2>1. 0 .. term_buf_idx'[cur_term_idx] - 1 = {}
    BY <1>2
  <2>2. QED
    BY <1>1, <1>2, <2>1, Unpacked DEF NoStuckLine, Waiting
<1>6. QED
  BY <1>3, <1>4, <1>5 DEF TermInv

LEMMA ReturnKeepsInv ==
  ASSUME TermInv, Return
  PROVE  TermInv'
<1>1. /\ pc = "done" /\ pc' = "idle" /\ i' = 0 /\ dst' = << >> /\ line' = << >> /\ steady' = TRUE
      /\ UNCHANGED <<lineVars, cur_term_idx, torn>>
  BY DEF Return
<1>2. TypeOK'
  <2>1. i' \in 0 .. BufSize /\ dst' \in Seq(Bytes) /\ line' \in Seq(Bytes)
    BY <1>1, TerminalAssumption
  <2>2. steady' \in BOOLEAN
    BY <1>1
  <2>3. QED
    BY <1>1, <2>1, <2>2, Unpacked DEF TypeOK, lineVars
<1>3. IndexInv' /\ CopyInv' /\ ReadExtendsLine'
  BY <1>1 DEF IndexInv, CopyInv, ReadExtendsLine, Waiting, Reading
<1>4. NoStuckLine'
  BY <1>1, Unpacked, QuietKeepsNoStuck DEF Waiting
<1>5. QED
  BY <1>2, <1>3, <1>4 DEF TermInv

-----------------------------------------------------------------------------
LEMMA NextTermInv == TermInv /\ [Next]_vars => TermInv'
<1> SUFFICES ASSUME TermInv, [Next]_vars PROVE TermInv'
  OBVIOUS
<1>1. ASSUME NEW c \in Chars, KeyChar(c) PROVE TermInv'
  <2>1. c \in Typed /\ c # Enter /\ term_enter_flag \in [Terms -> {0, 1}]
    BY ByteFacts, Unpacked DEF TypeOK
  <2>2. QED
    BY <1>1, <2>1, KeyKeepsInv DEF KeyChar
<1>2. CASE KeyEnter
  <2>1. /\ term_enter_flag' \in [Terms -> {0, 1}] /\ term_enter_flag'[cur_term_idx] = 1
        /\ \A t \in Terms : t # cur_term_idx => term_enter_flag'[t] = term_enter_flag[t]
    BY <1>2, Unpacked DEF KeyEnter, TypeOK
  <2>2. QED
    BY <1>2, <2>1, ByteFacts, KeyKeepsInv DEF KeyEnter
<1>3. ASSUME NEW t \in Terms, Switch(t) PROVE TermInv'
  BY <1>3, SwitchKeepsInv
<1>4. CASE ReadStep
  BY <1>4, SeeFlagKeepsInv, ClearFlagKeepsInv, CopyTestKeepsInv, CopyByteKeepsInv,
     ClearTestKeepsInv, ClearByteKeepsInv, ResetKeepsInv DEF ReadStep
<1>5. CASE UNCHANGED vars
  BY <1>5 DEF vars, lineVars, readVars, TermInv, TypeOK, IndexInv, CopyInv, ReadExtendsLine,
     NoStuckLine, Waiting, Reading, idx, Extends
<1>6. QED
  BY <1>1, <1>2, <1>3, <1>4, <1>5, BackspaceKeepsInv, CallKeepsInv, ReturnKeepsInv DEF Next

\* The invariant that carries the rest.
THEOREM TerminalInvariant == Spec => []TermInv
BY InitTermInv, NextTermInv, PTL DEF Spec

\* The state is well typed: no loop of a read leaves the line's array, even
\* though the user may switch terminals under it.
THEOREM TerminalTypeCorrect == Spec => []TypeOK
<1>1. TermInv => TypeOK
  BY Unpacked
<1>2. QED
  BY <1>1, TerminalInvariant, PTL

\* What a read returns is the line it found, and keys typed since.
THEOREM ReadAlwaysExtendsLine == Spec => []ReadExtendsLine
<1>1. TermInv => ReadExtendsLine
  BY Unpacked
<1>2. QED
  BY <1>1, TerminalInvariant, PTL

\* No line that ends in Enter is left without its flag but by a switch.
THEOREM NeverStuckLine == Spec => []NoStuckLine
<1>1. TermInv => NoStuckLine
  BY Unpacked
<1>2. QED
  BY <1>1, TerminalInvariant, PTL
=============================================================================
