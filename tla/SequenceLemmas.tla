--------------------------- MODULE SequenceLemmas ---------------------------
(***************************************************************************)
(* What several proofs need: induction over the naturals, stated of a set  *)
(* of numbers; the sequence of values that a step makes of a first value,  *)
(* by which recursive functions get their equations; and the sequences in  *)
(* a sequence of sequences, put one after the other.                       *)
(***************************************************************************)
EXTENDS Integers, SequencesExt, SequenceTheorems, WellFoundedInduction, TLAPS

\* Every non-empty set of naturals has a least element.
LEMMA LeastNatural ==
  ASSUME NEW S \in SUBSET Nat, S # {}
  PROVE  \E m \in S : \A r \in S : m <= r
<1>1. PICK m \in S : \A r \in S : ~(<<r, m>> \in OpToRel(<, Nat))
  BY NatLessThanWellFounded, WFMin
<1>2. \A r \in S : ~(r < m)
  BY <1>1 DEF OpToRel
<1>3. QED
  BY <1>2

\* Induction over the naturals, for sets.
LEMMA InductionOnSet ==
  ASSUME NEW S, 0 \in S, \A n \in Nat : n \in S => n + 1 \in S
  PROVE  \A n \in Nat : n \in S
<1> DEFINE Out == {n \in Nat : n \notin S}
<1>1. ASSUME Out # {} PROVE FALSE
  <2>1. PICK m \in Out : \A r \in Out : m <= r
    BY <1>1, LeastNatural
  <2>2. m - 1 \in Nat /\ m - 1 \notin Out
    BY <2>1
  <2>3. QED
    BY <2>1, <2>2
<1>2. QED
  BY <1>1

\* f takes the steps from a on.
Steps(S) == [Nat -> [S -> S]]
TakesSteps(f, S, a, step) ==
  f \in [Nat -> S] /\ f[0] = a /\ \A n \in Nat : f[n + 1] = step[n][f[n]]

\* A value and a step determine a sequence of values.
LEMMA SequenceOfSteps ==
  ASSUME NEW S, NEW a \in S, NEW step \in Steps(S)
  PROVE  \E f : TakesSteps(f, S, a, step)
<1> DEFINE Good(n) == {h \in [0 .. n -> S] :
                        h[0] = a /\ \A i \in 0 .. n - 1 : h[i + 1] = step[i][h[i]]}
           pick == [n \in Nat |-> CHOOSE h \in Good(n) : TRUE]
           f == [n \in Nat |-> pick[n][n]]
<1> USE DEF Steps
<1>1. \A n \in Nat : Good(n) # {}
  <2> DEFINE N == {n \in Nat : Good(n) # {}}
  <2>1. 0 \in N
    <3>1. [i \in 0 .. 0 |-> a] \in Good(0)
      OBVIOUS
    <3>2. QED
      BY <3>1
  <2>2. ASSUME NEW n \in Nat, n \in N PROVE n + 1 \in N
    <3>1. PICK h : h \in Good(n)
      BY <2>2
    <3> DEFINE g == [i \in 0 .. n + 1 |-> IF i <= n THEN h[i] ELSE step[n][h[n]]]
    <3>2. h[n] \in S /\ step[n][h[n]] \in S
      BY <3>1
    <3>3. g \in [0 .. n + 1 -> S]
      BY <3>1, <3>2
    <3>4. g[0] = a
      BY <3>1
    <3>5. ASSUME NEW i \in 0 .. n PROVE g[i + 1] = step[i][g[i]]
      <4>1. CASE i = n
        BY <4>1
      <4>2. CASE i # n
        <5>1. i \in 0 .. n - 1 /\ i + 1 <= n /\ i <= n
          BY <4>2
        <5>2. g[i + 1] = h[i + 1] /\ g[i] = h[i]
          BY <5>1
        <5>3. h[i + 1] = step[i][h[i]]
          BY <3>1, <5>1
        <5>4. QED
          BY <5>2, <5>3
      <4>3. QED
        BY <4>1, <4>2
    <3> HIDE DEF g
    <3>6. g \in Good(n + 1)
      BY <3>3, <3>4, <3>5
    <3>7. QED
      BY <3>6
  <2> HIDE DEF N
  <2>3. \A n \in Nat : n \in N
    BY <2>1, <2>2, InductionOnSet
  <2>4. QED
    BY <2>3 DEF N
<1>2. \A n \in Nat : pick[n] \in Good(n)
  BY <1>1
<1> HIDE DEF pick
<1>3. ASSUME NEW m \in Nat, NEW n \in Nat, m <= n, NEW g \in Good(m), NEW h \in Good(n)
      PROVE  \A i \in 0 .. m : g[i] = h[i]
  <2> DEFINE N == {i \in Nat : i <= m => g[i] = h[i]}
  <2>1. 0 \in N
    OBVIOUS
  <2>2. ASSUME NEW i \in Nat, i \in N PROVE i + 1 \in N
    <3> SUFFICES ASSUME i + 1 <= m PROVE g[i + 1] = h[i + 1]
      OBVIOUS
    <3>1. i \in 0 .. m - 1 /\ i \in 0 .. n - 1 /\ g[i] = h[i]
      BY <1>3, <2>2
    <3>2. g[i + 1] = step[i][g[i]] /\ h[i + 1] = step[i][h[i]]
      BY <3>1
    <3>3. QED
      BY <3>1, <3>2
  <2> HIDE DEF N
  <2>3. \A i \in Nat : i \in N
    BY <2>1, <2>2, InductionOnSet
  <2>4. QED
    BY <2>3 DEF N
<1>4. ASSUME NEW n \in Nat PROVE f[n] \in S
  BY <1>2
<1>5. f[0] = a
  BY <1>2
<1>6. ASSUME NEW n \in Nat PROVE f[n + 1] = step[n][f[n]]
  <2>1. pick[n] \in Good(n) /\ pick[n + 1] \in Good(n + 1)
    <3> HIDE DEF Good
    <3>1. n + 1 \in Nat
      OBVIOUS
    <3>2. QED
      BY <1>2, <3>1
  <2>2. pick[n + 1][n + 1] = step[n][pick[n + 1][n]]
    BY <2>1
  <2>3. pick[n][n] = pick[n + 1][n]
    <3> HIDE DEF Good
    <3>1. \A i \in 0 .. n : pick[n][i] = pick[n + 1][i]
      BY <1>3, <2>1
    <3>2. QED
      BY <3>1
  <2>4. QED
    BY <2>2, <2>3
<1>7. TakesSteps(f, S, a, step)
  BY <1>4, <1>5, <1>6 DEF TakesSteps
<1>8. QED
  BY <1>7

\* FlattenSeq of a prefix: one more element is appended to what is there.
LEMMA FlattenPrefixes ==
  ASSUME NEW C, NEW s \in Seq(Seq(C))
  PROVE  \E f \in [0 .. Len(s) -> Seq(C)] :
           /\ f[0] = <<>>
           /\ \A i \in 1 .. Len(s) : f[i] = f[i - 1] \o s[i]
           /\ \A i \in 0 .. Len(s) : FlattenSeq(SubSeq(s, 1, i)) = f[i]
<1> DEFINE T == Seq(C)
           step == [n \in Nat |-> [x \in T |-> IF n < Len(s) THEN x \o s[n + 1] ELSE x]]
<1>1. Len(s) \in Nat /\ \A i \in 1 .. Len(s) : s[i] \in T
  OBVIOUS
<1>2. ASSUME NEW n \in Nat, NEW x \in T
      PROVE  (IF n < Len(s) THEN x \o s[n + 1] ELSE x) \in T
  <2>1. CASE n < Len(s)
    <3>1. s[n + 1] \in T
      BY <1>1, <2>1
    <3>2. QED
      BY <2>1, <3>1, ConcatProperties
  <2>2. CASE ~(n < Len(s))
    BY <2>2
  <2>3. QED
    BY <2>1, <2>2
<1>3. step \in Steps(T)
  <2> HIDE DEF T
  <2>1. QED
    BY <1>2 DEF Steps
<1>4. <<>> \in T
  OBVIOUS
<1> HIDE DEF T
<1>5. PICK F : TakesSteps(F, T, <<>>, step)
  <2> HIDE DEF step
  <2>1. QED
    BY <1>3, <1>4, SequenceOfSteps
<1> USE DEF TakesSteps
<1>6. ASSUME NEW i \in 1 .. Len(s) PROVE F[i] = F[i - 1] \o s[i]
  <2>1. i - 1 \in Nat /\ i - 1 < Len(s) /\ (i - 1) + 1 = i
    BY <1>1
  <2>2. F[i] = step[i - 1][F[i - 1]] /\ F[i - 1] \in T
    BY <1>5, <2>1
  <2>3. QED
    BY <2>1, <2>2
<1> HIDE DEF step
<1>7. ASSUME NEW i \in 1 .. Len(s) PROVE FlattenSeq(SubSeq(s, 1, i)) = F[i]
  <2> DEFINE t == SubSeq(s, 1, i)
             Flat(g) == [k \in 1 .. i |-> IF k = 1 THEN t[k] ELSE g[k - 1] \o t[k]]
             flatten == CHOOSE g : g = Flat(g)
             g0 == [k \in 1 .. i |-> F[k]]
  <2>1. Len(t) = i /\ i \in Nat /\ i # 0 /\ \A k \in 1 .. i : t[k] = s[k] /\ s[k] \in T
    BY <1>1
  <2>2. FlattenSeq(t) = flatten[i]
    <3> HIDE DEF t
    <3>1. FlattenSeq(t) = (CHOOSE g : g = [k \in 1 .. Len(t) |->
                             IF k = 1 THEN t[k] ELSE g[k - 1] \o t[k]])[Len(t)]
      BY <2>1 DEF FlattenSeq
    <3>2. QED
      BY <2>1, <3>1
  <2> HIDE DEF t
  <2>3. ASSUME NEW k \in 1 .. i
        PROVE  F[k] = IF k = 1 THEN t[k] ELSE F[k - 1] \o t[k]
    <3>0. k \in 1 .. Len(s) /\ t[k] = s[k]
      BY <1>1, <2>1
    <3>1. F[k] = F[k - 1] \o t[k] /\ t[k] \in T
      BY <1>1, <1>6, <3>0
    <3>2. <<>> \o t[k] = t[k]
      BY <3>1, ConcatEmptySeq DEF T
    <3>3. CASE k = 1
      <4>1. F[k - 1] = <<>>
        BY <1>5, <3>3
      <4>2. QED
        BY <3>1, <3>2, <3>3, <4>1
    <3>4. CASE k # 1
      BY <3>1, <3>4
    <3>5. QED
      BY <3>3, <3>4
  <2>4. g0 = Flat(g0)
    <3>1. ASSUME NEW k \in 1 .. i
          PROVE  g0[k] = IF k = 1 THEN t[k] ELSE g0[k - 1] \o t[k]
      <4>1. k # 1 => k - 1 \in 1 .. i
        BY <2>1
      <4>2. QED
        BY <2>3, <4>1
    <3> HIDE DEF g0
    <3>2. Flat(g0) = [k \in 1 .. i |-> g0[k]]
      BY <3>1
    <3>3. QED
      BY <3>2 DEF g0
  <2>5. flatten = Flat(flatten)
    <3> HIDE DEF g0, Flat
    <3>1. QED
      BY <2>4
  <2>6. ASSUME NEW k \in 1 .. i
        PROVE  flatten[k] = IF k = 1 THEN t[k] ELSE flatten[k - 1] \o t[k]
    <3> HIDE DEF flatten
    <3>1. flatten[k] = Flat(flatten)[k]
      BY <2>5
    <3>2. QED
      BY <3>1
  <2> HIDE DEF flatten
  <2>7. \A k \in 1 .. i : flatten[k] = F[k]
    <3> DEFINE N == {n \in Nat : n \in 1 .. i => flatten[n] = F[n]}
    <3>1. 0 \in N
      OBVIOUS
    <3>2. ASSUME NEW n \in Nat, n \in N PROVE n + 1 \in N
      <4> SUFFICES ASSUME n + 1 \in 1 .. i PROVE flatten[n + 1] = F[n + 1]
        OBVIOUS
      <4>1. /\ flatten[n + 1] = IF n + 1 = 1 THEN t[n + 1] ELSE flatten[n] \o t[n + 1]
            /\ F[n + 1] = IF n + 1 = 1 THEN t[n + 1] ELSE F[n] \o t[n + 1]
        BY <2>3, <2>6
      <4>2. CASE n = 0
        BY <4>1, <4>2
      <4>3. CASE n # 0
        <5>1. flatten[n] = F[n]
          BY <3>2, <4>3
        <5>2. QED
          BY <4>1, <5>1
      <4>4. QED
        BY <4>2, <4>3
    <3> HIDE DEF N
    <3>3. \A n \in Nat : n \in N
      BY <3>1, <3>2, InductionOnSet
    <3>4. QED
      BY <3>3 DEF N
  <2>8. i \in 1 .. i
    BY <2>1
  <2>9. QED
    BY <2>2, <2>7, <2>8 DEF t
<1>8. FlattenSeq(SubSeq(s, 1, 0)) = F[0]
  <2>1. SubSeq(s, 1, 0) = <<>> /\ Len(<<>>) = 0
    BY SubSeqEmpty
  <2>2. QED
    BY <1>5, <2>1 DEF FlattenSeq
<1> DEFINE f == [i \in 0 .. Len(s) |-> F[i]]
<1>9. f \in [0 .. Len(s) -> Seq(C)]
  BY <1>1, <1>5 DEF T
<1>10. ASSUME NEW i \in 1 .. Len(s) PROVE f[i] = f[i - 1] \o s[i]
  <2>1. f[i] = F[i] /\ f[i - 1] = F[i - 1]
    BY <1>1
  <2>2. QED
    BY <1>6, <2>1
<1>11. \A i \in 0 .. Len(s) : FlattenSeq(SubSeq(s, 1, i)) = f[i]
  BY <1>1, <1>7, <1>8
<1>12. f[0] = <<>>
  BY <1>1, <1>5
<1> HIDE DEF f
<1>13. QED
  BY <1>9, <1>10, <1>11, <1>12

\* What the first i sequences of s make, one after the other.
Before(s, i) == FlattenSeq(SubSeq(s, 1, i))

LEMMA BeforeFacts ==
  ASSUME NEW C, NEW s \in Seq(Seq(C))
  PROVE  /\ Before(s, 0) = <<>>
         /\ \A i \in 0 .. Len(s) : Before(s, i) \in Seq(C)
         /\ \A i \in 1 .. Len(s) : Before(s, i) = Before(s, i - 1) \o s[i]
         /\ Before(s, Len(s)) = FlattenSeq(s)
<1>1. PICK f \in [0 .. Len(s) -> Seq(C)] :
           /\ f[0] = <<>>
           /\ \A i \in 1 .. Len(s) : f[i] = f[i - 1] \o s[i]
           /\ \A i \in 0 .. Len(s) : FlattenSeq(SubSeq(s, 1, i)) = f[i]
  BY FlattenPrefixes
<1>2. Len(s) \in Nat
  BY LenProperties
<1>3. \A i \in 0 .. Len(s) : Before(s, i) = f[i] /\ f[i] \in Seq(C)
  BY <1>1 DEF Before
<1>4. ASSUME NEW i \in 1 .. Len(s) PROVE Before(s, i) = Before(s, i - 1) \o s[i]
  <2>1. i \in 0 .. Len(s) /\ i - 1 \in 0 .. Len(s)
    BY <1>2
  <2>2. QED
    BY <1>1, <1>3, <2>1
<1>5. SubSeq(s, 1, Len(s)) = s
  BY SubSeqFull
<1>6. Before(s, Len(s)) = FlattenSeq(s)
  BY <1>5 DEF Before
<1>7. Before(s, 0) = <<>>
  BY <1>1, <1>2, <1>3
<1>8. QED
  BY <1>3, <1>4, <1>6, <1>7

\* Where the elements of element p + 1 are in the whole.
LEMMA FlattenAt ==
  ASSUME NEW C, NEW s \in Seq(Seq(C)), NEW p \in 0 .. Len(s) - 1
  PROVE  /\ FlattenSeq(s) \in Seq(C)
         /\ Len(Before(s, p)) \in Nat
         /\ Len(Before(s, p + 1)) = Len(Before(s, p)) + Len(s[p + 1])
         /\ Len(Before(s, p + 1)) <= Len(FlattenSeq(s))
         /\ \A j \in 1 .. Len(s[p + 1]) :
              FlattenSeq(s)[Len(Before(s, p)) + j] = s[p + 1][j]
<1> DEFINE n == Len(s)
           B(i) == Before(s, i)
           all == FlattenSeq(s)
<1>1. n \in Nat
  BY LenProperties
<1>2. /\ \A i \in 0 .. n : B(i) \in Seq(C)
      /\ \A i \in 1 .. n : B(i) = B(i - 1) \o s[i]
      /\ B(n) = all
  BY BeforeFacts
<1>3. \A i \in 1 .. n : s[i] \in Seq(C)
  OBVIOUS
<1> HIDE DEF n, B, all
<1>4. ASSUME NEW i \in 1 .. n
      PROVE  /\ B(i - 1) \in Seq(C) /\ B(i) \in Seq(C)
             /\ Len(B(i)) = Len(B(i - 1)) + Len(s[i])
             /\ \A x \in 1 .. Len(B(i - 1)) : B(i)[x] = B(i - 1)[x]
             /\ \A j \in 1 .. Len(s[i]) : B(i)[Len(B(i - 1)) + j] = s[i][j]
  <2>1. B(i - 1) \in Seq(C) /\ B(i) \in Seq(C) /\ s[i] \in Seq(C)
    <3>1. i - 1 \in 0 .. n /\ i \in 0 .. n
      BY <1>1
    <3>2. QED
      BY <1>2, <1>3, <3>1
  <2>2. B(i) = B(i - 1) \o s[i]
    BY <1>2
  <2> DEFINE a == B(i - 1)
             b == s[i]
  <2>3. a \in Seq(C) /\ b \in Seq(C) /\ B(i) = a \o b
    BY <2>1, <2>2
  <2> HIDE DEF a, b
  <2>4. /\ Len(a \o b) = Len(a) + Len(b)
        /\ \A x \in 1 .. Len(a) : (a \o b)[x] = a[x]
        /\ \A j \in 1 .. Len(b) : (a \o b)[Len(a) + j] = b[j]
    BY <2>3
  <2>5. QED
    BY <2>1, <2>3, <2>4 DEF a, b
<1> DEFINE Starts(i) == /\ Len(B(i)) <= Len(all)
                        /\ \A x \in 1 .. Len(B(i)) : all[x] = B(i)[x]
           N == {m \in Nat : m <= n => Starts(n - m)}
<1>5. 0 \in N
  <2>1. Starts(n)
    BY <1>1, <1>2, LenProperties
  <2>2. n - 0 = n
    BY <1>1
  <2> HIDE DEF Starts
  <2>3. QED
    BY <2>1, <2>2
<1>6. ASSUME NEW m \in Nat, m \in N PROVE m + 1 \in N
  <2> SUFFICES ASSUME m + 1 <= n PROVE Starts(n - (m + 1))
    OBVIOUS
  <2> DEFINE i == n - m
  <2>1. i \in 1 .. n /\ n - (m + 1) = i - 1 /\ Starts(i)
    BY <1>1, <1>6
  <2> HIDE DEF i, N
  <2>2. /\ Len(B(i - 1)) \in Nat /\ Len(B(i)) \in Nat /\ Len(s[i]) \in Nat
        /\ Len(B(i)) = Len(B(i - 1)) + Len(s[i])
    BY <1>3, <1>4, <2>1, LenProperties
  <2>3. Len(all) \in Nat
    <3>1. n \in 0 .. n
      BY <1>1
    <3>2. all \in Seq(C)
      BY <1>2, <3>1
    <3>3. QED
      BY <3>2, LenProperties
  <2> DEFINE a == Len(B(i - 1))
             b == Len(B(i))
             c == Len(s[i])
             e == Len(all)
  <2>4. a \in Nat /\ b \in Nat /\ c \in Nat /\ e \in Nat /\ b = a + c /\ b <= e
    BY <2>1, <2>2, <2>3
  <2> HIDE DEF a, b, c, e
  <2>5. ASSUME NEW x \in 1 .. a PROVE all[x] = B(i - 1)[x]
    <3>1. x \in 1 .. b
      BY <2>4
    <3>2. B(i)[x] = B(i - 1)[x]
      BY <1>4, <2>1 DEF a
    <3>3. QED
      BY <2>1, <3>1, <3>2 DEF b
  <2>6. Starts(i - 1)
    <3>1. a <= e
      BY <2>4
    <3>2. QED
      BY <2>5, <3>1 DEF a, e
  <2> HIDE DEF Starts
  <2>7. QED
    BY <2>1, <2>6
<1> HIDE DEF N
<1>7. \A m \in Nat : m \in N
  BY <1>5, <1>6, InductionOnSet
<1>8. Starts(p + 1)
  <2>1. n - (p + 1) \in Nat /\ n - (p + 1) <= n /\ n - (n - (p + 1)) = p + 1
    BY <1>1 DEF n
  <2> HIDE DEF Starts
  <2>2. n - (p + 1) \in N
    BY <1>7, <2>1
  <2>3. Starts(n - (n - (p + 1)))
    BY <2>1, <2>2 DEF N
  <2>4. QED
    BY <2>1, <2>3
<1> DEFINE i == p + 1
<1>9. i \in 1 .. n /\ i - 1 = p /\ p \in 0 .. n
  BY <1>1 DEF n
<1>10. all \in Seq(C)
  <2>1. n \in 0 .. n
    BY <1>1
  <2>2. QED
    BY <1>2, <2>1
<1>11. Starts(i)
  BY <1>8
<1> HIDE DEF i
<1>12. /\ Len(B(i)) = Len(B(p)) + Len(s[i]) /\ Len(B(p)) \in Nat
       /\ Len(s[i]) \in Nat
       /\ \A j \in 1 .. Len(s[i]) : B(i)[Len(B(p)) + j] = s[i][j]
  BY <1>2, <1>3, <1>4, <1>9, LenProperties
<1>13. ASSUME NEW j \in 1 .. Len(s[i]) PROVE all[Len(B(p)) + j] = s[i][j]
  <2>1. Len(B(p)) + j \in 1 .. Len(B(i))
    BY <1>12
  <2>2. all[Len(B(p)) + j] = B(i)[Len(B(p)) + j]
    BY <1>11, <2>1
  <2>3. QED
    BY <1>12, <2>2
<1>14. QED
  BY <1>9, <1>10, <1>11, <1>12, <1>13 DEF i, n, B, all
=============================================================================
