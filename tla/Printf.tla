------------------------------- MODULE Printf -------------------------------
(***************************************************************************)
(* printf, puts, itoa and strrev (lib.c).  A step handles one conversion   *)
(* or one character of the format.  What is on the stack behind the format *)
(* is a sequence of words of Bits bits, characters and strings.            *)
(***************************************************************************)
EXTENDS Integers, Sequences, FiniteSets, SequencesExt

CONSTANTS
  Bits,    \* width of an int (32), a multiple of 4
  Chars,   \* what may stand in a string
  Formats  \* pairs <<pieces of a format, arguments for them>>

\* Power(b)[k] is b to the power of k.
Power(b) == LET p[k \in Nat] == IF k = 0 THEN 1 ELSE b * p[k - 1] IN p

Numbers == {<<"%", "x">>, <<"%", "#", "x">>, <<"%", "u">>, <<"%", "d">>}
Takers == Numbers \cup {<<"%", "c">>, <<"%", "s">>}

\* Pieces that only the end of a format can be.
Dangling == {<<"%">>, <<"%", "#">>}

Pieces == Takers \cup Dangling \cup {<<"%", "%">>} \cup {<<c>> : c \in Chars \ {"%"}}

\* The argument of piece k of the pieces ps.
ArgOf(ps, as, k) == as[Cardinality({j \in 1 .. k : ps[j] \in Takers})]

Fits(piece, a) ==
  /\ piece \in Numbers => a \in 0 .. Power(2)[Bits] - 1
  /\ piece = <<"%", "c">> => a \in Chars
  /\ piece = <<"%", "s">> => a \in Seq(Chars)

ASSUME PrintfAssumption ==
  /\ Bits \in Nat /\ Bits > 0 /\ Bits % 4 = 0
  /\ \A f \in Formats :
       /\ f[1] \in Seq(Pieces)
       /\ \A k \in DOMAIN f[1] : /\ Fits(f[1][k], ArgOf(f[1], f[2], k))
                                 /\ f[1][k] \in Dangling => k = Len(f[1])

VARIABLES
  pieces,     \* the pieces of the format
  args,       \* the arguments
  buf,        \* index of the next character of the format
  alternate,  \* -1 outside a conversion, else the flag
  esp,        \* index of the next argument
  out         \* characters put so far

pVars == <<pieces, args, buf, alternate, esp, out>>

NoChar == "\\0"
Format == FlattenSeq(pieces)
Char == IF buf <= Len(Format) THEN Format[buf] ELSE NoChar

lookup == <<"0", "1", "2", "3", "4", "5", "6", "7", "8", "9",
            "A", "B", "C", "D", "E", "F">>

PInit ==
  /\ pieces = <<>> /\ args = <<>>
  /\ buf = 1 /\ alternate = -1 /\ esp = 1 /\ out = <<>>

PCall ==
  /\ \E f \in Formats : pieces' = f[1] /\ args' = f[2]
  /\ UNCHANGED <<buf, alternate, esp, out>>

\* Mutant of itoa: zero is left to the loop.
ItoaLoop(value, radix) ==
  LET low[v \in Nat] == IF v = 0 THEN <<>>
                        ELSE <<lookup[(v % radix) + 1]>> \o low[v \div radix]
  IN  Reverse(low[value])

\* Digits from the lowest on, then reversed.
itoa(value, radix) ==
  LET low[v \in Nat] == IF v = 0 THEN <<>>
                        ELSE <<lookup[(v % radix) + 1]>> \o low[v \div radix]
  IN  IF value = 0 THEN <<"0">> ELSE Reverse(low[value])

\* %d: a set top bit is a minus sign and the negation modulo 2^Bits.
Signed(v) ==
  LET words == Power(2)[Bits]
  IN  IF v >= Power(2)[Bits - 1] THEN <<"-">> \o itoa((words - v) % words, 10)
      ELSE itoa(v, 10)

\* %#x: zeros are put before the digits, to one digit for four bits.
Padded(v) == LET digits == itoa(v, 16)
             IN  [k \in 1 .. Bits \div 4 - Len(digits) |-> "0"] \o digits

Converted(c) ==
  CASE c = "x" -> IF alternate = 1 THEN Padded(args[esp]) ELSE itoa(args[esp], 16)
    [] c = "u" -> itoa(args[esp], 10)
    [] c = "d" -> Signed(args[esp])
    [] c = "c" -> <<args[esp]>>
    [] c = "s" -> args[esp]

Literal ==
  /\ alternate = -1 /\ buf <= Len(Format) /\ Char # "%"
  /\ out' = Append(out, Char)
  /\ buf' = buf + 1
  /\ UNCHANGED <<alternate, esp>>

Percent ==
  /\ alternate = -1 /\ Char = "%"
  /\ alternate' = 0
  /\ buf' = buf + 1
  /\ UNCHANGED <<esp, out>>

Alternate ==
  /\ alternate # -1 /\ Char = "#"
  /\ alternate' = 1
  /\ buf' = buf + 1
  /\ UNCHANGED <<esp, out>>

Convert ==
  /\ alternate # -1 /\ Char \in {"x", "u", "d", "c", "s"}
  /\ out' = out \o Converted(Char)
  /\ esp' = esp + 1
  /\ buf' = buf + 1
  /\ alternate' = -1

\* %% is a percent sign, and anything else after % is dropped: also the NUL
\* of a format that ends there, and buf then goes on behind it.
Other ==
  /\ alternate # -1 /\ Char \notin {"x", "u", "d", "c", "s", "#"}
  /\ out' = IF Char = "%" THEN Append(out, "%") ELSE out
  /\ buf' = buf + 1
  /\ alternate' = -1
  /\ UNCHANGED esp

PDone == buf > Len(Format) /\ alternate = -1

PReturn ==
  /\ PDone
  /\ pieces' = <<>> /\ args' = <<>>
  /\ buf' = 1 /\ alternate' = -1 /\ esp' = 1 /\ out' = <<>>

PNext == (Literal \/ Percent \/ Alternate \/ Convert \/ Other) /\ UNCHANGED <<pieces, args>>

-----------------------------------------------------------------------------
\* The digit of v that counts radix ^ k.
Digit(v, radix, k) == lookup[((v \div Power(radix)[k]) % radix) + 1]

\* The numeral of v: its k-th digit from the left, and no zero in front.
Numeral(v, radix) ==
  LET n == CHOOSE k \in 1 .. Bits : /\ Power(radix)[k] > v
                                    /\ k > 1 => Power(radix)[k - 1] <= v
  IN  [k \in 1 .. n |-> Digit(v, radix, n - k)]

\* What a piece prints, as printf's comment has it.
Meaning(piece, a) ==
  CASE piece = <<"%", "x">>      -> Numeral(a, 16)
    [] piece = <<"%", "#", "x">> ->
         [k \in 1 .. Bits \div 4 |-> Digit(a, 16, (Bits \div 4) - k)]
    [] piece = <<"%", "u">>      -> Numeral(a, 10)
    [] piece = <<"%", "d">>      ->
         IF a < Power(2)[Bits - 1] THEN Numeral(a, 10)
         ELSE <<"-">> \o Numeral(Power(2)[Bits] - a, 10)
    [] piece = <<"%", "c">>      -> <<a>>
    [] piece = <<"%", "s">>      -> a
    [] piece = <<"%", "%">>      -> <<"%">>
    [] piece \in Dangling        -> <<>>
    [] OTHER                     -> piece

(***************************************************************************)
(* When printf is through with a format, it has printed what each piece    *)
(* means, in order, each with its own argument: numbers without a zero in  *)
(* front, 0 itself, the smallest int and its own negation, and %#x with    *)
(* all its digits.  It reads behind the NUL of those formats only that end *)
(* within a conversion.                                                    *)
(***************************************************************************)
PrintedRight ==
  PDone /\ pieces # <<>> =>
    /\ out = FlattenSeq([k \in DOMAIN pieces |->
               Meaning(pieces[k], ArgOf(pieces, args, k))])
    /\ buf > Len(Format) + 1 => Last(pieces) \in Dangling
=============================================================================
