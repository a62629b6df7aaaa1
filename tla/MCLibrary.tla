----------------------------- MODULE MCLibrary -----------------------------
(* Ten bytes of memory; words of 8 bits; names of up to three bytes.       *)
EXTENDS Library

MCFresh == {[a \in 0 .. Size - 1 |-> a]}
MCValues == {[k \in 0 .. 3 |-> 100 + k]}
MCBytes == 0 .. Size - 1 \cup 100 .. 103

Words == {0, 7, 10, 16, 100, 127, 128, 129, 255}

MCChars == {"a", "h", "i", "z", "%"}

\* Pieces with what may be passed for them; the last two only end a format.
PieceArgs ==
  {<<<<"%", "x">>, Words>>, <<<<"%", "#", "x">>, Words>>,
   <<<<"%", "u">>, Words>>, <<<<"%", "d">>, Words>>,
   <<<<"%", "c">>, {"z"}>>, <<<<"%", "s">>, {<<"h", "i">>, <<>>}>>,
   <<<<"%", "%">>, {}>>, <<<<"a">>, {}>>}
Ends == {<<"%">>, <<"%", "#">>}

OnePiece ==
  UNION {IF p[2] = {} THEN {<<<<p[1]>>, <<>>>>}
         ELSE {<<<<p[1]>>, <<a>>>> : a \in p[2]} : p \in PieceArgs}

MCFormats ==
  OnePiece \cup {<<p[1] \o q[1], p[2] \o q[2]>> : p \in OnePiece, q \in OnePiece}
           \cup {<<Append(p[1], e), p[2]>> : p \in OnePiece, e \in Ends}

\* Strings over two letters, as arrays padded with NUL.
Strings(lo, hi) == UNION {[1 .. n -> {"a", "b"}] : n \in lo .. hi}
Array(s, n) == [k \in 0 .. n - 1 |-> IF k < Len(s) THEN s[k + 1] ELSE NUL]
MCFnames == {Array(s, NameMax + 2) : s \in Strings(0, NameMax + 1)}
Names == {Array(s, NameMax) : s \in Strings(1, NameMax)}
MCDirs == {<<d, e>> : d \in Names, e \in Names}
=============================================================================
