----------------------------- MODULE MCPrograms -----------------------------
(* A directory with a text file of several reads whose lines fall across   *)
(* them in every way, one that ends without a newline, an executable with  *)
(* NULs, one with a line that is too long for grep, the clock, and names   *)
(* that begin with a dot, which grep passes over.  Memory never written is *)
(* spaces, which matter to the parser, and newlines, which matter to grep. *)
EXTENDS Programs

MCEntry(n, t, i) == [fname |-> n, file_type |-> t, inode_index |-> i]
MCEntries ==
  << MCEntry(<<".">>, DIR, 0), MCEntry(<<"c">>, FILE, 1), MCEntry(<<".", "g">>, FILE, 3),
     MCEntry(<<"a">>, FILE, 5), MCEntry(<<"r">>, RTC, 0), MCEntry(<<"l">>, FILE, 2),
     MCEntry(<<".", "h">>, FILE, 4), MCEntry(<<"b", "b">>, FILE, 6) >>
MCInodes == 0 .. 6
MCPrograms1 ==
  [i \in MCInodes |-> CASE i = 1 -> "cat" [] i = 2 -> "ls" [] i = 3 -> "grep" [] i = 4 -> "syserr"
                        [] OTHER -> NULL]
MCContent ==
  [i \in MCInodes |->
     CASE i = 1 -> <<"x", NUL, "a", NL, NUL, "x", NUL>>
       [] i = 2 -> <<"x", "y", "x", "y", "y", "y", "x", NL, "x">>
       [] i = 5 -> <<"x", NL, "a", "a", "x", "a", NL, "a", NL,
                     "x", "y", "x", "a", "x", NL, NL, "x", NL>>
       [] i = 6 -> <<"a", "x", NL, "y", "x">>
       [] OTHER -> <<>>]
MCLength == [i \in MCInodes |-> Len(MCContent[i])]
MCNames == {MCEntries[n].fname : n \in DOMAIN MCEntries} \cup {<<"h", "h">>, <<>>}
MCJunk == {SP, NL}
MCBehind == {<<>>, <<SP, "z">>}
MCLines ==
  {<<>>, <<SP, SP>>, <<"c">>, <<"c", SP, "a">>, <<SP, "c", SP, SP, "a">>,
   <<"c", SP, ".">>, <<"c", SP, "r">>, <<"c", SP, "z">>, <<"l">>, <<"l", SP>>,
   <<".", "h">>, <<"a">>, <<"b", "b", "b">>,
   <<".", "g", SP, "x">>, <<".", "g", SP, "x", "a">>, <<".", "g">>}
=============================================================================
