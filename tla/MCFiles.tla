------------------------------- MODULE MCFiles -------------------------------
(* Files with blocks of two bytes and a small image whose blocks are not   *)
(* stored in order: an empty file, one that ends inside a block, one that  *)
(* fills its blocks, one of three blocks.                                  *)
EXTENDS Files, TLC

Entry(n, t, i) == [fname |-> n, file_type |-> t, inode_index |-> i]

MCEntries == << Entry(<<".">>, DIR, 0), Entry(<<"r", "t", "c">>, RTC, 0),
                Entry(<<"a">>, FILE, 1), Entry(<<"f">>, FILE, 2),
                Entry(<<"l">>, FILE, 3) >>
MCNames == {MCEntries[k].fname : k \in 1 .. 5} \cup {<<"x">>}
MCInodes == 0 .. 3
MCLength == <<1, 4, 5>> @@ 0 :> 0
MCBlocks == 0 :> << >> @@ 1 :> (0 :> 4) @@ 2 :> (0 :> 2 @@ 1 :> 0)
              @@ 3 :> (0 :> 5 @@ 1 :> 1 @@ 2 :> 3)
MCData == [d \in 0 .. 5 |-> [o \in 0 .. BlockSize - 1 |-> d * BlockSize + o]]
=============================================================================
