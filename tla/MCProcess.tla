------------------------------ MODULE MCProcess ------------------------------
(***************************************************************************)
(* Process on a small machine.  As in the kernel, the length of "shell" is *)
(* the number of the last slot, a command with an argument is longer than  *)
(* the table of slots, and a short name names a slot.  Bad is a file that  *)
(* is missing or no program.                                               *)
(***************************************************************************)
EXTENDS Process

Cmd(f, e, i, a) == [found |-> f, elf |-> e, idx |-> i, arg |-> a]

MCShell == Cmd(TRUE, TRUE, NumProc - 1, NULL)
WithArg == Cmd(TRUE, TRUE, NumProc, "arg")
Short   == Cmd(TRUE, TRUE, TermNum, NULL)
Bad     == Cmd(FALSE, FALSE, 0, NULL)

MCCommands == {MCShell, WithArg, Short, Bad}
=============================================================================
