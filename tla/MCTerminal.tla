----------------------------- MODULE MCTerminal -----------------------------
(* Two terminals, one key besides Enter and Backspace, lines of up to two. *)
EXTENDS Terminal, TLC
=============================================================================
