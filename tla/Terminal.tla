------------------------------- MODULE Terminal -------------------------------
(***************************************************************************)
(* Line input: the keyboard handler (keyboard.c) fills the line of the     *)
(* terminal on screen, terminal_read (terminal.c) waits for Enter, copies  *)
(* the line to its caller and clears it.                                   *)
(*                                                                         *)
(* The handler runs with interrupts off and is one step per key.  The read *)
(* runs with interrupts on and looks at cur_term_idx afresh in every       *)
(* expression (the kernel is built without optimisation), so each of its   *)
(* expressions is a step, and keys come between them.  What is drawn on    *)
(* the screen is in module Screen.                                         *)
(***************************************************************************)
EXTENDS Integers, Sequences

CONSTANTS
  TermNum,  \* TERM_NUM, the number of terminals
  BufSize,  \* BUF_SIZE, the length of a line's array
  Chars,    \* the characters of the keys
  Enter,    \* the character '\n'
  Blank,    \* the character ' ', as the filler of cleared lines
  Nul       \* what the arrays hold before

Terms == 0 .. TermNum - 1
BufIdx == 0 .. BufSize - 1

ASSUME TerminalAssumption ==
  /\ TermNum \in Nat /\ TermNum > 0
  /\ BufSize \in Nat /\ BufSize > 1
  /\ {Enter, Blank, Nul} \cap Chars = {}
  /\ Enter \notin {Blank, Nul}

Typed == Chars \cup {Enter}
Bytes == Typed \cup {Blank, Nul}

VARIABLES
  term_buf_arr,     \* each terminal's line
  term_buf_idx,     \* its length
  term_enter_flag,  \* Enter was pressed in it
  cur_term_idx,     \* the terminal on screen
  pc,               \* where terminal_read is
  i,                \* its loop index
  dst,              \* what it has copied to its caller
  line,             \* history: the line it found when it saw the flag
  steady,           \* history: only typing happened since then
  torn              \* history: terminals that a switch has disturbed a read of

lineVars == <<term_buf_arr, term_buf_idx, term_enter_flag>>
readVars == <<pc, i, dst, line>>
vars == <<lineVars, cur_term_idx, readVars, steady, torn>>

Waiting == pc \in {"idle", "spin"}

\* terminal_start.
Init ==
  /\ term_buf_arr = [t \in Terms |-> [k \in BufIdx |-> Nul]]
  /\ term_buf_idx = [t \in Terms |-> 0]
  /\ term_enter_flag = [t \in Terms |-> 0]
  /\ cur_term_idx = 0
  /\ pc = "idle" /\ i = 0 /\ dst = << >> /\ line = << >>
  /\ steady = TRUE
  /\ torn = {}

-----------------------------------------------------------------------------
(* Keys.  The handler does not check the line's length (it tests buf_idx,  *)
(* which it never changes): lines are kept shorter than the array here.    *)

idx == term_buf_idx[cur_term_idx]
Room == idx < BufSize - 1

Store(c) ==
  /\ term_buf_arr' = [term_buf_arr EXCEPT ![cur_term_idx][idx] = c]
  /\ term_buf_idx' = [term_buf_idx EXCEPT ![cur_term_idx] = @ + 1]

KeyChar(c) ==
  /\ Room
  /\ Store(c)
  /\ UNCHANGED <<term_enter_flag, cur_term_idx, readVars, steady, torn>>

\* Mutant of KeyEnter: Enter is a key like the others.
KeyEnterNoFlag ==
  /\ Room
  /\ Store(Enter)
  /\ UNCHANGED <<term_enter_flag, cur_term_idx, readVars, steady, torn>>

\* check_mode sets the flag, show_pressed_key stores the new line.
KeyEnter ==
  /\ Room
  /\ Store(Enter)
  /\ term_enter_flag' = [term_enter_flag EXCEPT ![cur_term_idx] = 1]
  /\ UNCHANGED <<cur_term_idx, readVars, steady, torn>>

\* History of a read that more than typing happened to.
Disturb(really) ==
  IF really /\ ~Waiting THEN steady' = FALSE /\ line' = << >>
                        ELSE UNCHANGED <<steady, line>>

\* The blank goes one place past the character that is taken back.
KeyBackspace ==
  /\ idx > 0
  /\ term_buf_arr' = [term_buf_arr EXCEPT ![cur_term_idx][idx] = Blank]
  /\ term_buf_idx' = [term_buf_idx EXCEPT ![cur_term_idx] = @ - 1]
  /\ Disturb(TRUE)
  /\ UNCHANGED <<term_enter_flag, cur_term_idx, pc, i, dst, torn>>

\* ALT+Fn.
Switch(t) ==
  /\ cur_term_idx' = t
  /\ Disturb(t # cur_term_idx)
  /\ torn' = IF Waiting \/ t = cur_term_idx THEN torn ELSE torn \cup {t, cur_term_idx}
  /\ UNCHANGED <<lineVars, pc, i, dst>>

-----------------------------------------------------------------------------
(* terminal_read.                                                          *)

Call ==
  /\ pc = "idle"
  /\ pc' = "spin"
  /\ UNCHANGED <<lineVars, cur_term_idx, i, dst, line, steady, torn>>

\* Mutant of SeeFlag: the read waits for the first terminal.
SeeFlagOfFirst ==
  /\ pc = "spin"
  /\ term_enter_flag[0] # 0
  /\ pc' = "flag"
  /\ line' = [k \in 1 .. idx |-> term_buf_arr[cur_term_idx][k - 1]]
  /\ UNCHANGED <<lineVars, cur_term_idx, i, dst, steady, torn>>

\* The spin loop ends; line is what the terminal holds at that moment.
SeeFlag ==
  /\ pc = "spin"
  /\ term_enter_flag[cur_term_idx] # 0
  /\ pc' = "flag"
  /\ line' = [k \in 1 .. idx |-> term_buf_arr[cur_term_idx][k - 1]]
  /\ UNCHANGED <<lineVars, cur_term_idx, i, dst, steady, torn>>

ClearFlag ==
  /\ pc = "flag"
  /\ term_enter_flag' = [term_enter_flag EXCEPT ![cur_term_idx] = 0]
  /\ pc' = "copy_test"
  /\ UNCHANGED <<term_buf_arr, term_buf_idx, cur_term_idx, i, dst, line, steady, torn>>

\* Mutant of CopyTest: one byte too many.
CopyTestPastEnd ==
  /\ pc = "copy_test"
  /\ IF i <= idx THEN pc' = "copy" /\ UNCHANGED i ELSE pc' = "clear_test" /\ i' = 0
  /\ UNCHANGED <<lineVars, cur_term_idx, dst, line, steady, torn>>

CopyTest ==
  /\ pc = "copy_test"
  /\ IF i < idx THEN pc' = "copy" /\ UNCHANGED i ELSE pc' = "clear_test" /\ i' = 0
  /\ UNCHANGED <<lineVars, cur_term_idx, dst, line, steady, torn>>

CopyByte ==
  /\ pc = "copy"
  /\ dst' = Append(dst, term_buf_arr[cur_term_idx][i])
  /\ i' = i + 1
  /\ pc' = "copy_test"
  /\ UNCHANGED <<lineVars, cur_term_idx, line, steady, torn>>

ClearTest ==
  /\ pc = "clear_test"
  /\ pc' = IF i < idx THEN "clear" ELSE "reset"
  /\ UNCHANGED <<lineVars, cur_term_idx, i, dst, line, steady, torn>>

\* Mutant of ClearByte: the loop index stays.
ClearByteStays ==
  /\ pc = "clear"
  /\ term_buf_arr' = [term_buf_arr EXCEPT ![cur_term_idx][i] = Blank]
  /\ pc' = "clear_test"
  /\ UNCHANGED <<term_buf_idx, term_enter_flag, cur_term_idx, i, dst, line, steady, torn>>

ClearByte ==
  /\ pc = "clear"
  /\ term_buf_arr' = [term_buf_arr EXCEPT ![cur_term_idx][i] = Blank]
  /\ i' = i + 1
  /\ pc' = "clear_test"
  /\ UNCHANGED <<term_buf_idx, term_enter_flag, cur_term_idx, dst, line, steady, torn>>

Reset ==
  /\ pc = "reset"
  /\ term_buf_idx' = [term_buf_idx EXCEPT ![cur_term_idx] = 0]
  /\ pc' = "done"
  /\ UNCHANGED <<term_buf_arr, term_enter_flag, cur_term_idx, i, dst, line, steady, torn>>

\* The read returns Len(dst).
Return ==
  /\ pc = "done"
  /\ pc' = "idle" /\ i' = 0 /\ dst' = << >> /\ line' = << >> /\ steady' = TRUE
  /\ UNCHANGED <<lineVars, cur_term_idx, torn>>

ReadStep == \/ SeeFlag \/ ClearFlag \/ CopyTest \/ CopyByte
            \/ ClearTest \/ ClearByte \/ Reset

-----------------------------------------------------------------------------
Next ==
  \/ \E c \in Chars : KeyChar(c)
  \/ KeyEnter \/ KeyBackspace
  \/ \E t \in Terms : Switch(t)
  \/ Call \/ ReadStep \/ Return

Spec == Init /\ [][Next]_vars

\* The kernel runs on.
LiveSpec == Spec /\ WF_vars(ReadStep)

-----------------------------------------------------------------------------
TypeOK ==
  /\ term_buf_arr \in [Terms -> [BufIdx -> Bytes]]
  /\ term_buf_idx \in [Terms -> BufIdx]
  /\ term_enter_flag \in [Terms -> {0, 1}]
  /\ cur_term_idx \in Terms
  /\ pc \in {"idle", "spin", "flag", "copy_test", "copy", "clear_test", "clear",
             "reset", "done"}
  /\ i \in 0 .. BufSize
  /\ dst \in Seq(Bytes) /\ line \in Seq(Bytes)
  /\ steady \in BOOLEAN
  /\ torn \subseteq Terms

(***************************************************************************)
(* Keys typed while a read copies can only lengthen what it returns: it is *)
(* the line that stood on the terminal when the read saw Enter, followed   *)
(* by keys typed since, never a filler or a byte of an older line - unless *)
(* the user took a character back or switched terminals meanwhile.         *)
(***************************************************************************)
ReadExtendsLine ==
  pc \in {"clear_test", "clear", "reset", "done"} /\ steady =>
    /\ Len(dst) >= Len(line)
    /\ \A k \in 1 .. Len(dst) : IF k <= Len(line) THEN dst[k] = line[k]
                                ELSE dst[k] \in Typed

\* A line that ends in Enter is not left behind without its flag, so the
\* next read of its terminal returns - unless a switch came during a read.
NoStuckLine ==
  \A t \in Terms :
    /\ Waiting \/ pc = "done" \/ t # cur_term_idx
    /\ t \notin torn
    /\ \E k \in 0 .. term_buf_idx[t] - 1 : term_buf_arr[t][k] = Enter
    => term_enter_flag[t] = 1

\* A read that has seen Enter returns, however keys and switches come.
ReadReturns == pc = "flag" ~> pc = "done"

\* Enter on the terminal on screen ends the wait of a read, unless the user
\* turns to a terminal where none was pressed.
EnterWakes ==
  pc = "spin" /\ term_enter_flag[cur_term_idx] = 1
    ~> pc # "spin" \/ term_enter_flag[cur_term_idx] = 0
=============================================================================
