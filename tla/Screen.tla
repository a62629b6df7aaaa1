-------------------------------- MODULE Screen --------------------------------
(***************************************************************************)
(* What is drawn: the screen, the page each terminal that is not shown     *)
(* keeps (lib.c, terminal.c), and the cursors.                             *)
(*                                                                         *)
(* Programs print through putc, with interrupts on: it is a chain of steps *)
(* between which keys come.  The keyboard handler draws with interrupts    *)
(* off, in one step per key.  A scroll is one step, wherever it is done.   *)
(***************************************************************************)
EXTENDS Integers

CONSTANTS
  TermNum,   \* TERM_NUM
  NumCols,   \* NUM_COLS, and
  NumRows,   \* NUM_ROWS, of the part of a page that is shown
  PageCells, \* cells in the 4 KB of a page
  Chars,     \* the characters printed and typed
  Enter,     \* the character '\n'
  Blank      \* a blank cell

Terms == 0 .. TermNum - 1
LastRow == NumRows - 1
CellIdx == 0 .. PageCells - 1

ASSUME ScreenAssumption ==
  /\ TermNum \in Nat /\ TermNum > 0
  /\ NumCols \in Nat /\ NumCols > 1 /\ NumRows \in Nat /\ NumRows > 0
  /\ PageCells \in Nat /\ NumCols * NumRows <= PageCells
  /\ Enter \notin Chars

VARIABLES
  screen,               \* the video memory at VIDEO, screen_x and screen_y
  term,                 \* video_mem, term_screen_x and term_screen_y
  cur_term_idx,         \* the terminal on screen
  background_terminal,  \* the terminal that putc writes to
  pc,                   \* where putc is
  c,                    \* its argument
  shown,                \* it has taken background_terminal for the one on screen
  arg,                  \* the column and row it hands to update_cursor
  hit                   \* history: a key or a tick came while putc was drawing

readOnly == <<cur_term_idx, background_terminal>>
vars == <<screen, term, readOnly, pc, c, shown, arg, hit>>

Page == [cells : [CellIdx -> Chars \cup {Blank}], x : 0 .. PageCells, y : 0 .. PageCells]
EmptyPage == [cells |-> [k \in CellIdx |-> Blank], x |-> 0, y |-> 0]

\* entry has cleared the screen, terminal_start has set up the terminals, and
\* the first tick has started a shell.
Init ==
  /\ screen = EmptyPage
  /\ term = [t \in Terms |-> EmptyPage]
  /\ cur_term_idx = 0
  /\ background_terminal = 0
  /\ pc = "idle" /\ c = Enter /\ shown = FALSE /\ arg = <<0, 0>>
  /\ hit = FALSE

-----------------------------------------------------------------------------
(* Drawing on a page.  putc_switch and putc's second branch are the same   *)
(* text over two sets of variables.                                        *)

Wrapped(p) ==
  IF p.x = NumCols /\ p.y < LastRow THEN [p EXCEPT !.x = 0, !.y = @ + 1] ELSE p

\* The rows of from move up into to.
ScrolledUp(to, from) ==
  [k \in CellIdx |-> IF k < LastRow * NumCols THEN from[k + NumCols]
                     ELSE IF k < NumRows * NumCols THEN Blank ELSE to[k]]

Newline(p, from) ==
  IF p.y = LastRow THEN [p EXCEPT !.x = 0, !.cells = ScrolledUp(@, from)]
                   ELSE [p EXCEPT !.x = 0, !.y = @ + 1]

Here(p) == p.y * NumCols + p.x

Written(p, ch) == [p EXCEPT !.cells = [@ EXCEPT ![Here(p)] = ch], !.x = @ + 1]

\* Mutant of Scrolled: the column is not reset.
ScrolledKeepsColumn(p, from) ==
  IF p.x = NumCols /\ p.y = LastRow THEN [p EXCEPT !.cells = ScrolledUp(@, from)] ELSE p

\* The last cell was written.
Scrolled(p, from) ==
  IF p.x = NumCols /\ p.y = LastRow THEN [p EXCEPT !.x = 0, !.cells = ScrolledUp(@, from)]
                                    ELSE p

PutSwitch(p, ch) ==
  LET w == Wrapped(p)
      v == Written(w, ch)
  IN  IF ch = Enter THEN Newline(w, w.cells) ELSE Scrolled(v, v.cells)

\* enter, whose scroll_up is commented out.
EnterLine(p) == IF p.y = LastRow THEN [p EXCEPT !.x = 0] ELSE [p EXCEPT !.x = 0, !.y = @ + 1]

\* Mutant of Backspaced: the top left corner is not excepted.
BackspacedAtTop(p) ==
  LET b == IF p.x > 0 THEN [p EXCEPT !.x = @ - 1]
                      ELSE [p EXCEPT !.x = NumCols - 2, !.y = @ - 1]
  IN  [b EXCEPT !.cells[Here(b)] = Blank]

Backspaced(p) ==
  LET b == IF p.x > 0 THEN [p EXCEPT !.x = @ - 1]
                      ELSE [p EXCEPT !.x = NumCols - 2, !.y = @ - 1]
  IN  IF p.x = 0 /\ p.y = 0 THEN p ELSE [b EXCEPT !.cells[Here(b)] = Blank]

Cleared(p) ==
  [cells |-> [k \in CellIdx |-> IF k < NumRows * NumCols THEN Blank ELSE p.cells[k]],
   x |-> 0, y |-> 0]

Cut == hit' = (hit \/ pc \notin {"idle", "choose"})

\* putc is over and its locals are gone.
Done == pc' = "idle" /\ c' = Enter /\ shown' = FALSE /\ arg' = <<0, 0>>

\* A bound of the model: a cursor is not followed beyond its page.
InPage(p) == Here(p) < PageCells

-----------------------------------------------------------------------------
(* Keys.                                                                   *)

Draw(p) ==
  /\ InPage(screen)
  /\ screen' = p
  /\ Cut
  /\ UNCHANGED <<term, readOnly, pc, c, shown, arg>>

KeyChar(ch) == InPage(Wrapped(screen)) /\ Draw(PutSwitch(screen, ch))
KeyEnter == Draw(PutSwitch(EnterLine(screen), Enter))

\* While the line has characters (module Terminal).
KeyBackspace == Draw(Backspaced(screen))

\* CTRL+L.
KeyClear == Draw(Cleared(screen))

\* Mutant of TerminalSave: the cursor is not kept.
TerminalSaveNoCursor(t) == [term EXCEPT ![t].cells = screen.cells]

TerminalSave(t) == [term EXCEPT ![t] = screen]

\* ALT+Fn: save the terminal on screen, then load the other.
TerminalSwitch(t) ==
  /\ term' = TerminalSave(cur_term_idx)
  /\ screen' = term'[t]
  /\ cur_term_idx' = t
  /\ Cut
  /\ UNCHANGED <<background_terminal, pc, c, shown, arg>>

\* A tick that starts another terminal's shell; what it interrupts is lost.
ContextSwitch ==
  /\ \E t \in Terms : t > background_terminal /\ background_terminal' = t
  /\ Cut
  /\ Done
  /\ UNCHANGED <<screen, term, cur_term_idx>>

-----------------------------------------------------------------------------
(* putc, called by terminal_write and puts for each character.             *)

PutC(ch) ==
  /\ pc = "idle"
  /\ pc' = "choose" /\ c' = ch
  /\ UNCHANGED <<screen, term, readOnly, shown, arg, hit>>

\* Which page to draw on.
Choose ==
  /\ pc = "choose"
  /\ shown' = (cur_term_idx = background_terminal)
  /\ pc' = "wrap"
  /\ UNCHANGED <<screen, term, readOnly, c, arg, hit>>

Target == IF shown THEN screen ELSE term[background_terminal]

DrawTarget(p) ==
  /\ InPage(p)
  /\ IF shown THEN screen' = p /\ UNCHANGED term
              ELSE term' = [term EXCEPT ![background_terminal] = p] /\ UNCHANGED screen

\* scroll_up moves the rows of the screen, scroll_up_switch those that the
\* terminal on screen had when it was last saved.
ScrollSource == IF shown THEN screen.cells ELSE term[cur_term_idx].cells

Wrap ==
  /\ pc = "wrap"
  /\ DrawTarget(Wrapped(Target))
  /\ pc' = IF c = Enter THEN "newline" ELSE "write"
  /\ UNCHANGED <<readOnly, c, shown, arg, hit>>

\* The branch without update_cursor ends here.
Finish == IF shown THEN pc' = "args" /\ UNCHANGED <<c, shown, arg>> ELSE Done

PutNewline ==
  /\ pc = "newline"
  /\ DrawTarget(Newline(Target, ScrollSource))
  /\ Finish
  /\ UNCHANGED <<readOnly, hit>>

Write ==
  /\ pc = "write"
  /\ InPage(Target)
  /\ DrawTarget(Written(Target, c))
  /\ pc' = "full"
  /\ UNCHANGED <<readOnly, c, shown, arg, hit>>

Full ==
  /\ pc = "full"
  /\ DrawTarget(Scrolled(Target, ScrollSource))
  /\ Finish
  /\ UNCHANGED <<readOnly, hit>>

\* update_cursor stores back the position it was called with.
Args ==
  /\ pc = "args"
  /\ arg' = <<screen.x, screen.y>>
  /\ pc' = "cursor"
  /\ UNCHANGED <<screen, term, readOnly, c, shown, hit>>

UpdateCursor ==
  /\ pc = "cursor"
  /\ screen' = [screen EXCEPT !.x = arg[1], !.y = arg[2]]
  /\ Done
  /\ UNCHANGED <<term, readOnly, hit>>

PutStep == Choose \/ Wrap \/ PutNewline \/ Write \/ Full \/ Args \/ UpdateCursor

-----------------------------------------------------------------------------
\* What the user, a program or the timer starts.
Input ==
  \/ \E ch \in Chars : KeyChar(ch)
  \/ KeyEnter \/ KeyBackspace \/ KeyClear
  \/ \E t \in Terms : TerminalSwitch(t)
  \/ ContextSwitch
  \/ \E ch \in Chars \cup {Enter} : PutC(ch)

Next == Input \/ PutStep

Spec == Init /\ [][Next]_vars

-----------------------------------------------------------------------------
TypeOK ==
  /\ screen \in Page /\ term \in [Terms -> Page]
  /\ cur_term_idx \in Terms /\ background_terminal \in Terms
  /\ pc \in {"idle", "choose", "wrap", "newline", "write", "full", "args", "cursor"}
  /\ c \in Chars \cup {Enter}
  /\ shown \in BOOLEAN /\ hit \in BOOLEAN
  /\ arg \in (0 .. PageCells) \X (0 .. PageCells)

\* What the user sees of terminal t whenever t is on screen.
PageOf(t) == IF t = cur_term_idx THEN screen ELSE term[t]

(***************************************************************************)
(* Only the terminal on screen and the one programs print to change, and a *)
(* switch changes none: the user finds every other terminal as it was      *)
(* left, cursor included, even if the switch cut a print in two.           *)
(***************************************************************************)
PageKept ==
  [][\A t \in Terms : PageOf(t)' # PageOf(t) =>
       t = background_terminal \/ (t = cur_term_idx /\ cur_term_idx' = t)]_vars

(***************************************************************************)
(* As long as no key or tick came in the middle of a print, every          *)
(* terminal's cursor is on its page's shown part, or past the end of a row *)
(* that is not the last, so no sequence of keys, prints and switches draws *)
(* outside the screen.                                                     *)
(***************************************************************************)
CursorOnScreen ==
  ~hit => \A t \in Terms :
    LET p == PageOf(t) IN
    /\ p.y < NumRows /\ p.x <= NumCols
    /\ p.y = LastRow /\ p.x = NumCols => pc = "full" /\ t = background_terminal

-----------------------------------------------------------------------------
(* Claims of the source's comments.                                        *)

\* "If visible term and active term are the same, use putc_switch which
\* writes to b8. Else write to video memory that specified in term struct":
\* what programs print goes to background_terminal and nowhere else.
OutputStaysHome ==
  [][PutStep => \A t \in Terms \ {background_terminal} : PageOf(t)' = PageOf(t)]_vars
=============================================================================
