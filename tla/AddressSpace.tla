---------------------------- MODULE AddressSpace ----------------------------
(***************************************************************************)
(* What paging promises to programs: whoever runs in user mode sees its    *)
(* own 4 MB page at 128 MB from the first instruction to the next trap,    *)
(* and nothing of memory besides it but the screen, once a program has     *)
(* asked for it.  Module Paging implements this with a page directory, two *)
(* page tables and a TLB.                                                  *)
(***************************************************************************)
CONSTANTS
  Pids,   \* process numbers
  NULL

VARIABLES
  running,  \* the program in user mode, or NULL while the kernel runs
  sees,     \* whose page the running program sees at 128 MB
  screen    \* can user code see video memory

aVars == <<running, sees, screen>>

AInit == running = NULL /\ sees = NULL /\ screen = FALSE

\* Execute, halt and every return to user mode.
Resume(p) ==
  /\ running = NULL
  /\ running' = p
  /\ sees' = p
  /\ UNCHANGED screen

\* System calls, exceptions, interrupts.
Enter ==
  /\ running # NULL
  /\ running' = NULL
  /\ sees' = NULL
  /\ UNCHANGED screen

\* vidmap; no program and no halt takes the screen away again.
ShowScreen ==
  /\ running = NULL
  /\ screen' = TRUE
  /\ UNCHANGED <<running, sees>>

ANext == (\E p \in Pids : Resume(p)) \/ Enter \/ ShowScreen

ASpec == AInit /\ [][ANext]_aVars
=============================================================================
