------------------------------- MODULE Process -------------------------------
(***************************************************************************)
(* The life of a process in the kernel: execute, halt and the exception    *)
(* handlers (system_call.c, exception_handler.c), the timer tick that      *)
(* starts a shell for each terminal (scheduling.c), and the user page and  *)
(* kernel stack they switch (paging.c, tss.esp0).                          *)
(*                                                                         *)
(* There is one processor, and cpu is its one flow of control.  execute    *)
(* and halt run with interrupts enabled when they are system calls, so     *)
(* each is a chain of steps between which an interrupt may come; a timer   *)
(* tick runs with interrupts off and is one step.  A tick that starts a    *)
(* shell never returns to the flow it interrupted.                         *)
(***************************************************************************)
EXTENDS Integers

CONSTANTS
  NumProc,   \* length of process_arr
  TermNum,   \* TERM_NUM, the number of terminals
  Commands,  \* the command lines that can reach execute
  Shell,     \* the command line "shell"
  NULL       \* the null pointer

Slots == 0 .. NumProc - 1
Terms == 0 .. TermNum - 1
LastRoot == TermNum - 1

ASSUME SizeAssumption ==
  /\ NumProc \in Nat /\ TermNum \in Nat
  /\ 0 < TermNum /\ TermNum < NumProc

(***************************************************************************)
(* What execute's parser makes of a command line: does the name exist, is  *)
(* the file an ELF image, which argument text follows, and idx, the value  *)
(* the loop variable i is left with (the length of the scanned text).      *)
(***************************************************************************)
ASSUME CommandAssumption ==
  /\ \A c \in Commands : c.found \in BOOLEAN /\ c.elf \in BOOLEAN /\ c.idx \in Nat
  /\ Shell \in Commands /\ Shell.found /\ Shell.elf
  /\ NULL \notin Commands /\ NULL \notin Int /\ NULL \notin BOOLEAN

Args == {c.arg : c \in Commands} \cup {NULL}

\* The 8 KB blocks below 8 MB that are read or written as a PCB.
PcbIdx == Slots \cup {c.idx : c \in Commands}

VARIABLES
  process_arr,          \* 1 for each slot in use
  pcb,                  \* the PCB at the foot of each 8 KB block
  schedule_arr,         \* per terminal: -1 until its shell has been started
  background_terminal,  \* the terminal that putc writes to
  cur_term_idx,         \* the terminal on screen
  page,                 \* slot whose 4 MB page is mapped at 128 MB
  esp0,                 \* slot whose kernel stack the next trap will use
  mem,                  \* program image in each slot's 4 MB page
  frame,                \* per kernel stack: IF in the EFLAGS its last trap saved
  cpu,                  \* what the processor is doing
  born                  \* history: the command and the caller of each slot

vars == <<process_arr, pcb, schedule_arr, background_terminal, cur_term_idx,
          page, esp0, mem, frame, cpu, born>>

Modes == {"boot", "user", "sys", "check", "load", "copy", "link", "sched",
          "enter", "halt", "restore", "return", "wild"}

(***************************************************************************)
(* mode: where control is; stk: the kernel stack in use (get_cur_pcb finds *)
(* the PCB from it); ifl: EFLAGS.IF; cmd and slot: execute's argument and  *)
(* its cur_pid.                                                            *)
(***************************************************************************)
CpuState == [mode : Modes, stk : Slots, ifl : BOOLEAN,
             cmd : Commands \cup {NULL}, slot : Slots \cup {NULL}]

\* esp is the kernel stack the saved stack pointer points into.
Pcb == [pid : Slots, parent : PcbIdx \cup {NULL},
        esp : Slots \cup {NULL}, argument : Args]

UserMode(s, f) == [mode |-> "user", stk |-> s, ifl |-> f,
                   cmd |-> NULL, slot |-> NULL]

Free == {s \in Slots : process_arr[s] # 1}
FirstFree == CHOOSE s \in Free : \A r \in Free : s <= r

Pending == {t \in Terms : schedule_arr[t] = -1}
FirstPending == CHOOSE t \in Pending : \A u \in Pending : t <= u

-----------------------------------------------------------------------------
(***************************************************************************)
(* entry spins in hlt on the boot stack, which is slot 0's; RAM the kernel *)
(* never wrote (the PCB blocks) reads as zero.                             *)
(***************************************************************************)
Init ==
  /\ process_arr = [s \in Slots |-> 0]
  /\ pcb = [k \in PcbIdx |-> [pid |-> 0, parent |-> NULL, esp |-> NULL,
                              argument |-> NULL]]
  /\ schedule_arr = [t \in Terms |-> -1]
  /\ background_terminal = -1
  /\ cur_term_idx = 0
  /\ page = NULL
  /\ esp0 = 0
  /\ mem = [s \in Slots |-> NULL]
  /\ frame = [s \in Slots |-> NULL]
  /\ cpu = [UserMode(0, TRUE) EXCEPT !.mode = "boot"]
  /\ born = [s \in Slots |-> [cmd |-> NULL, by |-> NULL]]

-----------------------------------------------------------------------------
(* Traps from user code: the processor saves the user's EFLAGS on the      *)
(* stack that esp0 names and enters the kernel there.                      *)

\* Mutant of Trap: no sti.
TrapNoSti(m, c) ==
  /\ cpu.mode = "user"
  /\ frame' = [frame EXCEPT ![esp0] = cpu.ifl]
  /\ cpu' = [cpu EXCEPT !.mode = m, !.stk = esp0, !.cmd = c]
  /\ UNCHANGED <<process_arr, pcb, schedule_arr, background_terminal,
                 cur_term_idx, page, esp0, mem, born>>

\* system_call_asm ends its prologue with sti.  Every system call has the
\* same frame, so a return through a stack returns to its last trap.
Trap(m, c) ==
  /\ cpu.mode = "user"
  /\ frame' = [frame EXCEPT ![esp0] = cpu.ifl]
  /\ cpu' = [cpu EXCEPT !.mode = m, !.stk = esp0, !.ifl = TRUE, !.cmd = c]
  /\ UNCHANGED <<process_arr, pcb, schedule_arr, background_terminal,
                 cur_term_idx, page, esp0, mem, born>>

\* Any system call but halt, and but an execute that reads its command.
Syscall == Trap("sys", NULL)

SysReturn ==
  /\ cpu.mode = "sys"
  /\ cpu' = UserMode(esp0, frame[cpu.stk])
  /\ UNCHANGED <<process_arr, pcb, schedule_arr, background_terminal,
                 cur_term_idx, page, esp0, mem, frame, born>>

\* vidmap maps the user page of the PCB it finds from the stack.
Vidmap ==
  /\ cpu.mode = "sys"
  /\ page' = pcb[cpu.stk].pid
  /\ UNCHANGED <<process_arr, pcb, schedule_arr, background_terminal,
                 cur_term_idx, esp0, mem, frame, cpu, born>>

\* Commands are typed by hand: none arrives in the three timer periods
\* (150 ms) in which the kernel starts its shells.
Execute(c) == Pending = {} /\ Trap("check", c)

Halt == Trap("halt", NULL)

\* Every exception goes through a trap gate, which leaves IF alone, to a
\* handler that calls real_halt(256).  One taken from user code leaves a
\* frame that no system call can return through.
Exception ==
  /\ \/ /\ cpu.mode = "user"
        /\ cpu' = [cpu EXCEPT !.mode = "halt", !.stk = esp0]
        /\ frame' = [frame EXCEPT ![esp0] = NULL]
     \/ /\ cpu.mode = "sys"
        /\ cpu' = [cpu EXCEPT !.mode = "halt"]
        /\ UNCHANGED frame
  /\ UNCHANGED <<process_arr, pcb, schedule_arr, background_terminal,
                 cur_term_idx, page, esp0, mem, born>>

-----------------------------------------------------------------------------
(* execute, from a system call or from the halt of a root shell.           *)

\* Find a slot, parse the command, store its argument, look the file up.
\* A null command and a full table return before the argument is stored.
ExecCheck ==
  /\ cpu.mode = "check"
  /\ LET ok == Free # {} /\ cpu.cmd # NULL IN
     /\ pcb' = IF ok THEN [pcb EXCEPT ![FirstFree].argument = cpu.cmd.arg] ELSE pcb
     /\ cpu' = IF ok /\ cpu.cmd.found /\ cpu.cmd.elf
               THEN [cpu EXCEPT !.mode = "load", !.slot = FirstFree]
               ELSE UserMode(esp0, frame[cpu.stk])
  /\ UNCHANGED <<process_arr, schedule_arr, background_terminal,
                 cur_term_idx, page, esp0, mem, frame, born>>

\* Mutant of ExecLoad: paging_set_up is not called.
ExecLoadNoPaging ==
  /\ cpu.mode = "load"
  /\ process_arr' = [process_arr EXCEPT ![cpu.slot] = 1]
  /\ born' = [born EXCEPT ![cpu.slot] = [cmd |-> cpu.cmd, by |-> cpu.stk]]
  /\ cpu' = [cpu EXCEPT !.mode = "copy"]
  /\ UNCHANGED <<pcb, schedule_arr, background_terminal, cur_term_idx, page,
                 esp0, mem, frame>>

\* Mark the slot and map its page.
ExecLoad ==
  /\ cpu.mode = "load"
  /\ process_arr' = [process_arr EXCEPT ![cpu.slot] = 1]
  /\ page' = cpu.slot
  /\ born' = [born EXCEPT ![cpu.slot] = [cmd |-> cpu.cmd, by |-> cpu.stk]]
  /\ cpu' = [cpu EXCEPT !.mode = "copy"]
  /\ UNCHANGED <<pcb, schedule_arr, background_terminal, cur_term_idx, esp0,
                 mem, frame>>

\* Copy the image to 0x8048000, that is into whichever page is mapped.
ExecCopy ==
  /\ cpu.mode = "copy"
  /\ mem' = [mem EXCEPT ![page] = cpu.cmd]
  /\ cpu' = [cpu EXCEPT !.mode = "link"]
  /\ UNCHANGED <<process_arr, pcb, schedule_arr, background_terminal,
                 cur_term_idx, page, esp0, frame, born>>

\* Fill in the PCB.  Slots up to LastRoot have no parent; for the others
\* the PCB that schedule_arr names is the parent and gets the stack pointer.
LinkPcb(P, s, k, stk) ==
  LET root == s <= LastRoot IN
  [j \in PcbIdx |->
     [P[j] EXCEPT !.pid    = IF j = s THEN s ELSE @,
                  !.parent = IF j = s THEN (IF root THEN NULL ELSE k) ELSE @,
                  !.esp    = IF j = k /\ ~root THEN stk ELSE @]]

ExecLink ==
  /\ cpu.mode = "link"
  /\ pcb' = LinkPcb(pcb, cpu.slot, schedule_arr[cur_term_idx], cpu.stk)
  /\ cpu' = [cpu EXCEPT !.mode = "sched"]
  /\ UNCHANGED <<process_arr, schedule_arr, background_terminal,
                 cur_term_idx, page, esp0, mem, frame, born>>

\* i still holds the parser's position when it is stored here; term[i] is
\* written as well, which is outside term for most commands.
ExecSched ==
  /\ cpu.mode = "sched"
  /\ schedule_arr' = [schedule_arr EXCEPT ![cur_term_idx] = cpu.cmd.idx]
  /\ cpu' = [cpu EXCEPT !.mode = "enter"]
  /\ UNCHANGED <<process_arr, pcb, background_terminal, cur_term_idx,
                 page, esp0, mem, frame, born>>

\* Set the kernel stack and iret; the program inherits IF from the kernel.
ExecEnter ==
  /\ cpu.mode = "enter"
  /\ esp0' = cpu.slot
  /\ cpu' = UserMode(cpu.slot, cpu.ifl)
  /\ UNCHANGED <<process_arr, pcb, schedule_arr, background_terminal,
                 cur_term_idx, page, mem, frame, born>>

-----------------------------------------------------------------------------
(* real_halt.                                                              *)

\* Mutants of HaltClear: the last root shell is taken for a child; the slot
\* is not freed.
HaltClearLastRootReturns ==
  /\ cpu.mode = "halt"
  /\ LET pid == pcb[cpu.stk].pid IN
     /\ process_arr' = [process_arr EXCEPT ![pid] = 0]
     /\ pcb' = [pcb EXCEPT ![cpu.stk].argument = NULL]
     /\ cpu' = IF pid < LastRoot
               THEN [cpu EXCEPT !.mode = "check", !.cmd = Shell]
               ELSE [cpu EXCEPT !.mode = "restore"]
  /\ UNCHANGED <<schedule_arr, background_terminal, cur_term_idx, page,
                 esp0, mem, frame, born>>

HaltClearKeepsSlot ==
  /\ cpu.mode = "halt"
  /\ pcb' = [pcb EXCEPT ![cpu.stk].argument = NULL]
  /\ cpu' = IF pcb[cpu.stk].pid <= LastRoot
            THEN [cpu EXCEPT !.mode = "check", !.cmd = Shell]
            ELSE [cpu EXCEPT !.mode = "restore"]
  /\ UNCHANGED <<process_arr, schedule_arr, background_terminal, cur_term_idx,
                 page, esp0, mem, frame, born>>

\* Free the slot, clear the PCB; a root shell is started again at once.
HaltClear ==
  /\ cpu.mode = "halt"
  /\ LET pid == pcb[cpu.stk].pid IN
     /\ process_arr' = [process_arr EXCEPT ![pid] = 0]
     /\ pcb' = [pcb EXCEPT ![cpu.stk].argument = NULL]
     /\ cpu' = IF pid <= LastRoot
               THEN [cpu EXCEPT !.mode = "check", !.cmd = Shell]
               ELSE [cpu EXCEPT !.mode = "restore"]
  /\ UNCHANGED <<schedule_arr, background_terminal, cur_term_idx, page,
                 esp0, mem, frame, born>>

Parent == pcb[cpu.stk].parent

HaltRestore ==
  /\ cpu.mode = "restore"
  /\ page' = pcb[Parent].pid
  /\ cpu' = [cpu EXCEPT !.mode = "return"]
  /\ UNCHANGED <<process_arr, pcb, schedule_arr, background_terminal,
                 cur_term_idx, esp0, mem, frame, born>>

\* Mutant of HaltReturn: tss.esp0 is not restored.
HaltReturnKeepsEsp0 ==
  /\ cpu.mode = "return"
  /\ LET f == frame[pcb[Parent].esp] IN
     cpu' = IF f # NULL THEN UserMode(pcb[Parent].pid, f)
            ELSE [cpu EXCEPT !.mode = "wild"]
  /\ UNCHANGED <<process_arr, pcb, schedule_arr, background_terminal,
                 cur_term_idx, page, esp0, mem, frame, born>>

\* Jump to halt_return on the stack pointer kept in the parent's PCB.  It
\* unwinds that stack's last trap; if that was an exception, control is lost.
HaltReturn ==
  /\ cpu.mode = "return"
  /\ esp0' = pcb[Parent].pid
  /\ LET f == frame[pcb[Parent].esp] IN
     cpu' = IF f # NULL THEN UserMode(esp0', f) ELSE [cpu EXCEPT !.mode = "wild"]
  /\ UNCHANGED <<process_arr, pcb, schedule_arr, background_terminal,
                 cur_term_idx, page, mem, frame, born>>

-----------------------------------------------------------------------------
(* Interrupts.                                                             *)

Interruptible == cpu.ifl /\ cpu.mode # "wild"

\* ALT+Fn: terminal_switch ends by setting cur_term_idx.
SwitchTerm(t) ==
  /\ Interruptible
  /\ cur_term_idx' = t
  /\ UNCHANGED <<process_arr, pcb, schedule_arr, background_terminal,
                 page, esp0, mem, frame, cpu, born>>

\* contextSwitch finds a terminal t without a shell and executes one in the
\* first free slot, with interrupts off from end to end.  (TickFindsSlot: the
\* branch of execute that finds no slot is not reached from here.)
PitTick ==
  /\ Interruptible
  /\ Pending # {}
  /\ Free # {}
  /\ LET t == FirstPending
         s == FirstFree
         sched == [schedule_arr EXCEPT ![t] = t]
     IN  /\ background_terminal' = t
         /\ process_arr' = [process_arr EXCEPT ![s] = 1]
         /\ pcb' = LinkPcb([pcb EXCEPT ![s].argument = Shell.arg], s,
                           sched[cur_term_idx], cpu.stk)
         /\ page' = s
         /\ mem' = [mem EXCEPT ![s] = Shell]
         /\ schedule_arr' = [sched EXCEPT ![cur_term_idx] = Shell.idx]
         /\ esp0' = s
         /\ cpu' = UserMode(s, FALSE)
         /\ born' = [born EXCEPT ![s] = [cmd |-> Shell, by |-> NULL]]
  /\ UNCHANGED <<cur_term_idx, frame>>

-----------------------------------------------------------------------------
ExecStep == ExecCheck \/ ExecLoad \/ ExecCopy \/ ExecLink \/ ExecSched \/ ExecEnter
HaltStep == HaltClear \/ HaltRestore \/ HaltReturn

Next ==
  \/ Syscall \/ SysReturn \/ Vidmap
  \/ \E c \in Commands \cup {NULL} : Execute(c)
  \/ Halt \/ Exception
  \/ ExecStep \/ HaltStep
  \/ \E t \in Terms : SwitchTerm(t)
  \/ PitTick

Spec == Init /\ [][Next]_vars

\* The kernel runs on, the timer's interrupt stays latched in the PIC until
\* it is taken, and a shell makes system calls (its first act is a write).
LiveSpec ==
  /\ Spec
  /\ WF_vars(ExecStep \/ HaltStep)
  /\ SF_vars(Syscall)
  /\ SF_vars(PitTick)

-----------------------------------------------------------------------------
TypeOK ==
  /\ process_arr \in [Slots -> {0, 1}]
  /\ pcb \in [PcbIdx -> Pcb]
  /\ schedule_arr \in [Terms -> PcbIdx \cup {-1}]
  /\ background_terminal \in Terms \cup {-1}
  /\ cur_term_idx \in Terms
  /\ page \in Slots \cup {NULL}
  /\ esp0 \in Slots
  /\ mem \in [Slots -> Commands \cup {NULL}]
  /\ frame \in [Slots -> BOOLEAN \cup {NULL}]
  /\ cpu \in CpuState
  /\ born \in [Slots -> [cmd : Commands \cup {NULL}, by : Slots \cup {NULL}]]

(***************************************************************************)
(* Whenever user code runs, the page it runs in, the kernel stack its next *)
(* trap will use and the PCB that get_cur_pcb will find there belong to    *)
(* one slot, however execute, halt, exceptions, terminal switches and      *)
(* ticks were interleaved.                                                 *)
(***************************************************************************)
OneSlotRuns == cpu.mode = "user" => page = esp0 /\ pcb[esp0].pid = esp0

(***************************************************************************)
(* A slot marked in use holds, once loaded, the image and the argument of  *)
(* the command it was marked for: no failed execute, halt or tick          *)
(* overwrites another program's page or argument.                          *)
(***************************************************************************)
SlotHoldsProgram ==
  \A s \in Slots :
    process_arr[s] = 1 =>
      /\ pcb[s].argument = born[s].cmd.arg
      /\ mem[s] = born[s].cmd \/ (cpu.mode = "copy" /\ cpu.slot = s)

\* A halt never finds the return state of its parent missing: the parent is
\* a PCB in which some execute has stored a stack pointer.
HaltHasReturn ==
  cpu.mode \in {"restore", "return"} => Parent # NULL /\ pcb[Parent].esp # NULL

\* While a terminal waits for its shell a slot is free, so contextSwitch
\* never meets a full process table, however often shells fault and restart.
TickFindsSlot == Pending # {} => Free # {}

\* Every terminal is eventually off the list of terminals to start, so the
\* timer handler stops taking over the processor.
BootEnds == <>[](Pending = {})

-----------------------------------------------------------------------------
(* Claims of the source's comments.                                        *)

\* "restore parent's paging": the program that halt resumes runs in the
\* page of the program that called execute.
HaltRestoresParent ==
  cpu.mode = "return" /\ process_arr[cpu.stk] = 0 => page = born[cpu.stk].by
=============================================================================
