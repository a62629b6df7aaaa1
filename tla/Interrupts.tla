----------------------------- MODULE Interrupts -----------------------------
(***************************************************************************)
(* How the kernel sets up and serves its three interrupts: the pair of     *)
(* 8259 controllers (i8259.c), the vectors (idt.c, linkage.S), the order   *)
(* of entry (kernel.c) and the handlers' protocol with the devices         *)
(* (scheduling.c, keyboard.c, rtc.c).  What the handlers do to terminals,  *)
(* processes and the clock is in the modules of those.                     *)
(*                                                                         *)
(* The timer is line 0, the keyboard line 1, the slave controller is wired *)
(* to line 2, the clock is line 8 (line 0 of the slave).                   *)
(***************************************************************************)
EXTENDS Integers, Sequences

PIT_IRQ == 0
KEYBOARD_IRQ == 1
Cascade == 2
RTC_IRQ == 8

Devices == {PIT_IRQ, KEYBOARD_IRQ, RTC_IRQ}
Lines == Devices \cup {Cascade}
Vector(l) == 32 + l

VARIABLES
  imr,      \* masked lines
  irr,      \* latched requests
  isr,      \* lines in service
  idt,      \* vectors present in the IDT
  obf,      \* a key code waits in the keyboard controller
  pf,       \* the clock's periodic flag is up and holds its line up
  pie,      \* the clock's periodic interrupt is enabled
  ifl,      \* EFLAGS.IF
  mode,     \* what runs outside handlers: a step of entry, "user" or "sys"
  uif,      \* IF of the user code that a system call returns to
  handlers, \* the handlers entered and not left, the running one first
  todo,     \* terminals whose shell is not started, as contextSwitch sees it
  served,   \* lines served while other requests waited, see Again
  early     \* history: a key code came before i8259_init

iVars == <<imr, irr, isr, idt, obf, pf, pie, ifl, mode, uif, handlers, todo,
           served, early>>

pic == <<imr, irr, isr>>
dev == <<obf, pf, pie, early>>

BootSteps == {"i8259_init", "idt_init", "keyboard_init", "rtc_init",
              "rtc_periodic", "init_pit", "sti", "hlt"}

\* The boot loader has left the lines unmasked and interrupts off.
IInit ==
  /\ imr = {} /\ irr = {} /\ isr = {}
  /\ idt = {}
  /\ obf = FALSE /\ pf = FALSE /\ pie = FALSE
  /\ ifl = FALSE /\ mode = "i8259_init" /\ uif = FALSE
  /\ handlers = << >>
  /\ todo = 3
  /\ served = {}
  /\ early = FALSE

-----------------------------------------------------------------------------
(* entry.  Code outside the handlers runs when no handler does, and the    *)
(* processor takes a request that passes before its next instruction.      *)

\* A request passes if no line of its or a higher priority is in service.
Passes(l) ==
  /\ l \in irr \ imr
  /\ CASE l = PIT_IRQ      -> PIT_IRQ \notin isr
       [] l = KEYBOARD_IRQ -> isr \cap {PIT_IRQ, KEYBOARD_IRQ} = {}
       [] l = RTC_IRQ      -> Cascade \notin imr /\ isr = {}

Runs == handlers = << >> /\ ~(ifl /\ \E l \in Devices : Passes(l))

\* Mutant of InitPic: the interrupt masks are left as they were.
InitPicNoMask ==
  /\ mode = "i8259_init"
  /\ irr' = {} /\ isr' = {}
  /\ ifl' = TRUE
  /\ mode' = "idt_init"
  /\ UNCHANGED <<imr, idt, dev, uif, handlers, todo, served>>

\* The first command word resets requests and the edge detectors; a line
\* that is up has to go down and up again to be seen.
InitPic ==
  /\ mode = "i8259_init"
  /\ imr' = Lines \ {Cascade}
  /\ irr' = {} /\ isr' = {}
  /\ ifl' = TRUE
  /\ mode' = "idt_init"
  /\ UNCHANGED <<idt, dev, uif, handlers, todo, served>>

InitIdt ==
  /\ mode = "idt_init" /\ Runs
  /\ idt' = (0 .. 14) \cup (16 .. 19) \cup {32, 33, 40, 128}
  /\ mode' = "keyboard_init"
  /\ UNCHANGED <<pic, dev, ifl, uif, handlers, todo, served>>

Enable(l) == imr' = imr \ {l}

InitKeyboard ==
  /\ mode = "keyboard_init" /\ Runs
  /\ Enable(KEYBOARD_IRQ)
  /\ mode' = "rtc_init"
  /\ UNCHANGED <<irr, isr, idt, dev, ifl, uif, handlers, todo, served>>

InitRtc ==
  /\ mode = "rtc_init" /\ Runs
  /\ Enable(RTC_IRQ)
  /\ mode' = "rtc_periodic"
  /\ UNCHANGED <<irr, isr, idt, dev, ifl, uif, handlers, todo, served>>

\* rtc_init ends by setting bit 6 of the clock's register B.
InitRtcPeriodic ==
  /\ mode = "rtc_periodic" /\ Runs
  /\ pie' = TRUE
  /\ mode' = "init_pit"
  /\ UNCHANGED <<pic, idt, obf, pf, early, ifl, uif, handlers, todo, served>>

InitPit ==
  /\ mode = "init_pit" /\ Runs
  /\ Enable(PIT_IRQ)
  /\ mode' = "sti"
  /\ UNCHANGED <<irr, isr, idt, dev, ifl, uif, handlers, todo, served>>

Sti ==
  /\ mode = "sti" /\ Runs
  /\ ifl' = TRUE
  /\ mode' = "hlt"
  /\ UNCHANGED <<pic, idt, dev, uif, handlers, todo, served>>

Boot == \/ InitPic \/ InitIdt \/ InitKeyboard \/ InitRtc \/ InitRtcPeriodic
        \/ InitPit \/ Sti

-----------------------------------------------------------------------------
(* Programs: the shell a tick starts runs with interrupts off, a program   *)
(* that a system call executes runs with interrupts on.                    *)

Syscall ==
  /\ mode = "user" /\ Runs
  /\ mode' = "sys" /\ uif' = ifl /\ ifl' = TRUE
  /\ UNCHANGED <<pic, idt, dev, handlers, todo, served>>

\* A call returns to its caller, or halt returns to the caller's caller.
SysReturn ==
  /\ mode = "sys" /\ Runs
  /\ mode' = "user" /\ ifl' \in {uif, FALSE}
  /\ served' = IF ifl' THEN served ELSE {}
  /\ UNCHANGED <<pic, idt, dev, uif, handlers, todo>>

\* execute writes schedule_arr too.
Execute ==
  /\ mode = "sys" /\ Runs
  /\ mode' = "user" /\ todo' \in 0 .. todo
  /\ UNCHANGED <<pic, idt, dev, ifl, uif, handlers, served>>

-----------------------------------------------------------------------------
(* Devices and controllers.                                                *)

Serving(l) == \E k \in DOMAIN handlers : handlers[k].irq = l

\* Devices are slow (50 ms, a key stroke, 1 ms): a line that was served comes
\* again when the requests that waited meanwhile are served, or after user
\* code has run with interrupts off.
Again(l) == l \notin served

PitPulse ==
  /\ Again(PIT_IRQ) /\ ~Serving(PIT_IRQ)
  /\ irr' = irr \cup {PIT_IRQ}
  /\ UNCHANGED <<imr, isr, idt, dev, ifl, mode, uif, handlers, todo, served>>

\* The controller hands over one code at a time.
KeyCode ==
  /\ Again(KEYBOARD_IRQ) /\ ~obf /\ obf' = TRUE
  /\ irr' = irr \cup {KEYBOARD_IRQ}
  /\ early' = (early \/ mode = "i8259_init")
  /\ UNCHANGED <<imr, isr, idt, pf, pie, ifl, mode, uif, handlers, todo,
                 served>>

RtcPeriod ==
  /\ Again(RTC_IRQ) /\ pie /\ ~pf /\ pf' = TRUE
  /\ irr' = irr \cup {RTC_IRQ}
  /\ UNCHANGED <<imr, isr, idt, obf, pie, early, ifl, mode, uif, handlers,
                 todo, served>>

Best(l) == Passes(l) /\ \A h \in Devices : Passes(h) => l <= h

FirstStep == [l \in Devices |-> IF l = PIT_IRQ THEN "eoi" ELSE "device"]

\* The vectors are interrupt gates: they clear IF.
Accept(l) ==
  /\ ifl /\ Best(l)
  /\ irr' = irr \ {l}
  /\ isr' = isr \cup (IF l = RTC_IRQ THEN {RTC_IRQ, Cascade} ELSE {l})
  /\ ifl' = FALSE
  /\ handlers' = << [irq |-> l, pc |-> FirstStep[l]] >> \o handlers
  /\ served' = IF irr' \ imr = {} THEN {} ELSE served \cup {l}
  /\ UNCHANGED <<imr, idt, dev, mode, uif, todo>>

-----------------------------------------------------------------------------
(* The handlers.                                                           *)

In(l, pc) == handlers # << >> /\ handlers[1] = [irq |-> l, pc |-> pc]
Goto(pc) == handlers' = [handlers EXCEPT ![1].pc = pc]

\* pit_handler sends its EOI first: a tick that starts a shell never returns.
PitEoi ==
  /\ In(PIT_IRQ, "eoi")
  /\ isr' = isr \ {PIT_IRQ}
  /\ Goto("switch")
  /\ UNCHANGED <<imr, irr, idt, dev, ifl, mode, uif, todo, served>>

StartShell ==
  /\ In(PIT_IRQ, "switch") /\ todo > 0
  /\ todo' \in 0 .. todo - 1
  /\ handlers' = << >>
  /\ mode' = "user" /\ ifl' = FALSE /\ uif' = FALSE
  /\ served' = {}
  /\ UNCHANGED <<pic, idt, dev>>

PitDone ==
  /\ In(PIT_IRQ, "switch") /\ todo = 0
  /\ ifl' = TRUE
  /\ Goto("iret")
  /\ UNCHANGED <<pic, idt, dev, mode, uif, todo, served>>

\* Reading the key code frees the controller for the next one.
KeyRead ==
  /\ In(KEYBOARD_IRQ, "device")
  /\ obf' = FALSE
  /\ Goto("eoi")
  /\ UNCHANGED <<pic, idt, pf, pie, early, ifl, mode, uif, todo, served>>

\* Mutant of KeyEoi: one of the three exits of show_pressed_key sends none.
KeyEoiForgotten ==
  /\ In(KEYBOARD_IRQ, "eoi")
  /\ isr' \in {isr, isr \ {KEYBOARD_IRQ}}
  /\ Goto("iret")
  /\ UNCHANGED <<imr, irr, idt, dev, ifl, mode, uif, todo, served>>

KeyEoi ==
  /\ In(KEYBOARD_IRQ, "eoi")
  /\ isr' = isr \ {KEYBOARD_IRQ}
  /\ Goto("iret")
  /\ UNCHANGED <<imr, irr, idt, dev, ifl, mode, uif, todo, served>>

\* Mutant of RtcRead: register C is not read.
RtcReadForgotten ==
  /\ In(RTC_IRQ, "device")
  /\ Goto("eoi")
  /\ UNCHANGED <<pic, idt, dev, ifl, mode, uif, todo, served>>

\* Reading register C takes the flag, and with it the line, down.
RtcRead ==
  /\ In(RTC_IRQ, "device")
  /\ pf' = FALSE
  /\ Goto("eoi")
  /\ UNCHANGED <<pic, idt, obf, pie, early, ifl, mode, uif, todo, served>>

\* Mutant of RtcEoi: the master is not told.
RtcEoiSlaveOnly ==
  /\ In(RTC_IRQ, "eoi")
  /\ isr' = isr \ {RTC_IRQ}
  /\ Goto("iret")
  /\ UNCHANGED <<imr, irr, idt, dev, ifl, mode, uif, todo, served>>

\* send_eoi tells the slave, then the master, with interrupts off.
RtcEoi ==
  /\ In(RTC_IRQ, "eoi")
  /\ isr' = isr \ {RTC_IRQ, Cascade}
  /\ Goto("iret")
  /\ UNCHANGED <<imr, irr, idt, dev, ifl, mode, uif, todo, served>>

\* The interrupted code had interrupts on.
Iret ==
  /\ \E l \in Devices : In(l, "iret")
  /\ handlers' = Tail(handlers)
  /\ ifl' = TRUE
  /\ UNCHANGED <<pic, idt, dev, mode, uif, todo, served>>

HandlerStep == \/ PitEoi \/ StartShell \/ PitDone \/ KeyRead \/ KeyEoi
               \/ RtcRead \/ RtcEoi \/ Iret

-----------------------------------------------------------------------------
INext ==
  \/ Boot
  \/ Syscall \/ SysReturn \/ Execute
  \/ PitPulse \/ KeyCode \/ RtcPeriod
  \/ \E l \in Devices : Accept(l)
  \/ HandlerStep

ISpec == IInit /\ [][INext]_iVars

\* The kernel runs on; programs make system calls; the processor accepts a
\* request that the controllers hold up to it again and again.
ILiveSpec ==
  /\ ISpec
  /\ WF_iVars(Boot) /\ WF_iVars(HandlerStep)
  /\ SF_iVars(Syscall)
  /\ \A l \in Devices : SF_iVars(Accept(l))

-----------------------------------------------------------------------------
ITypeOK ==
  /\ imr \subseteq Lines /\ irr \subseteq Devices /\ isr \subseteq Lines
  /\ idt \subseteq 0 .. 255
  /\ obf \in BOOLEAN /\ pf \in BOOLEAN /\ pie \in BOOLEAN /\ early \in BOOLEAN
  /\ ifl \in BOOLEAN /\ uif \in BOOLEAN
  /\ mode \in BootSteps \cup {"user", "sys"}
  /\ todo \in 0 .. 3 /\ served \subseteq Devices
  /\ Len(handlers) <= 2
  /\ \A k \in DOMAIN handlers :
       handlers[k] \in [irq : Devices, pc : {"eoi", "device", "switch", "iret"}]

(***************************************************************************)
(* Code outside the handlers runs with no line in service, whichever way a *)
(* handler was left - a tick that starts a shell leaves it for good - and  *)
(* whatever was nested in it.  A line left in service would shut itself    *)
(* and every lower one out for ever.                                       *)
(***************************************************************************)
NoneLeftInService == handlers = << >> => isr = {}

\* A device that holds its line up is latched in the controller or has a
\* handler that is about to serve it; nothing else would ever raise its
\* edge-triggered line again.
NoLostEdge ==
  /\ obf /\ ~early => KEYBOARD_IRQ \in irr \/ In(KEYBOARD_IRQ, "device")
  /\ pf => RTC_IRQ \in irr \/ In(RTC_IRQ, "device")

\* No interrupt reaches the processor before its vector is in the IDT,
\* although i8259_init turns interrupts on before idt_init runs.
VectorPresent == \A l \in Devices : ifl /\ Passes(l) => Vector(l) \in idt

\* Every key code is read, every period of the clock is counted.
KeysServed == obf /\ ~early ~> ~obf
ClockServed == pf ~> ~pf

=============================================================================
