---------------------------- MODULE DevicesProofs ----------------------------
(***************************************************************************)
(* Proofs about the interrupt controllers (module Interrupts), the virtual *)
(* clock (module Rtc) and the screen (module Screen).  IntInv and RtcInv   *)
(* are the inductive invariants of the first two; of the screen it is      *)
(* shown, for any number of terminals and any size, that its types are     *)
(* right, that cursors stay on it and that only the terminals written to   *)
(* change.                                                                 *)
(***************************************************************************)
EXTENDS Interrupts, Rtc, Screen, TLAPS

-----------------------------------------------------------------------------
(* The interrupt controllers: the type invariant and the three safety      *)
(* invariants that the run interrupts checks.                              *)

\* What a handler that was entered and not left can be.
Frames == {[irq |-> PIT_IRQ, pc |-> p] : p \in {"eoi", "switch", "iret"}}
     \cup {[irq |-> l, pc |-> p] : l \in {KEYBOARD_IRQ, RTC_IRQ}, p \in {"device", "eoi", "iret"}}

\* The timer's handler once the scheduler has turned interrupts on.
PitLeaving == [irq |-> PIT_IRQ, pc |-> "iret"]

NoPit == handlers = << >> \/ \E h \in Frames : handlers = <<h>> /\ h.irq # PIT_IRQ

\* Only that one is ever interrupted, and never by the timer.
NestInv ==
  /\ \/ handlers = << >>
     \/ \E h \in Frames : handlers = <<h>>
     \/ \E h \in Frames : handlers = <<h, PitLeaving>> /\ h.irq # PIT_IRQ
  /\ ifl => handlers = << >> \/ handlers = <<PitLeaving>>
  /\ PIT_IRQ \in irr => NoPit

\* The lines that a handler has in service at its step.
InService(h) ==
  CASE h.irq = PIT_IRQ /\ h.pc = "eoi"                  -> {PIT_IRQ}
    [] h.irq = KEYBOARD_IRQ /\ h.pc \in {"device", "eoi"} -> {KEYBOARD_IRQ}
    [] h.irq = RTC_IRQ /\ h.pc \in {"device", "eoi"}      -> {RTC_IRQ, Cascade}
    [] OTHER                                            -> {}

ServiceInv ==
  /\ handlers = << >> => isr = {}
  /\ handlers # << >> => isr = InService(handlers[1])

\* What entry has done when.
BootInv ==
  /\ mode = "i8259_init" => ~ifl /\ ~pf /\ ~pie /\ (obf => early)
  /\ mode = "idt_init" => Devices \subseteq imr
  /\ mode \in {"i8259_init", "idt_init"} => handlers = << >>
  /\ mode \notin {"i8259_init", "idt_init"} => {32, 33, 40} \subseteq idt

BasicTypes ==
  /\ imr \subseteq Lines /\ irr \subseteq Devices /\ isr \subseteq Lines
  /\ idt \subseteq 0 .. 255
  /\ obf \in BOOLEAN /\ pf \in BOOLEAN /\ pie \in BOOLEAN /\ early \in BOOLEAN
  /\ ifl \in BOOLEAN /\ uif \in BOOLEAN
  /\ mode \in BootSteps \cup {"user", "sys"}
  /\ todo \in 0 .. 3 /\ served \subseteq Devices

IntInv == BasicTypes /\ NestInv /\ ServiceInv /\ BootInv /\ NoLostEdge

-----------------------------------------------------------------------------
(* Sequences of one and two handlers.                                      *)

LEMMA Push ==
  ASSUME NEW f, NEW g
  PROVE  <<f>> \o << >> = <<f>> /\ <<f>> \o <<g>> = <<f, g>>
<1> DEFINE S == {f, g}
           s == <<f>> \o <<g>>
<1>1. <<f>> \in Seq(S) /\ <<g>> \in Seq(S) /\ Len(<<f>>) = 1 /\ Len(<<g>>) = 1
  OBVIOUS
<1>2. s \in Seq(S) /\ Len(s) = 2
  BY <1>1
<1>3. s[1] = f
  BY <1>1
<1>4. s[2] = g
  BY <1>1
<1> HIDE DEF s
<1>5. s = <<f, g>>
  BY <1>2, <1>3, <1>4
<1>6. <<f>> \o << >> = <<f>>
  OBVIOUS
<1>7. QED
  BY <1>5, <1>6 DEF s

LEMMA Pop ==
  ASSUME NEW f, NEW g
  PROVE  Tail(<<f>>) = << >> /\ Tail(<<f, g>>) = <<g>>
OBVIOUS

LEMMA Step ==
  ASSUME NEW f, NEW g, NEW p
  PROVE  /\ [<<f>> EXCEPT ![1].pc = p] = <<[f EXCEPT !.pc = p]>>
         /\ [<<f, g>> EXCEPT ![1].pc = p] = <<[f EXCEPT !.pc = p], g>>
OBVIOUS

LEMMA Heads ==
  ASSUME NEW f, NEW g
  PROVE  /\ <<f>> # << >> /\ <<f, g>> # << >> /\ <<f>>[1] = f /\ <<f, g>>[1] = f /\ <<f, g>>[2] = g
         /\ DOMAIN << >> = {} /\ DOMAIN <<f>> = {1} /\ DOMAIN <<f, g>> = {1, 2}
         /\ Len(<< >>) = 0 /\ Len(<<f>>) = 1 /\ Len(<<f, g>>) = 2
OBVIOUS

LEMMA Distinct ==
  ASSUME NEW f, NEW g, NEW h
  PROVE  <<f>> # <<g, h>> /\ (<<f>> = <<g>> => f = g)
BY Heads

LEMMA NotServing ==
  ASSUME NestInv, ~Serving(PIT_IRQ)
  PROVE  NoPit
<1>1. ASSUME NEW h \in Frames, handlers = <<h>>
      PROVE  h.irq # PIT_IRQ
  BY <1>1, Heads DEF Serving
<1>2. ASSUME NEW h \in Frames, handlers = <<h, PitLeaving>>
      PROVE  FALSE
  BY <1>2, Heads DEF Serving, PitLeaving
<1>3. QED
  BY <1>1, <1>2 DEF NestInv, NoPit

LEMMA FrameFacts ==
  ASSUME NEW h \in Frames
  PROVE  /\ h = [irq |-> h.irq, pc |-> h.pc]
         /\ h.irq \in Devices /\ h.pc \in {"eoi", "device", "switch", "iret"}
         /\ h.irq = PIT_IRQ => h.pc # "device"
BY DEF Frames, Devices, PIT_IRQ, KEYBOARD_IRQ, RTC_IRQ

LEMMA PitLeavingFacts ==
  PitLeaving \in Frames /\ InService(PitLeaving) = {}
BY DEF PitLeaving, Frames, InService, PIT_IRQ, KEYBOARD_IRQ, RTC_IRQ

\* The handler that runs is the first of one or two.
LEMMA Running ==
  ASSUME NestInv, NEW l, NEW p, In(l, p)
  PROVE  \E h \in Frames : /\ h = [irq |-> l, pc |-> p]
                           /\ \/ handlers = <<h>>
                              \/ handlers = <<h, PitLeaving>> /\ h.irq # PIT_IRQ
                           /\ handlers[1] = h /\ handlers # << >>
BY Heads DEF NestInv, In

-----------------------------------------------------------------------------
LEMMA InitIntInv == IInit => IntInv
<1> SUFFICES ASSUME IInit PROVE IntInv
  OBVIOUS
<1>1. BasicTypes
  <2>1. obf \in BOOLEAN /\ pf \in BOOLEAN /\ pie \in BOOLEAN /\ early \in BOOLEAN
        /\ ifl \in BOOLEAN /\ uif \in BOOLEAN
    BY Zenon DEF IInit
  <2>2. QED
    BY <2>1 DEF IInit, BasicTypes, BootSteps
<1>2. QED
  BY <1>1 DEF IInit, IntInv, NestInv, ServiceInv, BootInv, NoLostEdge

\* Steps outside handlers touch neither handlers nor lines in service.
LEMMA OutsideKeepsInv ==
  ASSUME IntInv, handlers = << >>, UNCHANGED <<handlers, isr>>, BasicTypes', BootInv',
         irr' \subseteq irr \cup Devices, NoLostEdge'
  PROVE  IntInv'
<1>1. NestInv'
  BY DEF NestInv, NoPit
<1>2. ServiceInv'
  BY DEF IntInv, ServiceInv
<1>3. QED
  BY <1>1, <1>2 DEF IntInv

LEMMA BootKeepsInv ==
  ASSUME IntInv, Boot
  PROVE  IntInv'
<1>1. BasicTypes /\ BootInv /\ NoLostEdge
  BY DEF IntInv
<1>2. CASE InitPic
  <2>1. handlers = << >> /\ isr = {}
    BY <1>1, <1>2 DEF InitPic, BootInv, IntInv, ServiceInv
  <2>2. BasicTypes'
    <3>1. /\ ifl' \in BOOLEAN /\ imr' \subseteq Lines /\ irr' = {} /\ isr' = {}
          /\ mode' = "idt_init" /\ idt' = idt /\ obf' = obf /\ pf' = pf /\ pie' = pie
          /\ early' = early /\ uif' = uif /\ todo' = todo /\ served' = served
      BY <1>2 DEF InitPic, dev
    <3>2. QED
      BY <1>1, <3>1 DEF BasicTypes, BootSteps
  <2>3. BootInv'
    BY <1>1, <1>2, <2>1 DEF InitPic, BootInv, Lines, Devices, Cascade, PIT_IRQ, KEYBOARD_IRQ, RTC_IRQ
  <2>4. NoLostEdge'
    BY <1>1, <1>2 DEF InitPic, BootInv, NoLostEdge, dev
  <2>5. QED
    BY <1>2, <2>1, <2>2, <2>3, <2>4, OutsideKeepsInv DEF InitPic
<1>3. CASE InitIdt
  <2>1. BasicTypes'
    BY <1>1, <1>3 DEF InitIdt, BasicTypes, BootSteps, pic, dev
  <2>2. BootInv'
    BY <1>1, <1>3 DEF InitIdt, BootInv
  <2>3. NoLostEdge'
    BY <1>1, <1>3 DEF InitIdt, NoLostEdge, In, pic, dev
  <2>4. QED
    BY <1>3, <2>1, <2>2, <2>3, OutsideKeepsInv DEF InitIdt, Runs, pic
<1>4. CASE InitKeyboard
  <2>1. BasicTypes'
    BY <1>1, <1>4 DEF InitKeyboard, Enable, BasicTypes, BootSteps, dev
  <2>2. BootInv'
    BY <1>1, <1>4 DEF InitKeyboard, BootInv
  <2>3. NoLostEdge'
    BY <1>1, <1>4 DEF InitKeyboard, NoLostEdge, In, dev
  <2>4. QED
    BY <1>4, <2>1, <2>2, <2>3, OutsideKeepsInv DEF InitKeyboard, Runs
<1>5. CASE InitRtc
  <2>1. BasicTypes'
    BY <1>1, <1>5 DEF InitRtc, Enable, BasicTypes, BootSteps, dev
  <2>2. BootInv'
    BY <1>1, <1>5 DEF InitRtc, BootInv
  <2>3. NoLostEdge'
    BY <1>1, <1>5 DEF InitRtc, NoLostEdge, In, dev
  <2>4. QED
    BY <1>5, <2>1, <2>2, <2>3, OutsideKeepsInv DEF InitRtc, Runs
<1>6. CASE InitRtcPeriodic
  <2>1. BasicTypes'
    <3>1. pie' \in BOOLEAN
      BY <1>6 DEF InitRtcPeriodic
    <3>2. QED
      BY <1>1, <1>6, <3>1 DEF InitRtcPeriodic, BasicTypes, BootSteps, pic
  <2>2. BootInv'
    BY <1>1, <1>6 DEF InitRtcPeriodic, BootInv
  <2>3. NoLostEdge'
    BY <1>1, <1>6 DEF InitRtcPeriodic, NoLostEdge, In, pic
  <2>4. QED
    BY <1>6, <2>1, <2>2, <2>3, OutsideKeepsInv DEF InitRtcPeriodic, Runs, pic
<1>7. CASE InitPit
  <2>1. BasicTypes'
    BY <1>1, <1>7 DEF InitPit, Enable, BasicTypes, BootSteps, dev
  <2>2. BootInv'
    BY <1>1, <1>7 DEF InitPit, BootInv
  <2>3. NoLostEdge'
    BY <1>1, <1>7 DEF InitPit, NoLostEdge, In, dev
  <2>4. QED
    BY <1>7, <2>1, <2>2, <2>3, OutsideKeepsInv DEF InitPit, Runs
<1>8. CASE Sti
  <2>1. BasicTypes'
    <3>1. ifl' \in BOOLEAN
      BY <1>8 DEF Sti
    <3>2. QED
      BY <1>1, <1>8, <3>1 DEF Sti, BasicTypes, BootSteps, pic, dev
  <2>2. BootInv'
    BY <1>1, <1>8 DEF Sti, BootInv
  <2>3. NoLostEdge'
    BY <1>1, <1>8 DEF Sti, NoLostEdge, In, pic, dev
  <2>4. QED
    BY <1>8, <2>1, <2>2, <2>3, OutsideKeepsInv DEF Sti, Runs, pic
<1>9. QED
  BY <1>2, <1>3, <1>4, <1>5, <1>6, <1>7, <1>8 DEF Boot

LEMMA ProgramsKeepInv ==
  ASSUME IntInv, Syscall \/ SysReturn \/ Execute
  PROVE  IntInv'
<1>1. BasicTypes /\ BootInv /\ NoLostEdge
  BY DEF IntInv
<1>2. ifl' \in BOOLEAN /\ uif' \in BOOLEAN
  <2>1. CASE Syscall
    BY <1>1, <2>1 DEF Syscall, BasicTypes
  <2>2. CASE SysReturn
    <3>1. ifl' = uif \/ ifl' = FALSE
      BY <2>2 DEF SysReturn
    <3>2. QED
      BY <1>1, <2>2, <3>1 DEF SysReturn, BasicTypes
  <2>3. CASE Execute
    BY <1>1, <2>3 DEF Execute, BasicTypes
  <2>4. QED
    BY <2>1, <2>2, <2>3
<1>3. todo' \in 0 .. 3 /\ served' \subseteq Devices
  <2>1. todo \in 0 .. 3 /\ served \subseteq Devices
    BY <1>1 DEF BasicTypes
  <2>2. CASE Syscall
    BY <2>1, <2>2 DEF Syscall
  <2>3. CASE SysReturn
    BY <2>1, <2>3 DEF SysReturn
  <2>4. CASE Execute
    BY <2>1, <2>4 DEF Execute
  <2>5. QED
    BY <2>2, <2>3, <2>4
<1>4. /\ handlers = << >> /\ UNCHANGED <<handlers, isr, irr, imr, idt, obf, pf, pie, early>>
      /\ mode \in {"user", "sys"} /\ mode' \in {"user", "sys"}
  BY DEF Syscall, SysReturn, Execute, Runs, pic, dev
<1>5. BasicTypes'
  BY <1>1, <1>2, <1>3, <1>4 DEF BasicTypes
<1>6. BootInv'
  BY <1>1, <1>4 DEF BootInv
<1>7. NoLostEdge'
  BY <1>1, <1>4 DEF NoLostEdge, In
<1>8. QED
  BY <1>4, <1>5, <1>6, <1>7, OutsideKeepsInv

-----------------------------------------------------------------------------
LEMMA DevicesKeepInv ==
  ASSUME IntInv, PitPulse \/ KeyCode \/ RtcPeriod
  PROVE  IntInv'
<1>1. BasicTypes /\ NestInv /\ ServiceInv /\ BootInv /\ NoLostEdge
  BY DEF IntInv
<1>2. UNCHANGED <<handlers, isr, imr, idt, ifl, mode, uif, todo, served, pie>>
  <2>1. CASE PitPulse
    BY <2>1 DEF PitPulse, dev
  <2>2. CASE KeyCode
    BY <2>2 DEF KeyCode
  <2>3. CASE RtcPeriod
    BY <2>3 DEF RtcPeriod
  <2>4. QED
    BY <2>1, <2>2, <2>3
<1>3. /\ irr \subseteq irr' /\ irr' \subseteq Devices
      /\ PIT_IRQ \in irr' => PIT_IRQ \in irr \/ ~Serving(PIT_IRQ)
  <2>1. irr \subseteq Devices
    BY <1>1 DEF BasicTypes
  <2>2. CASE PitPulse
    BY <2>1, <2>2 DEF PitPulse, Devices
  <2>3. CASE KeyCode
    BY <2>1, <2>3 DEF KeyCode, Devices, PIT_IRQ, KEYBOARD_IRQ
  <2>4. CASE RtcPeriod
    BY <2>1, <2>4 DEF RtcPeriod, Devices, PIT_IRQ, RTC_IRQ
  <2>5. QED
    BY <2>2, <2>3, <2>4
<1>4. obf' \in BOOLEAN /\ pf' \in BOOLEAN /\ early' \in BOOLEAN
  <2>1. obf \in BOOLEAN /\ pf \in BOOLEAN /\ early \in BOOLEAN
    BY <1>1 DEF BasicTypes
  <2>2. CASE PitPulse
    BY <2>1, <2>2 DEF PitPulse, dev
  <2>3. CASE KeyCode
    <3>1. obf' = TRUE /\ pf' = pf
      BY <2>3 DEF KeyCode
    <3>2. early' = (early \/ mode = "i8259_init")
      BY <2>3 DEF KeyCode
    <3>3. early' \in BOOLEAN
      BY <3>2
    <3>4. QED
      BY <2>1, <3>1, <3>3
  <2>4. CASE RtcPeriod
    <3>1. pf' = TRUE /\ obf' = obf /\ early' = early
      BY <2>4 DEF RtcPeriod
    <3>2. QED
      BY <2>1, <3>1
  <2>5. QED
    BY <2>2, <2>3, <2>4
<1>5. BasicTypes'
  BY <1>1, <1>2, <1>3, <1>4 DEF BasicTypes
<1>6. NestInv'
  BY <1>1, <1>2, <1>3, NotServing DEF NestInv, NoPit
<1>7. ServiceInv'
  BY <1>1, <1>2 DEF ServiceInv
<1>8. BootInv'
  <2>1. CASE PitPulse
    BY <1>1, <2>1 DEF PitPulse, BootInv, dev
  <2>2. CASE KeyCode
    BY <1>1, <2>2 DEF KeyCode, BootInv
  <2>3. CASE RtcPeriod
    BY <1>1, <2>3 DEF RtcPeriod, BootInv
  <2>4. QED
    BY <2>1, <2>2, <2>3
<1>9. NoLostEdge'
  <2>1. CASE PitPulse
    BY <1>1, <2>1 DEF PitPulse, NoLostEdge, In, dev
  <2>2. CASE KeyCode
    BY <1>1, <2>2 DEF KeyCode, NoLostEdge, In
  <2>3. CASE RtcPeriod
    BY <1>1, <2>3 DEF RtcPeriod, NoLostEdge, In
  <2>4. QED
    BY <2>1, <2>2, <2>3
<1>10. QED
  BY <1>5, <1>6, <1>7, <1>8, <1>9 DEF IntInv

\* A line is accepted by code outside handlers, or by the timer's handler on
\* its way out, and then it is not the timer's again.
LEMMA AcceptKeepsInv ==
  ASSUME IntInv, NEW l \in Devices, Accept(l)
  PROVE  IntInv'
<1> DEFINE new == [irq |-> l, pc |-> FirstStep[l]]
<1>1. BasicTypes /\ NestInv /\ ServiceInv /\ BootInv /\ NoLostEdge
  BY DEF IntInv
<1>2. /\ ifl /\ l \in irr /\ l \notin imr /\ irr' = irr \ {l}
      /\ isr' = isr \cup (IF l = RTC_IRQ THEN {RTC_IRQ, Cascade} ELSE {l})
      /\ ifl' = FALSE /\ handlers' = <<new>> \o handlers
      /\ served' = IF irr' \ imr = {} THEN {} ELSE served \cup {l}
      /\ UNCHANGED <<imr, idt, obf, pf, pie, early, mode, uif, todo>>
  BY DEF Accept, Best, Passes, dev
<1>3. new \in Frames /\ new.irq = l
  BY DEF FirstStep, Frames, Devices, PIT_IRQ, KEYBOARD_IRQ, RTC_IRQ
<1>4. InService(new) = IF l = RTC_IRQ THEN {RTC_IRQ, Cascade} ELSE {l}
  BY DEF InService, FirstStep, Devices, PIT_IRQ, KEYBOARD_IRQ, RTC_IRQ
<1>5. handlers = << >> \/ (handlers = <<PitLeaving>> /\ l # PIT_IRQ)
  <2>1. handlers = << >> \/ handlers = <<PitLeaving>>
    BY <1>1, <1>2 DEF NestInv
  <2>2. handlers = <<PitLeaving>> => ~NoPit
    BY Heads, Distinct DEF NoPit, PitLeaving
  <2>3. QED
    BY <1>1, <1>2, <2>1, <2>2 DEF NestInv
<1>6. isr = {}
  BY <1>1, <1>5, PitLeavingFacts, Heads DEF ServiceInv
<1> HIDE DEF new
<1>7. handlers' = <<new>> \/ (handlers' = <<new, PitLeaving>> /\ l # PIT_IRQ)
  BY <1>2, <1>5, Push
<1>8. handlers'[1] = new /\ handlers' # << >>
  BY <1>7, Heads
<1>9. BasicTypes'
  <2>1. ifl' \in BOOLEAN
    BY <1>2
  <2>2. isr' \subseteq Lines
    BY <1>2, <1>6 DEF Lines, Devices, RTC_IRQ
  <2>3. QED
    BY <1>1, <1>2, <2>1, <2>2 DEF BasicTypes
<1>10. NestInv'
  <2>1. PIT_IRQ \in irr' => NoPit'
    <3>1. PIT_IRQ \in irr' => handlers = << >> /\ l # PIT_IRQ
      <4>1. handlers = <<PitLeaving>> => ~NoPit
        BY Heads, Distinct DEF NoPit, PitLeaving
      <4>2. QED
        BY <1>1, <1>2, <1>5, <4>1 DEF NestInv
    <3>2. handlers = << >> => handlers' = <<new>>
      BY <1>2, Push
    <3>3. QED
      BY <1>3, <3>1, <3>2 DEF NoPit
  <2>2. QED
    BY <1>2, <1>3, <1>7, <2>1 DEF NestInv
<1>11. ServiceInv'
  BY <1>2, <1>4, <1>6, <1>8 DEF ServiceInv
<1>12. BootInv'
  BY <1>1, <1>2 DEF BootInv
<1>13. NoLostEdge'
  <2>1. ~In(KEYBOARD_IRQ, "device") /\ ~In(RTC_IRQ, "device")
    BY <1>5, Heads DEF In, PitLeaving
  <2>2. l = KEYBOARD_IRQ => In(KEYBOARD_IRQ, "device")'
    BY <1>8 DEF In, new, FirstStep, Devices, PIT_IRQ, KEYBOARD_IRQ
  <2>3. l = RTC_IRQ => In(RTC_IRQ, "device")'
    BY <1>8 DEF In, new, FirstStep, Devices, PIT_IRQ, RTC_IRQ
  <2>4. QED
    BY <1>1, <1>2, <2>1, <2>2, <2>3 DEF NoLostEdge
<1>14. QED
  BY <1>9, <1>10, <1>11, <1>12, <1>13 DEF IntInv

-----------------------------------------------------------------------------
\* A handler goes on to its next step and leaves its line's request alone.
LEMMA HandlerGoesOn ==
  ASSUME IntInv, NEW l, NEW p, NEW q, In(l, p), p # "iret", [irq |-> l, pc |-> q] \in Frames,
         isr' = InService([irq |-> l, pc |-> q]), Goto(q),
         UNCHANGED <<imr, irr, idt, pie, early, mode, uif, todo, served>>,
         ifl' = ifl \/ (ifl' /\ l = PIT_IRQ /\ q = "iret"),
         obf' = obf \/ (~obf' /\ l = KEYBOARD_IRQ), pf' = pf \/ (~pf' /\ l = RTC_IRQ),
         ifl' \in BOOLEAN, obf' \in BOOLEAN, pf' \in BOOLEAN,
         l = KEYBOARD_IRQ /\ p = "device" => ~obf',
         l = RTC_IRQ /\ p = "device" => ~pf'
  PROVE  IntInv'
<1> DEFINE new == [irq |-> l, pc |-> q]
<1>1. BasicTypes /\ NestInv /\ ServiceInv /\ BootInv /\ NoLostEdge
  BY DEF IntInv
<1>2. PICK h \in Frames : /\ h = [irq |-> l, pc |-> p]
                          /\ \/ handlers = <<h>>
                             \/ handlers = <<h, PitLeaving>> /\ h.irq # PIT_IRQ
                          /\ handlers[1] = h /\ handlers # << >>
  BY <1>1, Running
<1>3. h.irq = l /\ new.irq = l /\ [h EXCEPT !.pc = q] = new
  BY <1>2
<1>4. handlers' = [handlers EXCEPT ![1].pc = q]
  BY DEF Goto
<1> HIDE DEF new
<1>5. /\ handlers = <<h>> => handlers' = <<new>>
      /\ handlers = <<h, PitLeaving>> => handlers' = <<new, PitLeaving>>
  BY <1>3, <1>4, Step
<1>6. handlers' # << >> /\ handlers'[1] = new
  BY <1>2, <1>5, Heads
<1>7. new \in Frames
  BY DEF new
<1>8. isr' \subseteq Lines
  BY DEF InService, Lines, Devices, Cascade, PIT_IRQ, KEYBOARD_IRQ, RTC_IRQ
<1>9. BasicTypes'
  BY <1>1, <1>8 DEF BasicTypes
<1>10. NestInv'
  <2>1. \/ handlers' = <<new>>
        \/ handlers' = <<new, PitLeaving>> /\ new.irq # PIT_IRQ
    BY <1>2, <1>3, <1>5
  <2>2. ifl' => handlers' = <<PitLeaving>>
    <3>1. CASE ifl' /\ l = PIT_IRQ /\ q = "iret"
      <4>1. new = PitLeaving
        BY <3>1 DEF new, PitLeaving
      <4>2. QED
        BY <1>2, <1>3, <1>5, <3>1, <4>1
    <3>2. CASE ifl' = ifl
      <4>1. ifl => h = PitLeaving /\ handlers = <<h>>
        BY <1>1, <1>2, Heads, Distinct DEF NestInv
      <4>2. ifl => l = PIT_IRQ /\ p = "iret"
        BY <1>2, <4>1 DEF PitLeaving
      <4>3. QED
        BY <3>2, <4>2
    <3>3. QED
      BY <3>1, <3>2
  <2>3. PIT_IRQ \in irr' => NoPit'
    <3>1. NoPit => handlers = <<h>> /\ l # PIT_IRQ
      BY <1>2, <1>3, Heads, Distinct DEF NoPit
    <3>2. QED
      BY <1>1, <1>3, <1>5, <1>7, <3>1 DEF NestInv, NoPit
  <2>4. QED
    BY <1>7, <2>1, <2>2, <2>3 DEF NestInv
<1>11. ServiceInv'
  BY <1>6 DEF ServiceInv, new
<1>12. BootInv'
  <2>1. mode \notin {"i8259_init", "idt_init"}
    BY <1>1, <1>2 DEF BootInv
  <2>2. QED
    BY <1>1, <2>1 DEF BootInv
<1>13. NoLostEdge'
  <2>1. In(KEYBOARD_IRQ, "device") => l = KEYBOARD_IRQ /\ p = "device"
    BY <1>2 DEF In
  <2>2. In(RTC_IRQ, "device") => l = RTC_IRQ /\ p = "device"
    BY <1>2 DEF In
  <2>3. QED
    BY <1>1, <2>1, <2>2 DEF NoLostEdge
<1>14. QED
  BY <1>9, <1>10, <1>11, <1>12, <1>13 DEF IntInv

\* A tick that starts a shell leaves its handler, and whatever it
\* interrupted, with its line out of service.
LEMMA StartShellKeepsInv ==
  ASSUME IntInv, StartShell
  PROVE  IntInv'
<1>1. BasicTypes /\ NestInv /\ ServiceInv /\ BootInv /\ NoLostEdge
  BY DEF IntInv
<1>2. PICK h \in Frames : /\ h = [irq |-> PIT_IRQ, pc |-> "switch"]
                          /\ handlers[1] = h /\ handlers # << >>
  BY <1>1, Running DEF StartShell
<1>3. isr = {}
  BY <1>1, <1>2 DEF ServiceInv, InService, PIT_IRQ, KEYBOARD_IRQ, RTC_IRQ
<1>4. mode \notin {"i8259_init", "idt_init"}
  BY <1>1, <1>2 DEF BootInv
<1>5. /\ todo' \in 0 .. todo - 1 /\ todo \in 0 .. 3
      /\ handlers' = << >> /\ mode' = "user" /\ ifl' = FALSE /\ uif' = FALSE /\ served' = {}
      /\ UNCHANGED <<imr, irr, isr, idt, obf, pf, pie, early>>
  BY <1>1 DEF StartShell, BasicTypes, pic, dev
<1>6. BasicTypes'
  <2>1. todo' \in 0 .. 3
    BY <1>5
  <2>2. ifl' \in BOOLEAN /\ uif' \in BOOLEAN
    BY <1>5
  <2>3. QED
    BY <1>1, <1>5, <2>1, <2>2 DEF BasicTypes
<1>7. NestInv'
  BY <1>5 DEF NestInv, NoPit
<1>8. ServiceInv'
  BY <1>3, <1>5 DEF ServiceInv
<1>9. BootInv'
  BY <1>1, <1>4, <1>5 DEF BootInv
<1>10. NoLostEdge'
  <2>1. ~In(KEYBOARD_IRQ, "device") /\ ~In(RTC_IRQ, "device")
    BY <1>2 DEF In
  <2>2. QED
    BY <1>1, <1>5, <2>1 DEF NoLostEdge
<1>11. QED
  BY <1>6, <1>7, <1>8, <1>9, <1>10 DEF IntInv

LEMMA IretKeepsInv ==
  ASSUME IntInv, NEW l \in Devices, In(l, "iret"), handlers' = Tail(handlers), ifl' = TRUE,
         UNCHANGED <<pic, idt, dev, mode, uif, todo, served>>
  PROVE  IntInv'
<1>1. BasicTypes /\ NestInv /\ ServiceInv /\ BootInv /\ NoLostEdge
  BY DEF IntInv
<1>2. PICK h \in Frames : /\ h = [irq |-> l, pc |-> "iret"]
                          /\ \/ handlers = <<h>>
                             \/ handlers = <<h, PitLeaving>> /\ h.irq # PIT_IRQ
                          /\ handlers[1] = h /\ handlers # << >>
  BY <1>1, Running
<1>3. isr = {}
  BY <1>1, <1>2 DEF ServiceInv, InService
<1>4. handlers' = << >> \/ (handlers' = <<PitLeaving>> /\ handlers = <<h, PitLeaving>>)
  BY <1>2, Pop
<1>5. UNCHANGED <<imr, irr, isr, idt, obf, pf, pie, early, mode, uif, todo, served>>
  BY DEF pic, dev
<1>6. BasicTypes'
  <2>1. ifl' \in BOOLEAN
    OBVIOUS
  <2>2. QED
    BY <1>1, <1>5, <2>1 DEF BasicTypes
<1>7. NestInv'
  <2>1. handlers = <<h, PitLeaving>> => ~NoPit
    BY Heads, Distinct DEF NoPit
  <2>2. PIT_IRQ \in irr' => NoPit'
    BY <1>1, <1>4, <1>5, <2>1 DEF NestInv, NoPit
  <2>3. QED
    BY <1>4, <2>2, PitLeavingFacts DEF NestInv
<1>8. ServiceInv'
  BY <1>3, <1>4, <1>5, PitLeavingFacts, Heads DEF ServiceInv
<1>9. BootInv'
  <2>1. mode \notin {"i8259_init", "idt_init"}
    BY <1>1, <1>2 DEF BootInv
  <2>2. QED
    BY <1>1, <1>5, <2>1 DEF BootInv
<1>10. NoLostEdge'
  <2>1. ~In(KEYBOARD_IRQ, "device") /\ ~In(RTC_IRQ, "device")
    BY <1>2 DEF In
  <2>2. QED
    BY <1>1, <1>5, <2>1 DEF NoLostEdge
<1>11. QED
  BY <1>6, <1>7, <1>8, <1>9, <1>10 DEF IntInv

LEMMA HandlersKeepInv ==
  ASSUME IntInv, HandlerStep
  PROVE  IntInv'
<1>1. BasicTypes /\ NestInv /\ ServiceInv
  BY DEF IntInv
<1>2. ifl \in BOOLEAN /\ obf \in BOOLEAN /\ pf \in BOOLEAN
  BY <1>1 DEF BasicTypes
<1>3. ASSUME NEW l, NEW p, In(l, p)
      PROVE  isr = InService([irq |-> l, pc |-> p])
  BY <1>1, <1>3 DEF ServiceInv, In
<1> USE DEF PIT_IRQ, KEYBOARD_IRQ, RTC_IRQ, Cascade
<1>4. CASE PitEoi
  <2>1. isr' = InService([irq |-> PIT_IRQ, pc |-> "switch"])
    BY <1>3, <1>4 DEF PitEoi, InService
  <2>2. [irq |-> PIT_IRQ, pc |-> "switch"] \in Frames
    BY DEF Frames
  <2>3. QED
    BY <1>2, <1>4, <2>1, <2>2, HandlerGoesOn DEF PitEoi, dev
<1>5. CASE PitDone
  <2>1. isr' = InService([irq |-> PIT_IRQ, pc |-> "iret"])
    BY <1>3, <1>5 DEF PitDone, InService, pic
  <2>2. [irq |-> PIT_IRQ, pc |-> "iret"] \in Frames
    BY DEF Frames
  <2>3. ifl' \in BOOLEAN
    BY <1>5 DEF PitDone
  <2>4. QED
    BY <1>2, <1>5, <2>1, <2>2, <2>3, HandlerGoesOn DEF PitDone, pic, dev
<1>6. CASE KeyRead
  <2>1. isr' = InService([irq |-> KEYBOARD_IRQ, pc |-> "eoi"])
    BY <1>3, <1>6 DEF KeyRead, InService, pic
  <2>2. [irq |-> KEYBOARD_IRQ, pc |-> "eoi"] \in Frames
    BY DEF Frames
  <2>3. obf' \in BOOLEAN /\ ~obf'
    BY <1>6 DEF KeyRead
  <2>4. QED
    BY <1>2, <1>6, <2>1, <2>2, <2>3, HandlerGoesOn DEF KeyRead, pic
<1>7. CASE KeyEoi
  <2>1. isr' = InService([irq |-> KEYBOARD_IRQ, pc |-> "iret"])
    BY <1>3, <1>7 DEF KeyEoi, InService
  <2>2. [irq |-> KEYBOARD_IRQ, pc |-> "iret"] \in Frames
    BY DEF Frames
  <2>3. QED
    BY <1>2, <1>7, <2>1, <2>2, HandlerGoesOn DEF KeyEoi, dev
<1>8. CASE RtcRead
  <2>1. isr' = InService([irq |-> RTC_IRQ, pc |-> "eoi"])
    BY <1>3, <1>8 DEF RtcRead, InService, pic
  <2>2. [irq |-> RTC_IRQ, pc |-> "eoi"] \in Frames
    BY DEF Frames
  <2>3. pf' \in BOOLEAN /\ ~pf'
    BY <1>8 DEF RtcRead
  <2>4. QED
    BY <1>2, <1>8, <2>1, <2>2, <2>3, HandlerGoesOn DEF RtcRead, pic
<1>9. CASE RtcEoi
  <2>1. isr' = InService([irq |-> RTC_IRQ, pc |-> "iret"])
    BY <1>3, <1>9 DEF RtcEoi, InService
  <2>2. [irq |-> RTC_IRQ, pc |-> "iret"] \in Frames
    BY DEF Frames
  <2>3. QED
    BY <1>2, <1>9, <2>1, <2>2, HandlerGoesOn DEF RtcEoi, dev
<1>10. CASE StartShell
  BY <1>10, StartShellKeepsInv
<1>11. CASE Iret
  BY <1>11, IretKeepsInv DEF Iret
<1>12. QED
  BY <1>4, <1>5, <1>6, <1>7, <1>8, <1>9, <1>10, <1>11 DEF HandlerStep

LEMMA NextIntInv == IntInv /\ [INext]_iVars => IntInv'
<1> SUFFICES ASSUME IntInv, [INext]_iVars PROVE IntInv'
  OBVIOUS
<1>1. ASSUME NEW l \in Devices, Accept(l) PROVE IntInv'
  BY <1>1, AcceptKeepsInv
<1>2. CASE UNCHANGED iVars
  BY <1>2 DEF iVars, IntInv, BasicTypes, NestInv, NoPit, ServiceInv, BootInv, NoLostEdge, In
<1>3. QED
  BY <1>1, <1>2, BootKeepsInv, ProgramsKeepInv, DevicesKeepInv, HandlersKeepInv DEF INext

\* The invariant that carries the rest.
THEOREM InterruptsInvariant == ISpec => []IntInv
BY InitIntInv, NextIntInv, PTL DEF ISpec

\* The state is well typed, and at most two handlers are nested however the
\* requests come.
THEOREM InterruptsTypeCorrect == ISpec => []ITypeOK
<1>1. IntInv => ITypeOK
  <2> SUFFICES ASSUME IntInv PROVE ITypeOK
    OBVIOUS
  <2> DEFINE T == [irq : Devices, pc : {"eoi", "device", "switch", "iret"}]
  <2>1. /\ Len(handlers) <= 2
        /\ \A k \in DOMAIN handlers :
             handlers[k] \in T
    <3>1. \A h \in Frames : h \in T
      BY DEF Frames, Devices
    <3> HIDE DEF T
    <3>2. CASE handlers = << >>
      BY <3>2, Heads
    <3>3. ASSUME NEW h \in Frames, handlers = <<h>>
          PROVE  /\ Len(handlers) <= 2
                 /\ \A k \in DOMAIN handlers : handlers[k] \in T
      BY <3>1, <3>3, Heads
    <3>4. ASSUME NEW h \in Frames, handlers = <<h, PitLeaving>>
          PROVE  /\ Len(handlers) <= 2
                 /\ \A k \in DOMAIN handlers : handlers[k] \in T
      BY <3>1, <3>4, Heads, PitLeavingFacts
    <3>5. QED
      BY <3>2, <3>3, <3>4 DEF IntInv, NestInv
  <2>2. QED
    BY <2>1 DEF IntInv, BasicTypes, ITypeOK
<1>2. QED
  BY <1>1, InterruptsInvariant, PTL

\* However the timer, the keyboard and the clock interrupt programs and each
\* other, and however a handler is left: no line stays in service.
THEOREM NeverLeftInService == ISpec => []NoneLeftInService
<1>1. IntInv => NoneLeftInService
  BY DEF IntInv, ServiceInv, NoneLeftInService
<1>2. QED
  BY <1>1, InterruptsInvariant, PTL

\* No edge is lost: a device that holds its line up will be served.
THEOREM EdgesKept == ISpec => []NoLostEdge
<1>1. IntInv => NoLostEdge
  BY DEF IntInv
<1>2. QED
  BY <1>1, InterruptsInvariant, PTL

\* Although entry runs with interrupts on before the IDT is filled, no
\* interrupt meets a vector that is not there.
THEOREM VectorsPresent == ISpec => []VectorPresent
<1>1. IntInv => VectorPresent
  BY DEF IntInv, BootInv, BasicTypes, BootSteps, VectorPresent, Passes, Vector, Devices,
         PIT_IRQ, KEYBOARD_IRQ, RTC_IRQ
<1>2. QED
  BY <1>1, InterruptsInvariant, PTL

-----------------------------------------------------------------------------
(* The clock.  For every chip rate that is a power of two, every word size *)
(* and every depth of the chain of programs: a read that begins in time    *)
(* keeps up with the count, and no read of a program that has the clock to *)
(* itself ends too soon.                                                   *)

\* While a read that began in time spins, the count is below freq_val, or at
\* it and the loop has yet to look.
KeepsUpInv ==
  rtc_state = "read" /\ ~late =>
    freq_ctr < freq_val \/ (freq_ctr = freq_val /\ ~polled)

\* The owner's rate is the rate in force, and no more has been counted than
\* has come since its last reset.
OwnerInv ==
  /\ owner # 0 /\ asked[owner] # 0 => asked[owner] * freq_val = MAX_HZ
  /\ owner # 0 => since[owner] >= freq_ctr \/ since[owner] = MAX_HZ
  /\ rtc_state = "reset" /\ owner = level => since[level] >= freq_val

\* Whoever reads has opened the clock.
ReaderInv == rtc_state # "run" => asked[level] # 0

RtcInv == RTypeOK /\ KeepsUpInv /\ OwnerInv /\ ReaderInv

LEMMA NumFacts ==
  /\ MAX_HZ \in Nat /\ 2 <= MAX_HZ /\ MAX_HZ < WordSize /\ WordSize \in Nat
  /\ Depth \in Nat /\ Depth > 0
  BY RtcAssumption

LEMMA ExactDiv ==
  ASSUME NEW m \in Nat, NEW r \in Nat, r > 0, m % r = 0
  PROVE  r * (m \div r) = m
  OBVIOUS

LEMMA ProductMono ==
  ASSUME NEW a \in Nat, NEW b \in Nat, NEW n \in Nat, b <= n
  PROVE  a * b <= a * n
<1>1. PICK d \in Nat : n = b + d
  <2>1. n - b \in Nat /\ n = b + (n - b)
    OBVIOUS
  <2>2. QED
    BY <2>1
<1>2. a * n = (a * b) + (a * d)
  BY <1>1
<1>3. a * d \in Nat /\ a * b \in Nat
  OBVIOUS
<1>4. QED
  BY <1>2, <1>3

\* A rate that is set divides the chip's.
LEMMA GrantedRate ==
  ASSUME NEW rate, rate \in Int, rate = 2 \/ Accepted(rate)
  PROVE  /\ rate \in 2 .. MAX_HZ
         /\ MAX_HZ \div rate \in 1 .. MAX_HZ
         /\ rate * (MAX_HZ \div rate) = MAX_HZ
<1>1. rate \in 2 .. MAX_HZ /\ MAX_HZ % rate = 0
  BY RtcAssumption DEF Accepted
<1>2. rate * (MAX_HZ \div rate) = MAX_HZ
  BY <1>1, ExactDiv, RtcAssumption
<1> DEFINE q == MAX_HZ \div rate
<1>3. q \in Int
  BY <1>1, RtcAssumption
<1>4. q >= 1 /\ q <= MAX_HZ
  BY <1>1, RtcAssumption
<1>5. QED
  BY <1>1, <1>2, <1>3, <1>4, RtcAssumption

THEOREM InitRtcInv == RInit => RtcInv
<1> SUFFICES ASSUME RInit
             PROVE  RtcInv
  OBVIOUS
<1>1. RTypeOK
  <2>1. /\ freq_ctr \in 0 .. WordSize - 1 /\ freq_val \in 1 .. MAX_HZ
        /\ level \in Levels /\ owner \in Levels \cup {0}
        /\ 0 \in 0 .. MAX_HZ
    BY NumFacts DEF RInit, Levels
  <2>2. QED
    BY <2>1 DEF RInit, RTypeOK
<1>2. KeepsUpInv /\ OwnerInv /\ ReaderInv
  BY DEF RInit, KeepsUpInv, OwnerInv, ReaderInv
<1>3. QED
  BY <1>1, <1>2 DEF RtcInv

LEMMA HandlerKeepsInv ==
  ASSUME RtcInv, Handler
  PROVE  RtcInv'
<1> USE DEF RtcInv
<1>1. /\ freq_ctr \in Nat /\ freq_ctr < WordSize /\ freq_ctr' \in Nat
      /\ freq_ctr' = freq_ctr + 1 \/ freq_ctr' = 0
      /\ freq_ctr' < WordSize
  BY NumFacts DEF Handler, RTypeOK
<1>2. \A l \in Levels : /\ since[l] \in 0 .. MAX_HZ /\ since'[l] \in 0 .. MAX_HZ
                        /\ since'[l] = since[l] + 1 \/ (since'[l] = MAX_HZ /\ since[l] = MAX_HZ)
  BY NumFacts DEF Handler, RTypeOK, Smaller
<1>3. RTypeOK'
  <2>1. since' \in [Levels -> 0 .. MAX_HZ]
    BY <1>2 DEF Handler
  <2>2. freq_ctr' \in 0 .. WordSize - 1
    BY <1>1, NumFacts
  <2>3. QED
    BY <2>1, <2>2 DEF Handler, RTypeOK
<1>4. KeepsUpInv'
  BY <1>1, NumFacts DEF Handler, RTypeOK, KeepsUpInv
<1>5. OwnerInv'
  <2>1. owner' = owner /\ level' = level /\ rtc_state' = rtc_state /\ asked' = asked
        /\ freq_val' = freq_val /\ level \in Levels /\ owner \in Levels \cup {0}
        /\ freq_val \in 1 .. MAX_HZ
    BY DEF Handler, RTypeOK
  <2>2. owner # 0 => since'[owner] >= freq_ctr' \/ since'[owner] = MAX_HZ
    BY <1>1, <1>2, <2>1, NumFacts DEF OwnerInv
  <2>3. rtc_state = "reset" /\ owner = level => since'[level] >= freq_val
    BY <1>2, <2>1, NumFacts DEF OwnerInv
  <2>4. QED
    BY <2>1, <2>2, <2>3 DEF OwnerInv
<1>6. QED
  BY <1>3, <1>4, <1>5 DEF Handler, ReaderInv

LEMMA RestartKeepsInv ==
  ASSUME RtcInv, NEW rate \in Int, rate = 2 \/ Accepted(rate), Restart(rate),
         rtc_state = "run", UNCHANGED <<rtc_state, polled, level, late>>
  PROVE  RtcInv'
<1>1. /\ rate \in 2 .. MAX_HZ /\ MAX_HZ \div rate \in 1 .. MAX_HZ
      /\ rate * (MAX_HZ \div rate) = MAX_HZ
  BY GrantedRate
<1> DEFINE q == MAX_HZ \div rate
<1>2. /\ q \in 1 .. MAX_HZ /\ rate * q = MAX_HZ
      /\ freq_ctr' = 0 /\ freq_val' = q /\ owner' = level /\ level' = level
      /\ asked' = [asked EXCEPT ![level] = rate]
      /\ since' = [since EXCEPT ![level] = 0]
      /\ rtc_state' = "run" /\ polled' = polled /\ late' = late
  BY <1>1 DEF Restart
<1> HIDE DEF q
<1>3. level \in Levels /\ level # 0
  BY DEF RtcInv, RTypeOK, Levels
<1>4. RTypeOK'
  BY <1>1, <1>2, <1>3, NumFacts DEF RtcInv, RTypeOK
<1>5. asked'[owner'] = rate /\ since'[owner'] = 0
  BY <1>2, <1>3 DEF RtcInv, RTypeOK
<1>6. QED
  BY <1>2, <1>4, <1>5 DEF RtcInv, KeepsUpInv, OwnerInv, ReaderInv

\* The other steps.
LEMMA OtherKeepsInv ==
  ASSUME RtcInv, Read \/ Poll \/ Return \/ ExecuteProgram \/ Halt
  PROVE  RtcInv'
<1> USE NumFacts DEF RtcInv, RTypeOK, Levels
<1>1. CASE Read
  <2>1. RTypeOK'
    <3>1. (freq_ctr > freq_val) \in BOOLEAN /\ FALSE \in BOOLEAN
      OBVIOUS
    <3>2. QED
      BY <1>1, <3>1 DEF Read
  <2>2. ~(freq_ctr > freq_val) => freq_ctr < freq_val \/ freq_ctr = freq_val
    OBVIOUS
  <2>3. KeepsUpInv'
    BY <1>1, <2>2, Zenon DEF Read, KeepsUpInv
  <2>4. OwnerInv' /\ ReaderInv'
    BY <1>1 DEF Read, OwnerInv, ReaderInv
  <2>5. QED
    BY <2>1, <2>3, <2>4
<1>2. CASE Poll
  <2>1. RTypeOK' /\ KeepsUpInv' /\ ReaderInv'
    BY <1>2 DEF Poll, KeepsUpInv, ReaderInv
  <2>2. OwnerInv'
    BY <1>2 DEF Poll, OwnerInv
  <2>3. QED
    BY <2>1, <2>2
<1>3. CASE Return
  <2>1. RTypeOK' /\ KeepsUpInv' /\ ReaderInv'
    BY <1>3 DEF Return, KeepsUpInv, ReaderInv
  <2>2. OwnerInv'
    BY <1>3 DEF Return, OwnerInv
  <2>3. QED
    BY <2>1, <2>2
<1>4. CASE ExecuteProgram
  <2>1. RTypeOK' /\ KeepsUpInv' /\ ReaderInv'
    BY <1>4 DEF ExecuteProgram, KeepsUpInv, ReaderInv
  <2>2. OwnerInv'
    BY <1>4 DEF ExecuteProgram, OwnerInv
  <2>3. QED
    BY <2>1, <2>2
<1>5. CASE Halt
  BY <1>5 DEF Halt, KeepsUpInv, OwnerInv, ReaderInv
<1>6. QED
  BY <1>1, <1>2, <1>3, <1>4, <1>5

THEOREM NextRtcInv == RtcInv /\ [RNext]_rVars => RtcInv'
<1> SUFFICES ASSUME RtcInv, [RNext]_rVars
             PROVE  RtcInv'
  OBVIOUS
<1>1. CASE Handler
  BY <1>1, HandlerKeepsInv
<1>2. CASE Open
  BY <1>2, RestartKeepsInv DEF Open
<1>3. ASSUME NEW rate \in Rates, WriteRate(rate)
      PROVE  RtcInv'
  <2>1. rate \in Int
    BY RtcAssumption
  <2>2. CASE Accepted(rate)
    BY <1>3, <2>1, <2>2, RestartKeepsInv DEF WriteRate
  <2>3. CASE ~Accepted(rate)
    BY <1>3, <2>3 DEF WriteRate, RtcInv, RTypeOK, KeepsUpInv, OwnerInv, ReaderInv
  <2>4. QED
    BY <2>2, <2>3
<1>4. CASE Read \/ Poll \/ Return \/ ExecuteProgram \/ Halt
  BY <1>4, OtherKeepsInv
<1>5. CASE UNCHANGED rVars
  BY <1>5 DEF rVars, RtcInv, RTypeOK, KeepsUpInv, OwnerInv, ReaderInv
<1>6. QED
  BY <1>1, <1>2, <1>3, <1>4, <1>5 DEF RNext

LEMMA InvImplies == RtcInv => ReadKeepsUp /\ NotTooSoon
<1> SUFFICES ASSUME RtcInv
             PROVE  ReadKeepsUp /\ NotTooSoon
  OBVIOUS
<1>1. ReadKeepsUp
  BY NumFacts DEF RtcInv, RTypeOK, KeepsUpInv, ReadKeepsUp
<1>2. ASSUME rtc_state = "reset", owner = level
      PROVE  Earned
  <2>1. /\ asked[level] \in Nat /\ since[level] \in Nat /\ freq_val \in Nat
        /\ level # 0
    BY NumFacts DEF RtcInv, RTypeOK, Levels
  <2>2. since[level] >= freq_val /\ asked[level] * freq_val = MAX_HZ
    BY <1>2, <2>1 DEF RtcInv, OwnerInv, ReaderInv
  <2>3. asked[level] * freq_val <= asked[level] * since[level]
    BY <2>1, <2>2, ProductMono
  <2>4. asked[level] * since[level] \in Int
    BY <2>1
  <2>5. QED
    BY <2>2, <2>3, <2>4, NumFacts DEF Earned
<1>3. QED
  BY <1>1, <1>2 DEF NotTooSoon

\* The clock's inductive invariant holds in every reachable state.
THEOREM RtcInvariant == RSpec => []RtcInv
  BY InitRtcInv, NextRtcInv, PTL DEF RSpec

\* A read that begins in time never misses the end of its wait (rtc_read).
THEOREM ReadAlwaysKeepsUp == RSpec => []ReadKeepsUp
  BY RtcInvariant, InvImplies, PTL

\* A program that has the clock to itself is never woken too soon.
THEOREM NeverTooSoon == RSpec => []NotTooSoon
  BY RtcInvariant, InvImplies, PTL

\* Every variable of the clock keeps its type.
THEOREM RtcTypeCorrect == RSpec => []RTypeOK
<1>1. RtcInv => RTypeOK
  BY DEF RtcInv
<1>2. QED
  BY <1>1, RtcInvariant, PTL
-----------------------------------------------------------------------------
(* The screen.                                                             *)

Glyphs == Chars \cup {Blank}

LEMMA SizeFacts ==
  /\ NumCols \in Nat /\ NumCols > 1 /\ NumRows \in Nat /\ NumRows > 0
  /\ PageCells \in Nat /\ NumRows * NumCols <= PageCells
  /\ NumRows + NumRows <= PageCells /\ NumCols <= PageCells /\ NumRows <= PageCells
  /\ LastRow \in Nat /\ LastRow + 1 = NumRows
<1>1. /\ NumCols \in Nat /\ NumCols > 1 /\ NumRows \in Nat /\ NumRows > 0
      /\ PageCells \in Nat /\ NumCols * NumRows <= PageCells
  BY ScreenAssumption
<1>2. NumCols * NumRows = NumRows * NumCols
  BY <1>1
<1>3. NumCols * NumRows >= 2 * NumRows /\ NumCols * NumRows >= NumCols
  BY <1>1
<1>4. QED
  BY <1>1, <1>2, <1>3 DEF LastRow

\* What a page is made of.
LEMMA PageFacts ==
  ASSUME NEW p \in Page
  PROVE  /\ p.cells \in [CellIdx -> Glyphs] /\ p.x \in Nat /\ p.y \in Nat
         /\ p.x <= PageCells /\ p.y <= PageCells
BY SizeFacts DEF Page, Glyphs

LEMMA PageBuilt ==
  ASSUME NEW k \in [CellIdx -> Glyphs], NEW a \in 0 .. PageCells, NEW b \in 0 .. PageCells,
         NEW p, p = [cells |-> k, x |-> a, y |-> b]
  PROVE  p \in Page /\ p.cells = k /\ p.x = a /\ p.y = b
BY DEF Page, Glyphs

\* A cursor on its page leaves room in both directions.
LEMMA InPageFacts ==
  ASSUME NEW p \in Page, InPage(p)
  PROVE  p.x < PageCells /\ p.y < PageCells /\ (2 * p.y) + p.x < PageCells
<1>1. p.x \in Nat /\ p.y \in Nat
  BY PageFacts
<1>2. p.y * NumCols >= 2 * p.y
  BY <1>1, SizeFacts
<1> DEFINE m == p.y * NumCols
<1> HIDE DEF m
<1>3. m \in Nat /\ m + p.x < PageCells /\ m >= 2 * p.y
  BY <1>1, <1>2, SizeFacts DEF InPage, Here, m
<1>4. QED
  BY <1>1, <1>3, SizeFacts

LEMMA ScrolledUpType ==
  ASSUME NEW to \in [CellIdx -> Glyphs], NEW from \in [CellIdx -> Glyphs]
  PROVE  ScrolledUp(to, from) \in [CellIdx -> Glyphs]
<1> DEFINE m == LastRow * NumCols
           n == NumRows * NumCols
<1>1. m \in Nat /\ n \in Nat /\ m + NumCols = n /\ n <= PageCells
  <2>1. NumRows * NumCols = (LastRow + 1) * NumCols
    BY SizeFacts
  <2>2. QED
    BY <2>1, SizeFacts
<1>2. ASSUME NEW k \in CellIdx, k < m
      PROVE  from[k + NumCols] \in Glyphs
  <2> HIDE DEF m, n
  <2>1. k + NumCols \in CellIdx
    BY <1>1, <1>2, SizeFacts DEF CellIdx
  <2>2. QED
    BY <2>1
<1>3. Blank \in Glyphs
  BY DEF Glyphs
<1>4. QED
  BY <1>2, <1>3 DEF ScrolledUp

-----------------------------------------------------------------------------
(* What drawing does to a page: it stays one, and where its cursor goes.   *)

LEMMA WrappedFacts ==
  ASSUME NEW p \in Page
  PROVE  /\ Wrapped(p) \in Page
         /\ IF p.x = NumCols /\ p.y < LastRow
            THEN Wrapped(p).x = 0 /\ Wrapped(p).y = p.y + 1
            ELSE Wrapped(p) = p
<1>1. CASE p.x = NumCols /\ p.y < LastRow
  <2>1. Wrapped(p) = [cells |-> p.cells, x |-> 0, y |-> p.y + 1]
    BY <1>1 DEF Wrapped, Page
  <2>2. 0 \in 0 .. PageCells /\ p.y + 1 \in 0 .. PageCells
    BY <1>1, SizeFacts, PageFacts
  <2>3. QED
    BY <1>1, <2>1, <2>2, PageBuilt, PageFacts
<1>2. CASE ~(p.x = NumCols /\ p.y < LastRow)
  BY <1>2 DEF Wrapped
<1>3. QED
  BY <1>1, <1>2

LEMMA NewlineFacts ==
  ASSUME NEW p \in Page, NEW from \in [CellIdx -> Glyphs]
  PROVE  /\ p.y < PageCells => Newline(p, from) \in Page
         /\ Newline(p, from).x = 0
         /\ Newline(p, from).y = IF p.y = LastRow THEN p.y ELSE p.y + 1
<1>1. CASE p.y = LastRow
  <2>1. Newline(p, from) = [cells |-> ScrolledUp(p.cells, from), x |-> 0, y |-> p.y]
    BY <1>1 DEF Newline, Page
  <2>2. 0 \in 0 .. PageCells /\ p.y \in 0 .. PageCells
    BY SizeFacts, PageFacts
  <2>3. QED
    BY <1>1, <2>1, <2>2, PageBuilt, PageFacts, ScrolledUpType
<1>2. CASE p.y # LastRow
  <2>1. Newline(p, from) = [cells |-> p.cells, x |-> 0, y |-> p.y + 1]
    BY <1>2 DEF Newline, Page
  <2>2. 0 \in 0 .. PageCells /\ (p.y < PageCells => p.y + 1 \in 0 .. PageCells)
    BY SizeFacts, PageFacts
  <2>3. p.cells \in [CellIdx -> Glyphs]
    BY PageFacts
  <2>4. p.y < PageCells => Newline(p, from) \in Page
    BY <2>1, <2>2, <2>3, PageBuilt
  <2>5. Newline(p, from).x = 0 /\ Newline(p, from).y = p.y + 1
    BY <2>1
  <2>6. QED
    BY <1>2, <2>4, <2>5
<1>3. QED
  BY <1>1, <1>2

LEMMA WrittenFacts ==
  ASSUME NEW p \in Page, p.x < PageCells, NEW ch \in Chars
  PROVE  Written(p, ch) \in Page /\ Written(p, ch).x = p.x + 1 /\ Written(p, ch).y = p.y
<1> DEFINE k == [p.cells EXCEPT ![Here(p)] = ch]
<1>1. k \in [CellIdx -> Glyphs]
  BY PageFacts DEF Glyphs
<1>2. p.x + 1 \in 0 .. PageCells /\ p.y \in 0 .. PageCells
  BY SizeFacts, PageFacts
<1>3. Written(p, ch) = [cells |-> k, x |-> p.x + 1, y |-> p.y]
  <2> DEFINE h == Here(p)
  <2>1. Written(p, ch) = [p EXCEPT !.cells = [@ EXCEPT ![h] = ch], !.x = @ + 1]
    BY DEF Written
  <2>2. k = [p.cells EXCEPT ![h] = ch]
    OBVIOUS
  <2> HIDE DEF h, k
  <2>3. Written(p, ch) = [p EXCEPT !.cells = k, !.x = @ + 1]
    BY <2>1, <2>2
  <2>4. QED
    BY <2>3 DEF Page
<1> HIDE DEF k
<1>4. QED
  BY <1>1, <1>2, <1>3, PageBuilt

LEMMA ScrolledFacts ==
  ASSUME NEW p \in Page, NEW from \in [CellIdx -> Glyphs]
  PROVE  /\ Scrolled(p, from) \in Page /\ Scrolled(p, from).y = p.y
         /\ Scrolled(p, from).x = IF p.x = NumCols /\ p.y = LastRow THEN 0 ELSE p.x
<1>1. CASE p.x = NumCols /\ p.y = LastRow
  <2>1. Scrolled(p, from) = [cells |-> ScrolledUp(p.cells, from), x |-> 0, y |-> p.y]
    BY <1>1 DEF Scrolled, Page
  <2>2. 0 \in 0 .. PageCells /\ p.y \in 0 .. PageCells
    BY SizeFacts, PageFacts
  <2>3. QED
    BY <1>1, <2>1, <2>2, PageBuilt, PageFacts, ScrolledUpType
<1>2. CASE ~(p.x = NumCols /\ p.y = LastRow)
  BY <1>2 DEF Scrolled
<1>3. QED
  BY <1>1, <1>2

LEMMA EnterLineFacts ==
  ASSUME NEW p \in Page, p.y < PageCells
  PROVE  /\ EnterLine(p) \in Page /\ EnterLine(p).x = 0
         /\ EnterLine(p).y = IF p.y = LastRow THEN p.y ELSE p.y + 1
<1> DEFINE b == IF p.y = LastRow THEN p.y ELSE p.y + 1
<1>1. EnterLine(p) = [cells |-> p.cells, x |-> 0, y |-> b]
  <2>1. CASE p.y = LastRow
    BY <2>1 DEF EnterLine, Page
  <2>2. CASE p.y # LastRow
    BY <2>2 DEF EnterLine, Page
  <2>3. QED
    BY <2>1, <2>2
<1>2. 0 \in 0 .. PageCells /\ b \in 0 .. PageCells
  BY SizeFacts, PageFacts
<1> HIDE DEF b
<1>3. EnterLine(p) \in Page /\ EnterLine(p).x = 0 /\ EnterLine(p).y = b
  BY <1>1, <1>2, PageBuilt, PageFacts
<1>4. QED
  BY <1>3 DEF b

LEMMA BackspacedFacts ==
  ASSUME NEW p \in Page
  PROVE  /\ Backspaced(p) \in Page
         /\ \/ Backspaced(p) = p
            \/ p.x > 0 /\ Backspaced(p).x = p.x - 1 /\ Backspaced(p).y = p.y
            \/ p.x = 0 /\ p.y > 0 /\ Backspaced(p).x = NumCols - 2 /\ Backspaced(p).y = p.y - 1
<1> DEFINE a == IF p.x > 0 THEN p.x - 1 ELSE NumCols - 2
           b == IF p.x > 0 THEN p.y ELSE p.y - 1
           q == [cells |-> p.cells, x |-> a, y |-> b]
           k == [p.cells EXCEPT ![Here(q)] = Blank]
<1>1. CASE p.x = 0 /\ p.y = 0
  BY <1>1 DEF Backspaced
<1>2. CASE ~(p.x = 0 /\ p.y = 0)
  <2>1. a \in 0 .. PageCells /\ b \in 0 .. PageCells
    BY <1>2, SizeFacts, PageFacts
  <2>2. k \in [CellIdx -> Glyphs]
    BY PageFacts DEF Glyphs
  <2>3. (IF p.x > 0 THEN [p EXCEPT !.x = @ - 1]
                    ELSE [p EXCEPT !.x = NumCols - 2, !.y = @ - 1]) = q
    BY DEF Page
  <2>4. Backspaced(p) = [q EXCEPT !.cells[Here(q)] = Blank]
    BY <1>2, <2>3 DEF Backspaced
  <2>5. Backspaced(p) = [cells |-> k, x |-> a, y |-> b]
    BY <2>4
  <2> HIDE DEF k, a, b
  <2>6. Backspaced(p) \in Page /\ Backspaced(p).x = a /\ Backspaced(p).y = b
    BY <2>1, <2>2, <2>5, PageBuilt
  <2>7. p.x \in Nat /\ p.y \in Nat
    BY PageFacts
  <2>8. QED
    BY <1>2, <2>6, <2>7 DEF a, b
<1>3. QED
  BY <1>1, <1>2

LEMMA ClearedFacts ==
  ASSUME NEW p \in Page
  PROVE  Cleared(p) \in Page /\ Cleared(p).x = 0 /\ Cleared(p).y = 0
<1> DEFINE k == [j \in CellIdx |-> IF j < NumRows * NumCols THEN Blank ELSE p.cells[j]]
<1>1. k \in [CellIdx -> Glyphs]
  BY PageFacts DEF Glyphs
<1>2. Cleared(p) = [cells |-> k, x |-> 0, y |-> 0]
  BY DEF Cleared
<1> HIDE DEF k
<1>3. 0 \in 0 .. PageCells
  BY SizeFacts
<1>4. QED
  BY <1>1, <1>2, <1>3, PageBuilt

-----------------------------------------------------------------------------
(* Types.                                                                  *)

\* A character is written only where it is not a new line.
ScreenTypes == TypeOK /\ (pc = "write" => c \in Chars)

LEMMA InitTypes ==
  ASSUME Init
  PROVE  ScreenTypes
<1>1. EmptyPage \in Page
  <2>1. [k \in CellIdx |-> Blank] \in [CellIdx -> Glyphs] /\ 0 \in 0 .. PageCells
    BY SizeFacts DEF Glyphs
  <2>2. QED
    BY <2>1, PageBuilt DEF EmptyPage
<1>2. 0 \in Terms /\ 0 \in 0 .. PageCells
  BY ScreenAssumption DEF Terms
<1>3. hit = FALSE /\ shown = FALSE /\ pc = "idle"
  BY DEF Init
<1>4. hit \in BOOLEAN /\ shown \in BOOLEAN
  BY <1>3
<1>5. screen \in Page /\ term \in [Terms -> Page]
  BY <1>1 DEF Init
<1>6. QED
  BY <1>2, <1>3, <1>4, <1>5 DEF Init, ScreenTypes, TypeOK

\* The page a draw replaces and the pages it leaves.
LEMMA TargetFacts ==
  ASSUME TypeOK
  PROVE  /\ Target \in Page /\ ScrollSource \in [CellIdx -> Glyphs]
         /\ screen \in Page /\ Target.x \in Nat /\ Target.y \in Nat
<1>1. screen \in Page /\ term[background_terminal] \in Page /\ term[cur_term_idx] \in Page
  BY DEF TypeOK
<1>2. Target \in Page
  BY <1>1 DEF Target
<1>3. QED
  BY <1>1, <1>2, PageFacts DEF ScrollSource

LEMMA DrawTargetTypes ==
  ASSUME TypeOK, NEW p \in Page, DrawTarget(p)
  PROVE  screen' \in Page /\ term' \in [Terms -> Page]
BY DEF DrawTarget, TypeOK

\* What a key may leave on the screen.
LEMMA KeyPages ==
  ASSUME TypeOK, InPage(screen)
  PROVE  /\ \A ch \in Chars : InPage(Wrapped(screen)) => PutSwitch(screen, ch) \in Page
         /\ PutSwitch(EnterLine(screen), Enter) \in Page
         /\ Backspaced(screen) \in Page /\ Cleared(screen) \in Page
<1>1. screen \in Page
  BY DEF TypeOK
<1>2. ASSUME NEW ch \in Chars, InPage(Wrapped(screen))
      PROVE  PutSwitch(screen, ch) \in Page
  <2>1. ch # Enter
    BY ScreenAssumption
  <2>2. Wrapped(screen) \in Page /\ Wrapped(screen).x < PageCells
    BY <1>1, <1>2, WrappedFacts, InPageFacts
  <2>3. Written(Wrapped(screen), ch) \in Page
    BY <2>2, WrittenFacts
  <2>4. Scrolled(Written(Wrapped(screen), ch), Written(Wrapped(screen), ch).cells) \in Page
    BY <2>3, PageFacts, ScrolledFacts
  <2>5. QED
    BY <2>1, <2>4 DEF PutSwitch
<1>3. PutSwitch(EnterLine(screen), Enter) \in Page
  <2>1. screen.x \in Nat /\ screen.y \in Nat /\ (2 * screen.y) + screen.x < PageCells
    BY <1>1, PageFacts, InPageFacts
  <2>2. screen.y + 1 < PageCells
    BY <2>1, SizeFacts
  <2>a. screen.y < PageCells
    BY <2>1, <2>2, SizeFacts
  <2>b. /\ EnterLine(screen) \in Page /\ EnterLine(screen).x = 0
        /\ EnterLine(screen).y = IF screen.y = LastRow THEN screen.y ELSE screen.y + 1
    BY <1>1, <2>a, EnterLineFacts
  <2>3. EnterLine(screen) \in Page /\ EnterLine(screen).x = 0 /\ EnterLine(screen).y < PageCells
    BY <2>2, <2>a, <2>b
  <2>4. Wrapped(EnterLine(screen)) = EnterLine(screen)
    BY <2>3, WrappedFacts, SizeFacts
  <2>5. Newline(EnterLine(screen), EnterLine(screen).cells) \in Page
    BY <2>3, PageFacts, NewlineFacts
  <2>6. QED
    BY <2>4, <2>5 DEF PutSwitch
<1>4. QED
  BY <1>1, <1>2, <1>3, BackspacedFacts, ClearedFacts

\* The page putc's drawing steps hand to DrawTarget.
LEMMA PutStepPages ==
  ASSUME ScreenTypes
  PROVE  /\ Wrap => Wrapped(Target) \in Page
         /\ Write => Written(Target, c) \in Page
         /\ Full => Scrolled(Target, ScrollSource) \in Page
         /\ PutNewline => Newline(Target, ScrollSource) \in Page
<1> USE DEF ScreenTypes
<1>1. Wrapped(Target) \in Page /\ Scrolled(Target, ScrollSource) \in Page
  BY TargetFacts, WrappedFacts, ScrolledFacts
<1>2. ASSUME Write
      PROVE  Written(Target, c) \in Page
  BY <1>2, TargetFacts, InPageFacts, WrittenFacts DEF Write
<1>3. ASSUME PutNewline
      PROVE  Newline(Target, ScrollSource) \in Page
  <2> DEFINE n == Newline(Target, ScrollSource)
  <2>1. /\ n.x = 0 /\ n.y = (IF Target.y = LastRow THEN Target.y ELSE Target.y + 1)
        /\ Target.y < PageCells => n \in Page
    BY TargetFacts, NewlineFacts
  <2>2. InPage(n) /\ DrawTarget(n)
    BY <1>3 DEF PutNewline, DrawTarget
  <2> HIDE DEF n
  <2>3. n.y \in Nat /\ n.x = 0 /\ n.y >= Target.y
    BY <2>1, TargetFacts
  <2>4. n.y * NumCols >= n.y
    BY <2>3, SizeFacts
  <2>5. n.y * NumCols + n.x < PageCells
    BY <2>2 DEF InPage, Here
  <2>6. n.y * NumCols \in Nat
    BY <2>3, SizeFacts
  <2>7. Target.y < PageCells
    BY <2>3, <2>4, <2>5, <2>6, SizeFacts, TargetFacts
  <2>8. QED
    BY <2>1, <2>7 DEF n
<1>4. QED
  BY <1>1, <1>2, <1>3

LEMMA NextTypes ==
  ASSUME ScreenTypes, [Next]_vars
  PROVE  ScreenTypes'
<1> USE DEF ScreenTypes
<1>0. 0 \in 0 .. PageCells
  BY SizeFacts
<1>a. Done => /\ pc' = "idle" /\ c' = Enter /\ shown' \in BOOLEAN
              /\ arg' \in (0 .. PageCells) \X (0 .. PageCells)
  <2>1. Done => shown' = FALSE
    BY DEF Done
  <2>2. Done => arg' \in (0 .. PageCells) \X (0 .. PageCells)
    BY <1>0 DEF Done
  <2>3. QED
    BY <2>1, <2>2 DEF Done
<1>b. Cut => hit' \in BOOLEAN
  BY DEF Cut
<1>c. Finish => /\ pc' \in {"idle", "args"} /\ c' \in Chars \cup {Enter} /\ shown' \in BOOLEAN
                /\ arg' \in (0 .. PageCells) \X (0 .. PageCells)
  BY <1>a DEF Finish, TypeOK
<1>1. ASSUME NEW p \in Page, Draw(p)
      PROVE  ScreenTypes'
  BY <1>1, <1>b DEF Draw, TypeOK, readOnly
<1>2. ASSUME NEW ch \in Chars, KeyChar(ch)
      PROVE  ScreenTypes'
  BY <1>1, <1>2, KeyPages DEF KeyChar, Draw
<1>3. CASE KeyEnter \/ KeyBackspace \/ KeyClear
  BY <1>1, <1>3, KeyPages DEF KeyEnter, KeyBackspace, KeyClear, Draw
<1>4. ASSUME NEW t \in Terms, TerminalSwitch(t)
      PROVE  ScreenTypes'
  <2>1. term' = [term EXCEPT ![cur_term_idx] = screen] /\ screen' = term'[t]
    BY <1>4 DEF TerminalSwitch, TerminalSave
  <2>2. term' \in [Terms -> Page]
    BY <2>1 DEF TypeOK
  <2>3. screen' \in Page
    BY <2>1, <2>2
  <2>4. QED
    BY <1>4, <1>b, <2>2, <2>3 DEF TerminalSwitch, TypeOK
<1>5. CASE ContextSwitch
  BY <1>5, <1>a, <1>b DEF ContextSwitch, TypeOK
<1>6. ASSUME NEW ch \in Chars \cup {Enter}, PutC(ch)
      PROVE  ScreenTypes'
  BY <1>6 DEF PutC, TypeOK, readOnly
<1>7. CASE Choose
  BY <1>7 DEF Choose, TypeOK, readOnly
<1>8. CASE Wrap
  <2>1. screen' \in Page /\ term' \in [Terms -> Page]
    BY <1>8, PutStepPages, DrawTargetTypes DEF Wrap
  <2>2. QED
    BY <1>8, <2>1 DEF Wrap, TypeOK, readOnly
<1>9. CASE PutNewline
  <2>1. screen' \in Page /\ term' \in [Terms -> Page]
    BY <1>9, PutStepPages, DrawTargetTypes DEF PutNewline
  <2>2. QED
    BY <1>9, <1>c, <2>1 DEF PutNewline, TypeOK, readOnly
<1>10. CASE Write
  <2>1. screen' \in Page /\ term' \in [Terms -> Page]
    BY <1>10, PutStepPages, DrawTargetTypes DEF Write
  <2>2. QED
    BY <1>10, <2>1 DEF Write, TypeOK, readOnly
<1>11. CASE Full
  <2>1. screen' \in Page /\ term' \in [Terms -> Page]
    BY <1>11, PutStepPages, DrawTargetTypes DEF Full
  <2>2. QED
    BY <1>11, <1>c, <2>1 DEF Full, TypeOK, readOnly
<1>12. CASE Args
  <2>1. screen.x \in 0 .. PageCells /\ screen.y \in 0 .. PageCells
    BY DEF TypeOK, Page
  <2>2. arg' \in (0 .. PageCells) \X (0 .. PageCells)
    BY <1>12, <2>1 DEF Args
  <2>3. QED
    BY <1>12, <2>2 DEF Args, TypeOK, readOnly
<1>13. CASE UpdateCursor
  <2>1. screen' = [screen EXCEPT !.x = arg[1], !.y = arg[2]]
    BY <1>13 DEF UpdateCursor
  <2>2. arg[1] \in 0 .. PageCells /\ arg[2] \in 0 .. PageCells
    BY DEF TypeOK
  <2>3. screen' \in Page
    BY <2>1, <2>2 DEF TypeOK, Page
  <2>4. QED
    BY <1>13, <1>a, <2>3 DEF UpdateCursor, TypeOK, readOnly
<1>14. CASE UNCHANGED vars
  BY <1>14 DEF TypeOK, vars, readOnly
<1>15. QED
  BY <1>2, <1>3, <1>4, <1>5, <1>6, <1>7, <1>8, <1>9, <1>10, <1>11, <1>12, <1>13, <1>14
     DEF Next, Input, PutStep

-----------------------------------------------------------------------------
(* Which pages a step changes.                                             *)

\* The user loses no page in a switch.
LEMMA SwitchKeepsPages ==
  ASSUME TypeOK, NEW t \in Terms, TerminalSwitch(t)
  PROVE  \A u \in Terms : PageOf(u)' = PageOf(u)
<1>1. /\ term' = [term EXCEPT ![cur_term_idx] = screen] /\ screen' = term'[t]
      /\ cur_term_idx' = t
  BY DEF TerminalSwitch, TerminalSave
<1>2. /\ cur_term_idx \in Terms /\ term'[cur_term_idx] = screen
      /\ \A u \in Terms : u # cur_term_idx => term'[u] = term[u]
  BY <1>1 DEF TypeOK
<1>3. SUFFICES ASSUME NEW u \in Terms
               PROVE  PageOf(u)' = PageOf(u)
  OBVIOUS
<1>4. PageOf(u)' = term'[u]
  BY <1>1 DEF PageOf
<1>5. QED
  BY <1>2, <1>4 DEF PageOf

\* A draw of putc's changes one page, and the right one if it chose right.
LEMMA DrawTargetPages ==
  ASSUME TypeOK, NEW p \in Page, DrawTarget(p), UNCHANGED readOnly
  PROVE  /\ \A t \in Terms : t # cur_term_idx /\ t # background_terminal
                               => PageOf(t)' = PageOf(t)
         /\ (shown <=> cur_term_idx = background_terminal) =>
              /\ Target = PageOf(background_terminal) /\ PageOf(background_terminal)' = p
              /\ \A t \in Terms : t # background_terminal => PageOf(t)' = PageOf(t)
<1>1. /\ cur_term_idx' = cur_term_idx /\ background_terminal' = background_terminal
      /\ background_terminal \in Terms
  BY DEF readOnly, TypeOK
<1>2. CASE shown
  <2>1. screen' = p /\ term' = term
    BY <1>2 DEF DrawTarget
  <2>2. QED
    BY <1>1, <1>2, <2>1 DEF PageOf, Target
<1>3. CASE ~shown
  <2>1. screen' = screen /\ term' = [term EXCEPT ![background_terminal] = p]
    BY <1>3 DEF DrawTarget
  <2>2. /\ term'[background_terminal] = p
        /\ \A t \in Terms : t # background_terminal => term'[t] = term[t]
    BY <1>1, <2>1 DEF TypeOK
  <2>3. QED
    BY <1>1, <1>3, <2>1, <2>2 DEF PageOf, Target
<1>4. QED
  BY <1>2, <1>3

LEMMA NextPageKept ==
  ASSUME ScreenTypes, [Next]_vars
  PROVE  \A t \in Terms : PageOf(t)' # PageOf(t) =>
           t = background_terminal \/ (t = cur_term_idx /\ cur_term_idx' = t)
<1> SUFFICES ASSUME NEW t \in Terms, PageOf(t)' # PageOf(t)
             PROVE  t = background_terminal \/ (t = cur_term_idx /\ cur_term_idx' = t)
  OBVIOUS
<1> USE DEF ScreenTypes
<1>1. ASSUME NEW p \in Page, DrawTarget(p), UNCHANGED readOnly
      PROVE  t \in {background_terminal, cur_term_idx} /\ cur_term_idx' = cur_term_idx
  BY <1>1, DrawTargetPages DEF readOnly
<1>2. ASSUME NEW p, Draw(p)
      PROVE  t = cur_term_idx /\ cur_term_idx' = cur_term_idx
  BY <1>2 DEF Draw, PageOf, readOnly
<1>3. CASE \/ \E ch \in Chars : KeyChar(ch)
           \/ KeyEnter \/ KeyBackspace \/ KeyClear
  BY <1>2, <1>3 DEF KeyChar, KeyEnter, KeyBackspace, KeyClear
<1>4. CASE \E u \in Terms : TerminalSwitch(u)
  BY <1>4, SwitchKeepsPages
<1>5. CASE Wrap \/ PutNewline \/ Write \/ Full
  BY <1>1, <1>5, PutStepPages DEF Wrap, PutNewline, Write, Full
<1>6. CASE UpdateCursor
  BY <1>6 DEF UpdateCursor, PageOf, readOnly
<1>7. CASE \/ ContextSwitch
           \/ \E ch \in Chars \cup {Enter} : PutC(ch)
           \/ Choose \/ Args
  BY <1>7 DEF ContextSwitch, PutC, Choose, Args, PageOf, readOnly
<1>8. CASE UNCHANGED vars
  BY <1>8 DEF vars, PageOf, readOnly
<1>9. QED
  BY <1>3, <1>4, <1>5, <1>6, <1>7, <1>8 DEF Next, Input, PutStep

-----------------------------------------------------------------------------
(* Where the cursors are.                                                  *)

\* Behind the last cell that is shown.
AtEnd(p) == p.y = LastRow /\ p.x = NumCols

OnScreen(p) == p.y < NumRows /\ p.x <= NumCols

\* A print that nothing cut short draws on its terminal's page, and the
\* position it hands to update_cursor is still that of the cursor.
PrintInv ==
  /\ pc \notin {"idle", "choose"} => (shown <=> cur_term_idx = background_terminal)
  /\ pc \in {"args", "cursor"} => shown
  /\ pc = "write" => Target.x < NumCols
  /\ pc = "cursor" => arg = <<screen.x, screen.y>>

CursorInv ==
  \A t \in Terms : /\ OnScreen(PageOf(t))
                   /\ AtEnd(PageOf(t)) => pc = "full" /\ t = background_terminal

ScreenInv == ScreenTypes /\ (~hit => PrintInv /\ CursorInv)

LEMMA CursorInvMeaning == CursorOnScreen <=> (~hit => CursorInv)
BY DEF CursorOnScreen, CursorInv, OnScreen, AtEnd

\* What a key leaves on the screen has its cursor there, not at the end.
LEMMA KeyCursors ==
  ASSUME TypeOK, InPage(screen), OnScreen(screen), ~AtEnd(screen)
  PROVE  /\ \A ch \in Chars : InPage(Wrapped(screen)) =>
              OnScreen(PutSwitch(screen, ch)) /\ ~AtEnd(PutSwitch(screen, ch))
         /\ OnScreen(PutSwitch(EnterLine(screen), Enter))
         /\ ~AtEnd(PutSwitch(EnterLine(screen), Enter))
         /\ OnScreen(Backspaced(screen)) /\ ~AtEnd(Backspaced(screen))
         /\ OnScreen(Cleared(screen)) /\ ~AtEnd(Cleared(screen))
<1> USE DEF OnScreen, AtEnd
<1>0. screen \in Page /\ screen.x \in Nat /\ screen.y \in Nat /\ screen.y < PageCells
  BY PageFacts, InPageFacts DEF TypeOK
<1>1. ASSUME NEW ch \in Chars, InPage(Wrapped(screen))
      PROVE  OnScreen(PutSwitch(screen, ch)) /\ ~AtEnd(PutSwitch(screen, ch))
  <2> DEFINE w == Wrapped(screen)
             v == Written(w, ch)
             s == Scrolled(v, v.cells)
  <2>1. ch # Enter
    BY ScreenAssumption
  <2>2. w \in Page /\ w.x < PageCells
    BY <1>0, <1>1, WrappedFacts, InPageFacts
  <2>3. w.x \in Nat /\ w.y \in Nat /\ w.x < NumCols /\ w.y < NumRows
    BY <1>0, <2>2, WrappedFacts, SizeFacts
  <2>4. v \in Page /\ v.x = w.x + 1 /\ v.y = w.y
    BY <2>2, WrittenFacts
  <2>5. s.y = v.y /\ s.x = IF v.x = NumCols /\ v.y = LastRow THEN 0 ELSE v.x
    BY <2>4, PageFacts, ScrolledFacts
  <2>6. PutSwitch(screen, ch) = s
    BY <2>1 DEF PutSwitch
  <2> HIDE DEF w, v, s
  <2>7. QED
    BY <2>3, <2>4, <2>5, <2>6, SizeFacts
<1>2. OnScreen(PutSwitch(EnterLine(screen), Enter)) /\ ~AtEnd(PutSwitch(EnterLine(screen), Enter))
  <2> DEFINE e == EnterLine(screen)
             n == Newline(e, e.cells)
  <2>1. e \in Page /\ e.x = 0 /\ e.y = (IF screen.y = LastRow THEN screen.y ELSE screen.y + 1)
    BY <1>0, EnterLineFacts
  <2>2. Wrapped(e) = e
    BY <2>1, WrappedFacts, SizeFacts
  <2>3. n.x = 0 /\ n.y = IF e.y = LastRow THEN e.y ELSE e.y + 1
    BY <2>1, PageFacts, NewlineFacts
  <2>4. PutSwitch(EnterLine(screen), Enter) = n
    BY <2>2 DEF PutSwitch
  <2> HIDE DEF e, n
  <2>5. QED
    BY <1>0, <2>1, <2>3, <2>4, SizeFacts
<1>3. OnScreen(Backspaced(screen)) /\ ~AtEnd(Backspaced(screen))
  BY <1>0, BackspacedFacts, SizeFacts
<1>4. OnScreen(Cleared(screen)) /\ ~AtEnd(Cleared(screen))
  BY <1>0, ClearedFacts, SizeFacts
<1>5. QED
  BY <1>1, <1>2, <1>3, <1>4

LEMMA InitScreenInv ==
  ASSUME Init
  PROVE  ScreenInv
<1>1. ScreenTypes
  BY InitTypes
<1>2. PrintInv
  BY DEF PrintInv, Init
<1>3. ASSUME NEW t \in Terms
      PROVE  OnScreen(PageOf(t)) /\ ~AtEnd(PageOf(t))
  <2>1. PageOf(t) = EmptyPage
    BY DEF PageOf, Init
  <2>2. PageOf(t).x = 0 /\ PageOf(t).y = 0
    BY <2>1 DEF EmptyPage
  <2>3. QED
    BY <2>2, SizeFacts DEF OnScreen, AtEnd
<1>4. QED
  BY <1>1, <1>2, <1>3 DEF ScreenInv, CursorInv

\* No print is cut short, and none has been.
LEMMA CutFacts ==
  ASSUME Cut, ~hit'
  PROVE  ~hit /\ pc \in {"idle", "choose"}
BY DEF Cut

LEMMA NextScreenInv ==
  ASSUME ScreenInv, [Next]_vars
  PROVE  ScreenInv'
<1>1. ScreenTypes'
  BY NextTypes DEF ScreenInv
<1> SUFFICES ASSUME ~hit'
             PROVE  PrintInv' /\ CursorInv'
  BY <1>1 DEF ScreenInv
<1>a. TypeOK /\ ScreenTypes /\ TypeOK'
  BY <1>1 DEF ScreenInv, ScreenTypes
<1>b. screen = PageOf(cur_term_idx) /\ cur_term_idx \in Terms /\ background_terminal \in Terms
  BY <1>a DEF PageOf, TypeOK
<1>2. ASSUME Cut, pc' \in {"idle", "choose"},
             \A t \in Terms : OnScreen(PageOf(t)') /\ ~AtEnd(PageOf(t)')
      PROVE  PrintInv' /\ CursorInv'
  BY <1>2 DEF PrintInv, CursorInv
<1>c. ~hit /\ pc \in {"idle", "choose"} =>
        \A t \in Terms : OnScreen(PageOf(t)) /\ ~AtEnd(PageOf(t))
  BY DEF ScreenInv, CursorInv
<1>3. ASSUME NEW p, Draw(p), InPage(screen) /\ OnScreen(screen) /\ ~AtEnd(screen)
                               => OnScreen(p) /\ ~AtEnd(p)
      PROVE  PrintInv' /\ CursorInv'
  <2>1. Cut /\ pc' = pc /\ screen' = p /\ cur_term_idx' = cur_term_idx /\ term' = term
    BY <1>3 DEF Draw, readOnly
  <2>2. ~hit /\ pc \in {"idle", "choose"}
    BY <2>1, CutFacts
  <2>3. OnScreen(p) /\ ~AtEnd(p)
    BY <1>3, <1>b, <1>c, <2>2 DEF Draw
  <2>4. \A t \in Terms : PageOf(t)' = IF t = cur_term_idx THEN p ELSE PageOf(t)
    BY <2>1 DEF PageOf
  <2>5. QED
    BY <1>2, <1>c, <2>1, <2>2, <2>3, <2>4
<1>4. ASSUME NEW ch \in Chars, KeyChar(ch)
      PROVE  PrintInv' /\ CursorInv'
  BY <1>3, <1>4, <1>a, KeyCursors DEF KeyChar
<1>5. CASE KeyEnter \/ KeyBackspace \/ KeyClear
  BY <1>3, <1>5, <1>a, KeyCursors DEF KeyEnter, KeyBackspace, KeyClear
<1>6. ASSUME NEW t \in Terms, TerminalSwitch(t)
      PROVE  PrintInv' /\ CursorInv'
  <2>1. Cut /\ pc' = pc
    BY <1>6 DEF TerminalSwitch
  <2>2. QED
    BY <1>2, <1>6, <1>a, <1>c, <2>1, CutFacts, SwitchKeepsPages
<1>7. CASE ContextSwitch
  <2>1. Cut /\ pc' = "idle" /\ \A t \in Terms : PageOf(t)' = PageOf(t)
    BY <1>7 DEF ContextSwitch, Done, PageOf
  <2>2. QED
    BY <1>2, <1>c, <2>1, CutFacts
<1>8. ASSUME hit' = hit
      PROVE  ~hit /\ PrintInv /\ CursorInv
  BY <1>8 DEF ScreenInv
<1>9. ASSUME hit' = hit, UNCHANGED <<screen, term, readOnly>>, PrintInv', pc # "full"
      PROVE  PrintInv' /\ CursorInv'
  <2>1. \A t \in Terms : PageOf(t)' = PageOf(t)
    BY <1>9 DEF PageOf, readOnly
  <2>2. QED
    BY <1>8, <1>9, <2>1 DEF CursorInv
<1>10. ASSUME NEW ch \in Chars \cup {Enter}, PutC(ch)
       PROVE  PrintInv' /\ CursorInv'
  <2>1. PrintInv'
    BY <1>10 DEF PutC, PrintInv
  <2>2. QED
    BY <1>9, <1>10, <2>1 DEF PutC
<1>11. CASE Choose
  <2>1. PrintInv'
    BY <1>11 DEF Choose, PrintInv, readOnly
  <2>2. QED
    BY <1>9, <1>11, <2>1 DEF Choose
<1>12. CASE Args
  <2>1. PrintInv'
    BY <1>8, <1>12 DEF Args, PrintInv, readOnly
  <2>2. QED
    BY <1>9, <1>12, <2>1 DEF Args
<1>13. CASE UpdateCursor
  <2>1. ~hit /\ PrintInv /\ CursorInv /\ arg = <<screen.x, screen.y>>
    BY <1>8, <1>13 DEF UpdateCursor, PrintInv
  <2>2. screen' = screen
    BY <1>13, <1>a, <2>1 DEF UpdateCursor, TypeOK, Page
  <2>3. PrintInv'
    BY <1>13 DEF UpdateCursor, Done, PrintInv
  <2>4. QED
    BY <1>9, <1>13, <2>2, <2>3 DEF UpdateCursor
<1>14. ASSUME NEW q \in Page, DrawTarget(q), UNCHANGED readOnly, hit' = hit,
              pc \notin {"idle", "choose"}, PrintInv', OnScreen(q),
              AtEnd(q) => pc' = "full"
       PROVE  PrintInv' /\ CursorInv'
  <2>1. shown <=> cur_term_idx = background_terminal
    BY <1>8, <1>14 DEF PrintInv
  <2>2. /\ PageOf(background_terminal)' = q /\ background_terminal' = background_terminal
        /\ \A t \in Terms : t # background_terminal => PageOf(t)' = PageOf(t)
    BY <1>14, <1>a, <2>1, DrawTargetPages DEF readOnly
  <2>3. \A t \in Terms : t # background_terminal => OnScreen(PageOf(t)) /\ ~AtEnd(PageOf(t))
    BY <1>8, <1>14 DEF CursorInv
  <2>4. SUFFICES ASSUME NEW t \in Terms
                 PROVE  /\ OnScreen(PageOf(t)')
                        /\ AtEnd(PageOf(t)') => pc' = "full" /\ t = background_terminal
    BY <1>14, <2>2 DEF CursorInv, OnScreen, AtEnd
  <2>5. QED
    BY <1>14, <2>2, <2>3
\* Where the page of a print's next step stands.
<1>15. ASSUME hit' = hit, pc \notin {"idle", "choose"}
       PROVE  /\ (shown <=> cur_term_idx = background_terminal)
              /\ Target \in Page /\ Target.x \in Nat /\ Target.y \in Nat
              /\ ScrollSource \in [CellIdx -> Glyphs]
              /\ OnScreen(Target) /\ (AtEnd(Target) => pc = "full")
  <2>1. shown <=> cur_term_idx = background_terminal
    BY <1>8, <1>15 DEF PrintInv
  <2>2. Target = PageOf(background_terminal)
    BY <2>1 DEF Target, PageOf
  <2>3. OnScreen(Target) /\ (AtEnd(Target) => pc = "full")
    BY <1>8, <1>15, <1>b, <2>2 DEF CursorInv
  <2>4. QED
    BY <1>a, <2>1, <2>3, TargetFacts
<1>16. CASE Wrap
  <2> DEFINE q == Wrapped(Target)
  <2>0. /\ hit' = hit /\ pc = "wrap" /\ pc' \in {"newline", "write"} /\ shown' = shown
        /\ UNCHANGED readOnly /\ DrawTarget(q) /\ q \in Page
    BY <1>16, <1>a, PutStepPages DEF Wrap
  <2>1. OnScreen(q) /\ ~AtEnd(q) /\ q.x < NumCols
    BY <1>15, <2>0, WrappedFacts, SizeFacts DEF OnScreen, AtEnd
  <2>2. Target' = q
    BY <1>a, <2>0 DEF Target, DrawTarget, readOnly, TypeOK
  <2> HIDE DEF q
  <2>3. PrintInv'
    BY <1>15, <2>0, <2>1, <2>2 DEF PrintInv, readOnly
  <2>4. QED
    BY <1>14, <2>0, <2>1, <2>3
<1>f. ASSUME hit' = hit, pc \notin {"idle", "choose"}, Finish, UNCHANGED readOnly
      PROVE  PrintInv' /\ pc' # "full"
  BY <1>15, <1>f DEF Finish, Done, PrintInv, readOnly
<1>17. CASE PutNewline
  <2> DEFINE q == Newline(Target, ScrollSource)
  <2>0. /\ hit' = hit /\ pc = "newline" /\ Finish
        /\ UNCHANGED readOnly /\ DrawTarget(q) /\ q \in Page
    BY <1>17, <1>a, PutStepPages DEF PutNewline
  <2>1. OnScreen(q) /\ ~AtEnd(q)
    BY <1>15, <2>0, NewlineFacts, SizeFacts DEF OnScreen, AtEnd
  <2> HIDE DEF q
  <2>2. QED
    BY <1>14, <1>f, <2>0, <2>1
<1>18. CASE Write
  <2> DEFINE q == Written(Target, c)
  <2>0. /\ hit' = hit /\ pc = "write" /\ pc' = "full" /\ shown' = shown /\ c \in Chars
        /\ UNCHANGED readOnly /\ DrawTarget(q) /\ q \in Page
    BY <1>18, <1>a, PutStepPages DEF Write, ScreenTypes
  <2>1. Target.x < NumCols
    BY <1>8, <2>0 DEF PrintInv
  <2>2. OnScreen(q)
    BY <1>15, <2>0, <2>1, WrittenFacts, SizeFacts DEF OnScreen
  <2>3. PrintInv'
    BY <1>15, <2>0 DEF PrintInv, readOnly
  <2> HIDE DEF q
  <2>4. QED
    BY <1>14, <2>0, <2>2, <2>3
<1>19. CASE Full
  <2> DEFINE q == Scrolled(Target, ScrollSource)
  <2>0. /\ hit' = hit /\ pc = "full" /\ Finish
        /\ UNCHANGED readOnly /\ DrawTarget(q) /\ q \in Page
    BY <1>19, <1>a, PutStepPages DEF Full
  <2>1. OnScreen(q) /\ ~AtEnd(q)
    BY <1>15, <2>0, ScrolledFacts, SizeFacts DEF OnScreen, AtEnd
  <2> HIDE DEF q
  <2>2. QED
    BY <1>14, <1>f, <2>0, <2>1
<1>20. CASE UNCHANGED vars
  BY <1>8, <1>20 DEF vars, readOnly, PrintInv, CursorInv, PageOf, Target
<1>21. QED
  BY <1>4, <1>5, <1>6, <1>7, <1>10, <1>11, <1>12, <1>13, <1>16, <1>17, <1>18, <1>19, <1>20
     DEF Next, Input, PutStep

-----------------------------------------------------------------------------
(* The theorems.                                                           *)

\* The screen's types and, while no print is cut short, the print's position
\* and the cursors hold in every state.
THEOREM ScreenInvariant == Spec => []ScreenInv
<1>1. Init => ScreenInv
  BY InitScreenInv
<1>2. ScreenInv /\ [Next]_vars => ScreenInv'
  BY NextScreenInv
<1>3. QED
  BY <1>1, <1>2, PTL DEF Spec

\* No sequence of keys, prints, switches and ticks leaves the variables' types:
\* every cell holds a character and every cursor stays within its page.
THEOREM ScreenTypeCorrect == Spec => []TypeOK
<1>1. ScreenInv => TypeOK
  BY DEF ScreenInv, ScreenTypes
<1>2. QED
  BY <1>1, ScreenInvariant, PTL

\* Until a print is cut short, no terminal's cursor leaves its screen, whatever
\* is typed, printed, scrolled, cleared and erased (putc, enter, backspace).
THEOREM CursorAlwaysOnScreen == Spec => []CursorOnScreen
<1>1. ScreenInv => CursorOnScreen
  BY CursorInvMeaning DEF ScreenInv
<1>2. QED
  BY <1>1, ScreenInvariant, PTL

\* A step changes only the terminal that programs print to or the one on screen,
\* and a switch of terminals (terminal_save, terminal_restore) changes none.
THEOREM PagesAlwaysKept == Spec => PageKept
<1>1. ScreenInv /\ [Next]_vars =>
        [\A t \in Terms : PageOf(t)' # PageOf(t) =>
           t = background_terminal \/ (t = cur_term_idx /\ cur_term_idx' = t)]_vars
  BY NextPageKept DEF ScreenInv
<1>2. QED
  BY <1>1, ScreenInvariant, PTL DEF Spec, PageKept
=============================================================================
