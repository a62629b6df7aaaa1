---------------------------- MODULE ProcessProofs ----------------------------
(***************************************************************************)
(* Proofs about Process, for every number of slots and terminals and every *)
(* set of commands.  ProcessInv is the inductive invariant.                *)
(***************************************************************************)
EXTENDS Process, WellFoundedInduction, TLAPS

\* Every non-empty set of naturals has a least element.
LEMMA LeastExists ==
  ASSUME NEW S \in SUBSET Nat, S # {}
  PROVE  \E m \in S : \A r \in S : m <= r
<1>1. PICK m \in S : \A r \in S : ~(<<r, m>> \in OpToRel(<, Nat))
  BY NatLessThanWellFounded, WFMin
<1>2. \A r \in S : ~(r < m)
  BY <1>1 DEF OpToRel
<1>3. QED
  BY <1>2

\* A PCB carries its own block's number, or 0 if it was never filled in; so
\* the pid found in any PCB names a PCB that carries that pid.
PidInv == \A k \in PcbIdx : pcb[k].pid \in {0, k}

\* Only processes above the root shells have a parent to return to.
ReturnInv ==
  \A k \in PcbIdx : pcb[k].pid > LastRoot =>
    pcb[k].parent \in PcbIdx /\ pcb[pcb[k].parent].esp \in Slots

\* The running slot and, within execute, the slot being filled.
Runs(s) == page = s /\ pcb[s].pid = s
ExecModes == {"load", "copy", "link", "sched", "enter"}

ModeInv ==
  /\ cpu.mode = "user" => Runs(esp0)
  /\ cpu.mode \in {"sys", "check", "halt"} => cpu.stk = esp0 /\ Runs(esp0)
  /\ cpu.mode \in {"sys"} => frame[esp0] \in BOOLEAN
  /\ cpu.mode = "check" =>
       \/ cpu.cmd = Shell /\ process_arr[esp0] = 0
       \/ Pending = {} /\ frame[esp0] \in BOOLEAN
  /\ cpu.mode \in ExecModes => cpu.slot \in Slots /\ cpu.cmd \in Commands
  /\ cpu.mode \in {"copy", "link"} => page = cpu.slot
  /\ cpu.mode \in {"sched", "enter"} => Runs(cpu.slot)
  /\ cpu.mode \in {"restore", "return"} => cpu.stk = esp0 /\ pcb[cpu.stk].pid > LastRoot
  /\ cpu.mode = "restore" => pcb[cpu.stk].pid = cpu.stk
  /\ cpu.mode = "return" => page = pcb[Parent].pid /\ pcb[cpu.stk].pid = cpu.stk

\* While shells are being started, every slot taken and the running one are
\* below every terminal still waiting.
BootInv ==
  \A t \in Pending :
    /\ \A s \in Slots : process_arr[s] = 1 => s < t
    /\ cpu.mode # "boot" => esp0 < t
    /\ cpu.mode \in ExecModes => cpu.slot < t

ProcessInv == TypeOK /\ PidInv /\ ReturnInv /\ ModeInv /\ BootInv

-----------------------------------------------------------------------------
LEMMA SizeFacts ==
  /\ Slots \subseteq Int /\ Terms \subseteq Slots /\ 0 \in Terms /\ LastRoot \in Slots
  /\ Slots \subseteq PcbIdx /\ PcbIdx \subseteq Nat
  /\ \A s \in Slots : s >= 0
  /\ \A t \in Terms : t <= LastRoot
  /\ NULL \notin Slots /\ NULL \notin PcbIdx
  BY SizeAssumption, CommandAssumption DEF Slots, Terms, LastRoot, PcbIdx

\* The slot execute picks is free, and no free slot is below it.
LEMMA FirstFreeIsFirst ==
  ASSUME Free # {}
  PROVE  FirstFree \in Free /\ \A r \in Free : FirstFree <= r
  BY LeastExists, SizeFacts DEF Free, FirstFree, Slots

THEOREM InitProcessInv == Init => ProcessInv
<1> SUFFICES ASSUME Init PROVE ProcessInv
    OBVIOUS
<1> USE SizeFacts, CommandAssumption
<1>1. TypeOK
  <2>1. pcb \in [PcbIdx -> Pcb]
    BY DEF Init, Pcb, Args
  <2>2. cpu \in CpuState
    BY DEF Init, CpuState, Modes, UserMode
  <2>3. QED
    BY <2>1, <2>2 DEF Init, TypeOK
<1>2. PidInv /\ ReturnInv
  BY DEF Init, PidInv, ReturnInv
<1>3. ModeInv /\ BootInv
  BY DEF Init, ModeInv, BootInv, UserMode, ExecModes, Pending
<1>4. QED
  BY <1>1, <1>2, <1>3 DEF ProcessInv

-----------------------------------------------------------------------------
(* One lemma per group of actions: each preserves ProcessInv.              *)

LEMMA TrapKeepsInv ==
  ASSUME ProcessInv, NEW m \in {"sys", "check", "halt"},
         NEW c \in Commands \cup {NULL}, Trap(m, c),
         m = "check" => Pending = {}
  PROVE  ProcessInv'
<1> USE SizeFacts DEF ProcessInv
<1>1. TypeOK'
  <2>1. cpu' \in CpuState
    BY DEF Trap, TypeOK, CpuState, Modes
  <2>2. frame' \in [Slots -> BOOLEAN \cup {NULL}]
    BY DEF Trap, TypeOK, CpuState
  <2>3. QED
    BY <2>1, <2>2 DEF Trap, TypeOK
<1>2. PidInv' /\ ReturnInv'
  BY DEF Trap, PidInv, ReturnInv
<1>3. ModeInv'
  BY DEF Trap, ModeInv, TypeOK, CpuState, Runs, ExecModes, Pending
<1>4. BootInv'
  BY DEF Trap, BootInv, TypeOK, CpuState, ExecModes, Pending
<1>5. QED
  BY <1>1, <1>2, <1>3, <1>4

LEMMA SysReturnKeepsInv ==
  ASSUME ProcessInv, SysReturn
  PROVE  ProcessInv'
<1> USE SizeFacts DEF ProcessInv, SysReturn
<1>1. TypeOK'
  <2>1. cpu' \in CpuState
    BY DEF TypeOK, CpuState, Modes, UserMode, ModeInv
  <2>2. QED
    BY <2>1 DEF TypeOK
<1>2. PidInv' /\ ReturnInv'
  BY DEF PidInv, ReturnInv
<1>3. ModeInv'
  BY DEF ModeInv, TypeOK, CpuState, UserMode, Runs, ExecModes, Pending
<1>4. BootInv'
  BY DEF BootInv, ModeInv, TypeOK, CpuState, UserMode, ExecModes, Pending
<1>5. QED
  BY <1>1, <1>2, <1>3, <1>4

LEMMA VidmapKeepsInv ==
  ASSUME ProcessInv, Vidmap
  PROVE  ProcessInv'
<1> USE SizeFacts DEF ProcessInv, Vidmap
<1>1. TypeOK'
  BY DEF TypeOK, Pcb, CpuState
<1>2. PidInv' /\ ReturnInv'
  BY DEF PidInv, ReturnInv
<1>3. ModeInv'
  BY DEF ModeInv, TypeOK, CpuState, UserMode, Runs, ExecModes, Pending
<1>4. BootInv'
  BY DEF BootInv, ModeInv, TypeOK, CpuState, UserMode, ExecModes, Pending
<1>5. QED
  BY <1>1, <1>2, <1>3, <1>4

LEMMA ExceptionKeepsInv ==
  ASSUME ProcessInv, Exception
  PROVE  ProcessInv'
<1> USE SizeFacts DEF ProcessInv
<1>1. cpu \in CpuState /\ esp0 \in Slots
  BY DEF TypeOK
<1>2. UNCHANGED <<process_arr, pcb, schedule_arr, background_terminal,
                  cur_term_idx, page, esp0, mem, born>>
  BY DEF Exception
<1>3. /\ cpu' \in CpuState /\ cpu'.mode = "halt" /\ cpu'.stk = esp0
      /\ cpu.mode = "user" \/ cpu.mode = "sys"
  <2>1. CASE cpu.mode = "user" /\ cpu' = [cpu EXCEPT !.mode = "halt", !.stk = esp0]
    BY <1>1, <2>1 DEF CpuState, Modes
  <2>2. CASE cpu.mode = "sys" /\ cpu' = [cpu EXCEPT !.mode = "halt"]
    <3>1. cpu.stk = esp0
      BY <2>2 DEF ModeInv
    <3>2. QED
      BY <1>1, <2>2, <3>1 DEF CpuState, Modes
  <2>3. QED
    BY <2>1, <2>2 DEF Exception
<1>4. frame' \in [Slots -> BOOLEAN \cup {NULL}]
  <2>1. CASE frame' = [frame EXCEPT ![esp0] = NULL]
    BY <2>1 DEF TypeOK
  <2>2. CASE frame' = frame
    BY <2>2 DEF TypeOK
  <2>3. QED
    BY <2>1, <2>2 DEF Exception
<1>5. TypeOK'
  BY <1>2, <1>3, <1>4 DEF TypeOK
<1>6. PidInv' /\ ReturnInv'
  BY <1>2 DEF PidInv, ReturnInv
<1>7. page = esp0 /\ pcb[esp0].pid = esp0
  BY <1>3 DEF ModeInv, Runs
<1>8. ModeInv'
  BY <1>2, <1>3, <1>7 DEF ModeInv, Runs, ExecModes
<1>9. BootInv'
  BY <1>2, <1>3 DEF BootInv, ExecModes, Pending
<1>10. QED
  BY <1>5, <1>6, <1>8, <1>9

LEMMA ExecLoadKeepsInv ==
  ASSUME ProcessInv, ExecLoad
  PROVE  ProcessInv'
<1> USE SizeFacts DEF ProcessInv, ExecLoad
<1>1. TypeOK'
  <2>1. cpu' \in CpuState
    BY DEF TypeOK, CpuState, Modes
  <2>2. process_arr' \in [Slots -> {0, 1}] /\ page' \in Slots
    BY DEF TypeOK, ModeInv, ExecModes
  <2>3. born' \in [Slots -> [cmd : Commands \cup {NULL}, by : Slots \cup {NULL}]]
    BY DEF TypeOK, ModeInv, ExecModes, CpuState
  <2>4. QED
    BY <2>1, <2>2, <2>3 DEF TypeOK
<1>2. PidInv' /\ ReturnInv'
  BY DEF PidInv, ReturnInv
<1>3. ModeInv'
  BY DEF ModeInv, TypeOK, CpuState, UserMode, Runs, ExecModes, Pending
<1>4. BootInv'
  BY DEF BootInv, ModeInv, TypeOK, CpuState, UserMode, ExecModes, Pending
<1>5. QED
  BY <1>1, <1>2, <1>3, <1>4

LEMMA ExecCopyKeepsInv ==
  ASSUME ProcessInv, ExecCopy
  PROVE  ProcessInv'
<1> USE SizeFacts DEF ProcessInv, ExecCopy
<1>1. TypeOK'
  <2>1. cpu' \in CpuState
    BY DEF TypeOK, CpuState, Modes
  <2>2. mem' \in [Slots -> Commands \cup {NULL}]
    BY DEF TypeOK, ModeInv, ExecModes
  <2>3. QED
    BY <2>1, <2>2 DEF TypeOK
<1>2. PidInv' /\ ReturnInv'
  BY DEF PidInv, ReturnInv
<1>3. ModeInv'
  BY DEF ModeInv, TypeOK, CpuState, UserMode, Runs, ExecModes, Pending
<1>4. BootInv'
  BY DEF BootInv, ModeInv, TypeOK, CpuState, UserMode, ExecModes, Pending
<1>5. QED
  BY <1>1, <1>2, <1>3, <1>4

LEMMA ExecSchedKeepsInv ==
  ASSUME ProcessInv, ExecSched
  PROVE  ProcessInv'
<1> USE SizeFacts DEF ProcessInv, ExecSched
<1>0. cpu.cmd.idx \in PcbIdx /\ cpu.cmd.idx # -1 /\ Pending' \subseteq Pending
  BY CommandAssumption DEF ModeInv, ExecModes, PcbIdx, Pending, TypeOK
<1>1. TypeOK'
  <2>1. cpu' \in CpuState
    BY DEF TypeOK, CpuState, Modes
  <2>2. schedule_arr' \in [Terms -> PcbIdx \cup {-1}]
    BY DEF TypeOK, ModeInv, ExecModes, PcbIdx
  <2>3. QED
    BY <2>1, <2>2 DEF TypeOK
<1>2. PidInv' /\ ReturnInv'
  BY DEF PidInv, ReturnInv
<1>3. ModeInv'
  BY <1>0 DEF ModeInv, TypeOK, CpuState, UserMode, Runs, ExecModes, Pending
<1>4. BootInv'
  BY <1>0 DEF BootInv, ModeInv, TypeOK, CpuState, UserMode, ExecModes, Pending
<1>5. QED
  BY <1>1, <1>2, <1>3, <1>4

LEMMA ExecEnterKeepsInv ==
  ASSUME ProcessInv, ExecEnter
  PROVE  ProcessInv'
<1> USE SizeFacts DEF ProcessInv, ExecEnter
<1>1. TypeOK'
  <2>1. cpu' \in CpuState
    BY DEF TypeOK, CpuState, Modes, UserMode, ModeInv, ExecModes
  <2>2. QED
    BY <2>1 DEF TypeOK, ModeInv, ExecModes
<1>2. PidInv' /\ ReturnInv'
  BY DEF PidInv, ReturnInv
<1>3. ModeInv'
  BY DEF ModeInv, TypeOK, CpuState, UserMode, Runs, ExecModes, Pending
<1>4. BootInv'
  BY DEF BootInv, ModeInv, TypeOK, CpuState, UserMode, ExecModes, Pending
<1>5. QED
  BY <1>1, <1>2, <1>3, <1>4

LEMMA SwitchTermKeepsInv ==
  ASSUME ProcessInv, NEW t \in Terms, SwitchTerm(t)
  PROVE  ProcessInv'
  BY DEF ProcessInv, SwitchTerm, TypeOK, PidInv, ReturnInv, ModeInv, BootInv, Runs, Pending, Parent

LEMMA ExecCheckKeepsInv ==
  ASSUME ProcessInv, ExecCheck
  PROVE  ProcessInv'
<1> USE SizeFacts, CommandAssumption DEF ProcessInv
<1>1. CASE cpu'.mode = "load"
  <2>1. /\ Free # {} /\ cpu.cmd \in Commands /\ FirstFree \in Free
        /\ \A r \in Free : FirstFree <= r
        /\ cpu' = [cpu EXCEPT !.mode = "load", !.slot = FirstFree]
        /\ pcb' = [pcb EXCEPT ![FirstFree].argument = cpu.cmd.arg]
    BY <1>1, FirstFreeIsFirst DEF ExecCheck, TypeOK, CpuState, UserMode
  <2>2. /\ FirstFree \in Slots
        /\ \A t \in Pending : FirstFree < t
    BY <2>1 DEF ExecCheck, ModeInv, BootInv, Free, TypeOK, Pending
  <2>3. pcb' \in [PcbIdx -> Pcb]
    BY <2>1, <2>2 DEF TypeOK, Pcb, Args
  <2>4. cpu' \in CpuState
    BY <2>1, <2>2 DEF TypeOK, CpuState, Modes
  <2>5. \A k \in PcbIdx : /\ pcb'[k].pid = pcb[k].pid
                          /\ pcb'[k].parent = pcb[k].parent
                          /\ pcb'[k].esp = pcb[k].esp
    BY <2>1, <2>2 DEF TypeOK, Pcb
  <2>6. TypeOK'
    BY <2>3, <2>4 DEF TypeOK, ExecCheck
  <2>7. PidInv' /\ ReturnInv'
    BY <2>5 DEF PidInv, ReturnInv
  <2>8. cpu'.mode = "load" /\ cpu'.slot = FirstFree /\ cpu'.cmd = cpu.cmd
    BY <2>1 DEF TypeOK, CpuState
  <2>9. ModeInv'
    BY <2>1, <2>2, <2>8 DEF ModeInv, ExecModes
  <2>10. BootInv'
    BY <2>2, <2>8 DEF BootInv, ExecCheck, ExecModes, Pending
  <2>11. QED
    BY <2>6, <2>7, <2>9, <2>10
<1>2. CASE cpu'.mode # "load"
  <2>1. cpu.stk = esp0 /\ Runs(esp0)
    BY DEF ExecCheck, ModeInv
  <2>2. frame[esp0] \in BOOLEAN
    <3>1. CASE cpu.cmd = Shell /\ process_arr[esp0] = 0
      <4>1. Free # {} /\ cpu.cmd # NULL /\ cpu.cmd.found /\ cpu.cmd.elf
        BY <3>1 DEF Free, TypeOK
      <4>2. cpu' = [cpu EXCEPT !.mode = "load", !.slot = FirstFree]
        BY <4>1 DEF ExecCheck
      <4>3. QED
        BY <4>2, <1>2 DEF TypeOK, CpuState
    <3>2. QED
      BY <3>1 DEF ModeInv, ExecCheck
  <2>3. cpu' = UserMode(esp0, frame[esp0])
    BY <1>2, <2>1 DEF ExecCheck, TypeOK, CpuState
  <2>4. cpu' \in CpuState /\ cpu'.mode = "user"
    BY <2>2, <2>3 DEF UserMode, CpuState, Modes, TypeOK
  <2>5. pcb' \in [PcbIdx -> Pcb]
    <3>1. CASE Free # {} /\ cpu.cmd # NULL
      <4>1. FirstFree \in Slots /\ cpu.cmd \in Commands
        BY <3>1, FirstFreeIsFirst DEF Free, TypeOK, CpuState
      <4>2. pcb' = [pcb EXCEPT ![FirstFree].argument = cpu.cmd.arg]
        BY <3>1 DEF ExecCheck
      <4>3. FirstFree \in PcbIdx /\ cpu.cmd.arg \in Args /\ pcb \in [PcbIdx -> Pcb]
        BY <4>1 DEF Args, TypeOK
      <4>4. [pcb[FirstFree] EXCEPT !.argument = cpu.cmd.arg] \in Pcb
        BY <4>3 DEF Pcb
      <4>5. QED
        BY <4>2, <4>3, <4>4
    <3>2. CASE ~(Free # {} /\ cpu.cmd # NULL)
      BY <3>2 DEF ExecCheck, TypeOK
    <3>3. QED
      BY <3>1, <3>2
  <2>6. \A k \in PcbIdx : /\ pcb'[k].pid = pcb[k].pid
                          /\ pcb'[k].parent = pcb[k].parent
                          /\ pcb'[k].esp = pcb[k].esp
    <3>1. pcb' = pcb \/ pcb' = [pcb EXCEPT ![FirstFree].argument = cpu.cmd.arg]
      BY DEF ExecCheck
    <3>2. QED
      BY <3>1 DEF TypeOK, Pcb
  <2>7. TypeOK'
    BY <2>4, <2>5 DEF TypeOK, ExecCheck
  <2>8. PidInv' /\ ReturnInv'
    BY <2>6 DEF PidInv, ReturnInv
  <2>9. ModeInv'
    BY <2>1, <2>4, <2>6 DEF ModeInv, ExecModes, Runs, ExecCheck, TypeOK
  <2>10. BootInv'
    BY <2>4 DEF BootInv, ExecCheck, ExecModes, Pending
  <2>11. QED
    BY <2>7, <2>8, <2>9, <2>10
<1>3. QED
  BY <1>1, <1>2

\* What linking a PCB does: slot s is filled in, parent k gets a stack.
LinkFacts(P, s, k, stk, R) ==
  /\ R \in [PcbIdx -> Pcb]
  /\ R[s].pid = s
  /\ s > LastRoot => R[s].parent = k /\ R[k].esp = stk
  /\ \A j \in PcbIdx :
       /\ R[j].argument = P[j].argument
       /\ R[j].esp = P[j].esp \/ R[j].esp = stk
       /\ j # s => R[j].pid = P[j].pid /\ R[j].parent = P[j].parent

LEMMA LinkPcbFacts ==
  ASSUME NEW P \in [PcbIdx -> Pcb], NEW s \in Slots, NEW stk \in Slots,
         NEW k \in PcbIdx \cup {-1}, s > LastRoot => k \in PcbIdx
  PROVE  LinkFacts(P, s, k, stk, LinkPcb(P, s, k, stk))
<1> DEFINE R == LinkPcb(P, s, k, stk)
<1> USE SizeFacts
<1>1. ASSUME NEW j \in PcbIdx
      PROVE  /\ R[j] \in Pcb
             /\ R[j].argument = P[j].argument
             /\ R[j].pid = IF j = s THEN s ELSE P[j].pid
             /\ R[j].parent = IF j = s THEN (IF s <= LastRoot THEN NULL ELSE k)
                                       ELSE P[j].parent
             /\ R[j].esp = IF j = k /\ ~(s <= LastRoot) THEN stk ELSE P[j].esp
  <2>1. P[j] \in Pcb
    OBVIOUS
  <2>2. R[j] = [P[j] EXCEPT !.pid    = IF j = s THEN s ELSE P[j].pid,
                            !.parent = IF j = s THEN (IF s <= LastRoot THEN NULL ELSE k)
                                                ELSE P[j].parent,
                            !.esp    = IF j = k /\ ~(s <= LastRoot) THEN stk ELSE P[j].esp]
    BY DEF LinkPcb
  <2> DEFINE a == IF j = s THEN s ELSE P[j].pid
             b == IF j = s THEN (IF s <= LastRoot THEN NULL ELSE k) ELSE P[j].parent
             c == IF j = k /\ ~(s <= LastRoot) THEN stk ELSE P[j].esp
  <2>3. a \in Slots /\ b \in PcbIdx \cup {NULL} /\ c \in Slots \cup {NULL}
    BY <2>1 DEF Pcb
  <2>4. R[j] = [P[j] EXCEPT !.pid = a, !.parent = b, !.esp = c]
    BY <2>2
  <2> HIDE DEF a, b, c
  <2>5. /\ R[j] \in Pcb
        /\ R[j].argument = P[j].argument
        /\ R[j].pid = a /\ R[j].parent = b /\ R[j].esp = c
    BY <2>1, <2>3, <2>4 DEF Pcb
  <2>6. QED
    BY <2>5 DEF a, b, c
<1>2. DOMAIN R = PcbIdx /\ R = [j \in PcbIdx |-> R[j]]
  BY DEF LinkPcb
<1> HIDE DEF R
<1>3. R \in [PcbIdx -> Pcb]
  BY <1>1, <1>2
<1>4. LinkFacts(P, s, k, stk, R)
  BY <1>1, <1>3 DEF LinkFacts
<1>5. QED
  BY <1>4 DEF R

\* Linking keeps the invariants on PCBs.
LEMMA LinkKeepsPcbInv ==
  ASSUME NEW P \in [PcbIdx -> Pcb], NEW s \in Slots, NEW stk \in Slots,
         NEW k \in PcbIdx \cup {-1},
         s > LastRoot => k \in PcbIdx,
         PidInv, ReturnInv,
         \A j \in PcbIdx : /\ P[j].pid = pcb[j].pid
                           /\ P[j].parent = pcb[j].parent
                           /\ P[j].esp = pcb[j].esp,
         pcb' = LinkPcb(P, s, k, stk)
  PROVE  PidInv' /\ ReturnInv'
<1>1. LinkFacts(P, s, k, stk, pcb')
  BY LinkPcbFacts
<1> USE SizeFacts DEF LinkFacts
<1>2. PidInv'
  BY <1>1 DEF PidInv
<1>3. ASSUME NEW j \in PcbIdx, pcb'[j].pid > LastRoot
      PROVE  pcb'[j].parent \in PcbIdx /\ pcb'[pcb'[j].parent].esp \in Slots
  <2>1. CASE j = s
    BY <2>1, <1>1, <1>3
  <2>2. CASE j # s
    <3>1. pcb'[j].parent = pcb[j].parent /\ pcb[j].pid > LastRoot
      BY <2>2, <1>1, <1>3
    <3>2. pcb[j].parent \in PcbIdx /\ pcb[pcb[j].parent].esp \in Slots
      BY <3>1 DEF ReturnInv
    <3>3. \A i \in PcbIdx : pcb'[i].esp = pcb[i].esp \/ pcb'[i].esp = stk
      BY <1>1
    <3>4. QED
      BY <3>1, <3>2, <3>3
  <2>3. QED
    BY <2>1, <2>2
<1>4. QED
  BY <1>2, <1>3 DEF ReturnInv

LEMMA ExecLinkKeepsInv ==
  ASSUME ProcessInv, ExecLink
  PROVE  ProcessInv'
<1> USE SizeFacts DEF ProcessInv
<1> DEFINE k == schedule_arr[cur_term_idx]
<1>1. /\ cpu.slot \in Slots /\ cpu.stk \in Slots /\ page = cpu.slot
      /\ pcb \in [PcbIdx -> Pcb]
      /\ pcb' = LinkPcb(pcb, cpu.slot, k, cpu.stk)
  BY DEF ExecLink, ModeInv, ExecModes, TypeOK, CpuState
<1>2. cpu.slot > LastRoot => k \in PcbIdx
  BY <1>1 DEF ExecLink, BootInv, ExecModes, TypeOK, Pending
<1>3. pcb' \in [PcbIdx -> Pcb] /\ pcb'[cpu.slot].pid = cpu.slot
  <2>1. k \in PcbIdx \cup {-1}
    BY DEF TypeOK
  <2>2. LinkFacts(pcb, cpu.slot, k, cpu.stk, pcb')
    BY <1>1, <1>2, <2>1, LinkPcbFacts
  <2>3. QED
    BY <2>2 DEF LinkFacts
<1>4. cpu' \in CpuState /\ cpu'.mode = "sched" /\ cpu'.slot = cpu.slot /\ cpu'.cmd = cpu.cmd
  BY DEF ExecLink, TypeOK, CpuState, Modes
<1>5. TypeOK'
  BY <1>3, <1>4 DEF TypeOK, ExecLink
<1>6. PidInv' /\ ReturnInv'
  <2>1. k \in PcbIdx \cup {-1}
    BY DEF TypeOK
  <2> HIDE DEF k
  <2>2. QED
    BY <1>1, <1>2, <2>1, LinkKeepsPcbInv
<1>7. ModeInv'
  BY <1>1, <1>3, <1>4 DEF ModeInv, ExecModes, Runs, ExecLink
<1>8. BootInv'
  BY <1>4 DEF BootInv, ExecLink, ExecModes, Pending
<1>9. QED
  BY <1>5, <1>6, <1>7, <1>8

LEMMA HaltClearKeepsInv ==
  ASSUME ProcessInv, HaltClear
  PROVE  ProcessInv'
<1> USE SizeFacts DEF ProcessInv
<1>1. /\ cpu.stk = esp0 /\ Runs(esp0) /\ esp0 \in Slots
      /\ process_arr' = [process_arr EXCEPT ![esp0] = 0]
      /\ pcb' = [pcb EXCEPT ![esp0].argument = NULL]
  BY DEF HaltClear, ModeInv, Runs, TypeOK
<1>2. /\ pcb' \in [PcbIdx -> Pcb]
      /\ \A k \in PcbIdx : /\ pcb'[k].pid = pcb[k].pid
                           /\ pcb'[k].parent = pcb[k].parent
                           /\ pcb'[k].esp = pcb[k].esp
  BY <1>1 DEF TypeOK, Pcb, Args
<1>3. cpu' \in CpuState /\ cpu'.stk = esp0
  BY <1>1, CommandAssumption DEF HaltClear, TypeOK, CpuState, Modes
<1>4. \/ cpu'.mode = "check" /\ cpu'.cmd = Shell
      \/ cpu'.mode = "restore" /\ esp0 > LastRoot
  BY <1>1 DEF HaltClear, TypeOK, CpuState, Runs
<1>5. process_arr' \in [Slots -> {0, 1}] /\ process_arr'[esp0] = 0
  BY <1>1 DEF TypeOK
<1>6. TypeOK'
  BY <1>2, <1>3, <1>5 DEF TypeOK, HaltClear
<1>7. PidInv' /\ ReturnInv'
  BY <1>2 DEF PidInv, ReturnInv
<1>8. ModeInv'
  BY <1>1, <1>2, <1>3, <1>4, <1>5 DEF ModeInv, ExecModes, Runs, HaltClear
<1>9. BootInv'
  BY <1>1, <1>4 DEF BootInv, HaltClear, ExecModes, Pending, TypeOK
<1>10. QED
  BY <1>6, <1>7, <1>8, <1>9

LEMMA HaltRestoreKeepsInv ==
  ASSUME ProcessInv, HaltRestore
  PROVE  ProcessInv'
<1> USE SizeFacts DEF ProcessInv, HaltRestore
<1>1. Parent \in PcbIdx /\ pcb[Parent].pid \in Slots
  BY DEF ModeInv, ReturnInv, Parent, TypeOK, CpuState, Pcb
<1>2. cpu' \in CpuState /\ cpu'.mode = "return" /\ cpu'.stk = cpu.stk
  BY DEF TypeOK, CpuState, Modes
<1>3. TypeOK'
  BY <1>1, <1>2 DEF TypeOK
<1>4. PidInv' /\ ReturnInv'
  BY DEF PidInv, ReturnInv
<1>5. ModeInv'
  BY <1>2 DEF ModeInv, ExecModes, Parent
<1>6. BootInv'
  BY <1>2 DEF BootInv, ExecModes, Pending
<1>7. QED
  BY <1>3, <1>4, <1>5, <1>6

LEMMA HaltReturnKeepsInv ==
  ASSUME ProcessInv, HaltReturn
  PROVE  ProcessInv'
<1> USE SizeFacts DEF ProcessInv, HaltReturn
<1>1. /\ Parent \in PcbIdx /\ pcb[Parent].esp \in Slots
      /\ pcb[Parent].pid \in Slots /\ page = pcb[Parent].pid
      /\ cpu.stk = esp0 /\ esp0 > LastRoot
  BY DEF ModeInv, ReturnInv, Parent, TypeOK, CpuState, Pcb
<1>2. esp0' \in Slots /\ page' = esp0' /\ pcb'[esp0'].pid = esp0'
  BY <1>1 DEF PidInv
<1>3. frame[pcb[Parent].esp] \in BOOLEAN \cup {NULL}
  BY <1>1 DEF TypeOK
<1>4. /\ cpu' \in CpuState
      /\ cpu'.mode \in {"user", "wild"}
  BY <1>1, <1>2, <1>3 DEF TypeOK, CpuState, Modes, UserMode
<1>5. TypeOK'
  BY <1>2, <1>4 DEF TypeOK
<1>6. PidInv' /\ ReturnInv'
  BY DEF PidInv, ReturnInv
<1>7. ModeInv'
  BY <1>2, <1>4 DEF ModeInv, ExecModes, Runs
<1>8. BootInv'
  <2>1. Pending = {}
    BY <1>1 DEF BootInv, Pending, TypeOK
  <2>2. QED
    BY <2>1 DEF BootInv, Pending
<1>9. QED
  BY <1>5, <1>6, <1>7, <1>8

LEMMA PitTickKeepsInv ==
  ASSUME ProcessInv, PitTick
  PROVE  ProcessInv'
<1> USE SizeFacts, CommandAssumption DEF ProcessInv
<1> DEFINE t == FirstPending
           s == FirstFree
           sched == [schedule_arr EXCEPT ![t] = t]
           P == [pcb EXCEPT ![s].argument = Shell.arg]
<1>1. t \in Pending /\ t \in Terms /\ \A u \in Pending : t <= u
  <2>1. Pending \in SUBSET Nat /\ Pending # {}
    BY SizeAssumption DEF PitTick, Pending, Terms
  <2>2. \E m \in Pending : \A u \in Pending : m <= u
    BY <2>1, LeastExists
  <2>3. QED
    BY <2>2 DEF FirstPending, Pending
<1>2. s \in Slots /\ s \in Free /\ \A r \in Free : s <= r
  BY FirstFreeIsFirst DEF PitTick, Free
<1>3. s <= t /\ s <= LastRoot
  BY <1>1, <1>2 DEF BootInv, Free
<1>4. /\ process_arr' = [process_arr EXCEPT ![s] = 1]
      /\ pcb' = LinkPcb(P, s, sched[cur_term_idx], cpu.stk)
      /\ schedule_arr' = [sched EXCEPT ![cur_term_idx] = Shell.idx]
      /\ page' = s /\ esp0' = s /\ cpu' = UserMode(s, FALSE)
      /\ mem' = [mem EXCEPT ![s] = Shell]
      /\ born' = [born EXCEPT ![s] = [cmd |-> Shell, by |-> NULL]]
      /\ background_terminal' = t
      /\ UNCHANGED <<cur_term_idx, frame>>
  BY DEF PitTick
<1> HIDE DEF s, t
<1>5. /\ schedule_arr' \in [Terms -> PcbIdx \cup {-1}]
      /\ sched[cur_term_idx] \in PcbIdx \cup {-1}
      /\ Shell.idx \in PcbIdx /\ Shell.idx # -1
  <2>1. Shell.idx \in PcbIdx /\ Shell.idx # -1
    BY DEF PcbIdx
  <2>2. sched \in [Terms -> PcbIdx \cup {-1}] /\ cur_term_idx \in Terms
    BY <1>1 DEF TypeOK
  <2> HIDE DEF sched
  <2>3. QED
    BY <1>4, <2>1, <2>2
<1>6. /\ P \in [PcbIdx -> Pcb]
      /\ \A j \in PcbIdx : /\ P[j].pid = pcb[j].pid
                           /\ P[j].parent = pcb[j].parent
                           /\ P[j].esp = pcb[j].esp
  BY <1>2 DEF TypeOK, Pcb, Args
<1>7. cpu.stk \in Slots
  BY DEF TypeOK, CpuState
<1>8. LinkFacts(P, s, sched[cur_term_idx], cpu.stk, pcb') /\ PidInv' /\ ReturnInv'
  <2> DEFINE k == sched[cur_term_idx]
  <2>1. k \in PcbIdx \cup {-1} /\ (s > LastRoot => k \in PcbIdx)
    BY <1>2, <1>3, <1>5
  <2> HIDE DEF k, P, sched
  <2>2. pcb' = LinkPcb(P, s, k, cpu.stk)
    BY <1>4 DEF k
  <2>3. LinkFacts(P, s, k, cpu.stk, LinkPcb(P, s, k, cpu.stk))
    BY <1>2, <1>6, <1>7, <2>1, LinkPcbFacts
  <2>4. PidInv' /\ ReturnInv'
    BY <1>2, <1>6, <1>7, <2>1, <2>2, LinkKeepsPcbInv
  <2>5. QED
    BY <2>2, <2>3, <2>4 DEF k
<1>9. pcb' \in [PcbIdx -> Pcb] /\ pcb'[s].pid = s
  BY <1>8 DEF LinkFacts
<1>10. cpu' \in CpuState /\ cpu'.mode = "user"
  BY <1>2, <1>4 DEF CpuState, UserMode, Modes
<1>11. Pending' \subseteq Pending \ {t}
  BY <1>1, <1>4, <1>5 DEF Pending, TypeOK
<1>12. TypeOK'
  <2>1. process_arr' \in [Slots -> {0, 1}] /\ mem' \in [Slots -> Commands \cup {NULL}]
    BY <1>2, <1>4 DEF TypeOK
  <2>2. born' \in [Slots -> [cmd : Commands \cup {NULL}, by : Slots \cup {NULL}]]
    BY <1>2, <1>4 DEF TypeOK
  <2>3. QED
    BY <1>1, <1>2, <1>4, <1>5, <1>9, <1>10, <2>1, <2>2 DEF TypeOK
<1>13. ModeInv'
  BY <1>4, <1>9, <1>10 DEF ModeInv, ExecModes, Runs
<1>14. BootInv'
  <2>1. ASSUME NEW u \in Pending' PROVE u \in Pending /\ t < u /\ u \in Int /\ t \in Int
    <3>1. u \in Pending /\ u # t
      BY <1>11, <2>1
    <3>2. u \in Terms /\ t \in Terms /\ t <= u
      BY <1>1, <3>1 DEF Pending
    <3>3. u \in Int /\ t \in Int
      BY <3>2, SizeAssumption DEF Terms
    <3>4. QED
      BY <3>1, <3>2, <3>3
  <2>2. \A r \in Slots : process_arr'[r] = 1 => r = s \/ process_arr[r] = 1
    BY <1>2, <1>4 DEF TypeOK
  <2>3. ASSUME NEW u \in Pending' PROVE s < u /\ esp0' < u
    BY <1>2, <1>3, <1>4, <2>1
  <2>4. ASSUME NEW u \in Pending', NEW r \in Slots, process_arr'[r] = 1 PROVE r < u
    BY <2>1, <2>2, <2>3, <2>4 DEF BootInv
  <2>5. QED
    BY <1>10, <2>3, <2>4 DEF BootInv, ExecModes
<1>15. QED
  BY <1>8, <1>12, <1>13, <1>14

-----------------------------------------------------------------------------
\* ProcessInv is inductive: no step of the kernel or of a program leaves it.
THEOREM NextProcessInv == ProcessInv /\ [Next]_vars => ProcessInv'
<1> SUFFICES ASSUME ProcessInv, [Next]_vars PROVE ProcessInv'
    OBVIOUS
<1>1. CASE Syscall
  BY <1>1, TrapKeepsInv DEF Syscall
<1>2. ASSUME NEW c \in Commands \cup {NULL}, Execute(c) PROVE ProcessInv'
  BY <1>2, TrapKeepsInv DEF Execute
<1>3. CASE Halt
  BY <1>3, TrapKeepsInv DEF Halt
<1>4. CASE SysReturn \/ Vidmap \/ Exception
  BY <1>4, SysReturnKeepsInv, VidmapKeepsInv, ExceptionKeepsInv
<1>5. CASE ExecStep
  BY <1>5, ExecCheckKeepsInv, ExecLoadKeepsInv, ExecCopyKeepsInv, ExecLinkKeepsInv,
     ExecSchedKeepsInv, ExecEnterKeepsInv DEF ExecStep
<1>6. CASE HaltStep
  BY <1>6, HaltClearKeepsInv, HaltRestoreKeepsInv, HaltReturnKeepsInv DEF HaltStep
<1>7. ASSUME NEW t \in Terms, SwitchTerm(t) PROVE ProcessInv'
  BY <1>7, SwitchTermKeepsInv
<1>8. CASE PitTick
  BY <1>8, PitTickKeepsInv
<1>9. CASE UNCHANGED vars
  BY <1>9 DEF vars, ProcessInv, TypeOK, PidInv, ReturnInv, ModeInv, BootInv, Runs,
     Pending, Parent
<1>10. QED
  BY <1>1, <1>2, <1>3, <1>4, <1>5, <1>6, <1>7, <1>8, <1>9 DEF Next

THEOREM ProcessInvariant == Spec => []ProcessInv
  BY InitProcessInv, NextProcessInv, PTL DEF Spec

(***************************************************************************)
(* For every number of slots and terminals and every set of commands:      *)
(* whenever user code runs, its page, the kernel stack of its next trap    *)
(* and the PCB get_cur_pcb finds there belong to one slot.                 *)
(***************************************************************************)
THEOREM OneSlotRunsAlways == Spec => []OneSlotRuns
<1>1. ProcessInv => OneSlotRuns
  BY DEF ProcessInv, ModeInv, Runs, OneSlotRuns
<1>2. QED
  BY <1>1, ProcessInvariant, PTL

\* Every variable keeps its type.
THEOREM TypeCorrect == Spec => []TypeOK
<1>1. ProcessInv => TypeOK
  BY DEF ProcessInv
<1>2. QED
  BY <1>1, ProcessInvariant, PTL

\* A halt always finds a parent PCB with a saved stack pointer.
THEOREM HaltAlwaysHasReturn == Spec => []HaltHasReturn
<1>1. ProcessInv => HaltHasReturn
  <2> SUFFICES ASSUME ProcessInv, cpu.mode \in {"restore", "return"}
               PROVE  Parent # NULL /\ pcb[Parent].esp # NULL
    BY DEF HaltHasReturn
  <2>1. cpu.stk \in PcbIdx /\ pcb[cpu.stk].pid > LastRoot
    BY SizeFacts DEF ProcessInv, ModeInv, TypeOK
  <2>2. Parent \in PcbIdx /\ pcb[Parent].esp \in Slots
    BY <2>1 DEF ProcessInv, ReturnInv, Parent
  <2>3. QED
    BY <2>2, SizeFacts
<1>2. QED
  BY <1>1, ProcessInvariant, PTL

\* The timer never meets a full process table: while a terminal waits for
\* its shell the slot of the terminal's own number is free.
THEOREM TickAlwaysFindsSlot == Spec => []TickFindsSlot
<1>1. ASSUME ProcessInv, NEW t \in Pending PROVE Free # {}
  <2>1. t \in Slots /\ t \in Int /\ ~(t < t)
    BY SizeFacts DEF Pending
  <2>2. process_arr[t] # 1
    BY <1>1, <2>1 DEF ProcessInv, BootInv
  <2>3. QED
    BY <2>1, <2>2 DEF Free
<1>2. ProcessInv => TickFindsSlot
  BY <1>1 DEF TickFindsSlot
<1>3. QED
  BY <1>2, ProcessInvariant, PTL
-----------------------------------------------------------------------------
(* A slot in use holds the program it was marked for.  HoldInv is inductive *)
(* relative to ProcessInv.                                                 *)

\* What execute has stored in the slot it fills.
LoadInv ==
  /\ cpu.mode \in {"load", "copy"} => pcb[cpu.slot].argument = cpu.cmd.arg
  /\ cpu.mode = "copy" => process_arr[cpu.slot] = 1 /\ born[cpu.slot].cmd = cpu.cmd

\* While shells are being started there is no other image: a tick that cuts
\* an execute short before its copy leaves the shell that was there before.
ShellInv ==
  Pending # {} =>
    /\ \A s \in Slots : process_arr[s] = 1 => mem[s] = Shell
    /\ cpu.mode # "boot" => \A s \in Slots : s <= esp0 => mem[s] = Shell
    /\ cpu.mode \in ExecModes => cpu.cmd = Shell /\ cpu.slot <= esp0

HoldInv == LoadInv /\ ShellInv /\ SlotHoldsProgram

LEMMA InitHold ==
  ASSUME Init
  PROVE  HoldInv
BY SizeFacts DEF Init, HoldInv, LoadInv, ShellInv, SlotHoldsProgram, UserMode, ExecModes

\* Steps that leave programs, PCBs and the list of terminals alone and end
\* neither in execute nor in the middle of it.
LEMMA ElsewhereKeepsHold ==
  ASSUME HoldInv, cpu.mode \notin {"boot", "copy"}, cpu'.mode \notin ExecModes,
         UNCHANGED <<process_arr, pcb, schedule_arr, mem, born>>,
         Pending # {} => esp0' = esp0
  PROVE  HoldInv'
<1> USE DEF HoldInv, ExecModes
<1>1. LoadInv'
  BY DEF LoadInv
<1>2. ShellInv'
  BY DEF ShellInv, Pending
<1>3. SlotHoldsProgram'
  BY DEF SlotHoldsProgram
<1>4. QED
  BY <1>1, <1>2, <1>3

LEMMA TrapKeepsHold ==
  ASSUME ProcessInv, HoldInv, NEW m \in {"sys", "check", "halt"},
         NEW c \in Commands \cup {NULL}, Trap(m, c)
  PROVE  HoldInv'
<1>1. cpu'.mode = m
  BY DEF Trap, ProcessInv, TypeOK, CpuState
<1>2. QED
  BY <1>1, ElsewhereKeepsHold DEF Trap, ExecModes

LEMMA ExceptionKeepsHold ==
  ASSUME ProcessInv, HoldInv, Exception
  PROVE  HoldInv'
<1>1. cpu'.mode = "halt"
  BY DEF Exception, ProcessInv, TypeOK, CpuState
<1>2. QED
  BY <1>1, ElsewhereKeepsHold DEF Exception, ExecModes

\* The timer's list is empty before the parent of a child is returned to.
LEMMA HaltKeepsHold ==
  ASSUME ProcessInv, HoldInv, HaltRestore \/ HaltReturn
  PROVE  HoldInv'
<1>1. Pending = {}
  <2>1. cpu.stk = esp0 /\ pcb[esp0].pid > LastRoot /\ esp0 \in Slots
    BY DEF ProcessInv, ModeInv, HaltRestore, HaltReturn, TypeOK
  <2>2. esp0 > LastRoot
    <3>1. pcb[esp0].pid \in {0, esp0}
      BY <2>1, SizeFacts DEF ProcessInv, PidInv
    <3>2. LastRoot \in Int /\ LastRoot >= 0
      BY SizeFacts
    <3>3. QED
      BY <2>1, <3>1, <3>2
  <2>3. cpu.mode # "boot"
    BY DEF HaltRestore, HaltReturn
  <2>4. ASSUME NEW t \in Pending PROVE FALSE
    <3>1. t \in Terms /\ t <= LastRoot /\ t \in Int /\ LastRoot \in Int
      BY SizeFacts, SizeAssumption DEF Pending, Terms
    <3>2. esp0 < t /\ esp0 \in Int
      BY <2>1, <2>3, SizeFacts DEF ProcessInv, BootInv
    <3>3. QED
      BY <2>2, <3>1, <3>2
  <2>5. QED
    BY <2>4
<1>2. cpu'.mode \in {"return", "user", "wild"}
  <2>1. HaltRestore => cpu'.mode = "return"
    BY DEF HaltRestore, ProcessInv, TypeOK, CpuState
  <2>2. HaltReturn => cpu'.mode \in {"user", "wild"}
    BY DEF HaltReturn, ProcessInv, TypeOK, CpuState, UserMode
  <2>3. QED
    BY <2>1, <2>2
<1>3. QED
  BY <1>1, <1>2, ElsewhereKeepsHold DEF HaltRestore, HaltReturn, ExecModes

LEMMA HaltClearKeepsHold ==
  ASSUME ProcessInv, HoldInv, HaltClear
  PROVE  HoldInv'
<1>1. cpu.stk = esp0 /\ pcb[esp0].pid = esp0 /\ esp0 \in Slots
  BY DEF ProcessInv, ModeInv, Runs, HaltClear, TypeOK
<1>2. /\ process_arr' = [process_arr EXCEPT ![esp0] = 0]
      /\ pcb' = [pcb EXCEPT ![esp0].argument = NULL]
      /\ cpu'.mode \in {"check", "restore"}
      /\ UNCHANGED <<schedule_arr, esp0, mem, born>>
  BY <1>1 DEF HaltClear, ProcessInv, TypeOK, CpuState
<1>3. \A s \in Slots : process_arr'[s] = 1 =>
        process_arr[s] = 1 /\ pcb'[s].argument = pcb[s].argument
  BY <1>1, <1>2, SizeFacts DEF ProcessInv, TypeOK
<1>4. cpu.mode = "halt"
  BY DEF HaltClear
<1>5. LoadInv'
  BY <1>2 DEF LoadInv
<1>6. ShellInv'
  BY <1>2, <1>3, <1>4 DEF HoldInv, ShellInv, Pending, ExecModes
<1>7. SlotHoldsProgram'
  BY <1>2, <1>3, <1>4 DEF HoldInv, SlotHoldsProgram
<1>8. QED
  BY <1>5, <1>6, <1>7 DEF HoldInv

LEMMA ExecCheckKeepsHold ==
  ASSUME ProcessInv, HoldInv, ExecCheck
  PROVE  HoldInv'
<1> DEFINE f == FirstFree
           ok == Free # {} /\ cpu.cmd # NULL
<1>1. cpu.mode = "check" /\ UNCHANGED <<process_arr, schedule_arr, esp0, mem, born>>
  BY DEF ExecCheck
<1>2. CASE ~ok
  <2>1. cpu'.mode = "user" /\ pcb' = pcb
    BY <1>2 DEF ExecCheck, UserMode
  <2>2. QED
    BY <1>1, <2>1, ElsewhereKeepsHold DEF ExecModes
<1>3. CASE ok
  <2>1. f \in Slots /\ process_arr[f] # 1 /\ \A r \in Free : f <= r
    BY <1>3, FirstFreeIsFirst DEF Free
  <2>2. pcb' = [pcb EXCEPT ![f].argument = cpu.cmd.arg]
    BY <1>3 DEF ExecCheck
  <2>3. \/ cpu'.mode = "user"
        \/ cpu'.mode = "load" /\ cpu'.slot = f /\ cpu'.cmd = cpu.cmd
    BY <1>3 DEF ExecCheck, UserMode, ProcessInv, TypeOK, CpuState
  <2> HIDE DEF f
  <2>4. pcb'[f].argument = cpu.cmd.arg
    BY <2>1, <2>2, SizeFacts DEF ProcessInv, TypeOK, Pcb
  <2>5. LoadInv'
    BY <2>3, <2>4 DEF LoadInv
  <2>6. \A s \in Slots : process_arr[s] = 1 => pcb'[s].argument = pcb[s].argument
    BY <2>1, <2>2, SizeFacts DEF ProcessInv, TypeOK
  <2>7. SlotHoldsProgram'
    BY <1>1, <2>6 DEF HoldInv, SlotHoldsProgram
  <2>8. Pending # {} => cpu.cmd = Shell /\ f <= esp0
    BY <1>1, <2>1 DEF ProcessInv, ModeInv, TypeOK, Free
  <2>9. ShellInv'
    BY <1>1, <2>3, <2>8 DEF HoldInv, ShellInv, Pending, ExecModes
  <2>10. QED
    BY <2>5, <2>7, <2>9 DEF HoldInv
<1>4. QED
  BY <1>2, <1>3

LEMMA ExecLoadKeepsHold ==
  ASSUME ProcessInv, HoldInv, ExecLoad
  PROVE  HoldInv'
<1>1. /\ cpu.mode = "load" /\ cpu.slot \in Slots
      /\ process_arr' = [process_arr EXCEPT ![cpu.slot] = 1]
      /\ born' = [born EXCEPT ![cpu.slot] = [cmd |-> cpu.cmd, by |-> cpu.stk]]
      /\ UNCHANGED <<pcb, schedule_arr, esp0, mem>>
  BY DEF ExecLoad, ProcessInv, ModeInv, ExecModes
<1>2. cpu'.mode = "copy" /\ cpu'.slot = cpu.slot /\ cpu'.cmd = cpu.cmd
  BY DEF ExecLoad, ProcessInv, TypeOK, CpuState
<1>3. /\ process_arr'[cpu.slot] = 1 /\ born'[cpu.slot].cmd = cpu.cmd
      /\ \A s \in Slots : s # cpu.slot => process_arr'[s] = process_arr[s] /\ born'[s] = born[s]
  BY <1>1 DEF ProcessInv, TypeOK
<1>4. LoadInv'
  BY <1>1, <1>2, <1>3 DEF HoldInv, LoadInv
<1>5. ShellInv'
  BY <1>1, <1>2, <1>3 DEF HoldInv, ShellInv, Pending, ExecModes
<1>6. SlotHoldsProgram'
  BY <1>1, <1>2, <1>3 DEF HoldInv, LoadInv, SlotHoldsProgram
<1>7. QED
  BY <1>4, <1>5, <1>6 DEF HoldInv

LEMMA ExecCopyKeepsHold ==
  ASSUME ProcessInv, HoldInv, ExecCopy
  PROVE  HoldInv'
<1>1. /\ cpu.mode = "copy" /\ cpu.slot \in Slots /\ page = cpu.slot
      /\ mem' = [mem EXCEPT ![page] = cpu.cmd]
      /\ UNCHANGED <<process_arr, pcb, schedule_arr, esp0, born>>
  BY DEF ExecCopy, ProcessInv, ModeInv, ExecModes
<1>2. cpu'.mode = "link" /\ cpu'.slot = cpu.slot /\ cpu'.cmd = cpu.cmd
  BY DEF ExecCopy, ProcessInv, TypeOK, CpuState
<1>3. mem'[cpu.slot] = cpu.cmd /\ \A s \in Slots : s # cpu.slot => mem'[s] = mem[s]
  BY <1>1 DEF ProcessInv, TypeOK
<1>4. LoadInv'
  BY <1>2 DEF LoadInv
<1>5. ShellInv'
  BY <1>1, <1>2, <1>3 DEF HoldInv, ShellInv, Pending, ExecModes
<1>6. SlotHoldsProgram'
  BY <1>1, <1>2, <1>3 DEF HoldInv, LoadInv, SlotHoldsProgram
<1>7. QED
  BY <1>4, <1>5, <1>6 DEF HoldInv

LEMMA ExecLinkKeepsHold ==
  ASSUME ProcessInv, HoldInv, ExecLink
  PROVE  HoldInv'
<1>1. /\ cpu.mode = "link"
      /\ pcb' = LinkPcb(pcb, cpu.slot, schedule_arr[cur_term_idx], cpu.stk)
      /\ UNCHANGED <<process_arr, schedule_arr, esp0, mem, born>>
  BY DEF ExecLink
<1>2. cpu'.mode = "sched" /\ cpu'.slot = cpu.slot /\ cpu'.cmd = cpu.cmd
  BY DEF ExecLink, ProcessInv, TypeOK, CpuState
<1>3. \A s \in Slots : pcb'[s].argument = pcb[s].argument
  <2> DEFINE k == schedule_arr[cur_term_idx]
  <2>1. cpu.slot \in Slots /\ cpu.stk \in Slots /\ k \in PcbIdx \cup {-1}
    BY <1>1 DEF ProcessInv, ModeInv, ExecModes, TypeOK, CpuState
  <2>2. ASSUME k = -1 PROVE ~(cpu.slot > LastRoot)
    <3>1. cur_term_idx \in Pending /\ cur_term_idx \in Int /\ cur_term_idx <= LastRoot
      BY <2>2, SizeFacts, SizeAssumption DEF ProcessInv, TypeOK, Pending, Terms
    <3>2. cpu.slot < cur_term_idx
      BY <1>1, <3>1 DEF ProcessInv, BootInv, ExecModes
    <3>3. cpu.slot \in Int /\ LastRoot \in Int
      BY <2>1, SizeFacts
    <3>4. QED
      BY <3>1, <3>2, <3>3
  <2> HIDE DEF k
  <2>3. LinkFacts(pcb, cpu.slot, k, cpu.stk, LinkPcb(pcb, cpu.slot, k, cpu.stk))
    BY <2>1, <2>2, LinkPcbFacts DEF ProcessInv, TypeOK
  <2>4. QED
    BY <1>1, <2>3, SizeFacts DEF LinkFacts, k
<1>4. LoadInv'
  BY <1>2 DEF LoadInv
<1>5. ShellInv'
  BY <1>1, <1>2 DEF HoldInv, ShellInv, Pending, ExecModes
<1>6. SlotHoldsProgram'
  BY <1>1, <1>2, <1>3 DEF HoldInv, SlotHoldsProgram
<1>7. QED
  BY <1>4, <1>5, <1>6 DEF HoldInv

LEMMA ExecEndKeepsHold ==
  ASSUME ProcessInv, HoldInv, ExecSched \/ ExecEnter
  PROVE  HoldInv'
<1>1. /\ cpu.mode \in {"sched", "enter"} /\ cpu.slot \in Slots /\ cpu.cmd \in Commands
      /\ UNCHANGED <<process_arr, pcb, mem, born>>
  BY DEF ExecSched, ExecEnter, ProcessInv, ModeInv, ExecModes
<1>2. \/ cpu'.mode = "enter" /\ cpu'.slot = cpu.slot /\ cpu'.cmd = cpu.cmd /\ esp0' = esp0
      \/ cpu'.mode = "user" /\ esp0' = cpu.slot
  BY DEF ExecSched, ExecEnter, UserMode, ProcessInv, TypeOK, CpuState
<1>3. Pending' \subseteq Pending
  BY <1>1, CommandAssumption DEF ExecSched, ExecEnter, Pending, ProcessInv, TypeOK
<1>4. LoadInv' /\ SlotHoldsProgram'
  BY <1>1, <1>2 DEF HoldInv, LoadInv, SlotHoldsProgram
<1>5. ShellInv'
  <2> SUFFICES ASSUME Pending' # {}
               PROVE  ShellInv'
    BY DEF ShellInv
  <2>1. /\ \A s \in Slots : process_arr[s] = 1 => mem[s] = Shell
        /\ \A s \in Slots : s <= esp0 => mem[s] = Shell
        /\ cpu.cmd = Shell /\ cpu.slot <= esp0
    BY <1>1, <1>3 DEF HoldInv, ShellInv, ExecModes
  <2>2. esp0 \in Int /\ cpu.slot \in Int /\ \A s \in Slots : s \in Int
    BY <1>1, SizeFacts DEF ProcessInv, TypeOK
  <2>3. \A s \in Slots : s <= esp0' => mem[s] = Shell
    BY <1>2, <2>1, <2>2
  <2>4. QED
    BY <1>1, <1>2, <2>1, <2>3 DEF ShellInv, ExecModes
<1>6. QED
  BY <1>4, <1>5 DEF HoldInv

\* Steps that change nothing a slot holds.
LEMMA SwitchKeepsHold ==
  ASSUME HoldInv, UNCHANGED <<process_arr, pcb, schedule_arr, esp0, mem, cpu, born>>
  PROVE  HoldInv'
BY DEF HoldInv, LoadInv, ShellInv, SlotHoldsProgram, Pending

LEMMA PitTickKeepsHold ==
  ASSUME ProcessInv, HoldInv, PitTick
  PROVE  HoldInv'
<1> DEFINE s == FirstFree
           t == FirstPending
           sched == [schedule_arr EXCEPT ![t] = t]
           P == [pcb EXCEPT ![s].argument = Shell.arg]
           k == sched[cur_term_idx]
<1>0. t \in Terms /\ t \in Slots /\ t <= LastRoot /\ process_arr[t] # 1
  <2>1. Pending \in SUBSET Nat /\ Pending # {}
    BY SizeAssumption DEF PitTick, Pending, Terms
  <2>2. \E m \in Pending : \A u \in Pending : m <= u
    BY <2>1, LeastExists
  <2>3. t \in Pending
    BY <2>2 DEF FirstPending
  <2>4. t \in Terms /\ t \in Int /\ ~(t < t)
    BY <2>3, SizeAssumption DEF Pending, Terms
  <2>5. t \in Slots /\ t <= LastRoot
    BY <2>3, <2>4, SizeFacts DEF Pending
  <2>6. QED
    BY <2>3, <2>4, <2>5 DEF ProcessInv, BootInv
<1>1. s \in Slots /\ process_arr[s] # 1 /\ \A r \in Free : s <= r
  BY FirstFreeIsFirst DEF PitTick, Free
<1>2. /\ process_arr' = [process_arr EXCEPT ![s] = 1]
      /\ pcb' = LinkPcb(P, s, k, cpu.stk)
      /\ mem' = [mem EXCEPT ![s] = Shell]
      /\ born' = [born EXCEPT ![s] = [cmd |-> Shell, by |-> NULL]]
      /\ esp0' = s /\ cpu'.mode = "user" /\ Pending # {}
  BY DEF PitTick, UserMode
<1> HIDE DEF s, t, k
<1>3. /\ pcb'[s].argument = Shell.arg
      /\ \A r \in Slots : r # s => pcb'[r].argument = pcb[r].argument
  <2>1. \A r \in Slots : pcb'[r].argument = P[r].argument
    <3>1. P \in [PcbIdx -> Pcb]
      BY <1>1, SizeFacts, CommandAssumption DEF ProcessInv, TypeOK, Pcb, Args
    <3>2. k \in PcbIdx \cup {-1}
      BY <1>0, SizeFacts DEF k, ProcessInv, TypeOK
    <3>3. s <= LastRoot /\ cpu.stk \in Slots
      BY <1>0, <1>1, SizeFacts DEF ProcessInv, TypeOK, CpuState, BootInv, Free
    <3>4. ~(s > LastRoot)
      BY <1>1, <3>3, SizeFacts
    <3> HIDE DEF P
    <3>5. LinkFacts(P, s, k, cpu.stk, LinkPcb(P, s, k, cpu.stk))
      BY <1>1, <3>1, <3>2, <3>3, <3>4, LinkPcbFacts
    <3>6. QED
      BY <1>2, <3>5, SizeFacts DEF LinkFacts
  <2>2. P[s].argument = Shell.arg /\ \A r \in Slots : r # s => P[r].argument = pcb[r].argument
    BY <1>1, SizeFacts DEF ProcessInv, TypeOK, Pcb
  <2>3. QED
    BY <1>1, <2>1, <2>2
<1>4. /\ mem'[s] = Shell /\ born'[s].cmd = Shell
      /\ \A r \in Slots : r # s => /\ mem'[r] = mem[r] /\ born'[r] = born[r]
                                   /\ process_arr'[r] = process_arr[r]
  BY <1>1, <1>2 DEF ProcessInv, TypeOK
<1>5. LoadInv'
  BY <1>2 DEF LoadInv
<1>6. \A r \in Slots : process_arr[r] = 1 => mem[r] = Shell
  BY <1>2 DEF HoldInv, ShellInv
<1>7. ShellInv'
  <2>1. \A r \in Slots : process_arr'[r] = 1 => mem'[r] = Shell
    BY <1>4, <1>6
  <2>2. ASSUME NEW r \in Slots, r <= s
        PROVE  mem'[r] = Shell
    <3>1. CASE r = s
      BY <3>1, <1>4
    <3>2. CASE r # s
      <4>1. ~(s <= r)
        BY <1>1, <2>2, <3>2, SizeFacts
      <4>2. process_arr[r] = 1
        BY <1>1, <4>1 DEF Free
      <4>3. QED
        BY <1>4, <1>6, <3>2, <4>2
    <3>3. QED
      BY <3>1, <3>2
  <2>3. QED
    BY <1>2, <2>1, <2>2 DEF ShellInv, ExecModes
<1>8. SlotHoldsProgram'
  <2> SUFFICES ASSUME NEW r \in Slots, process_arr'[r] = 1
               PROVE  pcb'[r].argument = born'[r].cmd.arg /\ mem'[r] = born'[r].cmd
    BY DEF SlotHoldsProgram
  <2>1. CASE r = s
    BY <2>1, <1>3, <1>4
  <2>2. CASE r # s
    <3>1. process_arr[r] = 1 /\ pcb[r].argument = born[r].cmd.arg /\ mem[r] = Shell
      BY <1>4, <1>6, <2>2 DEF HoldInv, SlotHoldsProgram
    <3>2. mem[r] = born[r].cmd
      <4>1. CASE cpu.mode = "copy" /\ cpu.slot = r
        BY <1>2, <3>1, <4>1 DEF HoldInv, LoadInv, ShellInv, ExecModes
      <4>2. CASE ~(cpu.mode = "copy" /\ cpu.slot = r)
        BY <3>1, <4>2 DEF HoldInv, SlotHoldsProgram
      <4>3. QED
        BY <4>1, <4>2
    <3>3. QED
      BY <1>3, <1>4, <2>2, <3>1, <3>2
  <2>3. QED
    BY <2>1, <2>2
<1>9. QED
  BY <1>5, <1>7, <1>8 DEF HoldInv

LEMMA NextHold ==
  ASSUME ProcessInv, HoldInv, [Next]_vars
  PROVE  HoldInv'
<1>1. CASE Syscall \/ Halt \/ \E c \in Commands \cup {NULL} : Execute(c)
  BY <1>1, TrapKeepsHold DEF Syscall, Halt, Execute
<1>2. CASE SysReturn
  <2>1. cpu'.mode = "user"
    BY <1>2 DEF SysReturn, UserMode
  <2>2. QED
    BY <1>2, <2>1, ElsewhereKeepsHold DEF SysReturn, ExecModes
<1>3. CASE Vidmap
  BY <1>3, SwitchKeepsHold DEF Vidmap
<1>4. CASE Exception
  BY <1>4, ExceptionKeepsHold
<1>5. CASE ExecStep
  BY <1>5, ExecCheckKeepsHold, ExecLoadKeepsHold, ExecCopyKeepsHold, ExecLinkKeepsHold,
     ExecEndKeepsHold DEF ExecStep
<1>6. CASE HaltStep
  BY <1>6, HaltClearKeepsHold, HaltKeepsHold DEF HaltStep
<1>7. CASE \E t \in Terms : SwitchTerm(t)
  BY <1>7, SwitchKeepsHold DEF SwitchTerm
<1>8. CASE PitTick
  BY <1>8, PitTickKeepsHold
<1>9. CASE UNCHANGED vars
  BY <1>9, SwitchKeepsHold DEF vars
<1>10. QED
  BY <1>1, <1>2, <1>3, <1>4, <1>5, <1>6, <1>7, <1>8, <1>9 DEF Next

(***************************************************************************)
(* For every number of slots and terminals: a slot in use holds the image  *)
(* and the argument of the command it was marked for, however executes     *)
(* that failed, halts and ticks came between.                              *)
(***************************************************************************)
THEOREM SlotAlwaysHoldsProgram == Spec => []SlotHoldsProgram
<1>1. Init => HoldInv
  BY InitHold
<1>2. ProcessInv /\ HoldInv /\ [Next]_vars => HoldInv'
  BY NextHold
<1>3. HoldInv => SlotHoldsProgram
  BY DEF HoldInv
<1>4. QED
  BY <1>1, <1>2, <1>3, ProcessInvariant, PTL DEF Spec
=============================================================================
