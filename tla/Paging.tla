------------------------------- MODULE Paging -------------------------------
(***************************************************************************)
(* The page directory, the two page tables and the processor's TLB         *)
(* (paging.c, paging_assembly.S), with the callers that switch programs:   *)
(* execute and halt (paging_set_up) and vidmap.                            *)
(*                                                                         *)
(* The processor may walk the tables and cache what it finds at any moment *)
(* after paging is on, also between two stores of the kernel.  A frame is  *)
(* the number in the address field of an entry, in units of 4 KB.          *)
(***************************************************************************)
EXTENDS Integers

CONSTANTS
  Pids,         \* process numbers
  TermNum,      \* pages behind the screen, one a terminal
  PageTable,    \* frame of page_table
  PageTableVM,  \* frame of page_table_VM
  NULL

VIDEO_MEM_ADDR == 184               \* 0xb8
KernelFrame == 1024                 \* 0x00400, 4 MB
ProgramFrame(p) == 2048 + 1024 * p  \* 0x00800 + 0x00400 * process_num

ASSUME PagingAssumption ==
  /\ Pids \subseteq Nat /\ TermNum \in Nat /\ NULL \notin Int
  /\ PageTable \in KernelFrame .. 2047 /\ PageTableVM \in KernelFrame .. 2047
  /\ PageTable # PageTableVM

\* The entries that are ever present, and entry 0 for all the others.
Video == VIDEO_MEM_ADDR .. VIDEO_MEM_ADDR + TermNum
TabIdx == {0} \cup Video
DirIdx == {0, 1, 32, 33}

\* A virtual page: directory entry and table entry (0 within a 4 MB page).
User == <<32, 0>>
Screen == <<33, VIDEO_MEM_ADDR>>
Kernel == <<1, 0>>
VPages == {<<0, t>> : t \in TabIdx} \cup {Kernel, User, <<33, 0>>, Screen}

VARIABLES
  page_dir,       \* the entries that paging.c fills in
  page_table,     \* the table of the first 4 MB
  page_table_VM,  \* the table of the 4 MB at 132 MB
  pg,             \* CR0.PG
  cr4,            \* which of PSE and PGE are set
  tlb,            \* cached translations
  pc,             \* the kernel's next store, or "user"
  cur,            \* the program being switched to or running
  vid             \* is the switch part of a vidmap

tables == <<page_dir, page_table, page_table_VM>>
vars == <<tables, pg, cr4, tlb, pc, cur, vid>>

Frames == {0, PageTable, PageTableVM, KernelFrame} \cup Video
            \cup {ProgramFrame(p) : p \in Pids}

\* The read/write bit is 1 in every entry that is ever present, so no access
\* to a present page fails for it.
Entry == [present : BOOLEAN, user : BOOLEAN, size : BOOLEAN, global : BOOLEAN,
          addr : Frames]
Cached == [frame : Frames, user : BOOLEAN, global : BOOLEAN]

Pcs == {"init", "load", "enable", "kernel", "flags", "addr", "flush",
        "vmflags", "vmaddr", "vmflush", "user"}

\* Static memory starts as zero.
Zero == [present |-> FALSE, user |-> FALSE, size |-> FALSE, global |-> FALSE, addr |-> 0]

Init ==
  /\ page_dir = [d \in DirIdx |-> Zero]
  /\ page_table = [t \in TabIdx |-> Zero]
  /\ page_table_VM = [t \in TabIdx |-> Zero]
  /\ pg = FALSE
  /\ cr4 = {}
  /\ tlb = [v \in VPages |-> NULL]
  /\ pc = "init"
  /\ cur = NULL
  /\ vid = FALSE

-----------------------------------------------------------------------------
(* The processor's page walk.                                              *)

Table(d) == IF page_dir[d].addr = PageTable THEN page_table ELSE page_table_VM

Large(d) == page_dir[d].size /\ "PSE" \in cr4

Mapped(v) == /\ page_dir[v[1]].present
             /\ Large(v[1]) \/ Table(v[1])[v[2]].present

Walk(v) ==
  LET d == page_dir[v[1]]
      t == Table(v[1])[v[2]]
  IN  IF Large(v[1]) THEN [frame |-> d.addr, user |-> d.user, global |-> d.global]
      ELSE [frame |-> t.addr, user |-> d.user /\ t.user, global |-> t.global]

\* An access, of the kernel, of user code or speculative, caches its page.
Fill(v) ==
  /\ pg
  /\ Mapped(v)
  /\ tlb' = [tlb EXCEPT ![v] = Walk(v)]
  /\ UNCHANGED <<tables, pg, cr4, pc, cur, vid>>

\* A write to CR3 drops what is not global; without PGE nothing is global.
Flushed == [v \in VPages |->
              IF tlb[v] # NULL /\ "PGE" \in cr4 /\ tlb[v].global THEN tlb[v] ELSE NULL]

-----------------------------------------------------------------------------
(* paging_init.                                                            *)

\* The kernel's page, the video pages one to one, and an empty table for
\* 132 MB; everything else is not present.
PagingInit ==
  /\ pc = "init"
  /\ page_table' = [t \in TabIdx |->
       IF t = 0 THEN Zero ELSE [Zero EXCEPT !.present = TRUE, !.addr = t]]
  /\ page_dir' = [page_dir EXCEPT
       ![0]  = [Zero EXCEPT !.present = TRUE, !.addr = PageTable],
       ![1]  = [Zero EXCEPT !.present = TRUE, !.size = TRUE, !.global = TRUE,
                            !.addr = KernelFrame],
       ![32] = [Zero EXCEPT !.size = TRUE],
       ![33] = [Zero EXCEPT !.user = TRUE, !.addr = PageTableVM]]
  /\ page_table_VM' = [t \in TabIdx |-> [Zero EXCEPT !.global = TRUE]]
  /\ pc' = "load"
  /\ UNCHANGED <<pg, cr4, tlb, cur, vid>>

\* Mutant of LoadPageDirectory: global pages are enabled too.
LoadPageDirectoryPge ==
  /\ pc = "load"
  /\ cr4' = {"PSE", "PGE"}
  /\ pc' = "enable"
  /\ UNCHANGED <<tables, pg, tlb, cur, vid>>

LoadPageDirectory ==
  /\ pc = "load"
  /\ cr4' = {"PSE"}
  /\ pc' = "enable"
  /\ UNCHANGED <<tables, pg, tlb, cur, vid>>

EnablePaging ==
  /\ pc = "enable"
  /\ pg' = TRUE
  /\ pc' = "kernel"
  /\ UNCHANGED <<tables, cr4, tlb, cur, vid>>

-----------------------------------------------------------------------------
(* paging_set_up and vidmap_paging_set_up.  The stores into the fields of  *)
(* an entry are two steps, the flags and then the address: a walk between  *)
(* two flags finds less than one after the last.                           *)

\* execute and halt switch to program p; a timer tick that starts a shell
\* may do so in the middle of a switch and never comes back to it.  (No
\* program calls vidmap before the last shell is started.)
PagingSetUp(p) ==
  /\ pc = "kernel" \/ (pc \in {"flags", "addr", "flush"} /\ ~vid)
  /\ cur' = p
  /\ pc' = "flags"
  /\ UNCHANGED <<tables, pg, cr4, tlb, vid>>

SetFlags ==
  /\ pc = "flags"
  /\ page_dir' = [page_dir EXCEPT ![32].present = TRUE, ![32].user = TRUE,
                                  ![32].size = TRUE, ![32].global = TRUE]
  /\ pc' = "addr"
  /\ UNCHANGED <<page_table, page_table_VM, pg, cr4, tlb, cur, vid>>

\* Mutant of SetAddr: the pages are laid out from 4 MB on.
SetAddrFromKernel ==
  /\ pc = "addr"
  /\ page_dir' = [page_dir EXCEPT ![32].addr = KernelFrame + 1024 * cur]
  /\ pc' = "flush"
  /\ UNCHANGED <<page_table, page_table_VM, pg, cr4, tlb, cur, vid>>

SetAddr ==
  /\ pc = "addr"
  /\ page_dir' = [page_dir EXCEPT ![32].addr = ProgramFrame(cur)]
  /\ pc' = "flush"
  /\ UNCHANGED <<page_table, page_table_VM, pg, cr4, tlb, cur, vid>>

\* Mutant of FlushTlb: nothing is flushed.
FlushTlbNone ==
  /\ pc \in {"flush", "vmflush"}
  /\ pc' = IF pc = "flush" /\ vid THEN "vmflags" ELSE "kernel"
  /\ vid' = (vid /\ pc = "flush")
  /\ UNCHANGED <<tables, pg, cr4, tlb, cur>>

FlushTlb ==
  /\ pc \in {"flush", "vmflush"}
  /\ tlb' = Flushed
  /\ pc' = IF pc = "flush" /\ vid THEN "vmflags" ELSE "kernel"
  /\ vid' = (vid /\ pc = "flush")
  /\ UNCHANGED <<tables, pg, cr4, cur>>

\* vidmap switches to the program that runs already, then maps the screen.
Vidmap ==
  /\ pc = "kernel"
  /\ cur # NULL
  /\ pc' = "flags"
  /\ vid' = TRUE
  /\ UNCHANGED <<tables, pg, cr4, tlb, cur>>

VmFlags ==
  /\ pc = "vmflags"
  /\ page_dir' = [page_dir EXCEPT ![33].present = TRUE]
  /\ page_table_VM' = [page_table_VM EXCEPT ![VIDEO_MEM_ADDR].present = TRUE,
                                            ![VIDEO_MEM_ADDR].user = TRUE]
  /\ pc' = "vmaddr"
  /\ UNCHANGED <<page_table, pg, cr4, tlb, cur, vid>>

VmAddr ==
  /\ pc = "vmaddr"
  /\ page_table_VM' = [page_table_VM EXCEPT ![VIDEO_MEM_ADDR].addr = VIDEO_MEM_ADDR]
  /\ pc' = "vmflush"
  /\ UNCHANGED <<page_dir, page_table, pg, cr4, tlb, cur, vid>>

-----------------------------------------------------------------------------
(* The boundary between the kernel and programs.                           *)

EnterUser ==
  /\ pc = "kernel"
  /\ cur # NULL
  /\ pc' = "user"
  /\ UNCHANGED <<tables, pg, cr4, tlb, cur, vid>>

Trap ==
  /\ pc = "user"
  /\ pc' = "kernel"
  /\ UNCHANGED <<tables, pg, cr4, tlb, cur, vid>>

Boot == PagingInit \/ LoadPageDirectory \/ EnablePaging
Stores == SetFlags \/ SetAddr \/ VmFlags \/ VmAddr

Next ==
  \/ Boot \/ Stores \/ FlushTlb
  \/ \E p \in Pids : PagingSetUp(p)
  \/ Vidmap \/ EnterUser \/ Trap
  \/ \E v \in VPages : Fill(v)

Spec == Init /\ [][Next]_vars

-----------------------------------------------------------------------------
TypeOK ==
  /\ page_dir \in [DirIdx -> Entry]
  /\ page_table \in [TabIdx -> Entry]
  /\ page_table_VM \in [TabIdx -> Entry]
  /\ pg \in BOOLEAN
  /\ cr4 \subseteq {"PSE", "PGE"}
  /\ tlb \in [VPages -> Cached \cup {NULL}]
  /\ pc \in Pcs
  /\ cur \in Pids \cup {NULL}
  /\ vid \in BOOLEAN

\* What an access to page v finds: what is cached, or else what a walk finds.
Found(v) == IF tlb[v] # NULL THEN {tlb[v]} ELSE IF Mapped(v) THEN {Walk(v)} ELSE {}

(***************************************************************************)
(* Whenever the kernel is not in the middle of a switch, no cached         *)
(* translation differs from the tables: the image that execute copies to   *)
(* 128 MB, and the program that runs there, never meet the page of the     *)
(* program before.  It needs the flush after the last store, and it needs  *)
(* CR4.PGE clear, since the program's entry is marked global.              *)
(***************************************************************************)
NoStale ==
  pc \in {"kernel", "user"} =>
    \A v \in VPages : tlb[v] # NULL => Mapped(v) /\ tlb[v] = Walk(v)

\* User code reaches its own page, the screen, and no other memory, however
\* earlier switches were cut short by ticks.
UserReach ==
  pc = "user" =>
    \A v \in VPages : \A e \in Found(v) :
      e.user => e.frame \in {ProgramFrame(cur), VIDEO_MEM_ADDR}

\* From the moment paging is on, also in the middle of a switch, the kernel
\* finds itself and the video pages where they are, and user code does not.
KernelStays ==
  pg => \A v \in {Kernel} \cup {<<0, t>> : t \in Video} : \E e \in Found(v) :
          /\ e.frame = IF v = Kernel THEN KernelFrame ELSE v[2]
          /\ ~e.user

-----------------------------------------------------------------------------
(* Paging implements AddressSpace.                                         *)

\* The program whose page user code sees at 128 MB.
Seen == {p \in Pids : \E e \in Found(User) : e.user /\ e.frame = ProgramFrame(p)}

Space == INSTANCE AddressSpace WITH
  running <- IF pc = "user" THEN cur ELSE NULL,
  sees    <- IF pc = "user" /\ Seen # {} THEN CHOOSE p \in Seen : TRUE ELSE NULL,
  screen  <- page_table_VM[VIDEO_MEM_ADDR].present

\* Every behaviour of the tables and the TLB is one of AddressSpace.
ImplementsAddressSpace == Space!ASpec
=============================================================================
