---------------------------- MODULE PagingProofs ----------------------------
(***************************************************************************)
(* For any number of programs and of pages behind the screen: no stale     *)
(* translation is met outside a switch, user code reaches its own page and *)
(* the screen only, the kernel stays mapped, and the page tables with the  *)
(* TLB implement AddressSpace.                                             *)
(***************************************************************************)
EXTENDS Paging, TLAPS

\* What paging_init stores once and for all.
TableStored(e) == e.present /\ ~e.size /\ e.user = FALSE /\ e.addr = PageTable
KernelStored(e) ==
  e.present /\ e.size /\ e.user = FALSE /\ e.global = TRUE /\ e.addr = KernelFrame

FixedInv ==
  pc # "init" =>
    /\ TableStored(page_dir[0])
    /\ KernelStored(page_dir[1])
    /\ page_dir[32].size
    /\ page_dir[33].user /\ ~page_dir[33].size /\ page_dir[33].addr = PageTableVM
    /\ page_table = [t \in TabIdx |->
         IF t = 0 THEN Zero ELSE [Zero EXCEPT !.present = TRUE, !.addr = t]]

\* Nothing is mapped or cached before paging is on, and PGE is never set.
BootInv ==
  /\ pg = (pc \notin {"init", "load", "enable"})
  /\ ~pg => /\ \A v \in VPages : tlb[v] = NULL
            /\ ~page_table_VM[VIDEO_MEM_ADDR].present
            /\ cur = NULL
  /\ pc \notin {"init", "load"} => cr4 = {"PSE"}

\* Only the program's page and the screen's ever change.
CacheInv ==
  \A v \in VPages :
    tlb[v] # NULL /\ (pc \in {"kernel", "user"} \/ v \notin {User, Screen}) =>
      Mapped(v) /\ tlb[v] = Walk(v)

\* How far a switch to cur has come.
SwitchInv ==
  /\ pc \in {"flags", "addr", "flush", "vmflags", "vmaddr", "vmflush", "user"} => cur # NULL
  /\ cur # NULL /\ pc # "flags" => page_dir[32].present /\ page_dir[32].user
  /\ cur # NULL /\ pc \notin {"flags", "addr"} => page_dir[32].addr = ProgramFrame(cur)

\* The table of the screen has one entry, which is present when it points there.
ScreenInv ==
  /\ \A t \in TabIdx : t # VIDEO_MEM_ADDR => ~page_table_VM[t].present
  /\ page_table_VM[VIDEO_MEM_ADDR].present /\ pc # "vmaddr" =>
       page_table_VM[VIDEO_MEM_ADDR].addr = VIDEO_MEM_ADDR

PagingInv == TypeOK /\ FixedInv /\ BootInv /\ CacheInv /\ SwitchInv /\ ScreenInv

LEMMA Numbers ==
  /\ TermNum \in Nat /\ PageTable \in Int /\ PageTableVM \in Int
  /\ PageTable # PageTableVM /\ PageTable \in Frames /\ PageTableVM \in Frames
  /\ KernelFrame \in Frames /\ 0 \in Frames /\ VIDEO_MEM_ADDR \in Frames
  /\ \A t \in Video : t \in Int /\ t # 0 /\ t \in Frames
  /\ VIDEO_MEM_ADDR \in Video /\ 0 \in TabIdx /\ VIDEO_MEM_ADDR \in TabIdx
  /\ \A p \in Pids : p \in Nat /\ ProgramFrame(p) \in Frames /\ p # NULL
  /\ \A p, q \in Pids : ProgramFrame(p) = ProgramFrame(q) => p = q
  BY PagingAssumption DEF Frames, Video, TabIdx, VIDEO_MEM_ADDR, KernelFrame, ProgramFrame

\* The entries that paging_init stores in the page directory.
StoredTable == [Zero EXCEPT !.present = TRUE, !.addr = PageTable]
StoredKernel == [Zero EXCEPT !.present = TRUE, !.size = TRUE, !.global = TRUE,
                             !.addr = KernelFrame]

LEMMA Entries ==
  /\ Zero \in Entry /\ StoredTable \in Entry /\ StoredKernel \in Entry
  /\ TableStored(StoredTable) /\ KernelStored(StoredKernel)
<1>1. Zero \in Entry
  BY Numbers DEF Zero, Entry
<1>2. StoredTable \in Entry
  <2>1. [Zero EXCEPT !.present = TRUE] \in Entry
    BY <1>1 DEF Entry
  <2>2. QED
    BY <2>1, Numbers DEF Entry, StoredTable
<1>3. StoredKernel \in Entry
  <2>1. [Zero EXCEPT !.present = TRUE, !.size = TRUE] \in Entry
    BY <1>1 DEF Entry
  <2>2. [Zero EXCEPT !.present = TRUE, !.size = TRUE, !.global = TRUE] \in Entry
    BY <2>1 DEF Entry
  <2>3. QED
    BY <2>2, Numbers DEF Entry, StoredKernel
<1>4. TableStored(StoredTable)
  BY DEF Zero, StoredTable, TableStored
<1>5. KernelStored(StoredKernel)
  BY DEF Zero, StoredKernel, KernelStored
<1>6. QED
  BY <1>1, <1>2, <1>3, <1>4, <1>5

\* The six kinds of virtual pages.
LEMMA PageKinds ==
  ASSUME NEW v \in VPages
  PROVE  \/ \E t \in Video : v = <<0, t>>
         \/ v = <<0, 0>> \/ v = Kernel \/ v = User \/ v = <<33, 0>> \/ v = Screen
  BY DEF VPages, TabIdx

LEMMA PagesApart ==
  /\ Kernel \in VPages /\ User \in VPages /\ Screen \in VPages
  /\ \A t \in Video : <<0, t>> \in VPages
  /\ User[1] = 32 /\ User[2] = 0 /\ Screen[1] = 33 /\ Screen[2] = VIDEO_MEM_ADDR
  /\ Kernel[1] = 1 /\ Kernel[2] = 0
  /\ Kernel \notin {User, Screen} /\ User # Screen
  /\ \A t \in TabIdx : <<0, t>> \notin {Kernel, User, Screen}
  /\ <<33, 0>> \notin {Kernel, User, Screen}
<1>1. Kernel \in VPages /\ User \in VPages /\ Screen \in VPages
  BY DEF VPages
<1>2. \A t \in Video : <<0, t>> \in VPages
  BY DEF VPages, TabIdx
<1>3. /\ User[1] = 32 /\ User[2] = 0 /\ Screen[1] = 33 /\ Screen[2] = VIDEO_MEM_ADDR
      /\ Kernel[1] = 1 /\ Kernel[2] = 0
  BY DEF User, Screen, Kernel
<1>4. \A t \in TabIdx : <<0, t>>[1] = 0
  OBVIOUS
<1>5. Kernel[1] # User[1] /\ Kernel[1] # Screen[1] /\ User[1] # Screen[1]
  BY <1>3
<1>6. \A t \in TabIdx : <<0, t>>[1] # Kernel[1] /\ <<0, t>>[1] # User[1]
                        /\ <<0, t>>[1] # Screen[1]
  BY <1>3
<1>7. <<33, 0>> \notin {Kernel, User, Screen}
  <2>1. <<33, 0>>[1] = 33 /\ <<33, 0>>[2] = 0 /\ VIDEO_MEM_ADDR # 0
    BY DEF VIDEO_MEM_ADDR
  <2>2. QED
    BY <2>1, <1>3
<1>8. QED
  BY <1>1, <1>2, <1>3, <1>5, <1>6, <1>7

\* What a walk finds, page by page, once paging is on.
WalkInv ==
  pg =>
    /\ \A t \in Video :
         /\ Mapped(<<0, t>>)
         /\ Walk(<<0, t>>) = [frame |-> t, user |-> FALSE, global |-> FALSE]
    /\ Mapped(Kernel)
    /\ Walk(Kernel) = [frame |-> KernelFrame, user |-> FALSE, global |-> TRUE]
    /\ ~Mapped(<<0, 0>>) /\ ~Mapped(<<33, 0>>)
    /\ Mapped(User) = page_dir[32].present
    /\ Walk(User) = [frame |-> page_dir[32].addr, user |-> page_dir[32].user,
                     global |-> page_dir[32].global]
    /\ Mapped(Screen) = (page_dir[33].present /\ page_table_VM[VIDEO_MEM_ADDR].present)
    /\ Walk(Screen) = [frame  |-> page_table_VM[VIDEO_MEM_ADDR].addr,
                       user   |-> page_table_VM[VIDEO_MEM_ADDR].user,
                       global |-> page_table_VM[VIDEO_MEM_ADDR].global]

LEMMA WalkFacts == TypeOK /\ FixedInv /\ BootInv /\ ScreenInv => WalkInv
<1> SUFFICES ASSUME TypeOK, FixedInv, BootInv, ScreenInv, pg
             PROVE  WalkInv
  BY DEF WalkInv
<1>1. pc # "init" /\ cr4 = {"PSE"}
  BY DEF BootInv
<1>2. /\ page_dir[0].present /\ ~page_dir[0].size /\ page_dir[0].user = FALSE
      /\ page_dir[0].addr = PageTable
      /\ page_dir[1].present /\ page_dir[1].size /\ page_dir[1].user = FALSE
      /\ page_dir[1].global = TRUE /\ page_dir[1].addr = KernelFrame
  BY <1>1 DEF FixedInv, TableStored, KernelStored
<1>3. /\ page_dir[33].user /\ ~page_dir[33].size /\ page_dir[33].addr = PageTableVM
      /\ page_dir[32].size
  BY <1>1 DEF FixedInv
<1>4. /\ ~page_table[0].present
      /\ \A t \in Video : /\ page_table[t].present /\ page_table[t].user = FALSE
                          /\ page_table[t].global = FALSE /\ page_table[t].addr = t
  <2>1. Video \subseteq TabIdx
    BY DEF TabIdx
  <2>2. /\ page_table[0] = Zero
        /\ \A t \in Video : page_table[t] = [Zero EXCEPT !.present = TRUE, !.addr = t]
    BY <1>1, <2>1, Numbers DEF FixedInv
  <2>3. ~page_table[0].present
    <3>1. page_table[0] = Zero
      BY <2>2
    <3>2. ~Zero.present
      BY DEF Zero
    <3>3. QED
      BY <3>1, <3>2
  <2>4. ASSUME NEW t \in Video
        PROVE  /\ page_table[t].present /\ page_table[t].user = FALSE
               /\ page_table[t].global = FALSE /\ page_table[t].addr = t
    BY <2>2 DEF Zero
  <2>5. QED
    BY <2>3, <2>4
<1>5. ~page_table_VM[0].present
  BY Numbers DEF ScreenInv, VIDEO_MEM_ADDR
<1>6. /\ ~Large(0) /\ ~Large(33) /\ Large(1) /\ Large(32)
      /\ Table(0) = page_table /\ Table(33) = page_table_VM
  BY <1>1, <1>2, <1>3, Numbers DEF Large, Table
<1>7. page_table_VM[VIDEO_MEM_ADDR].user \in BOOLEAN /\ page_dir[33].user = TRUE
  BY <1>3, Numbers DEF TypeOK, Entry, DirIdx
<1>8. \A t : <<0, t>>[1] = 0 /\ <<0, t>>[2] = t /\ <<33, t>>[1] = 33 /\ <<33, t>>[2] = t
  OBVIOUS
<1>9. \A t \in Video :
         /\ Mapped(<<0, t>>)
         /\ Walk(<<0, t>>) = [frame |-> t, user |-> FALSE, global |-> FALSE]
  BY <1>2, <1>4, <1>6, <1>8 DEF Mapped, Walk
<1>10. /\ Mapped(Kernel)
       /\ Walk(Kernel) = [frame |-> KernelFrame, user |-> FALSE, global |-> TRUE]
  <2>1. Mapped(Kernel)
    BY <1>2, <1>6, PagesApart DEF Mapped
  <2>2. Walk(Kernel) = [frame |-> page_dir[1].addr, user |-> page_dir[1].user,
                        global |-> page_dir[1].global]
    BY <1>6, PagesApart DEF Walk
  <2>3. QED
    BY <1>2, <2>1, <2>2
<1>11. ~Mapped(<<0, 0>>) /\ ~Mapped(<<33, 0>>)
  BY <1>4, <1>5, <1>6, <1>8 DEF Mapped
<1>12. /\ Mapped(User) = page_dir[32].present
       /\ Walk(User) = [frame |-> page_dir[32].addr, user |-> page_dir[32].user,
                        global |-> page_dir[32].global]
  BY <1>6, PagesApart DEF Mapped, Walk, TypeOK, Entry, DirIdx
<1>13. /\ Mapped(Screen) = (page_dir[33].present /\ page_table_VM[VIDEO_MEM_ADDR].present)
       /\ Walk(Screen) = [frame  |-> page_table_VM[VIDEO_MEM_ADDR].addr,
                          user   |-> page_table_VM[VIDEO_MEM_ADDR].user,
                          global |-> page_table_VM[VIDEO_MEM_ADDR].global]
  BY <1>6, <1>7, PagesApart DEF Mapped, Walk
<1>14. QED
  BY <1>9, <1>10, <1>11, <1>12, <1>13 DEF WalkInv

THEOREM InitPagingInv == Init => PagingInv
<1> SUFFICES ASSUME Init
             PROVE  PagingInv
  OBVIOUS
<1>1. TypeOK
  BY Entries DEF Init, TypeOK, Pcs
<1>2. \A t \in TabIdx : page_table_VM[t].present = FALSE
  BY DEF Init, Zero
<1>3. FixedInv /\ SwitchInv /\ CacheInv
  BY DEF Init, FixedInv, SwitchInv, CacheInv
<1>4. BootInv /\ ScreenInv
  BY <1>2, Numbers DEF Init, BootInv, ScreenInv
<1>5. QED
  BY <1>1, <1>3, <1>4 DEF PagingInv

LEMMA BootKeepsInv ==
  ASSUME PagingInv, Boot
  PROVE  PagingInv'
<1> USE DEF PagingInv
<1>1. ASSUME PagingInit
      PROVE  PagingInv'
  <2> DEFINE fixed == [t \in TabIdx |->
                IF t = 0 THEN Zero ELSE [Zero EXCEPT !.present = TRUE, !.addr = t]]
  <2>1. /\ page_table' = fixed
        /\ page_table_VM' = [t \in TabIdx |-> [Zero EXCEPT !.global = TRUE]]
        /\ pc = "init" /\ pc' = "load" /\ UNCHANGED <<pg, cr4, tlb, cur, vid>>
    BY <1>1 DEF PagingInit
  <2>2. /\ page_dir'[0] = StoredTable
        /\ page_dir'[1] = StoredKernel
        /\ page_dir'[32] = [Zero EXCEPT !.size = TRUE]
        /\ page_dir'[33] = [Zero EXCEPT !.user = TRUE, !.addr = PageTableVM]
        /\ page_dir' = [d \in DirIdx |-> page_dir'[d]]
    <3> DEFINE r32 == [Zero EXCEPT !.size = TRUE]
               r33 == [Zero EXCEPT !.user = TRUE, !.addr = PageTableVM]
    <3>1. page_dir' = [page_dir EXCEPT ![0] = StoredTable, ![1] = StoredKernel,
                                       ![32] = r32, ![33] = r33]
      BY <1>1 DEF PagingInit, StoredTable, StoredKernel
    <3>2. page_dir \in [DirIdx -> Entry]
      BY DEF TypeOK
    <3> HIDE DEF r32, r33
    <3>3. /\ page_dir'[0] = StoredTable /\ page_dir'[1] = StoredKernel
          /\ page_dir'[32] = r32 /\ page_dir'[33] = r33
      <4>1. 0 \in DirIdx /\ 1 \in DirIdx /\ 32 \in DirIdx /\ 33 \in DirIdx
        BY DEF DirIdx
      <4>2. QED
        BY <3>1, <3>2, <4>1
    <3>4. page_dir' = [d \in DirIdx |-> page_dir'[d]]
      BY <3>1, <3>2
    <3>5. QED
      BY <3>3, <3>4 DEF r32, r33
  <2>3. /\ page_dir'[0] \in Entry /\ page_dir'[1] \in Entry
        /\ page_dir'[32] \in Entry /\ page_dir'[33] \in Entry
    <3>1. page_dir'[32] \in Entry
      BY <2>2, Numbers DEF Entry, Zero
    <3>2. page_dir'[33] \in Entry
      BY <2>2, Numbers DEF Entry, Zero
    <3>3. QED
      BY <2>2, <3>1, <3>2, Entries
  <2>4. page_dir' \in [DirIdx -> Entry]
    BY <2>2, <2>3 DEF DirIdx
  <2>5. fixed \in [TabIdx -> Entry]
    <3>1. ASSUME NEW t \in TabIdx, t # 0
          PROVE  [Zero EXCEPT !.present = TRUE, !.addr = t] \in Entry
      BY <3>1, Numbers DEF TabIdx, Entry, Zero
    <3>2. QED
      BY <3>1, Entries
  <2>6. [Zero EXCEPT !.global = TRUE] \in Entry /\ ~[Zero EXCEPT !.global = TRUE].present
    BY Numbers DEF Entry, Zero
  <2>7. TypeOK'
    BY <2>1, <2>4, <2>5, <2>6 DEF TypeOK, Pcs
  <2>8. page_dir'[32].size /\ page_dir'[33].user /\ ~page_dir'[33].size
        /\ page_dir'[33].addr = PageTableVM
    BY <2>2 DEF Zero
  <2>9. FixedInv'
    BY <2>1, <2>2, <2>8, Entries DEF FixedInv
  <2>10. \A t \in TabIdx : ~page_table_VM'[t].present
    BY <2>1, <2>6
  <2>11. BootInv' /\ SwitchInv' /\ CacheInv' /\ ScreenInv'
    BY <2>1, <2>10, Numbers DEF BootInv, SwitchInv, CacheInv, ScreenInv
  <2>12. QED
    BY <2>7, <2>9, <2>11
<1>2. ASSUME LoadPageDirectory
      PROVE  PagingInv'
  <2>1. TypeOK'
    BY <1>2 DEF LoadPageDirectory, tables, TypeOK, Pcs
  <2>2. FixedInv' /\ BootInv' /\ SwitchInv' /\ CacheInv' /\ ScreenInv'
    BY <1>2 DEF LoadPageDirectory, tables, FixedInv, BootInv, SwitchInv, CacheInv, ScreenInv
  <2>3. QED
    BY <2>1, <2>2
<1>3. ASSUME EnablePaging
      PROVE  PagingInv'
  <2>1. TypeOK'
    BY <1>3 DEF EnablePaging, tables, TypeOK, Pcs
  <2>2. FixedInv' /\ BootInv' /\ SwitchInv' /\ CacheInv' /\ ScreenInv'
    BY <1>3 DEF EnablePaging, tables, FixedInv, BootInv, SwitchInv, CacheInv, ScreenInv
  <2>3. QED
    BY <2>1, <2>2
<1>4. QED
  BY <1>1, <1>2, <1>3 DEF Boot

\* A store into the entries of the program's page or the screen changes no
\* translation of another page.
LEMMA StoresKeepCache ==
  ASSUME PagingInv, pg, pg', TypeOK', FixedInv', BootInv', ScreenInv',
         tlb' = tlb, pc' \notin {"kernel", "user"}
  PROVE  CacheInv'
<1>1. WalkInv
  BY WalkFacts DEF PagingInv
<1>2. WalkInv'
  BY WalkFacts, PTL
<1> SUFFICES ASSUME NEW v \in VPages, tlb[v] # NULL, v \notin {User, Screen}
             PROVE  Mapped(v)' /\ tlb[v] = Walk(v)'
  BY DEF CacheInv
<1>3. Mapped(v) /\ tlb[v] = Walk(v)
  BY DEF PagingInv, CacheInv
<1>4. (\E t \in Video : v = <<0, t>>) \/ v = Kernel
  BY <1>1, <1>3, PageKinds DEF WalkInv
<1>5. CASE v = Kernel
  BY <1>1, <1>2, <1>3, <1>5 DEF WalkInv
<1>6. ASSUME NEW t \in Video, v = <<0, t>>
      PROVE  Mapped(v)' /\ tlb[v] = Walk(v)'
  BY <1>1, <1>2, <1>3, <1>6 DEF WalkInv
<1>7. QED
  BY <1>4, <1>5, <1>6

\* Steps that leave the tables alone leave what a walk finds.
LEMMA SameWalks ==
  ASSUME UNCHANGED tables, UNCHANGED cr4
  PROVE  \A v : Mapped(v)' = Mapped(v) /\ Walk(v)' = Walk(v)
  BY DEF tables, Mapped, Walk, Large, Table

LEMMA CachedRecord ==
  ASSUME NEW f \in Frames, NEW u \in BOOLEAN, NEW g \in BOOLEAN
  PROVE  [frame |-> f, user |-> u, global |-> g] \in Cached
  BY DEF Cached

LEMMA FillKeepsInv ==
  ASSUME PagingInv, NEW v \in VPages, Fill(v)
  PROVE  PagingInv'
<1>1. /\ pg /\ Mapped(v) /\ tlb' = [tlb EXCEPT ![v] = Walk(v)]
      /\ UNCHANGED <<page_dir, page_table, page_table_VM, pg, cr4, pc, cur, vid>>
  BY DEF Fill, tables
<1>2. tlb \in [VPages -> Cached \cup {NULL}]
  BY DEF PagingInv, TypeOK
<1>3. Walk(v) \in Cached
  <2>1. WalkInv
    BY WalkFacts DEF PagingInv
  <2>2. /\ page_dir[32] \in Entry /\ page_table_VM[VIDEO_MEM_ADDR] \in Entry
        /\ KernelFrame \in Frames /\ \A t \in Video : t \in Frames
    BY Numbers DEF PagingInv, TypeOK, DirIdx
  <2>3. (\E t \in Video : v = <<0, t>>) \/ v \in {Kernel, User, Screen}
    BY <1>1, <2>1, PageKinds DEF WalkInv
  <2>4. ASSUME NEW t \in Video, v = <<0, t>>
        PROVE  Walk(v) \in Cached
    <3>1. Walk(v) = [frame |-> t, user |-> FALSE, global |-> FALSE]
      BY <1>1, <2>1, <2>4 DEF WalkInv
    <3>2. QED
      BY <2>2, <3>1, CachedRecord
  <2>5. CASE v = Kernel
    <3>1. Walk(v) = [frame |-> KernelFrame, user |-> FALSE, global |-> TRUE]
      BY <1>1, <2>1, <2>5 DEF WalkInv
    <3>2. QED
      BY <2>2, <3>1, CachedRecord
  <2>6. CASE v = User
    BY <1>1, <2>1, <2>2, <2>6 DEF WalkInv, Cached, Entry
  <2>7. CASE v = Screen
    BY <1>1, <2>1, <2>2, <2>7 DEF WalkInv, Cached, Entry
  <2>8. QED
    BY <2>3, <2>4, <2>5, <2>6, <2>7
<1>4. TypeOK'
  <2>1. tlb' \in [VPages -> Cached \cup {NULL}]
    BY <1>1, <1>2, <1>3
  <2>2. QED
    BY <1>1, <2>1 DEF PagingInv, TypeOK
<1>5. \A w : Mapped(w)' = Mapped(w) /\ Walk(w)' = Walk(w)
  BY <1>1, SameWalks DEF tables
<1>6. CacheInv'
  BY <1>1, <1>2, <1>5 DEF PagingInv, CacheInv
<1>7. FixedInv' /\ BootInv' /\ SwitchInv' /\ ScreenInv'
  BY <1>1 DEF PagingInv, FixedInv, BootInv, SwitchInv, ScreenInv
<1>8. QED
  BY <1>4, <1>6, <1>7 DEF PagingInv

LEMMA StoresKeepInv ==
  ASSUME PagingInv, Stores
  PROVE  PagingInv'
<1> USE DEF PagingInv
<1>1. pg /\ pg' = pg /\ tlb' = tlb /\ cur' = cur /\ cur \in Pids /\ UNCHANGED <<cr4, vid>>
  BY DEF Stores, SetFlags, SetAddr, VmFlags, VmAddr, BootInv, SwitchInv, TypeOK
<1>2. /\ page_dir \in [DirIdx -> Entry] /\ page_table_VM \in [TabIdx -> Entry]
      /\ 32 \in DirIdx /\ 33 \in DirIdx /\ 0 \in DirIdx /\ 1 \in DirIdx
      /\ VIDEO_MEM_ADDR \in TabIdx /\ VIDEO_MEM_ADDR \in Frames
      /\ ProgramFrame(cur) \in Frames
  BY <1>1, Numbers DEF TypeOK, DirIdx
<1>3. CASE SetFlags
  <2>1. /\ page_dir' = [page_dir EXCEPT ![32] = page_dir'[32]]
        /\ page_dir'[32] \in Entry
        /\ page_dir'[32].present /\ page_dir'[32].user /\ page_dir'[32].size
    <3>1. page_dir'[32] = [[[[page_dir[32] EXCEPT !.present = TRUE] EXCEPT !.user = TRUE]
                              EXCEPT !.size = TRUE] EXCEPT !.global = TRUE]
      BY <1>2, <1>3 DEF SetFlags
    <3>2. page_dir' = [page_dir EXCEPT ![32] = page_dir'[32]]
      BY <1>2, <1>3 DEF SetFlags
    <3>3. page_dir[32] \in Entry
      BY <1>2
    <3>4. QED
      BY <3>1, <3>2, <3>3 DEF Entry
  <2>2. page_dir' \in [DirIdx -> Entry] /\ UNCHANGED <<page_dir[0], page_dir[1], page_dir[33]>>
    BY <1>2, <2>1
  <2>3. pc = "flags" /\ pc' = "addr" /\ UNCHANGED <<page_table, page_table_VM>>
    BY <1>3 DEF SetFlags
  <2>4. TypeOK'
    BY <1>1, <2>2, <2>3 DEF TypeOK, Pcs
  <2>5. FixedInv' /\ BootInv' /\ SwitchInv' /\ ScreenInv'
    BY <1>1, <2>1, <2>2, <2>3 DEF FixedInv, BootInv, SwitchInv, ScreenInv
  <2>6. QED
    BY <1>1, <2>3, <2>4, <2>5, StoresKeepCache
<1>4. CASE SetAddr
  <2>1. /\ page_dir' = [page_dir EXCEPT ![32] = page_dir'[32]]
        /\ page_dir'[32] \in Entry /\ page_dir'[32].addr = ProgramFrame(cur)
        /\ page_dir'[32].present = page_dir[32].present
        /\ page_dir'[32].user = page_dir[32].user
        /\ page_dir'[32].size = page_dir[32].size
    BY <1>2, <1>4 DEF SetAddr, Entry
  <2>2. page_dir' \in [DirIdx -> Entry] /\ UNCHANGED <<page_dir[0], page_dir[1], page_dir[33]>>
    BY <1>2, <2>1
  <2>3. pc = "addr" /\ pc' = "flush" /\ UNCHANGED <<page_table, page_table_VM>>
    BY <1>4 DEF SetAddr
  <2>4. TypeOK'
    BY <1>1, <2>2, <2>3 DEF TypeOK, Pcs
  <2>5. FixedInv' /\ BootInv' /\ SwitchInv' /\ ScreenInv'
    BY <1>1, <2>1, <2>2, <2>3 DEF FixedInv, BootInv, SwitchInv, ScreenInv
  <2>6. QED
    BY <1>1, <2>3, <2>4, <2>5, StoresKeepCache
<1>5. CASE VmFlags
  <2>1. /\ page_dir' = [page_dir EXCEPT ![33] = page_dir'[33]]
        /\ page_dir'[33] \in Entry
        /\ page_dir'[33].user = page_dir[33].user
        /\ page_dir'[33].size = page_dir[33].size
        /\ page_dir'[33].addr = page_dir[33].addr
        /\ page_table_VM' = [page_table_VM EXCEPT ![VIDEO_MEM_ADDR] = page_table_VM'[VIDEO_MEM_ADDR]]
        /\ page_table_VM'[VIDEO_MEM_ADDR] \in Entry
    <3>1. page_dir' = [page_dir EXCEPT ![33] = [page_dir[33] EXCEPT !.present = TRUE]]
      BY <1>5 DEF VmFlags
    <3>2. [page_dir[33] EXCEPT !.present = TRUE] \in Entry
      BY <1>2 DEF Entry
    <3>3. page_table_VM' = [page_table_VM EXCEPT ![VIDEO_MEM_ADDR] =
             [page_table_VM[VIDEO_MEM_ADDR] EXCEPT !.present = TRUE, !.user = TRUE]]
      BY <1>2, <1>5 DEF VmFlags
    <3>4. [page_table_VM[VIDEO_MEM_ADDR] EXCEPT !.present = TRUE, !.user = TRUE] \in Entry
      BY <1>2 DEF Entry
    <3>5. /\ page_dir'[33] = [page_dir[33] EXCEPT !.present = TRUE]
          /\ page_table_VM'[VIDEO_MEM_ADDR] =
               [page_table_VM[VIDEO_MEM_ADDR] EXCEPT !.present = TRUE, !.user = TRUE]
      BY <1>2, <3>1, <3>3
    <3>6. /\ page_dir'[33].user = page_dir[33].user
          /\ page_dir'[33].size = page_dir[33].size
          /\ page_dir'[33].addr = page_dir[33].addr
      <4>1. page_dir[33] \in Entry
        BY <1>2
      <4>2. QED
        BY <3>5, <4>1 DEF Entry
    <3>7. QED
      BY <3>1, <3>2, <3>3, <3>4, <3>5, <3>6
  <2>2. /\ page_dir' \in [DirIdx -> Entry]
        /\ UNCHANGED <<page_dir[0], page_dir[1], page_dir[32]>>
        /\ page_table_VM' \in [TabIdx -> Entry]
        /\ \A t \in TabIdx : t # VIDEO_MEM_ADDR => page_table_VM'[t] = page_table_VM[t]
    BY <1>2, <2>1
  <2>3. pc = "vmflags" /\ pc' = "vmaddr" /\ UNCHANGED page_table
    BY <1>5 DEF VmFlags
  <2>4. TypeOK'
    BY <1>1, <2>2, <2>3 DEF TypeOK, Pcs
  <2>5. FixedInv' /\ BootInv' /\ SwitchInv' /\ ScreenInv'
    BY <1>1, <2>1, <2>2, <2>3 DEF FixedInv, BootInv, SwitchInv, ScreenInv
  <2>6. QED
    BY <1>1, <2>3, <2>4, <2>5, StoresKeepCache
<1>6. CASE VmAddr
  <2>1. /\ page_table_VM' = [page_table_VM EXCEPT ![VIDEO_MEM_ADDR] = page_table_VM'[VIDEO_MEM_ADDR]]
        /\ page_table_VM'[VIDEO_MEM_ADDR] \in Entry
        /\ page_table_VM'[VIDEO_MEM_ADDR].addr = VIDEO_MEM_ADDR
    BY <1>2, <1>6 DEF VmAddr, Entry
  <2>2. /\ page_table_VM' \in [TabIdx -> Entry]
        /\ \A t \in TabIdx : t # VIDEO_MEM_ADDR => page_table_VM'[t] = page_table_VM[t]
    BY <1>2, <2>1
  <2>3. pc = "vmaddr" /\ pc' = "vmflush" /\ UNCHANGED <<page_dir, page_table>>
    BY <1>6 DEF VmAddr
  <2>4. TypeOK'
    BY <1>1, <2>2, <2>3 DEF TypeOK, Pcs
  <2>5. FixedInv' /\ BootInv' /\ SwitchInv' /\ ScreenInv'
    BY <1>1, <2>1, <2>2, <2>3 DEF FixedInv, BootInv, SwitchInv, ScreenInv
  <2>6. QED
    BY <1>1, <2>3, <2>4, <2>5, StoresKeepCache
<1>7. QED
  BY <1>3, <1>4, <1>5, <1>6 DEF Stores

\* CR4.PGE is clear, so a write to CR3 drops every translation.
LEMMA FlushKeepsInv ==
  ASSUME PagingInv, FlushTlb
  PROVE  PagingInv'
<1> USE DEF PagingInv
<1>1. /\ pc \in {"flush", "vmflush"} /\ pc' \in {"kernel", "vmflags"}
      /\ UNCHANGED <<page_dir, page_table, page_table_VM, pg, cr4, cur>> /\ vid' \in BOOLEAN
      /\ tlb' = Flushed
  BY DEF FlushTlb, tables, TypeOK
<1>2. "PGE" \notin cr4 /\ pg
  BY <1>1 DEF BootInv
<1>3. tlb' = [v \in VPages |-> NULL]
  BY <1>1, <1>2 DEF Flushed
<1>4. TypeOK'
  BY <1>1, <1>3 DEF TypeOK, Pcs
<1>5. FixedInv' /\ BootInv' /\ CacheInv' /\ SwitchInv' /\ ScreenInv'
  BY <1>1, <1>2, <1>3 DEF FixedInv, BootInv, CacheInv, SwitchInv, ScreenInv
<1>6. QED
  BY <1>4, <1>5

\* The other steps move the program counter only.
LEMMA ControlKeepsInv ==
  ASSUME PagingInv, \/ \E p \in Pids : PagingSetUp(p)
                    \/ Vidmap \/ EnterUser \/ Trap \/ UNCHANGED vars
  PROVE  PagingInv'
<1> USE DEF PagingInv
<1>1. UNCHANGED <<page_dir, page_table, page_table_VM, pg, cr4, tlb>>
  BY DEF PagingSetUp, Vidmap, EnterUser, Trap, vars, tables
<1>2. /\ cur' \in Pids \cup {NULL} /\ vid' \in BOOLEAN /\ pc' \in Pcs
      /\ cur' # NULL \/ UNCHANGED <<cur, pc>>
      /\ pc \in {"kernel", "user", "flags", "addr", "flush"} \/ UNCHANGED <<cur, pc, vid>>
      /\ pc' \in {"kernel", "user", "flags"} \/ UNCHANGED <<cur, pc, vid>>
      /\ pc' \in {"kernel", "user"} => pc \in {"kernel", "user"}
      /\ pc' = "flags" \/ UNCHANGED cur
      /\ pc' # "flags" => (pc # "flags" \/ UNCHANGED <<cur, pc, vid>>)
  BY Numbers DEF PagingSetUp, Vidmap, EnterUser, Trap, vars, TypeOK, Pcs, SwitchInv
<1>3. \A w : Mapped(w)' = Mapped(w) /\ Walk(w)' = Walk(w)
  BY <1>1, SameWalks DEF tables
<1>4. TypeOK'
  BY <1>1, <1>2 DEF TypeOK
<1>5. FixedInv' /\ BootInv' /\ ScreenInv'
  BY <1>1, <1>2 DEF FixedInv, BootInv, ScreenInv
<1>6. SwitchInv'
  BY <1>1, <1>2 DEF SwitchInv
<1>7. CacheInv'
  BY <1>1, <1>2, <1>3 DEF CacheInv
<1>8. QED
  BY <1>4, <1>5, <1>6, <1>7

THEOREM NextPagingInv == PagingInv /\ [Next]_vars => PagingInv'
<1> SUFFICES ASSUME PagingInv, [Next]_vars
             PROVE  PagingInv'
  OBVIOUS
<1>1. CASE Boot
  BY <1>1, BootKeepsInv
<1>2. CASE Stores
  BY <1>2, StoresKeepInv
<1>3. CASE FlushTlb
  BY <1>3, FlushKeepsInv
<1>4. CASE \E v \in VPages : Fill(v)
  BY <1>4, FillKeepsInv
<1>5. CASE (\E p \in Pids : PagingSetUp(p)) \/ Vidmap \/ EnterUser \/ Trap \/ UNCHANGED vars
  BY <1>5, ControlKeepsInv
<1>6. QED
  BY <1>1, <1>2, <1>3, <1>4, <1>5 DEF Next

\* The tables' and the TLB's inductive invariant holds in every reachable state.
THEOREM PagingInvariant == Spec => []PagingInv
  BY InitPagingInv, NextPagingInv, PTL DEF Spec

-----------------------------------------------------------------------------
LEMMA InvNoStale == PagingInv => NoStale
  BY DEF PagingInv, CacheInv, NoStale

\* In user mode an access to a page finds what a walk finds, or nothing.
LEMMA UserFinds ==
  ASSUME PagingInv, pc = "user", NEW v \in VPages
  PROVE  Found(v) = IF Mapped(v) THEN {Walk(v)} ELSE {}
<1>1. tlb[v] # NULL => Mapped(v) /\ tlb[v] = Walk(v)
  BY DEF PagingInv, CacheInv
<1>2. QED
  BY <1>1 DEF Found

LEMMA InvUserReach == PagingInv => UserReach
<1> SUFFICES ASSUME PagingInv, pc = "user", NEW v \in VPages, NEW e \in Found(v), e.user
             PROVE  e.frame \in {ProgramFrame(cur), VIDEO_MEM_ADDR}
  BY DEF UserReach
<1>1. WalkInv /\ pg
  BY WalkFacts DEF PagingInv, BootInv
<1>2. Mapped(v) /\ e = Walk(v)
  BY UserFinds
<1>3. (\E t \in Video : v = <<0, t>>) \/ v \in {Kernel, User, Screen}
  BY <1>1, <1>2, PageKinds DEF WalkInv
<1>4. ASSUME NEW t \in Video, v = <<0, t>>
      PROVE  FALSE
  <2>1. Walk(v) = [frame |-> t, user |-> FALSE, global |-> FALSE]
    BY <1>1, <1>4 DEF WalkInv
  <2>2. QED
    BY <1>2, <2>1
<1>5. CASE v = Kernel
  <2>1. Walk(v) = [frame |-> KernelFrame, user |-> FALSE, global |-> TRUE]
    BY <1>1, <1>5 DEF WalkInv
  <2>2. QED
    BY <1>2, <2>1
<1>6. CASE v = User
  <2>1. e.frame = page_dir[32].addr
    BY <1>1, <1>2, <1>6 DEF WalkInv
  <2>2. QED
    BY <2>1 DEF PagingInv, SwitchInv
<1>7. CASE v = Screen
  <2>1. e.frame = page_table_VM[VIDEO_MEM_ADDR].addr
    BY <1>1, <1>2, <1>7 DEF WalkInv
  <2>2. page_table_VM[VIDEO_MEM_ADDR].present
    <3>1. Mapped(Screen) => page_table_VM[VIDEO_MEM_ADDR].present
      BY <1>1 DEF WalkInv
    <3>2. QED
      BY <1>2, <1>7, <3>1
  <2>3. QED
    BY <2>1, <2>2 DEF PagingInv, ScreenInv
<1>8. QED
  BY <1>3, <1>4, <1>5, <1>6, <1>7

LEMMA InvKernelStays == PagingInv => KernelStays
<1> SUFFICES ASSUME PagingInv, pg, NEW v \in {Kernel} \cup {<<0, t>> : t \in Video}
             PROVE  \E e \in Found(v) :
                      e.frame = (IF v = Kernel THEN KernelFrame ELSE v[2]) /\ ~e.user
  BY DEF KernelStays
<1>1. WalkInv
  BY WalkFacts DEF PagingInv
<1>2. v \in VPages /\ v \notin {User, Screen}
  BY PagesApart DEF TabIdx
<1>3. Mapped(v)
  BY <1>1 DEF WalkInv
<1>4. Walk(v) \in Found(v)
  BY <1>2, <1>3 DEF PagingInv, CacheInv, Found
<1>5. CASE v = Kernel
  <2>1. Walk(v) = [frame |-> KernelFrame, user |-> FALSE, global |-> TRUE]
    BY <1>1, <1>5 DEF WalkInv
  <2>2. Walk(v).frame = KernelFrame /\ ~Walk(v).user
    BY <2>1
  <2>3. QED
    BY <1>4, <1>5, <2>2
<1>6. ASSUME NEW t \in Video, v = <<0, t>>
      PROVE  \E e \in Found(v) :
               e.frame = (IF v = Kernel THEN KernelFrame ELSE v[2]) /\ ~e.user
  <2>1. Walk(v) = [frame |-> t, user |-> FALSE, global |-> FALSE] /\ v # Kernel /\ v[2] = t
    BY <1>1, <1>6, PagesApart DEF WalkInv, TabIdx
  <2>2. Walk(v).frame = t /\ ~Walk(v).user
    BY <2>1
  <2>3. QED
    BY <1>4, <2>1, <2>2
<1>7. QED
  BY <1>5, <1>6

\* The page tables and the TLB keep their types.
THEOREM PagingTypeCorrect == Spec => []TypeOK
<1>1. PagingInv => TypeOK
  BY DEF PagingInv
<1>2. QED
  BY <1>1, PagingInvariant, PTL

\* The kernel and programs never meet a stale translation (paging_set_up).
THEOREM NeverStale == Spec => []NoStale
  BY PagingInvariant, InvNoStale, PTL

\* User code reaches its own page and the screen only (paging_set_up, vidmap).
THEOREM UserAlwaysConfined == Spec => []UserReach
  BY PagingInvariant, InvUserReach, PTL

\* The kernel and the video pages stay mapped, for the kernel only (paging_init).
THEOREM KernelAlwaysStays == Spec => []KernelStays
  BY PagingInvariant, InvKernelStays, PTL

-----------------------------------------------------------------------------
(* The refinement.                                                         *)

\* In user mode the page at 128 MB is the running program's.
LEMMA SeesOwn ==
  ASSUME PagingInv, pc = "user"
  PROVE  cur \in Pids /\ Seen = {cur}
<1>1. WalkInv /\ pg /\ cur \in Pids
  BY WalkFacts DEF PagingInv, BootInv, SwitchInv, TypeOK
<1>2. /\ page_dir[32].present /\ page_dir[32].user = TRUE
      /\ page_dir[32].addr = ProgramFrame(cur)
  BY <1>1, Numbers DEF PagingInv, SwitchInv, TypeOK, Entry, DirIdx
<1>3. Mapped(User) /\ Walk(User).user = TRUE /\ Walk(User).frame = ProgramFrame(cur)
  BY <1>1, <1>2 DEF WalkInv
<1>4. Found(User) = {Walk(User)}
  BY <1>3, UserFinds, PagesApart
<1>5. QED
  BY <1>1, <1>3, <1>4, Numbers DEF Seen

\* The refinement mapping by its parts.
absRunning == IF pc = "user" THEN cur ELSE NULL
absSees == IF pc = "user" /\ Seen # {} THEN CHOOSE p \in Seen : TRUE ELSE NULL
absScreen == page_table_VM[VIDEO_MEM_ADDR].present

MapInv ==
  /\ absSees = absRunning
  /\ pc = "user" => absRunning = cur /\ cur \in Pids /\ cur # NULL
  /\ pc # "user" => absRunning = NULL

LEMMA Mapping == PagingInv => MapInv
<1> SUFFICES ASSUME PagingInv
             PROVE  MapInv
  OBVIOUS
<1>1. CASE pc = "user"
  <2>1. cur \in Pids /\ Seen = {cur} /\ cur # NULL
    BY <1>1, SeesOwn, Numbers
  <2>2. (CHOOSE p \in Seen : TRUE) = cur
    BY <2>1
  <2>3. QED
    BY <1>1, <2>1, <2>2 DEF MapInv, absRunning, absSees
<1>2. CASE pc # "user"
  BY <1>2 DEF MapInv, absRunning, absSees
<1>3. QED
  BY <1>1, <1>2

LEMMA InitRefines == Init => Space!AInit
<1> SUFFICES ASSUME Init
             PROVE  Space!AInit
  OBVIOUS
<1>1. page_table_VM[VIDEO_MEM_ADDR].present = FALSE
  BY Numbers DEF Init, Zero
<1>2. QED
  BY <1>1 DEF Init, Space!AInit

\* The screen appears in VmFlags and in no other step.
LEMMA ScreenStep ==
  ASSUME PagingInv, Next, ~VmFlags
  PROVE  absScreen' = absScreen
<1>1. page_table_VM \in [TabIdx -> Entry] /\ VIDEO_MEM_ADDR \in TabIdx
  BY Numbers DEF PagingInv, TypeOK
<1>2. CASE PagingInit
  <2>1. page_table_VM'[VIDEO_MEM_ADDR].present = FALSE
    BY <1>1, <1>2 DEF PagingInit, Zero
  <2>2. page_table_VM[VIDEO_MEM_ADDR].present = FALSE
    BY <1>1, <1>2 DEF PagingInit, PagingInv, BootInv, Entry
  <2>3. QED
    BY <2>1, <2>2 DEF absScreen
<1>3. CASE VmAddr
  BY <1>1, <1>3 DEF VmAddr, absScreen
<1>4. CASE UNCHANGED page_table_VM
  BY <1>4 DEF absScreen
<1>5. QED
  BY <1>2, <1>3, <1>4 DEF Next, Boot, Stores, LoadPageDirectory, EnablePaging, SetFlags,
     SetAddr, FlushTlb, PagingSetUp, Vidmap, EnterUser, Trap, Fill, tables

LEMMA StepRefines ==
  ASSUME PagingInv, PagingInv', [Next]_vars
  PROVE  [Space!ANext]_(Space!aVars)
<1>1. MapInv
  BY Mapping
<1>2. MapInv'
  BY Mapping, PTL
<1> USE DEF Space!ANext, Space!Resume, Space!Enter, Space!ShowScreen, Space!aVars
<1>3. ASSUME absRunning' = absRunning, absScreen' = absScreen
      PROVE  UNCHANGED Space!aVars
  BY <1>1, <1>2, <1>3 DEF MapInv, absRunning, absSees, absScreen
<1>4. CASE UNCHANGED vars
  BY <1>3, <1>4 DEF vars, tables, absRunning, absScreen
<1>5. CASE EnterUser
  <2>1. /\ absRunning = NULL /\ cur \in Pids /\ absRunning' = cur /\ absSees' = cur
        /\ absScreen' = absScreen
    BY <1>1, <1>2, <1>5 DEF EnterUser, MapInv, tables, absScreen
  <2>2. Space!Resume(cur)
    BY <2>1 DEF absRunning, absSees, absScreen
  <2>3. QED
    BY <2>1, <2>2
<1>6. CASE Trap
  <2>1. absRunning # NULL /\ absRunning' = NULL /\ absSees' = NULL /\ absScreen' = absScreen
    BY <1>1, <1>2, <1>6 DEF Trap, MapInv, tables, absScreen
  <2>2. Space!Enter
    BY <2>1 DEF absRunning, absSees, absScreen
  <2>3. QED
    BY <2>2
<1>7. CASE VmFlags
  <2>1. page_table_VM'[VIDEO_MEM_ADDR].present = TRUE
    BY <1>7, Numbers DEF VmFlags, PagingInv, TypeOK, Entry
  <2>2. absRunning = NULL /\ absRunning' = NULL /\ absSees = NULL /\ absSees' = NULL
    BY <1>1, <1>2, <1>7 DEF VmFlags, MapInv
  <2>3. Space!ShowScreen
    BY <2>1, <2>2 DEF absRunning, absSees
  <2>4. QED
    BY <2>3
<1>8. CASE Next /\ ~EnterUser /\ ~Trap /\ ~VmFlags
  <2>1. absScreen' = absScreen
    BY <1>8, ScreenStep
  <2>2. (pc' = "user") = (pc = "user") /\ (pc = "user" => cur' = cur)
    BY <1>8 DEF Next, Boot, Stores, PagingInit, LoadPageDirectory, EnablePaging, SetFlags,
       SetAddr, VmAddr, FlushTlb, PagingSetUp, Vidmap, Fill
  <2>3. absRunning' = absRunning
    BY <2>2 DEF absRunning
  <2>4. QED
    BY <1>3, <2>1, <2>3
<1>9. QED
  BY <1>4, <1>5, <1>6, <1>7, <1>8

\* Page tables and TLB together keep the promise of AddressSpace.
THEOREM PagingRefines == Spec => ImplementsAddressSpace
<1>1. PagingInv /\ PagingInv' /\ [Next]_vars => [Space!ANext]_(Space!aVars)
  BY StepRefines
<1>2. QED
  BY <1>1, InitRefines, PagingInvariant, PTL DEF Spec, ImplementsAddressSpace, Space!ASpec
=============================================================================
