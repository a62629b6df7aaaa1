------------------------------- MODULE Memory -------------------------------
(***************************************************************************)
(* The library's memory functions written in assembly (lib.c): memset,     *)
(* memset_word, memset_dword, memcpy and memmove.  A step is one turn of   *)
(* a loop, or one repetition of a string instruction.  The direction flag  *)
(* DF belongs to the processor and outlives a call.                        *)
(***************************************************************************)
EXTENDS Integers

CONSTANTS
  Size,    \* bytes of memory
  Bytes,   \* values of a byte
  Values,  \* values of four bytes, the lowest first
  Fresh,   \* contents that a call may find memory in
  NULL

Addr == 0 .. Size - 1

ASSUME MemoryAssumption ==
  /\ Size \in Nat
  /\ Values \subseteq [0 .. 3 -> Bytes]
  /\ Fresh \subseteq [Addr -> Bytes]

VARIABLES
  mem,             \* the memory
  old,             \* history: the memory when the function was called
  arg,             \* the call in progress, [fn, s, src, c, n], or NULL
  at,              \* the function's next step, "idle" between calls
  edi, esi, ecx, edx,
  df               \* TRUE: string instructions count down

mVars == <<mem, old, arg, at, edi, esi, ecx, edx, df>>

Fills == {"memset", "memset_word", "memset_dword"}
Copies == {"memcpy", "memmove"}
Calls == [fn : Fills \cup Copies, s : Addr, src : Addr, c : Values, n : 0 .. Size]

ASSUME NullAssumption == NULL \notin Calls

\* Bytes that one count of n stands for.
Unit(a) == CASE a.fn = "memset_word" -> 2 [] a.fn = "memset_dword" -> 4 [] OTHER -> 1

\* What callers owe: areas in memory, and no memcpy up onto its own source.
Legal(a) ==
  /\ a.s + Unit(a) * a.n <= Size
  /\ a.fn \in Copies => a.src + a.n <= Size
  /\ a.fn = "memcpy" => a.s <= a.src \/ a.src + a.n <= a.s

MInit ==
  /\ mem \in Fresh /\ old = mem
  /\ arg = NULL
  /\ at = "idle"
  /\ edi = 0 /\ esi = 0 /\ ecx = 0 /\ edx = 0
  /\ df = FALSE

-----------------------------------------------------------------------------
FirstStep(fn) == CASE fn \in {"memset", "memcpy"} -> "top"
                   [] fn = "memmove" -> "movsb" [] OTHER -> "stos"

\* Mutant of Start: memmove always copies upwards.
StartUp(a) ==
  /\ at = "idle"
  /\ arg' = a
  /\ at' = FirstStep(a.fn)
  /\ df' = (df /\ at' = "top")
  /\ edi' = a.s /\ esi' = a.src /\ ecx' = a.n
  /\ UNCHANGED <<mem, old, edx>>

\* Entry of a function.  memset and memcpy go to their alignment loop; the
\* others begin with cld, and memmove turns round when src is below dest.
Start(a) ==
  LET down == a.fn = "memmove" /\ a.src < a.s IN
  /\ at = "idle"
  /\ arg' = a
  /\ at' = FirstStep(a.fn)
  /\ df' = IF at' = "top" THEN df ELSE down
  /\ edi' = IF down THEN a.s + a.n - 1 ELSE a.s
  /\ esi' = IF down THEN a.src + a.n - 1 ELSE a.src
  /\ ecx' = a.n
  /\ UNCHANGED <<mem, old, edx>>

\* The byte k of what is stored at edi; memset puts its low byte everywhere.
Stored(k) == CASE arg.fn = "memset"   -> arg.c[0]
               [] arg.fn \in Copies   -> mem[esi + k]
               [] OTHER               -> arg.c[k]

\* Store w bytes and move on by d.
Put(w, d) ==
  /\ mem' = [a \in Addr |-> IF edi <= a /\ a < edi + w THEN Stored(a - edi) ELSE mem[a]]
  /\ edi' = edi + d
  /\ esi' = IF arg.fn \in Copies THEN esi + d ELSE esi
  /\ UNCHANGED <<old, arg>>

Down(w) == IF df THEN -w ELSE w

Leave(step) ==
  /\ at' = step
  /\ UNCHANGED <<mem, old, arg, edi, esi, ecx, edx, df>>

\* Single bytes until edi is aligned, then n / 4 times four, upwards.
Top ==
  /\ at = "top"
  /\ \/ ecx = 0 /\ Leave("done")
     \/ /\ ecx # 0 /\ edi % 4 = 0
        /\ edx' = ecx % 4 /\ ecx' = ecx \div 4
        /\ df' = FALSE
        /\ at' = "rep"
        /\ UNCHANGED <<mem, old, arg, edi, esi>>
     \/ /\ ecx # 0 /\ edi % 4 # 0
        /\ Put(1, 1)
        /\ ecx' = ecx - 1
        /\ UNCHANGED <<at, edx, df>>

\* rep stosl, movsl, stosw and movsb; the first two are followed by the rest.
Rep(step, w, next) ==
  /\ at = step
  /\ \/ ecx = 0 /\ Leave(next)
     \/ /\ ecx # 0
        /\ Put(w, Down(w))
        /\ ecx' = ecx - 1
        /\ UNCHANGED <<at, edx, df>>

\* The rest, byte by byte.
Bottom ==
  /\ at = "bottom"
  /\ \/ edx = 0 /\ Leave("done")
     \/ /\ edx # 0
        /\ Put(1, 1)
        /\ edx' = edx - 1
        /\ UNCHANGED <<at, ecx, df>>

\* The call returns, and the next one finds other contents, but the same DF.
Return(m) ==
  /\ at = "done"
  /\ at' = "idle"
  /\ arg' = NULL
  /\ mem' = m /\ old' = m
  /\ edi' = 0 /\ esi' = 0 /\ ecx' = 0 /\ edx' = 0
  /\ UNCHANGED df

MLoop ==
  \/ Top \/ Rep("rep", 4, "bottom") \/ Bottom
  \/ Rep("stos", Unit(arg), "done") \/ Rep("movsb", 1, "done")

MCallOrReturn ==
  \/ at = "idle" /\ \E a \in Calls : Legal(a) /\ Start(a)
  \/ \E m \in Fresh : Return(m)

MNext == MLoop \/ MCallOrReturn

-----------------------------------------------------------------------------
MTypeOK ==
  /\ mem \in [Addr -> Bytes] /\ old \in [Addr -> Bytes]
  /\ arg \in Calls \cup {NULL}
  /\ at \in {"idle", "top", "rep", "bottom", "stos", "movsb", "done"}
  /\ edi \in Int /\ esi \in Int /\ ecx \in Nat /\ edx \in Nat
  /\ df \in BOOLEAN

Extent == Unit(arg) * arg.n

\* What byte a of memory must be when the call returns.
Wanted(a) ==
  LET k == a - arg.s IN
  IF k < 0 \/ k >= Extent THEN old[a]
  ELSE CASE arg.fn \in Copies -> old[arg.src + k]
         [] arg.fn = "memset" -> arg.c[0]
         [] OTHER             -> arg.c[k % Unit(arg)]

(***************************************************************************)
(* Every function leaves what its comment says in its area and the rest of *)
(* memory as it was: for every alignment and every length, for memmove     *)
(* also when the areas overlap in either direction, and whatever direction *)
(* flag the memmove before it has left.                                    *)
(***************************************************************************)
DoneRight == at = "done" => mem = [a \in Addr |-> Wanted(a)]
=============================================================================
