--------------------------------- MODULE Rtc ---------------------------------
(***************************************************************************)
(* The virtual real-time clock (rtc.c): the interrupt handler counts in    *)
(* freq_ctr, a read spins until the count equals freq_val.  Both are       *)
(* globals, shared by every program of the chain that execute builds (a    *)
(* caller waits until its child halts, so one program runs at a time).     *)
(*                                                                         *)
(* A turn of the spin loop takes some nanoseconds and the chip interrupts  *)
(* every millisecond: while a read spins, an interrupt comes only after    *)
(* the loop has looked at the count (variable polled).                     *)
(***************************************************************************)
EXTENDS Integers

CONSTANTS
  MAX_HZ,    \* interrupts per second of the chip (1024)
  WordSize,  \* 2^32, where freq_ctr wraps
  Rates,     \* the integers programs write
  Depth      \* programs in the chain

\* rate & (rate - 1) is zero.
PowerOfTwo(rate) == \E k \in 0 .. rate : 2^k = rate

\* 1024 is a power of two, so the powers of two up to it divide it.
ASSUME RtcAssumption ==
  /\ MAX_HZ \in Nat /\ MAX_HZ % 2 = 0
  /\ \A r \in 2 .. MAX_HZ : PowerOfTwo(r) => MAX_HZ % r = 0
  /\ WordSize \in Nat /\ 2 <= MAX_HZ /\ MAX_HZ < WordSize
  /\ Rates \subseteq Int
  /\ Depth \in Nat /\ Depth > 0

Levels == 1 .. Depth

VARIABLES
  freq_ctr,   \* interrupts counted
  freq_val,   \* interrupts per read
  rtc_state,  \* "run", "read" (spinning) or "reset" (left the loop)
  polled,     \* the loop has looked since the last interrupt
  level,      \* the program that runs
  asked,      \* history: the rate each program set, 0 before it opens the clock
  since,      \* history: interrupts since its last open, write or read, to MAX_HZ
  owner,      \* history: the program whose rate is in force and whose count no
              \* other program has reset, or 0
  late        \* history: the count had passed freq_val when the read began

rVars == <<freq_ctr, freq_val, rtc_state, polled, level, asked, since, owner, late>>

RInit ==
  /\ freq_ctr = 0 /\ freq_val = 1
  /\ rtc_state = "run" /\ polled = FALSE
  /\ level = 1
  /\ asked = [l \in Levels |-> 0]
  /\ since = [l \in Levels |-> 0]
  /\ owner = 0
  /\ late = FALSE

-----------------------------------------------------------------------------
Smaller(a, b) == IF a <= b THEN a ELSE b

\* Mutant of Handler: the counter stops at its largest value.
HandlerSaturates ==
  /\ rtc_state = "read" => polled
  /\ freq_ctr' = Smaller(freq_ctr + 1, WordSize - 1)
  /\ polled' = FALSE
  /\ since' = [l \in Levels |-> Smaller(since[l] + 1, MAX_HZ)]
  /\ UNCHANGED <<freq_val, rtc_state, level, asked, owner, late>>

\* rtc_handler; the build's int wraps.
Handler ==
  /\ rtc_state = "read" => polled
  /\ freq_ctr' = (freq_ctr + 1) % WordSize
  /\ polled' = FALSE
  /\ since' = [l \in Levels |-> Smaller(since[l] + 1, MAX_HZ)]
  /\ UNCHANGED <<freq_val, rtc_state, level, asked, owner, late>>

\* The running program sets a rate and starts counting afresh.
Restart(rate) ==
  /\ freq_ctr' = 0
  /\ freq_val' = MAX_HZ \div rate
  /\ asked' = [asked EXCEPT ![level] = rate]
  /\ since' = [since EXCEPT ![level] = 0]
  /\ owner' = level

Open ==
  /\ rtc_state = "run"
  /\ Restart(2)
  /\ UNCHANGED <<rtc_state, polled, level, late>>

\* Mutant of Accepted: rates that do not divide MAX_HZ get through.
AcceptedAny(rate) == rate <= MAX_HZ /\ rate >= 2

Accepted(rate) == rate <= MAX_HZ /\ rate >= 2 /\ PowerOfTwo(rate)

\* Mutant of WriteRate: the count goes on from where it was.
WriteKeepsCount(rate) ==
  /\ rtc_state = "run" /\ asked[level] # 0
  /\ IF Accepted(rate)
     THEN /\ freq_val' = MAX_HZ \div rate
          /\ asked' = [asked EXCEPT ![level] = rate]
          /\ since' = [since EXCEPT ![level] = 0]
          /\ owner' = level
          /\ UNCHANGED freq_ctr
     ELSE UNCHANGED <<freq_ctr, freq_val, asked, since, owner>>
  /\ UNCHANGED <<rtc_state, polled, level, late>>

\* A program reaches rtc_write and rtc_read through a descriptor it opened.
WriteRate(rate) ==
  /\ rtc_state = "run" /\ asked[level] # 0
  /\ IF Accepted(rate)
     THEN Restart(rate)
     ELSE UNCHANGED <<freq_ctr, freq_val, asked, since, owner>>
  /\ UNCHANGED <<rtc_state, polled, level, late>>

Read ==
  /\ rtc_state = "run" /\ asked[level] # 0
  /\ rtc_state' = "read"
  /\ polled' = FALSE
  /\ late' = (freq_ctr > freq_val)
  /\ UNCHANGED <<freq_ctr, freq_val, level, asked, since, owner>>

\* Mutant of Poll: the loop ends one interrupt late.
PollStrict ==
  /\ rtc_state = "read"
  /\ rtc_state' = IF freq_ctr > freq_val THEN "reset" ELSE "read"
  /\ polled' = TRUE
  /\ UNCHANGED <<freq_ctr, freq_val, level, asked, since, owner, late>>

\* One turn of the spin loop.
Poll ==
  /\ rtc_state = "read"
  /\ rtc_state' = IF freq_ctr = freq_val THEN "reset" ELSE "read"
  /\ polled' = TRUE
  /\ UNCHANGED <<freq_ctr, freq_val, level, asked, since, owner, late>>

\* The store after the loop; an interrupt that came before it is not counted.
Return ==
  /\ rtc_state = "reset"
  /\ rtc_state' = "run"
  /\ freq_ctr' = 0
  /\ since' = [since EXCEPT ![level] = 0]
  /\ owner' = IF owner = level THEN level ELSE 0
  /\ UNCHANGED <<freq_val, polled, level, asked, late>>

\* A program executes another, or halts and its caller goes on.
ExecuteProgram ==
  /\ rtc_state = "run" /\ level < Depth
  /\ level' = level + 1
  /\ asked' = [asked EXCEPT ![level + 1] = 0]
  /\ UNCHANGED <<freq_ctr, freq_val, rtc_state, polled, since, owner, late>>

Halt ==
  /\ rtc_state = "run" /\ level > 1
  /\ level' = level - 1
  /\ UNCHANGED <<freq_ctr, freq_val, rtc_state, polled, asked, since, owner, late>>

-----------------------------------------------------------------------------
RNext ==
  \/ Handler
  \/ Open \/ (\E rate \in Rates : WriteRate(rate))
  \/ Read \/ Poll \/ Return
  \/ ExecuteProgram \/ Halt

RSpec == RInit /\ [][RNext]_rVars

\* The chip interrupts for ever, and the spin loop runs.
RLiveSpec == RSpec /\ WF_rVars(Handler) /\ WF_rVars(Poll \/ Return)

-----------------------------------------------------------------------------
RTypeOK ==
  /\ freq_ctr \in 0 .. WordSize - 1
  /\ freq_val \in 1 .. MAX_HZ
  /\ rtc_state \in {"run", "read", "reset"}
  /\ polled \in BOOLEAN
  /\ level \in Levels
  /\ asked \in [Levels -> 0 .. MAX_HZ]
  /\ since \in [Levels -> 0 .. MAX_HZ]
  /\ owner \in Levels \cup {0}
  /\ late \in BOOLEAN

(***************************************************************************)
(* A read that begins in time does not miss the moment at which the count  *)
(* equals freq_val, the only moment at which the spin loop ends.           *)
(***************************************************************************)
ReadKeepsUp == rtc_state = "read" /\ ~late => freq_ctr <= freq_val

(***************************************************************************)
(* As long as no other program has touched the clock in between, a read    *)
(* ends no sooner after the program's last open, write or read than the    *)
(* rate it set allows, whether the count wrapped or not.                   *)
(***************************************************************************)
Earned == asked[level] * since[level] >= MAX_HZ

NotTooSoon == rtc_state = "reset" /\ owner = level => Earned

\* Every read returns: a late one when the count has gone round.
ReadReturns == rtc_state = "read" ~> rtc_state = "run"

-----------------------------------------------------------------------------
(* Claims of the source's comments.                                        *)

\* "Return 0 after an interrupt has occurred": a read never waits past the
\* virtual interrupt it is due.
ReadOnTime == rtc_state = "read" => freq_ctr <= freq_val
=============================================================================
