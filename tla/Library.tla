------------------------------ MODULE Library ------------------------------
(***************************************************************************)
(* The kernel's library (lib.c) and the directory lookup that rests on it: *)
(* one flow of control calls a memory function, printf or                  *)
(* read_dentry_by_name, over and over, in any order.                       *)
(***************************************************************************)
EXTENDS Memory, Printf, Dentry

VARIABLE running   \* "memory", "printf" or "lookup"

vars == <<mVars, pVars, dVars, running>>

Init ==
  /\ running = "memory"
  /\ MInit /\ PInit /\ DInit

MemoryCall ==
  /\ running = "memory"
  /\ MCallOrReturn
  /\ UNCHANGED <<pVars, dVars, running>>

MemoryLoop ==
  /\ MLoop
  /\ UNCHANGED <<pVars, dVars, running>>

PrintfCall ==
  /\ running = "memory" /\ at = "idle"
  /\ running' = "printf"
  /\ PCall
  /\ UNCHANGED <<mVars, dVars>>

PrintfStep ==
  /\ running = "printf"
  /\ PNext
  /\ UNCHANGED <<mVars, dVars, running>>

PrintfReturn ==
  /\ running = "printf"
  /\ running' = "memory"
  /\ PReturn
  /\ UNCHANGED <<mVars, dVars>>

LookupCall ==
  /\ running = "memory" /\ at = "idle"
  /\ running' = "lookup"
  /\ DCall
  /\ UNCHANGED <<mVars, pVars>>

LookupStep ==
  /\ running = "lookup"
  /\ Compare
  /\ UNCHANGED <<mVars, pVars, running>>

LookupReturn ==
  /\ running = "lookup"
  /\ running' = "memory"
  /\ DReturn
  /\ UNCHANGED <<mVars, pVars>>

Next ==
  \/ MemoryCall \/ MemoryLoop
  \/ PrintfCall \/ PrintfStep \/ PrintfReturn
  \/ LookupCall \/ LookupStep \/ LookupReturn

Spec == Init /\ [][Next]_vars

\* A call that has begun runs to its end.
LiveSpec == Spec /\ WF_vars(MemoryLoop) /\ WF_vars(PrintfStep) /\ WF_vars(LookupStep)

-----------------------------------------------------------------------------
\* Is a call in progress?
InCall == \/ at \notin {"idle", "done"}
          \/ running = "printf" /\ ~PDone
          \/ running = "lookup" /\ found = 0

\* Every call of the library returns: the counts of the loops reach zero.
CallsReturn == InCall ~> ~InCall
=============================================================================
