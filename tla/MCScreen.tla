------------------------------- MODULE MCScreen -------------------------------
(* Two terminals of two by two cells and one cell behind the shown ones;   *)
(* MaxInputs keys, characters printed, switches and ticks, in any order.   *)
EXTENDS Screen

CONSTANT MaxInputs

VARIABLE inputs

MCInit == Init /\ inputs = 0

MCNext ==
  \/ inputs < MaxInputs /\ inputs' = inputs + 1 /\ Input
  \/ PutStep /\ UNCHANGED inputs

MCSpec == MCInit /\ [][MCNext]_<<vars, inputs>>
=============================================================================
