--------------------------- MODULE SampleRegister ---------------------------
(***************************************************************************)
(* What the mutex of the CAN task promises: a register that holds one      *)
(* sample.  A sample is stored in it as a whole, and taken as a whole; what *)
(* is taken is what the register holds at that moment, not an older one.   *)
(* A sample may be replaced before it is taken, and one that has been made *)
(* is lost when the process dies before it is stored.                      *)
(***************************************************************************)
EXTENDS Integers

CONSTANT Words    \* the words of a sample

VARIABLES
  made,     \* samples made; the last one has this number
  held,     \* the sample in the register, 0 for none
  shown     \* shown[w]: the sample that word w of the last one taken is of

vars == <<made, held, shown>>

Init == made = 0 /\ held = 0 /\ shown = [w \in Words |-> 0]

Make ==
  /\ made' = made + 1
  /\ UNCHANGED <<held, shown>>

Store ==
  /\ held' = made
  /\ UNCHANGED <<made, shown>>

Take ==
  /\ shown' = [w \in Words |-> held]
  /\ UNCHANGED <<made, held>>

(* The process dies. *)
Die ==
  /\ held' = 0 /\ shown' = [w \in Words |-> 0]
  /\ UNCHANGED made

Next == Make \/ Store \/ Take \/ Die

Spec == Init /\ [][Next]_vars
=============================================================================
