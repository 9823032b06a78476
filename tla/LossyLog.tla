------------------------------ MODULE LossyLog ------------------------------
(***************************************************************************)
(* What the recorder promises: a log of the frames the capture loop        *)
(* produces.  Frames may be missing - one is refused while too many wait,  *)
(* up to a block goes down with the process, all that wait go down with    *)
(* the machine - but what is recorded is recorded once, in the order in    *)
(* which it was produced, and a block at a time.                           *)
(* What becomes of a record afterwards - its file is removed, or its end   *)
(* lost with the machine - the log does not say.                           *)
(***************************************************************************)
EXTENDS Integers, Sequences

CONSTANT Block    \* frames recorded at a time

VARIABLES
  produced,   \* number of frames produced; the next one has this number
  pending,    \* frames accepted and not recorded yet
  log         \* frames recorded

vars == <<produced, pending, log>>

Init == produced = 0 /\ pending = <<>> /\ log = <<>>

Accept ==
  /\ produced' = produced + 1
  /\ pending' = Append(pending, produced)
  /\ UNCHANGED log

Refuse ==
  /\ produced' = produced + 1
  /\ UNCHANGED <<pending, log>>

(* A block leaves the pending frames; n of its frames reach the log, all   *)
(* of them unless the medium is full.                                      *)
Record(n) ==
  /\ Len(pending) >= Block
  /\ log' = log \o SubSeq(pending, 1, n)
  /\ pending' = SubSeq(pending, Block + 1, Len(pending))
  /\ UNCHANGED produced

(* The process dies with the n frames it has taken. *)
Forget(n) ==
  /\ pending' = SubSeq(pending, n + 1, Len(pending))
  /\ UNCHANGED <<produced, log>>

(* The machine goes down. *)
Reset ==
  /\ pending' = <<>>
  /\ UNCHANGED <<produced, log>>

Next ==
  \/ Accept
  \/ Refuse
  \/ \E n \in 0 .. Block : Record(n)
  \/ \E n \in 1 .. Block : Forget(n)
  \/ Reset

Spec == Init /\ [][Next]_vars

(* The log is strictly ascending: no frame is recorded twice, none out of  *)
(* order.                                                                  *)
Ascending == \A i, j \in 1 .. Len(log) : i < j => log[i] < log[j]
=============================================================================
