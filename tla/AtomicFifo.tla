----------------------------- MODULE AtomicFifo -----------------------------
(***************************************************************************)
(* What the reader of a FIFO chip promises: a queue whose front word is    *)
(* taken in one step.  The queue is empty when service begins, so that no  *)
(* word in it is older; it holds the words stored since, all of them and   *)
(* in order; what has been taken last is whole.  While the chip is not in  *)
(* service nothing is taken.                                               *)
(***************************************************************************)
EXTENDS Integers, Sequences

CONSTANT Bits     \* bits of a word

VARIABLES
  serving,    \* the chip is in service
  stored,     \* number of words stored; the next one has the next number
  queue,      \* words stored since service began and not taken yet
  taken       \* the word taken last in this service, each bit the number
              \* of the word it comes from; <<>> before the first

vars == <<serving, stored, queue, taken>>

Init == serving = FALSE /\ stored = 0 /\ queue = <<>> /\ taken = <<>>

Begin ==
  /\ ~serving /\ serving' = TRUE
  /\ UNCHANGED <<stored, queue, taken>>

Store ==
  /\ stored' = stored + 1
  /\ queue' = IF serving THEN Append(queue, stored') ELSE queue
  /\ UNCHANGED <<serving, taken>>

Take ==
  /\ serving /\ queue # <<>>
  /\ taken' = [i \in 1 .. Bits |-> Head(queue)]
  /\ queue' = Tail(queue)
  /\ UNCHANGED <<serving, stored>>

(* The process dies. *)
End ==
  /\ serving /\ serving' = FALSE
  /\ queue' = <<>> /\ taken' = <<>>
  /\ UNCHANGED stored

Next == Begin \/ Store \/ Take \/ End

Spec == Init /\ [][Next]_vars
=============================================================================
