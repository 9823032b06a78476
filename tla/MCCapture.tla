----------------------------- MODULE MCCapture -----------------------------
(* Values for the constants of Capture in the model-checking runs. *)
EXTENDS Capture

(* Both chips start at the head of the same frame. *)
AlignedStart == [c \in Chan |-> 0]

(* fifo_init releases chip A, then chip B: A starts at the last word of    *)
(* frame 0, B already inside frame 1.                                      *)
StraddledStart == [c \in Chan |-> IF c = "A" THEN FrameLen - 1 ELSE FrameLen + 1]

NoAlias == {}

(* Payload words with the head's value, one in each of the first frames. *)
SomeAlias == {1, FrameLen + 2, 2 * FrameLen + 1, 3 * FrameLen + 1}
=============================================================================
