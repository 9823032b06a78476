---------------------------- MODULE MCFifoReader ----------------------------
(* Values for the constants of FifoReader in the model-checking run. *)
EXTENDS FifoReader

(* m_save_led.fd is no pin's descriptor, or that of a line of a chip. *)
Stray == {<<>>, R("A")}

Words == [c \in Chan |-> 2]
=============================================================================
