------------------------------ MODULE MCScene -------------------------------
(* One window, in one life after the other, and two outputs.               *)
EXTENDS Scene

CONSTANTS v1, o1, o2, b1, b2

OneView == {v1}
TwoOutputs == {o1, o2}
TwoBuffers == {b1, b2}
=============================================================================
