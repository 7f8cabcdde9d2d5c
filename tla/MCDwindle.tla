------------------------------ MODULE MCDwindle -----------------------------
(* A small instance of Dwindle for TLC.                                     *)
EXTENDS Dwindle, TLC

CONSTANTS v1, v2, v3, v4

FourViews == {v1, v2, v3, v4}

SevenNodes == 1..7
Null == 0

Symmetric == Permutations(Views)
=============================================================================
