------------------------------- MODULE MCSeat -------------------------------
(* A small instance of Seat for TLC.                                       *)
EXTENDS Seat, TLC

\* Outputs as well: while there is one, some output is active, so which of several
\* Adopted would choose for a panel without an output makes no difference.
Symmetric == Permutations(Keyboards) \cup Permutations(Views) \cup Permutations(Outputs)
=============================================================================
