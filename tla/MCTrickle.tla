------------------------------ MODULE MCTrickle -------------------------------
(* Model checking instance of Trickle: two nodes and intervals of two to    *)
(* four ticks.                                                              *)
EXTENDS Trickle
==============================================================================
