-------------------------------- MODULE MCRmhb --------------------------------
(* Instances of Rmhb: a pair of nodes, and a line of three. *)
EXTENDS Rmhb, TLC

CONSTANTS a, b, c

Pair == a :> {b} @@ b :> {a}
Line == a :> {b} @@ b :> {a, c} @@ c :> {b}
==============================================================================
