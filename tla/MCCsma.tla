-------------------------------- MODULE MCCsma --------------------------------
(***************************************************************************)
(* Model checking instance of CsmaLink: packets for the receiver and a     *)
(* broadcast, in pools that run out, with one other sender.                *)
(***************************************************************************)
EXTENDS CsmaLink, TLC

CONSTANTS p1, p2, p3, nbr, all

MCDest == p1 :> nbr @@ p2 :> nbr @@ p3 :> all
MCTransmissions == p1 :> 2 @@ p2 :> 0 @@ p3 :> 1
==============================================================================
