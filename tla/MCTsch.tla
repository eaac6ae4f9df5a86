-------------------------------- MODULE MCTsch --------------------------------
(***************************************************************************)
(* Model checking instance of Tsch: the beacon brings one shared link, all *)
(* packets go to n1, to which a link of its own may be added; n2 is the    *)
(* time source.                                                            *)
(***************************************************************************)
EXTENDS Tsch

CONSTANTS p1, p2, n1, n2, all, own

MCDest == [p \in Packet |-> n1]
MCMaxTx == [p \in Packet |-> IF p = p1 THEN 2 ELSE 1]
MCOptions == [l \in Link |-> IF l = own THEN {"TX"}
                             ELSE {"TX", "RX", "SHARED", "ADV"}]
MCLinkAddr == [l \in Link |-> IF l = own THEN n1 ELSE bc]
MCSlotframe == [l \in Link |-> IF l = own THEN 0 ELSE 1]
MCTimeslot == [l \in Link |-> 0]
MCFromBeacon == <<all>>
==============================================================================
