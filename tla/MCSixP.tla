-------------------------------- MODULE MCSixP --------------------------------
(***************************************************************************)
(* Model checking instance of SixP: two nodes that make requests to each  *)
(* other, one of them with a third that competes for its only block.      *)
(***************************************************************************)
EXTENDS SixP

CONSTANTS n1, n2, n3

MCRequest == {<<n1, n2, "ADD", 2>>, <<n2, n1, "DELETE", 3>>, <<n1, n2, "CLEAR", 2>>,
              <<n3, n2, "ADD", 2>>}
==============================================================================
