------------------------------ MODULE MCRmhbNode ------------------------------
(* Three neighbors for a table of two blocks, and two sleeps. *)
EXTENDS RmhbNode
==============================================================================
