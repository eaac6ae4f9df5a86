----------------------------- MODULE MCEventQueue -----------------------------
(* Model checking instance of EventQueue: NumEvents is half of CharWidth,   *)
(* as it may at most be, and events go round the array.                     *)
EXTENDS EventQueue
==============================================================================
