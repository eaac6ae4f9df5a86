----------------------------- MODULE MCSerialLine -----------------------------
(* Model checking instance of SerialLine, with the ring buffer below it: four *)
(* slots, so that the indices wrap and the buffer is empty and full.          *)
EXTENDS SerialLine

MCByte == Char \cup {END, NUL}
==============================================================================
