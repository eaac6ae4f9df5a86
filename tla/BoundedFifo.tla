----------------------------- MODULE BoundedFifo -----------------------------
(***************************************************************************)
(* What a bounded first-in first-out buffer promises its single writer and *)
(* its single reader.  The ring buffer of os/lib/ringbuf.c implements it   *)
(* (module Ringbuf), and the models that only use that buffer build on     *)
(* this abstraction.                                                       *)
(***************************************************************************)
EXTENDS Naturals, Sequences

CONSTANTS Byte,      \* the values that can be stored
          NoByte,    \* the "nothing" answer of a read (-1 in the code)
          Capacity   \* how many values fit

VARIABLES queue,     \* the stored values, oldest first
          put_ret,   \* was the last put accepted?
          got        \* the answer of the last get

vars == <<queue, put_ret, got>>

Init == queue = <<>> /\ put_ret = TRUE /\ got = NoByte

Put(v) ==
    /\ Len(queue) < Capacity
    /\ queue' = Append(queue, v)
    /\ put_ret' = TRUE
    /\ got' = got

PutFull ==
    /\ Len(queue) = Capacity
    /\ put_ret' = FALSE
    /\ UNCHANGED <<queue, got>>

Get ==
    /\ queue # <<>>
    /\ got' = Head(queue)
    /\ queue' = Tail(queue)
    /\ put_ret' = put_ret

GetEmpty ==
    /\ queue = <<>>
    /\ got' = NoByte
    /\ UNCHANGED <<queue, put_ret>>

Next == (\E v \in Byte : Put(v)) \/ PutFull \/ Get \/ GetEmpty

Spec == Init /\ [][Next]_vars
==============================================================================
