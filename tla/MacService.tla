------------------------------ MODULE MacService ------------------------------
(***************************************************************************)
(* What a MAC layer promises to the layer above: a packet handed to it is  *)
(* refused at once or queued for its receiver, the packets of one receiver *)
(* are finished in the order in which they were queued, and the sent       *)
(* callback of every packet is called exactly once.                        *)
(***************************************************************************)
EXTENDS Sequences

CONSTANTS Packet, Addr,
          Dest,      \* the receiver of a packet
          Status     \* what the sent callback can be told

VARIABLES waiting,   \* the packets queued for each receiver, oldest first
          outcome    \* "new", "queued", or the status given to the callback

vars == <<waiting, outcome>>

Init ==
    /\ waiting = [a \in Addr |-> <<>>]
    /\ outcome = [p \in Packet |-> "new"]

Accept(p) ==
    /\ outcome[p] = "new"
    /\ waiting' = [waiting EXCEPT ![Dest[p]] = Append(@, p)]
    /\ outcome' = [outcome EXCEPT ![p] = "queued"]

Refuse(p) ==
    /\ outcome[p] = "new"
    /\ outcome' = [outcome EXCEPT ![p] = "ERR"]
    /\ UNCHANGED waiting

Finish(a, s) ==
    /\ waiting[a] # <<>>
    /\ outcome[Head(waiting[a])] = "queued"
    /\ outcome' = [outcome EXCEPT ![Head(waiting[a])] = s]
    /\ waiting' = [waiting EXCEPT ![a] = Tail(@)]

Next ==
    \/ \E p \in Packet : Accept(p) \/ Refuse(p)
    \/ \E a \in Addr, s \in Status : Finish(a, s)

Spec == Init /\ [][Next]_vars
==============================================================================
