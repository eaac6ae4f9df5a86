--------------------------------- MODULE Csma ---------------------------------
(***************************************************************************)
(* The sender of the CSMA MAC layer, os/net/mac/csma/csma-output.c: a      *)
(* queue of packets for every neighbor that has any, a timer that backs    *)
(* off before each attempt, retransmissions, and memory from fixed pools.  *)
(* The queue buffers are shared with other users.  What the radio answers  *)
(* and when the backoff timer expires is left open.                        *)
(***************************************************************************)
EXTENDS Integers, Sequences, FiniteSets

CONSTANTS Packet,          \* the packets handed to csma_output_packet()
          Addr,            \* link-layer addresses of receivers
          Broadcast,       \* those of them that do not acknowledge
          Dest,            \* PACKETBUF_ADDR_RECEIVER of a packet
          Transmissions,   \* PACKETBUF_ATTR_MAX_MAC_TRANSMISSIONS, 0 if unset
          MaxNeighbors,    \* CSMA_MAX_NEIGHBOR_QUEUES
          MaxPackets,      \* MAX_QUEUED_PACKETS
          MaxPerNeighbor,  \* CSMA_MAX_PACKET_PER_NEIGHBOR
          MaxQueuebufs,    \* QUEUEBUF_NUM
          MaxBackoff,      \* CSMA_MAX_BACKOFF
          MaxRetries       \* CSMA_MAX_FRAME_RETRIES

ASSUME CsmaAssumption ==
    /\ Broadcast \subseteq Addr
    /\ Dest \in [Packet -> Addr]
    /\ Transmissions \in [Packet -> Nat]
    /\ MaxNeighbors \in Nat /\ MaxPackets \in Nat
    /\ MaxPerNeighbor \in Nat \ {0} /\ MaxQueuebufs \in Nat
    /\ MaxBackoff \in 0..254 /\ MaxRetries \in 0..254

VARIABLES packet_queue,    \* n->packet_queue; empty when there is no n
          neighbor_list,   \* the addresses that have a neighbor entry
          transmissions,   \* n->transmissions
          collisions,      \* n->collisions
          transmit_timer,  \* is n->transmit_timer set?
          neighbor_memb, packet_memb, metadata_memb,   \* free blocks
          queuebufs,       \* free queue buffers
          held,            \* queue buffers that others hold
          outcome,         \* history: what became of each packet
          attempts         \* history: how often the packet was tried

nbrVars == <<packet_queue, neighbor_list, transmissions, collisions,
             transmit_timer>>
poolVars == <<neighbor_memb, packet_memb, metadata_memb, queuebufs>>
vars == <<nbrVars, poolVars, held, outcome, attempts>>

Status == {"OK", "NOACK", "COLLISION", "ERR"}

(* metadata->max_transmissions is a byte. *)
max_transmissions(p) ==
    IF Transmissions[p] % 256 = 0 THEN MaxRetries + 1
                                  ELSE Transmissions[p] % 256

(* csma_output_init() and the empty static lists. *)
Init ==
    /\ packet_queue = [a \in Addr |-> <<>>]
    /\ neighbor_list = {}
    /\ transmissions = [a \in Addr |-> 0]
    /\ collisions = [a \in Addr |-> 0]
    /\ transmit_timer = [a \in Addr |-> FALSE]
    /\ neighbor_memb = MaxNeighbors
    /\ packet_memb = MaxPackets
    /\ metadata_memb = MaxPackets
    /\ queuebufs = MaxQueuebufs
    /\ held = 0
    /\ outcome = [p \in Packet |-> "new"]
    /\ attempts = [p \in Packet |-> 0]

------------------------------------------------------------------------------
(* csma_output_packet() looks for the receiver's entry or allocates one    *)
Entry(p) == Dest[p] \in neighbor_list \/ neighbor_memb > 0
NewEntry(p) == Dest[p] \notin neighbor_list /\ Entry(p)

(* whose queue must have room,                                             *)
Room(p) == Entry(p) /\ Len(packet_queue[Dest[p]]) < MaxPerNeighbor

(* and then the parts of the packet, each when it has the one before.      *)
GotPacket(p) == Room(p) /\ packet_memb > 0
GotMetadata(p) == GotPacket(p) /\ metadata_memb > 0
Admitted(p) == GotMetadata(p) /\ queuebufs > 0

(* memb_alloc() and memb_free() in a branch that may not be taken. *)
Alloc(free, taken) == IF taken THEN free - 1 ELSE free
Free(free, taken) == IF taken THEN free + 1 ELSE free

(* Slip: the timer is set when the entry has a packet already. *)
output_queue_late(p) ==
    LET a == Dest[p]
    IN /\ outcome[p] = "new" /\ Admitted(p)
       /\ outcome' = [outcome EXCEPT ![p] = "queued"]
       /\ packet_queue' = [packet_queue EXCEPT ![a] = Append(@, p)]
       /\ neighbor_list' = neighbor_list \cup {a}
       /\ neighbor_memb' = Alloc(neighbor_memb, NewEntry(p))
       /\ packet_memb' = packet_memb - 1
       /\ metadata_memb' = metadata_memb - 1
       /\ queuebufs' = queuebufs - 1
       /\ IF NewEntry(p)
          THEN /\ transmissions' = [transmissions EXCEPT ![a] = 0]
               /\ collisions' = [collisions EXCEPT ![a] = 0]
               /\ UNCHANGED transmit_timer
          ELSE /\ transmit_timer' = [transmit_timer EXCEPT ![a] = TRUE]
               /\ UNCHANGED <<transmissions, collisions>>
       /\ UNCHANGED <<held, attempts>>

(* then the packet is queued, and the first one starts the timer. *)
output_queue(p) ==
    LET a == Dest[p]
    IN /\ outcome[p] = "new" /\ Admitted(p)
       /\ outcome' = [outcome EXCEPT ![p] = "queued"]
       /\ packet_queue' = [packet_queue EXCEPT ![a] = Append(@, p)]
       /\ neighbor_list' = neighbor_list \cup {a}
       /\ neighbor_memb' = Alloc(neighbor_memb, NewEntry(p))
       /\ packet_memb' = packet_memb - 1
       /\ metadata_memb' = metadata_memb - 1
       /\ queuebufs' = queuebufs - 1
       /\ IF NewEntry(p)
          THEN /\ transmissions' = [transmissions EXCEPT ![a] = 0]
               /\ collisions' = [collisions EXCEPT ![a] = 0]
               /\ transmit_timer' = [transmit_timer EXCEPT ![a] = TRUE]
          ELSE UNCHANGED <<transmissions, collisions, transmit_timer>>
       /\ UNCHANGED <<held, attempts>>

(* Slip: the block of a new entry is given back only when the packet could *)
(* not be allocated, and not when its parts could not.                     *)
output_drop_leak(p) ==
    LET a == Dest[p]
        entries == IF Entry(p) THEN neighbor_list \cup {a} ELSE neighbor_list
        unused == Room(p) /\ packet_queue[a] = <<>>
    IN /\ outcome[p] = "new" /\ ~ Admitted(p)
       /\ outcome' = [outcome EXCEPT ![p] = "ERR"]
       /\ IF NewEntry(p)
          THEN /\ transmissions' = [transmissions EXCEPT ![a] = 0]
               /\ collisions' = [collisions EXCEPT ![a] = 0]
          ELSE UNCHANGED <<transmissions, collisions>>
       /\ metadata_memb' = Free(Alloc(metadata_memb, GotMetadata(p)), GotMetadata(p))
       /\ packet_memb' = Free(Alloc(packet_memb, GotPacket(p)), GotPacket(p))
       /\ neighbor_memb' = Free(Alloc(neighbor_memb, NewEntry(p)), packet_memb = 0 /\ unused)
       /\ neighbor_list' = IF unused THEN entries \ {a} ELSE entries
       /\ UNCHANGED <<packet_queue, transmit_timer, queuebufs, held, attempts>>

(* Otherwise what was taken on the way is given back: the metadata, the    *)
(* packet, and the entry if no packet waits in it.  A full queue is left   *)
(* as it is.  The callback is told of the error.                           *)
output_drop(p) ==
    LET a == Dest[p]
        entries == IF Entry(p) THEN neighbor_list \cup {a} ELSE neighbor_list
        unused == Room(p) /\ packet_queue[a] = <<>>
    IN /\ outcome[p] = "new" /\ ~ Admitted(p)
       /\ outcome' = [outcome EXCEPT ![p] = "ERR"]
       /\ IF NewEntry(p)
          THEN /\ transmissions' = [transmissions EXCEPT ![a] = 0]
               /\ collisions' = [collisions EXCEPT ![a] = 0]
          ELSE UNCHANGED <<transmissions, collisions>>
       /\ metadata_memb' = Free(Alloc(metadata_memb, GotMetadata(p)), GotMetadata(p))
       /\ packet_memb' = Free(Alloc(packet_memb, GotPacket(p)), GotPacket(p))
       /\ neighbor_memb' = Free(Alloc(neighbor_memb, NewEntry(p)), unused)
       /\ neighbor_list' = IF unused THEN entries \ {a} ELSE entries
       /\ UNCHANGED <<packet_queue, transmit_timer, queuebufs, held, attempts>>

------------------------------------------------------------------------------
(* The outcomes of an attempt for the head of a's queue.                   *)
(* Slip: the counters are kept for the next packet.                        *)
tx_done_keep(a, s, ntx, coll) ==
    LET rest == Tail(packet_queue[a])
        last == rest = <<>>
    IN /\ outcome' = [outcome EXCEPT ![Head(packet_queue[a])] = s]
       /\ packet_queue' = [packet_queue EXCEPT ![a] = rest]
       /\ packet_memb' = packet_memb + 1
       /\ metadata_memb' = metadata_memb + 1
       /\ queuebufs' = queuebufs + 1
       /\ transmissions' = [transmissions EXCEPT ![a] = ntx]
       /\ collisions' = [collisions EXCEPT ![a] = coll]
       /\ transmit_timer' = [transmit_timer EXCEPT ![a] = ~ last]
       /\ neighbor_list' = IF last THEN neighbor_list \ {a} ELSE neighbor_list
       /\ neighbor_memb' = IF last THEN neighbor_memb + 1 ELSE neighbor_memb

(* tx_done(): free_packet() frees the packet and starts the timer for the  *)
(* next one or frees the entry; then the callback is called.               *)
tx_done(a, s, ntx, coll) ==
    LET rest == Tail(packet_queue[a])
        last == rest = <<>>
    IN /\ outcome' = [outcome EXCEPT ![Head(packet_queue[a])] = s]
       /\ packet_queue' = [packet_queue EXCEPT ![a] = rest]
       /\ packet_memb' = packet_memb + 1
       /\ metadata_memb' = metadata_memb + 1
       /\ queuebufs' = queuebufs + 1
       /\ transmissions' = [transmissions EXCEPT ![a] = IF last THEN ntx ELSE 0]
       /\ collisions' = [collisions EXCEPT ![a] = IF last THEN coll ELSE 0]
       /\ transmit_timer' = [transmit_timer EXCEPT ![a] = ~ last]
       /\ neighbor_list' = IF last THEN neighbor_list \ {a} ELSE neighbor_list
       /\ neighbor_memb' = IF last THEN neighbor_memb + 1 ELSE neighbor_memb

(* Slip: the packet is queued again, behind the others. *)
rexmit_tail(a, ntx, coll) ==
    /\ packet_queue' = [packet_queue EXCEPT ![a] = Append(Tail(@), Head(@))]
    /\ transmissions' = [transmissions EXCEPT ![a] = ntx]
    /\ collisions' = [collisions EXCEPT ![a] = coll]
    /\ transmit_timer' = [transmit_timer EXCEPT ![a] = TRUE]
    /\ UNCHANGED <<neighbor_list, poolVars, outcome>>

(* rexmit(): the same packet once more, after a backoff. *)
rexmit(a, ntx, coll) ==
    /\ transmissions' = [transmissions EXCEPT ![a] = ntx]
    /\ collisions' = [collisions EXCEPT ![a] = coll]
    /\ transmit_timer' = [transmit_timer EXCEPT ![a] = TRUE]
    /\ UNCHANGED <<packet_queue, neighbor_list, poolVars, outcome>>

(* noack() and collision(): give up after max_transmissions, *)
retry(a, s, ntx, coll) ==
    IF ntx >= max_transmissions(Head(packet_queue[a]))
    THEN tx_done(a, s, ntx, coll)
    ELSE rexmit(a, ntx, coll)

noack(a) == retry(a, "NOACK", transmissions[a] + 1, 0)

(* where more than MaxBackoff collisions in a row count as one. *)
collision(a) ==
    IF collisions[a] + 1 > MaxBackoff
    THEN retry(a, "COLLISION", transmissions[a] + 1, 0)
    ELSE retry(a, "COLLISION", transmissions[a], collisions[a] + 1)

tx_ok(a) == tx_done(a, "OK", transmissions[a] + 1, 0)
tx_err(a) == tx_done(a, "ERR", transmissions[a], collisions[a])

(* packet_sent() acts on the answer of the radio. *)
packet_sent(a, s) ==
    \/ s = "OK" /\ tx_ok(a)
    \/ s = "NOACK" /\ noack(a)
    \/ s = "COLLISION" /\ collision(a)
    \/ s = "ERR" /\ tx_err(a)

(* The timer calls transmit_from_queue(): the head of the queue goes to    *)
(* the radio, which does not wait for anybody to acknowledge a broadcast.  *)
transmit_from_queue(a, s) ==
    /\ transmit_timer[a]
    /\ packet_queue[a] # <<>>
    /\ a \in Broadcast => s # "NOACK"
    /\ attempts' = [attempts EXCEPT ![Head(packet_queue[a])] = @ + 1]
    /\ packet_sent(a, s)
    /\ UNCHANGED held

(* Other layers take queue buffers and give them back. *)
queuebuf_new ==
    /\ queuebufs > 0
    /\ queuebufs' = queuebufs - 1 /\ held' = held + 1
    /\ UNCHANGED <<nbrVars, neighbor_memb, packet_memb, metadata_memb, outcome,
                   attempts>>

queuebuf_free ==
    /\ held > 0
    /\ queuebufs' = queuebufs + 1 /\ held' = held - 1
    /\ UNCHANGED <<nbrVars, neighbor_memb, packet_memb, metadata_memb, outcome,
                   attempts>>

Transmit == \E a \in Addr, s \in Status : transmit_from_queue(a, s)

Next ==
    \/ \E p \in Packet : output_queue(p) \/ output_drop(p)
    \/ Transmit
    \/ queuebuf_new \/ queuebuf_free

Spec == Init /\ [][Next]_vars

(* A backoff timer that is set expires. *)
FairSpec == Spec /\ \A a \in Addr : WF_vars(\E s \in Status : transmit_from_queue(a, s))

------------------------------------------------------------------------------
(* Type invariant: in particular the byte counters of an entry never wrap. *)
TypeOK ==
    /\ packet_queue \in [Addr -> Seq(Packet)]
    /\ neighbor_list \subseteq Addr
    /\ transmissions \in [Addr -> 0..255]
    /\ collisions \in [Addr -> 0..MaxBackoff]
    /\ transmit_timer \in [Addr -> BOOLEAN]
    /\ neighbor_memb \in Int /\ packet_memb \in Int /\ metadata_memb \in Int
    /\ queuebufs \in Int /\ held \in Int
    /\ outcome \in [Packet -> Status \cup {"new", "queued"}]
    /\ attempts \in [Packet -> Nat]

(* A neighbor entry exists exactly while packets wait in it, and exactly   *)
(* then its timer is set: no queue is stuck, and no timer is left running  *)
(* on an entry that was freed.                                             *)
QueueAlive ==
    \A a \in Addr : /\ a \in neighbor_list <=> packet_queue[a] # <<>>
                    /\ transmit_timer[a] <=> packet_queue[a] # <<>>

(* The queues hold the packets whose outcome is open, each once and with   *)
(* its receiver.                                                           *)
QueuesSound ==
    \A a \in Addr :
      /\ \A i \in DOMAIN packet_queue[a] :
           /\ outcome[packet_queue[a][i]] = "queued"
           /\ Dest[packet_queue[a][i]] = a
      /\ \A i, j \in DOMAIN packet_queue[a] :
           packet_queue[a][i] = packet_queue[a][j] => i = j

(* How the counters of an entry relate to the attempts made for the packet *)
(* at its head; the packets behind it have had none.                       *)
CountersFresh ==
    \A a \in Addr : \A i \in DOMAIN packet_queue[a] :
      LET p == packet_queue[a][i] IN
      IF i = 1
      THEN /\ transmissions[a] < max_transmissions(p)
           /\ transmissions[a] <= attempts[p]
           /\ attempts[p] <= transmissions[a] * (MaxBackoff + 1) + collisions[a]
      ELSE attempts[p] = 0

GivesUpLate ==
    \A p \in Packet :
      outcome[p] \in {"NOACK", "COLLISION"} => attempts[p] >= max_transmissions(p)

AttemptsBounded ==
    \A p \in Packet : attempts[p] <= max_transmissions(p) * (MaxBackoff + 1)

(* A packet is not given up early: it is reported as not acknowledged or   *)
(* lost to collisions only after at least max_transmissions attempts of    *)
(* its own, whatever happened to the packets before it.  And it is not     *)
(* kept for ever: its attempts are bounded.                                *)
RetryBudget == GivesUpLate /\ AttemptsBounded

(* The places in the queues, with a packet in each. *)
Places == UNION {{a} \X DOMAIN packet_queue[a] : a \in Addr}

(* Memory is conserved: the blocks that are not free are those of the      *)
(* queued packets and of the neighbors with packets, so that no path of    *)
(* csma_output_packet() or tx_done() leaks or frees twice.                 *)
PoolsBalanced ==
    LET queued == Cardinality(Places)
    IN /\ neighbor_memb >= 0 /\ neighbor_memb = MaxNeighbors - Cardinality(neighbor_list)
       /\ packet_memb >= 0 /\ packet_memb = MaxPackets - queued
       /\ metadata_memb = MaxPackets - queued
       /\ queuebufs >= 0 /\ queuebufs = MaxQueuebufs - queued - held

Service == INSTANCE MacService WITH waiting <- packet_queue

(* CSMA is a MAC service: packets for a receiver are finished in order,    *)
(* and the sent callback of each is called exactly once.                   *)
ImplementsMac == Service!Spec

(* Every queued packet is finished: a time comes when none is queued. *)
Finished == []<>(\A p \in Packet : outcome[p] # "queued")
==============================================================================
