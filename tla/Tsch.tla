--------------------------------- MODULE Tsch ---------------------------------
(***************************************************************************)
(* Time slotted channel hopping, os/net/mac/tsch: the schedule and the     *)
(* packet queues are shared by the processes and by the slot operation,    *)
(* which runs in the interrupt of the real-time timer.  The interrupt is   *)
(* kept away from them by the lock of tsch-slot-operation.c.               *)
(*                                                                         *)
(* Process context is a stack of calls, todo, worked off one by one; the   *)
(* interrupt may come between any two of its steps.  A slot in which the   *)
(* node sends or listens lets the processes run until it ends.  Time is    *)
(* abstract: any link of the schedule may be the next active one.          *)
(***************************************************************************)
EXTENDS Integers, Sequences, FiniteSets

CONSTANTS Packet,         \* the packets handed to the MAC layer, and the EBs
          Addr,           \* link-layer addresses of neighbors
          eb, bc,         \* tsch_eb_address, tsch_broadcast_address
          Dest,           \* the receiver of a packet
          MaxTx,          \* max_transmissions of a packet
          Link,           \* the links that a schedule may have
          Options,        \* of a link: TX, RX, SHARED, ADV, ADV_ONLY
          LinkAddr,       \* of a link
          Dynamic,        \* the links that are added and removed at run time
          Slotframe, Timeslot,   \* where a link is
          FromBeacon,     \* the links of the schedule that a beacon brings
          Sources,        \* the neighbors that may become time source
          Failures,       \* how an attempt may fail: NOACK, ERR, COLLISION
          None,           \* NULL
          MaxNeighbors,   \* TSCH_QUEUE_MAX_NEIGHBOR_QUEUES
          MaxPackets,     \* QUEUEBUF_NUM
          MaxLinks,       \* TSCH_SCHEDULE_MAX_LINKS
          QueueSize,      \* TSCH_QUEUE_NUM_PER_NEIGHBOR
          DequeuedSize,   \* TSCH_DEQUEUED_ARRAY_SIZE
          InputSize,      \* TSCH_MAX_INCOMING_PACKETS
          MaxWindow,      \* the longest backoff, in shared slots
          BurstMax,       \* TSCH_BURST_MAX_LEN
          MaxChanges,     \* bound: calls that change schedule or time source
          MaxLeaves       \* bound: how often the network is left

SameSlot(m, l) == Slotframe[m] = Slotframe[l] /\ Timeslot[m] = Timeslot[l]

ASSUME TschAssumption ==
    /\ {eb, bc} \subseteq Addr /\ eb # bc
    /\ Dest \in [Packet -> Addr]
    /\ MaxTx \in [Packet -> 1..255]
    /\ Options \in [Link -> SUBSET {"TX", "RX", "SHARED", "ADV", "ADV_ONLY"}]
    /\ LinkAddr \in [Link -> Addr]
    /\ Slotframe \in [Link -> Nat] /\ Timeslot \in [Link -> Nat]
    /\ Dynamic \subseteq Link
    /\ FromBeacon \in Seq(Link)
    /\ \A i, j \in DOMAIN FromBeacon :
         SameSlot(FromBeacon[i], FromBeacon[j]) => i = j
    /\ Sources \subseteq Addr \ {eb, bc}
    /\ Failures \subseteq {"NOACK", "ERR", "COLLISION"}
    /\ None \notin Packet \cup Addr \cup Link
    /\ MaxNeighbors \in Nat /\ MaxPackets \in Nat /\ MaxLinks \in Nat
    /\ QueueSize \in Nat \ {0} /\ DequeuedSize \in Nat \ {0}
    /\ InputSize \in Nat \ {0} /\ MaxWindow \in 1..255 /\ BurstMax \in Nat \ {0}
    /\ MaxChanges \in Nat /\ MaxLeaves \in Nat

VARIABLES
    tsch_locked, tsch_lock_requested,
    todo,              \* the calls that process context still has to make
    tsch_is_associated,
    scanning,          \* is tsch_process in tsch_scan()?
    pending,           \* is tsch_pending_events_process polled?
    links,             \* the links of the schedule
    nbrs,              \* neighbor_list
    tx_links_count, backoff_window,   \* of a neighbor
    time_source,       \* the neighbor with is_time_source
    queue,             \* tx_ringbuf and tx_array of a neighbor
    packet_memb,       \* the packets that have a block and a queue buffer
    transmissions, ret,               \* of a packet
    dequeued,          \* dequeued_ringbuf and dequeued_array
    input,             \* how many packets input_ringbuf holds
    armed,             \* is the rtimer set?
    phase,             \* the slot operation is "idle", or in a "tx", "rx" slot
    current_link, backup_link, current_packet, current_neighbor,
    burst_link_scheduled, tsch_current_burst_count,
    fallback,          \* history: current_link was taken from backup_link
    outcome,           \* history: what became of each packet
    cut,               \* history: tsch_reset() began in a slot that sends
    changes, leaves    \* history

lockVars == <<tsch_locked, tsch_lock_requested>>
netVars == <<tsch_is_associated, scanning, leaves>>
nbrVars == <<nbrs, tx_links_count, time_source>>
packetVars == <<queue, packet_memb, transmissions, ret, dequeued, outcome>>
linkVars == <<current_link, backup_link, burst_link_scheduled,
              tsch_current_burst_count, fallback>>
slotVars == <<armed, phase, current_packet, current_neighbor>>
vars == <<lockVars, todo, netVars, pending, links, nbrVars, backoff_window,
          packetVars, input, slotVars, linkVars, changes, cut>>

Has(l, o) == o \in Options[l]
Unicast == Addr \ {eb, bc}

(* is_active_slot begins with tsch_in_slot_operation set; it is cleared at *)
(* the end of the slot.                                                    *)
tsch_in_slot_operation == phase # "idle"

(* tsch_init(): no network, no schedule, the two virtual neighbors. *)
Init ==
    /\ tsch_locked = FALSE /\ tsch_lock_requested = FALSE
    /\ todo = <<>>
    /\ tsch_is_associated = FALSE /\ scanning = TRUE /\ leaves = 0
    /\ pending = FALSE
    /\ links = {}
    /\ nbrs = {eb, bc}
    /\ tx_links_count = [a \in Addr |-> 0]
    /\ backoff_window = [a \in Addr |-> 0]
    /\ time_source = None
    /\ queue = [a \in Addr |-> <<>>]
    /\ packet_memb = {}
    /\ transmissions = [p \in Packet |-> 0]
    /\ ret = [p \in Packet |-> "DEFERRED"]
    /\ dequeued = <<>>
    /\ input = 0
    /\ armed = FALSE /\ phase = "idle"
    /\ current_packet = None /\ current_neighbor = None
    /\ current_link = None /\ backup_link = None
    /\ burst_link_scheduled = FALSE /\ tsch_current_burst_count = 0
    /\ fallback = FALSE
    /\ outcome = [p \in Packet |-> "new"]
    /\ changes = 0 /\ cut = FALSE

------------------------------------------------------------------------------
(* The slot operation, in the interrupt. *)

(* tsch_queue_get_packet_for_nbr() has a packet for link l. *)
Sendable(a, l) ==
    /\ ~ tsch_locked
    /\ a \in nbrs /\ queue[a] # <<>>
    /\ Has(l, "SHARED") => backoff_window[a] = 0

(* tsch_queue_get_unicast_packet_for_any() looks at neighbors without a    *)
(* link of their own.                                                      *)
AnyNeighbor(l) ==
    {a \in Unicast : tx_links_count[a] = 0 /\ Sendable(a, l)}

(* get_packet_and_neighbor_for_link(): the neighbors whose first packet    *)
(* may be chosen; the order of the list is left open.                      *)
NeighborFor(l) ==
    IF ~ Has(l, "TX") THEN {}
    ELSE IF (Has(l, "ADV") \/ Has(l, "ADV_ONLY")) /\ Sendable(eb, l) THEN {eb}
    ELSE IF Has(l, "ADV_ONLY") THEN {}
    ELSE IF Sendable(LinkAddr[l], l) THEN {LinkAddr[l]}
    ELSE IF LinkAddr[l] = bc THEN AnyNeighbor(l)
    ELSE {}

(* Of two links in the same slot, one that sends comes first, then the one *)
(* with the lower handle.                                                  *)
Precedes(l, m) ==
    /\ Slotframe[l] # Slotframe[m]
    /\ IF Has(l, "TX") = Has(m, "TX") THEN Slotframe[l] < Slotframe[m]
                                      ELSE Has(l, "TX")

(* tsch_schedule_get_next_active_link(): the link and the backup link.     *)
NextActive ==
    IF tsch_locked \/ links = {} THEN {<<None, None>>}
    ELSE {<<l, None>> : l \in links}
         \cup {n \in links \X links :
                   Has(n[2], "RX") /\ (Precedes(n[1], n[2]) \/ n[1] = n[2])}

(* tsch_queue_update_all_backoff_windows() for a shared link l *)
BackoffAfter(l, w) ==
    IF l = None \/ tsch_locked THEN w
    ELSE IF ~ (Has(l, "TX") /\ Has(l, "SHARED")) THEN w
    ELSE [a \in Addr |->
            IF /\ w[a] # 0 /\ a \in nbrs
               /\ \/ tx_links_count[a] = 0 /\ LinkAddr[l] = bc
                  \/ tx_links_count[a] > 0 /\ LinkAddr[l] = a
            THEN w[a] - 1 ELSE w[a]]

(* tsch_disassociate(), which polls tsch_process *)
tsch_disassociate ==
    /\ leaves < MaxLeaves
    /\ leaves' = IF tsch_is_associated THEN leaves + 1 ELSE leaves
    /\ tsch_is_associated' = FALSE
    /\ UNCHANGED scanning

(* After a slot with link l, backoff windows w and burst flag b the timer  *)
(* is set for the next active link or, in a burst, for the same link again *)
(* (a longer burst is like one of BurstMax).                               *)
ScheduleNext(l, w, b, f) ==
    /\ armed' = TRUE
    /\ backoff_window' = BackoffAfter(l, w)
    /\ burst_link_scheduled' = b
    /\ \/ /\ b /\ l # None
          /\ current_link' = l /\ backup_link' = None
          /\ tsch_current_burst_count' =
               IF tsch_current_burst_count < BurstMax - 1
               THEN tsch_current_burst_count + 1 ELSE BurstMax - 1
          /\ fallback' = f
       \/ /\ ~ (b /\ l # None)
          /\ \E n \in NextActive :
               current_link' = n[1] /\ backup_link' = n[2]
          /\ tsch_current_burst_count' =
               IF current_link' = None THEN tsch_current_burst_count ELSE 0
          /\ fallback' = FALSE
    /\ UNCHANGED netVars

(* The end of a slot: the network is left or the next slot is scheduled.   *)
(* The packet and the neighbor of the slot are not used again.             *)
SlotEnd(l, w, b, f) ==
    /\ phase' = "idle"
    /\ current_packet' = None /\ current_neighbor' = None
    /\ \/ ScheduleNext(l, w, b, f)
       \/ /\ tsch_disassociate
          /\ armed' = FALSE
          /\ current_link' = l /\ burst_link_scheduled' = b
          /\ fallback' = f
          /\ backoff_window' = w
          /\ UNCHANGED <<backup_link, tsch_current_burst_count>>

(* tsch_slot_operation() after the network was left: the loop ends. *)
slot_stop ==
    /\ armed /\ phase = "idle" /\ ~ tsch_is_associated
    /\ armed' = FALSE
    /\ UNCHANGED <<lockVars, todo, netVars, pending, links, nbrVars,
                   backoff_window, packetVars, input, phase, current_packet,
                   current_neighbor, linkVars, changes, cut>>

(* There is no link, or a process waits for the lock: the slot is skipped. *)
slot_skip ==
    /\ armed /\ phase = "idle" /\ tsch_is_associated
    /\ current_link = None \/ tsch_lock_requested
    /\ SlotEnd(current_link, backoff_window, burst_link_scheduled, fallback)
    /\ UNCHANGED <<lockVars, todo, pending, links, nbrVars, packetVars, input,
                   changes, cut>>

(* The deadline of a slot is missed: the next one is scheduled at once.    *)
slot_missed ==
    /\ armed /\ phase = "idle" /\ tsch_is_associated
    /\ ScheduleNext(current_link, backoff_window, burst_link_scheduled, fallback)
    /\ UNCHANGED <<lockVars, todo, pending, links, nbrVars, packetVars, input,
                   phase, current_packet, current_neighbor, changes, cut>>

(* A slot with link l begins; the first segment of tsch_tx_slot(),         *)
(* tsch_rx_slot(), or a slot with nothing to do.                           *)
SlotBegin(l, f) ==
    \/ \E a \in NeighborFor(l) :
            IF Len(dequeued) < DequeuedSize - 1
            THEN /\ phase' = "tx" /\ current_link' = l /\ fallback' = f
                 /\ current_packet' = Head(queue[a]) /\ current_neighbor' = a
                 /\ burst_link_scheduled' = FALSE
                 /\ UNCHANGED <<netVars, armed, backup_link, backoff_window,
                                tsch_current_burst_count>>
            ELSE SlotEnd(l, backoff_window, FALSE, f)
    \/ /\ NeighborFor(l) = {}
       /\ IF Has(l, "RX") /\ input < InputSize - 1
          THEN /\ phase' = "rx" /\ current_link' = l /\ fallback' = f
               /\ current_packet' = None /\ current_neighbor' = None
               /\ burst_link_scheduled' = FALSE
               /\ UNCHANGED <<netVars, armed, backup_link, backoff_window,
                              tsch_current_burst_count>>
          ELSE SlotEnd(l, backoff_window, FALSE, f)

(* Without a packet, a link that only sends gives way to the backup link.  *)
slot_begin ==
    LET switch == /\ NeighborFor(current_link) = {}
                  /\ ~ Has(current_link, "RX") /\ backup_link # None
    IN /\ armed /\ phase = "idle" /\ tsch_is_associated
       /\ current_link # None /\ ~ tsch_lock_requested
       /\ IF switch THEN SlotBegin(backup_link, TRUE)
                    ELSE SlotBegin(current_link, fallback)
       /\ UNCHANGED <<lockVars, todo, pending, links, nbrVars, packetVars,
                      input, changes, cut>>

(* Slip: the process is polled for received packets only. *)
poll_for_input == pending' = (pending \/ input > 0)

(* process_poll(&tsch_pending_events_process) after a transmission *)
poll_for_sent == pending' = TRUE

(* What the radio and the acknowledgement say; a packet to all has none. *)
TxStatus(a) ==
    {"OK"} \cup IF a \in Unicast THEN Failures ELSE Failures \ {"NOACK"}

(* Slip: the packet is read but stays in its queue. *)
Removed_peek(a) == queue

(* The packet leaves its queue: tsch_queue_remove_packet_from_queue().     *)
Removed(a) ==
    IF tsch_locked \/ queue[a] = <<>> THEN queue
    ELSE [queue EXCEPT ![a] = Tail(@)]

(* tsch_queue_packet_sent() reads the options of the link; what it reads   *)
(* through a null pointer is open.                                         *)
SharedLink(l) == IF l = None THEN BOOLEAN ELSE {Has(l, "SHARED")}

(* The backoff window after status s; the window of a failure is random.   *)
WindowAfter(a, shared, s, q) ==
    IF a \notin Unicast THEN {backoff_window}
    ELSE IF s = "OK"
         THEN IF shared \/ (~ tsch_locked /\ q[a] = <<>>)
              THEN {[backoff_window EXCEPT ![a] = 0]} ELSE {backoff_window}
         ELSE IF shared
              THEN {[backoff_window EXCEPT ![a] = w] : w \in 1..MaxWindow}
              ELSE {backoff_window}

(* The last segment of tsch_tx_slot(). *)
tx_slot_end ==
    LET p == current_packet
        a == current_neighbor
    IN /\ phase = "tx"
       /\ \E s \in TxStatus(a) :
            LET t == transmissions[p] + 1
                gone == s = "OK" \/ t >= MaxTx[p]
                q == IF gone THEN Removed(a) ELSE queue
                more == /\ s = "OK" /\ a \in Unicast /\ Len(queue[a]) > 1
                        /\ tsch_current_burst_count + 1 < BurstMax
            IN /\ transmissions' = [transmissions EXCEPT ![p] = t]
               /\ ret' = [ret EXCEPT ![p] = s]
               /\ queue' = q
               /\ dequeued' = IF gone THEN Append(dequeued, p) ELSE dequeued
               /\ \E h \in SharedLink(current_link), b \in BOOLEAN :
                    \E w \in WindowAfter(a, h, s, q) :
                      (b => more) /\ SlotEnd(current_link, w, b, fallback)
       /\ poll_for_sent
       /\ UNCHANGED <<lockVars, todo, links, nbrVars, packet_memb, input,
                      outcome, changes, cut>>

(* The last segment of tsch_rx_slot(): a frame for this node is stored, or *)
(* there is none.  A frame that was acknowledged may ask for a burst.      *)
rx_slot_end ==
    /\ phase = "rx"
    /\ \E got, b \in BOOLEAN :
         /\ b => got /\ tsch_current_burst_count + 1 < BurstMax
         /\ input' = IF got THEN input + 1 ELSE input
         /\ pending' = (got \/ pending)
         /\ SlotEnd(current_link, backoff_window, b, fallback)
    /\ UNCHANGED <<lockVars, todo, links, nbrVars, packetVars,
                   changes, cut>>

------------------------------------------------------------------------------
(* Process context.  The first call of todo is the one in progress.        *)

Idle == todo = <<>>
Doing(op) == todo # <<>> /\ Head(todo)[1] = op
Arg == Head(todo)[2]
Return == todo' = Tail(todo)
ReturnTo(s) == todo' = s \o Tail(todo)

(* The calls that begin with tsch_get_lock(). *)
Locking ==
    \/ Doing("add_link") \/ Doing("remove_link") \/ Doing("remove_nbr")
    \/ Doing("add_nbr") /\ Arg \notin nbrs

(* tsch_get_lock(): no new slot operation is to start, *)
get_lock_request ==
    /\ Locking /\ ~ tsch_locked /\ ~ tsch_lock_requested
    /\ tsch_lock_requested' = TRUE
    /\ UNCHANGED <<tsch_locked, todo, netVars, pending, links, nbrVars,
                   backoff_window, packetVars, input, slotVars, linkVars,
                   changes, cut>>

(* Slip: the lock is taken in the middle of a slot. *)
get_lock_grab ==
    /\ tsch_lock_requested /\ ~ tsch_locked
    /\ tsch_locked' = TRUE
    /\ UNCHANGED <<tsch_lock_requested, todo, netVars, pending, links,
                   nbrVars, backoff_window, packetVars, input, slotVars,
                   linkVars, changes, cut>>

(* the current one has ended, *)
get_lock_take ==
    /\ tsch_lock_requested /\ ~ tsch_locked
    /\ ~ tsch_in_slot_operation
    /\ tsch_locked' = TRUE
    /\ UNCHANGED <<tsch_lock_requested, todo, netVars, pending, links,
                   nbrVars, backoff_window, packetVars, input, slotVars,
                   linkVars, changes, cut>>

(* and slots may begin again, while the lock is held. *)
get_lock_return ==
    /\ tsch_lock_requested /\ tsch_locked
    /\ tsch_lock_requested' = FALSE
    /\ UNCHANGED <<tsch_locked, todo, netVars, pending, links, nbrVars,
                   backoff_window, packetVars, input, slotVars, linkVars,
                   changes, cut>>

Inside == tsch_locked /\ ~ tsch_lock_requested

tsch_release_lock ==
    /\ Doing("release")
    /\ tsch_locked' = FALSE
    /\ Return
    /\ UNCHANGED <<tsch_lock_requested, netVars, pending, links, nbrVars,
                   backoff_window, packetVars, input, slotVars, linkVars,
                   changes, cut>>

Release == <<"release", None>>

(* tsch_queue_add_nbr() of a known neighbor *)
add_nbr_known ==
    /\ Doing("add_nbr") /\ Arg \in nbrs /\ ~ tsch_locked
    /\ Return
    /\ UNCHANGED <<lockVars, netVars, pending, links, nbrVars, backoff_window,
                   packetVars, input, slotVars, linkVars, changes, cut>>

(* and of a new one: it needs a block. *)
tsch_queue_add_nbr ==
    /\ Doing("add_nbr") /\ Inside
    /\ IF Cardinality(nbrs) < MaxNeighbors
       THEN /\ nbrs' = nbrs \cup {Arg}
            /\ tx_links_count' = [tx_links_count EXCEPT ![Arg] = 0]
            /\ backoff_window' = [backoff_window EXCEPT ![Arg] = 0]
       ELSE UNCHANGED <<nbrs, tx_links_count, backoff_window>>
    /\ ReturnTo(<<Release>>)
    /\ UNCHANGED <<lockVars, netVars, pending, links, time_source, packetVars,
                   input, slotVars, linkVars, changes, cut>>

(* tsch_queue_remove_nbr() flushes the queue after it released the lock. *)
tsch_queue_remove_nbr ==
    /\ Doing("remove_nbr") /\ Inside
    /\ nbrs' = nbrs \ {Arg}
    /\ ReturnTo(<<Release, <<"flush", Arg>>>>)
    /\ UNCHANGED <<lockVars, netVars, pending, links, tx_links_count,
                   time_source, backoff_window, packetVars, input, slotVars,
                   linkVars, changes, cut>>

(* A freed packet is of no use any more. *)
tsch_queue_free_packet(p) ==
    /\ packet_memb' = packet_memb \ {p}
    /\ transmissions' = [transmissions EXCEPT ![p] = 0]
    /\ ret' = [ret EXCEPT ![p] = "DEFERRED"]

(* tsch_queue_flush_nbr_queue(): one packet after the other is given back. *)
tsch_queue_flush_nbr_queue ==
    /\ Doing("flush") /\ ~ tsch_locked
    /\ IF queue[Arg] = <<>>
       THEN Return /\ UNCHANGED packetVars
       ELSE LET p == Head(queue[Arg])
            IN /\ queue' = [queue EXCEPT ![Arg] = Tail(@)]
               /\ outcome' = [outcome EXCEPT ![p] = "ERR"]
               /\ tsch_queue_free_packet(p)
               /\ UNCHANGED <<todo, dequeued>>
    /\ UNCHANGED <<lockVars, netVars, pending, links, nbrVars, backoff_window,
                   input, slotVars, linkVars, changes, cut>>

(* tsch_queue_reset() flushes every queue of the list and ends the backoff. *)
tsch_queue_reset ==
    /\ Doing("queue_reset") /\ ~ tsch_locked
    /\ \/ \E a \in Arg :
            /\ queue[a] # <<>>
            /\ ReturnTo(<<<<"flush", a>>, <<"queue_reset", Arg \ {a}>>>>)
            /\ backoff_window' = [backoff_window EXCEPT ![a] = 0]
       \/ /\ \A a \in Arg : queue[a] = <<>>
          /\ Return
          /\ backoff_window' =
               [a \in Addr |-> IF a \in Arg THEN 0 ELSE backoff_window[a]]
    /\ UNCHANGED <<lockVars, netVars, pending, links, nbrVars, packetVars,
                   input, slotVars, linkVars, changes, cut>>

(* The neighbors that tsch_queue_free_unused_neighbors() removes, one      *)
(* after the other *)
Unused(a) ==
    a \in Unicast /\ a # time_source /\ tx_links_count[a] = 0 /\ queue[a] = <<>>

tsch_queue_free_unused_neighbors ==
    /\ Doing("free_unused") /\ ~ tsch_locked
    /\ \/ \E a \in Arg :
            /\ Unused(a)
            /\ ReturnTo(<<<<"remove_nbr", a>>, <<"free_unused", Arg \ {a}>>>>)
       \/ (\A a \in Arg : ~ Unused(a)) /\ Return
    /\ UNCHANGED <<lockVars, netVars, pending, links, nbrVars, backoff_window,
                   packetVars, input, slotVars, linkVars, changes, cut>>

(* tsch_queue_add_packet(): it fails without a neighbor entry, with a full *)
(* queue, without a block, or without a queue buffer, which others use too. *)
tsch_queue_add_packet ==
    /\ Doing("add_packet") /\ ~ tsch_locked
    /\ LET p == Arg
           a == Dest[Arg]
       IN \/ /\ a \in nbrs /\ Len(queue[a]) < QueueSize - 1
             /\ Cardinality(packet_memb) < MaxPackets
             /\ queue' = [queue EXCEPT ![a] = Append(@, p)]
             /\ packet_memb' = packet_memb \cup {p}
             /\ outcome' = [outcome EXCEPT ![p] = "queued"]
             /\ UNCHANGED <<transmissions, ret, dequeued>>
          \/ /\ outcome' = [outcome EXCEPT ![p] = "ERR"]
             /\ UNCHANGED <<queue, packet_memb, transmissions, ret, dequeued>>
    /\ Return
    /\ UNCHANGED <<lockVars, netVars, pending, links, nbrVars, backoff_window,
                   input, slotVars, linkVars, changes, cut>>

(* The counter of links is a byte; a neighbor without entry has none. *)
count_links ==
    /\ Doing("count_up") \/ Doing("count_down")
    /\ tx_links_count' =
         IF Arg \notin nbrs THEN tx_links_count
         ELSE [tx_links_count EXCEPT ![Arg] =
                 (IF Doing("count_up") THEN @ + 1 ELSE @ + 255) % 256]
    /\ Return
    /\ UNCHANGED <<lockVars, netVars, pending, links, nbrs, time_source,
                   backoff_window, packetVars, input, slotVars, linkVars,
                   changes, cut>>

Counted(l, op) ==
    IF Has(l, "TX") THEN <<<<"add_nbr", LinkAddr[l]>>, <<op, LinkAddr[l]>>>>
                    ELSE <<>>

(* tsch_schedule_add_link(), after the link of that slot was removed *)
tsch_schedule_add_link ==
    /\ Doing("add_link") /\ Inside
    /\ IF Cardinality(links) < MaxLinks
       THEN /\ links' = links \cup {Arg}
            /\ ReturnTo(<<Release>> \o Counted(Arg, "count_up"))
       ELSE UNCHANGED links /\ ReturnTo(<<Release>>)
    /\ UNCHANGED <<lockVars, netVars, pending, nbrVars, backoff_window,
                   packetVars, input, slotVars, linkVars, changes, cut>>

(* tsch_schedule_remove_link(): a link that is next is given up, too. *)
tsch_schedule_remove_link ==
    /\ Doing("remove_link") /\ Inside
    /\ current_link' = IF current_link = Arg THEN None ELSE current_link
    /\ links' = links \ {Arg}
    /\ ReturnTo(<<Release>> \o Counted(Arg, "count_down"))
    /\ UNCHANGED <<lockVars, netVars, pending, nbrVars, backoff_window,
                   packetVars, input, slotVars, backup_link,
                   burst_link_scheduled, tsch_current_burst_count, fallback,
                   changes, cut>>

(* tsch_schedule_remove_all_slotframes(); what a slotframe is apart from   *)
(* its links, and the lock that is taken to free it, are left out.         *)
tsch_schedule_remove_all ==
    /\ Doing("remove_all")
    /\ IF links = {} THEN Return
       ELSE \E l \in links : ReturnTo(<<<<"remove_link", l>>, Head(todo)>>)
    /\ UNCHANGED <<lockVars, netVars, pending, links, nbrVars, backoff_window,
                   packetVars, input, slotVars, linkVars, changes, cut>>

(* tsch_queue_update_time_source() *)
tsch_queue_update_time_source ==
    /\ Doing("set_source") /\ ~ tsch_locked
    /\ time_source' = IF Arg \in nbrs \cup {None} THEN Arg ELSE time_source
    /\ Return
    /\ UNCHANGED <<lockVars, netVars, pending, links, nbrs, tx_links_count,
                   backoff_window, packetVars, input, slotVars, linkVars,
                   changes, cut>>

(* tsch_rx_process_pending(): a beacon may make the node leave. *)
tsch_rx_process_pending ==
    /\ Doing("rx_pending")
    /\ IF input = 0
       THEN Return /\ UNCHANGED <<input, netVars>>
       ELSE /\ input' = input - 1
            /\ tsch_disassociate \/ UNCHANGED netVars
            /\ UNCHANGED todo
    /\ UNCHANGED <<lockVars, pending, links, nbrVars, backoff_window,
                   packetVars, slotVars, linkVars, changes, cut>>

(* tsch_tx_process_pending(): the callback, which leaves the network after *)
(* a keepalive without answer, and the memory of one packet; the ring is   *)
(* advanced after unused neighbors are gone.                               *)
tsch_tx_process_pending ==
    /\ Doing("tx_pending")
    /\ IF dequeued = <<>>
       THEN Return /\ UNCHANGED <<packetVars, netVars>>
       ELSE LET p == Head(dequeued)
            IN /\ outcome' = [outcome EXCEPT ![p] = ret[p]]
               /\ tsch_queue_free_packet(p)
               /\ \/ ret[p] = "NOACK" /\ tsch_disassociate
                  \/ UNCHANGED netVars
               /\ ReturnTo(<<<<"free_unused", nbrs \cap Unicast>>,
                             <<"dequeued_get", None>>, Head(todo)>>)
               /\ UNCHANGED <<queue, dequeued>>
    /\ UNCHANGED <<lockVars, pending, links, nbrVars, backoff_window, input,
                   slotVars, linkVars, changes, cut>>

dequeued_get ==
    /\ Doing("dequeued_get")
    /\ dequeued' = IF dequeued = <<>> THEN dequeued ELSE Tail(dequeued)
    /\ Return
    /\ UNCHANGED <<lockVars, netVars, pending, links, nbrVars, backoff_window,
                   queue, packet_memb, transmissions, ret, input, outcome,
                   slotVars, linkVars, changes, cut>>

(* The end of tsch_reset(): tsch_process goes on to scan. *)
reset_done ==
    /\ Doing("reset_done")
    /\ current_link' = None
    /\ scanning' = TRUE
    /\ Return
    /\ UNCHANGED <<lockVars, tsch_is_associated, leaves, pending, links,
                   nbrVars, backoff_window, packetVars, input, slotVars,
                   backup_link, burst_link_scheduled,
                   tsch_current_burst_count, fallback, changes, cut>>

(* The end of tsch_associate(), if the beacon's sender has an entry, and   *)
(* tsch_slot_operation_start().                                            *)
associate_done ==
    /\ Doing("associate_done")
    /\ IF Arg \in nbrs
       THEN /\ tsch_is_associated' = TRUE /\ scanning' = FALSE
            /\ armed' = TRUE
            /\ \E n \in NextActive :
                 current_link' = n[1] /\ backup_link' = n[2]
            /\ fallback' = FALSE
            /\ pending' = TRUE
       ELSE UNCHANGED <<tsch_is_associated, scanning, armed, current_link,
                        backup_link, fallback, pending>>
    /\ Return
    /\ UNCHANGED <<lockVars, leaves, links, nbrVars, backoff_window,
                   packetVars, input, phase, current_packet,
                   current_neighbor, burst_link_scheduled,
                   tsch_current_burst_count, changes, cut>>

------------------------------------------------------------------------------
(* The calls that start something, one at a time. *)

Start(s) ==
    /\ Idle
    /\ todo' = s
    /\ UNCHANGED <<lockVars, links, nbrVars, backoff_window, input, slotVars,
                   linkVars>>

(* send_packet(): refused without a network or by the framer.              *)
(* tsch_send_eb_process, which sends to eb, queues one beacon at a time.   *)
send_packet(p) ==
    /\ outcome[p] = "new"
    /\ Dest[p] = eb => queue[eb] = <<>>
    /\ \/ /\ tsch_is_associated
          /\ Start(<<<<"add_nbr", Dest[p]>>, <<"add_packet", p>>>>)
          /\ UNCHANGED packetVars
       \/ /\ Start(<<>>)
          /\ outcome' = [outcome EXCEPT ![p] = "ERR"]
          /\ UNCHANGED <<queue, packet_memb, transmissions, ret, dequeued>>
    /\ UNCHANGED <<netVars, pending, changes, cut>>

Change == changes < MaxChanges /\ changes' = changes + 1 /\ UNCHANGED cut

(* Slip: the link of the same slot is not looked for. *)
add_link_again(l) ==
    /\ Change
    /\ Start(<<<<"add_link", l>>>>)
    /\ UNCHANGED <<packetVars, netVars, pending>>

(* tsch_schedule_add_link() begins with the link of the same slot. *)
add_link(l) ==
    /\ Change
    /\ LET old == {m \in links : SameSlot(m, l)}
       IN IF old = {} THEN Start(<<<<"add_link", l>>>>)
          ELSE \E m \in old : Start(<<<<"remove_link", m>>, <<"add_link", l>>>>)
    /\ UNCHANGED <<packetVars, netVars, pending>>

remove_link(l) ==
    /\ Change
    /\ l \in links
    /\ Start(<<<<"remove_link", l>>>>)
    /\ UNCHANGED <<packetVars, netVars, pending>>

(* The routing protocol or the keepalive picks another time source. *)
update_time_source(a) ==
    /\ Change
    /\ tsch_is_associated
    /\ Start(<<<<"add_nbr", a>>, <<"set_source", a>>>>)
    /\ UNCHANGED <<packetVars, netVars, pending>>

(* tsch_pending_events_process *)
tsch_pending_events ==
    /\ pending /\ pending' = FALSE
    /\ Start(<<<<"rx_pending", None>>, <<"tx_pending", None>>>>)
    /\ UNCHANGED <<packetVars, netVars, changes, cut>>

(* Slip: the queues are flushed before sent packets are given back. *)
tsch_reset_early ==
    /\ ~ tsch_is_associated /\ ~ scanning
    /\ Start(<<<<"queue_reset", nbrs>>,
               <<"rx_pending", None>>, <<"tx_pending", None>>,
               <<"free_unused", nbrs \cap Unicast>>,
               <<"set_source", None>>, <<"reset_done", None>>>>)
    /\ cut' = (cut \/ phase = "tx")
    /\ UNCHANGED <<packetVars, netVars, pending, changes>>

(* tsch_process after the network was left: tsch_reset(), which takes no   *)
(* lock and does not wait for the slot in progress.                        *)
tsch_reset ==
    /\ ~ tsch_is_associated /\ ~ scanning
    /\ Start(<<<<"rx_pending", None>>, <<"tx_pending", None>>,
               <<"queue_reset", nbrs>>, <<"free_unused", nbrs \cap Unicast>>,
               <<"set_source", None>>, <<"reset_done", None>>>>)
    /\ cut' = (cut \/ phase = "tx")
    /\ UNCHANGED <<packetVars, netVars, pending, changes>>

(* tsch_associate() on a beacon from a: its schedule, the time source, and *)
(* the start.                                                              *)
tsch_associate(a) ==
    /\ scanning
    /\ Start(<<<<"remove_all", None>>>>
             \o [i \in DOMAIN FromBeacon |-> <<"add_link", FromBeacon[i]>>]
             \o <<<<"add_nbr", a>>, <<"set_source", a>>, <<"associate_done", a>>>>)
    /\ UNCHANGED <<packetVars, netVars, pending, changes, cut>>

------------------------------------------------------------------------------
Slot == slot_stop \/ slot_skip \/ slot_missed \/ slot_begin \/ tx_slot_end
        \/ rx_slot_end

Lock == get_lock_request \/ get_lock_take \/ get_lock_return
        \/ tsch_release_lock

Call == \/ Lock \/ add_nbr_known \/ tsch_queue_add_nbr
        \/ tsch_queue_remove_nbr \/ tsch_queue_flush_nbr_queue
        \/ tsch_queue_reset \/ tsch_queue_free_unused_neighbors
        \/ tsch_queue_add_packet \/ count_links \/ tsch_schedule_add_link
        \/ tsch_schedule_remove_link \/ tsch_schedule_remove_all
        \/ tsch_queue_update_time_source \/ tsch_rx_process_pending
        \/ tsch_tx_process_pending \/ dequeued_get \/ reset_done
        \/ associate_done

Next ==
    \/ Slot \/ Call \/ tsch_pending_events \/ tsch_reset
    \/ \E p \in Packet : send_packet(p)
    \/ \E l \in Dynamic : add_link(l) \/ remove_link(l)
    \/ \E a \in Sources : update_time_source(a) \/ tsch_associate(a)

Spec == Init /\ [][Next]_vars

------------------------------------------------------------------------------
(* Properties *)

(* The calls that process context makes. *)
Calls ==
    ({"add_nbr", "remove_nbr", "flush", "count_up", "count_down"} \X Addr)
    \cup ({"add_link", "remove_link"} \X Link)
    \cup ({"queue_reset", "free_unused"} \X SUBSET Addr)
    \cup ({"set_source", "associate_done"} \X (Addr \cup {None}))
    \cup ({"add_packet"} \X Packet)
    \cup ({"release", "rx_pending", "tx_pending", "dequeued_get",
           "remove_all", "reset_done"} \X {None})

(* Type invariant. *)
TypeOK ==
    /\ {tsch_locked, tsch_lock_requested, tsch_is_associated, scanning,
        pending, armed, burst_link_scheduled, fallback, cut} \subseteq BOOLEAN
    /\ todo \in Seq(Calls)
    /\ links \subseteq Link /\ nbrs \subseteq Addr
    /\ tx_links_count \in [Addr -> 0..255]
    /\ backoff_window \in [Addr -> 0..MaxWindow]
    /\ time_source \in Addr \cup {None}
    /\ queue \in [Addr -> Seq(Packet)] /\ packet_memb \subseteq Packet
    /\ transmissions \in [Packet -> 0..255]
    /\ ret \in [Packet -> {"OK", "DEFERRED"} \cup Failures]
    /\ outcome \in [Packet -> {"new", "queued", "OK", "ERR"} \cup Failures]
    /\ dequeued \in Seq(Packet) /\ Len(dequeued) < DequeuedSize
    /\ input \in 0..(InputSize - 1)
    /\ phase \in {"idle", "tx", "rx"}
    /\ {current_link, backup_link} \subseteq Link \cup {None}
    /\ current_packet \in Packet \cup {None}
    /\ current_neighbor \in Addr \cup {None}
    /\ tsch_current_burst_count \in 0..(BurstMax - 1)
    /\ changes \in 0..MaxChanges /\ leaves \in 0..MaxLeaves

(* In a slot that sends, the processes do not hold the lock, and the link, *)
(* the neighbor and the packet of the slot are there until it ends: the    *)
(* packet is the first of its queue and the ring for sent packets has room *)
(* for it.  A link that was removed is not run, unless it was the backup   *)
(* link, which tsch_schedule_remove_link() does not look at.               *)
SlotKept ==
    /\ phase = "tx" =>
         /\ ~ tsch_locked
         /\ current_link # None
         /\ current_neighbor \in nbrs
         /\ queue[current_neighbor] # <<>>
         /\ Head(queue[current_neighbor]) = current_packet
         /\ Len(dequeued) < DequeuedSize - 1
    /\ ~ fallback => current_link \in links \cup {None}

(* The lock keeps a slot in place against every step of the processes but  *)
(* one: tsch_reset() takes no lock, and when it begins in a slot that      *)
(* sends, it frees the packet and clears the link of the slot.             *)
SlotSafe == ~ cut => SlotKept

(* The packets that still have to be given back; between the callback and  *)
(* the end of its turn, the first of the ring is a packet already freed.   *)
Undelivered ==
    IF \E i \in DOMAIN todo : todo[i][1] = "dequeued_get" THEN Tail(dequeued)
                                                         ELSE dequeued

Places(p) ==
    (UNION {{a} \X {i \in DOMAIN queue[a] : queue[a][i] = p} : a \in Addr})
    \cup ({None} \X {i \in DOMAIN Undelivered : Undelivered[i] = p})

(* A packet that has a block is in exactly one place, in one queue or in   *)
(* the ring of sent packets; one that was freed is nowhere, and has been   *)
(* sent as often as it may be at most.  This holds until tsch_reset()      *)
(* begins in a slot that sends: the slot then puts the packet that was     *)
(* freed into the ring, and it is given back and freed again.              *)
PacketsSound ==
    /\ TypeOK
    /\ ~ cut => \A p \in Packet :
         /\ Cardinality(Places(p)) = IF p \in packet_memb THEN 1 ELSE 0
         /\ (p \in packet_memb) = (outcome[p] = "queued")
         /\ transmissions[p] <= MaxTx[p]

CallsTo(op, a) == Cardinality({i \in DOMAIN todo : todo[i] = <<op, a>>})

(* tx_links_count of a neighbor is the number of its links that send; in   *)
(* the middle of a change, a call that corrects it is still to come.  A    *)
(* neighbor with such a link has an entry.                                 *)
LinksCounted ==
    \A a \in Addr :
        Cardinality({l \in links : Has(l, "TX") /\ LinkAddr[l] = a}) =
        (IF a \in nbrs THEN tx_links_count[a] ELSE 0)
        + CallsTo("count_up", a) - CallsTo("count_down", a)

(* The packets of s for receiver a, in their order; a recursive function,  *)
(* about which the provers can reason.                                     *)
For(a, s) ==
    LET f[i \in 0..Len(s)] ==
          IF i = 0 THEN <<>>
          ELSE IF Dest[s[i]] = a THEN Append(f[i - 1], s[i]) ELSE f[i - 1]
    IN f[Len(s)]

(* Sent packets are given back before those still in the queue. *)
Waiting == [a \in Addr |-> For(a, Undelivered) \o queue[a]]

Mac == INSTANCE MacService WITH
         waiting <- Waiting, Status <- {"OK", "ERR"} \cup Failures

(* Packets of one receiver are given back in the order in which they were  *)
(* queued, each once; also those that are given back because the network   *)
(* is left, unless tsch_reset() begins in a slot that sends.               *)
ImplementsMac == Mac!Init /\ [][cut' \/ Mac!Next]_(Mac!vars)

(* While the node is part of a network the timer of the slot operation is *)
(* set; what the interrupt stored for the processes is handled by a call  *)
(* in progress or by a poll.                                              *)
KeptAlive ==
    /\ tsch_is_associated => armed
    /\ input > 0 => pending \/ \E i \in DOMAIN todo : todo[i][1] = "rx_pending"
    /\ dequeued # <<>> =>
         pending \/ \E i \in DOMAIN todo : todo[i][1] = "tx_pending"
==============================================================================
