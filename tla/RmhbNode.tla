------------------------------- MODULE RmhbNode -------------------------------
(***************************************************************************)
(* One node of the RMH-B protocol, tpwsn-rmhb/tpwsn-rmhb.c: its event      *)
(* timers, the PROCESS_EVENT_TIMER events they post, which the thread      *)
(* handles without looking at which timer posted them, and its neighbor    *)
(* table, a list of blocks of a fixed pool with a ctimer each.  The serial *)
(* command "sleep" switches the node off until the timer rt expires.       *)
(* What the messages other than announcements do is in Rmhb.               *)
(***************************************************************************)
EXTENDS Integers

CONSTANTS Addr,           \* addresses of the nodes in range
          NoAddr,         \* the address in a block that was never used
          MaxNeighbors,   \* MAX_NEIGHBORS
          MaxSleeps       \* bound on the "sleep" commands

ASSUME RmhbNodeAssumption ==
    /\ NoAddr \notin Addr
    /\ MaxNeighbors \in Nat \ {0}
    /\ MaxSleeps \in Nat

Block == 1..MaxNeighbors

VARIABLES beacon_timer, announce_timer, rt,   \* is the etimer running?
          timer_events,     \* PROCESS_EVENT_TIMER events in the queue
          disable_beacon, reset_scheduled,
          neighbor_table,   \* the blocks on the list
          addr,             \* e->addr of every block
          used,             \* neighbor_mem.used of every block
          ctimer,           \* is e->ctimer running?
          sleeps

etimerVars == <<beacon_timer, announce_timer, rt, timer_events>>
tableVars == <<neighbor_table, addr, used, ctimer>>
nodeVars == <<etimerVars, disable_beacon, reset_scheduled, tableVars, sleeps>>

(* The thread up to its first PROCESS_YIELD(). *)
NodeInit ==
    /\ beacon_timer = TRUE /\ announce_timer = TRUE /\ rt = FALSE
    /\ timer_events = 0
    /\ disable_beacon = FALSE /\ reset_scheduled = FALSE
    /\ neighbor_table = {}
    /\ addr = [b \in Block |-> NoAddr]
    /\ used = [b \in Block |-> FALSE]
    /\ ctimer = [b \in Block |-> FALSE]
    /\ sleeps = 0

------------------------------------------------------------------------------
(* An event timer expires and posts its event. *)
expire_beacon ==
    /\ beacon_timer /\ beacon_timer' = FALSE
    /\ timer_events' = timer_events + 1
    /\ UNCHANGED <<announce_timer, rt, disable_beacon, reset_scheduled,
                   tableVars, sleeps>>

expire_announce ==
    /\ announce_timer /\ announce_timer' = FALSE
    /\ timer_events' = timer_events + 1
    /\ UNCHANGED <<beacon_timer, rt, disable_beacon, reset_scheduled,
                   tableVars, sleeps>>

expire_rt ==
    /\ rt /\ rt' = FALSE
    /\ timer_events' = timer_events + 1
    /\ UNCHANGED <<beacon_timer, announce_timer, disable_beacon,
                   reset_scheduled, tableVars, sleeps>>

(* initialise(): list_init() empties the list, the pool stays as it is. *)
initialise ==
    /\ beacon_timer' = (beacon_timer \/ ~ disable_beacon)
    /\ announce_timer' = TRUE
    /\ neighbor_table' = {}

(* restart_node() *)
restart_node ==
    /\ ~ rt /\ reset_scheduled
    /\ rt' = FALSE
    /\ reset_scheduled' = FALSE
    /\ initialise

send_announce ==
    /\ ~ announce_timer
    /\ announce_timer' = TRUE
    /\ UNCHANGED <<beacon_timer, rt, reset_scheduled, neighbor_table>>

send_beacon ==
    /\ ~ beacon_timer /\ ~ disable_beacon
    /\ beacon_timer' = TRUE
    /\ UNCHANGED <<announce_timer, rt, reset_scheduled, neighbor_table>>

(* Slip: the branches of the thread in another order. *)
timer_event_beacon_first ==
    /\ timer_events > 0
    /\ timer_events' = timer_events - 1
    /\ \/ restart_node
       \/ ~ (~ rt /\ reset_scheduled) /\ send_beacon
       \/ /\ ~ (~ rt /\ reset_scheduled) /\ (beacon_timer \/ disable_beacon)
          /\ send_announce
       \/ /\ ~ (~ rt /\ reset_scheduled) /\ announce_timer
          /\ beacon_timer \/ disable_beacon
          /\ UNCHANGED <<beacon_timer, announce_timer, rt, reset_scheduled,
                         neighbor_table>>
    /\ UNCHANGED <<disable_beacon, addr, used, ctimer, sleeps>>

(* The thread handles a timer event: the first branch that applies. *)
timer_event ==
    /\ timer_events > 0
    /\ timer_events' = timer_events - 1
    /\ \/ restart_node
       \/ ~ (~ rt /\ reset_scheduled) /\ send_announce
       \/ ~ (~ rt /\ reset_scheduled) /\ announce_timer /\ send_beacon
       \/ /\ ~ (~ rt /\ reset_scheduled) /\ announce_timer
          /\ beacon_timer \/ disable_beacon
          /\ UNCHANGED <<beacon_timer, announce_timer, rt, reset_scheduled,
                         neighbor_table>>
    /\ UNCHANGED <<disable_beacon, addr, used, ctimer, sleeps>>

------------------------------------------------------------------------------
Free == {b \in Block : ~ used[b]}
FirstFree == CHOOSE b \in Free : \A f \in Free : b <= f   \* memb_alloc()
Known(a) == {b \in neighbor_table : addr[b] = a}

(* Slip: a neighbor that is in the table is added again. *)
recv_announcement_twice(a) ==
    /\ Free # {}
    /\ addr' = [addr EXCEPT ![FirstFree] = a]
    /\ used' = [used EXCEPT ![FirstFree] = TRUE]
    /\ neighbor_table' = neighbor_table \cup {FirstFree}
    /\ ctimer' = [ctimer EXCEPT ![FirstFree] = TRUE]
    /\ UNCHANGED <<etimerVars, disable_beacon, reset_scheduled, sleeps>>

(* recv_announcement(): refresh the entry or add one; nothing is done when *)
(* the pool is empty.  A node that has just been put to sleep may still be *)
(* handed a packet that its radio had received.                            *)
recv_announcement(a) ==
    /\ \/ \E b \in Known(a) :
            /\ ctimer' = [ctimer EXCEPT ![b] = TRUE]
            /\ UNCHANGED <<neighbor_table, addr, used>>
       \/ /\ Known(a) = {} /\ Free # {}
          /\ addr' = [addr EXCEPT ![FirstFree] = a]
          /\ used' = [used EXCEPT ![FirstFree] = TRUE]
          /\ neighbor_table' = neighbor_table \cup {FirstFree}
          /\ ctimer' = [ctimer EXCEPT ![FirstFree] = TRUE]
    /\ UNCHANGED <<etimerVars, disable_beacon, reset_scheduled, sleeps>>

(* remove_neighbor(), called by the ctimer of a block. *)
remove_neighbor(b) ==
    /\ ctimer[b] /\ ctimer' = [ctimer EXCEPT ![b] = FALSE]
    /\ neighbor_table' = neighbor_table \ {b}
    /\ used' = [used EXCEPT ![b] = FALSE]
    /\ UNCHANGED <<etimerVars, disable_beacon, reset_scheduled, addr, sleeps>>

------------------------------------------------------------------------------
(* serial_handler(), "sleep": the blocks are freed; they stay on the list  *)
(* and their timers run on, and announce_timer is not stopped.             *)
serial_sleep ==
    /\ sleeps < MaxSleeps /\ sleeps' = sleeps + 1
    /\ rt' = TRUE
    /\ beacon_timer' = FALSE
    /\ reset_scheduled' = TRUE
    /\ used' = [b \in Block |-> used[b] /\ b \notin neighbor_table]
    /\ UNCHANGED <<announce_timer, timer_events, disable_beacon,
                   neighbor_table, addr, ctimer>>

(* serial_handler(), "disable_beacon" *)
serial_disable_beacon ==
    /\ disable_beacon' = TRUE
    /\ beacon_timer' = FALSE
    /\ UNCHANGED <<announce_timer, rt, timer_events, reset_scheduled,
                   tableVars, sleeps>>

NodeNext ==
    \/ expire_beacon \/ expire_announce \/ expire_rt
    \/ timer_event
    \/ \E a \in Addr : recv_announcement(a)
    \/ \E b \in Block : remove_neighbor(b)
    \/ serial_sleep \/ serial_disable_beacon

NodeSpec == NodeInit /\ [][NodeNext]_nodeVars

(* Timers that run expire, and the kernel delivers what is queued. *)
NodeFairSpec ==
    /\ NodeSpec
    /\ WF_nodeVars(expire_beacon) /\ WF_nodeVars(expire_announce) /\ WF_nodeVars(expire_rt)
    /\ WF_nodeVars(timer_event)

------------------------------------------------------------------------------
(* Type invariant; the event queue never holds more events than there are  *)
(* timers, but for one that each "sleep" may leave behind for each of      *)
(* beacon_timer, announce_timer and rt.                                    *)
NodeTypeOK ==
    /\ beacon_timer \in BOOLEAN /\ announce_timer \in BOOLEAN /\ rt \in BOOLEAN
    /\ timer_events \in 0..(3 + 3 * MaxSleeps)
    /\ disable_beacon \in BOOLEAN /\ reset_scheduled \in BOOLEAN
    /\ neighbor_table \subseteq Block
    /\ addr \in [Block -> Addr \cup {NoAddr}]
    /\ used \in [Block -> BOOLEAN]
    /\ ctimer \in [Block -> BOOLEAN]
    /\ sleeps \in 0..MaxSleeps

One(cond) == IF cond THEN 1 ELSE 0

(* The thread does not look at which timer an event came from; still there *)
(* is an event queued for every timer that expired and must be served, so  *)
(* that no timer dies because another one's branch took its event.         *)
TimersServed ==
    timer_events >= One(~ announce_timer)
                    + One(~ rt /\ reset_scheduled)
                    + One(~ beacon_timer /\ ~ disable_beacon /\ ~ reset_scheduled)

(* Every timer is served.  A neighbor is in the table once, and while the  *)
(* node is awake its table is made of allocated blocks whose timers run:   *)
(* it uses no freed memory and forgets neighbors that are gone.  No block  *)
(* is lost, across sleeps and restarts that empty the list without         *)
(* freeing: an allocated block has a timer that will free it.              *)
NodeSound ==
    /\ NodeTypeOK
    /\ TimersServed
    /\ \A b, c \in neighbor_table : addr[b] = addr[c] => b = c
    /\ ~ reset_scheduled => \A b \in neighbor_table : used[b] /\ ctimer[b]
    /\ \A b \in Block : used[b] => ctimer[b]

(* The node never falls silent: an expired announce timer is set again;   *)
(* and a node that sleeps restarts.                                        *)
Responsive ==
    /\ ~ announce_timer ~> announce_timer
    /\ reset_scheduled ~> ~ reset_scheduled
==============================================================================
