--------------------------------- MODULE Rmhb ---------------------------------
(***************************************************************************)
(* The RMH-B protocol of tpwsn-rmhb/tpwsn-rmhb.c between nodes: a token    *)
(* with a version walks at random from neighbor to neighbor until it meets *)
(* the sink; beacons carry versions, and a node that finds itself behind   *)
(* is sent the newer token.  Messages are lost and overtake each other,    *)
(* unicasts arrive twice when the MAC layer repeats a frame whose          *)
(* acknowledgement it missed, nodes sleep and restart with nothing.        *)
(* Timers and the memory of the neighbor table are in RmhbNode; here they  *)
(* expire at any time, and a table is the set of the neighbors on the list.*)
(***************************************************************************)
EXTENDS Integers, FiniteSets

CONSTANTS Node,
          InRange,        \* the nodes that hear a node
          MaxNeighbors,   \* MAX_NEIGHBORS
          Sinks, Mutes,   \* nodes told to be the sink, or not to beacon
          MaxStarts,      \* bound on the "start" commands
          MaxSleeps,      \* bound on the "sleep" commands
          MaxMsgs,        \* bound on the messages in flight
          MaxRepeats      \* bound: repeats end when a walk has had as many

ASSUME RmhbAssumption ==
    /\ IsFiniteSet(Node) /\ InRange \in [Node -> SUBSET Node]
    /\ Sinks \subseteq Node /\ Mutes \subseteq Node
    /\ MaxNeighbors \in Nat /\ MaxStarts \in Nat /\ MaxSleeps \in Nat
    /\ MaxMsgs \in Nat /\ MaxRepeats \in Nat

VARIABLES token, token_version,
          is_sink, disable_beacon,
          reset_scheduled,   \* the node sleeps, its radio is off
          neighbor_table,
          net,               \* the messages in flight
          started,           \* history: the values that "start" gave a token
          starts, sleeps,
          repeats            \* history: how often a walk's token came twice

nodeVars == <<token, token_version, is_sink, disable_beacon, reset_scheduled,
              neighbor_table>>
vars == <<nodeVars, net, started, starts, sleeps, repeats>>

(* A message; the walk of a token has a number, for the properties only. *)
Msg(type, from, to, version, value, walk) ==
    [msg_type |-> type, from |-> from, to |-> to, version |-> version,
     token |-> value, walk |-> walk]

(* initialise() *)
Init ==
    /\ token = [n \in Node |-> 0] /\ token_version = [n \in Node |-> 0]
    /\ is_sink = [n \in Node |-> FALSE]
    /\ disable_beacon = [n \in Node |-> FALSE]
    /\ reset_scheduled = [n \in Node |-> FALSE]
    /\ neighbor_table = [n \in Node |-> {}]
    /\ net = {} /\ started = {} /\ starts = 0 /\ sleeps = 0
    /\ repeats = [w \in 0..MaxStarts |-> 0]

(* uip_udp_packet_sendto(), from and to a network that holds flight: what  *)
(* does not fit is lost.                                                   *)
send(flight, msgs) ==
    net' = IF Cardinality(flight \cup msgs) <= MaxMsgs
           THEN flight \cup msgs ELSE flight

------------------------------------------------------------------------------
(* The branches of the thread that an expired timer takes. *)
announce(n) ==
    /\ send(net, {Msg("ANNOUNCE", n, m, 0, 0, 0) : m \in InRange[n]})
    /\ UNCHANGED <<nodeVars, started, starts, sleeps, repeats>>

beacon(n) ==
    /\ ~ disable_beacon[n]
    /\ send(net, {Msg("BEACON", n, m, token_version[n], 0, 0) : m \in InRange[n]})
    /\ UNCHANGED <<nodeVars, started, starts, sleeps, repeats>>

(* restart_node(): the serial commands that were given stay in force. *)
restart_node(n) ==
    /\ reset_scheduled[n]
    /\ reset_scheduled' = [reset_scheduled EXCEPT ![n] = FALSE]
    /\ token' = [token EXCEPT ![n] = 0]
    /\ token_version' = [token_version EXCEPT ![n] = 0]
    /\ neighbor_table' = [neighbor_table EXCEPT ![n] = {}]
    /\ UNCHANGED <<is_sink, disable_beacon, net, started, starts, sleeps,
                   repeats>>

remove_neighbor(n, m) ==
    /\ m \in neighbor_table[n]
    /\ neighbor_table' = [neighbor_table EXCEPT ![n] = @ \ {m}]
    /\ UNCHANGED <<token, token_version, is_sink, disable_beacon,
                   reset_scheduled, net, started, starts, sleeps, repeats>>

------------------------------------------------------------------------------
(* The handlers of messages.  Each is given what is left in flight. *)
recv_announcement(n, msg, flight) ==
    /\ neighbor_table' =
         [neighbor_table EXCEPT ![n] =
            IF Cardinality(@ \cup {msg.from}) <= MaxNeighbors
            THEN @ \cup {msg.from} ELSE @]
    /\ net' = flight
    /\ UNCHANGED <<token, token_version>>

(* Slip: no recovery data for a node that beacons an old version. *)
recv_beacon_ahead(n, msg, flight) ==
    /\ \/ token_version[n] >= msg.version /\ net' = flight
       \/ /\ token_version[n] < msg.version
          /\ send(flight, {Msg("CTRL", n, msg.from, token_version[n], 0, 0)})
    /\ UNCHANGED <<token, token_version, neighbor_table>>

recv_beacon(n, msg, flight) ==
    /\ \/ token_version[n] = msg.version /\ net' = flight
       \/ /\ token_version[n] > msg.version
          /\ send(flight, {Msg("RECOVER", n, msg.from, token_version[n],
                               token[n], 0)})
       \/ /\ token_version[n] < msg.version
          /\ send(flight, {Msg("CTRL", n, msg.from, token_version[n], 0, 0)})
    /\ UNCHANGED <<token, token_version, neighbor_table>>

recv_ctrl_msg(n, msg, flight) ==
    /\ send(flight, {Msg("RECOVER", n, msg.from, token_version[n], token[n], 0)})
    /\ UNCHANGED <<token, token_version, neighbor_table>>

(* Slip: the token of the sender with the version of the receiver. *)
recv_recov_msg_half(n, msg, flight) ==
    /\ token' = [token EXCEPT ![n] = msg.token]
    /\ net' = flight
    /\ UNCHANGED <<token_version, neighbor_table>>

recv_recov_msg(n, msg, flight) ==
    /\ token' = [token EXCEPT ![n] = msg.token]
    /\ token_version' = [token_version EXCEPT ![n] = msg.version]
    /\ net' = flight
    /\ UNCHANGED neighbor_table

(* Slip: the token goes to all neighbors. *)
recv_data_msg_flood(n, msg, flight) ==
    /\ token' = [token EXCEPT ![n] = msg.token]
    /\ token_version' = [token_version EXCEPT ![n] = msg.version]
    /\ send(flight, {Msg("DATA", n, m, msg.version, msg.token, msg.walk) :
                     m \in neighbor_table[n]})
    /\ UNCHANGED neighbor_table

(* pick_neighbour() picks any one; the sink keeps the token. *)
recv_data_msg(n, msg, flight) ==
    /\ token' = [token EXCEPT ![n] = msg.token]
    /\ token_version' = [token_version EXCEPT ![n] = msg.version]
    /\ \/ (is_sink[n] \/ neighbor_table[n] = {}) /\ net' = flight
       \/ /\ ~ is_sink[n]
          /\ \E m \in neighbor_table[n] :
               send(flight, {Msg("DATA", n, m, msg.version, msg.token, msg.walk)})
    /\ UNCHANGED neighbor_table

(* tcpip_handler() of the node that a message in flight is for. *)
tcpip_handler(msg, flight) ==
    LET n == msg.to
    IN /\ msg \in net /\ ~ reset_scheduled[n]
       /\ \/ msg.msg_type = "ANNOUNCE" /\ recv_announcement(n, msg, flight)
          \/ msg.msg_type = "RECOVER" /\ recv_recov_msg(n, msg, flight)
          \/ msg.msg_type = "BEACON" /\ recv_beacon(n, msg, flight)
          \/ msg.msg_type = "DATA" /\ recv_data_msg(n, msg, flight)
          \/ msg.msg_type = "CTRL" /\ recv_ctrl_msg(n, msg, flight)
       /\ UNCHANGED <<is_sink, disable_beacon, reset_scheduled, started,
                      starts, sleeps>>

receive(msg) == tcpip_handler(msg, net \ {msg}) /\ UNCHANGED repeats

(* A unicast whose acknowledgement was lost comes once more: the handlers  *)
(* do not know it again.                                                   *)
receive_repeat(msg) ==
    /\ msg.msg_type \in {"RECOVER", "DATA", "CTRL"}
    /\ tcpip_handler(msg, net)
    /\ IF msg.msg_type = "DATA"
       THEN /\ \A w \in 0..MaxStarts : repeats[w] < MaxRepeats
            /\ repeats' = [repeats EXCEPT ![msg.walk] = @ + 1]
       ELSE UNCHANGED repeats

lose(msg) ==
    /\ msg \in net
    /\ net' = net \ {msg}
    /\ UNCHANGED <<nodeVars, started, starts, sleeps, repeats>>

------------------------------------------------------------------------------
(* serial_handler() *)
serial_start(n) ==
    /\ starts < MaxStarts /\ starts' = starts + 1
    /\ token' = [token EXCEPT ![n] = @ + 1]
    /\ token_version' = [token_version EXCEPT ![n] = @ + 1]
    /\ started' = started \cup {<<token[n] + 1, token_version[n] + 1>>}
    /\ \/ neighbor_table[n] = {} /\ UNCHANGED net
       \/ \E m \in neighbor_table[n] :
            send(net, {Msg("DATA", n, m, token_version[n] + 1, token[n] + 1,
                           starts + 1)})
    /\ UNCHANGED <<is_sink, disable_beacon, reset_scheduled, neighbor_table,
                   sleeps, repeats>>

serial_set_sink(n) ==
    /\ is_sink' = [is_sink EXCEPT ![n] = TRUE]
    /\ UNCHANGED <<token, token_version, disable_beacon, reset_scheduled,
                   neighbor_table, net, started, starts, sleeps, repeats>>

serial_disable_beacon(n) ==
    /\ disable_beacon' = [disable_beacon EXCEPT ![n] = TRUE]
    /\ UNCHANGED <<token, token_version, is_sink, reset_scheduled,
                   neighbor_table, net, started, starts, sleeps, repeats>>

serial_sleep(n) ==
    /\ sleeps < MaxSleeps /\ sleeps' = sleeps + 1
    /\ reset_scheduled' = [reset_scheduled EXCEPT ![n] = TRUE]
    /\ UNCHANGED <<token, token_version, is_sink, disable_beacon,
                   neighbor_table, net, started, starts, repeats>>

Next ==
    \/ \E n \in Node :
         \/ announce(n) \/ beacon(n) \/ restart_node(n)
         \/ serial_start(n) \/ serial_sleep(n)
         \/ \E m \in Node : remove_neighbor(n, m)
    \/ \E n \in Sinks : serial_set_sink(n)
    \/ \E n \in Mutes : serial_disable_beacon(n)
    \/ \E msg \in net : receive(msg) \/ receive_repeat(msg) \/ lose(msg)

Spec == Init /\ [][Next]_vars

MsgType == {"ANNOUNCE", "RECOVER", "BEACON", "DATA", "CTRL"}

deliver(type, n) ==
    \E msg \in net : msg.msg_type = type /\ msg.to = n /\ receive(msg)

(* A node that may beacons again and again, a node that sleeps wakes, and  *)
(* of the messages of one kind that are sent to a node again and again     *)
(* some arrive.                                                            *)
FairSpec ==
    /\ Spec
    /\ \A n \in Node :
         /\ SF_vars(beacon(n)) /\ WF_vars(restart_node(n))
         /\ \A type \in MsgType : SF_vars(deliver(type, n))

------------------------------------------------------------------------------
(* Type invariant. *)
TypeOK ==
    /\ token \in [Node -> 0..MaxStarts]
    /\ token_version \in [Node -> 0..MaxStarts]
    /\ is_sink \in [Node -> BOOLEAN] /\ disable_beacon \in [Node -> BOOLEAN]
    /\ reset_scheduled \in [Node -> BOOLEAN]
    /\ neighbor_table \in [Node -> SUBSET Node]
    /\ \A m \in net : /\ m.msg_type \in MsgType /\ m.from \in Node
                      /\ m.to \in Node /\ m.version \in 0..MaxStarts
                      /\ m.token \in 0..MaxStarts /\ m.walk \in 0..MaxStarts
    /\ Cardinality(net) <= MaxMsgs
    /\ starts \in 0..MaxStarts /\ sleeps \in 0..MaxSleeps
    /\ repeats \in [0..MaxStarts -> 0..MaxRepeats]

(* What a node holds, and what a message carries to one, is the value that *)
(* some "start" gave to that version, or the state after a restart: no     *)
(* exchange of beacons, recovery data and walks, whatever is lost or late, *)
(* mixes the value of one version with the number of another.              *)
Genuine ==
    /\ TypeOK
    /\ \A n \in Node : <<token[n], token_version[n]>> \in started \cup {<<0, 0>>}
    /\ \A m \in net : m.msg_type \in {"DATA", "RECOVER"} =>
                       <<m.token, m.version>> \in started \cup {<<0, 0>>}

(* The messages that carry the token of a walk. *)
Walkers(w) == {m \in net : m.msg_type = "DATA" /\ m.walk = w}

(* A walk has one walker, and one more for every time that the MAC layer   *)
(* delivered its token twice: nothing else, no restart, no change of       *)
(* neighbors and no recovery, makes the token walk twice, and walkers that *)
(* meet, or a repeat that is itself repeated, do not multiply.             *)
WalkersExplained ==
    \A w \in 0..MaxStarts : Cardinality(Walkers(w)) <= 1 + repeats[w]

(* A version that one node has reaches all of them, in some version, as    *)
(* long as no node restarts, and though some of them do not beacon.        *)
Spreads == (\E n \in Node : token_version[n] > 0)
             ~> (\A n \in Node : token_version[n] > 0)
==============================================================================
