------------------------------ MODULE RmhbProofs ------------------------------
(***************************************************************************)
(* RMH-B never mixes versions, and a walk has as many walkers as the MAC   *)
(* layer made, for any network of nodes, and whatever is lost, late,       *)
(* delivered twice or restarted.                                           *)
(***************************************************************************)
EXTENDS Rmhb, FiniteSetTheorems, TLAPS

(* What is true of a single message.  "start" is the only source of        *)
(* numbers, so that no number exceeds the count of starts.                 *)
Origin == started \cup {<<0, 0>>}

MsgSound(m) ==
    /\ m.msg_type \in MsgType /\ m.from \in Node /\ m.to \in Node
    /\ m.version \in 0..starts /\ m.token \in 0..starts /\ m.walk \in 0..starts
    /\ m.msg_type \in {"DATA", "RECOVER"} => <<m.token, m.version>> \in Origin

Types ==
    /\ is_sink \in [Node -> BOOLEAN] /\ disable_beacon \in [Node -> BOOLEAN]
    /\ reset_scheduled \in [Node -> BOOLEAN]
    /\ neighbor_table \in [Node -> SUBSET Node]
    /\ starts \in 0..MaxStarts /\ sleeps \in 0..MaxSleeps
    /\ repeats \in [0..MaxStarts -> 0..MaxRepeats]

NodesSound ==
    /\ token \in [Node -> 0..starts] /\ token_version \in [Node -> 0..starts]
    /\ \A n \in Node : <<token[n], token_version[n]>> \in Origin

NetSound ==
    /\ IsFiniteSet(net) /\ Cardinality(net) <= MaxMsgs
    /\ \A m \in net : MsgSound(m)

(* The inductive invariant.  A walk that begins has a number that no       *)
(* message in flight has, since they are bounded by starts.                *)
RmhbInv == Types /\ NodesSound /\ NetSound /\ WalkersExplained

LEMMA InvGivesGenuine == RmhbInv => Genuine
  <1> SUFFICES ASSUME RmhbInv PROVE Genuine
    OBVIOUS
  <1>1. 0..starts \subseteq 0..MaxStarts
    BY RmhbAssumption DEF RmhbInv, Types
  <1>2. /\ token \in [Node -> 0..MaxStarts]
        /\ token_version \in [Node -> 0..MaxStarts]
    BY <1>1 DEF RmhbInv, NodesSound
  <1>3. TypeOK
    BY <1>1, <1>2 DEF RmhbInv, Types, NetSound, MsgSound, TypeOK
  <1> QED BY <1>3 DEF RmhbInv, NodesSound, NetSound, MsgSound, Origin, Genuine

------------------------------------------------------------------------------
(* The network after a step: from flight, a part of what was in the air,   *)
(* and msgs, the messages that the step sends.                             *)
LEMMA SendAdds ==
  ASSUME NEW flight, NEW msgs, IsFiniteSet(flight), IsFiniteSet(msgs),
         Cardinality(flight) <= MaxMsgs, send(flight, msgs)
  PROVE  /\ IsFiniteSet(net') /\ Cardinality(net') <= MaxMsgs
         /\ net' \subseteq flight \cup msgs
  <1>1. IsFiniteSet(flight \cup msgs)
    BY FS_Union
  <1> QED BY <1>1 DEF send

LEMMA FlightSmaller ==
  ASSUME NetSound, NEW flight, flight \subseteq net
  PROVE  IsFiniteSet(flight) /\ Cardinality(flight) <= MaxMsgs
  <1>1. /\ IsFiniteSet(flight)
        /\ Cardinality(flight) <= Cardinality(net)
        /\ Cardinality(flight) \in Nat /\ Cardinality(net) \in Nat
    BY FS_Subset, FS_CardinalityType DEF NetSound
  <1> QED BY <1>1, RmhbAssumption DEF NetSound

LEMMA SoundLater ==
  ASSUME starts \in Nat, starts' \in Nat, starts <= starts',
         started \subseteq started', NEW m, MsgSound(m)
  PROVE  MsgSound(m)'
  BY DEF MsgSound, Origin

LEMMA NetAfterSend ==
  ASSUME RmhbInv, NEW flight, flight \subseteq net,
         NEW msgs, IsFiniteSet(msgs), send(flight, msgs),
         starts' \in Nat, starts <= starts', started \subseteq started',
         \A m \in msgs : MsgSound(m)'
  PROVE  NetSound' /\ net' \subseteq flight \cup msgs
  <1>1. starts \in Nat
    BY RmhbAssumption DEF RmhbInv, Types
  <1>2. IsFiniteSet(flight) /\ Cardinality(flight) <= MaxMsgs
    BY FlightSmaller DEF RmhbInv
  <1>3. /\ IsFiniteSet(net') /\ Cardinality(net') <= MaxMsgs
        /\ net' \subseteq flight \cup msgs
    BY <1>2, SendAdds
  <1>4. \A m \in flight : MsgSound(m)'
    BY <1>1, SoundLater DEF RmhbInv, NetSound
  <1> QED BY <1>3, <1>4 DEF NetSound

(* How many walkers a walk has when some of them are gone, or perhaps one  *)
(* has come.                                                               *)
LEMMA FewerWalkers ==
  ASSUME NEW S, NEW T, IsFiniteSet(S), T \subseteq S
  PROVE  /\ IsFiniteSet(T) /\ Cardinality(T) <= Cardinality(S)
         /\ Cardinality(T) \in Nat /\ Cardinality(S) \in Nat
  BY FS_Subset, FS_CardinalityType

LEMMA OneMoreWalker ==
  ASSUME NEW S, NEW T, NEW x, IsFiniteSet(S), T \subseteq S \cup {x}
  PROVE  /\ Cardinality(T) <= Cardinality(S) + 1
         /\ Cardinality(T) \in Nat /\ Cardinality(S) \in Nat
  <1>1. /\ IsFiniteSet(S \cup {x}) /\ Cardinality(S) \in Nat
        /\ \/ Cardinality(S \cup {x}) = Cardinality(S) + 1
           \/ Cardinality(S \cup {x}) = Cardinality(S)
    BY FS_AddElement, FS_CardinalityType
  <1>2. /\ Cardinality(T) <= Cardinality(S \cup {x})
        /\ Cardinality(T) \in Nat /\ Cardinality(S \cup {x}) \in Nat
    BY <1>1, FewerWalkers
  <1> QED BY <1>1, <1>2

LEMMA WalkersFinite ==
  ASSUME RmhbInv, NEW w \in 0..MaxStarts
  PROVE  /\ IsFiniteSet(Walkers(w)) /\ Cardinality(Walkers(w)) \in Nat
         /\ Cardinality(Walkers(w)) <= 1 + repeats[w] /\ repeats[w] \in Nat
  <1>1. Walkers(w) \subseteq net
    BY DEF Walkers
  <1>2. IsFiniteSet(Walkers(w)) /\ Cardinality(Walkers(w)) \in Nat
    BY <1>1, FS_Subset, FS_CardinalityType DEF RmhbInv, NetSound
  <1>3. repeats[w] \in Nat
    BY RmhbAssumption DEF RmhbInv, Types
  <1> QED BY <1>2, <1>3 DEF RmhbInv, WalkersExplained

(* No walker comes, *)
LEMMA WalkersStay ==
  ASSUME RmhbInv, UNCHANGED repeats,
         \A m \in net' : m \in net \/ m.msg_type # "DATA"
  PROVE  WalkersExplained'
  <1> SUFFICES ASSUME NEW w \in 0..MaxStarts
               PROVE  Cardinality(Walkers(w)') <= 1 + repeats'[w]
    BY DEF WalkersExplained
  <1>1. Walkers(w)' \subseteq Walkers(w)
    BY DEF Walkers
  <1>2. Cardinality(Walkers(w)') <= Cardinality(Walkers(w))
        /\ Cardinality(Walkers(w)') \in Nat
    BY <1>1, WalkersFinite, FewerWalkers
  <1> QED BY <1>2, WalkersFinite

(* or one comes for another that is gone, or for one that was repeated. *)
LEMMA WalkersGoOn ==
  ASSUME RmhbInv, NEW msg \in net, msg.msg_type = "DATA",
         NEW flight, NEW one, one.walk = msg.walk, net' \subseteq flight \cup {one},
         \/ flight = net \ {msg} /\ UNCHANGED repeats
         \/ flight = net /\ repeats' = [repeats EXCEPT ![msg.walk] = @ + 1]
  PROVE  WalkersExplained'
  <1> SUFFICES ASSUME NEW w \in 0..MaxStarts
               PROVE  Cardinality(Walkers(w)') <= 1 + repeats'[w]
    BY DEF WalkersExplained
  <1>0. PICK old, new : old = Walkers(w) /\ new = Walkers(w)'
    OBVIOUS
  <1>1. /\ IsFiniteSet(old) /\ Cardinality(old) \in Nat
        /\ Cardinality(old) <= 1 + repeats[w] /\ repeats[w] \in Nat
    BY <1>0, WalkersFinite
  <1>2. repeats \in [0..MaxStarts -> 0..MaxRepeats] /\ MaxRepeats \in Nat
    BY RmhbAssumption DEF RmhbInv, Types
  <1>3. CASE w # msg.walk
    <2>1. new \subseteq old
      BY <1>0, <1>3 DEF Walkers
    <2>2. repeats'[w] = repeats[w]
      BY <1>2, <1>3
    <2>3. Cardinality(new) <= Cardinality(old) /\ Cardinality(new) \in Nat
      BY <1>1, <2>1, FewerWalkers
    <2> QED BY <1>0, <1>1, <2>2, <2>3
  <1>4. CASE w = msg.walk /\ flight = net \ {msg} /\ UNCHANGED repeats
    <2>1. new \subseteq (old \ {msg}) \cup {one} /\ msg \in old
      BY <1>0, <1>4 DEF Walkers
    <2>2. IsFiniteSet(old \ {msg}) /\ Cardinality(old \ {msg}) = Cardinality(old) - 1
      BY <1>1, <2>1, FS_RemoveElement
    <2>3. Cardinality(new) <= Cardinality(old \ {msg}) + 1 /\ Cardinality(new) \in Nat
      BY <2>1, <2>2, OneMoreWalker
    <2> QED BY <1>0, <1>1, <1>4, <2>2, <2>3
  <1>5. CASE /\ w = msg.walk /\ flight = net
             /\ repeats' = [repeats EXCEPT ![msg.walk] = @ + 1]
    <2>1. new \subseteq old \cup {one}
      BY <1>0, <1>5 DEF Walkers
    <2>2. Cardinality(new) <= Cardinality(old) + 1 /\ Cardinality(new) \in Nat
      BY <1>1, <2>1, OneMoreWalker
    <2>3. repeats'[w] = repeats[w] + 1
      BY <1>2, <1>5
    <2> QED BY <1>0, <1>1, <2>2, <2>3
  <1> QED BY <1>3, <1>4, <1>5

LEMMA NetAfterLoss ==
  ASSUME RmhbInv, net' \subseteq net, UNCHANGED <<starts, started>>
  PROVE  NetSound'
  <1>1. IsFiniteSet(net') /\ Cardinality(net') <= MaxMsgs
    BY FlightSmaller DEF RmhbInv
  <1>2. \A m \in net' : MsgSound(m)'
    BY DEF RmhbInv, NetSound, MsgSound, Origin
  <1> QED BY <1>1, <1>2 DEF NetSound

(* A step that sends messages without data. *)
LEMMA NetAfterPlain ==
  ASSUME RmhbInv, NEW flight, flight \subseteq net,
         NEW msgs, IsFiniteSet(msgs), send(flight, msgs),
         UNCHANGED <<starts, started>>,
         \A m \in msgs : MsgSound(m) /\ m.msg_type # "DATA"
  PROVE  NetSound' /\ \A m \in net' : m \in net \/ m.msg_type # "DATA"
  <1>1. starts \in Nat /\ starts' \in Nat /\ starts <= starts'
    BY RmhbAssumption DEF RmhbInv, Types
  <1>2. \A m \in msgs : MsgSound(m)'
    BY DEF MsgSound, Origin
  <1>3. NetSound' /\ net' \subseteq flight \cup msgs
    BY <1>1, <1>2, NetAfterSend
  <1> QED BY <1>3

------------------------------------------------------------------------------
(* A message to everyone in range is as many messages as there are nodes. *)
LEMMA HeardByFew ==
  ASSUME NEW n \in Node, NEW type, NEW version
  PROVE  IsFiniteSet({Msg(type, n, m, version, 0, 0) : m \in InRange[n]})
  <1>1. IsFiniteSet(InRange[n])
    BY FS_Subset, RmhbAssumption
  <1> DEFINE S == InRange[n]
             T == {Msg(type, n, m, version, 0, 0) : m \in S}
             f == [m \in S |-> Msg(type, n, m, version, 0, 0)]
  <1>2. f \in Surjection(S, T)
    BY DEF Surjection
  <1> QED BY <1>1, <1>2, FS_Surjection

LEMMA PlainStays ==
  ASSUME RmhbInv, UNCHANGED <<nodeVars, started, starts, sleeps, repeats>>
  PROVE  Types' /\ NodesSound'
  BY DEF RmhbInv, Types, NodesSound, Origin, nodeVars

LEMMA AnnounceStep == ASSUME RmhbInv, NEW n \in Node, announce(n)
                      PROVE  RmhbInv'
  <1> DEFINE msgs == {Msg("ANNOUNCE", n, m, 0, 0, 0) : m \in InRange[n]}
  <1>1. IsFiniteSet(msgs)
    BY HeardByFew
  <1>2. \A m \in msgs : MsgSound(m) /\ m.msg_type # "DATA"
    BY RmhbAssumption DEF Msg, MsgSound, MsgType, RmhbInv, Types
  <1>3. NetSound' /\ \A m \in net' : m \in net \/ m.msg_type # "DATA"
    BY <1>1, <1>2, NetAfterPlain DEF announce
  <1>4. WalkersExplained'
    BY <1>3, WalkersStay DEF announce
  <1> QED BY <1>3, <1>4, PlainStays DEF announce, RmhbInv

LEMMA BeaconStep == ASSUME RmhbInv, NEW n \in Node, beacon(n)
                    PROVE  RmhbInv'
  <1> DEFINE msgs == {Msg("BEACON", n, m, token_version[n], 0, 0) : m \in InRange[n]}
  <1>1. IsFiniteSet(msgs)
    BY HeardByFew
  <1>2. \A m \in msgs : MsgSound(m) /\ m.msg_type # "DATA"
    BY RmhbAssumption DEF Msg, MsgSound, MsgType, RmhbInv, Types, NodesSound
  <1>3. NetSound' /\ \A m \in net' : m \in net \/ m.msg_type # "DATA"
    BY <1>1, <1>2, NetAfterPlain DEF beacon
  <1>4. WalkersExplained'
    BY <1>3, WalkersStay DEF beacon
  <1> QED BY <1>3, <1>4, PlainStays DEF beacon, RmhbInv

LEMMA LocalStep ==
  ASSUME RmhbInv, NEW n \in Node, NEW m \in Node,
         \/ restart_node(n) \/ remove_neighbor(n, m) \/ serial_sleep(n)
         \/ serial_set_sink(n) \/ serial_disable_beacon(n)
  PROVE  RmhbInv'
  <1>1. NetSound' /\ WalkersExplained'
    BY NetAfterLoss, WalkersStay
       DEF restart_node, remove_neighbor, serial_sleep, serial_set_sink,
           serial_disable_beacon
  <1>2. Types'
    <2>1. CASE restart_node(n)
      BY <2>1, RmhbAssumption DEF RmhbInv, Types, restart_node
    <2>3. CASE serial_sleep(n)
      <3>1. sleeps' \in 0..MaxSleeps
        BY <2>3, RmhbAssumption DEF RmhbInv, Types, serial_sleep
      <3> QED BY <2>3, <3>1 DEF RmhbInv, Types, serial_sleep
    <2>4. CASE serial_set_sink(n)
      BY <2>4 DEF RmhbInv, Types, serial_set_sink
    <2>5. CASE serial_disable_beacon(n)
      BY <2>5 DEF RmhbInv, Types, serial_disable_beacon
    <2>2. CASE remove_neighbor(n, m)
      <3>1. neighbor_table' \in [Node -> SUBSET Node]
        BY <2>2 DEF RmhbInv, Types, remove_neighbor
      <3> QED BY <2>2, <3>1 DEF RmhbInv, Types, remove_neighbor
    <2> QED BY <2>1, <2>2, <2>3, <2>4, <2>5
  <1>3. NodesSound'
    <2>0. starts \in Nat /\ NodesSound
      BY RmhbAssumption DEF RmhbInv, Types
    <2>1. CASE restart_node(n)
      BY <2>0, <2>1 DEF NodesSound, Origin, restart_node
    <2>2. CASE \/ remove_neighbor(n, m) \/ serial_sleep(n)
               \/ serial_set_sink(n) \/ serial_disable_beacon(n)
      BY <2>0, <2>2 DEF NodesSound, Origin, remove_neighbor, serial_sleep,
                        serial_set_sink, serial_disable_beacon
    <2> QED BY <2>1, <2>2
  <1> QED BY <1>1, <1>2, <1>3 DEF RmhbInv

LEMMA LoseStep == ASSUME RmhbInv, NEW msg \in net, lose(msg)
                  PROVE  RmhbInv'
  <1>1. NetSound' /\ WalkersExplained'
    BY NetAfterLoss, WalkersStay DEF lose
  <1> QED BY <1>1, PlainStays DEF lose, RmhbInv

LEMMA StartStep == ASSUME RmhbInv, NEW n \in Node, serial_start(n)
                   PROVE  RmhbInv'
  <1>1. /\ starts \in Nat /\ starts' = starts + 1
        /\ token[n] \in 0..starts /\ token_version[n] \in 0..starts
        /\ started \subseteq started'
        /\ <<token[n] + 1, token_version[n] + 1>> \in started'
    BY RmhbAssumption DEF RmhbInv, Types, NodesSound, serial_start
  <1>2. Types'
    BY RmhbAssumption DEF RmhbInv, Types, serial_start
  <1>3. NodesSound'
    <2>1. token' \in [Node -> 0..starts'] /\ token_version' \in [Node -> 0..starts']
      BY <1>1 DEF RmhbInv, NodesSound, serial_start
    <2>2. ASSUME NEW k \in Node
          PROVE  <<token'[k], token_version'[k]>> \in Origin'
      <3>1. CASE k = n
        BY <1>1, <3>1 DEF RmhbInv, NodesSound, serial_start, Origin
      <3>2. CASE k # n
        BY <1>1, <3>2 DEF RmhbInv, NodesSound, serial_start, Origin
      <3> QED BY <3>1, <3>2
    <2> QED BY <2>1, <2>2 DEF NodesSound
  <1>4. NetSound' /\ WalkersExplained'
    <2>1. CASE UNCHANGED net
      <3>1. send(net, {})
        BY <2>1, FlightSmaller DEF send, RmhbInv, NetSound
      <3>2. NetSound'
        BY <1>1, <3>1, NetAfterSend, FS_EmptySet
      <3> QED BY <2>1, <3>2, WalkersStay DEF serial_start
    <2>2. ASSUME NEW m \in neighbor_table[n],
                 send(net, {Msg("DATA", n, m, token_version[n] + 1, token[n] + 1,
                                starts + 1)})
          PROVE  NetSound' /\ WalkersExplained'
      <3> PICK one : one = Msg("DATA", n, m, token_version[n] + 1, token[n] + 1,
                               starts + 1)
        OBVIOUS
      <3>1. m \in Node
        BY DEF RmhbInv, Types
      <3>2. MsgSound(one)' /\ one.walk = starts + 1
        BY <1>1, <3>1 DEF MsgSound, Msg, MsgType, Origin
      <3>3. IsFiniteSet({one})
        BY FS_Singleton
      <3>4. starts' \in Nat /\ starts <= starts'
        BY <1>1
      <3>5. send(net, {one})
        BY <2>2
      <3>6. \A j \in {one} : MsgSound(j)'
        BY <3>2
      <3>7. NetSound' /\ net' \subseteq net \cup {one}
        BY <1>1, <3>3, <3>4, <3>5, <3>6, NetAfterSend
      <3>8. ASSUME NEW w \in 0..MaxStarts
            PROVE  Cardinality(Walkers(w)') <= 1 + repeats'[w]
        <4>0. PICK old, new : old = Walkers(w) /\ new = Walkers(w)'
          OBVIOUS
        <4>1. /\ IsFiniteSet(old) /\ Cardinality(old) \in Nat
              /\ Cardinality(old) <= 1 + repeats[w] /\ repeats[w] \in Nat
              /\ repeats' = repeats
          BY <4>0, WalkersFinite DEF serial_start
        <4>2. CASE w = starts + 1
          <5>1. \A k \in net : k.walk # w
            <6>1. \A k \in net : k.walk \in 0..starts
              BY DEF RmhbInv, NetSound, MsgSound
            <6>2. w \notin 0..starts
              BY <1>1, <4>2
            <6> QED BY <6>1, <6>2
          <5>2. new \subseteq {} \cup {one}
            BY <3>7, <4>0, <5>1 DEF Walkers
          <5>3. IsFiniteSet({}) /\ Cardinality({}) = 0
            BY FS_EmptySet
          <5>4. Cardinality(new) <= 0 + 1 /\ Cardinality(new) \in Nat
            BY <5>2, <5>3, OneMoreWalker
          <5> QED BY <4>0, <4>1, <5>4
        <4>3. CASE w # starts + 1
          <5>1. new \subseteq old
            BY <3>2, <3>7, <4>0, <4>3 DEF Walkers
          <5>2. Cardinality(new) <= Cardinality(old) /\ Cardinality(new) \in Nat
            BY <4>1, <5>1, FewerWalkers
          <5> QED BY <4>0, <4>1, <5>2
        <4> QED BY <4>2, <4>3
      <3> QED BY <3>7, <3>8 DEF WalkersExplained
    <2> QED BY <2>1, <2>2 DEF serial_start
  <1> QED BY <1>2, <1>3, <1>4 DEF RmhbInv
------------------------------------------------------------------------------
(* The handlers.  A message that is handled has left the air, or is        *)
(* delivered once more.                                                    *)
Handling(msg, flight) ==
    /\ RmhbInv /\ msg \in net
    /\ UNCHANGED <<is_sink, disable_beacon, reset_scheduled, started, starts,
                   sleeps>>
    /\ repeats' \in [0..MaxStarts -> 0..MaxRepeats]
    /\ \/ flight = net \ {msg} /\ UNCHANGED repeats
       \/ /\ flight = net
          /\ IF msg.msg_type = "DATA"
             THEN repeats' = [repeats EXCEPT ![msg.walk] = @ + 1]
             ELSE UNCHANGED repeats

LEMMA HandlerFacts ==
  ASSUME NEW msg, NEW flight, Handling(msg, flight)
  PROVE  /\ msg.to \in Node /\ msg.from \in Node /\ MsgSound(msg)
         /\ flight \subseteq net
         /\ token[msg.to] \in 0..starts /\ token_version[msg.to] \in 0..starts
         /\ <<token[msg.to], token_version[msg.to]>> \in Origin
         /\ starts \in Nat
  <1>1. MsgSound(msg) /\ msg.to \in Node /\ msg.from \in Node
    BY DEF Handling, RmhbInv, NetSound, MsgSound
  <1> QED BY <1>1, RmhbAssumption DEF Handling, RmhbInv, NodesSound, Types

(* A handler that forwards no token adds no walker, even when its message  *)
(* came twice: it is counted then as one more.                             *)
LEMMA NoWalkerAdded ==
  ASSUME NEW msg, NEW flight, Handling(msg, flight),
         \A m \in net' : m \in flight \/ m.msg_type # "DATA"
  PROVE  WalkersExplained'
  <1> SUFFICES ASSUME NEW w \in 0..MaxStarts
               PROVE  Cardinality(Walkers(w)') <= 1 + repeats'[w]
    BY DEF WalkersExplained
  <1>0. PICK old, new : old = Walkers(w) /\ new = Walkers(w)'
    OBVIOUS
  <1>1. new \subseteq old
    BY <1>0 DEF Handling, Walkers
  <1>2. /\ IsFiniteSet(old) /\ Cardinality(old) \in Nat
        /\ Cardinality(old) <= 1 + repeats[w] /\ repeats[w] \in Nat
    BY <1>0, WalkersFinite DEF Handling
  <1>3. Cardinality(new) <= Cardinality(old) /\ Cardinality(new) \in Nat
    BY <1>1, <1>2, FewerWalkers
  <1>4. repeats'[w] \in Nat /\ repeats[w] <= repeats'[w]
    <2>1. /\ repeats \in [0..MaxStarts -> 0..MaxRepeats]
          /\ repeats' \in [0..MaxStarts -> 0..MaxRepeats]
          /\ repeats' = repeats \/ repeats' = [repeats EXCEPT ![msg.walk] = @ + 1]
      BY DEF Handling, RmhbInv, Types
    <2>2. repeats'[w] \in Nat /\ repeats[w] \in Nat
      BY <2>1, RmhbAssumption
    <2>3. repeats'[w] = repeats[w] \/ repeats'[w] = repeats[w] + 1
      BY <2>1
    <2> QED BY <2>2, <2>3
  <1> QED BY <1>0, <1>2, <1>3, <1>4

LEMMA SameToken ==
  ASSUME NEW msg, NEW flight, Handling(msg, flight), UNCHANGED <<token, token_version>>,
         neighbor_table' \in [Node -> SUBSET Node]
  PROVE  Types' /\ NodesSound'
  BY DEF Handling, RmhbInv, Types, NodesSound, Origin

LEMMA NewToken ==
  ASSUME NEW msg, NEW flight, Handling(msg, flight), UNCHANGED neighbor_table,
         msg.msg_type \in {"DATA", "RECOVER"},
         token' = [token EXCEPT ![msg.to] = msg.token],
         token_version' = [token_version EXCEPT ![msg.to] = msg.version]
  PROVE  Types' /\ NodesSound'
  <1>1. /\ msg.token \in 0..starts /\ msg.version \in 0..starts
        /\ <<msg.token, msg.version>> \in Origin /\ msg.to \in Node
    BY HandlerFacts DEF MsgSound
  <1>2. Types' /\ Origin' = Origin /\ starts' = starts
    BY DEF Handling, RmhbInv, Types, Origin
  <1>3. /\ token \in [Node -> 0..starts] /\ token_version \in [Node -> 0..starts]
        /\ \A n \in Node : <<token[n], token_version[n]>> \in Origin
    BY DEF Handling, RmhbInv, NodesSound
  <1>4. token' \in [Node -> 0..starts] /\ token_version' \in [Node -> 0..starts]
    BY <1>1, <1>3
  <1>5. \A n \in Node : <<token'[n], token_version'[n]>> \in Origin
    BY <1>1, <1>3
  <1> QED BY <1>2, <1>4, <1>5 DEF NodesSound

(* An answer to the sender of a message, which carries no walk. *)
LEMMA AnswerNet ==
  ASSUME NEW msg, NEW flight, Handling(msg, flight), NEW type \in {"CTRL", "RECOVER"},
         NEW value \in {0, token[msg.to]},
         type = "RECOVER" => value = token[msg.to],
         send(flight, {Msg(type, msg.to, msg.from, token_version[msg.to],
                           value, 0)})
  PROVE  NetSound' /\ WalkersExplained'
  <1> PICK one : one = Msg(type, msg.to, msg.from, token_version[msg.to], value, 0)
    OBVIOUS
  <1>0. /\ msg.to \in Node /\ msg.from \in Node /\ starts \in Nat
        /\ token[msg.to] \in 0..starts /\ token_version[msg.to] \in 0..starts
        /\ <<token[msg.to], token_version[msg.to]>> \in Origin
    BY HandlerFacts
  <1>1. MsgSound(one) /\ one.msg_type # "DATA"
    BY <1>0 DEF Msg, MsgSound, MsgType
  <1>2. IsFiniteSet({one})
    BY FS_Singleton
  <1>3. send(flight, {one})
    OBVIOUS
  <1>5. RmhbInv /\ flight \subseteq net /\ UNCHANGED <<starts, started>>
    BY HandlerFacts DEF Handling
  <1>6. MsgSound(one)' /\ starts' \in Nat /\ starts <= starts'
    BY <1>0, <1>1, <1>5 DEF MsgSound, Origin
  <1>7. NetSound' /\ net' \subseteq flight \cup {one}
    BY <1>2, <1>3, <1>5, <1>6, NetAfterSend
  <1>8. \A m \in net' : m \in flight \/ m.msg_type # "DATA"
    BY <1>1, <1>7
  <1> QED BY <1>7, <1>8, NoWalkerAdded

(* The token goes on: the message that carried it here is gone, or has     *)
(* been counted as repeated.                                               *)
LEMMA ForwardNet ==
  ASSUME NEW msg, NEW flight, Handling(msg, flight), msg.msg_type = "DATA",
         NEW m \in Node,
         send(flight, {Msg("DATA", msg.to, m, msg.version, msg.token, msg.walk)})
  PROVE  NetSound' /\ WalkersExplained'
  <1> PICK one : one = Msg("DATA", msg.to, m, msg.version, msg.token, msg.walk)
    OBVIOUS
  <1>1. MsgSound(one) /\ one.walk = msg.walk
    BY HandlerFacts DEF Msg, MsgSound, MsgType
  <1>2. \A j \in {one} : MsgSound(j)'
    BY <1>1 DEF Handling, MsgSound, Origin
  <1>4. IsFiniteSet({one})
    BY FS_Singleton
  <1>5. send(flight, {one})
    OBVIOUS
  <1>6. /\ RmhbInv /\ flight \subseteq net /\ starts' \in Nat
        /\ starts <= starts' /\ started \subseteq started'
    <2>1. starts \in Nat /\ flight \subseteq net
      BY HandlerFacts
    <2> QED BY <2>1 DEF Handling
  <1>7. NetSound' /\ net' \subseteq flight \cup {one}
    BY <1>2, <1>4, <1>5, <1>6, NetAfterSend
  <1>8. WalkersExplained'
    BY <1>1, <1>6, <1>7, WalkersGoOn DEF Handling
  <1> QED BY <1>7, <1>8

LEMMA AnnouncementStep ==
  ASSUME NEW msg, NEW flight, Handling(msg, flight), recv_announcement(msg.to, msg, flight)
  PROVE  RmhbInv'
  <1>1. neighbor_table' \in [Node -> SUBSET Node]
    <2>1. /\ msg.to \in Node /\ msg.from \in Node
          /\ neighbor_table \in [Node -> SUBSET Node]
      BY HandlerFacts DEF Handling, RmhbInv, Types
    <2> QED BY <2>1 DEF recv_announcement
  <1>2. Types' /\ NodesSound'
    BY <1>1, SameToken DEF recv_announcement
  <1>3. NetSound' /\ WalkersExplained'
    BY NetAfterLoss, NoWalkerAdded, HandlerFacts DEF recv_announcement, Handling
  <1> QED BY <1>2, <1>3 DEF RmhbInv

LEMMA BeaconHeardStep ==
  ASSUME NEW msg, NEW flight, Handling(msg, flight),
         \/ recv_beacon(msg.to, msg, flight)
         \/ recv_ctrl_msg(msg.to, msg, flight)
  PROVE  RmhbInv'
  <1>1. Types' /\ NodesSound'
    <2>1. neighbor_table' \in [Node -> SUBSET Node]
      BY DEF Handling, RmhbInv, Types, recv_beacon, recv_ctrl_msg
    <2> QED BY <2>1, SameToken DEF recv_beacon, recv_ctrl_msg
  <1>2. NetSound' /\ WalkersExplained'
    <2>1. CASE net' = flight
      BY <2>1, NetAfterLoss, NoWalkerAdded, HandlerFacts DEF Handling
    <2>2. CASE send(flight, {Msg("RECOVER", msg.to, msg.from,
                                      token_version[msg.to], token[msg.to], 0)})
      BY <2>2, AnswerNet
    <2>3. CASE send(flight, {Msg("CTRL", msg.to, msg.from,
                                      token_version[msg.to], 0, 0)})
      BY <2>3, AnswerNet
    <2> QED BY <2>1, <2>2, <2>3 DEF recv_beacon, recv_ctrl_msg
  <1> QED BY <1>1, <1>2 DEF RmhbInv

LEMMA DataStep ==
  ASSUME NEW msg, NEW flight, Handling(msg, flight),
         \/ /\ msg.msg_type = "RECOVER"
            /\ recv_recov_msg(msg.to, msg, flight)
         \/ /\ msg.msg_type = "DATA"
            /\ recv_data_msg(msg.to, msg, flight)
  PROVE  RmhbInv'
  <1>1. Types' /\ NodesSound'
    BY NewToken DEF recv_recov_msg, recv_data_msg
  <1>2. NetSound' /\ WalkersExplained'
    <2>1. CASE net' = flight
      BY <2>1, NetAfterLoss, NoWalkerAdded, HandlerFacts DEF Handling
    <2>2. ASSUME msg.msg_type = "DATA", NEW m \in neighbor_table[msg.to],
                 send(flight, {Msg("DATA", msg.to, m, msg.version, msg.token,
                                        msg.walk)})
          PROVE  NetSound' /\ WalkersExplained'
      <3>1. m \in Node
        BY HandlerFacts DEF Handling, RmhbInv, Types
      <3> QED BY <2>2, <3>1, ForwardNet
    <2> QED BY <2>1, <2>2 DEF recv_recov_msg, recv_data_msg
  <1> QED BY <1>1, <1>2 DEF RmhbInv

LEMMA HandlerStep ==
  ASSUME RmhbInv, NEW msg \in net, receive(msg) \/ receive_repeat(msg)
  PROVE  RmhbInv'
  <1>1. PICK flight : Handling(msg, flight) /\ tcpip_handler(msg, flight)
    <2>1. CASE receive(msg)
      <3>1. Handling(msg, net \ {msg}) /\ tcpip_handler(msg, net \ {msg})
        BY <2>1 DEF receive, tcpip_handler, Handling, RmhbInv, Types
      <3> QED BY <3>1
    <2>2. CASE receive_repeat(msg)
      <3>1. repeats' \in [0..MaxStarts -> 0..MaxRepeats]
        <4>1. repeats \in [0..MaxStarts -> 0..MaxRepeats]
          BY DEF RmhbInv, Types
        <4>2. CASE msg.msg_type = "DATA"
          <5>1. msg.walk \in 0..MaxStarts
            <6>1. msg.walk \in 0..starts
              BY DEF RmhbInv, NetSound, MsgSound
            <6> QED BY <6>1, RmhbAssumption DEF RmhbInv, Types
          <5>2. /\ repeats[msg.walk] < MaxRepeats
                /\ repeats' = [repeats EXCEPT ![msg.walk] = @ + 1]
            BY <2>2, <4>2, <5>1 DEF receive_repeat
          <5>3. repeats[msg.walk] + 1 \in 0..MaxRepeats
            BY <4>1, <5>1, <5>2, RmhbAssumption
          <5> QED BY <4>1, <5>2, <5>3
        <4>3. CASE msg.msg_type # "DATA"
          BY <2>2, <4>1, <4>3 DEF receive_repeat
        <4> QED BY <4>2, <4>3
      <3>2. Handling(msg, net) /\ tcpip_handler(msg, net)
        BY <2>2, <3>1 DEF receive_repeat, tcpip_handler, Handling
      <3> QED BY <3>2
    <2> QED BY <2>1, <2>2
  <1> QED BY <1>1, AnnouncementStep, BeaconHeardStep, DataStep DEF tcpip_handler

------------------------------------------------------------------------------
LEMMA RmhbInitially == Init => RmhbInv
  <1> SUFFICES ASSUME Init PROVE RmhbInv
    OBVIOUS
  <1>1. Types /\ NodesSound
    BY RmhbAssumption DEF Init, Types, NodesSound, Origin
  <1>2. NetSound
    BY RmhbAssumption, FS_EmptySet DEF Init, NetSound
  <1>3. ASSUME NEW w \in 0..MaxStarts PROVE Cardinality(Walkers(w)) <= 1 + repeats[w]
    <2>1. Walkers(w) = {} /\ repeats[w] = 0
      BY DEF Init, Walkers
    <2> QED BY <2>1, FS_EmptySet
  <1> QED BY <1>1, <1>2, <1>3 DEF RmhbInv, WalkersExplained

LEMMA RmhbStep == RmhbInv /\ [Next]_vars => RmhbInv'
  <1> SUFFICES ASSUME RmhbInv, [Next]_vars PROVE RmhbInv'
    OBVIOUS
  <1>1. ASSUME NEW n \in Node,
               \/ announce(n) \/ beacon(n) \/ restart_node(n)
               \/ serial_start(n) \/ serial_sleep(n)
               \/ \E m \in Node : remove_neighbor(n, m)
        PROVE  RmhbInv'
    BY <1>1, AnnounceStep, BeaconStep, StartStep, LocalStep
  <1>2. ASSUME NEW n \in Sinks, serial_set_sink(n)
        PROVE  RmhbInv'
    BY <1>2, LocalStep, RmhbAssumption
  <1>3. ASSUME NEW n \in Mutes, serial_disable_beacon(n)
        PROVE  RmhbInv'
    BY <1>3, LocalStep, RmhbAssumption
  <1>4. ASSUME NEW msg \in net, receive(msg) \/ receive_repeat(msg) \/ lose(msg)
        PROVE  RmhbInv'
    BY <1>4, HandlerStep, LoseStep
  <1>5. CASE UNCHANGED vars
    <2>1. /\ UNCHANGED <<nodeVars, started, starts, sleeps, repeats>>
          /\ net' \subseteq net
      BY <1>5 DEF vars
    <2>2. WalkersExplained'
      BY <2>1, WalkersStay
    <2> QED BY <2>1, <2>2, PlainStays, NetAfterLoss DEF RmhbInv
  <1> QED BY <1>1, <1>2, <1>3, <1>4, <1>5 DEF Next

LEMMA RmhbAlways == Spec => []RmhbInv
  BY RmhbInitially, RmhbStep, PTL DEF Spec

(* In every network, whatever is lost, late or restarted, a node and a     *)
(* message hold the value and the version that one "start" gave together:  *)
(* recv_recov_msg() and recv_data_msg() store both or neither.             *)
THEOREM VersionsGenuine == Spec => []Genuine
  BY RmhbAlways, InvGivesGenuine, PTL

(* In every network a walk has one walker, and one more for every delivery *)
(* of its token that the MAC layer repeated: recv_data_msg() does not know *)
(* a message again, and sends a token on once for each time it came.       *)
THEOREM WalkersCounted == Spec => []WalkersExplained
  <1>1. RmhbInv => WalkersExplained
    BY DEF RmhbInv
  <1> QED BY <1>1, RmhbAlways, PTL
==============================================================================
