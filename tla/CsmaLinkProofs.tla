---------------------------- MODULE CsmaLinkProofs ----------------------------
(***************************************************************************)
(* Proofs about the sender of the CSMA layer, for any packets, neighbors,  *)
(* pool sizes and retry limits, and any answers of the radio; and about    *)
(* the sender over a lossy link, which takes only steps of the sender:     *)
(* its pools, its acknowledgements, and what the receiver hears twice.     *)
(***************************************************************************)
EXTENDS CsmaLink, FiniteSetTheorems, TLAPS

(* A packet that was not handed over yet has not been tried. *)
NewUntried == \A p \in Packet : outcome[p] = "new" => attempts[p] = 0

(* The inductive invariant.  CountersFresh links the counters of an entry, *)
(* which the code tests, to the attempts made for the packet at its head,  *)
(* which the properties speak of; QueuesSound keeps the packets of         *)
(* different queues apart.                                                 *)
CsmaInv ==
    /\ TypeOK /\ QueueAlive /\ QueuesSound /\ CountersFresh
    /\ GivesUpLate /\ AttemptsBounded /\ NewUntried

(* The attempts that t counted transmissions can stand for. *)
Cap(t) == t * (MaxBackoff + 1)

LEMMA CapStep ==
  ASSUME NEW t \in Nat
  PROVE  Cap(t) \in Nat /\ Cap(t + 1) = Cap(t) + MaxBackoff + 1
  BY CsmaAssumption, SMT DEF Cap

LEMMA CapMono ==
  ASSUME NEW s \in Nat, NEW t \in Nat, s <= t
  PROVE  Cap(s) <= Cap(t)
  BY CsmaAssumption, SMT DEF Cap

LEMMA MaxTransmissions ==
  ASSUME NEW p \in Packet
  PROVE  /\ max_transmissions(p) \in 1..255 /\ max_transmissions(p) \in Nat
         /\ 0 < max_transmissions(p)
  <1>1. Transmissions[p] \in Nat /\ MaxRetries \in 0..254
    BY CsmaAssumption
  <1>2. Transmissions[p] % 256 \in 0..255
    BY <1>1, SMT
  <1> QED BY <1>1, <1>2 DEF max_transmissions

------------------------------------------------------------------------------
LEMMA CsmaInit == Init => CsmaInv
  <1> SUFFICES ASSUME Init PROVE CsmaInv
    OBVIOUS
  <1> USE CsmaAssumption DEF Init
  <1>1. TypeOK
    BY DEF TypeOK
  <1>2. QueueAlive /\ QueuesSound /\ CountersFresh
    BY DEF QueueAlive, QueuesSound, CountersFresh
  <1>3. GivesUpLate /\ NewUntried
    BY DEF GivesUpLate, NewUntried
  <1>4. AttemptsBounded
    <2> SUFFICES ASSUME NEW p \in Packet
                 PROVE  attempts[p] <= Cap(max_transmissions(p))
      BY DEF AttemptsBounded, Cap
    <2>1. max_transmissions(p) \in Nat
      BY MaxTransmissions
    <2>2. Cap(max_transmissions(p)) \in Nat
      BY <2>1, CapStep
    <2> QED BY <2>2
  <1> QED BY <1>1, <1>2, <1>3, <1>4 DEF CsmaInv

------------------------------------------------------------------------------
(* The packet at the head of a queue. *)
LEMMA HeadPacket ==
  ASSUME CsmaInv, NEW a \in Addr, packet_queue[a] # <<>>
  PROVE  LET q == packet_queue[a] IN
         /\ q \in Seq(Packet) /\ Len(q) \in Nat \ {0} /\ 1 \in DOMAIN q
         /\ Head(q) = q[1] /\ Head(q) \in Packet
         /\ outcome[Head(q)] = "queued" /\ Dest[Head(q)] = a
         /\ Tail(q) \in Seq(Packet) /\ Len(Tail(q)) = Len(q) - 1
         /\ \A i \in 1..Len(Tail(q)) : Tail(q)[i] = q[i + 1]
         /\ Tail(q) = <<>> <=> Len(q) = 1
  <1> DEFINE q == packet_queue[a]
  <1>1. q \in Seq(Packet) /\ q # <<>>
    BY DEF CsmaInv, TypeOK
  <1>2. /\ \A i \in DOMAIN q : outcome[q[i]] = "queued" /\ Dest[q[i]] = a
    BY DEF CsmaInv, QueuesSound
  <1> HIDE DEF q
  <1>3. /\ Len(q) \in Nat \ {0} /\ DOMAIN q = 1..Len(q)
        /\ Head(q) = q[1] /\ Head(q) \in Packet
        /\ Tail(q) \in Seq(Packet) /\ Len(Tail(q)) = Len(q) - 1
        /\ \A i \in 1..Len(Tail(q)) : Tail(q)[i] = q[i + 1]
    BY <1>1
  <1>4. 1 \in DOMAIN q
    BY <1>3
  <1>5. Tail(q) = <<>> <=> Len(Tail(q)) = 0
    BY <1>3
  <1>6. Tail(q) = <<>> <=> Len(q) = 1
    BY <1>3, <1>5
  <1> QED BY <1>1, <1>2, <1>3, <1>4, <1>6 DEF q

(* An attempt ends with the packet finished or kept, and in each case with *)
(* counters that account for it.                                           *)
Attempted(a) ==
    /\ attempts' = [attempts EXCEPT ![Head(packet_queue[a])] = @ + 1]
    /\ UNCHANGED held

Done(a, s, ntx, coll) ==
    /\ Attempted(a)
    /\ tx_done(a, s, ntx, coll)
    /\ s \in {"NOACK", "COLLISION"} =>
         ntx >= max_transmissions(Head(packet_queue[a]))

Kept(a, ntx, coll) ==
    /\ Attempted(a)
    /\ rexmit(a, ntx, coll)
    /\ ntx < max_transmissions(Head(packet_queue[a]))
    /\ attempts[Head(packet_queue[a])] + 1 <= Cap(ntx) + coll

LEMMA AttemptEnds ==
  ASSUME CsmaInv, NEW a \in Addr, NEW ans \in Status,
         transmit_from_queue(a, ans)
  PROVE  \E ntx \in 0..255, coll \in 0..MaxBackoff :
           /\ ntx <= attempts[Head(packet_queue[a])] + 1
           /\ \/ \E s \in Status : Done(a, s, ntx, coll)
              \/ Kept(a, ntx, coll)
  <1> DEFINE p == Head(packet_queue[a])
             t == transmissions[a]
             k == collisions[a]
             n == attempts[p]
  <1>1. packet_queue[a] # <<>> /\ Attempted(a)
    BY DEF transmit_from_queue, Attempted
  <1>2. /\ p \in Packet /\ t \in Nat /\ k \in 0..MaxBackoff /\ n \in Nat
        /\ MaxBackoff \in Nat
    <2>1. p \in Packet
      BY <1>1, HeadPacket
    <2>2. t \in 0..255 /\ k \in 0..MaxBackoff /\ n \in Nat
      BY <2>1 DEF CsmaInv, TypeOK
    <2> QED BY <2>1, <2>2, CsmaAssumption
  <1>3. /\ t < max_transmissions(p) /\ t <= n /\ n <= Cap(t) + k
    BY <1>1, HeadPacket DEF CsmaInv, CountersFresh, Cap
  <1>4. max_transmissions(p) \in 1..255
    BY <1>2, MaxTransmissions
  <1>5. /\ Cap(t) \in Nat /\ Cap(t + 1) = Cap(t) + MaxBackoff + 1
    BY <1>2, CapStep
  <1>6. /\ t \in 0..255 /\ t + 1 \in 0..255 /\ 0 \in 0..MaxBackoff
        /\ t <= n + 1 /\ t + 1 <= n + 1
        /\ n + 1 <= Cap(t + 1) + 0
        /\ k + 1 <= MaxBackoff => /\ k + 1 \in 0..MaxBackoff
                                  /\ n + 1 <= Cap(t) + (k + 1)
    BY <1>2, <1>3, <1>4, <1>5
  <1>7. /\ "OK" \in Status /\ "NOACK" \in Status /\ "COLLISION" \in Status
        /\ "ERR" \in Status
    BY DEF Status
  <1>8. \A s \in Status, ntx \in 0..255, coll \in Nat :
          retry(a, s, ntx, coll) /\ n + 1 <= Cap(ntx) + coll
          => Done(a, s, ntx, coll) \/ Kept(a, ntx, coll)
    <2> SUFFICES ASSUME NEW s \in Status, NEW ntx \in 0..255, NEW coll \in Nat,
                        retry(a, s, ntx, coll), n + 1 <= Cap(ntx) + coll
                 PROVE  Done(a, s, ntx, coll) \/ Kept(a, ntx, coll)
      OBVIOUS
    <2> DEFINE m == max_transmissions(p)
    <2>1. m \in 1..255
      BY <1>4
    <2>2. CASE ntx >= m
      BY <1>1, <2>2 DEF retry, Done
    <2>3. CASE ~(ntx >= m)
      <3>1. ntx < m
        BY <2>1, <2>3
      <3> QED BY <1>1, <2>3, <3>1 DEF retry, Kept
    <2> QED BY <2>2, <2>3
  <1>9. CASE tx_ok(a)
    <2>1. Done(a, "OK", t + 1, 0)
      BY <1>1, <1>9 DEF tx_ok, Done
    <2> QED BY <2>1, <1>6, <1>7
  <1>10. CASE noack(a)
    <2>1. Done(a, "NOACK", t + 1, 0) \/ Kept(a, t + 1, 0)
      BY <1>6, <1>7, <1>8, <1>10 DEF noack
    <2> QED BY <2>1, <1>6, <1>7
  <1>11. CASE collision(a)
    <2>1. CASE k + 1 > MaxBackoff
      <3>1. Done(a, "COLLISION", t + 1, 0) \/ Kept(a, t + 1, 0)
        BY <1>6, <1>7, <1>8, <1>11, <2>1 DEF collision
      <3> QED BY <3>1, <1>6, <1>7
    <2>2. CASE ~(k + 1 > MaxBackoff)
      <3>1. k + 1 <= MaxBackoff /\ k + 1 \in Nat
        BY <1>2, <2>2
      <3>2. Done(a, "COLLISION", t, k + 1) \/ Kept(a, t, k + 1)
        BY <3>1, <1>6, <1>7, <1>8, <1>11, <2>2 DEF collision
      <3> QED BY <3>1, <3>2, <1>6, <1>7
    <2> QED BY <2>1, <2>2
  <1>12. CASE tx_err(a)
    <2>1. Done(a, "ERR", t, k)
      BY <1>1, <1>12 DEF tx_err, Done
    <2> QED BY <2>1, <1>2, <1>6, <1>7
  <1> QED BY <1>9, <1>10, <1>11, <1>12 DEF transmit_from_queue, packet_sent

------------------------------------------------------------------------------
(* The attempt is the only step that raises attempts, by one for the head  *)
(* of the queue, within the bound.                                         *)
LEMMA AttemptBound ==
  ASSUME CsmaInv, NEW a \in Addr, packet_queue[a] # <<>>, Attempted(a)
  PROVE  /\ attempts' \in [Packet -> Nat]
         /\ attempts'[Head(packet_queue[a])]
              = attempts[Head(packet_queue[a])] + 1
         /\ \A r \in Packet : r # Head(packet_queue[a]) =>
                                attempts'[r] = attempts[r]
         /\ AttemptsBounded'
  <1> DEFINE p == Head(packet_queue[a])
             t == transmissions[a]
  <1>1. p \in Packet
    BY HeadPacket
  <1>2. attempts \in [Packet -> Nat] /\ t \in Nat /\ collisions[a] \in 0..MaxBackoff
    <2>1. t \in 0..255
      BY DEF CsmaInv, TypeOK
    <2>2. attempts \in [Packet -> Nat] /\ collisions[a] \in 0..MaxBackoff
      BY DEF CsmaInv, TypeOK
    <2> HIDE DEF t
    <2>3. t \in Nat
      BY <2>1
    <2> QED BY <2>2, <2>3
  <1>3. /\ attempts' \in [Packet -> Nat]
        /\ attempts'[p] = attempts[p] + 1
        /\ \A r \in Packet : r # p => attempts'[r] = attempts[r]
    BY <1>1, <1>2 DEF Attempted
  <1>4. /\ t < max_transmissions(p) /\ attempts[p] <= Cap(t) + collisions[a]
    BY HeadPacket DEF CsmaInv, CountersFresh, Cap
  <1>5. attempts[p] + 1 <= Cap(max_transmissions(p))
    <2>1. max_transmissions(p) \in Nat
      BY <1>1, MaxTransmissions
    <2> DEFINE m == max_transmissions(p)
               n == attempts[p]
               k == collisions[a]
    <2>2. t \in Nat /\ t + 1 \in Nat /\ m \in Nat /\ n \in Nat /\ t + 1 <= m
      BY <1>1, <1>2, <1>4, <2>1
    <2>3. Cap(t) \in Nat /\ Cap(t + 1) = Cap(t) + MaxBackoff + 1
      BY <1>2, CapStep
    <2>4. Cap(m) \in Nat
      BY <2>2, CapStep
    <2> HIDE DEF m, n, t, k, p
    <2>5. Cap(t + 1) <= Cap(m)
      BY <2>2, CapMono
    <2>6. n <= Cap(t) + k /\ k \in 0..MaxBackoff /\ MaxBackoff \in Nat
      BY <1>2, <1>4, CsmaAssumption DEF n, k
    <2>7. n + 1 <= Cap(m)
      BY <2>2, <2>3, <2>4, <2>5, <2>6
    <2> QED BY <2>7 DEF n, m
  <1>6. \A r \in Packet : attempts'[r] <= Cap(max_transmissions(r))
    BY <1>1, <1>3, <1>5 DEF CsmaInv, AttemptsBounded, Cap
  <1> QED BY <1>3, <1>6 DEF AttemptsBounded, Cap, max_transmissions

(* A finished packet leaves the invariant intact. *)
LEMMA DoneStep ==
  ASSUME CsmaInv, NEW a \in Addr, packet_queue[a] # <<>>,
         NEW s \in Status, NEW ntx \in 0..255, NEW coll \in 0..MaxBackoff,
         ntx <= attempts[Head(packet_queue[a])] + 1,
         Done(a, s, ntx, coll)
  PROVE  CsmaInv'
  <1> DEFINE q == packet_queue[a]
             p == Head(q)
             rest == Tail(q)
  <1>1. /\ q \in Seq(Packet) /\ Len(q) \in Nat \ {0} /\ DOMAIN q = 1..Len(q)
        /\ p = q[1] /\ p \in Packet /\ outcome[p] = "queued" /\ Dest[p] = a
        /\ rest \in Seq(Packet) /\ Len(rest) = Len(q) - 1
        /\ DOMAIN rest = 1..Len(rest)
        /\ \A i \in 1..Len(rest) : rest[i] = q[i + 1]
        /\ rest = <<>> <=> Len(q) = 1
    BY HeadPacket
  <1>2. /\ outcome' = [outcome EXCEPT ![p] = s]
        /\ packet_queue' = [packet_queue EXCEPT ![a] = rest]
        /\ transmissions' = [transmissions EXCEPT
                               ![a] = IF rest = <<>> THEN ntx ELSE 0]
        /\ collisions' = [collisions EXCEPT
                            ![a] = IF rest = <<>> THEN coll ELSE 0]
        /\ transmit_timer' = [transmit_timer EXCEPT ![a] = ~ (rest = <<>>)]
        /\ neighbor_list' = IF rest = <<>> THEN neighbor_list \ {a}
                                           ELSE neighbor_list
        /\ packet_memb' = packet_memb + 1 /\ metadata_memb' = metadata_memb + 1
        /\ queuebufs' = queuebufs + 1 /\ held' = held
        /\ neighbor_memb' = IF rest = <<>> THEN neighbor_memb + 1
                                           ELSE neighbor_memb
    BY DEF Done, tx_done, Attempted
  <1>3. /\ attempts' \in [Packet -> Nat] /\ AttemptsBounded'
        /\ attempts'[p] = attempts[p] + 1
        /\ \A r \in Packet : r # p => attempts'[r] = attempts[r]
    BY AttemptBound DEF Done
  <1>4. s \in {"NOACK", "COLLISION"} => ntx >= max_transmissions(p)
    BY DEF Done
  <1>5. TypeOK
    BY DEF CsmaInv
  <1>6. /\ packet_queue'[a] = rest
        /\ \A b \in Addr : b # a => packet_queue'[b] = packet_queue[b]
        /\ outcome'[p] = s
        /\ \A r \in Packet : r # p => outcome'[r] = outcome[r]
    BY <1>1, <1>2, <1>5 DEF TypeOK
  (* The packets that stay queued are others. *)
  <1>7. \A b \in Addr : \A i \in DOMAIN packet_queue'[b] :
          LET r == packet_queue'[b][i] IN
          /\ r \in Packet /\ r # p /\ Dest[r] = b /\ outcome[r] = "queued"
    <2> SUFFICES ASSUME NEW b \in Addr, NEW i \in DOMAIN packet_queue'[b]
                 PROVE  LET r == packet_queue'[b][i] IN
                        r \in Packet /\ r # p /\ Dest[r] = b /\ outcome[r] = "queued"
      OBVIOUS
    <2>1. CASE b = a
      <3>1. i \in 1..Len(rest) /\ packet_queue'[b][i] = q[i + 1]
        BY <1>1, <1>6, <2>1
      <3>2. i + 1 \in DOMAIN q /\ i + 1 # 1 /\ 1 \in DOMAIN q
        BY <1>1, <3>1
      <3>3. /\ q[i + 1] # q[1] /\ Dest[q[i + 1]] = a
            /\ outcome[q[i + 1]] = "queued"
        BY <3>2 DEF CsmaInv, QueuesSound
      <3>4. q[i + 1] \in Packet
        BY <1>1, <3>2
      <3> QED BY <1>1, <2>1, <3>1, <3>3, <3>4
    <2>2. CASE b # a
      <3>1. packet_queue'[b] = packet_queue[b] /\ i \in DOMAIN packet_queue[b]
        BY <1>6, <2>2
      <3>2. packet_queue[b][i] \in Packet
        <4>1. packet_queue[b] \in Seq(Packet)
          BY <1>5 DEF TypeOK
        <4> QED BY <3>1, <4>1
      <3>3. Dest[packet_queue[b][i]] = b /\ outcome[packet_queue[b][i]] = "queued"
        BY <3>1 DEF CsmaInv, QueuesSound
      <3> QED BY <1>1, <2>2, <3>1, <3>2, <3>3
    <2> QED BY <2>1, <2>2
  <1> HIDE DEF rest, p, q
  <1>8. TypeOK'
    <2>1. packet_queue' \in [Addr -> Seq(Packet)]
      BY <1>1, <1>2, <1>5 DEF TypeOK
    <2>2. /\ neighbor_list' \subseteq Addr
          /\ neighbor_memb' \in Int /\ packet_memb' \in Int
          /\ metadata_memb' \in Int /\ queuebufs' \in Int /\ held' \in Int
      BY <1>2, <1>5 DEF TypeOK
    <2>3. transmissions' \in [Addr -> 0..255]
      BY <1>2, <1>5 DEF TypeOK
    <2>4. collisions' \in [Addr -> 0..MaxBackoff]
      <3>1. 0 \in 0..MaxBackoff
        BY CsmaAssumption
      <3> QED BY <1>2, <1>5, <3>1 DEF TypeOK
    <2>5. transmit_timer' \in [Addr -> BOOLEAN]
      BY <1>2, <1>5 DEF TypeOK
    <2>6. outcome' \in [Packet -> Status \cup {"new", "queued"}]
      BY <1>2, <1>5 DEF TypeOK
    <2> QED BY <1>3, <2>1, <2>2, <2>3, <2>4, <2>5, <2>6 DEF TypeOK
  <1>9. QueueAlive'
    <2> SUFFICES ASSUME NEW b \in Addr
                 PROVE  /\ b \in neighbor_list' <=> packet_queue'[b] # <<>>
                        /\ transmit_timer'[b] <=> packet_queue'[b] # <<>>
      BY DEF QueueAlive
    <2>1. /\ b \in neighbor_list <=> packet_queue[b] # <<>>
          /\ transmit_timer[b] <=> packet_queue[b] # <<>>
      BY DEF CsmaInv, QueueAlive
    <2>2. CASE b = a
      <3>1. a \in neighbor_list
        BY <2>1, <2>2
      <3>2. transmit_timer'[a] = ~ (rest = <<>>)
        BY <1>2, <1>5 DEF TypeOK
      <3>3. a \in neighbor_list' <=> rest # <<>>
        BY <1>2, <3>1
      <3> QED BY <1>6, <2>2, <3>2, <3>3
    <2>3. CASE b # a
      <3>1. transmit_timer'[b] = transmit_timer[b]
        BY <1>2, <1>5, <2>3 DEF TypeOK
      <3>2. b \in neighbor_list' <=> b \in neighbor_list
        BY <1>2, <2>3
      <3> QED BY <1>6, <2>1, <2>3, <3>1, <3>2
    <2> QED BY <2>2, <2>3
  <1>10. QueuesSound'
    <2>1. ASSUME NEW b \in Addr, NEW i \in DOMAIN packet_queue'[b]
          PROVE  /\ outcome'[packet_queue'[b][i]] = "queued"
                 /\ Dest[packet_queue'[b][i]] = b
      BY <1>6, <1>7
    <2>2. ASSUME NEW b \in Addr, NEW i \in DOMAIN packet_queue'[b],
                 NEW j \in DOMAIN packet_queue'[b],
                 packet_queue'[b][i] = packet_queue'[b][j]
          PROVE  i = j
      <3>1. CASE b = a
        <4>1. /\ i \in 1..Len(rest) /\ j \in 1..Len(rest)
              /\ packet_queue'[b][i] = q[i + 1] /\ packet_queue'[b][j] = q[j + 1]
          BY <1>1, <1>6, <3>1
        <4>2. i + 1 \in DOMAIN q /\ j + 1 \in DOMAIN q
          BY <1>1, <4>1
        <4>3. \A m, n \in DOMAIN q : q[m] = q[n] => m = n
          BY DEF CsmaInv, QueuesSound, q
        <4>4. i + 1 = j + 1
          BY <2>2, <4>1, <4>2, <4>3
        <4> QED BY <1>1, <4>1, <4>4
      <3>2. CASE b # a
        BY <1>6, <2>2, <3>2 DEF CsmaInv, QueuesSound
      <3> QED BY <3>1, <3>2
    <2> QED BY <2>1, <2>2 DEF QueuesSound
  <1>11. CountersFresh'
    <2> SUFFICES ASSUME NEW b \in Addr, NEW i \in DOMAIN packet_queue'[b]
                 PROVE  LET r == packet_queue'[b][i] IN
                        IF i = 1
                        THEN /\ transmissions'[b] < max_transmissions(r)
                             /\ transmissions'[b] <= attempts'[r]
                             /\ attempts'[r] <= Cap(transmissions'[b])
                                                 + collisions'[b]
                        ELSE attempts'[r] = 0
      BY DEF CountersFresh, Cap, max_transmissions
    <2> DEFINE r == packet_queue'[b][i]
    <2>1. r \in Packet /\ attempts'[r] = attempts[r]
      BY <1>3, <1>7
    <2>2. max_transmissions(r) \in 1..255
      BY <2>1, MaxTransmissions
    <2>3. CASE b = a
      <3>1. i \in 1..Len(rest) /\ r = q[i + 1]
        BY <1>1, <1>6, <2>3
      <3>2. i + 1 \in DOMAIN q /\ i + 1 # 1
        BY <1>1, <3>1
      <3>3. attempts[r] = 0
        BY <3>1, <3>2 DEF CsmaInv, CountersFresh, q
      <3>4. rest # <<>>
        BY <3>1
      <3>5. transmissions'[b] = 0 /\ collisions'[b] = 0
        BY <1>2, <1>5, <2>3, <3>4 DEF TypeOK
      <3>6. Cap(0) \in Nat
        BY CapStep
      <3>7. attempts'[r] = 0
        BY <2>1, <3>3
      <3>8. 0 <= Cap(0) + 0
        BY <3>6
      <3> HIDE DEF r
      <3>9. 0 < max_transmissions(r)
        BY <2>1, MaxTransmissions
      <3> QED BY <3>5, <3>7, <3>8, <3>9 DEF r
    <2>4. CASE b # a
      <3>1. /\ packet_queue'[b] = packet_queue[b]
            /\ transmissions'[b] = transmissions[b]
            /\ collisions'[b] = collisions[b]
        BY <1>2, <1>5, <1>6, <2>4 DEF TypeOK
      <3>2. IF i = 1
            THEN /\ transmissions[b] < max_transmissions(r)
                 /\ transmissions[b] <= attempts[r]
                 /\ attempts[r] <= Cap(transmissions[b]) + collisions[b]
            ELSE attempts[r] = 0
        BY <3>1 DEF CsmaInv, CountersFresh, Cap
      <3> HIDE DEF r
      <3> QED BY <2>1, <3>1, <3>2 DEF r
    <2> QED BY <2>3, <2>4
  <1>12. GivesUpLate'
    <2> SUFFICES ASSUME NEW r \in Packet, outcome'[r] \in {"NOACK", "COLLISION"}
                 PROVE  attempts'[r] >= max_transmissions(r)
      BY DEF GivesUpLate, max_transmissions
    <2>1. max_transmissions(r) \in 1..255
      BY MaxTransmissions
    <2>2. CASE r = p
      <3>1. ntx >= max_transmissions(r) /\ attempts'[r] = attempts[r] + 1
            /\ ntx <= attempts[r] + 1 /\ attempts[r] \in Nat
        BY <1>3, <1>4, <1>5, <1>6, <2>2 DEF TypeOK, p, q
      <3> DEFINE m == max_transmissions(r)
                 n == attempts[r]
      <3>2. /\ ntx >= m /\ ntx <= n + 1 /\ n \in Nat /\ m \in 1..255
            /\ ntx \in 0..255 /\ attempts'[r] = n + 1
        BY <2>1, <3>1
      <3> HIDE DEF m, n
      <3>3. n + 1 >= m
        BY <3>2
      <3> QED BY <3>2, <3>3 DEF m
    <2>3. CASE r # p
      BY <1>3, <1>6, <2>3 DEF CsmaInv, GivesUpLate
    <2> QED BY <2>2, <2>3
  <1>13. NewUntried'
    BY <1>3, <1>6 DEF CsmaInv, NewUntried, Status
  <1> QED BY <1>3, <1>8, <1>9, <1>10, <1>11, <1>12, <1>13 DEF CsmaInv

(* A packet that is kept for another attempt leaves it intact. *)
LEMMA KeptStep ==
  ASSUME CsmaInv, NEW a \in Addr, packet_queue[a] # <<>>,
         NEW ntx \in 0..255, NEW coll \in 0..MaxBackoff,
         ntx <= attempts[Head(packet_queue[a])] + 1,
         Kept(a, ntx, coll)
  PROVE  CsmaInv'
  <1> DEFINE q == packet_queue[a]
             p == Head(q)
  <1>1. /\ q \in Seq(Packet) /\ DOMAIN q = 1..Len(q)
        /\ p = q[1] /\ p \in Packet /\ outcome[p] = "queued" /\ Dest[p] = a
        /\ 1 \in DOMAIN q
    BY HeadPacket
  <1>2. /\ transmissions' = [transmissions EXCEPT ![a] = ntx]
        /\ collisions' = [collisions EXCEPT ![a] = coll]
        /\ transmit_timer' = [transmit_timer EXCEPT ![a] = TRUE]
        /\ outcome' = outcome /\ packet_queue' = packet_queue
        /\ neighbor_list' = neighbor_list /\ neighbor_memb' = neighbor_memb
        /\ packet_memb' = packet_memb /\ metadata_memb' = metadata_memb
        /\ queuebufs' = queuebufs /\ held' = held
    BY DEF Kept, rexmit, Attempted, poolVars
  <1>3. /\ attempts' \in [Packet -> Nat] /\ AttemptsBounded'
        /\ attempts'[p] = attempts[p] + 1
        /\ \A r \in Packet : r # p => attempts'[r] = attempts[r]
    BY AttemptBound DEF Kept
  <1>4. ntx < max_transmissions(p) /\ attempts[p] + 1 <= Cap(ntx) + coll
    BY DEF Kept
  <1>5. TypeOK
    BY DEF CsmaInv
  <1>6. TypeOK'
    BY <1>2, <1>3, <1>5 DEF TypeOK
  <1>7. QueueAlive'
    <2> SUFFICES ASSUME NEW b \in Addr
                 PROVE  /\ b \in neighbor_list' <=> packet_queue'[b] # <<>>
                        /\ transmit_timer'[b] <=> packet_queue'[b] # <<>>
      BY DEF QueueAlive
    <2>1. transmit_timer'[b] <=> transmit_timer[b] \/ b = a
      BY <1>2, <1>5 DEF TypeOK
    <2> QED BY <1>2, <2>1 DEF CsmaInv, QueueAlive
  <1>8. QueuesSound'
    BY <1>2 DEF CsmaInv, QueuesSound
  <1>9. CountersFresh'
    <2> SUFFICES ASSUME NEW b \in Addr, NEW i \in DOMAIN packet_queue[b]
                 PROVE  LET r == packet_queue[b][i] IN
                        IF i = 1
                        THEN /\ transmissions'[b] < max_transmissions(r)
                             /\ transmissions'[b] <= attempts'[r]
                             /\ attempts'[r] <= Cap(transmissions'[b])
                                                 + collisions'[b]
                        ELSE attempts'[r] = 0
      BY <1>2 DEF CountersFresh, Cap, max_transmissions
    <2> DEFINE r == packet_queue[b][i]
    <2>1. /\ packet_queue[b] \in Seq(Packet)
          /\ Dest[r] = b
      BY <1>5 DEF TypeOK, CsmaInv, QueuesSound
    <2>2. r \in Packet
      BY <2>1
    <2>3. IF i = 1
          THEN /\ transmissions[b] < max_transmissions(r)
               /\ transmissions[b] <= attempts[r]
               /\ attempts[r] <= Cap(transmissions[b]) + collisions[b]
          ELSE attempts[r] = 0
      BY DEF CsmaInv, CountersFresh, Cap
    <2>4. CASE b = a /\ i = 1
      <3>1. r = p /\ transmissions'[b] = ntx /\ collisions'[b] = coll
        BY <1>1, <1>2, <1>5, <2>4 DEF TypeOK
      <3>2. attempts'[r] = attempts[p] + 1
        BY <1>3, <3>1
      <3> QED BY <1>4, <2>4, <3>1, <3>2
    <2>5. CASE b = a /\ i # 1
      <3>1. q[i] # q[1]
        BY <1>1, <2>5 DEF CsmaInv, QueuesSound
      <3>2. r # p
        BY <1>1, <2>5, <3>1
      <3> QED BY <1>3, <2>2, <2>3, <2>5, <3>2
    <2>6. CASE b # a
      <3>1. transmissions'[b] = transmissions[b] /\ collisions'[b] = collisions[b]
        BY <1>2, <1>5, <2>6 DEF TypeOK
      <3>2. attempts'[r] = attempts[r]
        BY <1>1, <1>3, <2>1, <2>2, <2>6
      <3> HIDE DEF r
      <3> QED BY <2>3, <3>1, <3>2 DEF r
    <2> QED BY <2>4, <2>5, <2>6
  <1>10. GivesUpLate'
    <2>1. \A r \in Packet : outcome[r] \in {"NOACK", "COLLISION"} =>
                              r # p /\ attempts[r] >= max_transmissions(r)
      BY <1>1 DEF CsmaInv, GivesUpLate
    <2> QED BY <1>2, <1>3, <2>1 DEF GivesUpLate, max_transmissions
  <1>11. NewUntried'
    BY <1>1, <1>2, <1>3 DEF CsmaInv, NewUntried
  <1> QED BY <1>3, <1>6, <1>7, <1>8, <1>9, <1>10, <1>11 DEF CsmaInv

(* So does a packet that is queued. *)
LEMMA QueueStep ==
  ASSUME CsmaInv, NEW p \in Packet, output_queue(p)
  PROVE  CsmaInv'
  <1> DEFINE a == Dest[p]
             q == packet_queue[a]
             new == a \notin neighbor_list
  <1>1. a \in Addr /\ q \in Seq(Packet) /\ TypeOK
    BY CsmaAssumption DEF CsmaInv, TypeOK
  <1>2. /\ outcome[p] = "new"
        /\ outcome' = [outcome EXCEPT ![p] = "queued"]
        /\ packet_queue' = [packet_queue EXCEPT ![a] = Append(q, p)]
        /\ neighbor_list' = neighbor_list \cup {a}
        /\ neighbor_memb' = IF new THEN neighbor_memb - 1 ELSE neighbor_memb
        /\ packet_memb' = packet_memb - 1 /\ metadata_memb' = metadata_memb - 1
        /\ queuebufs' = queuebufs - 1 /\ held' = held /\ attempts' = attempts
    BY DEF output_queue, Admitted, GotMetadata, GotPacket, Room, NewEntry, Alloc
  <1>3. new => /\ transmissions' = [transmissions EXCEPT ![a] = 0]
               /\ collisions' = [collisions EXCEPT ![a] = 0]
               /\ transmit_timer' = [transmit_timer EXCEPT ![a] = TRUE]
    BY DEF output_queue, Admitted, GotMetadata, GotPacket, Room, NewEntry
  <1>4. ~ new => UNCHANGED <<transmissions, collisions, transmit_timer>>
    BY DEF output_queue, NewEntry
  <1>5. new <=> q = <<>>
    BY <1>1 DEF CsmaInv, QueueAlive
  <1>6. /\ packet_queue'[a] = Append(q, p)
        /\ \A b \in Addr : b # a => packet_queue'[b] = packet_queue[b]
        /\ outcome'[p] = "queued"
        /\ \A r \in Packet : r # p => outcome'[r] = outcome[r]
    BY <1>1, <1>2 DEF TypeOK
  <1>7. /\ Append(q, p) \in Seq(Packet) /\ Len(Append(q, p)) = Len(q) + 1
        /\ Append(q, p) # <<>> /\ Len(q) \in Nat
        /\ DOMAIN Append(q, p) = 1..(Len(q) + 1) /\ DOMAIN q = 1..Len(q)
        /\ Append(q, p)[Len(q) + 1] = p
        /\ \A i \in 1..Len(q) : Append(q, p)[i] = q[i]
        /\ q = <<>> <=> Len(q) = 0
    BY <1>1
  <1>8. \A b \in Addr : \A i \in DOMAIN packet_queue[b] :
          /\ packet_queue[b][i] \in Packet /\ packet_queue[b][i] # p
          /\ outcome[packet_queue[b][i]] = "queued"
          /\ Dest[packet_queue[b][i]] = b
    <2> SUFFICES ASSUME NEW b \in Addr, NEW i \in DOMAIN packet_queue[b]
                 PROVE  /\ packet_queue[b][i] \in Packet /\ packet_queue[b][i] # p
                        /\ outcome[packet_queue[b][i]] = "queued"
                        /\ Dest[packet_queue[b][i]] = b
      OBVIOUS
    <2>1. packet_queue[b] \in Seq(Packet)
      BY <1>1 DEF TypeOK
    <2>2. packet_queue[b][i] \in Packet
      BY <2>1
    <2>3. /\ outcome[packet_queue[b][i]] = "queued"
          /\ Dest[packet_queue[b][i]] = b
      BY DEF CsmaInv, QueuesSound
    <2> QED BY <1>2, <2>2, <2>3
  <1>9. TypeOK'
    <2>1. packet_queue' \in [Addr -> Seq(Packet)]
      BY <1>1, <1>2, <1>7 DEF TypeOK
    <2>2. outcome' \in [Packet -> Status \cup {"new", "queued"}]
      BY <1>1, <1>2 DEF TypeOK
    <2>3. /\ neighbor_list' \subseteq Addr /\ attempts' \in [Packet -> Nat]
          /\ neighbor_memb' \in Int /\ packet_memb' \in Int
          /\ metadata_memb' \in Int /\ queuebufs' \in Int /\ held' \in Int
      BY <1>1, <1>2 DEF TypeOK
    <2>4. 0 \in 0..MaxBackoff /\ 0 \in 0..255
      BY CsmaAssumption
    <2>5. /\ transmissions' \in [Addr -> 0..255]
          /\ collisions' \in [Addr -> 0..MaxBackoff]
      <3>1. CASE new
        <4>1. transmissions' \in [Addr -> 0..255]
          BY <1>1, <1>3, <2>4, <3>1 DEF TypeOK
        <4>2. collisions' \in [Addr -> 0..MaxBackoff]
          BY <1>1, <1>3, <2>4, <3>1 DEF TypeOK
        <4> QED BY <4>1, <4>2
      <3>2. CASE ~ new
        BY <1>1, <1>4, <3>2 DEF TypeOK
      <3> QED BY <3>1, <3>2
    <2>6. transmit_timer' \in [Addr -> BOOLEAN]
      BY <1>1, <1>3, <1>4 DEF TypeOK
    <2> QED BY <2>1, <2>2, <2>3, <2>5, <2>6 DEF TypeOK
  <1> HIDE DEF new
  <1>10. QueueAlive'
    <2> SUFFICES ASSUME NEW b \in Addr
                 PROVE  /\ b \in neighbor_list' <=> packet_queue'[b] # <<>>
                        /\ transmit_timer'[b] <=> packet_queue'[b] # <<>>
      BY DEF QueueAlive
    <2>1. /\ b \in neighbor_list <=> packet_queue[b] # <<>>
          /\ transmit_timer[b] <=> packet_queue[b] # <<>>
      BY DEF CsmaInv, QueueAlive
    <2>2. CASE b = a
      <3>1. transmit_timer'[a]
        BY <1>1, <1>3, <1>4, <1>5, <2>1, <2>2 DEF TypeOK
      <3> QED BY <1>2, <1>6, <1>7, <2>2, <3>1
    <2>3. CASE b # a
      <3>1. transmit_timer'[b] = transmit_timer[b]
        BY <1>1, <1>3, <1>4, <2>3 DEF TypeOK
      <3>2. b \in neighbor_list' <=> b \in neighbor_list
        BY <1>2, <2>3
      <3> QED BY <1>6, <2>1, <2>3, <3>1, <3>2
    <2> QED BY <2>2, <2>3
  <1>11. QueuesSound'
    <2>1. ASSUME NEW b \in Addr, NEW i \in DOMAIN packet_queue'[b]
          PROVE  /\ outcome'[packet_queue'[b][i]] = "queued"
                 /\ Dest[packet_queue'[b][i]] = b
      <3>1. CASE b # a
        BY <1>6, <1>8, <3>1
      <3>2. CASE b = a /\ i = Len(q) + 1
        BY <1>6, <1>7, <3>2
      <3>3. CASE b = a /\ i # Len(q) + 1
        <4>1. i \in DOMAIN q /\ packet_queue'[b][i] = q[i]
          BY <1>6, <1>7, <3>3
        <4> QED BY <1>1, <1>6, <1>8, <3>3, <4>1
      <3> QED BY <3>1, <3>2, <3>3
    <2>2. ASSUME NEW b \in Addr, NEW i \in DOMAIN packet_queue'[b],
                 NEW j \in DOMAIN packet_queue'[b],
                 packet_queue'[b][i] = packet_queue'[b][j]
          PROVE  i = j
      <3>1. CASE b # a
        BY <1>6, <2>2, <3>1 DEF CsmaInv, QueuesSound
      <3>2. CASE b = a
        <4>1. i \in 1..(Len(q) + 1) /\ j \in 1..(Len(q) + 1)
          BY <1>6, <1>7, <3>2
        <4>2. \A m \in 1..Len(q) : Append(q, p)[m] = q[m] /\ q[m] # p
          BY <1>1, <1>7, <1>8
        <4>3. \A m, n \in 1..Len(q) : q[m] = q[n] => m = n
          BY <1>1, <1>7 DEF CsmaInv, QueuesSound
        <4>4. Append(q, p)[i] = Append(q, p)[j]
          BY <1>6, <2>2, <3>2
        <4> HIDE DEF q
        <4> QED BY <1>7, <4>1, <4>2, <4>3, <4>4
      <3> QED BY <3>1, <3>2
    <2> QED BY <2>1, <2>2 DEF QueuesSound
  <1>12. attempts[p] = 0
    BY <1>2 DEF CsmaInv, NewUntried
  <1>13. CountersFresh'
    <2> SUFFICES ASSUME NEW b \in Addr, NEW i \in DOMAIN packet_queue'[b]
                 PROVE  LET r == packet_queue'[b][i] IN
                        IF i = 1
                        THEN /\ transmissions'[b] < max_transmissions(r)
                             /\ transmissions'[b] <= attempts[r]
                             /\ attempts[r] <= Cap(transmissions'[b])
                                                 + collisions'[b]
                        ELSE attempts[r] = 0
      BY <1>2 DEF CountersFresh, Cap, max_transmissions
    <2>1. \A j \in DOMAIN packet_queue[b] :
            LET r == packet_queue[b][j] IN
            IF j = 1
            THEN /\ transmissions[b] < max_transmissions(r)
                 /\ transmissions[b] <= attempts[r]
                 /\ attempts[r] <= Cap(transmissions[b]) + collisions[b]
            ELSE attempts[r] = 0
      BY DEF CsmaInv, CountersFresh, Cap
    <2>2. CASE b # a
      <3>1. /\ transmissions'[b] = transmissions[b]
            /\ collisions'[b] = collisions[b]
        BY <1>1, <1>3, <1>4, <2>2 DEF TypeOK
      <3> QED BY <1>6, <2>1, <2>2, <3>1
    <2>3. CASE b = a /\ i = Len(q) + 1
      <3>1. packet_queue'[b][i] = p
        BY <1>6, <1>7, <2>3
      <3>2. CASE new
        <4>1. transmissions'[b] = 0 /\ collisions'[b] = 0
          BY <1>1, <1>3, <2>3, <3>2 DEF TypeOK
        <4>2. 0 < max_transmissions(p)
          BY MaxTransmissions
        <4>3. 0 <= Cap(0) + 0
          BY CapStep
        <4> QED BY <1>12, <3>1, <4>1, <4>2, <4>3
      <3>3. CASE ~ new
        <4>1. i # 1
          BY <1>5, <1>7, <2>3, <3>3
        <4> QED BY <1>12, <3>1, <4>1
      <3> QED BY <3>2, <3>3
    <2>4. CASE b = a /\ i # Len(q) + 1
      <3>1. i \in DOMAIN q /\ packet_queue'[b][i] = q[i] /\ q # <<>>
        BY <1>6, <1>7, <2>4
      <3>2. transmissions' = transmissions /\ collisions' = collisions
        BY <1>4, <1>5, <3>1
      <3> QED BY <2>1, <2>4, <3>1, <3>2
    <2> QED BY <2>2, <2>3, <2>4
  <1>14. GivesUpLate' /\ AttemptsBounded' /\ NewUntried'
    <2>1. \A r \in Packet : outcome'[r] # "queued" => outcome'[r] = outcome[r]
      BY <1>6
    <2> QED
      BY <1>2, <2>1
         DEF CsmaInv, GivesUpLate, AttemptsBounded, NewUntried, max_transmissions
  <1> QED BY <1>9, <1>10, <1>11, <1>13, <1>14 DEF CsmaInv

PoolsTyped ==
    /\ neighbor_memb \in Int /\ packet_memb \in Int /\ metadata_memb \in Int
    /\ queuebufs \in Int /\ held \in Int

(* The other steps change neither the queues nor the counters of an entry  *)
(* that is in use.                                                         *)
OthersKeep ==
    /\ UNCHANGED <<packet_queue, neighbor_list, transmit_timer, attempts>>
    /\ transmissions' \in [Addr -> 0..255]
    /\ collisions' \in [Addr -> 0..MaxBackoff]
    /\ \A b \in Addr : packet_queue[b] # <<>> =>
         transmissions'[b] = transmissions[b] /\ collisions'[b] = collisions[b]
    /\ \/ outcome' = outcome
       \/ \E p \in Packet : /\ outcome[p] = "new"
                            /\ outcome' = [outcome EXCEPT ![p] = "ERR"]
    /\ PoolsTyped'

LEMMA OtherStep ==
  ASSUME CsmaInv, OthersKeep
  PROVE  CsmaInv'
  <1>1. /\ packet_queue' = packet_queue /\ neighbor_list' = neighbor_list
        /\ transmit_timer' = transmit_timer /\ attempts' = attempts
        /\ PoolsTyped'
    BY DEF OthersKeep
  <1>2. \A r \in Packet :
          \/ outcome'[r] = outcome[r]
          \/ outcome[r] = "new" /\ outcome'[r] = "ERR"
    BY DEF OthersKeep, CsmaInv, TypeOK
  <1>3. outcome' \in [Packet -> Status \cup {"new", "queued"}]
    BY DEF OthersKeep, CsmaInv, TypeOK, Status
  <1>4. TypeOK'
    BY <1>1, <1>3 DEF OthersKeep, CsmaInv, TypeOK, PoolsTyped
  <1>5. QueueAlive' /\ AttemptsBounded'
    BY <1>1 DEF CsmaInv, QueueAlive, AttemptsBounded, max_transmissions
  <1>8. CountersFresh'
    <2>1. \A b \in Addr : \A i \in DOMAIN packet_queue[b] :
            transmissions'[b] = transmissions[b] /\ collisions'[b] = collisions[b]
      BY DEF OthersKeep
    <2> QED BY <1>1, <2>1 DEF CsmaInv, CountersFresh, max_transmissions
  <1>6. QueuesSound'
    <2>1. \A b \in Addr : \A i \in DOMAIN packet_queue[b] :
            outcome'[packet_queue[b][i]] = "queued"
      <3> SUFFICES ASSUME NEW b \in Addr, NEW i \in DOMAIN packet_queue[b]
                   PROVE  outcome'[packet_queue[b][i]] = "queued"
        OBVIOUS
      <3>1. packet_queue[b] \in Seq(Packet)
        BY DEF CsmaInv, TypeOK
      <3>2. packet_queue[b][i] \in Packet
        BY <3>1
      <3>3. outcome[packet_queue[b][i]] = "queued"
        BY DEF CsmaInv, QueuesSound
      <3> QED BY <1>2, <3>2, <3>3
    <2> QED BY <1>1, <2>1 DEF CsmaInv, QueuesSound
  <1>7. GivesUpLate' /\ NewUntried'
    BY <1>1, <1>2 DEF CsmaInv, GivesUpLate, NewUntried, max_transmissions
  <1> QED BY <1>4, <1>5, <1>6, <1>7, <1>8 DEF CsmaInv

(* csma_output_packet() gives back what it took for a packet it refuses:   *)
(* every block in the branch that took it, and an entry that was made for  *)
(* the packet because then no packet waits in it.                          *)
LEMMA DropGivesBack ==
  ASSUME CsmaInv, NEW p \in Packet, output_drop(p)
  PROVE  /\ OthersKeep /\ UNCHANGED <<neighbor_list, poolVars, held>>
  <1>0. PICK a : a = Dest[p]
    OBVIOUS
  <1>1. /\ a \in Addr /\ PoolsTyped /\ packet_queue \in [Addr -> Seq(Packet)]
        /\ transmissions \in [Addr -> 0..255]
        /\ collisions \in [Addr -> 0..MaxBackoff]
        /\ a \in neighbor_list <=> packet_queue[a] # <<>>
    BY <1>0, CsmaAssumption DEF CsmaInv, TypeOK, QueueAlive, PoolsTyped
  <1>2. /\ UNCHANGED <<packet_queue, transmit_timer, queuebufs, held, attempts>>
        /\ outcome[p] = "new" /\ outcome' = [outcome EXCEPT ![p] = "ERR"]
    BY DEF output_drop
  <1>3. packet_memb' = packet_memb /\ metadata_memb' = metadata_memb
    BY <1>1 DEF output_drop, PoolsTyped, Alloc, Free
  <1>4. NewEntry(p) <=> Room(p) /\ packet_queue[a] = <<>>
    <2>1. packet_queue[a] = <<>> => Len(packet_queue[a]) < MaxPerNeighbor
      BY CsmaAssumption
    <2> QED BY <1>0, <1>1, <2>1 DEF NewEntry, Room, Entry
  <1>5. neighbor_memb' = neighbor_memb /\ neighbor_list' = neighbor_list
    <2>1. /\ NewEntry(p) => neighbor_memb' = neighbor_memb - 1 + 1
          /\ ~ NewEntry(p) => neighbor_memb' = neighbor_memb
          /\ neighbor_list' = IF NewEntry(p)
                              THEN (IF Entry(p) THEN neighbor_list \cup {a}
                                               ELSE neighbor_list) \ {a}
                              ELSE IF Entry(p) THEN neighbor_list \cup {a}
                                               ELSE neighbor_list
      BY <1>0, <1>4 DEF output_drop, Alloc, Free
    <2> QED BY <1>0, <1>1, <2>1 DEF NewEntry, Entry, PoolsTyped
  <1>6. /\ transmissions' \in [Addr -> 0..255]
        /\ collisions' \in [Addr -> 0..MaxBackoff]
        /\ \A b \in Addr : packet_queue[b] # <<>> =>
             transmissions'[b] = transmissions[b] /\ collisions'[b] = collisions[b]
    <2>1. CASE NewEntry(p)
      <3>1. /\ transmissions' = [transmissions EXCEPT ![a] = 0]
            /\ collisions' = [collisions EXCEPT ![a] = 0]
            /\ packet_queue[a] = <<>>
        BY <1>0, <1>4, <2>1 DEF output_drop
      <3> QED BY <1>1, <3>1, CsmaAssumption
    <2>2. CASE ~ NewEntry(p)
      BY <1>1, <2>2 DEF output_drop
    <2> QED BY <2>1, <2>2
  <1>7. PoolsTyped'
    BY <1>1, <1>2, <1>3, <1>5 DEF PoolsTyped
  <1> QED BY <1>2, <1>3, <1>5, <1>6, <1>7 DEF OthersKeep, poolVars

LEMMA CsmaStep == CsmaInv /\ [Next]_vars => CsmaInv'
  <1> SUFFICES ASSUME CsmaInv, [Next]_vars PROVE CsmaInv'
    OBVIOUS
  <1>1. ASSUME NEW p \in Packet, output_queue(p) PROVE CsmaInv'
    BY <1>1, QueueStep
  <1>2. ASSUME NEW p \in Packet, output_drop(p) PROVE CsmaInv'
    BY <1>2, DropGivesBack, OtherStep
  <1>3. ASSUME NEW a \in Addr, NEW ans \in Status, transmit_from_queue(a, ans)
        PROVE  CsmaInv'
    <2>1. packet_queue[a] # <<>>
      BY <1>3 DEF transmit_from_queue
    <2>2. PICK ntx \in 0..255, coll \in 0..MaxBackoff :
            /\ ntx <= attempts[Head(packet_queue[a])] + 1
            /\ \/ \E s \in Status : Done(a, s, ntx, coll)
               \/ Kept(a, ntx, coll)
      BY <1>3, AttemptEnds
    <2> QED BY <2>1, <2>2, DoneStep, KeptStep
  <1>4. CASE queuebuf_new
    <2>1. OthersKeep
      BY <1>4 DEF queuebuf_new, OthersKeep, PoolsTyped, nbrVars, CsmaInv, TypeOK
    <2> QED BY <2>1, OtherStep
  <1>5. CASE queuebuf_free
    <2>1. OthersKeep
      BY <1>5 DEF queuebuf_free, OthersKeep, PoolsTyped, nbrVars, CsmaInv, TypeOK
    <2> QED BY <2>1, OtherStep
  <1>6. CASE UNCHANGED vars
    <2>1. OthersKeep
      BY <1>6 DEF vars, OthersKeep, PoolsTyped, nbrVars, poolVars, CsmaInv, TypeOK
    <2> QED BY <2>1, OtherStep
  <1> QED BY <1>1, <1>2, <1>3, <1>4, <1>5, <1>6 DEF Next, Transmit

(* The queues of csma-output.c never wedge: an entry exists, and its       *)
(* backoff timer runs, exactly while packets wait in it, and each waiting  *)
(* packet is in one queue, the one of its receiver.                        *)
THEOREM CsmaQueues == Spec => [](TypeOK /\ QueueAlive /\ QueuesSound)
  <1>1. CsmaInv => TypeOK /\ QueueAlive /\ QueuesSound
    BY DEF CsmaInv
  <1> QED BY <1>1, CsmaInit, CsmaStep, PTL DEF Spec

(* Whatever the radio answers, and whatever happened to the packets before *)
(* it, csma-output.c gives a packet up only after max_transmissions        *)
(* attempts of its own, and tries it a bounded number of times.            *)
THEOREM CsmaRetries == Spec => []RetryBudget
  <1>1. CsmaInv => RetryBudget
    BY DEF CsmaInv, RetryBudget
  <1> QED BY <1>1, CsmaInit, CsmaStep, PTL DEF Spec

------------------------------------------------------------------------------
(* Every step of the sender is a step of the MAC service or invisible.     *)
LEMMA ServiceStep == CsmaInv /\ [Next]_vars => [Service!Next]_(Service!vars)
  <1> SUFFICES ASSUME CsmaInv, [Next]_vars
               PROVE  [Service!Next]_(Service!vars)
    OBVIOUS
  <1> USE DEF Service!Next, Service!vars
  <1>1. ASSUME NEW p \in Packet, output_queue(p)
        PROVE  [Service!Next]_(Service!vars)
    <2>1. Service!Accept(p)
      BY <1>1 DEF output_queue, Service!Accept
    <2> QED BY <2>1
  <1>2. ASSUME NEW p \in Packet, output_drop(p)
        PROVE  [Service!Next]_(Service!vars)
    <2>1. Service!Refuse(p)
      BY <1>2 DEF output_drop, Service!Refuse
    <2> QED BY <2>1
  <1>3. ASSUME NEW a \in Addr, NEW ans \in Status, transmit_from_queue(a, ans)
        PROVE  [Service!Next]_(Service!vars)
    <2>1. packet_queue[a] # <<>>
      BY <1>3 DEF transmit_from_queue
    <2>2. outcome[Head(packet_queue[a])] = "queued"
      BY <2>1, HeadPacket
    <2>3. PICK ntx \in 0..255, coll \in 0..MaxBackoff :
            \/ \E s \in Status : Done(a, s, ntx, coll)
            \/ Kept(a, ntx, coll)
      BY <1>3, AttemptEnds
    <2>4. ASSUME NEW s \in Status, Done(a, s, ntx, coll)
          PROVE  Service!Finish(a, s)
      <3>1. /\ outcome' = [outcome EXCEPT ![Head(packet_queue[a])] = s]
            /\ packet_queue' = [packet_queue EXCEPT ![a] = Tail(packet_queue[a])]
        BY <2>4 DEF Done, tx_done
      <3> QED BY <2>1, <2>2, <3>1 DEF Service!Finish
    <2>5. CASE Kept(a, ntx, coll)
      BY <2>5 DEF Kept, rexmit
    <2> QED BY <2>3, <2>4, <2>5
  <1>4. CASE queuebuf_new \/ queuebuf_free \/ UNCHANGED vars
    BY <1>4 DEF queuebuf_new, queuebuf_free, vars, nbrVars
  <1> QED BY <1>1, <1>2, <1>3, <1>4 DEF Next, Transmit

(* csma-output.c is a MAC service: the packets of a receiver are finished  *)
(* in the order in which they were accepted, and mac_call_sent_callback()  *)
(* is called once for every packet.                                        *)
THEOREM CsmaIsMac == Spec => ImplementsMac
  <1>1. Init => Service!Init
    BY DEF Init, Service!Init
  <1> QED
    BY <1>1, CsmaInit, CsmaStep, ServiceStep, PTL
       DEF Spec, ImplementsMac, Service!Spec

------------------------------------------------------------------------------
(* The pools.  A packet that is queued takes one more place, *)
LEMMA PlaceIn ==
  ASSUME NEW q, NEW x
  PROVE  x \in UNION {{a} \X DOMAIN q[a] : a \in Addr} <=>
           \E b \in Addr : \E i \in DOMAIN q[b] : x = <<b, i>>
  <1>1. ASSUME x \in UNION {{a} \X DOMAIN q[a] : a \in Addr}
        PROVE  \E b \in Addr : \E i \in DOMAIN q[b] : x = <<b, i>>
    <2>1. PICK s \in {{a} \X DOMAIN q[a] : a \in Addr} : x \in s
      BY <1>1
    <2>2. PICK b \in Addr : s = {b} \X DOMAIN q[b]
      BY <2>1
    <2>3. x \in {b} \X DOMAIN q[b]
      BY <2>1, <2>2
    <2>4. x[1] = b /\ x[2] \in DOMAIN q[b] /\ x = <<x[1], x[2]>>
      BY <2>3
    <2> QED BY <2>4
  <1>2. ASSUME NEW b \in Addr, NEW i \in DOMAIN q[b], x = <<b, i>>
        PROVE  x \in UNION {{a} \X DOMAIN q[a] : a \in Addr}
    <2>1. x \in {b} \X DOMAIN q[b]
      BY <1>2
    <2>2. ({b} \X DOMAIN q[b]) \in {{a} \X DOMAIN q[a] : a \in Addr}
      OBVIOUS
    <2> QED BY <2>1, <2>2
  <1> QED BY <1>1, <1>2

LEMMA PlaceOf ==
  /\ \A x : x \in Places <=>
              \E b \in Addr : \E i \in DOMAIN packet_queue[b] : x = <<b, i>>
  /\ \A x : x \in Places' <=>
              \E b \in Addr : \E i \in DOMAIN packet_queue'[b] : x = <<b, i>>
  BY PlaceIn DEF Places

LEMMA PlaceTaken ==
  ASSUME packet_queue \in [Addr -> Seq(Packet)], IsFiniteSet(Places),
         NEW a \in Addr, NEW n,
         n \notin DOMAIN packet_queue[a],
         DOMAIN packet_queue'[a] = DOMAIN packet_queue[a] \cup {n},
         \A b \in Addr : b # a => packet_queue'[b] = packet_queue[b]
  PROVE  /\ IsFiniteSet(Places')
         /\ Cardinality(Places') = Cardinality(Places) + 1
  <1>1. <<a, n>> \notin Places
    BY PlaceOf
  <1>2. Places' = Places \cup {<<a, n>>}
    <2>1. ASSUME NEW x \in Places' PROVE x \in Places \cup {<<a, n>>}
      <3>0. PICK b \in Addr : \E i \in DOMAIN packet_queue'[b] : x = <<b, i>>
        BY <2>1, PlaceOf
      <3>1. PICK i \in DOMAIN packet_queue'[b] : x = <<b, i>>
        BY <3>0
      <3>2. CASE b = a /\ i = n
        BY <3>1, <3>2
      <3>3. CASE ~ (b = a /\ i = n)
        <4>1. i \in DOMAIN packet_queue[b]
          BY <3>1, <3>3
        <4> QED BY <3>1, <4>1, PlaceOf
      <3> QED BY <3>2, <3>3
    <2>2. ASSUME NEW x \in Places PROVE x \in Places'
      <3>0. PICK b \in Addr : \E i \in DOMAIN packet_queue[b] : x = <<b, i>>
        BY <2>2, PlaceOf
      <3>1. PICK i \in DOMAIN packet_queue[b] : x = <<b, i>>
        BY <3>0
      <3>2. i \in DOMAIN packet_queue'[b]
        BY <3>1
      <3> QED BY <3>1, <3>2, PlaceOf
    <2>3. <<a, n>> \in Places'
      BY PlaceOf
    <2> QED BY <2>1, <2>2, <2>3
  <1> QED BY <1>1, <1>2, FS_AddElement

(* and one that is finished gives the last one back. *)
LEMMA PlaceGiven ==
  ASSUME packet_queue \in [Addr -> Seq(Packet)], IsFiniteSet(Places),
         NEW a \in Addr, NEW n \in DOMAIN packet_queue[a],
         DOMAIN packet_queue'[a] = DOMAIN packet_queue[a] \ {n},
         \A b \in Addr : b # a => packet_queue'[b] = packet_queue[b]
  PROVE  /\ IsFiniteSet(Places')
         /\ Cardinality(Places') = Cardinality(Places) - 1
  <1>1. <<a, n>> \in Places
    BY PlaceOf
  <1>2. Places' = Places \ {<<a, n>>}
    <2>1. ASSUME NEW x \in Places' PROVE x \in Places /\ x # <<a, n>>
      <3>0. PICK b \in Addr : \E i \in DOMAIN packet_queue'[b] : x = <<b, i>>
        BY <2>1, PlaceOf
      <3>1. PICK i \in DOMAIN packet_queue'[b] : x = <<b, i>>
        BY <3>0
      <3>2. i \in DOMAIN packet_queue[b] /\ ~ (b = a /\ i = n)
        BY <3>1
      <3> QED BY <3>1, <3>2, PlaceOf
    <2>2. ASSUME NEW x \in Places, x # <<a, n>> PROVE x \in Places'
      <3>0. PICK b \in Addr : \E i \in DOMAIN packet_queue[b] : x = <<b, i>>
        BY <2>2, PlaceOf
      <3>1. PICK i \in DOMAIN packet_queue[b] : x = <<b, i>>
        BY <3>0
      <3>2. i \in DOMAIN packet_queue'[b]
        BY <2>2, <3>1
      <3> QED BY <3>1, <3>2, PlaceOf
    <2> QED BY <2>1, <2>2
  <1> QED BY <1>1, <1>2, FS_RemoveElement

PoolsInv == PoolsBalanced /\ IsFiniteSet(Places) /\ IsFiniteSet(neighbor_list)

LEMMA PoolsInitial ==
  ASSUME Init
  PROVE  PoolsInv
  <1>1. Places = {}
    BY PlaceOf DEF Init
  <1> QED BY <1>1, FS_EmptySet, CsmaAssumption DEF Init, PoolsInv, PoolsBalanced

LEMMA PoolsQueue ==
  ASSUME PoolsInv, CsmaInv, NEW p \in Packet, output_queue(p)
  PROVE  PoolsInv'
  <1>0. PICK a : a = Dest[p]
    OBVIOUS
  <1>1. /\ a \in Addr /\ packet_queue \in [Addr -> Seq(Packet)]
        /\ PoolsTyped /\ IsFiniteSet(Places) /\ IsFiniteSet(neighbor_list)
        /\ a \notin neighbor_list => neighbor_memb > 0
        /\ packet_memb > 0 /\ metadata_memb > 0 /\ queuebufs > 0
    BY <1>0, CsmaAssumption
       DEF CsmaInv, TypeOK, PoolsInv, PoolsTyped, output_queue, Admitted,
           GotMetadata, GotPacket, Room, Entry
  <1>2. /\ packet_queue' = [packet_queue EXCEPT ![a] = Append(@, p)]
        /\ neighbor_list' = neighbor_list \cup {a}
        /\ neighbor_memb' = IF a \in neighbor_list THEN neighbor_memb
                            ELSE neighbor_memb - 1
        /\ packet_memb' = packet_memb - 1 /\ metadata_memb' = metadata_memb - 1
        /\ queuebufs' = queuebufs - 1 /\ held' = held
    BY <1>0 DEF output_queue, Admitted, GotMetadata, GotPacket, Room, NewEntry,
                Alloc
  <1>3. PICK q : q = packet_queue[a]
    OBVIOUS
  <1>4. /\ q \in Seq(Packet) /\ packet_queue'[a] = Append(q, p)
        /\ \A b \in Addr : b # a => packet_queue'[b] = packet_queue[b]
    BY <1>1, <1>2, <1>3
  <1>5. /\ Len(q) + 1 \notin DOMAIN q
        /\ DOMAIN Append(q, p) = DOMAIN q \cup {Len(q) + 1}
    BY <1>4
  <1>6. /\ IsFiniteSet(Places')
        /\ Cardinality(Places') = Cardinality(Places) + 1
    BY <1>1, <1>3, <1>4, <1>5, PlaceTaken
  <1>7. Cardinality(Places) \in Nat /\ Cardinality(neighbor_list) \in Nat
    BY <1>1, FS_CardinalityType
  <1>8. /\ neighbor_memb >= 0 /\ neighbor_memb = MaxNeighbors - Cardinality(neighbor_list)
        /\ packet_memb >= 0 /\ packet_memb = MaxPackets - Cardinality(Places)
        /\ metadata_memb = MaxPackets - Cardinality(Places)
        /\ queuebufs >= 0 /\ queuebufs = MaxQueuebufs - Cardinality(Places) - held
    BY DEF PoolsInv, PoolsBalanced
  <1>9. /\ neighbor_memb \in Int /\ packet_memb \in Int /\ metadata_memb \in Int
        /\ queuebufs \in Int /\ held \in Int
        /\ MaxNeighbors \in Nat /\ MaxPackets \in Nat /\ MaxQueuebufs \in Nat
        /\ Cardinality(Places) \in Nat /\ Cardinality(neighbor_list) \in Nat
    BY <1>1, <1>7, CsmaAssumption DEF PoolsTyped
  <1>10. /\ IsFiniteSet(neighbor_list')
         /\ neighbor_memb' >= 0
         /\ neighbor_memb' = MaxNeighbors - Cardinality(neighbor_list')
    <2>1. CASE a \in neighbor_list
      <3>1. neighbor_list' = neighbor_list
        BY <1>2, <2>1
      <3>2. neighbor_memb' = neighbor_memb
        BY <1>2, <1>9, <2>1
      <3> QED BY <1>1, <1>8, <3>1, <3>2
    <2>2. CASE a \notin neighbor_list
      <3>1. /\ IsFiniteSet(neighbor_list')
            /\ Cardinality(neighbor_list') = Cardinality(neighbor_list) + 1
        BY <1>1, <1>2, <2>2, FS_AddElement
      <3>2. neighbor_memb' = neighbor_memb - 1 /\ neighbor_memb > 0
        BY <1>1, <1>2, <2>2
      <3> QED BY <1>8, <1>9, <3>1, <3>2
    <2> QED BY <2>1, <2>2
  <1>11. /\ packet_memb' >= 0 /\ packet_memb' = MaxPackets - Cardinality(Places')
         /\ metadata_memb' = MaxPackets - Cardinality(Places')
         /\ queuebufs' >= 0 /\ queuebufs' = MaxQueuebufs - Cardinality(Places') - held'
    <2>1. /\ packet_memb' = packet_memb - 1 /\ metadata_memb' = metadata_memb - 1
          /\ queuebufs' = queuebufs - 1 /\ held' = held
          /\ packet_memb > 0 /\ queuebufs > 0
      BY <1>1, <1>2
    <2> QED BY <1>6, <1>8, <1>9, <2>1
  <1> QED BY <1>6, <1>10, <1>11 DEF PoolsInv, PoolsBalanced

LEMMA OneMoreFree ==
  ASSUME NEW m \in Int, NEW f \in Int, NEW k \in Int, NEW o \in Int,
         f = m - k - o, f >= 0
  PROVE  f + 1 = m - (k - 1) - o /\ f + 1 >= 0
  OBVIOUS

LEMMA PoolsDone ==
  ASSUME PoolsInv, CsmaInv, NEW a \in Addr, packet_queue[a] # <<>>,
         NEW s, NEW ntx, NEW coll, tx_done(a, s, ntx, coll), held' = held
  PROVE  PoolsInv'
  <1>1. /\ packet_queue \in [Addr -> Seq(Packet)] /\ neighbor_list \subseteq Addr
        /\ PoolsTyped /\ IsFiniteSet(Places) /\ IsFiniteSet(neighbor_list)
        /\ a \in neighbor_list
    BY DEF CsmaInv, TypeOK, PoolsInv, PoolsTyped, QueueAlive
  <1>2. PICK q : q = packet_queue[a]
    OBVIOUS
  <1>3. /\ packet_queue' = [packet_queue EXCEPT ![a] = Tail(q)]
        /\ neighbor_list' = IF Tail(q) = <<>> THEN neighbor_list \ {a} ELSE neighbor_list
        /\ neighbor_memb' = IF Tail(q) = <<>> THEN neighbor_memb + 1 ELSE neighbor_memb
        /\ packet_memb' = packet_memb + 1 /\ metadata_memb' = metadata_memb + 1
        /\ queuebufs' = queuebufs + 1
    BY <1>2 DEF tx_done
  <1>4. /\ q \in Seq(Packet) /\ q # <<>> /\ packet_queue'[a] = Tail(q)
        /\ \A b \in Addr : b # a => packet_queue'[b] = packet_queue[b]
    BY <1>1, <1>2, <1>3
  <1>5. Len(q) \in DOMAIN q /\ DOMAIN Tail(q) = DOMAIN q \ {Len(q)}
    <2>1. Len(q) \in Nat \ {0} /\ DOMAIN q = 1..Len(q)
      BY <1>4
    <2>2. DOMAIN Tail(q) = 1..(Len(q) - 1)
      BY <1>4
    <2> QED BY <2>1, <2>2
  <1>6. /\ IsFiniteSet(Places')
        /\ Cardinality(Places') = Cardinality(Places) - 1
    BY <1>1, <1>2, <1>4, <1>5, PlaceGiven
  <1>7. Cardinality(Places) \in Nat /\ Cardinality(neighbor_list) \in Nat
    BY <1>1, FS_CardinalityType
  <1>8. /\ neighbor_memb >= 0 /\ neighbor_memb = MaxNeighbors - Cardinality(neighbor_list)
        /\ packet_memb >= 0 /\ packet_memb = MaxPackets - Cardinality(Places)
        /\ metadata_memb = MaxPackets - Cardinality(Places)
        /\ queuebufs >= 0 /\ queuebufs = MaxQueuebufs - Cardinality(Places) - held
    BY DEF PoolsInv, PoolsBalanced
  <1>9. /\ neighbor_memb \in Int /\ packet_memb \in Int /\ metadata_memb \in Int
        /\ queuebufs \in Int /\ held \in Int
        /\ MaxNeighbors \in Nat /\ MaxPackets \in Nat /\ MaxQueuebufs \in Nat
        /\ Cardinality(Places) \in Nat /\ Cardinality(neighbor_list) \in Nat
    BY <1>1, <1>7, CsmaAssumption DEF PoolsTyped
  <1>10. /\ IsFiniteSet(neighbor_list')
         /\ neighbor_memb' >= 0
         /\ neighbor_memb' = MaxNeighbors - Cardinality(neighbor_list')
    <2>1. CASE Tail(q) # <<>>
      <3>1. neighbor_list' = neighbor_list /\ neighbor_memb' = neighbor_memb
        BY <1>3, <2>1
      <3> QED BY <1>1, <1>8, <3>1
    <2>2. CASE Tail(q) = <<>>
      <3>1. neighbor_list' = neighbor_list \ {a} /\ neighbor_memb' = neighbor_memb + 1
        BY <1>3, <2>2
      <3>2. /\ IsFiniteSet(neighbor_list')
            /\ Cardinality(neighbor_list') = Cardinality(neighbor_list) - 1
        BY <1>1, <3>1, FS_RemoveElement
      <3>3. PICK f, k : f = neighbor_memb /\ k = Cardinality(neighbor_list)
        OBVIOUS
      <3>4. f \in Int /\ k \in Int /\ MaxNeighbors \in Int /\ f >= 0
            /\ f = MaxNeighbors - k - 0
        BY <1>8, <1>9, <3>3
      <3>5. f + 1 = MaxNeighbors - (k - 1) /\ f + 1 >= 0
        BY <3>4, OneMoreFree
      <3> QED BY <3>1, <3>2, <3>3, <3>5
    <2> QED BY <2>1, <2>2
  <1>11. /\ packet_memb' >= 0 /\ packet_memb' = MaxPackets - Cardinality(Places')
         /\ metadata_memb' = MaxPackets - Cardinality(Places')
         /\ queuebufs' >= 0 /\ queuebufs' = MaxQueuebufs - Cardinality(Places') - held'
    <2>1. /\ packet_memb' = packet_memb + 1 /\ metadata_memb' = metadata_memb + 1
          /\ queuebufs' = queuebufs + 1 /\ held' = held
      BY <1>3
    <2>2. PICK k, f, o : k = Cardinality(Places) /\ f = packet_memb /\ o = held
      OBVIOUS
    <2>3. PICK g, h : g = metadata_memb /\ h = queuebufs
      OBVIOUS
    <2>4. /\ k \in Int /\ f \in Int /\ g \in Int /\ h \in Int /\ o \in Int
          /\ MaxPackets \in Int /\ MaxQueuebufs \in Int
      BY <1>9, <2>2, <2>3
    <2>5. /\ f = MaxPackets - k - 0 /\ f >= 0 /\ g = f
          /\ h = MaxQueuebufs - k - o /\ h >= 0
      BY <1>8, <2>2, <2>3, <2>4
    <2>6. /\ f + 1 = MaxPackets - (k - 1) /\ f + 1 >= 0
          /\ h + 1 = MaxQueuebufs - (k - 1) - o /\ h + 1 >= 0
      BY <2>4, <2>5, OneMoreFree
    <2> QED BY <1>6, <2>1, <2>2, <2>3, <2>5, <2>6
  <1> QED BY <1>6, <1>10, <1>11 DEF PoolsInv, PoolsBalanced

LEMMA PoolsStep ==
  ASSUME PoolsInv, CsmaInv, [Next]_vars
  PROVE  PoolsInv'
  <1>0. /\ PoolsTyped /\ IsFiniteSet(Places) /\ Cardinality(Places) \in Nat
    BY FS_CardinalityType DEF PoolsInv, CsmaInv, TypeOK, PoolsTyped
  <1>1. ASSUME UNCHANGED <<packet_queue, neighbor_list, poolVars, held>>
        PROVE  PoolsInv'
    <2>1. Places' = Places
      BY <1>1 DEF Places
    <2> QED BY <1>1, <2>1 DEF PoolsInv, PoolsBalanced, poolVars
  <1>2. ASSUME NEW p \in Packet, output_drop(p) PROVE PoolsInv'
    <2>1. UNCHANGED <<packet_queue, neighbor_list, poolVars, held>>
      BY <1>2, DropGivesBack DEF OthersKeep
    <2> QED BY <1>1, <2>1
  <1>3. ASSUME NEW a \in Addr, NEW ans \in Status, transmit_from_queue(a, ans)
        PROVE  PoolsInv'
    <2>1. packet_queue[a] # <<>>
      BY <1>3 DEF transmit_from_queue
    <2>2. PICK ntx \in 0..255, coll \in 0..MaxBackoff :
            \/ \E s \in Status : Done(a, s, ntx, coll)
            \/ Kept(a, ntx, coll)
      BY <1>3, AttemptEnds
    <2>3. ASSUME NEW s \in Status, Done(a, s, ntx, coll) PROVE PoolsInv'
      BY <2>1, <2>3, PoolsDone DEF Done, Attempted
    <2>4. CASE Kept(a, ntx, coll)
      BY <1>1, <2>4 DEF Kept, Attempted, rexmit
    <2> QED BY <2>2, <2>3, <2>4
  <1>4. CASE queuebuf_new \/ queuebuf_free
    <2>1. /\ UNCHANGED <<packet_queue, neighbor_list, neighbor_memb,
                         packet_memb, metadata_memb>>
          /\ queuebufs' + held' = queuebufs + held /\ queuebufs' >= 0
          /\ queuebufs' \in Int /\ held' \in Int
      BY <1>0, <1>4 DEF queuebuf_new, queuebuf_free, nbrVars, PoolsTyped,
                        PoolsInv, PoolsBalanced
    <2>2. Places' = Places
      BY <2>1 DEF Places
    <2> QED BY <1>0, <2>1, <2>2, CsmaAssumption
            DEF PoolsInv, PoolsBalanced, PoolsTyped
  <1>5. CASE UNCHANGED vars
    BY <1>1, <1>5 DEF vars, nbrVars
  <1> QED BY <1>2, <1>3, <1>4, <1>5, PoolsQueue DEF Next, Transmit

(* No path of csma_output_packet() or tx_done() leaks memory or frees it   *)
(* twice: what is missing from the pools are the blocks of the packets in  *)
(* the queues and of the neighbors that have any (PoolsBalanced).          *)
THEOREM PoolsConserved == Spec => []PoolsBalanced
  <1>1. Init => PoolsInv
    BY PoolsInitial
  <1>2. PoolsInv /\ CsmaInv /\ [Next]_vars => PoolsInv'
    BY PoolsStep
  <1>3. PoolsInv => PoolsBalanced
    BY DEF PoolsInv
  <1> QED BY <1>1, <1>2, <1>3, CsmaInit, CsmaStep, PTL DEF Spec

------------------------------------------------------------------------------
(* The sender over the link. *)
LEMMA SenderOrLink == [LinkNext]_allVars => [Next]_vars
  <1> SUFFICES ASSUME [LinkNext]_allVars PROVE [Next]_vars
    OBVIOUS
  <1>1. ASSUME NEW p \in Packet, csma_output_packet(p) PROVE Next
    BY <1>1 DEF csma_output_packet, Next
  <1>2. ASSUME NEW a \in Addr, NEW s \in Status, send_one_packet(a, s) PROVE Next
    BY <1>2 DEF send_one_packet, Next, Transmit
  <1>3. ASSUME NEW ack \in late, input_ack(ack) PROVE UNCHANGED vars
    BY <1>3 DEF input_ack
  <1>4. CASE input_packet
    BY <1>4 DEF input_packet
  <1>5. ASSUME NEW sender \in Others, input_other(sender) PROVE UNCHANGED vars
    BY <1>5 DEF input_other
  <1>6. CASE UNCHANGED allVars
    BY <1>6 DEF allVars
  <1> QED BY <1>1, <1>2, <1>3, <1>4, <1>5, <1>6 DEF LinkNext

LEMMA LinkUsesSender == LinkSpec => Spec
  <1>1. LinkInit => Init
    BY DEF LinkInit
  <1> QED BY <1>1, SenderOrLink, PTL DEF LinkSpec, Spec

(* Whatever is lost, late or acknowledged by mistake, the queues of the    *)
(* sender keep their timers, packets their share of attempts, and the      *)
(* pools their blocks.                                                     *)
THEOREM LinkQueues == LinkSpec => [](QueueAlive /\ RetryBudget /\ PoolsBalanced)
  BY LinkUsesSender, CsmaQueues, CsmaRetries, PoolsConserved, PTL

(* Over the lossy link too, each packet is reported once and in order. *)
THEOREM LinkIsMac == LinkSpec => ImplementsMac
  BY LinkUsesSender, CsmaIsMac, PTL

------------------------------------------------------------------------------
(* The packets that have a number, the number that the next one gets, and  *)
(* how many numbers ago one was given out: 0 is not used.                  *)
Numbered == {p \in Packet : outcome[p] # "new"}
Upcoming == IF seqno = 0 THEN 1 ELSE seqno
Ago(n) == IF n < Upcoming THEN Upcoming - n ELSE Upcoming - n + (Width - 1)

LinkTypes ==
    /\ seqno \in 0..(Width - 1)
    /\ number \in [Packet -> 0..(Width - 1)]
    /\ rx \in Seq(Packet) /\ delivered \in Seq(Packet)
    /\ received_seqnos \in [1..MaxSeqnos -> (Others \cup {Self, NoSender}) \X (0..(Width - 1))]

(* Fewer packets are sent than there are numbers, so that none is used twice. *)
NumbersSound ==
    /\ \A p \in Packet : outcome[p] = "new" <=> number[p] = 0
    /\ \A p \in Numbered : Ago(number[p]) <= Cardinality(Numbered)
    /\ \A p, q \in Numbered : number[p] = number[q] => p = q

Delivered == {delivered[i] : i \in DOMAIN delivered}

(* What the receiver has heard, remembers and has acknowledged was sent. *)
LinkSound ==
    /\ Received \subseteq Numbered
    /\ \A i \in 1..MaxSeqnos :
         received_seqnos[i][1] = Self =>
           \E p \in Delivered : number[p] = received_seqnos[i][2]
    /\ \A ack \in late : \E p \in Received : number[p] = ack

LinkInv == LinkTypes /\ NumbersSound /\ LinkSound /\ AckedArrived

LEMMA Widths ==
  /\ Width \in Nat /\ MaxSeqnos \in Nat \ {0}
  /\ \A S \in SUBSET Packet :
       IsFiniteSet(S) /\ Cardinality(S) \in Nat /\ Cardinality(S) < Width - 1
  <1>1. \A S \in SUBSET Packet :
          IsFiniteSet(S) /\ Cardinality(S) \in Nat /\ Cardinality(S) <= Cardinality(Packet)
    BY CsmaLinkAssumption, FS_Subset, FS_CardinalityType
  <1>2. IsFiniteSet({}) /\ Cardinality({}) = 0 /\ Cardinality(Packet) \in Nat
    BY FS_EmptySet, CsmaLinkAssumption, FS_CardinalityType
  <1>3. MaxSeqnos \in Nat \ {0}
    <2>1. Cardinality(Others) \in Nat
      BY CsmaLinkAssumption, FS_CardinalityType
    <2> QED BY <2>1, CsmaLinkAssumption
  <1> QED BY <1>1, <1>2, <1>3, CsmaLinkAssumption

LEMMA LinkInitial == LinkInit => LinkInv
  <1> SUFFICES ASSUME LinkInit PROVE LinkInv
    OBVIOUS
  <1>1. /\ seqno \in 0..(Width - 1) /\ number = [p \in Packet |-> 0]
        /\ rx = <<>> /\ delivered = <<>> /\ late = {}
        /\ received_seqnos = [i \in 1..MaxSeqnos |-> <<NoSender, 0>>]
        /\ outcome = [p \in Packet |-> "new"]
    BY CsmaLinkAssumption DEF LinkInit, Init
  <1>2. Numbered = {} /\ Received = {}
    BY <1>1 DEF Numbered, Received
  <1>3. LinkTypes
    BY <1>1, Widths DEF LinkTypes
  <1>4. NumbersSound
    BY <1>1, <1>2 DEF NumbersSound
  <1>5. LinkSound
    BY <1>1, <1>2, CsmaLinkAssumption DEF LinkSound
  <1>6. AckedArrived
    BY <1>1 DEF AckedArrived
  <1> QED BY <1>3, <1>4, <1>5, <1>6 DEF LinkInv

------------------------------------------------------------------------------
(* A packet is numbered. *)
LEMMA AgoSteps ==
  ASSUME LinkTypes, Width > 2, NEW u, u = Upcoming, seqno' = (u + 1) % Width
  PROVE  /\ u \in 1..(Width - 1) /\ seqno' \in 0..(Width - 1)
         /\ Ago(u) = Width - 1 /\ Ago(u)' = 1
         /\ \A n \in 1..(Width - 1) : Ago(n) < Width - 1 => Ago(n)' = Ago(n) + 1
  <1>1. u \in 1..(Width - 1) /\ Width \in Nat
    BY Widths DEF LinkTypes, Upcoming
  <1>2. CASE u = Width - 1
    <2>1. u + 1 = Width /\ Width % Width = 0
      BY <1>1, <1>2
    <2>2. seqno' = 0 /\ Upcoming' = 1
      BY <2>1 DEF Upcoming
    <2> QED BY <1>1, <1>2, <2>2 DEF Ago
  <1>3. CASE u # Width - 1
    <2>1. u + 1 \in 1..(Width - 1)
      BY <1>1, <1>3
    <2>2. seqno' = u + 1 /\ Upcoming' = u + 1
      BY <2>1, <1>1 DEF Upcoming
    <2> QED BY <1>1, <2>1, <2>2 DEF Ago
  <1> QED BY <1>2, <1>3

LEMMA NumberStep ==
  ASSUME LinkInv, CsmaInv, NEW p \in Packet, csma_output_packet(p)
  PROVE  LinkInv'
  <1>0. PICK u : u = Upcoming
    OBVIOUS
  <1>1. /\ outcome[p] = "new" /\ outcome \in [Packet -> Status \cup {"new", "queued"}]
        /\ \E s \in {"queued", "ERR"} : outcome' = [outcome EXCEPT ![p] = s]
    BY DEF csma_output_packet, output_queue, output_drop, CsmaInv, TypeOK
  <1>2. /\ number' = [number EXCEPT ![p] = u] /\ seqno' = (u + 1) % Width
        /\ UNCHANGED <<rx, late, overheard, received_seqnos, delivered>>
    BY <1>0 DEF csma_output_packet, Upcoming, LinkInv, LinkTypes
  <1>3. /\ Numbered' = Numbered \cup {p} /\ p \notin Numbered
        /\ Numbered \subseteq Packet
    BY <1>1 DEF Numbered
  <1>4. /\ Cardinality(Numbered') = Cardinality(Numbered) + 1
        /\ Cardinality(Numbered) \in Nat /\ Cardinality(Numbered) + 1 < Width - 1
    <2>1. IsFiniteSet(Numbered) /\ Cardinality(Numbered) \in Nat
      BY <1>3, Widths
    <2>2. Cardinality(Numbered') < Width - 1
      BY <1>3, Widths
    <2> QED BY <1>3, <2>1, <2>2, FS_AddElement
  <1>5. Width \in Nat /\ Width > 2
    BY <1>4, Widths
  <1>6. LinkTypes
    BY DEF LinkInv
  <1>7. /\ u \in 1..(Width - 1) /\ seqno' \in 0..(Width - 1)
        /\ Ago(u) = Width - 1 /\ Ago(u)' = 1
        /\ \A n \in 1..(Width - 1) : Ago(n) < Width - 1 => Ago(n)' = Ago(n) + 1
    BY <1>0, <1>2, <1>5, <1>6, AgoSteps
  <1>8. LinkTypes'
    BY <1>2, <1>5, <1>6, <1>7 DEF LinkTypes
  <1>9. /\ number'[p] = u /\ \A q \in Packet \ {p} : number'[q] = number[q]
        /\ \A q \in Numbered : number[q] \in 1..(Width - 1) /\ Ago(number[q]) < Width - 1
    <2>1. \A q \in Numbered : number[q] \in 1..(Width - 1)
      BY <1>3, <1>5, <1>6 DEF LinkInv, LinkTypes, NumbersSound, Numbered
    <2>2. \A q \in Numbered : Ago(number[q]) <= Cardinality(Numbered)
      BY DEF LinkInv, NumbersSound
    <2>3. \A n \in 1..(Width - 1) : Ago(n) \in Int
      BY <1>5, <1>6 DEF Ago, Upcoming, LinkTypes
    <2>4. \A q \in Numbered : Ago(number[q]) < Width - 1
      BY <1>4, <1>5, <2>1, <2>2, <2>3
    <2> QED BY <1>2, <1>6, <2>1, <2>4 DEF LinkTypes
  <1>10. NumbersSound'
    <2>1. \A q \in Packet : outcome'[q] = "new" <=> number'[q] = 0
      BY <1>1, <1>5, <1>7, <1>9 DEF LinkInv, NumbersSound
    <2>2. ASSUME NEW q \in Numbered' PROVE Ago(number[q])' <= Cardinality(Numbered')
      <3>1. CASE q = p
        BY <1>4, <1>7, <1>9, <3>1
      <3>2. CASE q # p
        <4>1. q \in Numbered /\ number'[q] = number[q]
          BY <1>3, <1>9, <2>2, <3>2
        <4>2. Ago(number[q]) <= Cardinality(Numbered)
          BY <4>1 DEF LinkInv, NumbersSound
        <4>3. PICK n : n = number[q]
          OBVIOUS
        <4>4. n \in 1..(Width - 1) /\ Ago(n) < Width - 1
          BY <1>9, <4>1, <4>3
        <4>5. Ago(n)' = Ago(n) + 1
          BY <1>7, <4>4
        <4>6. Ago(n) \in Int
          BY <1>5, <1>6, <4>4 DEF Ago, Upcoming, LinkTypes
        <4> QED BY <1>4, <4>1, <4>2, <4>3, <4>5, <4>6
      <3> QED BY <3>1, <3>2
    <2>3. \A q \in Numbered : number[q] # u
      BY <1>5, <1>7, <1>9
    <2>4. \A q, s \in Numbered' : number'[q] = number'[s] => q = s
      BY <1>3, <1>9, <2>3 DEF LinkInv, NumbersSound
    <2> QED BY <2>1, <2>2, <2>4 DEF NumbersSound
  <1>11. LinkSound' /\ AckedArrived'
    <2>1. Received' = Received /\ Delivered' = Delivered /\ Delivered \subseteq Received
      BY <1>2 DEF Received, Delivered
    <2>2. \A q \in Received : q \in Numbered /\ q # p /\ number'[q] = number[q]
      BY <1>3, <1>9 DEF LinkInv, LinkSound
    <2>3. LinkSound'
      BY <1>2, <1>3, <2>1, <2>2 DEF LinkInv, LinkSound
    <2>4. AckedArrived'
      BY <1>1, <1>2, <2>1 DEF LinkInv, AckedArrived
    <2> QED BY <2>3, <2>4
  <1> QED BY <1>8, <1>10, <1>11 DEF LinkInv

------------------------------------------------------------------------------
(* Steps that number no packet keep what was said of the numbers. *)
LEMMA SameNumbers ==
  ASSUME LinkInv, UNCHANGED <<seqno, number>>, Numbered' = Numbered,
         \A p \in Packet : outcome'[p] = "new" <=> outcome[p] = "new"
  PROVE  NumbersSound'
  BY DEF LinkInv, NumbersSound, Ago, Upcoming

(* The head of a queue, and what an attempt does to its outcome. *)
LEMMA HeadSent ==
  ASSUME CsmaInv, NEW a \in Addr, NEW s \in Status, transmit_from_queue(a, s)
  PROVE  LET p == Head(packet_queue[a]) IN
         /\ p \in Packet /\ outcome[p] = "queued" /\ Dest[p] = a
         /\ \/ outcome' = outcome
            \/ outcome' = [outcome EXCEPT ![p] = s]
  <1> DEFINE p == Head(packet_queue[a])
  <1>1. packet_queue[a] \in Seq(Packet) /\ packet_queue[a] # <<>>
    BY DEF transmit_from_queue, CsmaInv, TypeOK
  <1>2. p = packet_queue[a][1] /\ 1 \in DOMAIN packet_queue[a] /\ p \in Packet
    BY <1>1
  <1>3. outcome[p] = "queued" /\ Dest[p] = a
    BY <1>2 DEF CsmaInv, QueuesSound
  <1>4. outcome' = outcome \/ outcome' = [outcome EXCEPT ![p] = s]
    BY DEF transmit_from_queue, packet_sent, tx_ok, tx_err, noack, collision,
           retry, tx_done, rexmit
  <1> QED BY <1>2, <1>3, <1>4

(* A frame that arrives. *)
LEMMA Arrives ==
  ASSUME LinkTypes, NEW p \in Packet, rx' = Append(rx, p), delivered' = delivered
  PROVE  rx' \in Seq(Packet) /\ Received' = Received \cup {p} /\ Delivered' = Delivered
  <1>1. rx' \in Seq(Packet) /\ Len(rx') = Len(rx) + 1 /\ DOMAIN rx' = 1..(Len(rx) + 1)
    BY DEF LinkTypes
  <1>2. {rx'[i] : i \in DOMAIN rx'} = {rx[i] : i \in DOMAIN rx} \cup {p}
    <2>1. \A i \in 1..Len(rx) : rx'[i] = rx[i]
      BY DEF LinkTypes
    <2>2. rx'[Len(rx) + 1] = p /\ DOMAIN rx = 1..Len(rx) /\ Len(rx) \in Nat
      BY DEF LinkTypes
    <2> QED BY <1>1, <2>1, <2>2
  <1> QED BY <1>1, <1>2 DEF Received, Delivered

LEMMA SendStep ==
  ASSUME LinkInv, CsmaInv, NEW a \in Addr, NEW s \in Status, send_one_packet(a, s)
  PROVE  LinkInv'
  <1>0. PICK p : p = Head(packet_queue[a])
    OBVIOUS
  <1>1. /\ p \in Packet /\ outcome[p] = "queued" /\ Dest[p] = a
        /\ outcome' = outcome \/ outcome' = [outcome EXCEPT ![p] = s]
    BY <1>0, HeadSent DEF send_one_packet
  <1>2. outcome \in [Packet -> Status \cup {"new", "queued"}] /\ LinkTypes
    BY DEF CsmaInv, TypeOK, LinkInv
  <1>3. UNCHANGED <<seqno, number, received_seqnos, delivered>>
    BY DEF send_one_packet
  <1>4. /\ rx' = rx \/ rx' = Append(rx, p)
        /\ late' \subseteq late \cup {number[p]}
        /\ number[p] \in late' => number[p] \in late \/ rx' = Append(rx, p)
    BY <1>0 DEF send_one_packet, Radiate
  <1>5. /\ overheard \subseteq overheard'
        /\ s = "OK" /\ a = Receiver =>
             \/ rx' = Append(rx, p) \/ number[p] \in late
             \/ p \in Received' \cup overheard'
    BY <1>0, CsmaLinkAssumption DEF send_one_packet, Answer
  <1>6. /\ rx' \in Seq(Packet) /\ Delivered' = Delivered
        /\ Received \subseteq Received' /\ Received' \subseteq Received \cup {p}
        /\ rx' = Append(rx, p) => p \in Received'
    <2>1. CASE rx' = rx
      BY <1>2, <1>3, <2>1 DEF Received, Delivered, LinkTypes
    <2>2. CASE rx' = Append(rx, p)
      BY <1>1, <1>2, <1>3, <2>2, Arrives
    <2>3. ASSUME rx' = rx PROVE ~ (rx' = Append(rx, p))
      <3>1. Len(Append(rx, p)) = Len(rx) + 1 /\ Len(rx) \in Nat
        BY <1>2 DEF LinkTypes
      <3> QED BY <2>3, <3>1
    <2> QED BY <1>4, <2>1, <2>2, <2>3
  <1>7. /\ \A q \in Packet : outcome'[q] = "new" <=> outcome[q] = "new"
        /\ Numbered' = Numbered /\ p \in Numbered
    BY <1>1, <1>2 DEF Numbered, Status
  <1>8. LinkTypes' /\ NumbersSound'
    BY <1>2, <1>3, <1>6, <1>7, SameNumbers DEF LinkTypes
  <1>9. LinkSound'
    <2>1. Received' \subseteq Numbered'
      BY <1>6, <1>7 DEF LinkInv, LinkSound
    <2>2. ASSUME NEW ack \in late' PROVE \E q \in Received' : number'[q] = ack
      BY <1>3, <1>4, <1>6, <2>2 DEF LinkInv, LinkSound
    <2>3. \A i \in 1..MaxSeqnos :
            received_seqnos'[i][1] = Self =>
              \E q \in Delivered' : number'[q] = received_seqnos'[i][2]
      BY <1>3, <1>6 DEF LinkInv, LinkSound
    <2> QED BY <2>1, <2>2, <2>3 DEF LinkSound
  <1>10. AckedArrived'
    <2>1. number[p] \in late => p \in Received
      <3> SUFFICES ASSUME number[p] \in late PROVE p \in Received
        OBVIOUS
      <3>1. PICK q \in Received : number[q] = number[p]
        BY DEF LinkInv, LinkSound
      <3>2. q \in Numbered
        BY <3>1 DEF LinkInv, LinkSound
      <3> QED BY <1>7, <3>1, <3>2 DEF LinkInv, NumbersSound
    <2>2. s = "OK" /\ a = Receiver => p \in Received' \cup overheard'
      BY <1>5, <1>6, <2>1
    <2>3. \A q \in Packet : outcome[q] = "OK" /\ Dest[q] = Receiver =>
                              q \in Received' \cup overheard'
      BY <1>5, <1>6 DEF LinkInv, AckedArrived
    <2> QED BY <1>1, <1>2, <2>2, <2>3 DEF AckedArrived
  <1> QED BY <1>8, <1>9, <1>10 DEF LinkInv

------------------------------------------------------------------------------
(* The table holds the new entry and entries that it held before. *)
LEMMA Registers ==
  ASSUME LinkTypes, NEW sender \in Others \cup {Self}, NEW n \in 0..(Width - 1),
         mac_sequence_register_seqno(sender, n)
  PROVE  /\ received_seqnos' \in [1..MaxSeqnos -> (Others \cup {Self, NoSender}) \X (0..(Width - 1))]
         /\ \A j \in 1..MaxSeqnos :
              \/ received_seqnos'[j] = <<sender, n>>
              \/ \E i \in 1..MaxSeqnos : received_seqnos'[j] = received_seqnos[i]
  <1>0. PICK i : received_seqnos' =
         [j \in 1..MaxSeqnos |-> IF j = 1 THEN <<sender, n>>
                                 ELSE received_seqnos[IF j <= i THEN j - 1 ELSE j]]
    BY DEF mac_sequence_register_seqno
  <1>1. ASSUME NEW j \in 1..MaxSeqnos, j # 1
        PROVE  (IF j <= i THEN j - 1 ELSE j) \in 1..MaxSeqnos
    BY <1>1, Widths
  <1>2. \A j \in 1..MaxSeqnos :
              \/ received_seqnos'[j] = <<sender, n>>
              \/ \E k \in 1..MaxSeqnos : received_seqnos'[j] = received_seqnos[k]
    BY <1>0, <1>1
  <1>3. \A j \in 1..MaxSeqnos :
          received_seqnos'[j] \in (Others \cup {Self, NoSender}) \X (0..(Width - 1))
    <2>1. <<sender, n>> \in (Others \cup {Self, NoSender}) \X (0..(Width - 1))
      OBVIOUS
    <2>2. \A k \in 1..MaxSeqnos :
            received_seqnos[k] \in (Others \cup {Self, NoSender}) \X (0..(Width - 1))
      BY DEF LinkTypes
    <2> QED BY <1>2, <2>1, <2>2
  <1> QED BY <1>0, <1>2, <1>3

LEMMA InputStep ==
  ASSUME LinkInv, input_packet
  PROVE  LinkInv'
  <1>0. PICK p : p = Head(rx)
    OBVIOUS
  <1>1. /\ LinkTypes /\ rx # <<>> /\ rx' = Tail(rx)
        /\ UNCHANGED <<outcome, seqno, number, late, overheard>>
    BY DEF input_packet, vars, LinkInv
  <1>2. /\ p \in Packet /\ rx' \in Seq(Packet)
        /\ {rx'[i] : i \in DOMAIN rx'} \cup {p} = {rx[i] : i \in DOMAIN rx}
    <2>1. /\ p = rx[1] /\ Len(rx) \in Nat \ {0} /\ DOMAIN rx = 1..Len(rx)
          /\ rx' \in Seq(Packet) /\ Len(rx') = Len(rx) - 1
          /\ DOMAIN rx' = 1..(Len(rx) - 1) /\ p \in Packet
      BY <1>0, <1>1 DEF LinkTypes
    <2>2. \A i \in 1..(Len(rx) - 1) : rx'[i] = rx[i + 1]
      BY <1>1 DEF LinkTypes
    <2>3. \A i \in 2..Len(rx) : i - 1 \in 1..(Len(rx) - 1) /\ rx[i] = rx'[i - 1]
      BY <2>1, <2>2
    <2>4. \A i \in 1..(Len(rx) - 1) : i + 1 \in 1..Len(rx)
      BY <2>1
    <2>5. ASSUME NEW i \in DOMAIN rx
          PROVE  rx[i] \in {rx'[j] : j \in DOMAIN rx'} \cup {p}
      <3>1. CASE i = 1
        BY <2>1, <3>1
      <3>2. CASE i # 1
        <4>1. i \in 2..Len(rx)
          BY <2>1, <3>2
        <4> QED BY <2>1, <2>3, <4>1
      <3> QED BY <3>1, <3>2
    <2>6. ASSUME NEW i \in DOMAIN rx'
          PROVE  rx'[i] \in {rx[j] : j \in DOMAIN rx}
      BY <2>1, <2>2, <2>4
    <2>7. p \in {rx[j] : j \in DOMAIN rx}
      BY <2>1
    <2> QED BY <2>1, <2>5, <2>6, <2>7
  <1>3. p \in Received /\ p \in Numbered /\ number[p] \in 0..(Width - 1)
    BY <1>1, <1>2 DEF Received, LinkInv, LinkSound, LinkTypes
  <1>4. NumbersSound'
    BY <1>1, SameNumbers DEF Numbered
  <1>5. CASE mac_sequence_is_duplicate(Self, number[p])
    <2>1. UNCHANGED <<received_seqnos, delivered>>
      BY <1>0, <1>5 DEF input_packet
    <2>2. PICK q \in Delivered : number[q] = number[p]
      BY <1>5 DEF mac_sequence_is_duplicate, LinkInv, LinkSound
    <2>3. q \in Numbered
      BY <2>2 DEF Delivered, Received, LinkInv, LinkSound
    <2>4. p \in Delivered
      BY <1>3, <2>2, <2>3 DEF LinkInv, NumbersSound
    <2>5. Received' = Received /\ Delivered' = Delivered
      BY <1>2, <2>1, <2>4 DEF Received, Delivered
    <2>6. LinkTypes'
      BY <1>1, <1>2, <2>1 DEF LinkTypes
    <2> QED BY <1>1, <1>4, <2>1, <2>5, <2>6
            DEF LinkInv, LinkSound, AckedArrived, Numbered
  <1>6. CASE ~ mac_sequence_is_duplicate(Self, number[p])
    <2>1. /\ mac_sequence_register_seqno(Self, number[p])
          /\ delivered' = Append(delivered, p)
      BY <1>0, <1>6 DEF input_packet
    <2>2. delivered' \in Seq(Packet) /\ Delivered' = Delivered \cup {p}
      <3>1. /\ delivered' \in Seq(Packet) /\ Len(delivered) \in Nat
            /\ DOMAIN delivered' = 1..(Len(delivered) + 1)
            /\ DOMAIN delivered = 1..Len(delivered)
        BY <1>1, <1>2, <2>1 DEF LinkTypes
      <3>2. \A i \in 1..Len(delivered) : delivered'[i] = delivered[i]
        BY <1>1, <2>1 DEF LinkTypes
      <3>3. delivered'[Len(delivered) + 1] = p
        BY <1>1, <2>1 DEF LinkTypes
      <3> QED BY <3>1, <3>2, <3>3 DEF Delivered
    <2>3. Received' = Received
      BY <1>2, <2>2 DEF Received, Delivered
    <2>4. /\ received_seqnos' \in [1..MaxSeqnos -> (Others \cup {Self, NoSender}) \X (0..(Width - 1))]
          /\ \A j \in 1..MaxSeqnos :
               \/ received_seqnos'[j] = <<Self, number[p]>>
               \/ \E i \in 1..MaxSeqnos : received_seqnos'[j] = received_seqnos[i]
      BY <1>1, <1>3, <2>1, Registers
    <2>5. LinkTypes'
      BY <1>1, <1>2, <2>2, <2>4 DEF LinkTypes
    <2>6. \A j \in 1..MaxSeqnos :
            received_seqnos'[j][1] = Self =>
              \E q \in Delivered' : number'[q] = received_seqnos'[j][2]
      BY <1>1, <2>2, <2>4 DEF LinkInv, LinkSound
    <2>7. LinkSound' /\ AckedArrived'
      BY <1>1, <2>3, <2>6 DEF LinkInv, LinkSound, AckedArrived, Numbered
    <2> QED BY <1>4, <2>5, <2>7 DEF LinkInv
  <1> QED BY <1>5, <1>6

LEMMA InputOtherStep ==
  ASSUME LinkInv, NEW sender \in Others, input_other(sender)
  PROVE  LinkInv'
  <1>1. /\ LinkTypes /\ mac_sequence_register_seqno(sender, 1)
        /\ UNCHANGED <<outcome, seqno, number, rx, late, overheard, delivered>>
    BY DEF input_other, vars, LinkInv
  <1>2. 1 \in 0..(Width - 1) /\ sender # Self
    <2>1. Cardinality({}) \in Nat /\ Cardinality({}) < Width - 1 /\ Width \in Nat
      BY Widths
    <2> QED BY <2>1, CsmaLinkAssumption
  <1>3. /\ received_seqnos' \in [1..MaxSeqnos -> (Others \cup {Self, NoSender}) \X (0..(Width - 1))]
        /\ \A j \in 1..MaxSeqnos :
             \/ received_seqnos'[j] = <<sender, 1>>
             \/ \E i \in 1..MaxSeqnos : received_seqnos'[j] = received_seqnos[i]
    BY <1>1, <1>2, Registers
  <1>4. LinkTypes' /\ NumbersSound'
    BY <1>1, <1>3, SameNumbers DEF LinkTypes, Numbered
  <1>5. Received' = Received /\ Delivered' = Delivered
    BY <1>1 DEF Received, Delivered
  <1>6. \A j \in 1..MaxSeqnos :
          received_seqnos'[j][1] = Self =>
            \E q \in Delivered' : number'[q] = received_seqnos'[j][2]
    BY <1>1, <1>2, <1>3, <1>5 DEF LinkInv, LinkSound
  <1>7. LinkSound' /\ AckedArrived'
    BY <1>1, <1>5, <1>6 DEF LinkInv, LinkSound, AckedArrived, Numbered
  <1> QED BY <1>4, <1>7 DEF LinkInv

LEMMA LinkStep == LinkInv /\ CsmaInv /\ [LinkNext]_allVars => LinkInv'
  <1> SUFFICES ASSUME LinkInv, CsmaInv, [LinkNext]_allVars PROVE LinkInv'
    OBVIOUS
  <1>1. ASSUME UNCHANGED <<outcome, seqno, number, rx, overheard, received_seqnos,
                           delivered>>,
               late' \subseteq late
        PROVE  LinkInv'
    <2>1. LinkTypes' /\ NumbersSound'
      BY <1>1, SameNumbers DEF LinkInv, LinkTypes, Numbered
    <2>2. Received' = Received /\ Delivered' = Delivered /\ Numbered' = Numbered
      BY <1>1 DEF Received, Delivered, Numbered
    <2> QED BY <1>1, <2>1, <2>2 DEF LinkInv, LinkSound, AckedArrived
  <1>2. ASSUME NEW ack \in late, input_ack(ack) PROVE LinkInv'
    BY <1>1, <1>2 DEF input_ack, vars
  <1>3. CASE UNCHANGED allVars
    BY <1>1, <1>3 DEF allVars, vars, linkVars
  <1>4. ASSUME NEW p \in Packet, csma_output_packet(p) PROVE LinkInv'
    BY <1>4, NumberStep
  <1>5. ASSUME NEW a \in Addr, NEW s \in Status, send_one_packet(a, s) PROVE LinkInv'
    BY <1>5, SendStep
  <1>6. CASE input_packet
    BY <1>6, InputStep
  <1>7. ASSUME NEW sender \in Others, input_other(sender) PROVE LinkInv'
    BY <1>7, InputOtherStep
  <1> QED BY <1>2, <1>3, <1>4, <1>5, <1>6, <1>7 DEF LinkNext

(* send_one_packet() compares nothing but the sequence number.  That is    *)
(* enough for the acknowledgements of the sender's own frames, late ones   *)
(* read in the wait of another attempt included, as long as no number is   *)
(* used twice: a packet that csma.c reports as acknowledged has been       *)
(* received, or an acknowledgement that carries its number, of somebody    *)
(* else's frame, was overheard while it was sent.                          *)
THEOREM AcknowledgedArrives == LinkSpec => []AckedArrived
  <1>1. LinkInit => Init
    BY DEF LinkInit
  <1>2. LinkInv => AckedArrived
    BY DEF LinkInv
  <1> QED
    BY <1>1, <1>2, LinkInitial, LinkStep, SenderOrLink, CsmaInit, CsmaStep, PTL
       DEF LinkSpec

------------------------------------------------------------------------------
(* The packets that the receiver has heard, in the order in which they     *)
(* were sent: those delivered, and those still in its radio.               *)
Heard == [i \in 1..(Len(delivered) + Len(rx)) |->
            IF i <= Len(delivered) THEN delivered[i] ELSE rx[i - Len(delivered)]]

(* A queue finishes a packet before it sends the next one: between two     *)
(* frames of a packet there is none of another packet of its queue, *)
Grouped(h) ==
    \A i, k, j \in DOMAIN h :
      i < k /\ k < j /\ h[i] = h[j] /\ Dest[h[k]] = Dest[h[i]] => h[k] = h[i]

(* nor is there after a frame of the packet p that a's queue is sending. *)
Latest(h, p, a) ==
    \A i, k \in DOMAIN h : i < k /\ h[i] = p /\ Dest[h[k]] = a => h[k] = p

OrderSound ==
    /\ Grouped(Heard)
    /\ \A a \in Addr : packet_queue[a] # <<>> =>
                         Latest(Heard, Head(packet_queue[a]), a)
    /\ \A i \in DOMAIN Heard : attempts[Heard[i]] > 0

(* The table has one entry for a sender, and unused ones at its end. *)
TableSound(t) ==
    \A i, j \in 1..MaxSeqnos :
      /\ i # j /\ t[i][1] = t[j][1] => t[i][1] = NoSender
      /\ i < j /\ t[i][1] = NoSender => t[j][1] = NoSender

Has(t, e) == \E i \in 1..MaxSeqnos : t[i] = e

(* The last packet delivered is remembered, and differs from the one       *)
(* before it.                                                              *)
MemorySound ==
    /\ TableSound(received_seqnos)
    /\ delivered # <<>> =>
         Has(received_seqnos, <<Self, number[delivered[Len(delivered)]]>>)
    /\ \A i \in 1..(Len(delivered) - 1) : delivered[i] # delivered[i + 1]

RepeatsInv == OrderSound /\ MemorySound

LEMMA HeardFacts ==
  ASSUME LinkTypes
  PROVE  /\ Len(delivered) \in Nat /\ Len(rx) \in Nat
         /\ DOMAIN Heard = 1..(Len(delivered) + Len(rx))
         /\ \A i \in 1..Len(delivered) : Heard[i] = delivered[i]
         /\ \A i \in 1..Len(rx) : Heard[Len(delivered) + i] = rx[i]
         /\ \A i \in DOMAIN Heard : Heard[i] \in Packet
  <1>1. Len(delivered) \in Nat /\ Len(rx) \in Nat
    BY DEF LinkTypes
  <1>2. DOMAIN Heard = 1..(Len(delivered) + Len(rx))
    BY DEF Heard
  <1>3. \A i \in 1..Len(delivered) : Heard[i] = delivered[i]
    BY <1>1 DEF Heard
  <1>4. \A i \in 1..Len(rx) : Heard[Len(delivered) + i] = rx[i]
    <2> SUFFICES ASSUME NEW i \in 1..Len(rx)
                 PROVE  Heard[Len(delivered) + i] = rx[i]
      OBVIOUS
    <2>1. /\ Len(delivered) + i \in 1..(Len(delivered) + Len(rx))
          /\ ~ (Len(delivered) + i <= Len(delivered))
          /\ Len(delivered) + i - Len(delivered) = i
      BY <1>1
    <2> QED BY <2>1 DEF Heard
  <1>5. ASSUME NEW i \in DOMAIN Heard PROVE Heard[i] \in Packet
    <2>1. CASE i <= Len(delivered)
      <3>1. i \in 1..Len(delivered)
        BY <1>1, <1>2, <2>1
      <3> QED BY <1>3, <3>1 DEF LinkTypes
    <2>2. CASE ~ (i <= Len(delivered))
      <3>1. /\ i - Len(delivered) \in 1..Len(rx)
            /\ Len(delivered) + (i - Len(delivered)) = i
        BY <1>1, <1>2, <2>2
      <3>2. Heard[i] = rx[i - Len(delivered)]
        BY <1>4, <3>1
      <3> QED BY <3>1, <3>2 DEF LinkTypes
    <2> QED BY <2>1, <2>2
  <1> QED BY <1>1, <1>2, <1>3, <1>4, <1>5

(* A frame of p is added at the end, *)
LEMMA HearMore ==
  ASSUME NEW n \in Nat, NEW h, NEW g, NEW p,
         DOMAIN h = 1..n, DOMAIN g = 1..(n + 1),
         \A i \in 1..n : g[i] = h[i], g[n + 1] = p,
         Grouped(h), Latest(h, p, Dest[p])
  PROVE  /\ Grouped(g) /\ Latest(g, p, Dest[p])
         /\ \A q, b : b # Dest[p] /\ Latest(h, q, b) => Latest(g, q, b)
  <1>1. ASSUME NEW i \in DOMAIN g, NEW k \in DOMAIN g, NEW j \in DOMAIN g,
               i < k, k < j, g[i] = g[j], Dest[g[k]] = Dest[g[i]]
        PROVE  g[k] = g[i]
    <2>1. i \in 1..n /\ k \in 1..n /\ g[i] = h[i] /\ g[k] = h[k]
      BY <1>1
    <2>2. CASE j = n + 1
      BY <1>1, <2>1, <2>2 DEF Latest
    <2>3. CASE j # n + 1
      <3>1. j \in 1..n /\ g[j] = h[j]
        BY <1>1, <2>3
      <3> QED BY <1>1, <2>1, <3>1 DEF Grouped
    <2> QED BY <2>2, <2>3
  <1>2. ASSUME NEW q, NEW b, Latest(h, q, b), b = Dest[p] => q = p
        PROVE  Latest(g, q, b)
    <2> SUFFICES ASSUME NEW i \in DOMAIN g, NEW k \in DOMAIN g,
                        i < k, g[i] = q, Dest[g[k]] = b
                 PROVE  g[k] = q
      BY DEF Latest
    <2>1. i \in 1..n /\ g[i] = h[i]
      OBVIOUS
    <2>2. CASE k = n + 1
      BY <1>2, <2>2
    <2>3. CASE k # n + 1
      <3>1. k \in 1..n /\ g[k] = h[k]
        BY <2>3
      <3> QED BY <1>2, <2>1, <3>1 DEF Latest
    <2> QED BY <2>2, <2>3
  <1> QED BY <1>1, <1>2 DEF Grouped

(* or the frame at place m is dropped. *)
LEMMA HearLess ==
  ASSUME NEW n \in Nat, NEW h, NEW g, NEW m \in 1..n,
         DOMAIN h = 1..n, DOMAIN g = 1..(n - 1),
         \A i \in 1..(n - 1) : i < m => g[i] = h[i],
         \A i \in 1..(n - 1) : ~ (i < m) => g[i] = h[i + 1]
  PROVE  /\ Grouped(h) => Grouped(g)
         /\ \A q, b : Latest(h, q, b) => Latest(g, q, b)
         /\ \A i \in DOMAIN g : \E j \in DOMAIN h : g[i] = h[j]
  <1> DEFINE Old(i) == IF i < m THEN i ELSE i + 1
  <1>1. \A i \in DOMAIN g : Old(i) \in DOMAIN h /\ g[i] = h[Old(i)]
    OBVIOUS
  <1>2. \A i, j \in DOMAIN g : i < j => Old(i) < Old(j)
    OBVIOUS
  <1> HIDE DEF Old
  <1>3. Grouped(h) => Grouped(g)
    BY <1>1, <1>2 DEF Grouped
  <1>4. \A q, b : Latest(h, q, b) => Latest(g, q, b)
    BY <1>1, <1>2 DEF Latest
  <1> QED BY <1>1, <1>3, <1>4

(* How the head of a queue changes: a new one has not been tried. *)
LEMMA HeadQueued ==
  ASSUME CsmaInv, NEW p \in Packet, output_queue(p) \/ output_drop(p),
         NEW b \in Addr, packet_queue'[b] # <<>>
  PROVE  \/ /\ packet_queue[b] # <<>>
            /\ Head(packet_queue'[b]) = Head(packet_queue[b])
         \/ attempts'[Head(packet_queue'[b])] = 0
  <1>1. /\ outcome[p] = "new" /\ attempts' = attempts /\ attempts[p] = 0
        /\ \/ packet_queue' = packet_queue
           \/ packet_queue' = [packet_queue EXCEPT ![Dest[p]] = Append(@, p)]
    BY DEF output_queue, output_drop, CsmaInv, NewUntried
  <1>2. packet_queue \in [Addr -> Seq(Packet)] /\ Dest[p] \in Addr
    BY CsmaAssumption DEF CsmaInv, TypeOK
  <1>3. CASE packet_queue'[b] = packet_queue[b]
    BY <1>3
  <1>4. CASE packet_queue'[b] = Append(packet_queue[b], p)
    <2>1. PICK q : q = packet_queue[b]
      OBVIOUS
    <2>2. q \in Seq(Packet)
      BY <1>2, <2>1
    <2>3. CASE q = <<>>
      <3>1. Head(Append(q, p)) = p
        BY <2>2, <2>3
      <3> QED BY <1>1, <1>4, <2>1, <3>1
    <2>4. CASE q # <<>>
      <3>1. Head(Append(q, p)) = Head(q)
        BY <2>2, <2>4
      <3> QED BY <1>4, <2>1, <2>4, <3>1
    <2> QED BY <2>3, <2>4
  <1> QED BY <1>1, <1>2, <1>3, <1>4

LEMMA HeadTransmitted ==
  ASSUME CsmaInv, NEW a \in Addr, NEW s \in Status, transmit_from_queue(a, s),
         NEW b \in Addr, packet_queue'[b] # <<>>
  PROVE  \/ /\ packet_queue[b] # <<>>
            /\ Head(packet_queue'[b]) = Head(packet_queue[b])
         \/ attempts'[Head(packet_queue'[b])] = 0
  <1>1. /\ attempts' = [attempts EXCEPT ![Head(packet_queue[a])] = @ + 1]
        /\ packet_queue[a] # <<>>
        /\ \/ packet_queue' = packet_queue
           \/ packet_queue' = [packet_queue EXCEPT ![a] = Tail(packet_queue[a])]
    BY DEF transmit_from_queue, packet_sent, tx_ok, tx_err, noack, collision,
           retry, tx_done, rexmit
  <1>2. packet_queue \in [Addr -> Seq(Packet)] /\ attempts \in [Packet -> Nat]
    BY DEF CsmaInv, TypeOK
  <1>3. CASE packet_queue'[b] = packet_queue[b]
    BY <1>3
  <1>4. CASE b = a /\ packet_queue'[b] = Tail(packet_queue[a])
    <2>1. PICK q : q = packet_queue[a]
      OBVIOUS
    <2>2. q \in Seq(Packet) /\ q # <<>> /\ Tail(q) # <<>>
      BY <1>1, <1>2, <1>4, <2>1
    <2>3. /\ 1 \in DOMAIN q /\ 2 \in DOMAIN q /\ Head(q) = q[1]
          /\ Head(Tail(q)) = q[2] /\ q[2] \in Packet
      BY <2>2
    <2>4. attempts[q[2]] = 0 /\ q[1] # q[2]
      BY <2>1, <2>3 DEF CsmaInv, CountersFresh, QueuesSound
    <2>5. attempts'[q[2]] = attempts[q[2]]
      BY <1>1, <1>2, <2>1, <2>3, <2>4
    <2> QED BY <1>4, <2>1, <2>3, <2>4, <2>5
  <1> QED BY <1>1, <1>2, <1>3, <1>4

(* What a queue is sending is latest among what was heard, when that was   *)
(* so before and its head is new only if it was not tried.                 *)
LEMMA HeadsLatest ==
  ASSUME \A i \in DOMAIN Heard' : attempts'[Heard'[i]] > 0,
         \A b \in Addr : packet_queue[b] # <<>> =>
           Latest(Heard', Head(packet_queue[b]), b),
         \A b \in Addr : packet_queue'[b] # <<>> =>
           \/ /\ packet_queue[b] # <<>>
              /\ Head(packet_queue'[b]) = Head(packet_queue[b])
           \/ attempts'[Head(packet_queue'[b])] = 0
  PROVE  \A b \in Addr : packet_queue'[b] # <<>> =>
           Latest(Heard', Head(packet_queue'[b]), b)
  <1> SUFFICES ASSUME NEW b \in Addr, packet_queue'[b] # <<>>
               PROVE  Latest(Heard', Head(packet_queue'[b]), b)
    OBVIOUS
  <1>1. CASE attempts'[Head(packet_queue'[b])] = 0
    <2>1. \A i \in DOMAIN Heard' : Heard'[i] # Head(packet_queue'[b])
      BY <1>1
    <2> QED BY <2>1 DEF Latest
  <1>2. CASE /\ packet_queue[b] # <<>>
             /\ Head(packet_queue'[b]) = Head(packet_queue[b])
    BY <1>2
  <1> QED BY <1>1, <1>2

------------------------------------------------------------------------------
(* mac_sequence_register_seqno() keeps the entry of every other sender:    *)
(* there are more entries than other senders, so that a new one finds the  *)
(* last entry unused, or used by itself.                                   *)
LEMMA EntryFree ==
  ASSUME NEW t \in [1..MaxSeqnos -> (Others \cup {Self, NoSender}) \X (0..(Width - 1))],
         TableSound(t), NEW sender \in Others \cup {Self},
         \A j \in 1..MaxSeqnos : t[j][1] # sender
  PROVE  t[MaxSeqnos][1] = NoSender
  <1> SUFFICES ASSUME t[MaxSeqnos][1] # NoSender PROVE FALSE
    OBVIOUS
  <1> DEFINE S == 1..MaxSeqnos
             T == (Others \cup {Self}) \ {sender}
             f == [i \in S |-> t[i][1]]
  <1>1. MaxSeqnos \in Nat \ {0} /\ MaxSeqnos \in S
    BY Widths
  <1>2. \A i \in S : t[i][1] # NoSender
    BY <1>1 DEF TableSound
  <1>3. \A i \in S : t[i][1] \in Others \cup {Self, NoSender}
    OBVIOUS
  <1>4. f \in [S -> T]
    BY <1>2, <1>3
  <1>5. \A i, j \in S : t[i][1] = t[j][1] => i = j
    BY <1>2 DEF TableSound
  <1>6. \A i, j \in S : f[i] = f[j] => i = j
    BY <1>5
  <1>7. f \in Injection(S, T)
    BY <1>4, <1>6 DEF Injection, IsInjective
  <1>8. /\ IsFiniteSet(Others) /\ Cardinality(Others) \in Nat
        /\ Cardinality(Others) < MaxSeqnos /\ Self \notin Others
    BY CsmaLinkAssumption, FS_CardinalityType
  <1>9. /\ IsFiniteSet(Others \cup {Self})
        /\ Cardinality(Others \cup {Self}) = Cardinality(Others) + 1
    BY <1>8, FS_AddElement
  <1>10. IsFiniteSet(T) /\ Cardinality(T) = Cardinality(Others)
    <2>1. sender \in Others \cup {Self}
      OBVIOUS
    <2>2. IsFiniteSet(T) /\ Cardinality(T) = Cardinality(Others \cup {Self}) - 1
      BY <1>9, <2>1, FS_RemoveElement
    <2> QED BY <1>8, <1>9, <2>2
  <1> HIDE DEF f, T
  <1>11. Cardinality(S) <= Cardinality(T)
    BY <1>7, <1>10, FS_Injection DEF ExistsInjection
  <1>12. Cardinality(S) = MaxSeqnos
    BY <1>1, FS_Interval
  <1> QED BY <1>1, <1>8, <1>10, <1>11, <1>12

LEMMA Remembers ==
  ASSUME LinkTypes, TableSound(received_seqnos),
         NEW sender \in Others \cup {Self}, NEW n \in 0..(Width - 1),
         mac_sequence_register_seqno(sender, n)
  PROVE  /\ TableSound(received_seqnos')
         /\ Has(received_seqnos', <<sender, n>>)
         /\ \A x : sender # Self /\ Has(received_seqnos, <<Self, x>>) =>
                     Has(received_seqnos', <<Self, x>>)
  <1>0. PICK t, u : t = received_seqnos /\ u = received_seqnos'
    OBVIOUS
  <1> DEFINE own == {j \in 1..MaxSeqnos : t[j][1] = sender}
  <1>1. PICK i : /\ i = IF own = {} THEN MaxSeqnos ELSE CHOOSE j \in own : TRUE
                 /\ u = [j \in 1..MaxSeqnos |-> IF j = 1 THEN <<sender, n>>
                                    ELSE t[IF j <= i THEN j - 1 ELSE j]]
    BY <1>0 DEF mac_sequence_register_seqno
  <1>2. /\ t \in [1..MaxSeqnos -> (Others \cup {Self, NoSender}) \X (0..(Width - 1))]
        /\ TableSound(t) /\ MaxSeqnos \in Nat \ {0} /\ sender # NoSender
        /\ Self # NoSender
    BY <1>0, Widths, CsmaLinkAssumption DEF LinkTypes
  <1>3. /\ i \in 1..MaxSeqnos /\ t[i][1] \in {sender, NoSender}
        /\ \A j \in 1..MaxSeqnos : t[j][1] = sender => j = i
    <2>1. CASE own = {}
      <3>1. \A j \in 1..MaxSeqnos : t[j][1] # sender
        BY <2>1
      <3>2. i = MaxSeqnos
        BY <1>1, <2>1
      <3>3. t[MaxSeqnos][1] = NoSender
        BY <1>2, <3>1, EntryFree
      <3>4. i \in 1..MaxSeqnos
        BY <1>2, <3>2
      <3> QED BY <3>1, <3>2, <3>3, <3>4
    <2>2. CASE own # {}
      <3>1. i \in own
        BY <1>1, <2>2
      <3> QED BY <1>2, <3>1 DEF TableSound
    <2> QED BY <2>1, <2>2
  <1> HIDE DEF own
  <1>4. /\ u[1] = <<sender, n>> /\ 1 \in 1..MaxSeqnos /\ u[1][1] = sender
        /\ \A j \in 1..MaxSeqnos : j # 1 /\ j <= i => j - 1 \in 1..MaxSeqnos /\ u[j] = t[j - 1]
        /\ \A j \in 1..MaxSeqnos : j # 1 /\ j > i => u[j] = t[j]
    <2>1. 1 \in 1..MaxSeqnos
      BY <1>2
    <2>2. u[1] = <<sender, n>>
      BY <1>1, <2>1
    <2>3. \A j \in 1..MaxSeqnos : j # 1 /\ j <= i => j - 1 \in 1..MaxSeqnos
      BY <1>2
    <2>4. \A j \in 1..MaxSeqnos :
            j # 1 => u[j] = t[IF j <= i THEN j - 1 ELSE j]
      BY <1>1
    <2>5. \A j \in 1..MaxSeqnos : j > i => ~ (j <= i)
      BY <1>3
    <2> QED BY <2>1, <2>2, <2>3, <2>4, <2>5
  <1>5. ASSUME NEW j \in 1..MaxSeqnos, j # 1 PROVE u[j][1] # sender
    <2>1. CASE j <= i
      <3>1. j - 1 \in 1..MaxSeqnos /\ u[j] = t[j - 1]
        BY <1>4, <1>5, <2>1
      <3>2. j - 1 # i
        BY <1>3, <2>1
      <3> QED BY <1>3, <3>1, <3>2
    <2>2. CASE j > i
      <3>1. u[j] = t[j] /\ j # i
        BY <1>3, <1>4, <1>5, <2>2
      <3> QED BY <1>3, <3>1
    <2> QED BY <1>3, <2>1, <2>2
  <1> DEFINE Old(j) == IF j <= i THEN j - 1 ELSE j
  <1>6. \A j \in 1..MaxSeqnos : j # 1 => Old(j) \in 1..MaxSeqnos /\ u[j] = t[Old(j)]
    BY <1>3, <1>4
  <1>7. \A j, k \in 1..MaxSeqnos : j < k => Old(j) < Old(k)
    BY <1>3
  <1> HIDE DEF Old
  <1>8. TableSound(u)
    <2> SUFFICES ASSUME NEW j \in 1..MaxSeqnos, NEW k \in 1..MaxSeqnos
                 PROVE  /\ j # k /\ u[j][1] = u[k][1] => u[j][1] = NoSender
                        /\ j < k /\ u[j][1] = NoSender => u[k][1] = NoSender
      BY DEF TableSound
    <2>1. CASE j # 1 /\ k # 1
      <3>1. /\ Old(j) \in 1..MaxSeqnos /\ u[j] = t[Old(j)]
            /\ Old(k) \in 1..MaxSeqnos /\ u[k] = t[Old(k)]
            /\ (j < k => Old(j) < Old(k)) /\ (k < j => Old(k) < Old(j))
        BY <1>6, <1>7, <2>1
      <3>2. j # k => Old(j) # Old(k)
        BY <3>1
      <3> QED BY <1>2, <3>1, <3>2 DEF TableSound
    <2>2. CASE j = 1 \/ k = 1
      BY <1>2, <1>4, <1>5, <2>2
    <2> QED BY <2>1, <2>2
  <1>9. Has(u, <<sender, n>>)
    BY <1>4 DEF Has
  <1>10. ASSUME NEW x, sender # Self, Has(t, <<Self, x>>)
         PROVE  Has(u, <<Self, x>>)
    <2>1. PICK j \in 1..MaxSeqnos : t[j] = <<Self, x>>
      BY <1>10 DEF Has
    <2>2. j # i
      BY <1>2, <1>3, <1>10, <2>1
    <2>3. CASE j < i
      <3>1. j + 1 \in 1..MaxSeqnos /\ j + 1 # 1 /\ j + 1 <= i /\ (j + 1) - 1 = j
        BY <1>2, <1>3, <2>3
      <3>2. u[j + 1] = t[j]
        BY <1>4, <3>1
      <3> QED BY <2>1, <3>1, <3>2 DEF Has
    <2>4. CASE j > i
      <3>1. u[j] = t[j]
        BY <1>3, <1>4, <2>4
      <3> QED BY <2>1, <3>1 DEF Has
    <2> QED BY <1>3, <2>2, <2>3, <2>4
  <1> QED BY <1>0, <1>8, <1>9, <1>10

------------------------------------------------------------------------------
LEMMA RepeatsInitial ==
  ASSUME LinkInit
  PROVE  RepeatsInv
  <1>1. /\ rx = <<>> /\ delivered = <<>>
        /\ received_seqnos = [i \in 1..MaxSeqnos |-> <<NoSender, 0>>]
    BY DEF LinkInit
  <1>2. DOMAIN Heard = {}
    BY <1>1 DEF Heard
  <1>3. OrderSound
    BY <1>2 DEF OrderSound, Grouped, Latest
  <1>4. MemorySound
    BY <1>1 DEF MemorySound, TableSound
  <1> QED BY <1>3, <1>4 DEF RepeatsInv

(* A packet is handed over. *)
LEMMA RepeatsOutput ==
  ASSUME RepeatsInv, LinkInv, CsmaInv, NEW p \in Packet, csma_output_packet(p)
  PROVE  RepeatsInv'
  <1>1. /\ UNCHANGED <<rx, received_seqnos, delivered, attempts, Heard>>
        /\ output_queue(p) \/ output_drop(p)
        /\ outcome[p] = "new"
    BY DEF csma_output_packet, output_queue, output_drop, Heard
  <1>2. OrderSound'
    <2>1. Grouped(Heard') /\ \A i \in DOMAIN Heard' : attempts'[Heard'[i]] > 0
      BY <1>1 DEF RepeatsInv, OrderSound
    <2>2. \A b \in Addr : packet_queue[b] # <<>> =>
            Latest(Heard', Head(packet_queue[b]), b)
      BY <1>1 DEF RepeatsInv, OrderSound
    <2>3. \A b \in Addr : packet_queue'[b] # <<>> =>
            \/ /\ packet_queue[b] # <<>>
               /\ Head(packet_queue'[b]) = Head(packet_queue[b])
            \/ attempts'[Head(packet_queue'[b])] = 0
      BY <1>1, HeadQueued
    <2>4. \A b \in Addr : packet_queue'[b] # <<>> =>
            Latest(Heard', Head(packet_queue'[b]), b)
      BY <2>1, <2>2, <2>3, HeadsLatest
    <2> QED BY <2>1, <2>4 DEF OrderSound
  <1>3. MemorySound'
    <2>1. ASSUME delivered # <<>>
          PROVE  number'[delivered[Len(delivered)]] = number[delivered[Len(delivered)]]
      <3>1. Len(delivered) \in DOMAIN delivered
        BY <2>1 DEF LinkInv, LinkTypes
      <3>2. delivered[Len(delivered)] \in Numbered
        BY <3>1 DEF LinkInv, LinkSound, Received
      <3>3. delivered[Len(delivered)] # p /\ delivered[Len(delivered)] \in Packet
        BY <1>1, <3>2 DEF Numbered, output_queue
      <3>4. number \in [Packet -> 0..(Width - 1)]
        BY DEF LinkInv, LinkTypes
      <3>5. number' = [number EXCEPT ![p] = IF seqno = 0 THEN 1 ELSE seqno]
        BY DEF csma_output_packet
      <3> QED BY <3>3, <3>4, <3>5
    <2> QED BY <1>1, <2>1 DEF RepeatsInv, MemorySound
  <1> QED BY <1>2, <1>3 DEF RepeatsInv

(* A frame is sent, and perhaps arrives. *)
LEMMA RepeatsSend ==
  ASSUME RepeatsInv, LinkInv, CsmaInv, NEW a \in Addr, NEW s \in Status,
         send_one_packet(a, s)
  PROVE  RepeatsInv'
  <1>0. PICK p : p = Head(packet_queue[a])
    OBVIOUS
  <1>1. p \in Packet /\ Dest[p] = a /\ packet_queue[a] # <<>>
    BY <1>0, HeadSent DEF send_one_packet, transmit_from_queue
  <1>2. /\ UNCHANGED <<number, received_seqnos, delivered>>
        /\ rx' = rx \/ rx' = Append(rx, p)
        /\ attempts' = [attempts EXCEPT ![p] = @ + 1]
    BY <1>0 DEF send_one_packet, Radiate, transmit_from_queue
  <1>3. attempts \in [Packet -> Nat] /\ LinkTypes
    BY DEF CsmaInv, TypeOK, LinkInv
  <1>4. attempts'[p] > 0 /\ \A q \in Packet : attempts[q] > 0 => attempts'[q] > 0
    BY <1>1, <1>2, <1>3
  <1>5. PICK h, g : h = Heard /\ g = Heard'
    OBVIOUS
  <1>6. /\ Grouped(h) /\ Latest(h, p, a)
        /\ \A b \in Addr : packet_queue[b] # <<>> =>
             Latest(h, Head(packet_queue[b]), b)
        /\ \A i \in DOMAIN h : h[i] \in Packet /\ attempts[h[i]] > 0
    BY <1>0, <1>1, <1>3, <1>5, HeardFacts DEF RepeatsInv, OrderSound
  <1>7. /\ Grouped(g)
        /\ \A b \in Addr : packet_queue[b] # <<>> =>
             Latest(g, Head(packet_queue[b]), b)
        /\ \A i \in DOMAIN g : attempts'[g[i]] > 0
    <2>1. CASE rx' = rx
      <3>1. g = h
        BY <1>2, <1>5, <2>1 DEF Heard
      <3> QED BY <1>4, <1>6, <3>1
    <2>2. CASE rx' = Append(rx, p)
      <3>0. PICK n : n = Len(delivered) + Len(rx)
        OBVIOUS
      <3>1. /\ Len(rx') = Len(rx) + 1 /\ rx'[Len(rx) + 1] = p
            /\ \A i \in 1..Len(rx) : rx'[i] = rx[i]
            /\ Len(delivered) \in Nat /\ Len(rx) \in Nat /\ n \in Nat
        BY <1>1, <1>3, <2>2, <3>0 DEF LinkTypes
      <3>2. DOMAIN h = 1..n /\ DOMAIN g = 1..(n + 1)
        <4>1. n + 1 = Len(delivered') + Len(rx')
          BY <1>2, <3>0, <3>1
        <4> QED BY <1>5, <3>0, <4>1 DEF Heard
      <3>3. ASSUME NEW i \in 1..n PROVE g[i] = h[i]
        <4>1. i \in 1..(n + 1) /\ i \in 1..n
          BY <3>1, <3>3
        <4>2. ~ (i <= Len(delivered)) => i - Len(delivered) \in 1..Len(rx)
          BY <3>0, <3>1, <3>3
        <4>3. h[i] = IF i <= Len(delivered) THEN delivered[i]
                     ELSE rx[i - Len(delivered)]
          BY <1>5, <3>0, <4>1 DEF Heard
        <4>4. g[i] = IF i <= Len(delivered) THEN delivered[i]
                     ELSE rx'[i - Len(delivered)]
          BY <1>2, <1>5, <3>2, <4>1 DEF Heard
        <4> QED BY <3>1, <4>2, <4>3, <4>4
      <3>4. g[n + 1] = p
        <4>1. /\ n + 1 \in 1..(n + 1) /\ ~ (n + 1 <= Len(delivered))
              /\ n + 1 - Len(delivered) = Len(rx) + 1
          BY <3>0, <3>1
        <4>2. g[n + 1] = rx'[n + 1 - Len(delivered)]
          <5>1. g = [i \in 1..(n + 1) |->
                       IF i <= Len(delivered) THEN delivered[i]
                       ELSE rx'[i - Len(delivered)]]
            BY <1>2, <1>5, <3>2 DEF Heard
          <5> QED BY <3>1, <4>1, <5>1
        <4> QED BY <3>1, <4>1, <4>2
      <3>5. /\ Grouped(g) /\ Latest(g, p, a)
            /\ \A q, b : b # a /\ Latest(h, q, b) => Latest(g, q, b)
        BY <1>1, <1>6, <3>1, <3>2, <3>3, <3>4, HearMore
      <3>6. \A b \in Addr : packet_queue[b] # <<>> =>
              Latest(g, Head(packet_queue[b]), b)
        BY <1>0, <1>6, <3>5
      <3>7. ASSUME NEW i \in DOMAIN g PROVE attempts'[g[i]] > 0
        <4>1. CASE i = n + 1
          BY <1>4, <3>4, <4>1
        <4>2. CASE i # n + 1
          <5>1. i \in 1..n
            BY <3>1, <3>2, <3>7, <4>2
          <5> QED BY <1>4, <1>6, <3>2, <3>3, <5>1
        <4> QED BY <4>1, <4>2
      <3> QED BY <3>5, <3>6, <3>7
    <2> QED BY <1>2, <2>1, <2>2
  <1>8. OrderSound'
    <2>1. \A b \in Addr : packet_queue'[b] # <<>> =>
            \/ /\ packet_queue[b] # <<>>
               /\ Head(packet_queue'[b]) = Head(packet_queue[b])
            \/ attempts'[Head(packet_queue'[b])] = 0
      BY HeadTransmitted DEF send_one_packet
    <2>2. \A b \in Addr : packet_queue'[b] # <<>> =>
            Latest(Heard', Head(packet_queue'[b]), b)
      BY <1>5, <1>7, <2>1, HeadsLatest
    <2> QED BY <1>5, <1>7, <2>2 DEF OrderSound
  <1>9. MemorySound'
    BY <1>2 DEF RepeatsInv, MemorySound
  <1> QED BY <1>8, <1>9 DEF RepeatsInv

(* A frame is read by the receiver. *)
LEMMA RepeatsInput ==
  ASSUME RepeatsInv, LinkInv, input_packet
  PROVE  RepeatsInv'
  <1>0. PICK p : p = Head(rx)
    OBVIOUS
  <1>1. /\ LinkTypes /\ rx # <<>> /\ rx' = Tail(rx)
        /\ UNCHANGED <<packet_queue, attempts, number>>
    BY DEF input_packet, vars, nbrVars, LinkInv
  <1>2. PICK d, m : d = Len(delivered) /\ m = Len(rx)
    OBVIOUS
  <1>3. /\ d \in Nat /\ m \in Nat /\ m > 0 /\ p = rx[1] /\ p \in Packet
        /\ Len(rx') = m - 1 /\ \A i \in 1..(m - 1) : rx'[i] = rx[i + 1]
    BY <1>0, <1>1, <1>2 DEF LinkTypes
  <1>4. PICK h, g : h = Heard /\ g = Heard'
    OBVIOUS
  <1>5. /\ DOMAIN h = 1..(d + m)
        /\ \A i \in 1..(d + m) : h[i] = IF i <= d THEN delivered[i] ELSE rx[i - d]
        /\ Grouped(h) /\ \A i \in DOMAIN h : attempts[h[i]] > 0
        /\ \A b \in Addr : packet_queue[b] # <<>> =>
             Latest(h, Head(packet_queue[b]), b)
    BY <1>2, <1>4 DEF Heard, RepeatsInv, OrderSound
  <1>6. CASE mac_sequence_is_duplicate(Self, number[p])
    <2>1. UNCHANGED <<received_seqnos, delivered>>
      BY <1>0, <1>6 DEF input_packet
    <2>2. /\ DOMAIN g = 1..(d + m - 1)
          /\ \A i \in 1..(d + m - 1) : g[i] = IF i <= d THEN delivered[i] ELSE rx'[i - d]
      <3>1. Len(delivered') + Len(rx') = d + m - 1
        BY <1>2, <1>3, <2>1
      <3> QED BY <1>2, <1>4, <2>1, <3>1 DEF Heard
    <2>3. ASSUME NEW i \in 1..(d + m - 1)
          PROVE  g[i] = IF i < d + 1 THEN h[i] ELSE h[i + 1]
      <3>1. CASE i <= d
        <4>1. i \in 1..(d + m) /\ i < d + 1
          BY <1>3, <2>3, <3>1
        <4> QED BY <1>5, <2>2, <2>3, <3>1, <4>1
      <3>2. CASE ~ (i <= d)
        <4>1. /\ i - d \in 1..(m - 1) /\ i + 1 \in 1..(d + m) /\ ~ (i < d + 1)
              /\ ~ (i + 1 <= d) /\ (i + 1) - d = (i - d) + 1
          BY <1>3, <2>3, <3>2
        <4> QED BY <1>3, <1>5, <2>2, <2>3, <3>2, <4>1
      <3> QED BY <3>1, <3>2
    <2>4. d + m \in Nat /\ d + 1 \in 1..(d + m)
      BY <1>3
    <2>5. PICK n, k : n = d + m /\ k = d + 1
      OBVIOUS
    <2>6. /\ Grouped(h) => Grouped(g)
          /\ \A q, b : Latest(h, q, b) => Latest(g, q, b)
          /\ \A i \in DOMAIN g : \E j \in DOMAIN h : g[i] = h[j]
      <3>1. /\ n \in Nat /\ k \in 1..n /\ DOMAIN h = 1..n
            /\ DOMAIN g = 1..(n - 1)
            /\ \A i \in 1..(n - 1) : i < k => g[i] = h[i]
            /\ \A i \in 1..(n - 1) : ~ (i < k) => g[i] = h[i + 1]
        BY <1>3, <1>5, <2>2, <2>3, <2>4, <2>5
      <3>2. Grouped(h) => Grouped(g)
        BY <3>1, HearLess
      <3>3. \A q, b : Latest(h, q, b) => Latest(g, q, b)
        BY <3>1, HearLess
      <3>4. \A i \in DOMAIN g : \E j \in DOMAIN h : g[i] = h[j]
        BY <3>1, HearLess
      <3> QED BY <3>2, <3>3, <3>4
    <2>7. OrderSound'
      BY <1>1, <1>4, <1>5, <2>6 DEF OrderSound
    <2>8. MemorySound'
      BY <1>1, <2>1 DEF RepeatsInv, MemorySound
    <2> QED BY <2>7, <2>8 DEF RepeatsInv
  <1>7. CASE ~ mac_sequence_is_duplicate(Self, number[p])
    <2>1. /\ mac_sequence_register_seqno(Self, number[p])
          /\ delivered' = Append(delivered, p)
      BY <1>0, <1>7 DEF input_packet
    <2>2. /\ Len(delivered') = d + 1 /\ delivered'[d + 1] = p
          /\ \A i \in 1..d : delivered'[i] = delivered[i]
      BY <1>1, <1>2, <1>3, <2>1 DEF LinkTypes
    <2>3. /\ DOMAIN g = 1..(d + m)
          /\ \A i \in 1..(d + m) : g[i] = IF i <= d + 1 THEN delivered'[i]
                                          ELSE rx'[i - (d + 1)]
      <3>1. Len(delivered') + Len(rx') = d + m
        BY <1>3, <2>2
      <3> QED BY <1>4, <2>2, <3>1 DEF Heard
    <2>4. ASSUME NEW i \in 1..(d + m) PROVE g[i] = h[i]
      <3>1. CASE i <= d
        <4>1. i <= d + 1 /\ i \in 1..d
          BY <1>3, <2>4, <3>1
        <4> QED BY <1>5, <2>2, <2>3, <2>4, <3>1, <4>1
      <3>2. CASE i = d + 1
        <4>1. i <= d + 1 /\ ~ (i <= d) /\ i - d = 1
          BY <1>3, <3>2
        <4> QED BY <1>3, <1>5, <2>2, <2>3, <2>4, <3>2, <4>1
      <3>3. CASE i > d + 1
        <4>1. /\ ~ (i <= d + 1) /\ ~ (i <= d) /\ i - (d + 1) \in 1..(m - 1)
              /\ (i - (d + 1)) + 1 = i - d
          BY <1>3, <2>4, <3>3
        <4> QED BY <1>3, <1>5, <2>3, <2>4, <4>1
      <3> QED BY <1>3, <3>1, <3>2, <3>3
    <2>5. h \in [1..(d + m) -> Packet] /\ g = h
      <3>1. h = [i \in 1..(d + m) |-> h[i]] /\ g = [i \in 1..(d + m) |-> g[i]]
        BY <1>2, <1>4, <1>5, <2>3 DEF Heard
      <3>2. \A i \in 1..(d + m) : h[i] \in Packet
        BY <1>1, <1>4, <1>5, HeardFacts
      <3> QED BY <2>4, <3>1, <3>2
    <2>6. OrderSound'
      BY <1>1, <1>4, <1>5, <2>5 DEF OrderSound
    <2>7. number[p] \in 0..(Width - 1) /\ TableSound(received_seqnos)
      BY <1>1, <1>3 DEF LinkTypes, RepeatsInv, MemorySound
    <2>8. TableSound(received_seqnos') /\ Has(received_seqnos', <<Self, number[p]>>)
      BY <1>1, <2>1, <2>7, Remembers
    <2>9. d > 0 => delivered[d] # p
      <3> SUFFICES ASSUME d > 0, delivered[d] = p PROVE FALSE
        OBVIOUS
      <3>1. delivered # <<>>
        BY <1>1, <1>2 DEF LinkTypes
      <3>2. Has(received_seqnos, <<Self, number[p]>>)
        BY <1>2, <3>1 DEF RepeatsInv, MemorySound
      <3> QED BY <1>7, <3>2 DEF mac_sequence_is_duplicate, Has
    <2>10. \A i \in 1..(d - 1) : delivered[i] # delivered[i + 1]
      BY <1>2 DEF RepeatsInv, MemorySound
    <2>11. ASSUME NEW i \in 1..(Len(delivered') - 1)
           PROVE  delivered'[i] # delivered'[i + 1]
      <3>1. i \in 1..d
        BY <1>3, <2>2, <2>11
      <3>2. CASE i = d
        BY <1>3, <2>2, <2>9, <3>1, <3>2
      <3>3. CASE i # d
        <4>1. i \in 1..(d - 1) /\ i + 1 \in 1..d
          BY <1>3, <3>1, <3>3
        <4>2. delivered'[i] = delivered[i] /\ delivered'[i + 1] = delivered[i + 1]
          BY <2>2, <3>1, <4>1
        <4> QED BY <2>10, <4>1, <4>2
      <3> QED BY <3>2, <3>3
    <2>12. MemorySound'
      BY <1>1, <2>2, <2>8, <2>11 DEF MemorySound
    <2> QED BY <2>6, <2>12 DEF RepeatsInv
  <1> QED BY <1>6, <1>7

(* Another sender's frame does not push the sender out of the table. *)
LEMMA RepeatsOther ==
  ASSUME RepeatsInv, LinkInv, NEW sender \in Others, input_other(sender)
  PROVE  RepeatsInv'
  <1>1. /\ LinkTypes /\ mac_sequence_register_seqno(sender, 1)
        /\ UNCHANGED <<packet_queue, attempts, number, rx, delivered, Heard>>
    BY DEF input_other, vars, nbrVars, LinkInv, Heard
  <1>2. 1 \in 0..(Width - 1) /\ sender # Self /\ TableSound(received_seqnos)
    <2>1. Cardinality({}) \in Nat /\ Cardinality({}) < Width - 1 /\ Width \in Nat
      BY Widths
    <2> QED BY <2>1, CsmaLinkAssumption DEF RepeatsInv, MemorySound
  <1>3. /\ TableSound(received_seqnos')
        /\ \A x : Has(received_seqnos, <<Self, x>>) =>
                    Has(received_seqnos', <<Self, x>>)
    BY <1>1, <1>2, Remembers
  <1>4. MemorySound'
    BY <1>1, <1>3 DEF RepeatsInv, MemorySound
  <1>5. OrderSound'
    BY <1>1 DEF RepeatsInv, OrderSound
  <1> QED BY <1>4, <1>5 DEF RepeatsInv

LEMMA RepeatsStep ==
  ASSUME RepeatsInv, LinkInv, CsmaInv, [LinkNext]_allVars
  PROVE  RepeatsInv'
  <1>1. ASSUME UNCHANGED <<packet_queue, attempts, number, rx, delivered,
                           received_seqnos>>
        PROVE  RepeatsInv'
    <2>1. Heard' = Heard
      BY <1>1 DEF Heard
    <2> QED BY <1>1, <2>1 DEF RepeatsInv, OrderSound, MemorySound
  <1>2. ASSUME NEW ack \in late, input_ack(ack) PROVE RepeatsInv'
    BY <1>1, <1>2 DEF input_ack, vars, nbrVars
  <1>3. CASE UNCHANGED allVars
    BY <1>1, <1>3 DEF allVars, vars, nbrVars, linkVars
  <1> QED
    BY <1>2, <1>3, RepeatsOutput, RepeatsSend, RepeatsInput, RepeatsOther
       DEF LinkNext

LEMMA RepeatsSound ==
  ASSUME RepeatsInv, LinkTypes
  PROVE  RepeatsExplained
  <1> SUFFICES ASSUME NEW i \in DOMAIN delivered, NEW j \in DOMAIN delivered,
                      i < j, delivered[i] = delivered[j]
               PROVE  LET between == {delivered[k] : k \in (i + 1)..(j - 1)}
                                       \ {delivered[i]}
                      IN /\ between # {}
                         /\ \A q \in between : Dest[q] # Dest[delivered[i]]
    BY DEF RepeatsExplained
  <1>1. Len(delivered) \in Nat /\ DOMAIN delivered = 1..Len(delivered)
    BY DEF LinkTypes
  <1>2. delivered[i] # delivered[i + 1]
    BY <1>1 DEF RepeatsInv, MemorySound
  <1>3. i + 1 \in (i + 1)..(j - 1)
    <2>1. i + 1 # j
      BY <1>2
    <2> QED BY <1>1, <2>1
  <1>4. ASSUME NEW k \in (i + 1)..(j - 1), delivered[k] # delivered[i]
        PROVE  Dest[delivered[k]] # Dest[delivered[i]]
    <2>1. k \in 1..Len(delivered) /\ i < k /\ k < j
      BY <1>1
    <2>2. /\ i \in DOMAIN Heard /\ k \in DOMAIN Heard /\ j \in DOMAIN Heard
          /\ Heard[i] = delivered[i] /\ Heard[k] = delivered[k]
          /\ Heard[j] = delivered[j]
      BY <1>1, <2>1, HeardFacts
    <2>3. Grouped(Heard)
      BY DEF RepeatsInv, OrderSound
    <2> QED BY <1>4, <2>1, <2>2, <2>3 DEF Grouped
  <1> QED BY <1>2, <1>3, <1>4

(* Duplicate detection, mac-sequence.c: a packet reaches the network layer *)
(* twice only when a packet of another queue came in between, never after  *)
(* a later one of its own queue (RepeatsExplained), for any number of      *)
(* packets, neighbors, other senders and places in the receiver's radio.   *)
THEOREM OnlyExplainedRepeats == LinkSpec => []RepeatsExplained
  <1>1. LinkInit => Init /\ RepeatsInv
    BY RepeatsInitial DEF LinkInit
  <1>2. LinkInv /\ RepeatsInv => RepeatsExplained
    BY RepeatsSound DEF LinkInv
  <1>3. RepeatsInv /\ LinkInv /\ CsmaInv /\ [LinkNext]_allVars => RepeatsInv'
    BY RepeatsStep
  <1> QED
    BY <1>1, <1>2, <1>3, LinkInitial, LinkStep, SenderOrLink, CsmaInit, CsmaStep,
       PTL DEF LinkSpec
==============================================================================
