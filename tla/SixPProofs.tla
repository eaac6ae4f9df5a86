------------------------------ MODULE SixPProofs ------------------------------
(***************************************************************************)
(* 6top for any nodes, blocks, requests and width of the sequence numbers, *)
(* whatever is lost, late or times out: the assertion on a CLEAR holds, a  *)
(* schedule is only changed for a request that was accepted, and with one  *)
(* block it is changed with the cells of that request.                     *)
(***************************************************************************)
EXTENDS SixP, SequenceTheorems, TLAPS

Elements(s) == {s[k] : k \in DOMAIN s}

(* The frames on their way to a node, and the reports that wait for it. *)
Fly(n) == Elements(inbox[n])
Rep(n) == Elements(reports[n])

Single == \E b \in Block : Block = {b}

(* There is one transaction with a peer at a time. *)
OnePerPeer ==
    \A n \in Node : \A b, c \in Block :
      /\ trans[n][b].used /\ trans[n][c].used
      /\ trans[n][b].peer = trans[n][c].peer
      => b = c

(* The assertion on a CLEAR. *)
ClearReset ==
    \A n \in Node, b \in Block :
      /\ trans[n][b].used /\ trans[n][b].state = "INIT" /\ trans[n][b].cmd = "CLEAR"
      => nbr[n][trans[n][b].peer] = 0

(* A transaction with a callback has answered, and a report of success     *)
(* that waits for its block is of that answer, which arrived, unless one   *)
(* waited when the block was handed out.  With one block the cells of the  *)
(* answer are the last that were stored.                                   *)
Due(id, n, b) ==
    /\ id \in offered
    /\ \/ id \in reused[n]
       \/ \A r \in Rep(n) : r.block = b /\ r.ok => id \in delivered
    /\ Single => res_storage[n] = id

CallbacksDue ==
    \A n \in Node, b \in Block :
      trans[n][b].used /\ trans[n][b].cb => Due(trans[n][b].id, n, b)

(* A frame that accepts a request was sent and has arrived. *)
FramesDue ==
    \A n \in Node : \A f \in Fly(n) :
      f.pkt.code = "SUCCESS" => f.pkt.id \in offered /\ f.pkt.id \in delivered

(* A change of the schedule: what OnlyAccepted and OwnCells say of it. *)
ChangeDue(c, n) ==
    /\ c.id \in offered /\ c.id \in delivered \cup reused[n]
    /\ Single => c.cells = c.id

ChangesDue == \A n \in Node : \A c \in schedule[n] : ChangeDue(c, n)

SixPInv ==
    TypeOK /\ OnePerPeer /\ ClearReset /\ CallbacksDue /\ FramesDue /\ ChangesDue

------------------------------------------------------------------------------
(* Queues: what is in them after the first is taken or one is added. *)
LEMMA TailElements ==
  ASSUME NEW T, NEW s \in Seq(T), s # <<>>
  PROVE  /\ Tail(s) \in Seq(T) /\ Head(s) \in Elements(s) /\ Head(s) \in T
         /\ Elements(s) = Elements(Tail(s)) \cup {Head(s)}
         /\ Elements(s) \subseteq T
  <1>1. /\ Tail(s) \in Seq(T) /\ Len(s) \in Nat /\ Len(s) > 0
        /\ DOMAIN s = 1..Len(s) /\ DOMAIN Tail(s) = 1..(Len(s) - 1)
        /\ \A k \in 1..(Len(s) - 1) : Tail(s)[k] = s[k + 1]
        /\ Head(s) = s[1] /\ \A k \in 1..Len(s) : s[k] \in T
    OBVIOUS
  <1> DEFINE t == Tail(s)
  <1> HIDE DEF t
  <1>2. \A k \in 2..Len(s) : s[k] = t[k - 1] /\ k - 1 \in 1..(Len(s) - 1)
    BY <1>1 DEF t
  <1>3. Elements(s) \subseteq Elements(t) \cup {s[1]}
    <2> SUFFICES ASSUME NEW k \in 1..Len(s)
                 PROVE  s[k] \in Elements(t) \cup {s[1]}
      BY <1>1 DEF Elements
    <2>1. CASE k = 1
      BY <2>1
    <2>2. CASE k # 1
      <3>1. k \in 2..Len(s)
        BY <1>1, <2>2
      <3> QED BY <1>1, <1>2, <3>1 DEF Elements, t
    <2> QED BY <2>1, <2>2
  <1>4. Elements(t) \subseteq Elements(s) /\ s[1] \in Elements(s)
    BY <1>1 DEF Elements, t
  <1> QED BY <1>1, <1>3, <1>4 DEF t, Elements

LEMMA AppendElements ==
  ASSUME NEW T, NEW s \in Seq(T), NEW e \in T
  PROVE  Append(s, e) \in Seq(T) /\ Elements(Append(s, e)) = Elements(s) \cup {e}
  <1> DEFINE a == Append(s, e)
  <1>1. /\ a \in Seq(T) /\ Len(s) \in Nat /\ DOMAIN s = 1..Len(s)
        /\ DOMAIN a = 1..(Len(s) + 1) /\ a[Len(s) + 1] = e
        /\ \A k \in 1..Len(s) : a[k] = s[k]
    OBVIOUS
  <1> HIDE DEF a
  <1>2. Elements(a) = Elements(s) \cup {e}
    BY <1>1 DEF Elements
  <1> QED BY <1>1, <1>2 DEF a

LEMMA EmptyElements == Elements(<<>>) = {}
  BY DEF Elements

------------------------------------------------------------------------------
(* Blocks and what is in them. *)
Packet == RequestPacket \cup ResponsePacket
Frame == [pkt : Packet, src : Node]
Report == [block : Block, ok : BOOLEAN]
Changed == [id : Id, cells : Id \cup {NoCells}]
State == {"INIT", "REQUEST_SENT", "REQUEST_RECEIVED", "RESPONSE_SENT",
          "RESPONSE_RECEIVED", "CONFIRMATION_SENT", "CONFIRMATION_RECEIVED",
          "TERMINATING"}

LEMMA UsedBlock ==
  ASSUME TypeOK, NEW n \in Node, NEW b \in Block, trans[n][b].used
  PROVE  trans[n][b] \in Transaction
  BY DEF TypeOK, Unused

(* A step that changes block b of node n. *)
Sets(n, b, u) ==
    /\ trans' \in [Node -> [Block -> Transaction \cup {Unused}]]
    /\ trans'[n][b] = u
    /\ \A m \in Node, c \in Block :
         (m # n \/ c # b) => trans'[m][c] = trans[m][c]

LEMMA SetBlock ==
  ASSUME TypeOK, NEW n \in Node, NEW b \in Block,
         NEW u \in Transaction \cup {Unused},
         trans' = [trans EXCEPT ![n][b] = u]
  PROVE  Sets(n, b, u)
  BY DEF TypeOK, Sets

(* u is the transaction t in another state, or with another timer. *)
Keeps(u, t) ==
    /\ u \in Transaction /\ u.used /\ u.peer = t.peer /\ u.cmd = t.cmd
    /\ u.id = t.id

LEMMA TransitFields ==
  ASSUME NEW t \in Transaction, NEW s \in State
  PROVE  /\ Keeps(Transit(t, s), t) /\ Transit(t, s).cb = t.cb
         /\ Transit(t, s).seqno = t.seqno /\ Transit(t, s).mode = t.mode
         /\ Transit(t, s).state = (IF Legal(t, s) THEN s ELSE "TERMINATING")
  BY DEF Transit, Transaction, State, Keeps

LEMMA NewFields ==
  ASSUME NEW pkt \in RequestPacket, NEW m \in Node
  PROVE  /\ NewTrans(pkt, m) \in Transaction
         /\ NewTrans(pkt, m).used /\ NewTrans(pkt, m).peer = m
         /\ NewTrans(pkt, m).seqno = pkt.seqno /\ NewTrans(pkt, m).cmd = pkt.code
         /\ NewTrans(pkt, m).mode = pkt.steps /\ NewTrans(pkt, m).state = "INIT"
         /\ NewTrans(pkt, m).cb = FALSE /\ NewTrans(pkt, m).id = pkt.id
  BY DEF NewTrans, Transaction, RequestPacket

LEMMA AwaitFields ==
  ASSUME NEW t \in Transaction
  PROVE  /\ Keeps(AwaitNext(t), t) /\ AwaitNext(t).cb = t.cb
         /\ AwaitNext(t).state = t.state
  BY DEF AwaitNext, Transaction, Keeps

LEMMA CbFields ==
  ASSUME NEW t \in Transaction, NEW v \in BOOLEAN
  PROVE  LET u == [t EXCEPT !.cb = v] IN
         Keeps(u, t) /\ u.cb = v /\ u.state = t.state
  BY DEF Transaction, Keeps

LEMMA FreeBlock ==
  ASSUME NEW n \in Node, Free(n) # {}
  PROVE  LET b == CHOOSE x \in Free(n) : TRUE
         IN b \in Block /\ ~ trans[n][b].used
  <1>1. (CHOOSE x \in Free(n) : TRUE) \in Free(n)
    OBVIOUS
  <1> QED BY <1>1 DEF Free

LEMMA PktFields ==
  ASSUME NEW type, NEW code, NEW steps, NEW seqno, NEW id
  PROVE  LET p == Pkt(type, code, steps, seqno, id) IN
         /\ p.type = type /\ p.code = code /\ p.steps = steps
         /\ p.seqno = seqno /\ p.id = id
         /\ p \in [type : {type}, code : {code}, steps : {steps},
                   seqno : {seqno}, id : {id}]
  BY DEF Pkt

LEMMA SeqnoRange ==
  ASSUME NEW v \in 0..NoNbr, NEW t \in Transaction, NEW s
  PROVE  NextSeqno(v, t, s) \in 0..NoNbr
  <1>1. \A w \in 0..(SeqMod - 1) : increment_next_seqno(w) \in 0..NoNbr
    <2> SUFFICES ASSUME NEW w \in 0..(SeqMod - 1)
                 PROVE  increment_next_seqno(w) \in 0..NoNbr
      OBVIOUS
    <2>1. SeqMod \in Nat /\ SeqMod > 1
      BY SixPAssumption
    <2> QED BY <2>1 DEF increment_next_seqno, NoNbr
  <1>2. t.seqno \in 0..(SeqMod - 1) /\ SeqMod \in Nat
    BY SixPAssumption DEF Transaction
  <1>3. CASE v = NoNbr \/ ~ Legal(t, s)
    BY <1>3 DEF NextSeqno
  <1>4. CASE ~ (v = NoNbr \/ ~ Legal(t, s))
    <2>1. v \in 0..(SeqMod - 1)
      BY <1>2, <1>4 DEF NoNbr
    <2>2. NextSeqno(v, t, s) \in
            {v, increment_next_seqno(v), increment_next_seqno(t.seqno)}
      BY <1>4 DEF NextSeqno
    <2> QED BY <1>1, <1>2, <2>1, <2>2
  <1> QED BY <1>3, <1>4

------------------------------------------------------------------------------
(* What sixtop_output() does to the queues. *)
Sends(n, pkt, b, box, arrives, ok) ==
    /\ ok => arrives
    /\ inbox' \in [Node -> Seq(Frame)]
    /\ \A x \in Node : \A f \in Fly(x)' :
         \/ f \in Elements(box[x])
         \/ arrives /\ f.pkt = pkt
    /\ reports' \in [Node -> Seq(Report)]
    /\ \A x \in Node : \A r \in Rep(x)' :
         \/ r \in Rep(x)
         \/ x = n /\ b # NoBlock /\ r.block = b /\ r.ok = ok
    /\ offered' = IF pkt.code = "SUCCESS" THEN offered \cup {pkt.id} ELSE offered
    /\ delivered' = IF pkt.code = "SUCCESS" /\ arrives
                    THEN delivered \cup {pkt.id} ELSE delivered

LEMMA SendEffect ==
  ASSUME TypeOK, NEW n \in Node, NEW m \in Node, NEW pkt \in Packet,
         NEW b \in Block \cup {NoBlock}, NEW box \in [Node -> Seq(Frame)],
         Send(n, m, pkt, b, box)
  PROVE  \E arrives, ok \in BOOLEAN : Sends(n, pkt, b, box, arrives, ok)
  <1>1. PICK arrives \in BOOLEAN, ok \in BOOLEAN :
          /\ ok => arrives
          /\ inbox' = IF arrives
                      THEN [box EXCEPT ![m] = Append(@, [pkt |-> pkt, src |-> n])]
                      ELSE box
          /\ reports' = IF b = NoBlock THEN reports
                        ELSE [reports EXCEPT ![n] = Append(@, [block |-> b, ok |-> ok])]
          /\ offered' = IF pkt.code = "SUCCESS" THEN offered \cup {pkt.id} ELSE offered
          /\ delivered' = IF pkt.code = "SUCCESS" /\ arrives
                          THEN delivered \cup {pkt.id} ELSE delivered
    BY Zenon DEF Send
  <1> DEFINE f == [pkt |-> pkt, src |-> n]
             r == [block |-> b, ok |-> ok]
  <1>2. f \in Frame /\ f.pkt = pkt
    BY DEF Frame
  <1>3. (b # NoBlock => r \in Report) /\ r.block = b /\ r.ok = ok
    BY DEF Report
  <1>4. box[m] \in Seq(Frame) /\ reports \in [Node -> Seq(Report)]
        /\ reports[n] \in Seq(Report)
    BY DEF TypeOK, Report
  <1>5. /\ Append(box[m], f) \in Seq(Frame)
        /\ Elements(Append(box[m], f)) = Elements(box[m]) \cup {f}
    BY <1>2, <1>4, AppendElements
  <1>6. b # NoBlock => /\ Append(reports[n], r) \in Seq(Report)
                       /\ Elements(Append(reports[n], r)) = Elements(reports[n]) \cup {r}
    BY <1>3, <1>4, AppendElements
  <1> HIDE DEF f, r
  <1>7. /\ arrives => inbox' = [box EXCEPT ![m] = Append(box[m], f)]
        /\ ~ arrives => inbox' = box
        /\ b = NoBlock => reports' = reports
        /\ b # NoBlock => reports' = [reports EXCEPT ![n] = Append(reports[n], r)]
    BY <1>1 DEF f, r
  <1>8. /\ inbox' \in [Node -> Seq(Frame)]
        /\ \A x \in Node : \/ inbox'[x] = box[x]
                           \/ arrives /\ x = m /\ inbox'[x] = Append(box[m], f)
    BY <1>5, <1>7
  <1>9. /\ reports' \in [Node -> Seq(Report)]
        /\ \A x \in Node :
             \/ reports'[x] = reports[x]
             \/ b # NoBlock /\ x = n /\ reports'[x] = Append(reports[n], r)
    BY <1>4, <1>6, <1>7
  <1>10. \A x \in Node : \A e \in Fly(x)' :
           e \in Elements(box[x]) \/ (arrives /\ e.pkt = pkt)
    BY <1>2, <1>5, <1>8 DEF Fly
  <1>11. \A x \in Node : \A e \in Rep(x)' :
           \/ e \in Rep(x)
           \/ x = n /\ b # NoBlock /\ e.block = b /\ e.ok = ok
    BY <1>3, <1>6, <1>9 DEF Rep
  <1>12. Sends(n, pkt, b, box, arrives, ok)
    BY <1>1, <1>8, <1>9, <1>10, <1>11 DEF Sends
  <1> QED BY <1>12

(* and what taking the first frame or report does. *)
LEMMA TakeFrame ==
  ASSUME TypeOK, NEW n \in Node, inbox[n] # <<>>,
         NEW box, box = [inbox EXCEPT ![n] = Tail(@)]
  PROVE  /\ box \in [Node -> Seq(Frame)]
         /\ Head(inbox[n]) \in Fly(n) /\ Head(inbox[n]) \in Frame
         /\ \A x \in Node : Elements(box[x]) \subseteq Fly(x)
  <1>1. inbox \in [Node -> Seq(Frame)] /\ inbox[n] \in Seq(Frame)
    BY DEF TypeOK, Frame, Packet
  <1>2. /\ Tail(inbox[n]) \in Seq(Frame) /\ Head(inbox[n]) \in Elements(inbox[n])
        /\ Head(inbox[n]) \in Frame
        /\ Elements(inbox[n]) = Elements(Tail(inbox[n])) \cup {Head(inbox[n])}
    BY <1>1, TailElements
  <1>3. /\ box \in [Node -> Seq(Frame)]
        /\ \A x \in Node : box[x] = inbox[x] \/ (x = n /\ box[x] = Tail(inbox[n]))
    BY <1>1, <1>2
  <1> QED BY <1>2, <1>3 DEF Fly

LEMMA TakeReport ==
  ASSUME TypeOK, NEW n \in Node, reports[n] # <<>>,
         reports' = [reports EXCEPT ![n] = Tail(@)]
  PROVE  /\ reports' \in [Node -> Seq(Report)]
         /\ Head(reports[n]) \in Rep(n) /\ Head(reports[n]) \in Report
         /\ \A x \in Node : Rep(x)' \subseteq Rep(x)
  <1>1. reports \in [Node -> Seq(Report)] /\ reports[n] \in Seq(Report)
    BY DEF TypeOK, Report
  <1>2. /\ Tail(reports[n]) \in Seq(Report) /\ Head(reports[n]) \in Elements(reports[n])
        /\ Head(reports[n]) \in Report
        /\ Elements(reports[n]) = Elements(Tail(reports[n])) \cup {Head(reports[n])}
    BY <1>1, TailElements
  <1>3. /\ reports' \in [Node -> Seq(Report)]
        /\ \A x \in Node : reports'[x] = reports[x] \/ (x = n /\ reports'[x] = Tail(reports[n]))
    BY <1>1, <1>2
  <1> QED BY <1>2, <1>3 DEF Rep

------------------------------------------------------------------------------
(* What a step has to show.  The callback of block c of node x is there as *)
(* before, *)
Carries(x, c) ==
    /\ trans[x][c].used /\ trans[x][c].cb /\ trans'[x][c].id = trans[x][c].id
    /\ \A r \in Rep(x)' : r.block = c => r \in Rep(x)
    /\ Single => res_storage'[x] = res_storage[x]

(* and histories grow. *)
Grows ==
    /\ offered \subseteq offered' /\ delivered \subseteq delivered'
    /\ \A x \in Node : reused[x] \subseteq reused'[x]

Typed ==
    /\ trans' \in [Node -> [Block -> Transaction \cup {Unused}]]
    /\ nbr' \in [Node -> [Node -> 0..NoNbr]]
    /\ inbox' \in [Node -> Seq(Frame)]
    /\ reports' \in [Node -> Seq(Report)]
    /\ res_storage' \in [Node -> Id \cup {NoCells}]
    /\ schedule' \in [Node -> SUBSET Changed]
    /\ requests' \in 0..MaxRequests
    /\ offered' \subseteq Id /\ delivered' \subseteq Id
    /\ reused' \in [Node -> SUBSET Id]

(* What of this holds when variables stay as they are. *)
LEMMA Types ==
  ASSUME TypeOK
  PROVE  /\ trans \in [Node -> [Block -> Transaction \cup {Unused}]]
         /\ nbr \in [Node -> [Node -> 0..NoNbr]]
         /\ inbox \in [Node -> Seq(Frame)]
         /\ reports \in [Node -> Seq(Report)]
         /\ res_storage \in [Node -> Id \cup {NoCells}]
         /\ schedule \in [Node -> SUBSET Changed]
         /\ requests \in 0..MaxRequests
         /\ offered \subseteq Id /\ delivered \subseteq Id
         /\ reused \in [Node -> SUBSET Id]
  BY DEF TypeOK, Frame, Packet, Report, Changed

LEMMA SameFrames ==
  ASSUME inbox' = inbox
  PROVE  \A x \in Node : \A f \in Fly(x)' : f \in Fly(x)
  BY DEF Fly

LEMMA SameReports ==
  ASSUME reports' = reports
  PROVE  \A x \in Node : \A r \in Rep(x)' : r \in Rep(x)
  BY DEF Rep

LEMMA InvStep ==
  ASSUME SixPInv, Typed, OnePerPeer', ClearReset', Grows,
         \A x \in Node, c \in Block :
           trans'[x][c].used /\ trans'[x][c].cb =>
             Carries(x, c) \/ Due(trans[x][c].id, x, c)',
         \A x \in Node : \A f \in Fly(x)' :
           \/ f \in Fly(x)
           \/ f.pkt.code = "SUCCESS" => f.pkt.id \in offered' /\ f.pkt.id \in delivered',
         \A x \in Node : \A d \in schedule'[x] :
           d \in schedule[x] \/ ChangeDue(d, x)'
  PROVE  SixPInv'
  <1>1. TypeOK'
    BY DEF Typed, TypeOK, Frame, Packet, Report, Changed
  <1>2. CallbacksDue'
    <2> SUFFICES ASSUME NEW x \in Node, NEW c \in Block,
                        trans'[x][c].used, trans'[x][c].cb
                 PROVE  Due(trans[x][c].id, x, c)'
      BY DEF CallbacksDue
    <2>1. CASE Carries(x, c)
      <3>1. Due(trans[x][c].id, x, c) /\ trans'[x][c].id = trans[x][c].id
        BY <2>1 DEF SixPInv, CallbacksDue, Carries
      <3>2. trans[x][c].id \in offered'
        BY <3>1 DEF Due, Grows
      <3>3. \/ trans[x][c].id \in reused'[x]
            \/ \A r \in Rep(x)' : r.block = c /\ r.ok => trans[x][c].id \in delivered'
        BY <2>1, <3>1 DEF Due, Grows, Carries
      <3>4. Single => res_storage'[x] = trans[x][c].id
        BY <2>1, <3>1 DEF Due, Carries
      <3> QED BY <3>1, <3>2, <3>3, <3>4 DEF Due, Single
    <2> QED BY <2>1
  <1>3. FramesDue'
    <2> SUFFICES ASSUME NEW x \in Node, NEW f \in Fly(x)', f.pkt.code = "SUCCESS"
                 PROVE  f.pkt.id \in offered' /\ f.pkt.id \in delivered'
      BY DEF FramesDue
    <2>1. CASE f \in Fly(x)
      BY <2>1 DEF SixPInv, FramesDue, Grows
    <2> QED BY <2>1
  <1>4. ChangesDue'
    <2> SUFFICES ASSUME NEW x \in Node, NEW d \in schedule'[x]
                 PROVE  ChangeDue(d, x)'
      BY DEF ChangesDue
    <2>1. CASE d \in schedule[x]
      <3>1. ChangeDue(d, x)
        BY <2>1 DEF SixPInv, ChangesDue
      <3> QED BY <3>1 DEF ChangeDue, Grows, Single
    <2> QED BY <2>1
  <1> QED BY <1>1, <1>2, <1>3, <1>4 DEF SixPInv

LEMMA OneBlock ==
  ASSUME SixPInv, NEW n \in Node, NEW b \in Block,
         NEW u \in Transaction \cup {Unused}, Sets(n, b, u),
         u.used /\ trans[n][b].used => u.peer = trans[n][b].peer,
         u.used /\ ~ trans[n][b].used => With(n, u.peer) = {},
         \/ nbr' = nbr
         \/ u.used /\ \A x, y \in Node :
                        (x # n \/ y # u.peer) => nbr'[x][y] = nbr[x][y],
         u.used /\ u.state = "INIT" /\ u.cmd = "CLEAR" => nbr'[n][u.peer] = 0
  PROVE  OnePerPeer' /\ ClearReset'
  <1>1. /\ trans'[n][b] = u
        /\ \A m \in Node, c \in Block :
             (m # n \/ c # b) => trans'[m][c] = trans[m][c]
    BY DEF Sets
  <1>2. \A c \in Block : c # b /\ trans[n][c].used /\ u.used => trans[n][c].peer # u.peer
    BY DEF SixPInv, OnePerPeer, With
  <1>3. OnePerPeer'
    <2> SUFFICES ASSUME NEW m \in Node, NEW c \in Block, NEW d \in Block,
                        trans'[m][c].used, trans'[m][d].used,
                        trans'[m][c].peer = trans'[m][d].peer
                 PROVE  c = d
      BY DEF OnePerPeer
    <2>1. CASE m # n
      BY <1>1, <2>1 DEF SixPInv, OnePerPeer
    <2>2. CASE m = n
      BY <1>1, <1>2, <2>2 DEF SixPInv, OnePerPeer
    <2> QED BY <2>1, <2>2
  <1>4. ClearReset'
    <2> SUFFICES ASSUME NEW m \in Node, NEW c \in Block, trans'[m][c].used,
                        trans'[m][c].state = "INIT", trans'[m][c].cmd = "CLEAR"
                 PROVE  nbr'[m][trans'[m][c].peer] = 0
      BY DEF ClearReset
    <2>1. CASE m = n /\ c = b
      BY <1>1, <2>1
    <2>2. CASE m # n \/ c # b
      <3>1. trans'[m][c] = trans[m][c]
        BY <1>1, <2>2
      <3>2. nbr[m][trans[m][c].peer] = 0
        BY <3>1 DEF SixPInv, ClearReset
      <3>3. trans[m][c].peer \in Node
        BY <3>1, UsedBlock DEF SixPInv, Transaction
      <3>4. nbr'[m][trans[m][c].peer] = nbr[m][trans[m][c].peer]
        BY <1>2, <2>2, <3>1, <3>3
      <3> QED BY <3>1, <3>2, <3>4
    <2> QED BY <2>1, <2>2
  <1> QED BY <1>3, <1>4

(* Steps of a transaction that has its block. *)
LEMMA BlockStep ==
  ASSUME SixPInv, NEW n \in Node, NEW b \in Block, trans[n][b].used,
         NEW u \in Transaction \cup {Unused}, Sets(n, b, u),
         u.used => Keeps(u, trans[n][b]) /\ (u.cb => trans[n][b].cb),
         nbr' \in [Node -> [Node -> 0..NoNbr]],
         \/ nbr' = nbr
         \/ u.used /\ \A x, y \in Node :
              (x # n \/ y # trans[n][b].peer) => nbr'[x][y] = nbr[x][y],
         u.used /\ u.state = "INIT" /\ u.cmd = "CLEAR" => nbr'[n][u.peer] = 0,
         inbox' \in [Node -> Seq(Frame)],
         \A x \in Node : \A f \in Fly(x)' : f \in Fly(x),
         reports' \in [Node -> Seq(Report)],
         \A x \in Node : \A r \in Rep(x)' : r \in Rep(x),
         res_storage' = res_storage, requests' = requests, offered' = offered,
         delivered' = delivered, reused' = reused,
         schedule' \in [Node -> SUBSET Changed],
         \A x \in Node : \A d \in schedule'[x] : d \in schedule[x] \/ ChangeDue(d, x)
  PROVE  SixPInv'
  <1>1. Typed
    BY Types DEF SixPInv, Typed, Sets
  <1>2. OnePerPeer' /\ ClearReset'
    BY OneBlock DEF Keeps
  <1>3. Grows
    BY DEF Grows
  <1>4. ASSUME NEW x \in Node, NEW c \in Block, trans'[x][c].used, trans'[x][c].cb
        PROVE  Carries(x, c)
    <2>1. trans[x][c].used /\ trans[x][c].cb /\ trans'[x][c].id = trans[x][c].id
      BY <1>4 DEF Sets, Keeps
    <2> QED BY <2>1 DEF Carries
  <1>5. \A x \in Node : \A d \in schedule'[x] : d \in schedule[x] \/ ChangeDue(d, x)'
    BY DEF ChangeDue, Single
  <1> QED BY <1>1, <1>2, <1>3, <1>4, <1>5, InvStep

(* Steps that change no block. *)
LEMMA OtherStep ==
  ASSUME SixPInv, NEW n \in Node, NEW m \in Node, trans' = trans,
         nbr' \in [Node -> [Node -> 0..NoNbr]],
         \/ nbr' = nbr
         \/ /\ With(n, m) = {}
            /\ \A x, y \in Node : (x # n \/ y # m) => nbr'[x][y] = nbr[x][y],
         inbox' \in [Node -> Seq(Frame)],
         \A x \in Node : \A f \in Fly(x)' : f \in Fly(x) \/ f.pkt.code # "SUCCESS",
         reports' \in [Node -> Seq(Report)],
         \A x \in Node : \A r \in Rep(x)' : r \in Rep(x),
         res_storage' = res_storage, requests' \in 0..MaxRequests, offered' = offered,
         delivered' = delivered, reused' = reused, schedule' = schedule
  PROVE  SixPInv'
  <1>1. Typed
    BY Types DEF SixPInv, Typed
  <1>2. OnePerPeer'
    BY DEF SixPInv, OnePerPeer
  <1>3. ClearReset'
    <2> SUFFICES ASSUME NEW x \in Node, NEW c \in Block, trans[x][c].used,
                        trans[x][c].state = "INIT", trans[x][c].cmd = "CLEAR"
                 PROVE  nbr'[x][trans[x][c].peer] = 0
      BY DEF ClearReset
    <2>1. nbr[x][trans[x][c].peer] = 0
      BY DEF SixPInv, ClearReset
    <2>2. trans[x][c].peer \in Node
      BY UsedBlock DEF SixPInv, Transaction
    <2>3. With(n, m) = {} => (x # n \/ trans[x][c].peer # m)
      BY DEF With
    <2> QED BY <2>1, <2>2, <2>3
  <1>4. Grows
    BY DEF Grows
  <1>5. ASSUME NEW x \in Node, NEW c \in Block, trans'[x][c].used, trans'[x][c].cb
        PROVE  Carries(x, c)
    BY <1>5 DEF Carries
  <1> QED BY <1>1, <1>2, <1>3, <1>4, <1>5, InvStep

(* A transaction gets block b. *)
LEMMA AllocStep ==
  ASSUME SixPInv, NEW n \in Node, NEW b \in Block, ~ trans[n][b].used,
         NEW u \in Transaction, Sets(n, b, u), u.used, With(n, u.peer) = {},
         nbr' \in [Node -> [Node -> 0..NoNbr]],
         \A x, y \in Node : (x # n \/ y # u.peer) => nbr'[x][y] = nbr[x][y],
         u.state = "INIT" /\ u.cmd = "CLEAR" => nbr'[n][u.peer] = 0,
         reused' = Reused(n, b, u.id),
         inbox' \in [Node -> Seq(Frame)], reports' \in [Node -> Seq(Report)],
         \A x \in Node : \A f \in Fly(x)' :
           \/ f \in Fly(x)
           \/ f.pkt.code = "SUCCESS" => f.pkt.id \in offered' /\ f.pkt.id \in delivered',
         \A x \in Node : \A r \in Rep(x)' :
           \/ r \in Rep(x)
           \/ /\ x = n /\ r.block = b
              /\ u.cb /\ r.ok => u.id \in delivered',
         offered \subseteq offered', delivered \subseteq delivered',
         offered' \subseteq Id, delivered' \subseteq Id,
         u.cb => u.id \in offered' /\ res_storage'[n] = u.id,
         res_storage' \in [Node -> Id \cup {NoCells}],
         \A x \in Node : x # n => res_storage'[x] = res_storage[x],
         requests' \in 0..MaxRequests, schedule' = schedule
  PROVE  SixPInv'
  <1>1. u.id \in Id
    BY DEF Transaction
  <1>2. /\ reused' \in [Node -> SUBSET Id]
        /\ \A x \in Node : reused[x] \subseteq reused'[x]
        /\ Pending(n, b) => u.id \in reused'[n]
    BY <1>1, Types DEF SixPInv, Reused
  <1>3. Typed
    BY <1>2, Types DEF SixPInv, Typed, Sets
  <1>4. OnePerPeer' /\ ClearReset'
    BY OneBlock
  <1>5. Grows
    BY <1>2 DEF Grows
  <1>6. \A r \in Rep(n) : r.block = b /\ r.ok => Pending(n, b)
    BY DEF Rep, Elements, Pending
  <1>7. ASSUME NEW x \in Node, NEW c \in Block, trans'[x][c].used, trans'[x][c].cb
        PROVE  Carries(x, c) \/ Due(trans[x][c].id, x, c)'
    <2>1. CASE x = n /\ c = b
      <3>1. trans'[x][c] = u /\ u.cb
        BY <1>7, <2>1 DEF Sets
      <3>2. \/ u.id \in reused'[n]
            \/ \A r \in Rep(n)' : r.block = b /\ r.ok => u.id \in delivered'
        BY <1>2, <1>6, <3>1
      <3>3. Due(trans[x][c].id, x, c)'
        BY <2>1, <3>1, <3>2 DEF Due
      <3> QED BY <3>3
    <2>2. CASE ~ (x = n /\ c = b)
      <3>1. trans'[x][c] = trans[x][c]
        BY <2>2 DEF Sets
      <3>2. \A r \in Rep(x)' : r.block = c => r \in Rep(x)
        BY <2>2
      <3>3. Single => x # n
        BY <2>2 DEF Single
      <3>4. Carries(x, c)
        BY <1>7, <3>1, <3>2, <3>3 DEF Carries
      <3> QED BY <3>4
    <2> QED BY <2>1, <2>2
  <1> QED BY <1>3, <1>4, <1>5, <1>7, InvStep

------------------------------------------------------------------------------
(* The actions. *)
LEMMA ProcessInv ==
  ASSUME SixPInv, NEW n \in Node, NEW b \in Block, process_trans(n, b)
  PROVE  SixPInv'
  <1> DEFINE t == trans[n][b]
             u == CASE t.state = "TERMINATING" -> Unused
                    [] t.state # "TERMINATING" /\ Over(t) -> Transit(t, "TERMINATING")
                    [] OTHER -> AwaitNext(t)
  <1>1. /\ t.used /\ trans' = [trans EXCEPT ![n][b] = u]
        /\ nbr' = nbr /\ inbox' = inbox /\ reports' = reports /\ offered' = offered
        /\ delivered' = delivered /\ res_storage' = res_storage
        /\ schedule' = schedule /\ requests' = requests /\ reused' = reused
    BY DEF process_trans, macVars
  <1>2. t \in Transaction /\ TypeOK
    BY <1>1, UsedBlock DEF SixPInv
  <1>3. /\ u \in Transaction \cup {Unused}
        /\ u.used => /\ Keeps(u, t) /\ (u.cb => t.cb)
                     /\ u.state = "INIT" => t.state = "INIT"
    <2>1. CASE t.state = "TERMINATING"
      BY <2>1 DEF Unused
    <2>2. CASE t.state # "TERMINATING" /\ Over(t)
      <3>1. u = Transit(t, "TERMINATING")
        BY <2>2
      <3>2. "TERMINATING" \in State
        BY DEF State
      <3> QED BY <1>2, <3>1, <3>2, TransitFields DEF Keeps, Legal
    <2>3. CASE t.state # "TERMINATING" /\ ~ Over(t)
      <3>1. u = AwaitNext(t)
        BY <2>3
      <3> QED BY <1>2, <3>1, AwaitFields DEF Keeps
    <2> QED BY <2>1, <2>2, <2>3
  <1> HIDE DEF u
  <1>4. Sets(n, b, u)
    BY <1>1, <1>2, <1>3, SetBlock
  <1>5. u.used /\ u.state = "INIT" /\ u.cmd = "CLEAR" => nbr'[n][u.peer] = 0
    BY <1>1, <1>3 DEF SixPInv, ClearReset, Keeps
  <1> QED BY <1>1, <1>2, <1>3, <1>4, <1>5, BlockStep, Types, SameFrames, SameReports

LEMMA TimeoutInv ==
  ASSUME SixPInv, NEW n \in Node, NEW b \in Block, handle_trans_timeout(n, b)
  PROVE  SixPInv'
  <1> DEFINE t == trans[n][b]
             u == Transit(t, "TERMINATING")
  <1>1. /\ t.used /\ trans' = [trans EXCEPT ![n][b] = u]
        /\ nbr' = nbr /\ inbox' = inbox /\ reports' = reports /\ offered' = offered
        /\ delivered' = delivered /\ res_storage' = res_storage
        /\ schedule' = schedule /\ requests' = requests /\ reused' = reused
    BY DEF handle_trans_timeout, macVars
  <1>2. t \in Transaction /\ TypeOK
    BY <1>1, UsedBlock DEF SixPInv
  <1>3. /\ Keeps(u, t) /\ u.cb = t.cb /\ u.state = "TERMINATING"
        /\ u \in Transaction
    <2>1. "TERMINATING" \in State
      BY DEF State
    <2> QED BY <1>2, <2>1, TransitFields DEF Legal, Keeps
  <1> HIDE DEF u
  <1>4. Sets(n, b, u)
    BY <1>1, <1>2, <1>3, SetBlock
  <1> QED BY <1>1, <1>2, <1>3, <1>4, BlockStep, Types, SameFrames, SameReports

LEMMA ResponseInv ==
  ASSUME SixPInv, NEW n \in Node, sixp_input(n), Head(inbox[n]).pkt.type = "RESPONSE"
  PROVE  SixPInv'
  <1> DEFINE h == Head(inbox[n])
             box == [inbox EXCEPT ![n] = Tail(@)]
             m == h.src
             pkt == h.pkt
             b == CHOOSE x \in With(n, m) : TRUE
             t == trans[n][b]
             u == Transit(t, "RESPONSE_RECEIVED")
  <1>1. TypeOK /\ inbox[n] # <<>> /\ requests' = requests
    BY DEF SixPInv, sixp_input
  <1>2. input_response(n, m, pkt)
    BY DEF sixp_input
  <1>3. /\ box \in [Node -> Seq(Frame)] /\ h \in Frame /\ h \in Fly(n)
        /\ \A x \in Node : Elements(box[x]) \subseteq Fly(x)
    BY <1>1, TakeFrame
  <1>4. m \in Node /\ pkt \in ResponsePacket /\ pkt.id \in Id
    BY <1>3 DEF Frame, Packet, RequestPacket, ResponsePacket
  <1>5. /\ inbox' = box /\ nbr' = nbr /\ reports' = reports
        /\ res_storage' = res_storage /\ offered' = offered
        /\ delivered' = delivered /\ reused' = reused
        /\ IF \A c \in With(n, m) : trans[n][c].seqno # pkt.seqno
           THEN UNCHANGED <<trans, schedule>>
           ELSE /\ trans' = [trans EXCEPT ![n][b] = u]
                /\ schedule' =
                     IF /\ Legal(t, "RESPONSE_RECEIVED") /\ pkt.code = "SUCCESS"
                        /\ t.cmd \in {"ADD", "DELETE"}
                     THEN Change(n, pkt.id, pkt.id)
                     ELSE schedule
    BY <1>2 DEF input_response
  <1> HIDE DEF h, box
  <1>6. \A x \in Node : \A f \in Fly(x)' : f \in Fly(x)
    BY <1>3, <1>5 DEF Fly
  <1>7. CASE \A c \in With(n, m) : trans[n][c].seqno # pkt.seqno
    BY <1>1, <1>3, <1>4, <1>5, <1>6, <1>7, OtherStep, Types, SameReports
  <1>8. CASE ~ \A c \in With(n, m) : trans[n][c].seqno # pkt.seqno
    <2>1. b \in With(n, m)
      BY <1>8
    <2>2. b \in Block /\ t.used
      BY <2>1 DEF With
    <2>3. t \in Transaction
      BY <1>1, <2>2, UsedBlock
    <2>4. /\ Keeps(u, t) /\ u.cb = t.cb /\ u.state # "INIT" /\ u \in Transaction
      <3>1. "RESPONSE_RECEIVED" \in State
        BY DEF State
      <3> QED BY <2>3, <3>1, TransitFields DEF Legal, Keeps
    <2>5. schedule' = schedule \/ (pkt.code = "SUCCESS" /\ schedule' = Change(n, pkt.id, pkt.id))
      BY <1>5, <1>8
    <2>6. trans' = [trans EXCEPT ![n][b] = u]
      BY <1>5, <1>8
    <2> HIDE DEF u, b
    <2>7. Sets(n, b, u)
      BY <1>1, <2>2, <2>4, <2>6, SetBlock
    <2>8. /\ schedule' \in [Node -> SUBSET Changed]
          /\ \A x \in Node : \A d \in schedule'[x] : d \in schedule[x] \/ ChangeDue(d, x)
      <3>1. CASE schedule' = schedule
        BY <1>1, <3>1, Types
      <3>2. CASE pkt.code = "SUCCESS" /\ schedule' = Change(n, pkt.id, pkt.id)
        <4> DEFINE d == [id |-> pkt.id, cells |-> pkt.id]
        <4>1. d \in Changed /\ d.id = pkt.id /\ d.cells = pkt.id
          BY <1>4 DEF Changed
        <4>2. pkt.id \in offered /\ pkt.id \in delivered
          BY <1>3, <3>2 DEF SixPInv, FramesDue
        <4>3. ChangeDue(d, n)
          BY <4>1, <4>2 DEF ChangeDue
        <4>4. schedule' = [schedule EXCEPT ![n] = @ \cup {d}]
          BY <3>2 DEF Change
        <4> HIDE DEF d
        <4> QED BY <1>1, <4>1, <4>3, <4>4, Types
      <3> QED BY <2>5, <3>1, <3>2
    <2>9. inbox' \in [Node -> Seq(Frame)]
      BY <1>3, <1>5
    <2> QED BY <1>1, <1>5, <1>6, <2>2, <2>3, <2>4, <2>7, <2>8, <2>9, BlockStep, Types,
               SameReports
  <1> QED BY <1>7, <1>8

LEMMA CallbackInv ==
  ASSUME SixPInv, NEW n \in Node, mac_callback(n)
  PROVE  SixPInv'
  <1> DEFINE r == Head(reports[n])
             t == trans[n][r.block]
             new == IF ~ t.used THEN "UNEXPECTED"
                    ELSE IF ~ r.ok
                    THEN IF t.state = "INIT" THEN "TERMINATING" ELSE t.state
                    ELSE CASE t.state = "INIT" -> "REQUEST_SENT"
                           [] t.state = "REQUEST_RECEIVED" -> "RESPONSE_SENT"
                           [] t.state = "RESPONSE_RECEIVED" -> "CONFIRMATION_SENT"
                           [] OTHER -> "UNEXPECTED"
             w == [(IF new = t.state THEN t ELSE Transit(t, new)) EXCEPT !.cb = FALSE]
  <1>1. TypeOK
    BY DEF SixPInv
  <1>2. /\ reports[n] # <<>>
        /\ reports' = [reports EXCEPT ![n] = Tail(@)]
        /\ CASE new = "UNEXPECTED" -> UNCHANGED <<trans, nbr, schedule>>
             [] new \notin {"UNEXPECTED", t.state} /\ ~ Legal(t, new) ->
                  /\ trans' = [trans EXCEPT ![n][r.block] = Transit(t, new)]
                  /\ UNCHANGED <<nbr, schedule>>
             [] OTHER ->
                  /\ trans' = [trans EXCEPT ![n][r.block] = w]
                  /\ nbr' = [nbr EXCEPT ![n][t.peer] =
                               IF new = t.state THEN @ ELSE NextSeqno(@, t, new)]
                  /\ schedule' = IF Updates(r, t)
                                 THEN Change(n, t.id, res_storage[n])
                                 ELSE schedule
        /\ inbox' = inbox /\ requests' = requests /\ res_storage' = res_storage
        /\ offered' = offered /\ delivered' = delivered /\ reused' = reused
    BY DEF mac_callback
  <1>3. /\ r \in Report /\ r \in Rep(n) /\ r.block \in Block
        /\ reports' \in [Node -> Seq(Report)]
        /\ \A x \in Node : \A e \in Rep(x)' : e \in Rep(x)
    BY <1>1, <1>2, TakeReport DEF Report
  <1>4. nbr \in [Node -> [Node -> 0..NoNbr]]
    BY <1>1, Types
  <1> HIDE DEF r
  <1>5. CASE \/ ~ t.used
             \/ r.ok /\ t.state \notin {"INIT", "REQUEST_RECEIVED", "RESPONSE_RECEIVED"}
    <2>1. new = "UNEXPECTED"
      BY <1>5
    <2>2. trans' = trans /\ nbr' = nbr /\ schedule' = schedule
      <3> HIDE DEF new
      <3> QED BY <1>2, <2>1
    <2> QED BY <1>1, <1>2, <1>3, <2>2, OtherStep, Types, SameFrames
  <1>6. CASE t.used /\ ~ (r.ok /\ t.state \notin {"INIT", "REQUEST_RECEIVED", "RESPONSE_RECEIVED"})
    <2>1. t \in Transaction
      BY <1>1, <1>3, <1>6, UsedBlock
    <2>2. t.state \in State /\ t.peer \in Node /\ t.id \in Id
      BY <2>1 DEF Transaction, State
    <2>3. new \in State
      BY <1>6, <2>2 DEF State
    <2>4. new # "UNEXPECTED"
      BY <2>3 DEF State
    <2>5. /\ t.state = "INIT" => new \in {"TERMINATING", "REQUEST_SENT"}
          /\ new = "INIT" => t.state = "INIT"
      BY <1>6
    <2>6. new # "INIT"
      BY <2>5
    <2> HIDE DEF new, t
    <2>7. CASE new # t.state /\ ~ Legal(t, new)
      <3> DEFINE u == Transit(t, new)
      <3>1. /\ trans' = [trans EXCEPT ![n][r.block] = u]
            /\ nbr' = nbr /\ schedule' = schedule
        BY <1>2, <2>4, <2>7
      <3>2. /\ u \in Transaction /\ Keeps(u, t) /\ u.cb = t.cb
            /\ u.state = "TERMINATING"
        BY <2>1, <2>3, <2>7, TransitFields DEF Keeps
      <3> HIDE DEF u
      <3>3. Sets(n, r.block, u)
        BY <1>1, <1>3, <3>1, <3>2, SetBlock
      <3> QED BY <1>1, <1>2, <1>3, <1>6, <3>1, <3>2, <3>3, BlockStep, Types, SameFrames DEF t
    <2>8. CASE new = t.state \/ Legal(t, new)
      <3>1. /\ trans' = [trans EXCEPT ![n][r.block] = w]
            /\ nbr' = [nbr EXCEPT ![n][t.peer] =
                         IF new = t.state THEN @ ELSE NextSeqno(@, t, new)]
            /\ schedule' = IF Updates(r, t)
                           THEN Change(n, t.id, res_storage[n])
                           ELSE schedule
        BY <1>2, <2>4, <2>8
      <3>2. /\ nbr' \in [Node -> [Node -> 0..NoNbr]]
            /\ \A x, y \in Node : (x # n \/ y # t.peer) => nbr'[x][y] = nbr[x][y]
        <4> DEFINE v == IF new = t.state THEN nbr[n][t.peer]
                        ELSE NextSeqno(nbr[n][t.peer], t, new)
        <4>1. nbr' = [nbr EXCEPT ![n][t.peer] = v]
          BY <3>1
        <4>2. v \in 0..NoNbr
          BY <1>4, <2>1, <2>2, SeqnoRange
        <4> HIDE DEF v
        <4> QED BY <1>4, <2>2, <4>1, <4>2
      <3> DEFINE c == IF new = t.state THEN t ELSE Transit(t, new)
      <3>3. c \in Transaction /\ Keeps(c, t) /\ c.state = new
        <4>1. CASE new = t.state
          BY <2>1, <4>1 DEF Keeps, Transaction
        <4>2. CASE new # t.state
          BY <2>1, <2>3, <2>8, <4>2, TransitFields DEF Keeps
        <4> QED BY <4>1, <4>2
      <3> HIDE DEF c
      <3>4. w = [c EXCEPT !.cb = FALSE]
        BY DEF c
      <3> HIDE DEF w
      <3>5. w \in Transaction /\ Keeps(w, t) /\ w.state = new /\ w.cb = FALSE
        BY <3>3, <3>4, CbFields DEF Keeps
      <3>6. Sets(n, r.block, w)
        BY <1>1, <1>3, <3>1, <3>5, SetBlock
      <3>7. /\ schedule' \in [Node -> SUBSET Changed]
            /\ \A x \in Node : \A e \in schedule'[x] : e \in schedule[x] \/ ChangeDue(e, x)
        <4>1. CASE ~ Updates(r, t)
          BY <1>1, <3>1, <4>1, Types
        <4>2. CASE Updates(r, t)
          <5> DEFINE d == [id |-> t.id, cells |-> res_storage[n]]
          <5>1. d \in Changed /\ d.id = t.id /\ d.cells = res_storage[n]
            BY <1>1, <2>2, Types DEF Changed
          <5>2. Due(t.id, n, r.block)
            BY <1>3, <1>6, <4>2 DEF SixPInv, CallbacksDue, Updates, t
          <5>3. ChangeDue(d, n)
            BY <1>3, <4>2, <5>1, <5>2 DEF Due, ChangeDue, Updates
          <5>4. schedule' = [schedule EXCEPT ![n] = @ \cup {d}]
            BY <3>1, <4>2 DEF Change
          <5> HIDE DEF d
          <5> QED BY <1>1, <5>1, <5>3, <5>4, Types
        <4> QED BY <4>1, <4>2
      <3>8. /\ trans[n][r.block].used /\ w.used
            /\ w.used => Keeps(w, trans[n][r.block]) /\ (w.cb => trans[n][r.block].cb)
            /\ \A x, y \in Node :
                 (x # n \/ y # trans[n][r.block].peer) => nbr'[x][y] = nbr[x][y]
            /\ ~ (w.used /\ w.state = "INIT" /\ w.cmd = "CLEAR")
            /\ w \in Transaction \cup {Unused}
        BY <1>6, <2>6, <3>2, <3>5 DEF t, Keeps
      <3>9. /\ inbox' \in [Node -> Seq(Frame)]
            /\ \A x \in Node : \A f \in Fly(x)' : f \in Fly(x)
        BY <1>1, <1>2, Types, SameFrames
      <3> HIDE DEF t
      <3> QED BY <1>2, <1>3, <3>2, <3>6, <3>7, <3>8, <3>9, BlockStep
    <2> QED BY <2>7, <2>8
  <1> QED BY <1>5, <1>6

LEMMA NoBlockIsNone == \A b \in Block : b # NoBlock
  BY SixPAssumption

LEMMA OutputInv ==
  ASSUME SixPInv, NEW n \in Node, NEW m \in Node, NEW cmd \in Command,
         NEW steps \in {2, 3}, output_request(n, m, cmd, steps)
  PROVE  SixPInv'
  <1> DEFINE seqno == IF nbr[n][m] = NoNbr THEN 0 ELSE nbr[n][m]
             pkt == Pkt("REQUEST", cmd, steps, seqno, requests + 1)
             b == CHOOSE x \in Free(n) : TRUE
             u == NewTrans(pkt, m)
             v == ResetSeqno(cmd, seqno)
  <1>1. /\ requests < MaxRequests /\ With(n, m) = {} /\ requests' = requests + 1
        /\ nbr' = [nbr EXCEPT ![n][m] = v]
        /\ IF Free(n) = {}
           THEN UNCHANGED <<trans, macVars, reused>>
           ELSE /\ trans' = [trans EXCEPT ![n][b] = u]
                /\ reused' = Reused(n, b, pkt.id)
                /\ Send(n, m, pkt, b, inbox)
        /\ res_storage' = res_storage /\ schedule' = schedule
    BY DEF output_request
  <1>2. TypeOK
    BY DEF SixPInv
  <1>3. /\ requests' \in 0..MaxRequests /\ requests + 1 \in Id
        /\ SeqMod \in Nat /\ SeqMod > 1 /\ nbr \in [Node -> [Node -> 0..NoNbr]]
    BY <1>1, <1>2, SixPAssumption, Types DEF Id
  <1>4. seqno \in 0..(SeqMod - 1) /\ v \in 0..NoNbr
    <2>1. nbr[n][m] \in 0..SeqMod
      BY <1>3 DEF NoNbr
    <2>2. seqno \in 0..(SeqMod - 1)
      <3>1. CASE nbr[n][m] = NoNbr
        BY <1>3, <3>1
      <3>2. CASE nbr[n][m] # NoNbr
        <4> DEFINE w == nbr[n][m]
        <4>1. seqno = w /\ w \in 0..SeqMod /\ w # SeqMod
          BY <2>1, <3>2 DEF NoNbr
        <4> HIDE DEF w, seqno
        <4> QED BY <1>3, <4>1
      <3> QED BY <3>1, <3>2
    <2> HIDE DEF seqno
    <2>3. v \in {0, seqno}
      BY DEF ResetSeqno
    <2> QED BY <1>3, <2>2, <2>3 DEF NoNbr
  <1>5. cmd = "CLEAR" => v = 0
    BY DEF ResetSeqno
  <1>6. pkt \in RequestPacket /\ pkt.code = cmd /\ pkt.code # "SUCCESS"
    BY <1>3, <1>4, PktFields DEF RequestPacket, Command
  <1> HIDE DEF v, seqno
  <1>7. /\ nbr' \in [Node -> [Node -> 0..NoNbr]] /\ nbr'[n][m] = v
        /\ \A x, y \in Node : (x # n \/ y # m) => nbr'[x][y] = nbr[x][y]
    BY <1>1, <1>3, <1>4
  <1>8. CASE Free(n) = {}
    <2>1. /\ trans' = trans /\ inbox' = inbox /\ reports' = reports
          /\ offered' = offered /\ delivered' = delivered /\ reused' = reused
      BY <1>1, <1>8 DEF macVars
    <2>2. /\ inbox' \in [Node -> Seq(Frame)] /\ reports' \in [Node -> Seq(Report)]
          /\ \A x \in Node : \A f \in Fly(x)' : f \in Fly(x) \/ f.pkt.code # "SUCCESS"
          /\ \A x \in Node : \A r \in Rep(x)' : r \in Rep(x)
      BY <1>2, <2>1, Types, SameFrames, SameReports
    <2>3. /\ With(n, m) = {} /\ res_storage' = res_storage /\ schedule' = schedule
          /\ requests' \in 0..MaxRequests
      BY <1>1, <1>3
    <2> QED BY <1>7, <2>1, <2>2, <2>3, OtherStep
  <1>9. CASE Free(n) # {}
    <2> HIDE DEF pkt
    <2>1. b \in Block /\ ~ trans[n][b].used
      BY <1>9, FreeBlock
    <2>2. /\ u \in Transaction /\ u.used /\ u.peer = m /\ u.cmd = cmd
          /\ u.cb = FALSE /\ u.id = pkt.id
      BY <1>6, NewFields
    <2>3. /\ trans' = [trans EXCEPT ![n][b] = u]
          /\ reused' = Reused(n, b, pkt.id)
          /\ Send(n, m, pkt, b, inbox)
      BY <1>1, <1>9
    <2> HIDE DEF b, u
    <2>4. Sets(n, b, u)
      BY <1>2, <2>1, <2>2, <2>3, SetBlock
    <2>5. PICK arrives, ok \in BOOLEAN : Sends(n, pkt, b, inbox, arrives, ok)
      BY <1>2, <1>6, <2>1, <2>3, SendEffect, Types DEF Packet
    <2>6. /\ offered' = offered /\ delivered' = delivered
          /\ offered \subseteq Id /\ delivered \subseteq Id
      BY <1>2, <1>6, <2>5, Types DEF Sends
    <2>7. /\ inbox' \in [Node -> Seq(Frame)] /\ reports' \in [Node -> Seq(Report)]
          /\ \A x \in Node : \A f \in Fly(x)' : f \in Fly(x) \/ f.pkt.code # "SUCCESS"
          /\ \A x \in Node : \A r \in Rep(x)' :
               r \in Rep(x) \/ (x = n /\ r.block = b)
      BY <1>6, <2>5 DEF Sends, Fly
    <2>8. reused' = Reused(n, b, u.id) /\ With(n, u.peer) = {} /\ ~ u.cb
      BY <1>1, <2>2, <2>3
    <2>9. u.state = "INIT" /\ u.cmd = "CLEAR" => nbr'[n][u.peer] = 0
      BY <1>5, <1>7, <2>2
    <2>10. \A x, y \in Node : (x # n \/ y # u.peer) => nbr'[x][y] = nbr[x][y]
      BY <1>7, <2>2
    <2>11. /\ res_storage' \in [Node -> Id \cup {NoCells}]
           /\ \A x \in Node : x # n => res_storage'[x] = res_storage[x]
           /\ requests' \in 0..MaxRequests /\ schedule' = schedule
      BY <1>1, <1>2, <1>3, Types
    <2>12. /\ offered \subseteq offered' /\ delivered \subseteq delivered'
           /\ offered' \subseteq Id /\ delivered' \subseteq Id
      BY <2>6
    <2>13. /\ \A x \in Node : \A f \in Fly(x)' :
                \/ f \in Fly(x)
                \/ f.pkt.code = "SUCCESS" =>
                     f.pkt.id \in offered' /\ f.pkt.id \in delivered'
           /\ \A x \in Node : \A r \in Rep(x)' :
                \/ r \in Rep(x)
                \/ /\ x = n /\ r.block = b
                   /\ u.cb /\ r.ok => u.id \in delivered'
           /\ u.cb => u.id \in offered' /\ res_storage'[n] = u.id
      BY <2>7, <2>8
    <2>14. /\ inbox' \in [Node -> Seq(Frame)] /\ reports' \in [Node -> Seq(Report)]
           /\ nbr' \in [Node -> [Node -> 0..NoNbr]]
      BY <1>7, <2>7
    <2>15. u \in Transaction /\ u.used
      BY <2>2
    <2>16. reused' = Reused(n, b, u.id) /\ With(n, u.peer) = {}
      BY <2>8
    <2> QED BY <2>1, <2>4, <2>9, <2>10, <2>11, <2>12, <2>13, <2>14, <2>15, <2>16, AllocStep
  <1> QED BY <1>8, <1>9

(* What the answer to a request does, be it accepted or refused. *)
LEMMA RefuseEffect ==
  ASSUME TypeOK, NEW n \in Node, inbox[n] # <<>>, NEW m \in Node,
         NEW pkt \in RequestPacket, NEW code \in {"BUSY", "ERR_SEQNUM"},
         NEW seqno \in 0..(SeqMod - 1), RefuseRequest(n, m, pkt, code, seqno)
  PROVE  /\ inbox' \in [Node -> Seq(Frame)] /\ reports' \in [Node -> Seq(Report)]
         /\ \A x \in Node : \A f \in Fly(x)' : f \in Fly(x) \/ f.pkt.code # "SUCCESS"
         /\ \A x \in Node : \A r \in Rep(x)' : r \in Rep(x)
         /\ offered' = offered /\ delivered' = delivered
  <1> DEFINE p == Pkt("RESPONSE", code, pkt.steps, seqno, pkt.id)
             box == [inbox EXCEPT ![n] = Tail(@)]
  <1>1. p \in Packet /\ p.code # "SUCCESS"
    <2>1. pkt.steps \in {2, 3} /\ pkt.id \in Id
      BY DEF RequestPacket
    <2> QED BY <2>1, PktFields DEF Packet, ResponsePacket
  <1>2. Send(n, m, p, NoBlock, box)
    BY DEF RefuseRequest
  <1>3. box \in [Node -> Seq(Frame)] /\ \A x \in Node : Elements(box[x]) \subseteq Fly(x)
    BY TakeFrame
  <1> HIDE DEF p, box
  <1>4. PICK arrives, ok \in BOOLEAN : Sends(n, p, NoBlock, box, arrives, ok)
    BY <1>1, <1>2, <1>3, SendEffect
  <1> QED BY <1>1, <1>3, <1>4 DEF Sends

LEMMA RequestInv ==
  ASSUME SixPInv, NEW n \in Node, sixp_input(n), Head(inbox[n]).pkt.type = "REQUEST"
  PROVE  SixPInv'
  <1> DEFINE h == Head(inbox[n])
             box == [inbox EXCEPT ![n] = Tail(@)]
             m == h.src
             pkt == h.pkt
             v == IF pkt.code = "CLEAR" /\ nbr[n][m] # NoNbr THEN 0 ELSE nbr[n][m]
             b == CHOOSE x \in Free(n) : TRUE
             t == Transit(NewTrans(pkt, m), "REQUEST_RECEIVED")
  <1>1. TypeOK /\ inbox[n] # <<>> /\ requests' = requests /\ schedule' = schedule
    BY DEF SixPInv, sixp_input
  <1>2. input_request(n, m, pkt)
    BY DEF sixp_input
  <1>3. /\ box \in [Node -> Seq(Frame)] /\ h \in Frame
        /\ \A x \in Node : Elements(box[x]) \subseteq Fly(x)
    BY <1>1, TakeFrame
  <1>4. /\ m \in Node /\ pkt \in RequestPacket /\ pkt.id \in Id
        /\ pkt.steps \in {2, 3} /\ pkt.seqno \in 0..(SeqMod - 1)
    BY <1>3 DEF Frame, Packet, RequestPacket, ResponsePacket
  <1>5. /\ v \in 0..NoNbr /\ nbr \in [Node -> [Node -> 0..NoNbr]]
        /\ SeqMod \in Nat /\ SeqMod > 1
        /\ requests \in 0..MaxRequests
    BY <1>1, <1>4, SixPAssumption, Types DEF NoNbr
  <1>6. \/ /\ With(n, m) # {}
           /\ RefuseRequest(n, m, pkt, "BUSY", pkt.seqno)
           /\ UNCHANGED <<trans, nbr, res_storage, reused>>
        \/ /\ With(n, m) = {} /\ Free(n) = {}
           /\ RefuseRequest(n, m, pkt, "BUSY", pkt.seqno)
           /\ nbr' = [nbr EXCEPT ![n][m] = v]
           /\ UNCHANGED <<trans, res_storage, reused>>
        \/ /\ With(n, m) = {} /\ Free(n) # {}
           /\ reused' = Reused(n, b, pkt.id)
           /\ IF Inconsistent(v, pkt)
              THEN /\ RefuseRequest(n, m, pkt, "ERR_SEQNUM", IF v = NoNbr THEN 0 ELSE v)
                   /\ nbr' = [nbr EXCEPT ![n][m] = v]
                   /\ trans' = [trans EXCEPT ![n][b] = t]
                   /\ UNCHANGED res_storage
              ELSE request_input(n, m, pkt, b, t, v)
    BY <1>2, Zenon DEF input_request
  <1> HIDE DEF h, box, v
  <1>7. CASE /\ With(n, m) # {}
             /\ RefuseRequest(n, m, pkt, "BUSY", pkt.seqno)
             /\ UNCHANGED <<trans, nbr, res_storage, reused>>
    BY <1>1, <1>4, <1>5, <1>7, RefuseEffect, OtherStep
  <1>8. CASE /\ With(n, m) = {} /\ Free(n) = {}
             /\ RefuseRequest(n, m, pkt, "BUSY", pkt.seqno)
             /\ nbr' = [nbr EXCEPT ![n][m] = v]
             /\ UNCHANGED <<trans, res_storage, reused>>
    <2>1. /\ nbr' \in [Node -> [Node -> 0..NoNbr]]
          /\ \A x, y \in Node : (x # n \/ y # m) => nbr'[x][y] = nbr[x][y]
      BY <1>4, <1>5, <1>8
    <2>2. /\ inbox' \in [Node -> Seq(Frame)] /\ reports' \in [Node -> Seq(Report)]
          /\ \A x \in Node : \A f \in Fly(x)' : f \in Fly(x) \/ f.pkt.code # "SUCCESS"
          /\ \A x \in Node : \A r \in Rep(x)' : r \in Rep(x)
          /\ offered' = offered /\ delivered' = delivered
      BY <1>1, <1>4, <1>8, RefuseEffect
    <2>3. /\ With(n, m) = {} /\ trans' = trans /\ res_storage' = res_storage
          /\ reused' = reused
      BY <1>8
    <2> QED BY <1>1, <1>4, <1>5, <2>1, <2>2, <2>3, OtherStep
  <1>9. CASE /\ With(n, m) = {} /\ Free(n) # {}
             /\ reused' = Reused(n, b, pkt.id)
             /\ IF Inconsistent(v, pkt)
                THEN /\ RefuseRequest(n, m, pkt, "ERR_SEQNUM", IF v = NoNbr THEN 0 ELSE v)
                     /\ nbr' = [nbr EXCEPT ![n][m] = v]
                     /\ trans' = [trans EXCEPT ![n][b] = t]
                     /\ UNCHANGED res_storage
                ELSE request_input(n, m, pkt, b, t, v)
    <2>1. b \in Block /\ ~ trans[n][b].used /\ b # NoBlock
      BY <1>9, FreeBlock, NoBlockIsNone
    <2>2. /\ t \in Transaction /\ t.used /\ t.peer = m /\ t.id = pkt.id
          /\ t.state # "INIT" /\ t.cb = FALSE /\ t.mode = pkt.steps
          /\ t.seqno = pkt.seqno
      <3>1. "REQUEST_RECEIVED" \in State
        BY DEF State
      <3> DEFINE u == NewTrans(pkt, m)
      <3>2. /\ u \in Transaction /\ u.used /\ u.peer = m /\ u.id = pkt.id
            /\ u.cb = FALSE /\ u.mode = pkt.steps /\ u.seqno = pkt.seqno
        BY <1>4, NewFields
      <3> HIDE DEF u
      <3>3. /\ Keeps(Transit(u, "REQUEST_RECEIVED"), u)
            /\ Transit(u, "REQUEST_RECEIVED").cb = u.cb
            /\ Transit(u, "REQUEST_RECEIVED").seqno = u.seqno
            /\ Transit(u, "REQUEST_RECEIVED").mode = u.mode
            /\ Transit(u, "REQUEST_RECEIVED").state # "INIT"
        BY <3>1, <3>2, TransitFields
      <3>4. t = Transit(u, "REQUEST_RECEIVED")
        BY DEF u
      <3> HIDE DEF t
      <3> QED BY <3>2, <3>3, <3>4 DEF Keeps
    <2> HIDE DEF b, t
    <2>3. reused' = Reused(n, b, t.id) /\ With(n, t.peer) = {}
      BY <1>9, <2>2
    <2>4. res_storage \in [Node -> Id \cup {NoCells}]
          /\ offered \subseteq Id /\ delivered \subseteq Id
      BY <1>1, Types
    <2>5. CASE Inconsistent(v, pkt)
      <3> DEFINE q == IF v = NoNbr THEN 0 ELSE v
      <3>1. /\ RefuseRequest(n, m, pkt, "ERR_SEQNUM", q)
            /\ nbr' = [nbr EXCEPT ![n][m] = v]
            /\ trans' = [trans EXCEPT ![n][b] = t]
            /\ res_storage' = res_storage
        BY <1>9, <2>5
      <3>2. q \in 0..(SeqMod - 1)
        BY <1>5 DEF NoNbr
      <3> HIDE DEF q
      <3>3. Sets(n, b, t)
        BY <1>1, <2>1, <2>2, <3>1, SetBlock
      <3>4. /\ nbr' \in [Node -> [Node -> 0..NoNbr]]
            /\ \A x, y \in Node : (x # n \/ y # t.peer) => nbr'[x][y] = nbr[x][y]
        BY <1>4, <1>5, <2>2, <3>1
      <3>5. /\ inbox' \in [Node -> Seq(Frame)] /\ reports' \in [Node -> Seq(Report)]
            /\ \A x \in Node : \A f \in Fly(x)' : f \in Fly(x) \/ f.pkt.code # "SUCCESS"
            /\ \A x \in Node : \A r \in Rep(x)' : r \in Rep(x)
            /\ offered' = offered /\ delivered' = delivered
        BY <1>1, <1>4, <3>1, <3>2, RefuseEffect
      <3>6. /\ offered \subseteq offered' /\ delivered \subseteq delivered'
            /\ offered' \subseteq Id /\ delivered' \subseteq Id
            /\ res_storage' \in [Node -> Id \cup {NoCells}]
            /\ \A x \in Node : x # n => res_storage'[x] = res_storage[x]
            /\ requests' \in 0..MaxRequests
        BY <1>1, <1>5, <2>4, <3>1, <3>5
      <3>7. \A x \in Node : \A f \in Fly(x)' :
              \/ f \in Fly(x)
              \/ f.pkt.code = "SUCCESS" =>
                   f.pkt.id \in offered' /\ f.pkt.id \in delivered'
        BY <3>5
      <3> QED BY <1>1, <2>1, <2>2, <2>3, <3>3, <3>4, <3>5, <3>6, <3>7, AllocStep
    <2>6. CASE ~ Inconsistent(v, pkt)
      <3>1. request_input(n, m, pkt, b, t, v)
        BY <1>9, <2>6
      <3>2. /\ res_storage' \in [Node -> Id \cup {NoCells}]
            /\ Stores(pkt) => res_storage'[n] = pkt.id
            /\ \A x \in Node : x # n => res_storage'[x] = res_storage[x]
        BY <1>4, <2>4, <3>1 DEF request_input
      <3>3. CASE /\ Stores(pkt)
                 /\ nbr' = [nbr EXCEPT ![n][m] = IF v = NoNbr THEN 0 ELSE v]
                 /\ trans' = [trans EXCEPT ![n][b] = [t EXCEPT !.cb = TRUE]]
                 /\ Send(n, m, Pkt("RESPONSE", "SUCCESS", t.mode, t.seqno, t.id), b, box)
        <4> DEFINE u == [t EXCEPT !.cb = TRUE]
                   p == Pkt("RESPONSE", "SUCCESS", t.mode, t.seqno, t.id)
                   w == IF v = NoNbr THEN 0 ELSE v
        <4>1. /\ u \in Transaction /\ u.used /\ u.peer = m /\ u.id = pkt.id
              /\ u.state # "INIT" /\ u.cb = TRUE
          BY <2>2, CbFields DEF Keeps
        <4>2. p \in Packet /\ p.code = "SUCCESS" /\ p.id = pkt.id
          BY <1>4, <2>2, PktFields DEF Packet, ResponsePacket
        <4>3. w \in 0..NoNbr
          BY <1>5 DEF NoNbr
        <4> HIDE DEF u, p, w
        <4>4. /\ nbr' = [nbr EXCEPT ![n][m] = w] /\ trans' = [trans EXCEPT ![n][b] = u]
              /\ Send(n, m, p, b, box)
          BY <3>3 DEF u, p, w
        <4>5. Sets(n, b, u)
          BY <1>1, <2>1, <4>1, <4>4, SetBlock
        <4>6. PICK arrives, ok \in BOOLEAN : Sends(n, p, b, box, arrives, ok)
          BY <1>1, <1>3, <1>4, <2>1, <4>2, <4>4, SendEffect
        <4>7. /\ offered' = offered \cup {u.id}
              /\ delivered' = IF arrives THEN delivered \cup {u.id} ELSE delivered
              /\ offered' \subseteq Id /\ delivered' \subseteq Id
          BY <1>4, <2>4, <4>1, <4>2, <4>6 DEF Sends
        <4>8. /\ inbox' \in [Node -> Seq(Frame)] /\ reports' \in [Node -> Seq(Report)]
              /\ \A x \in Node : \A f \in Fly(x)' :
                   f \in Fly(x) \/ (f.pkt.id \in offered' /\ f.pkt.id \in delivered')
          BY <1>3, <4>1, <4>2, <4>6, <4>7 DEF Sends
        <4>9. \A x \in Node : \A r \in Rep(x)' :
                \/ r \in Rep(x)
                \/ x = n /\ r.block = b /\ (u.cb /\ r.ok => u.id \in delivered')
          BY <4>6, <4>7 DEF Sends
        <4>10. /\ nbr' \in [Node -> [Node -> 0..NoNbr]]
               /\ \A x, y \in Node : (x # n \/ y # u.peer) => nbr'[x][y] = nbr[x][y]
          BY <1>4, <1>5, <4>1, <4>3, <4>4
        <4>11. reused' = Reused(n, b, u.id) /\ With(n, u.peer) = {}
          BY <2>2, <2>3, <4>1
        <4>12. u.id \in offered' /\ res_storage'[n] = u.id
          BY <3>2, <3>3, <4>1, <4>7
        <4>13. offered \subseteq offered' /\ delivered \subseteq delivered'
          BY <4>7
        <4>14. requests' \in 0..MaxRequests
          BY <1>1, <1>5
        <4> QED BY <1>1, <2>1, <3>2, <4>1, <4>5, <4>7, <4>8, <4>9, <4>10, <4>11,
                   <4>12, <4>13, <4>14, AllocStep
      <3>4. CASE /\ nbr' = [nbr EXCEPT ![n][m] = v]
                 /\ trans' = [trans EXCEPT ![n][b] = t]
                 /\ inbox' = box
                 /\ UNCHANGED <<reports, offered, delivered>>
        <4>1. Sets(n, b, t)
          BY <1>1, <2>1, <2>2, <3>4, SetBlock
        <4>2. /\ nbr' \in [Node -> [Node -> 0..NoNbr]]
              /\ \A x, y \in Node : (x # n \/ y # t.peer) => nbr'[x][y] = nbr[x][y]
          BY <1>4, <1>5, <2>2, <3>4
        <4>3. /\ inbox' \in [Node -> Seq(Frame)] /\ reports' \in [Node -> Seq(Report)]
              /\ \A x \in Node : \A f \in Fly(x)' : f \in Fly(x)
              /\ \A x \in Node : \A r \in Rep(x)' : r \in Rep(x)
          BY <1>1, <1>3, <3>4, Types, SameReports DEF Fly
        <4>4. /\ offered \subseteq offered' /\ delivered \subseteq delivered'
              /\ offered' \subseteq Id /\ delivered' \subseteq Id
              /\ requests' \in 0..MaxRequests
          BY <1>1, <1>5, <2>4, <3>4
        <4> QED BY <1>1, <2>1, <2>2, <2>3, <3>2, <4>1, <4>2, <4>3, <4>4, AllocStep
      <3> QED BY <3>1, <3>3, <3>4 DEF request_input, box
    <2> QED BY <2>5, <2>6
  <1> QED BY <1>6, <1>7, <1>8, <1>9

LEMMA RequestInput ==
  ASSUME NEW r \in Request
  PROVE  r[1] \in Node /\ r[2] \in Node /\ r[3] \in Command /\ r[4] \in {2, 3}
  BY SixPAssumption DEF Command

LEMMA InitInv == ASSUME Init PROVE SixPInv
  <1>1. TypeOK
    <2>1. 0 \in Nat /\ SeqMod \in Nat /\ MaxRequests \in Nat
      BY SixPAssumption
    <2>2. /\ trans \in [Node -> [Block -> Transaction \cup {Unused}]]
          /\ nbr \in [Node -> [Node -> 0..NoNbr]]
          /\ res_storage \in [Node -> Id \cup {NoCells}]
      BY <2>1 DEF Init, NoNbr
    <2>3. /\ inbox \in [Node -> Seq([pkt : RequestPacket \cup ResponsePacket, src : Node])]
          /\ reports \in [Node -> Seq([block : Block, ok : BOOLEAN])]
      BY DEF Init
    <2>4. /\ schedule \in [Node -> SUBSET [id : Id, cells : Id \cup {NoCells}]]
          /\ requests \in 0..MaxRequests /\ offered \subseteq Id /\ delivered \subseteq Id
          /\ reused \in [Node -> SUBSET Id]
      BY <2>1 DEF Init
    <2> QED BY <2>2, <2>3, <2>4 DEF TypeOK
  <1>2. \A n \in Node : Fly(n) = {} /\ schedule[n] = {}
    BY EmptyElements DEF Init, Fly
  <1>3. \A n \in Node, b \in Block : ~ trans[n][b].used
    BY DEF Init, Unused
  <1> QED BY <1>1, <1>2, <1>3 DEF SixPInv, OnePerPeer, ClearReset, CallbacksDue,
                                  FramesDue, ChangesDue

LEMMA NextInv == ASSUME SixPInv, [Next]_vars PROVE SixPInv'
  <1>1. CASE UNCHANGED vars
    BY <1>1 DEF vars, SixPInv, TypeOK, OnePerPeer, ClearReset, CallbacksDue, Due,
                FramesDue, ChangesDue, ChangeDue, Fly, Rep, Single
  <1>2. ASSUME NEW r \in Request, output_request(r[1], r[2], r[3], r[4])
        PROVE  SixPInv'
    BY <1>2, RequestInput, OutputInv
  <1>3. ASSUME NEW n \in Node, NEW b \in Block, Timer(n, b) PROVE SixPInv'
    BY <1>3, ProcessInv, TimeoutInv DEF Timer
  <1>4. ASSUME NEW n \in Node, mac_callback(n) PROVE SixPInv'
    BY <1>4, CallbackInv
  <1>5. ASSUME NEW n \in Node, sixp_input(n) PROVE SixPInv'
    <2>1. Head(inbox[n]).pkt.type \in {"REQUEST", "RESPONSE"}
      BY <1>5 DEF sixp_input
    <2> QED BY <1>5, <2>1, RequestInv, ResponseInv
  <1> QED BY <1>1, <1>2, <1>3, <1>4, <1>5 DEF Next

LEMMA SixPInvariant == Spec => []SixPInv
  <1>1. Init => SixPInv
    BY InitInv
  <1>2. SixPInv /\ [Next]_vars => SixPInv'
    BY NextInv
  <1> QED BY <1>1, <1>2, PTL DEF Spec

(* For any constants, sixp_trans_transit_state() never fails its assertion *)
(* on the sequence number when a CLEAR request has been sent.              *)
THEOREM ClearIsAsserted == Spec => []ClearAsserted
  <1>1. SixPInv => ClearAsserted
    BY DEF SixPInv, ClearReset, ClearAsserted
  <1> QED BY <1>1, SixPInvariant, PTL

(* For any constants, mac_callback() and response_input() change a         *)
(* schedule only for a request that was accepted, with an answer that      *)
(* arrived unless the block had a report of success waiting for it when it *)
(* was handed out, whatever else is lost, late or stale.                   *)
THEOREM ChangesAccepted == Spec => []OnlyAccepted
  <1>1. SixPInv => OnlyAccepted
    BY DEF SixPInv, ChangesDue, ChangeDue, OnlyAccepted
  <1> QED BY <1>1, SixPInvariant, PTL

(* With a pool of one block the callbacks of sf-simple.c find the cells of *)
(* their own answer in res_storage.                                        *)
THEOREM CellsAreOwn == Spec => []OwnCells
  <1>1. SixPInv => OwnCells
    BY DEF SixPInv, ChangesDue, ChangeDue, OwnCells, Single
  <1> QED BY <1>1, SixPInvariant, PTL
==============================================================================
