--------------------------------- MODULE SixP ---------------------------------
(***************************************************************************)
(* The 6top protocol of os/net/mac/tsch/sixtop: sixp.c, the transactions   *)
(* of sixp-trans.c and the sequence numbers of sixp-nbr.c, between nodes   *)
(* whose scheduling function (SF) answers requests as sf-simple.c does:    *)
(* an ADD that is feasible and every DELETE with success and at once,      *)
(* nothing else at all, and never with a confirmation.                     *)
(*                                                                         *)
(* A transaction lives in a block of a small pool, and a frame given to    *)
(* the MAC layer carries a pointer to that block for mac_callback().  The  *)
(* frames received (inbox) and the reports on the frames sent are queued,  *)
(* and TSCH hands over the two queues in either order.  A frame may be     *)
(* lost, and it may arrive although the sender is told that it did not.    *)
(***************************************************************************)
EXTENDS Naturals, Sequences

CONSTANTS Node,
          Request,      \* requests the SFs make: from, to, command, steps
          Block,        \* the blocks of trans_memb (SIXTOP_MAX_TRANSACTIONS)
          NoBlock,      \* the frame has no mac_callback()
          SeqMod,       \* 256: a sequence number is a byte
          MaxRequests   \* bound: requests made

Command == {"ADD", "DELETE", "CLEAR", "LIST"}

ASSUME SixPAssumption ==
    /\ Request \subseteq Node \X Node \X Command \X {2, 3}
    /\ NoBlock \notin Block
    /\ SeqMod \in Nat /\ SeqMod > 1 /\ MaxRequests \in Nat

VARIABLES trans,        \* the blocks of each node, in use or freed
          nbr,          \* next_seqno for each neighbor, NoNbr if it has no entry
          inbox,        \* frames on their way to a node
          reports,      \* what the MAC layer will report of frames sent
          res_storage,  \* the request whose cells the SF put there last
          schedule,     \* the changes the SF of a node made: for which request,
                        \* and with the cells of which request
          requests,     \* history: the number of requests made
          offered,      \* history: the requests answered with success,
          delivered,    \*   and those whose answer arrived
          reused        \* history: the requests that were given a block for
                        \* which the success of another frame was to be reported

vars == <<trans, nbr, inbox, reports, res_storage, schedule, requests, offered,
          delivered, reused>>
macVars == <<inbox, reports, offered, delivered>>

NoNbr == SeqMod
NoCells == 0

(* A block that is not in use. *)
Unused == [used |-> FALSE]

Init ==
    /\ trans = [n \in Node |-> [b \in Block |-> Unused]]
    /\ nbr = [n \in Node |-> [m \in Node |-> NoNbr]]
    /\ inbox = [n \in Node |-> <<>>]
    /\ reports = [n \in Node |-> <<>>]
    /\ res_storage = [n \in Node |-> NoCells]
    /\ schedule = [n \in Node |-> {}]
    /\ requests = 0
    /\ offered = {} /\ delivered = {}
    /\ reused = [n \in Node |-> {}]

------------------------------------------------------------------------------
(* sixp_trans_find(): the transactions with a peer, at most one. *)
With(n, m) == {b \in Block : trans[n][b].used /\ trans[n][b].peer = m}
Free(n) == {b \in Block : ~ trans[n][b].used}

(* Slip: the block is not cleared, and a callback is left in it. *)
NewTrans_dirty(pkt, m) ==
    [used |-> TRUE, peer |-> m, seqno |-> pkt.seqno, cmd |-> pkt.code,
     mode |-> pkt.steps, state |-> "INIT", cb |-> TRUE, timer |-> "timeout",
     id |-> pkt.id]

(* sixp_trans_alloc() *)
NewTrans(pkt, m) ==
    [used |-> TRUE, peer |-> m, seqno |-> pkt.seqno, cmd |-> pkt.code,
     mode |-> pkt.steps, state |-> "INIT", cb |-> FALSE, timer |-> "timeout",
     id |-> pkt.id]

(* A report of success to come for a block. *)
Pending(n, b) ==
    \E i \in DOMAIN reports[n] : reports[n][i].block = b /\ reports[n][i].ok
Reused(n, b, id) ==
    IF Pending(n, b) THEN [reused EXCEPT ![n] = @ \cup {id}] ELSE reused

(* The transitions that sixp_trans_transit_state() allows. *)
Legal(t, s) ==
    \/ s = "TERMINATING"
    \/ t.state = "INIT" /\ s \in {"REQUEST_SENT", "REQUEST_RECEIVED"}
    \/ t.state = "REQUEST_RECEIVED" /\ s = "RESPONSE_SENT"
    \/ t.state = "REQUEST_SENT" /\ s = "RESPONSE_RECEIVED"
    \/ /\ t.mode = 3
       /\ \/ t.state = "RESPONSE_SENT" /\ s = "CONFIRMATION_RECEIVED"
          \/ t.state = "RESPONSE_RECEIVED" /\ s = "CONFIRMATION_SENT"

(* A legal one schedules process_trans(), and so does the termination by   *)
(* which the callers answer an illegal one.                                *)
Transit(t, s) ==
    [t EXCEPT !.state = IF Legal(t, s) THEN s ELSE "TERMINATING",
              !.timer = "process"]

increment_next_seqno(v) == IF (v + 1) % SeqMod = 0 THEN 1 ELSE v + 1

(* next_seqno after a transition. *)
NextSeqno(v, t, s) ==
    IF v = NoNbr \/ ~ Legal(t, s) THEN v
    ELSE CASE s = "REQUEST_SENT" ->
                IF t.cmd = "CLEAR" THEN v ELSE increment_next_seqno(v)
           [] s = "RESPONSE_SENT" ->
                increment_next_seqno(IF t.seqno # 0 THEN t.seqno ELSE v)
           [] OTHER -> v

Pkt(type, code, steps, seqno, id) ==
    [type |-> type, code |-> code, steps |-> steps, seqno |-> seqno, id |-> id]

(* sixtop_output(): the MAC layer sends the frame, which arrives or not,   *)
(* and will report, to the block if there is one, success or failure.      *)
Send(n, m, pkt, b, box) ==
    \E arrives, ok \in BOOLEAN :
      /\ ok => arrives
      /\ inbox' = IF arrives
                  THEN [box EXCEPT ![m] = Append(@, [pkt |-> pkt, src |-> n])]
                  ELSE box
      /\ reports' = IF b = NoBlock THEN reports
                    ELSE [reports EXCEPT ![n] = Append(@, [block |-> b, ok |-> ok])]
      /\ offered' = IF pkt.code = "SUCCESS" THEN offered \cup {pkt.id} ELSE offered
      /\ delivered' = IF pkt.code = "SUCCESS" /\ arrives
                      THEN delivered \cup {pkt.id} ELSE delivered

------------------------------------------------------------------------------
(* Slip: a CLEAR leaves the sequence number of the sender alone. *)
ResetSeqno_keep(cmd, seqno) == seqno

ResetSeqno(cmd, seqno) == IF cmd = "CLEAR" THEN 0 ELSE seqno

(* sixp_output() of a request: the neighbor gets an entry, a CLEAR resets  *)
(* its sequence number after it was read, and only then is a block asked   *)
(* for; without one nothing is sent.  The SF wants no callback.            *)
output_request(n, m, cmd, steps) ==
    /\ requests < MaxRequests /\ With(n, m) = {}
    /\ requests' = requests + 1
    /\ LET seqno == IF nbr[n][m] = NoNbr THEN 0 ELSE nbr[n][m]
           pkt == Pkt("REQUEST", cmd, steps, seqno, requests + 1)
           b == CHOOSE x \in Free(n) : TRUE
       IN /\ nbr' = [nbr EXCEPT ![n][m] = ResetSeqno(cmd, seqno)]
          /\ IF Free(n) = {}
             THEN UNCHANGED <<trans, macVars, reused>>
             ELSE /\ trans' = [trans EXCEPT ![n][b] = NewTrans(pkt, m)]
                  /\ reused' = Reused(n, b, pkt.id)
                  /\ Send(n, m, pkt, b, inbox)
    /\ UNCHANGED <<res_storage, schedule>>

------------------------------------------------------------------------------
(* Slip: the SF takes a frame that was not acknowledged for sent. *)
Updates_blind(r, t) == t.cb

(* The callback of sf-simple.c changes the schedule if the answer was sent. *)
Updates(r, t) == r.ok /\ t.cb

(* A change of the schedule for a request, with the cells of a request. *)
Change(n, id, cells) ==
    [schedule EXCEPT ![n] = @ \cup {[id |-> id, cells |-> cells]}]

(* mac_callback(), with the block as it is now.  A freed one was left in   *)
(* state TERMINATING: success is unexpected there, and of a failure the    *)
(* callback left in it makes nothing.  The cells come from res_storage.    *)
mac_callback(n) ==
    /\ reports[n] # <<>>
    /\ LET r == Head(reports[n])
           t == trans[n][r.block]
           new == IF ~ t.used THEN "UNEXPECTED"
                  ELSE IF ~ r.ok
                  THEN IF t.state = "INIT" THEN "TERMINATING" ELSE t.state
                  ELSE CASE t.state = "INIT" -> "REQUEST_SENT"
                         [] t.state = "REQUEST_RECEIVED" -> "RESPONSE_SENT"
                         [] t.state = "RESPONSE_RECEIVED" -> "CONFIRMATION_SENT"
                         [] OTHER -> "UNEXPECTED"
       IN /\ reports' = [reports EXCEPT ![n] = Tail(@)]
          /\ CASE new = "UNEXPECTED" -> UNCHANGED <<trans, nbr, schedule>>
               [] new \notin {"UNEXPECTED", t.state} /\ ~ Legal(t, new) ->
                    /\ trans' = [trans EXCEPT ![n][r.block] = Transit(t, new)]
                    /\ UNCHANGED <<nbr, schedule>>
               [] OTHER ->
                    /\ trans' = [trans EXCEPT ![n][r.block] =
                         [(IF new = t.state THEN t ELSE Transit(t, new))
                            EXCEPT !.cb = FALSE]]
                    /\ nbr' = [nbr EXCEPT ![n][t.peer] =
                                 IF new = t.state THEN @ ELSE NextSeqno(@, t, new)]
                    /\ schedule' = IF Updates(r, t)
                                   THEN Change(n, t.id, res_storage[n])
                                   ELSE schedule
    /\ UNCHANGED <<inbox, res_storage, requests, offered, delivered, reused>>

------------------------------------------------------------------------------
(* send_back_error(), without a transaction. *)
RefuseRequest(n, m, pkt, code, seqno) ==
    Send(n, m, Pkt("RESPONSE", code, pkt.steps, seqno, pkt.id), NoBlock,
         [inbox EXCEPT ![n] = Tail(@)])

Inconsistent(v, pkt) ==
    /\ pkt.code # "CLEAR"
    /\ \/ v = NoNbr /\ pkt.seqno # 0
       \/ v \notin {NoNbr, 0} /\ pkt.seqno = 0

(* request_input() of sf-simple.c: an ADD that has cells and every DELETE  *)
(* have their cells put into res_storage, whatever was there;              *)
Stores(pkt) ==
    \/ pkt.code = "DELETE"
    \/ pkt.code = "ADD" /\ pkt.steps = 2

(* both are answered at once, the ADD only if its cells are free.  With    *)
(* sixp_output() of the answer the neighbor gets an entry and the          *)
(* transaction the callback of the SF.                                     *)
request_input(n, m, pkt, b, t, v) ==
    /\ res_storage' = IF Stores(pkt) THEN [res_storage EXCEPT ![n] = pkt.id]
                      ELSE res_storage
    /\ \/ /\ Stores(pkt)
          /\ nbr' = [nbr EXCEPT ![n][m] = IF v = NoNbr THEN 0 ELSE v]
          /\ trans' = [trans EXCEPT ![n][b] = [t EXCEPT !.cb = TRUE]]
          /\ Send(n, m, Pkt("RESPONSE", "SUCCESS", t.mode, t.seqno, t.id), b,
                  [inbox EXCEPT ![n] = Tail(@)])
       \/ /\ pkt.code # "DELETE"
          /\ nbr' = [nbr EXCEPT ![n][m] = v]
          /\ trans' = [trans EXCEPT ![n][b] = t]
          /\ inbox' = [inbox EXCEPT ![n] = Tail(@)]
          /\ UNCHANGED <<reports, offered, delivered>>

(* sixp_input() of a request: refused while there is a transaction with    *)
(* the peer, or no block; a CLEAR resets the sequence number before the    *)
(* block is asked for; then the sequence numbers are compared.             *)
input_request(n, m, pkt) ==
    LET v == IF pkt.code = "CLEAR" /\ nbr[n][m] # NoNbr THEN 0 ELSE nbr[n][m]
        b == CHOOSE x \in Free(n) : TRUE
        t == Transit(NewTrans(pkt, m), "REQUEST_RECEIVED")
    IN CASE With(n, m) # {} ->
              /\ RefuseRequest(n, m, pkt, "BUSY", pkt.seqno)
              /\ UNCHANGED <<trans, nbr, res_storage, reused>>
         [] With(n, m) = {} /\ Free(n) = {} ->
              /\ RefuseRequest(n, m, pkt, "BUSY", pkt.seqno)
              /\ nbr' = [nbr EXCEPT ![n][m] = v]
              /\ UNCHANGED <<trans, res_storage, reused>>
         [] OTHER ->
              /\ reused' = Reused(n, b, pkt.id)
              /\ IF Inconsistent(v, pkt)
                 THEN /\ RefuseRequest(n, m, pkt, "ERR_SEQNUM", IF v = NoNbr THEN 0 ELSE v)
                      /\ nbr' = [nbr EXCEPT ![n][m] = v]
                      /\ trans' = [trans EXCEPT ![n][b] = t]
                      /\ UNCHANGED res_storage
                 ELSE request_input(n, m, pkt, b, t, v)

(* sixp_input() of a response, which needs a transaction with its sequence *)
(* number in a state that waits for it; response_input() of sf-simple.c    *)
(* then takes the cells from the frame.                                    *)
input_response(n, m, pkt) ==
    /\ inbox' = [inbox EXCEPT ![n] = Tail(@)]
    /\ UNCHANGED <<nbr, reports, res_storage, offered, delivered, reused>>
    /\ IF \A b \in With(n, m) : trans[n][b].seqno # pkt.seqno
       THEN UNCHANGED <<trans, schedule>>
       ELSE LET b == CHOOSE x \in With(n, m) : TRUE
                t == trans[n][b]
            IN /\ trans' = [trans EXCEPT ![n][b] = Transit(t, "RESPONSE_RECEIVED")]
               /\ schedule' =
                    IF /\ Legal(t, "RESPONSE_RECEIVED") /\ pkt.code = "SUCCESS"
                       /\ t.cmd \in {"ADD", "DELETE"}
                    THEN Change(n, pkt.id, pkt.id)
                    ELSE schedule

sixp_input(n) ==
    /\ inbox[n] # <<>>
    /\ LET pkt == Head(inbox[n]).pkt
           m == Head(inbox[n]).src
       IN \/ pkt.type = "REQUEST" /\ input_request(n, m, pkt) /\ UNCHANGED schedule
          \/ pkt.type = "RESPONSE" /\ input_response(n, m, pkt)
    /\ UNCHANGED requests

------------------------------------------------------------------------------
Over(t) ==
    \/ t.mode = 2 /\ t.state \in {"RESPONSE_SENT", "RESPONSE_RECEIVED"}
    \/ t.state \in {"CONFIRMATION_SENT", "CONFIRMATION_RECEIVED"}

(* Slip: the timer is not set. *)
AwaitNext_idle(t) == [t EXCEPT !.timer = "none"]

(* start_trans_timeout_timer() *)
AwaitNext(t) == [t EXCEPT !.timer = "timeout"]

(* The ctimer of a transaction: process_trans() frees it when it is over,  *)
(* or waits for the next step;                                             *)
process_trans(n, b) ==
    LET t == trans[n][b]
    IN /\ t.used /\ t.timer = "process"
       /\ trans' = [trans EXCEPT ![n][b] =
            CASE t.state = "TERMINATING" -> Unused
              [] t.state # "TERMINATING" /\ Over(t) -> Transit(t, "TERMINATING")
              [] OTHER -> AwaitNext(t)]
       /\ UNCHANGED <<nbr, macVars, res_storage, schedule, requests, reused>>

(* and handle_trans_timeout() ends it. *)
handle_trans_timeout(n, b) ==
    LET t == trans[n][b]
    IN /\ t.used /\ t.timer = "timeout"
       /\ trans' = [trans EXCEPT ![n][b] = Transit(t, "TERMINATING")]
       /\ UNCHANGED <<nbr, macVars, res_storage, schedule, requests, reused>>

Timer(n, b) == process_trans(n, b) \/ handle_trans_timeout(n, b)

Next ==
    \/ \E r \in Request : output_request(r[1], r[2], r[3], r[4])
    \/ \E n \in Node : \/ \E b \in Block : Timer(n, b)
                       \/ mac_callback(n)
                       \/ sixp_input(n)

Spec == Init /\ [][Next]_vars

(* Timers that are set expire. *)
FairSpec == Spec /\ \A n \in Node, b \in Block : WF_vars(Timer(n, b))

------------------------------------------------------------------------------
Id == 1..MaxRequests

Transaction ==
    [used : {TRUE}, peer : Node, seqno : 0..(SeqMod - 1), cmd : Command,
     mode : {2, 3},
     state : {"INIT", "REQUEST_SENT", "REQUEST_RECEIVED", "RESPONSE_SENT",
              "RESPONSE_RECEIVED", "CONFIRMATION_SENT", "CONFIRMATION_RECEIVED",
              "TERMINATING"},
     cb : BOOLEAN, timer : {"none", "timeout", "process"}, id : Id]

RequestPacket ==
    [type : {"REQUEST"}, code : Command, steps : {2, 3}, seqno : 0..(SeqMod - 1),
     id : Id]

ResponsePacket ==
    [type : {"RESPONSE"}, code : {"SUCCESS", "BUSY", "ERR_SEQNUM"}, steps : {2, 3},
     seqno : 0..(SeqMod - 1), id : Id]

(* Type invariant. *)
TypeOK ==
    /\ trans \in [Node -> [Block -> Transaction \cup {Unused}]]
    /\ nbr \in [Node -> [Node -> 0..NoNbr]]
    /\ inbox \in [Node -> Seq([pkt : RequestPacket \cup ResponsePacket, src : Node])]
    /\ reports \in [Node -> Seq([block : Block, ok : BOOLEAN])]
    /\ res_storage \in [Node -> Id \cup {NoCells}]
    /\ schedule \in [Node -> SUBSET [id : Id, cells : Id \cup {NoCells}]]
    /\ requests \in 0..MaxRequests
    /\ offered \subseteq Id /\ delivered \subseteq Id
    /\ reused \in [Node -> SUBSET Id]

(* "next_seqno must have been reset to 0 already": the assertion of        *)
(* sixp_trans_transit_state() when a CLEAR request has been sent.          *)
ClearAsserted ==
    /\ TypeOK
    /\ \A n \in Node, b \in Block :
         LET t == trans[n][b]
         IN t.used /\ t.state = "INIT" /\ t.cmd = "CLEAR" => nbr[n][t.peer] = 0

(* A report that comes after its transaction has ended, even to a block    *)
(* that serves another one by then, never makes a node change its schedule *)
(* for a request that was not accepted; nor for one whose answer did not   *)
(* reach the other node, unless the block of that very request was handed  *)
(* out while the success of another frame was still to be reported to it.  *)
OnlyAccepted ==
    \A n \in Node : \A c \in schedule[n] :
      c.id \in offered /\ c.id \in delivered \cup reused[n]

(* The SF keeps the cells of its answer in the one res_storage until the   *)
(* answer is reported as sent.  With one block, the default, they are then *)
(* still those of the request, whoever else asked in the meantime.         *)
OwnCells ==
    (\E b \in Block : Block = {b}) =>
      \A n \in Node : \A c \in schedule[n] : c.cells = c.id

(* Every transaction ends: when there are no more requests, all blocks are *)
(* free in the end, and peers that refused each other can talk again.      *)
TransEnds == <>[](\A n \in Node, b \in Block : ~ trans[n][b].used)
==============================================================================
