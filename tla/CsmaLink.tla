------------------------------- MODULE CsmaLink -------------------------------
(***************************************************************************)
(* The CSMA sender of module Csma with a lossy radio link to one receiver: *)
(* the sequence numbers of csma_output_packet(), the wait for an           *)
(* acknowledgement in send_one_packet(), the receiver's input_packet() of  *)
(* csma.c and its duplicate detection, mac-sequence.c.                     *)
(*                                                                         *)
(* The receiver's radio acknowledges a unicast frame that it has room for. *)
(* A frame or its acknowledgement may be lost, and the acknowledgement may *)
(* come after the sender has stopped waiting, perhaps into the wait of     *)
(* another attempt.  Broadcasts reach the receiver too, and it also hears  *)
(* other senders.  Fewer packets are sent than there are numbers, and a    *)
(* packet is retried within SEQNO_MAX_AGE, so that the age of an entry     *)
(* makes no difference.  Nobody else uses queue buffers: three packets are *)
(* enough to exhaust them.                                                 *)
(***************************************************************************)
EXTENDS Csma

CONSTANTS Receiver,   \* the address of the receiver
          Self,       \* the address of the sender
          Others,     \* other senders that the receiver hears
          NoSender,   \* the null address of an unused entry
          Width,      \* 256: a sequence number is a byte
          Starts,     \* bound: the random numbers that counting starts with
          MaxRx,      \* frames that fit into the receiver's radio
          MaxSeqnos   \* MAX_SEQNOS

ASSUME CsmaLinkAssumption ==
    /\ Addr = {Receiver} \cup Broadcast /\ Receiver \notin Broadcast
    /\ Self \notin Others /\ NoSender \notin Others \cup {Self}
    /\ Width \in Nat /\ IsFiniteSet(Packet) /\ Cardinality(Packet) < Width - 1
    /\ Starts \subseteq 0..(Width - 1)
    /\ MaxRx \in Nat \ {0}
    /\ MaxSeqnos \in Nat /\ IsFiniteSet(Others) /\ Cardinality(Others) < MaxSeqnos

VARIABLES seqno,            \* the static counter of csma_output_packet()
          number,           \* PACKETBUF_ATTR_MAC_SEQNO of a packet, or 0
          rx,               \* frames in the receiver's radio, oldest first
          late,             \* numbers of acknowledgements still on their way
          overheard,        \* history: packets that took another sender's
                            \* acknowledgement for theirs
          received_seqnos,  \* the receiver's table of senders and numbers
          delivered         \* history: packets given to the network layer

linkVars == <<seqno, number, rx, late, overheard, received_seqnos, delivered>>
allVars == <<vars, linkVars>>

LinkInit ==
    /\ Init
    /\ seqno \in Starts
    /\ number = [p \in Packet |-> 0]
    /\ rx = <<>> /\ late = {} /\ overheard = {}
    /\ received_seqnos = [i \in 1..MaxSeqnos |-> <<NoSender, 0>>]
    /\ delivered = <<>>

------------------------------------------------------------------------------
(* csma_output_packet() numbers the packet, without using 0, before it     *)
(* finds out whether it can be queued.                                     *)
csma_output_packet(p) ==
    /\ output_queue(p) \/ output_drop(p)
    /\ number' = [number EXCEPT ![p] = IF seqno = 0 THEN 1 ELSE seqno]
    /\ seqno' = (number'[p] + 1) % Width
    /\ UNCHANGED <<rx, late, overheard, received_seqnos, delivered>>

(* What has arrived at the receiver. *)
Received == {rx[i] : i \in DOMAIN rx} \cup {delivered[i] : i \in DOMAIN delivered}

(* Slip: any short frame read in the wait is the acknowledgement. *)
AnswerAny(ack, dsn) == "OK"

(* The acknowledgement that is read must carry the number of the frame. *)
Answer(ack, dsn) == IF ack = dsn THEN "OK" ELSE "COLLISION"

(* The frame goes out and arrives or not.  If it does, the sender hears of *)
(* it late or never; air is what is still on its way from earlier frames.  *)
Radiate(a, p, air) ==
    \/ rx' = rx /\ late' = air
    \/ /\ Len(rx) < MaxRx
       /\ rx' = Append(rx, p)
       /\ \/ late' = air
          \/ a = Receiver /\ late' = air \cup {number[p]}

(* send_one_packet(): the frame is not sent, or is a broadcast, or is      *)
(* acknowledged in time, or is not, or another frame is read in the wait,  *)
(* which may be a late acknowledgement, or that of somebody else's frame   *)
(* with the same number: an acknowledgement carries no address.            *)
send_one_packet(a, s) ==
    /\ transmit_from_queue(a, s)
    /\ UNCHANGED <<seqno, number, received_seqnos, delivered>>
    /\ LET p == Head(packet_queue[a]) IN
       \/ s \in {"COLLISION", "ERR"} /\ UNCHANGED <<rx, late, overheard>>
       \/ /\ s = "OK" /\ a \in Broadcast
          /\ Radiate(a, p, late) /\ UNCHANGED overheard
       \/ /\ s = "OK" /\ a = Receiver
          /\ Len(rx) < MaxRx /\ rx' = Append(rx, p)
          /\ UNCHANGED <<late, overheard>>
       \/ /\ s \in {"NOACK", "COLLISION"} /\ a = Receiver
          /\ Radiate(a, p, late) /\ UNCHANGED overheard
       \/ \E ack \in late : /\ s = Answer(ack, number[p]) /\ a = Receiver
                            /\ Radiate(a, p, late \ {ack})
                            /\ UNCHANGED overheard
       \/ /\ s = Answer(number[p], number[p]) /\ a = Receiver
          /\ Radiate(a, p, late)
          /\ overheard' = overheard \cup ({p} \ Received')

(* input_packet() of the sender ignores an acknowledgement read by itself. *)
input_ack(ack) ==
    /\ ack \in late
    /\ late' = late \ {ack}
    /\ UNCHANGED <<vars, seqno, number, rx, overheard, received_seqnos, delivered>>

------------------------------------------------------------------------------
(* Slip: only the entry used last is compared. *)
is_duplicate_first(sender, n) == received_seqnos[1] = <<sender, n>>

(* mac_sequence_is_duplicate(): one entry for a sender, its last number. *)
mac_sequence_is_duplicate(sender, n) ==
    \E i \in 1..MaxSeqnos : received_seqnos[i] = <<sender, n>>

(* mac_sequence_register_seqno(): the sender's entry moves to the front,   *)
(* or the last one makes room.                                             *)
mac_sequence_register_seqno(sender, n) ==
    LET own == {j \in 1..MaxSeqnos : received_seqnos[j][1] = sender}
        i == IF own = {} THEN MaxSeqnos ELSE CHOOSE j \in own : TRUE
    IN received_seqnos' =
         [j \in 1..MaxSeqnos |-> IF j = 1 THEN <<sender, n>>
                                 ELSE received_seqnos[IF j <= i THEN j - 1 ELSE j]]

(* input_packet() of the receiver: a duplicate is dropped. *)
input_packet ==
    /\ rx # <<>>
    /\ rx' = Tail(rx)
    /\ LET p == Head(rx) IN
       IF mac_sequence_is_duplicate(Self, number[p])
       THEN UNCHANGED <<received_seqnos, delivered>>
       ELSE /\ mac_sequence_register_seqno(Self, number[p])
            /\ delivered' = Append(delivered, p)
    /\ UNCHANGED <<vars, seqno, number, late, overheard>>

(* The same for the frames of the other senders, a packet each. *)
input_other(sender) ==
    /\ ~ mac_sequence_is_duplicate(sender, 1)
    /\ mac_sequence_register_seqno(sender, 1)
    /\ UNCHANGED <<vars, seqno, number, rx, late, overheard, delivered>>

LinkNext ==
    \/ \E p \in Packet : csma_output_packet(p)
    \/ \E a \in Addr, s \in Status : send_one_packet(a, s)
    \/ \E ack \in late : input_ack(ack)
    \/ input_packet
    \/ \E sender \in Others : input_other(sender)

LinkSpec == LinkInit /\ [][LinkNext]_allVars

(* Backoff timers expire, and received frames are read. *)
FairLinkSpec ==
    /\ LinkSpec
    /\ \A a \in Addr : WF_allVars(\E s \in Status : send_one_packet(a, s))
    /\ WF_allVars(input_packet)

------------------------------------------------------------------------------
(* A packet that the sender reports as acknowledged has been received, or  *)
(* an acknowledgement with its very number was overheard in its wait, of a *)
(* frame of somebody else.  Late acknowledgements of the sender's own      *)
(* frames are never taken for another packet's, although nothing but the   *)
(* number tells them apart.                                                *)
AckedArrived ==
    \A p \in Packet :
      outcome[p] = "OK" /\ Dest[p] = Receiver => p \in Received \cup overheard

(* "Check for duplicate packet": a packet is given to the network layer    *)
(* twice only when a packet of another queue of the sender was delivered   *)
(* in between, and never after a later packet of its own queue.            *)
RepeatsExplained ==
    \A i, j \in DOMAIN delivered :
      i < j /\ delivered[i] = delivered[j] =>
        LET between == {delivered[k] : k \in (i + 1)..(j - 1)} \ {delivered[i]}
        IN /\ between # {}
           /\ \A q \in between : Dest[q] # Dest[delivered[i]]
==============================================================================
